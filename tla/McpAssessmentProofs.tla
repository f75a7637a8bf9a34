------------------------- MODULE McpAssessmentProofs -------------------------
(***************************************************************************)
(* What an assessment of an MCP server promises, for every server, every   *)
(* checkout and whatever scanners and services answer: declared            *)
(* dependencies are listed, whatever order the lockfiles are parsed in; a  *)
(* successful scan tells every advisory; a successful query is whole; and  *)
(* a reported danger blocks.  The first four are about loops over files,   *)
(* pages and advisories, so the proofs go along their prefixes.            *)
(***************************************************************************)
EXTENDS McpAssessment, FiniteSetTheorems, TLAPS

-----------------------------------------------------------------------------
(* Induction and folds. The library's induction theorems take an operator, *)
(* so induction runs over a set of naturals that has a least member, and a *)
(* fold is unrolled into the sequence of its intermediate results.         *)

\* A nonempty set of naturals has a least member.
LEMMA LeastNatural ==
  ASSUME NEW T \in SUBSET Nat, T # {}
  PROVE  \E x \in T : \A y \in T : x <= y
<1>1. PICK n \in T : TRUE
  OBVIOUS
<1> DEFINE F == {0..m : m \in {k \in T : k <= n}}
           R == StrictSubsetOrdering(0..n)
<1>2. IsWellFoundedOn(R, SUBSET (0..n))
  <2>1. IsFiniteSet(0..n)
    BY FS_Interval
  <2> QED BY <2>1, FS_StrictSubsetOrderingWellFounded, FS_FiniteSubsetsOfFinite
<1>3. F \subseteq SUBSET (0..n) /\ F # {}
  BY <1>1
<1>4. \E x \in F : \A y \in F : ~(<<y, x>> \in R)
  <2> HIDE DEF F, R
  <2> QED BY <1>2, <1>3, WFMin
<1>5. PICK m \in T : m <= n /\ \A y \in F : ~(<<y, 0..m>> \in R)
  BY <1>4
<1>6. ASSUME NEW y \in T, y < m PROVE FALSE
  <2>1. 0..y \in F
    BY <1>5, <1>6
  <2>2. 0..y \subseteq 0..m /\ 0..y # 0..m
    <3>1. m \in 0..m /\ m \notin 0..y /\ 0..y \subseteq 0..m
      BY <1>6
    <3> QED BY <3>1
  <2>3. 0..m \in SUBSET (0..n) /\ 0..y \in SUBSET (0..n)
    BY <1>5, <1>6
  <2> QED BY <2>1, <2>2, <2>3, <1>5 DEF StrictSubsetOrdering
<1> QED BY <1>6

\* Induction along the prefixes of a sequence.
LEMMA PrefixInduction ==
  ASSUME NEW n \in Nat, NEW T, 0 \in T, \A k \in 1..n : k - 1 \in T => k \in T
  PROVE  0..n \subseteq T
<1> SUFFICES ASSUME ~(0..n \subseteq T) PROVE FALSE
  OBVIOUS
<1> DEFINE F == (0..n) \ T
<1>1. F \in SUBSET Nat /\ F # {}
  OBVIOUS
<1>2. PICK x \in F : \A y \in F : x <= y
  BY <1>1, LeastNatural
<1>3. x \in 1..n /\ x - 1 \in T
  BY <1>2
<1> QED BY <1>2, <1>3

\* The greatest member of 1..n, and what is left without it.
LEMMA MaxOfPrefix ==
  ASSUME NEW n \in Nat, n # 0
  PROVE  Max(1..n) = n /\ (1..n) \ {n} = 1..(n - 1)
<1>1. n \in 1..n /\ \A y \in 1..n : n >= y
  OBVIOUS
<1>2. \A x \in 1..n : (\A y \in 1..n : x >= y) => x = n
  BY <1>1
<1> QED BY <1>1, <1>2 DEF Max

\* The greatest member of a nonempty set of positions is one of it.
LEMMA MaxIn ==
  ASSUME NEW n \in Nat, NEW s \in SUBSET (1..n), s # {}
  PROVE  Max(s) \in s
<1> DEFINE F == {n - x : x \in s}
<1>1. F \in SUBSET Nat /\ F # {}
  <2>1. \A x \in s : n - x \in Nat
    OBVIOUS
  <2> QED BY <2>1
<1>2. PICK d \in F : \A y \in F : d <= y
  <2> HIDE DEF F
  <2> QED BY <1>1, LeastNatural
<1>3. PICK x \in s : d = n - x
  OBVIOUS
<1>4. \A y \in s : x >= y
  <2> TAKE y \in s
  <2>1. n - x <= n - y
    BY <1>2, <1>3
  <2> QED BY <2>1
<1> QED BY <1>4 DEF Max

\* g gives the value of the fold over every set of positions.
IsFold(g, n, base, step) ==
    \A s \in SUBSET (1..n) : g[s] = IF s = {} THEN base ELSE step[Max(s)][g[s \ {Max(s)}]]

\* The recursion of a fold over a finite set of positions has a solution.
LEMMA FoldExists ==
  ASSUME NEW n \in Nat, NEW X, NEW base \in X, NEW step \in [1..n -> [X -> X]]
  PROVE  \E g \in [SUBSET (1..n) -> X] : IsFold(g, n, base, step)
<1> DEFINE Eq(g, k) == /\ g \in [SUBSET (1..k) -> X]
                       /\ \A s \in SUBSET (1..k) :
                             g[s] = IF s = {} THEN base ELSE step[Max(s)][g[s \ {Max(s)}]]
           T == {k \in 0..n : \E g : Eq(g, k)}
<1>1. 0 \in T
  <2> DEFINE g == [s \in SUBSET (1..0) |-> base]
  <2>1. \A s \in SUBSET (1..0) : s = {}
    OBVIOUS
  <2>2. g \in [SUBSET (1..0) -> X]
    OBVIOUS
  <2>3. Eq(g, 0)
    BY <2>1, <2>2
  <2> HIDE DEF g, Eq
  <2> QED BY <2>3
<1>2. ASSUME NEW k \in 1..n, k - 1 \in T PROVE k \in T
  <2>1. PICK g : Eq(g, k - 1)
    BY <1>2
  <2> DEFINE h == [s \in SUBSET (1..k) |-> IF k \in s THEN step[k][g[s \ {k}]] ELSE g[s]]
  <2>2. \A s \in SUBSET (1..k) : s \ {k} \in SUBSET (1..(k - 1))
    OBVIOUS
  <2>3. \A s \in SUBSET (1..k) : k \notin s => s \in SUBSET (1..(k - 1))
    OBVIOUS
  <2>4. h \in [SUBSET (1..k) -> X]
    BY <2>1, <2>2, <2>3
  <2>5. ASSUME NEW s \in SUBSET (1..k)
        PROVE  h[s] = IF s = {} THEN base ELSE step[Max(s)][h[s \ {Max(s)}]]
    <3>1. CASE k \in s
      <4>1. Max(s) = k
        <5>1. \A y \in s : k >= y
          OBVIOUS
        <5>2. \A x \in s : (\A y \in s : x >= y) => x = k
          BY <3>1, <5>1
        <5> QED BY <3>1, <5>1, <5>2 DEF Max
      <4>2. h[s \ {k}] = g[s \ {k}]
        BY <2>2
      <4> QED BY <3>1, <4>1, <4>2
    <3>2. CASE k \notin s
      <4>1. s \in SUBSET (1..(k - 1)) /\ h[s] = g[s]
        BY <3>2, <2>3
      <4>2. CASE s = {}
        BY <4>1, <4>2, <2>1
      <4>3. CASE s # {}
        <5>1. s \ {Max(s)} \in SUBSET (1..k) /\ k \notin s \ {Max(s)}
          BY <3>2
        <5>2. h[s \ {Max(s)}] = g[s \ {Max(s)}]
          BY <5>1
        <5> QED BY <4>1, <4>3, <5>2, <2>1
      <4> QED BY <4>2, <4>3
    <3> QED BY <3>1, <3>2
  <2>6. Eq(h, k)
    BY <2>4, <2>5
  <2> HIDE DEF h, Eq
  <2> QED BY <2>6
<1>3. n \in T
  <2>1. \A k \in 1..n : k - 1 \in T => k \in T
    BY <1>2
  <2> HIDE DEF T, Eq
  <2>2. 0..n \subseteq T
    BY <1>1, <2>1, PrefixInduction
  <2>3. n \in 0..n
    OBVIOUS
  <2> QED BY <2>2, <2>3
<1>4. PICK g : Eq(g, n)
  BY <1>3
<1>5. IsFold(g, n, base, step)
  BY <1>4 DEF IsFold
<1> QED BY <1>4, <1>5
(* The values of a fold over the prefixes of its sequence have its type.     *)
\* Typed at first and kept by every step: typed all along.
LEMMA PrefixType ==
  ASSUME NEW n \in Nat, NEW X, NEW h, h[0] \in X,
         \A k \in 1..n : h[k - 1] \in X => h[k] \in X
  PROVE  \A k \in 0..n : h[k] \in X
<1> DEFINE T == {k \in 0..n : h[k] \in X}
<1>1. 0 \in T /\ \A k \in 1..n : k - 1 \in T => k \in T
  OBVIOUS
<1>2. 0..n \subseteq T
  <2> HIDE DEF T
  <2> QED BY <1>1, PrefixInduction
<1> QED BY <1>2

\* The prefix 1..k without its greatest position.
LEMMA PrefixStep ==
  ASSUME NEW n \in Nat, NEW k \in 1..n
  PROVE  1..k \in SUBSET (1..n) /\ 1..k # {} /\ Max(1..k) = k /\ (1..k) \ {k} = 1..(k - 1)
BY MaxOfPrefix

\* The prefix before the first position.
LEMMA EmptyPrefix == 1..0 = {}
  OBVIOUS

\* What the recursive function of a fold does where its values have their type.
FoldsIn(it, n, X, base, step) ==
    /\ it[{}] = base
    /\ \A s \in SUBSET (1..n) : s # {} /\ it[s \ {Max(s)}] \in X =>
          it[s] = step[Max(s)][it[s \ {Max(s)}]]

\* h gives the value of the fold over every prefix.
StepByStep(h, n, base, step) ==
    h[0] = base /\ \A k \in 1..n : h[k] = step[k][h[k - 1]]

\* The fold has a result per prefix, each the step from the one before.
Unrolls(it, n, X, base, step) ==
    \E h \in [0..n -> X] : StepByStep(h, n, base, step) /\ h[n] = it[1..n]

\* A fold over a sequence passes through one result per prefix.
LEMMA FoldPrefixes ==
  ASSUME NEW n \in Nat, NEW X, NEW base \in X, NEW step \in [1..n -> [X -> X]],
         NEW it, FoldsIn(it, n, X, base, step)
  PROVE  Unrolls(it, n, X, base, step)
<1> DEFINE h == [k \in 0..n |-> it[1..k]]
<1>1. h[0] = base /\ h[n] = it[1..n]
  BY EmptyPrefix DEF FoldsIn
<1>2. ASSUME NEW k \in 1..n, h[k - 1] \in X
      PROVE  h[k] = step[k][h[k - 1]] /\ h[k] \in X
  <2>1. k \in 0..n /\ k - 1 \in 0..n
    BY <1>2
  <2>2. h[k] = it[1..k] /\ h[k - 1] = it[1..(k - 1)]
    BY <2>1
  <2> HIDE DEF h
  <2>3. it[1..k] = step[k][it[1..(k - 1)]]
    BY <1>2, <2>2, PrefixStep DEF FoldsIn
  <2>4. \A x \in X : step[k][x] \in X
    OBVIOUS
  <2> QED BY <1>2, <2>2, <2>3, <2>4
<1>3. \A k \in 0..n : h[k] \in X
  <2>1. \A k \in 1..n : h[k - 1] \in X => h[k] \in X
    BY <1>2
  <2> HIDE DEF h
  <2> QED BY <1>1, <2>1, PrefixType
<1>4. \A k \in 1..n : h[k] = step[k][h[k - 1]]
  <2> TAKE k \in 1..n
  <2>1. k - 1 \in 0..n
    OBVIOUS
  <2> HIDE DEF h
  <2> QED BY <1>2, <1>3, <2>1
<1>5. h \in [0..n -> X]
  BY <1>3
<1> HIDE DEF h
<1> QED BY <1>1, <1>4, <1>5 DEF StepByStep, Unrolls

(* Sets of elements of sequences. *)

\* The elements of a sequence with one more.
LEMMA ToSetAppend ==
  ASSUME NEW S, NEW s \in Seq(S), NEW e \in S
  PROVE  Append(s, e) \in Seq(S) /\ ToSet(Append(s, e)) = ToSet(s) \cup {e}
<1> DEFINE t == Append(s, e)
<1>1. t \in Seq(S) /\ DOMAIN s = 1..Len(s) /\ DOMAIN t = 1..(Len(s) + 1) /\ Len(s) \in Nat
  OBVIOUS
<1>2. t[Len(s) + 1] = e /\ \A i \in 1..Len(s) : t[i] = s[i]
  OBVIOUS
<1>3. \A i \in 1..(Len(s) + 1) : i \in 1..Len(s) \/ i = Len(s) + 1
  BY <1>1
<1>4. Len(s) + 1 \in 1..(Len(s) + 1) /\ 1..Len(s) \subseteq 1..(Len(s) + 1)
  BY <1>1
<1> HIDE DEF t
<1>5. ToSet(t) = ToSet(s) \cup {e}
  BY <1>1, <1>2, <1>3, <1>4 DEF ToSet
<1> QED BY <1>1, <1>5 DEF t

\* The elements of two sequences in a row.
LEMMA ToSetConcat ==
  ASSUME NEW S, NEW a \in Seq(S), NEW b \in Seq(S)
  PROVE  a \o b \in Seq(S) /\ ToSet(a \o b) = ToSet(a) \cup ToSet(b)
<1> DEFINE c == a \o b
<1>1. /\ c \in Seq(S) /\ DOMAIN a = 1..Len(a) /\ DOMAIN b = 1..Len(b)
      /\ DOMAIN c = 1..(Len(a) + Len(b)) /\ Len(a) \in Nat /\ Len(b) \in Nat
  OBVIOUS
<1>2. \A i \in 1..(Len(a) + Len(b)) : c[i] = IF i <= Len(a) THEN a[i] ELSE b[i - Len(a)]
  OBVIOUS
<1> HIDE DEF c
<1>3. ASSUME NEW x \in ToSet(c) PROVE x \in ToSet(a) \cup ToSet(b)
  <2>1. PICK i \in 1..(Len(a) + Len(b)) : x = c[i]
    BY <1>1 DEF ToSet
  <2>2. CASE i <= Len(a)
    BY <1>1, <1>2, <2>1, <2>2 DEF ToSet
  <2>3. CASE ~(i <= Len(a))
    <3>1. i - Len(a) \in 1..Len(b)
      BY <1>1, <2>3
    <3> QED BY <1>1, <1>2, <2>1, <2>3, <3>1 DEF ToSet
  <2> QED BY <2>2, <2>3
<1>4. ASSUME NEW x \in ToSet(a) PROVE x \in ToSet(c)
  <2>1. PICK i \in 1..Len(a) : x = a[i]
    BY <1>1 DEF ToSet
  <2>2. i \in 1..(Len(a) + Len(b)) /\ i <= Len(a)
    BY <1>1
  <2> QED BY <1>1, <1>2, <2>1, <2>2 DEF ToSet
<1>5. ASSUME NEW x \in ToSet(b) PROVE x \in ToSet(c)
  <2>1. PICK i \in 1..Len(b) : x = b[i]
    BY <1>1 DEF ToSet
  <2>2. Len(a) + i \in 1..(Len(a) + Len(b)) /\ ~(Len(a) + i <= Len(a)) /\ (Len(a) + i) - Len(a) = i
    BY <1>1
  <2>3. c[Len(a) + i] = x
    BY <1>2, <2>1, <2>2
  <2> QED BY <1>1, <2>2, <2>3 DEF ToSet
<1>6. ToSet(c) = ToSet(a) \cup ToSet(b)
  BY <1>3, <1>4, <1>5
<1> QED BY <1>1, <1>6 DEF c

-----------------------------------------------------------------------------
(* The query for advisories about the server's own package (OsvQuery).     *)

\* The advisories are kept or dropped one by one (_dedupe_vulns).
LEMMA DedupePrefixes ==
  ASSUME NEW V, NEW raw \in Seq(V)
  PROVE  \E h \in [0..Len(raw) -> Seq(V)] :
            /\ h[0] = <<>> /\ h[Len(raw)] = DedupeVulns(raw)
            /\ \A k \in 1..Len(raw) : h[k] = KeepVuln(h[k - 1], raw[k])
<1> DEFINE n == Len(raw)
           X == Seq(V)
           step == [k \in 1..n |-> [x \in X |-> KeepVuln(x, raw[k])]]
           it == CHOOSE it : it = [s \in SUBSET DOMAIN raw |->
                    IF s = {} THEN <<>> ELSE KeepVuln(it[s \ {Max(s)}], raw[Max(s)])]
<1>1. n \in Nat /\ <<>> \in X /\ DOMAIN raw = 1..n /\ step \in [1..n -> [X -> X]]
  BY DEF KeepVuln
<1>2. \A k \in 1..n, x \in X : step[k][x] = KeepVuln(x, raw[k])
  OBVIOUS
<1>3. DedupeVulns(raw) = it[1..n]
  BY <1>1 DEF DedupeVulns, FoldLeft, MapThenFoldSet
<1>4. FoldsIn(it, n, X, <<>>, step)
  <2> HIDE DEF step, n, X
  <2>1. PICK g \in [SUBSET (1..n) -> X] : IsFold(g, n, <<>>, step)
    BY <1>1, FoldExists
  <2>2. g = [s \in SUBSET DOMAIN raw |-> IF s = {} THEN <<>> ELSE KeepVuln(g[s \ {Max(s)}], raw[Max(s)])]
    BY <1>1, <1>2, <2>1, MaxIn DEF IsFold
  <2>3. it = [s \in SUBSET DOMAIN raw |-> IF s = {} THEN <<>> ELSE KeepVuln(it[s \ {Max(s)}], raw[Max(s)])]
    BY <2>2
  <2> HIDE DEF it
  <2>4. \A s \in SUBSET (1..n) : it[s] = IF s = {} THEN <<>> ELSE KeepVuln(it[s \ {Max(s)}], raw[Max(s)])
    BY <1>1, <2>3
  <2>5. \A s \in SUBSET (1..n) : s # {} => Max(s) \in 1..n
    BY <1>1, MaxIn
  <2> QED BY <1>2, <2>4, <2>5 DEF FoldsIn
<1> HIDE DEF it, step, n, X
<1>5. PICK h \in [0..n -> X] : StepByStep(h, n, <<>>, step) /\ h[n] = it[1..n]
  <2>1. n \in Nat /\ step \in [1..n -> [X -> X]]
    BY <1>1, <1>4
  <2>2. <<>> \in X
    BY <1>1, <1>4
  <2>3. FoldsIn(it, n, X, <<>>, step)
    BY <1>4
  <2>4. Unrolls(it, n, X, <<>>, step)
    BY <2>1, <2>2, <2>3, FoldPrefixes
  <2> QED BY <2>4 DEF Unrolls
<1>6. \A k \in 1..n : h[k] = KeepVuln(h[k - 1], raw[k])
  <2> TAKE k \in 1..n
  <2>1. k - 1 \in 0..n
    BY <1>1
  <2> QED BY <1>2, <1>5, <2>1 DEF StepByStep
<1> QED BY <1>3, <1>5, <1>6 DEF StepByStep, n, X

Told(vulns, v) == \E w \in ToSet(vulns) : w.ids = v.ids \/ w.ids \cap v.ids # {}

\* Every advisory is kept or shares an identifier with a kept one.
LEMMA DedupeTells ==
  ASSUME NEW raw \in Seq(OsvVuln)
  PROVE  /\ DedupeVulns(raw) \in Seq(OsvVuln)
         /\ \A v \in ToSet(raw) : Told(DedupeVulns(raw), v)
<1>1. PICK h \in [0..Len(raw) -> Seq(OsvVuln)] :
            /\ h[0] = <<>> /\ h[Len(raw)] = DedupeVulns(raw)
            /\ \A k \in 1..Len(raw) : h[k] = KeepVuln(h[k - 1], raw[k])
  BY DedupePrefixes
<1> DEFINE n == Len(raw)
           T == {k \in 0..n : \A j \in 1..k : Told(h[k], raw[j])}
<1>2. n \in Nat /\ DOMAIN raw = 1..n /\ \A k \in 1..n : k \in 0..n /\ k - 1 \in 0..n
  OBVIOUS
<1>3. 0 \in T
  OBVIOUS
<1>4. ASSUME NEW k \in 1..n, k - 1 \in T PROVE k \in T
  <2>1. h[k - 1] \in Seq(OsvVuln) /\ raw[k] \in OsvVuln /\ h[k] = KeepVuln(h[k - 1], raw[k])
    BY <1>1, <1>2
  <2>2. ToSet(h[k - 1]) \subseteq ToSet(h[k])
    <3>1. ToSet(Append(h[k - 1], raw[k])) = ToSet(h[k - 1]) \cup {raw[k]}
      BY <2>1, ToSetAppend
    <3>2. h[k] = h[k - 1] \/ h[k] = Append(h[k - 1], raw[k])
      BY <2>1 DEF KeepVuln
    <3> QED BY <3>1, <3>2
  <2>3. Told(h[k], raw[k])
    <3>1. CASE raw[k].ids \cap Ids(h[k - 1]) # {}
      <4>1. h[k] = h[k - 1]
        BY <2>1, <3>1 DEF KeepVuln
      <4> QED BY <3>1, <4>1 DEF Ids, Told
    <3>2. CASE ~(raw[k].ids \cap Ids(h[k - 1]) # {})
      <4>1. h[k] = Append(h[k - 1], raw[k])
        BY <2>1, <3>2 DEF KeepVuln
      <4>2. raw[k] \in ToSet(h[k])
        BY <2>1, <4>1, ToSetAppend
      <4> QED BY <4>2 DEF Told
    <3> QED BY <3>1, <3>2
  <2>4. \A j \in 1..k : j # k => j \in 1..(k - 1)
    BY <1>2
  <2>5. \A j \in 1..(k - 1) : Told(h[k], raw[j])
    BY <1>4, <2>2 DEF Told
  <2> QED BY <1>2, <2>3, <2>4, <2>5
<1>5. 0..n \subseteq T
  <2>1. \A k \in 1..n : k - 1 \in T => k \in T
    BY <1>4
  <2> HIDE DEF T, n
  <2> QED BY <1>2, <1>3, <2>1, PrefixInduction
<1>6. \A j \in 1..n : Told(h[n], raw[j])
  BY <1>2, <1>5
<1>7. \A v \in ToSet(raw) : \E j \in 1..n : v = raw[j]
  BY <1>2 DEF ToSet
<1>8. h[n] \in Seq(OsvVuln)
  BY <1>1, <1>2
<1> QED BY <1>1, <1>6, <1>7, <1>8

(* The query. *)

Targets == {"package", "latest", "repository"}

ShapedVulns == [ids : SUBSET STRING, severity : STRING \cup {"low"}, affectsLatest : BOOLEAN]

QueryType ==
    [stage : Targets \cup {"resolve", "registry", "done"}, page : Nat, pages : Nat, attempt : Nat,
     failed : BOOLEAN, tokens : SUBSET Nat, got : Seq(OsvVuln), raw : Seq(OsvVuln),
     latest : SUBSET STRING, cut : BOOLEAN,
     answer : [success : BOOLEAN, queryable : BOOLEAN, vulns : Seq(ShapedVulns)]]

\* The pages that were received lie behind the one that is asked for, and what
\* they hold was collected.
Walks(q) ==
    LET pages == PagesOf(q.stage)
    IN /\ q.tokens \subseteq DOMAIN pages /\ q.page \in q.tokens \cup {1}
       /\ \A p \in (q.tokens \cup {1}) \ {q.page} :
             /\ ToSet(pages[p].vulns) \subseteq ToSet(q.got)
             /\ pages[p].next \in q.tokens \cup {0}

HasPackage(q) == NamesPackage /\ ~q.cut => AdvisoriesOf("package") \subseteq ToSet(q.raw)

QueryOK(q) ==
    /\ q \in QueryType
    /\ q.stage \in Targets => Walks(q)
    /\ q.stage \in {"package", "registry", "latest"} => NamesPackage
    /\ q.stage = "repository" => site.repo
    /\ q.stage \in {"registry", "latest", "repository"} => HasPackage(q)
    /\ q.stage = "resolve" => q.raw = <<>>
    /\ q.stage # "done" => q.answer = NoQuery
    /\ q.answer.success /\ q.answer.queryable /\ ~q.cut =>
          \A v \in UNION {AdvisoriesOf(t) : t \in AskedTargets} : Told(q.answer.vulns, v)

\* The pages of a target are typed, and there is a first one.
LEMMA PagesTyped ==
  ASSUME OsvSite(site), NEW t \in Targets
  PROVE  OsvPages(PagesOf(t)) /\ 1 \in DOMAIN PagesOf(t)
<1>1. OsvPages(site.pages[t])
  BY DEF OsvSite, Targets
<1>2. CASE PagesOf(t) = site.pages[t]
  BY <1>1, <1>2 DEF OsvPages
<1>3. CASE PagesOf(t) = <<[vulns |-> <<>>, next |-> 0]>>
  BY <1>3 DEF OsvPages
<1> QED BY <1>2, <1>3 DEF PagesOf

\* A fetch that stops at a page without a token has collected everything that
\* the first page leads to.
LEMMA WalkIsWhole ==
  ASSUME NEW t \in Targets, OsvSite(site), NEW known \in SUBSET Nat, NEW got,
         known \subseteq DOMAIN PagesOf(t), 1 \in known,
         \A p \in known : /\ ToSet(PagesOf(t)[p].vulns) \subseteq ToSet(got)
                          /\ PagesOf(t)[p].next \in known \cup {0}
  PROVE  AdvisoriesOf(t) \subseteq ToSet(got)
<1>1. ReachedPages(PagesOf(t)) \subseteq known
  BY DEF ReachedPages
<1> QED BY <1>1 DEF AdvisoriesOf

\* Starting to fetch a target keeps the facts about the query.
LEMMA FetchOK ==
  ASSUME OsvSite(site), NEW q \in QueryType, NEW t \in Targets, q.answer = NoQuery,
         t = "repository" => site.repo /\ HasPackage(q), t # "repository" => NamesPackage,
         t = "latest" => HasPackage(q)
  PROVE  QueryOK(Fetch(q, t))
<1> DEFINE f == Fetch(q, t)
<1>1. /\ f \in QueryType /\ f.stage = t /\ f.tokens = {} /\ f.page = 1 /\ f.raw = q.raw /\ f.cut = q.cut
      /\ f.answer = NoQuery
  <2> DEFINE g == [q EXCEPT !.stage = t, !.page = 1, !.pages = 0, !.attempt = 0, !.failed = FALSE]
             e == [g EXCEPT !.tokens = {}]
  <2>1. g \in QueryType
    BY DEF QueryType
  <2>2. g.stage = t /\ g.page = 1 /\ g.raw = q.raw /\ g.cut = q.cut /\ g.answer = q.answer
    BY DEF QueryType
  <2>3. f = [e EXCEPT !.got = <<>>]
    BY Zenon DEF Fetch
  <2> HIDE DEF g, f
  <2>4. /\ e \in QueryType /\ e.stage = t /\ e.page = 1 /\ e.raw = q.raw /\ e.cut = q.cut
        /\ e.answer = q.answer /\ e.tokens = {}
    BY <2>1, <2>2 DEF QueryType
  <2>5. <<>> \in Seq(OsvVuln)
    OBVIOUS
  <2> HIDE DEF e
  <2>6. f \in QueryType
    BY <2>3, <2>4, <2>5 DEF QueryType
  <2>7. /\ f.stage = t /\ f.page = 1 /\ f.raw = q.raw /\ f.cut = q.cut
        /\ f.answer = NoQuery /\ f.tokens = {}
    BY <2>3, <2>4 DEF QueryType
  <2> QED BY <2>6, <2>7
<1>2. f.answer.success = FALSE
  BY <1>1 DEF NoQuery
<1> HIDE DEF f
<1>3. Walks(f) /\ (HasPackage(q) => HasPackage(f))
  BY <1>1, PagesTyped DEF Walks, HasPackage
<1> QED BY <1>1, <1>2, <1>3 DEF QueryOK, Targets, f

\* So does the shaped answer.
LEMMA ShapedOK ==
  ASSUME NEW q \in QueryType,
         ~q.cut => \A t \in AskedTargets : AdvisoriesOf(t) \subseteq ToSet(q.raw)
  PROVE  QueryOK(Shaped(q))
<1> DEFINE vulns == DedupeVulns(q.raw)
           shaped == [i \in DOMAIN vulns |-> ShapeVuln(vulns[i], q.latest)]
           f == Shaped(q)
<1>1. q.raw \in Seq(OsvVuln) /\ q.latest \in SUBSET STRING
  BY DEF QueryType
<1>2. vulns \in Seq(OsvVuln) /\ \A v \in ToSet(q.raw) : Told(vulns, v)
  BY <1>1, DedupeTells
<1>3. shaped \in Seq(ShapedVulns) /\ \A i \in DOMAIN vulns : shaped[i].ids = vulns[i].ids
  <2> HIDE DEF vulns
  <2>1. \A i \in DOMAIN vulns : vulns[i] \in OsvVuln
    BY <1>2
  <2>2. \A v \in OsvVuln : ShapeVuln(v, q.latest) \in ShapedVulns
    <3> TAKE v \in OsvVuln
    <3>1. v.ids \in SUBSET STRING /\ v.severity \in STRING
      BY DEF OsvVuln
    <3>2. (IF v.severity = "none" THEN "low" ELSE v.severity) \in STRING \cup {"low"}
      BY <3>1
    <3>3. (v.ids \cap q.latest # {}) \in BOOLEAN
      OBVIOUS
    <3> QED BY <3>1, <3>2, <3>3 DEF ShapeVuln, ShapedVulns
  <2>3. \A i \in DOMAIN vulns : shaped[i] \in ShapedVulns /\ shaped[i].ids = vulns[i].ids
    BY <2>1, <2>2 DEF ShapeVuln
  <2>4. DOMAIN vulns = 1..Len(vulns) /\ Len(vulns) \in Nat /\ DOMAIN shaped = DOMAIN vulns
    BY <1>2
  <2>5. shaped = [i \in 1..Len(vulns) |-> shaped[i]]
    BY <2>4
  <2> HIDE DEF shaped
  <2> QED BY <2>3, <2>4, <2>5
<1>4. \A v \in ToSet(q.raw) : Told(shaped, v)
  <2> TAKE v \in ToSet(q.raw)
  <2> HIDE DEF vulns
  <2>1. PICK i \in DOMAIN vulns : vulns[i].ids = v.ids \/ vulns[i].ids \cap v.ids # {}
    BY <1>2 DEF Told, ToSet
  <2>2. shaped[i] \in ToSet(shaped)
    BY DEF ToSet
  <2> HIDE DEF shaped
  <2> QED BY <1>3, <2>1, <2>2 DEF Told
<1>5. f = [q EXCEPT !.stage = "done", !.answer = [success |-> TRUE, queryable |-> TRUE, vulns |-> shaped]]
  BY DEF Shaped
<1> HIDE DEF f, shaped, vulns
<1>6. f \in QueryType /\ f.stage = "done" /\ f.answer.vulns = shaped /\ f.cut = q.cut
  BY <1>3, <1>5 DEF QueryType
<1> QED BY <1>4, <1>6 DEF QueryOK, Targets, f

\* So does the choice of what to fetch next.
LEMMA OnwardOK ==
  ASSUME OsvSite(site), NEW q \in QueryType, NamesPackage, HasPackage(q), q.answer = NoQuery
  PROVE  QueryOK(Onward(q))
<1>1. CASE site.repo
  BY <1>1, FetchOK DEF Onward, Targets
<1>2. CASE ~site.repo
  <2>1. AskedTargets = {"package"}
    BY <1>2 DEF AskedTargets
  <2> QED BY <1>2, <2>1, ShapedOK DEF Onward, HasPackage
<1> QED BY <1>1, <1>2

\* So does the return of a target whose pages were collected.
LEMMA ReturnedOK ==
  ASSUME OsvSite(site), NEW q, QueryOK(q), q.stage \in Targets,
         ~q.cut => AdvisoriesOf(q.stage) \subseteq ToSet(q.got)
  PROVE  QueryOK(Returned(q))
<1>0. q \in QueryType /\ q.answer = NoQuery
  BY DEF QueryOK, Targets
<1>1. CASE q.stage = "package"
  <2> DEFINE f == [q EXCEPT !.raw = q.got, !.stage = "registry"]
  <2>1. f \in QueryType /\ f.stage = "registry" /\ f.raw = q.got /\ f.cut = q.cut /\ f.answer = NoQuery
    BY <1>0 DEF QueryType
  <2>2. Returned(q) = f /\ NamesPackage
    BY <1>1 DEF Returned, QueryOK
  <2>3. f.answer.success = FALSE
    BY <2>1 DEF NoQuery
  <2> HIDE DEF f
  <2> QED BY <1>1, <2>1, <2>2, <2>3 DEF QueryOK, HasPackage, Targets
<1>2. CASE q.stage = "latest"
  <2> DEFINE f == [q EXCEPT !.latest = Ids(q.got)]
  <2>1. Ids(q.got) \in SUBSET STRING
    <3>1. q.got \in Seq(OsvVuln)
      BY <1>0 DEF QueryType
    <3>2. \A v \in ToSet(q.got) : v \in OsvVuln
      BY <3>1 DEF ToSet
    <3> QED BY <3>2 DEF Ids, OsvVuln
  <2>2. f \in QueryType /\ f.raw = q.raw /\ f.cut = q.cut /\ f.answer = NoQuery
    BY <1>0, <2>1 DEF QueryType
  <2>3. Returned(q) = Onward(f) /\ NamesPackage /\ HasPackage(q)
    BY <1>2 DEF Returned, QueryOK
  <2> HIDE DEF f
  <2> QED BY <2>2, <2>3, OnwardOK DEF HasPackage
<1>3. CASE q.stage = "repository"
  <2> DEFINE f == [q EXCEPT !.raw = q.raw \o q.got]
  <2>1. q.raw \o q.got \in Seq(OsvVuln) /\ ToSet(q.raw \o q.got) = ToSet(q.raw) \cup ToSet(q.got)
    <3>1. q.raw \in Seq(OsvVuln) /\ q.got \in Seq(OsvVuln)
      BY <1>0 DEF QueryType
    <3> QED BY <3>1, ToSetConcat
  <2>2. f \in QueryType /\ f.raw = q.raw \o q.got /\ f.cut = q.cut
    BY <1>0, <2>1 DEF QueryType
  <2>3. Returned(q) = Shaped(f) /\ site.repo /\ HasPackage(q)
    BY <1>3 DEF Returned, QueryOK
  <2> HIDE DEF f
  <2>4. ~f.cut => \A t \in AskedTargets : AdvisoriesOf(t) \subseteq ToSet(f.raw)
    BY <1>3, <2>1, <2>2, <2>3 DEF HasPackage, AskedTargets
  <2> QED BY <2>2, <2>3, <2>4, ShapedOK
<1> QED BY <1>1, <1>2, <1>3 DEF Targets

\* What leaves the walk alone, or adds to what was collected, keeps the facts
\* about it.
LEMMA SameWalk ==
  ASSUME NEW q, QueryOK(q), NEW f \in QueryType, f.stage = q.stage, f.page = q.page,
         f.tokens = q.tokens, f.raw = q.raw, f.answer = q.answer, f.cut = q.cut \/ f.cut,
         ToSet(q.got) \subseteq ToSet(f.got)
  PROVE  QueryOK(f)
<1>1. Walks(q) => Walks(f)
  BY DEF Walks
<1>2. HasPackage(q) => HasPackage(f)
  BY DEF HasPackage
<1> QED BY <1>1, <1>2 DEF QueryOK

\* So does an exception of a fetch, which the query catches or answers.
LEMMA FetchRaisesOK ==
  ASSUME OsvSite(site), NEW q, QueryOK(q), q.stage \in Targets
  PROVE  QueryOK(FetchRaises(q))
<1>1. q \in QueryType /\ q.answer = NoQuery
  BY DEF QueryOK, Targets
<1>2. CASE q.stage = "latest"
  BY <1>1, <1>2, OnwardOK DEF FetchRaises, QueryOK
<1>3. CASE q.stage # "latest"
  <2> DEFINE f == [q EXCEPT !.stage = "done"]
  <2>1. f \in QueryType /\ f.stage = "done" /\ f.answer = NoQuery
    BY <1>1 DEF QueryType
  <2>2. f.answer.success = FALSE
    BY <2>1 DEF NoQuery
  <2> HIDE DEF f
  <2>3. QueryOK(f)
    BY <2>1, <2>2 DEF QueryOK, Targets
  <2> QED BY <1>3, <2>3 DEF FetchRaises, f
<1> QED BY <1>2, <1>3

\* So does a page: a token of the walk leads to a page known or to the next.
LEMMA ReceivePageOK ==
  ASSUME OsvSite(site), QueryOK(query), ReceivePage
  PROVE  QueryOK(query')
<1> DEFINE t == query.stage
           pages == PagesOf(t)
           page == pages[query.page]
           got == [query EXCEPT !.got = @ \o page.vulns, !.pages = @ + 1,
                                !.attempt = 0, !.failed = FALSE]
<1>1. t \in Targets /\ query \in QueryType /\ Walks(query)
  BY DEF ReceivePage, Fetching, QueryOK, Targets
<1>2. OsvPages(pages) /\ 1 \in DOMAIN pages
  BY <1>1, PagesTyped
<1>3. query.page \in DOMAIN pages /\ page.vulns \in Seq(OsvVuln) /\ page.next \in DOMAIN pages \cup {0}
      /\ DOMAIN pages \subseteq Nat
  <2>1. query.page \in DOMAIN pages /\ pages \in Seq([vulns : Seq(OsvVuln), next : Nat])
    BY <1>1, <1>2 DEF Walks, OsvPages
  <2>2. page \in [vulns : Seq(OsvVuln), next : Nat]
    <3> DEFINE R == [vulns : Seq(OsvVuln), next : Nat]
    <3> HIDE DEF pages, R
    <3>1. pages \in Seq(R) /\ query.page \in DOMAIN pages
      BY <2>1 DEF R
    <3>2. pages[query.page] \in R
      BY <3>1
    <3> QED BY <3>2 DEF R
  <2> QED BY <1>2, <2>1, <2>2 DEF OsvPages
<1>4. query.got \in Seq(OsvVuln) /\ query.pages \in Nat
  BY <1>1 DEF QueryType
<1>5. /\ query.got \o page.vulns \in Seq(OsvVuln)
      /\ ToSet(query.got \o page.vulns) = ToSet(query.got) \cup ToSet(page.vulns)
  <2> HIDE DEF page
  <2> QED BY <1>3, <1>4, ToSetConcat
<1>6. /\ got \in QueryType /\ got.stage = t /\ got.page = query.page /\ got.tokens = query.tokens
      /\ got.raw = query.raw /\ got.answer = query.answer /\ got.cut = query.cut
      /\ got.got = query.got \o page.vulns
  <2> DEFINE g == [query EXCEPT !.got = query.got \o page.vulns]
             m == query.pages + 1
  <2>1. /\ g \in QueryType /\ g.stage = t /\ g.page = query.page /\ g.tokens = query.tokens
        /\ g.raw = query.raw /\ g.answer = query.answer /\ g.cut = query.cut
        /\ g.got = query.got \o page.vulns
    BY <1>1, <1>5 DEF QueryType
  <2>2. got = [g EXCEPT !.pages = m, !.attempt = 0, !.failed = FALSE]
    BY Zenon
  <2>3. m \in Nat
    BY <1>4
  <2> HIDE DEF g, got, m
  <2> QED BY <2>1, <2>2, <2>3 DEF QueryType
<1>7. QueryOK(got)
  <2> HIDE DEF got, page
  <2> QED BY <1>5, <1>6, SameWalk
<1>8. \A p \in query.tokens \cup {1} :
        /\ ToSet(pages[p].vulns) \subseteq ToSet(got.got)
        /\ pages[p].next \in query.tokens \cup {0, page.next}
  <2> HIDE DEF got
  <2> QED BY <1>1, <1>5, <1>6 DEF Walks
<1>9. CASE query' = Returned(got) /\ page.next = 0
  <2>1. AdvisoriesOf(t) \subseteq ToSet(got.got)
    <3> DEFINE known == query.tokens \cup {1}
    <3>1. known \in SUBSET Nat /\ known \subseteq DOMAIN pages /\ 1 \in known
      BY <1>1, <1>2, <1>3 DEF Walks
    <3>2. \A p \in known : ToSet(pages[p].vulns) \subseteq ToSet(got.got) /\ pages[p].next \in known \cup {0}
      BY <1>8, <1>9
    <3> HIDE DEF known, got, page
    <3> QED BY <1>1, <3>1, <3>2, WalkIsWhole
  <2> HIDE DEF got, page
  <2> QED BY <1>1, <1>6, <1>7, <1>9, <2>1, ReturnedOK
<1>10. CASE query' = Returned([got EXCEPT !.cut = TRUE])
  <2> DEFINE f == [got EXCEPT !.cut = TRUE]
  <2> HIDE DEF got
  <2>1. /\ f \in QueryType /\ f.stage = got.stage /\ f.page = got.page /\ f.tokens = got.tokens
        /\ f.raw = got.raw /\ f.answer = got.answer /\ f.cut /\ f.got = got.got
    BY <1>6 DEF QueryType
  <2> HIDE DEF f
  <2>2. QueryOK(f)
    BY <1>7, <2>1, SameWalk
  <2> QED BY <1>1, <1>6, <1>10, <2>1, <2>2, ReturnedOK DEF f
<1>11. CASE /\ query' = [got EXCEPT !.tokens = @ \cup {page.next}, !.page = page.next]
            /\ page.next # 0
  <2> HIDE DEF got
  <2>1. got.tokens \cup {page.next} \in SUBSET Nat /\ page.next \in Nat
    BY <1>3, <1>6 DEF QueryType
  <2>2. /\ query' \in QueryType /\ query'.stage = t /\ query'.page = page.next
        /\ query'.tokens = query.tokens \cup {page.next} /\ query'.raw = got.raw
        /\ query'.answer = got.answer /\ query'.cut = got.cut /\ query'.got = got.got
    <3> HIDE DEF page
    <3> QED BY <1>6, <1>11, <2>1 DEF QueryType
  <2>3. LET q == query' IN Walks(q)
    BY <1>1, <1>3, <1>8, <1>11, <2>2 DEF Walks
  <2>4. LET q == query' IN HasPackage(got) => HasPackage(q)
    BY <2>2 DEF HasPackage
  <2> QED BY <1>1, <1>6, <1>7, <2>2, <2>3, <2>4 DEF QueryOK
<1> QED BY <1>9, <1>10, <1>11 DEF ReceivePage

\* So does every step of the query.
LEMMA QueryStepOK ==
  ASSUME OsvSite(site), QueryOK(query), QueryStep
  PROVE  QueryOK(query') /\ site' = site
<1>0. query \in QueryType
  BY DEF QueryOK
<1>1. CASE ResolvePackage
  <2>1. query.stage = "resolve" /\ query.raw = <<>> /\ query.answer = NoQuery
    BY <1>1 DEF ResolvePackage, QueryOK
  <2>2. CASE NamesPackage
    BY <1>0, <1>1, <2>1, <2>2, FetchOK DEF ResolvePackage, Targets
  <2>3. CASE ~NamesPackage /\ site.repo
    BY <1>0, <1>1, <2>1, <2>3, FetchOK DEF ResolvePackage, Targets, HasPackage
  <2>4. CASE ~NamesPackage /\ ~site.repo
    <3> DEFINE a == [NoQuery EXCEPT !.success = TRUE]
               f == [query EXCEPT !.stage = "done", !.answer = a]
    <3>1. NoQuery \in [success : BOOLEAN, queryable : BOOLEAN, vulns : Seq(ShapedVulns)]
      BY <1>0, <2>1 DEF QueryType
    <3>2. a \in [success : BOOLEAN, queryable : BOOLEAN, vulns : Seq(ShapedVulns)] /\ a.queryable = FALSE
      <4>1. NoQuery.queryable = FALSE
        BY DEF NoQuery
      <4> QED BY <3>1, <4>1
    <3> HIDE DEF a
    <3>3. f \in QueryType /\ f.stage = "done" /\ f.answer = a
      BY <1>0, <3>2 DEF QueryType
    <3>4. query' = f
      BY <1>1, <2>4 DEF ResolvePackage, a
    <3> HIDE DEF f
    <3>5. QueryOK(f)
      BY <3>2, <3>3 DEF QueryOK, Targets
    <3> QED BY <1>1, <3>4, <3>5 DEF ResolvePackage
  <2> QED BY <2>2, <2>3, <2>4
<1>2. ASSUME NEW kind \in {"timeout", "busy"}, RequestFails(kind)
      PROVE  QueryOK(query') /\ site' = site
  <2>1. CASE query.attempt < MaxRetries
    <3> DEFINE m == query.attempt + 1
               b == query.failed \/ kind = "timeout"
               f == [query EXCEPT !.attempt = m, !.failed = b]
    <3>1. m \in Nat /\ b \in BOOLEAN
      BY <1>0 DEF QueryType
    <3>2. query' = f
      BY <1>2, <2>1, Zenon DEF RequestFails, RetryOrRaise
    <3> HIDE DEF m, b
    <3>3. /\ f \in QueryType /\ f.stage = query.stage /\ f.page = query.page /\ f.tokens = query.tokens
          /\ f.raw = query.raw /\ f.answer = query.answer /\ f.cut = query.cut /\ f.got = query.got
      BY <1>0, <3>1 DEF QueryType
    <3> HIDE DEF f
    <3> QED BY <1>2, <3>2, <3>3, SameWalk DEF RequestFails
  <2>2. CASE ~(query.attempt < MaxRetries)
    BY <1>2, <2>2, FetchRaisesOK DEF RequestFails, RetryOrRaise, Fetching, Targets
  <2> QED BY <2>1, <2>2
<1>3. CASE RequestRefused
  BY <1>3, FetchRaisesOK DEF RequestRefused, Fetching, Targets
<1>4. CASE RequestNull
  <2>1. CASE query.failed
    BY <1>4, <2>1, FetchRaisesOK DEF RequestNull, Fetching, Targets
  <2>2. CASE ~query.failed
    <3> DEFINE f == [query EXCEPT !.cut = TRUE]
    <3>1. /\ f \in QueryType /\ f.stage = query.stage /\ f.page = query.page /\ f.tokens = query.tokens
          /\ f.raw = query.raw /\ f.answer = query.answer /\ f.cut /\ f.got = query.got
      BY <1>0 DEF QueryType
    <3>2. query' = Returned(f) /\ query.stage \in Targets /\ site' = site
      BY <1>4, <2>2 DEF RequestNull, Fetching, Targets
    <3> HIDE DEF f
    <3>3. QueryOK(f)
      BY <3>1, SameWalk
    <3> QED BY <3>1, <3>2, <3>3, ReturnedOK
  <2> QED BY <2>1, <2>2
<1>5. CASE ReceivePage
  BY <1>5, ReceivePageOK DEF ReceivePage
<1>6. ASSUME NEW answer, FetchLatestRegistryVersion(answer)
      PROVE  QueryOK(query') /\ site' = site
  <2>1. query.stage = "registry" /\ NamesPackage /\ HasPackage(query) /\ query.answer = NoQuery
    BY <1>6 DEF FetchLatestRegistryVersion, QueryOK, Targets
  <2>2. QueryOK(Fetch(query, "latest")) /\ QueryOK(Onward(query))
    BY <1>0, <2>1, FetchOK, OnwardOK DEF Targets
  <2> QED BY <1>6, <2>2 DEF FetchLatestRegistryVersion
<1> QED BY <1>1, <1>2, <1>3, <1>4, <1>5, <1>6 DEF QueryStep

OsvInvariant == world \in Worlds /\ site = world.site /\ QueryOK(query)

\* The facts hold before the query starts.
LEMMA QueryStartOK ==
  ASSUME query = QueryStart
  PROVE  QueryOK(query)
<1>1. NoQuery \in [success : BOOLEAN, queryable : BOOLEAN, vulns : Seq(ShapedVulns)] /\ NoQuery.success = FALSE
  <2>1. <<>> \in Seq(ShapedVulns)
    OBVIOUS
  <2> QED BY <2>1 DEF NoQuery
<1>2. <<>> \in Seq(OsvVuln)
  OBVIOUS
<1>3. query \in QueryType /\ query.stage = "resolve" /\ query.raw = <<>> /\ query.answer = NoQuery
  BY <1>1, <1>2 DEF QueryStart, QueryType
<1> QED BY <1>1, <1>3 DEF QueryOK, Targets

\* Every step of the assessment keeps the invariant of the query.
LEMMA OsvStep == ASSUME OsvInvariant, [Next]_vars PROVE OsvInvariant'
<1>1. OsvSite(site)
  BY WorldsAssumption DEF OsvInvariant
<1>2. CASE QueryAdvisories
  <2>1. QueryStep /\ world' = world
    BY <1>2 DEF QueryAdvisories
  <2>2. QueryOK(query') /\ site' = site
    BY <1>1, <2>1, QueryStepOK DEF OsvInvariant
  <2>3. QueryOK(query)' <=> QueryOK(query')
    BY <2>2 DEF QueryOK, HasPackage, Walks, PagesOf, NamesPackage, AdvisoriesOf, AskedTargets
  <2> QED BY <2>1, <2>2, <2>3 DEF OsvInvariant
<1>3. CASE UNCHANGED <<site, query, world>>
  BY <1>3 DEF OsvInvariant, QueryOK, HasPackage, Walks, PagesOf, NamesPackage, AdvisoriesOf, AskedTargets
<1> QED BY <1>2, <1>3 DEF Next, vars, osvVars, Finished, UseGivenPath, UseNoRepository, CloneRepository,
          CloneFails, ScanDependencies, ExtractorsAnswer, ExtractorRaises, Evaluate

\* Whatever pages the service returns: an answer that counts as a success
\* holds every advisory that was to be asked for, or one it shares an identifier
\* with (osv.py, query and _fetch).
THEOREM OsvAnswersAreWhole == Spec => []OsvSuccessIsWhole
<1>1. Init => OsvInvariant
  BY QueryStartOK DEF Init, OsvInvariant
<1>2. OsvInvariant => OsvSuccessIsWhole
  BY DEF OsvInvariant, QueryOK, OsvSuccessIsWhole, Told
<1> QED BY <1>1, <1>2, OsvStep, PTL DEF Spec

-----------------------------------------------------------------------------
(* The assessment: on what it decides, and what a scan reports.            *)

\* What the five extractors answer.
Answers ==
    [known |-> TRUE,
     classification |-> Classification(world.local, HasRepoUrl, world.saas),
     fingerprint |-> Fingerprint(world.local, world.wire),
     auth |-> AuthModes(world.local, world.auth),
     tools |-> ToolAnalysis(world.local, CheckoutRead, world.tools),
     secrets |-> SecretsScan(CheckoutRead, world.secrets)]

\* An assessment reads a checkout exactly where the server has one, and decides
\* on what all extractors answered.
Assessing ==
    /\ assessment = [stage |-> assessment.stage, checkout |-> assessment.checkout,
                     answers |-> assessment.answers, decision |-> assessment.decision,
                     assessed |-> assessment.assessed]
    /\ assessment.stage \in {"clone", "extract", "done"}
    /\ assessment.stage = "clone" => assessment.answers = NoAnswers /\ DependencyInit
    /\ assessment.stage = "extract" \/ Decided => HasCheckout = CheckoutRead
    /\ assessment.answers = NoAnswers \/ assessment.answers = Answers
    /\ Decided => assessment.answers = Answers /\ assessment.decision = Decision(Subject)

\* A scan that reports success merged what its scanners said.
Merged ==
    /\ phase = "done" /\ ~ScannersFailed /\ ~Unreadable
    /\ result.dependencies = Dependencies
    /\ \E e \in BuildPurlVulns(Recorded) :
          result.entries = MergeDatadogMalicious(e, Dependencies, world.listed)

Scanning ==
    /\ depscan = Running \/ depscan \in DepscanEnd
    /\ osv = Running \/ osv \in OsvEnd
    /\ result.success \in BOOLEAN
    /\ result.success => Merged

\* Every step keeps on what an assessment decides.
LEMMA AssessingStep ==
  ASSUME world \in Worlds, Assessing, [Next]_vars
  PROVE  Assessing'
<1> DEFINE a == assessment
           Shape(x) == x = [stage |-> x.stage, checkout |-> x.checkout, answers |-> x.answers,
                            decision |-> x.decision, assessed |-> x.assessed]
<1>0. world.repo \in {"none", "path", "url"}
  BY WorldsAssumption
<1> USE DEF Assessing
<1>1. ASSUME NEW c \in {"given", "cloned", "none"}, a.stage = "clone", Extract(c), world' = world,
             (c # "none") = CheckoutRead
      PROVE  Assessing'
  <2>1. /\ Shape(a') /\ a'.stage = "extract" /\ a'.checkout = c /\ a'.answers = NoAnswers
    BY <1>1 DEF Extract
  <2>2. HasCheckout' = CheckoutRead'
    BY <1>1, <2>1 DEF HasCheckout, CheckoutRead
  <2> QED BY <2>1, <2>2 DEF NoAnswers, Decided
<1>2. CASE UseGivenPath
  BY <1>1, <1>2 DEF UseGivenPath, CheckoutRead
<1>3. CASE UseNoRepository
  BY <1>1, <1>3 DEF UseNoRepository, CheckoutRead
<1>4. CASE CloneRepository
  BY <1>1, <1>4 DEF CloneRepository, CheckoutRead, HasRepoUrl
<1>5. ASSUME a' = Raises, world' = world
      PROVE  Assessing'
  <2>1. Shape(a') /\ a'.stage = "done" /\ a'.decision = "raised" /\ a'.answers = a.answers
    BY <1>5 DEF Raises
  <2>2. Answers' = Answers
    BY <1>5 DEF Answers, HasRepoUrl, CheckoutRead
  <2> QED BY <2>1, <2>2 DEF Decided
<1>6. CASE CloneFails \/ ExtractorRaises
  BY <1>5, <1>6 DEF CloneFails, ExtractorRaises
<1>7. CASE ScanDependencies \/ QueryAdvisories
  <2>1. a' = a /\ world' = world /\ a.stage = "extract"
    BY <1>7 DEF ScanDependencies, QueryAdvisories, Extracting
  <2>2. Answers' = Answers /\ HasCheckout' = HasCheckout /\ CheckoutRead' = CheckoutRead
    BY <2>1 DEF Answers, HasRepoUrl, CheckoutRead, HasCheckout
  <2> QED BY <2>1, <2>2 DEF Decided
<1>8. CASE ExtractorsAnswer
  <2>1. /\ Shape(a') /\ a'.stage = "extract" /\ a'.answers = Answers /\ a'.checkout = a.checkout
        /\ world' = world
    BY <1>8 DEF ExtractorsAnswer, Extracting, Answers
  <2>2. Answers' = Answers /\ HasCheckout' = HasCheckout /\ CheckoutRead' = CheckoutRead
    BY <2>1 DEF Answers, HasRepoUrl, CheckoutRead, HasCheckout
  <2> QED BY <1>8, <2>1, <2>2 DEF Decided, ExtractorsAnswer, Extracting
<1>9. CASE Evaluate
  <2>1. /\ Shape(a') /\ a'.stage = "done" /\ a'.answers = a.answers /\ a'.checkout = Left
        /\ a'.decision = Decision(Subject) /\ world' = world /\ a.answers = Answers
    <3>1. a.answers = Answers
      BY <1>9 DEF Evaluate, NoAnswers
    <3>2. a' = [a EXCEPT !.stage = "done", !.checkout = Left, !.decision = Decision(Subject),
                         !.assessed = AssessedCount(Subject)] /\ world' = world
      BY <1>9 DEF Evaluate
    <3> QED BY <3>1, <3>2
  <2>2. Answers' = Answers /\ HasCheckout' = HasCheckout /\ CheckoutRead' = CheckoutRead
    BY <2>1 DEF Answers, HasRepoUrl, CheckoutRead, HasCheckout, Left
  <2>3. Subject' = Subject
    BY <1>9, <2>1, <2>2 DEF Subject, Evaluate, dependencyVars, osvVars
  <2> QED BY <1>9, <2>1, <2>2, <2>3 DEF Evaluate, Extracting, Decided
<1>10. CASE UNCHANGED vars
  BY <1>10 DEF vars, dependencyVars, osvVars, Answers, HasRepoUrl, CheckoutRead, HasCheckout, Decided,
       Subject, DependencyInit
<1> QED BY <1>2, <1>3, <1>4, <1>6, <1>7, <1>8, <1>9, <1>10 DEF Next, Finished

\* Every step keeps what a scan has merged.
LEMMA ScanningStep ==
  ASSUME world \in Worlds, Assessing, Scanning, [Next]_vars
  PROVE  Scanning'
<1> USE DEF Scanning
<1>1. CASE UNCHANGED <<depscan, osv, result, phase, inventory, world>>
  BY <1>1 DEF Merged, ScannersFailed, Unreadable, Dependencies, Recorded, Reports, Advisories,
       DepscanSucceeded, OsvPrinted
<1>2. CASE assessment.stage = "clone" /\ UNCHANGED <<depscan, osv, result>>
  <2>1. result.success = FALSE
    BY <1>2 DEF Assessing, DependencyInit, NoResult
  <2> QED BY <1>2, <2>1
<1>3. CASE ScanDependencies
  <2>1. world' = world /\ DependencyStep(world)
    BY <1>3 DEF ScanDependencies
  <2>2. CASE phase = "generate" /\ UNCHANGED <<depscan, osv, result>>
    BY <2>2 DEF Merged
  <2>3. CASE CollectDependencies /\ result' # result
    BY <2>3 DEF CollectDependencies, Raised, Fails, NoResult
  <2>4. ASSUME NEW r \in world.depscan, DepscanEnds(r)
        PROVE  Scanning'
    BY <2>4, WorldsAssumption DEF DepscanEnds, Merged
  <2>5. ASSUME NEW r \in world.osvScanner, OsvEnds(r)
        PROVE  Scanning'
    BY <2>5, WorldsAssumption DEF OsvEnds, Merged
  <2>6. CASE NoScannerAnswered(world.listed)
    <3>1. UNCHANGED <<depscan, osv>> /\ result'.success = FALSE
      BY <2>6 DEF NoScannerAnswered, Fails, NoResult
    <3> QED BY <3>1
  <2>7. CASE MergeFindings(world.listed)
    <3>1. UNCHANGED <<depscan, osv, inventory>> /\ ~ScannersFailed /\ phase' = "done"
      BY <2>7 DEF MergeFindings, Raised, Fails
    <3>2. CASE Unreadable
      BY <2>7, <3>1, <3>2 DEF MergeFindings, Raised, Fails, NoResult
    <3>3. CASE ~Unreadable
      <4>1. PICK e \in BuildPurlVulns(Recorded) :
               result' = [success |-> TRUE, raised |-> FALSE, dependencies |-> Dependencies,
                          entries |-> MergeDatadogMalicious(e, Dependencies, world.listed)]
        BY <2>7, <3>3 DEF MergeFindings, Fails
      <4>2. /\ Recorded' = Recorded /\ Dependencies' = Dependencies
            /\ ~Unreadable' /\ ~ScannersFailed'
        BY <3>1, <3>3 DEF ScannersFailed, Unreadable, Dependencies, Recorded, Reports, Advisories,
             DepscanSucceeded, OsvPrinted
      <4> QED BY <2>1, <3>1, <4>1, <4>2 DEF Merged
    <3> QED BY <3>2, <3>3
  <2> QED BY <1>1, <2>1, <2>2, <2>3, <2>4, <2>5, <2>6, <2>7 DEF DependencyStep, KeepExistingLockfile, GenerateLockfile,
            GenerateFails, EndGenerate, CollectDependencies
<1> QED BY <1>1, <1>2, <1>3 DEF Next, Finished, vars, dependencyVars, UseGivenPath, UseNoRepository,
          CloneRepository, CloneFails, QueryAdvisories, ExtractorsAnswer, ExtractorRaises, Evaluate,
          DependencyStart, NoCheckout

-----------------------------------------------------------------------------
(* The metrics and the decision (McpMetrics).                              *)

\* A function over 1..n is a sequence.
LEMMA FunctionIsSequence ==
  ASSUME NEW S, NEW n \in Nat, NEW f \in [1..n -> S]
  PROVE  f \in Seq(S)
OBVIOUS

\* The twelve metrics of the tree (_leaves).
LEMMA LeavesAre ==
  ASSUME NEW s
  PROVE  ToSet(Leaves(s)) = {HostingOperatorClass(s.classification), TransportSecurity(s.fingerprint),
             AuthStrength(s.auth), PkceValidation(s.auth), DynamicClientRegistration(s.auth),
             SourceOpacity(s.classification), MaliciousDependencies(s.sca), VulnerabilityRisk(s.sca),
             McpPackageCves(s.cves), MetadataSecurity(s.tools), ToolSourceCodeSecurity(s.tools.source),
             SecretsRisk(s.secrets)}
<1> DEFINE a == <<HostingOperatorClass(s.classification), TransportSecurity(s.fingerprint)>>
           b == [i \in 1..3 |-> RemoteAuth(s)[i].metric]
           c == [i \in 1..4 |-> SourceCodeRisk(s)[i].metric]
           d == [i \in 1..2 |-> ToolCapabilityRisk(s)[i].metric]
           e == <<SecretsRisk(s.secrets)>>
           A == {HostingOperatorClass(s.classification), TransportSecurity(s.fingerprint)}
           B == {AuthStrength(s.auth), PkceValidation(s.auth), DynamicClientRegistration(s.auth)}
           C == {SourceOpacity(s.classification), MaliciousDependencies(s.sca), VulnerabilityRisk(s.sca),
                 McpPackageCves(s.cves)}
           D == {MetadataSecurity(s.tools), ToolSourceCodeSecurity(s.tools.source)}
           E == {SecretsRisk(s.secrets)}
           S == A \cup B \cup C \cup D \cup E
<1>1. a \in Seq(S) /\ ToSet(a) = A
  <2>1. DOMAIN a = {1, 2} /\ a \in Seq(S)
    OBVIOUS
  <2> QED BY <2>1 DEF ToSet
<1>2. b \in Seq(S) /\ ToSet(b) = B
  <2>1. b[1] = AuthStrength(s.auth) /\ b[2] = PkceValidation(s.auth) /\ b[3] = DynamicClientRegistration(s.auth)
    BY DEF RemoteAuth, Child
  <2>2. DOMAIN b = 1..3 /\ 1..3 = {1, 2, 3} /\ b = [i \in 1..3 |-> b[i]]
    OBVIOUS
  <2> HIDE DEF b
  <2>3. ToSet(b) = B
    BY <2>1, <2>2 DEF ToSet
  <2>4. b \in [1..3 -> S]
    BY <2>1, <2>2
  <2> HIDE DEF S, B
  <2> QED BY <2>3, <2>4, FunctionIsSequence
<1>3. c \in Seq(S) /\ ToSet(c) = C
  <2>1. /\ c[1] = SourceOpacity(s.classification) /\ c[2] = MaliciousDependencies(s.sca)
        /\ c[3] = VulnerabilityRisk(s.sca) /\ c[4] = McpPackageCves(s.cves)
    BY DEF SourceCodeRisk, Child
  <2>2. DOMAIN c = 1..4 /\ 1..4 = {1, 2, 3, 4} /\ c = [i \in 1..4 |-> c[i]]
    OBVIOUS
  <2> HIDE DEF c
  <2>3. ToSet(c) = C
    BY <2>1, <2>2 DEF ToSet
  <2>4. c \in [1..4 -> S]
    BY <2>1, <2>2
  <2> HIDE DEF S, C
  <2> QED BY <2>3, <2>4, FunctionIsSequence
<1>4. d \in Seq(S) /\ ToSet(d) = D
  <2>1. d[1] = MetadataSecurity(s.tools) /\ d[2] = ToolSourceCodeSecurity(s.tools.source)
    BY DEF ToolCapabilityRisk, Child
  <2>2. DOMAIN d = 1..2 /\ 1..2 = {1, 2} /\ d = [i \in 1..2 |-> d[i]]
    OBVIOUS
  <2> HIDE DEF d
  <2>3. ToSet(d) = D
    BY <2>1, <2>2 DEF ToSet
  <2>4. d \in [1..2 -> S]
    BY <2>1, <2>2
  <2> HIDE DEF S, D
  <2> QED BY <2>3, <2>4, FunctionIsSequence
<1>5. e \in Seq(S) /\ ToSet(e) = E
  <2>1. DOMAIN e = {1} /\ e \in Seq(S)
    OBVIOUS
  <2> QED BY <2>1 DEF ToSet
<1>6. Leaves(s) = a \o b \o c \o d \o e
  BY DEF Leaves
<1>7. ToSet(a \o b \o c \o d \o e) = S
  <2> HIDE DEF a, b, c, d, e, A, B, C, D, E, S
  <2> DEFINE ab == a \o b
             abc == ab \o c
             abcd == abc \o d
  <2>1. ab \in Seq(S) /\ ToSet(ab) = A \cup B
    BY <1>1, <1>2, ToSetConcat
  <2>2. abc \in Seq(S) /\ ToSet(abc) = A \cup B \cup C
    <3> HIDE DEF ab
    <3> QED BY <2>1, <1>3, ToSetConcat
  <2>3. abcd \in Seq(S) /\ ToSet(abcd) = A \cup B \cup C \cup D
    <3> HIDE DEF abc
    <3> QED BY <2>2, <1>4, ToSetConcat
  <2>4. ToSet(abcd \o e) = A \cup B \cup C \cup D \cup E
    <3> HIDE DEF abcd
    <3> QED BY <2>3, <1>5, ToSetConcat
  <2> QED BY <2>4 DEF S
<1> QED BY <1>6, <1>7

Vetoes == {"none", "warning", "failure"}

\* A veto of one metric for failure blocks: no veto is worse.
LEMMA FailureDecides ==
  ASSUME NEW s, \A m \in ToSet(Leaves(s)) : m.veto \in Vetoes,
         \E m \in ToSet(Leaves(s)) : m.veto = "failure"
  PROVE  Decision(s) = "block"
<1> DEFINE vetoes == {m.veto : m \in ToSet(Leaves(s))}
<1>1. "failure" \in vetoes /\ vetoes \subseteq Vetoes
  OBVIOUS
<1>2. VetoRank["failure"] = 2 /\ VetoRank["warning"] = 1 /\ VetoRank["none"] = 0
  BY DEF VetoRank
<1>3. HigherVeto(vetoes) = "failure"
  <2> HIDE DEF vetoes
  <2>1. \A w \in vetoes : VetoRank[w] <= VetoRank["failure"]
    BY <1>1, <1>2 DEF Vetoes
  <2>2. \A v \in vetoes : (\A w \in vetoes : VetoRank[w] <= VetoRank[v]) => v = "failure"
    BY <1>1, <1>2 DEF Vetoes
  <2> QED BY <1>1, <2>1, <2>2 DEF HigherVeto
<1>4. DecisiveVeto(Leaves(s)) = "failure"
  BY <1>3 DEF DecisiveVeto
<1> HIDE DEF vetoes
<1> QED BY <1>4 DEF Decision

\* The vetoes are of the three kinds whatever was found.
LEMMA VetoKinds ==
  ASSUME NEW s, s.classification.local \in BOOLEAN, s.fingerprint.local \in BOOLEAN,
         s.auth.local \in BOOLEAN, s.sca.repo \in BOOLEAN, s.sca.success \in BOOLEAN,
         s.cves.success \in BOOLEAN, s.cves.queryable \in BOOLEAN,
         s.tools.tools \in BOOLEAN, s.tools.poisoned \in BOOLEAN,
         s.secrets.repo \in BOOLEAN, s.secrets.failed \in BOOLEAN
  PROVE  \A m \in ToSet(Leaves(s)) : m.veto \in Vetoes
<1> USE DEF Vetoes, Assessed, Skipped, Errored, Metric
<1>1. HostingOperatorClass(s.classification).veto \in Vetoes
  BY DEF HostingOperatorClass
<1>2. TransportSecurity(s.fingerprint).veto \in Vetoes
  BY DEF TransportSecurity, TransportVeto
<1>3. AuthStrength(s.auth).veto \in Vetoes
  BY DEF AuthStrength
<1>4. PkceValidation(s.auth).veto \in Vetoes /\ DynamicClientRegistration(s.auth).veto \in Vetoes
  BY DEF PkceValidation, DynamicClientRegistration
<1>5. SourceOpacity(s.classification).veto \in Vetoes
  BY DEF SourceOpacity
<1>6. MaliciousDependencies(s.sca).veto \in Vetoes
  BY DEF MaliciousDependencies, OfDependencies
<1>7. VulnerabilityRisk(s.sca).veto \in Vetoes
  BY DEF VulnerabilityRisk, OfDependencies
<1>8. McpPackageCves(s.cves).veto \in Vetoes
  BY DEF McpPackageCves
<1>9. MetadataSecurity(s.tools).veto \in Vetoes
  BY DEF MetadataSecurity
<1>10. ToolSourceCodeSecurity(s.tools.source).veto \in Vetoes
  BY DEF ToolSourceCodeSecurity
<1>11. SecretsRisk(s.secrets).veto \in Vetoes
  BY DEF SecretsRisk
<1> QED BY <1>1, <1>2, <1>3, <1>4, <1>5, <1>6, <1>7, <1>8, <1>9, <1>10, <1>11, LeavesAre

\* The decision is taken on the extractors' answers, and every veto is a veto.
LEMMA SubjectIs ==
  ASSUME world \in Worlds, Assessing, Scanning, QueryOK(query), Decided
  PROVE  /\ Subject.classification = Answers.classification /\ Subject.fingerprint = Answers.fingerprint
         /\ Subject.auth = Answers.auth /\ Subject.tools = Answers.tools
         /\ Subject.secrets = Answers.secrets /\ Subject.cves = query.answer
         /\ Subject.sca = [repo |-> CheckoutRead, success |-> result.success, entries |-> result.entries]
         /\ assessment.decision = Decision(Subject)
         /\ \A m \in ToSet(Leaves(Subject)) : m.veto \in Vetoes
<1>1. /\ Subject.classification = Answers.classification /\ Subject.fingerprint = Answers.fingerprint
      /\ Subject.auth = Answers.auth /\ Subject.tools = Answers.tools
      /\ Subject.secrets = Answers.secrets /\ Subject.cves = query.answer
      /\ Subject.sca = [repo |-> CheckoutRead, success |-> result.success, entries |-> result.entries]
      /\ assessment.decision = Decision(Subject)
  BY DEF Assessing, Subject
<1>2. world.local \in BOOLEAN /\ result.success \in BOOLEAN
  BY WorldsAssumption DEF Scanning
<1>3. query.answer.success \in BOOLEAN /\ query.answer.queryable \in BOOLEAN
  BY DEF QueryOK, QueryType
<1>4. /\ Answers.classification.local \in BOOLEAN /\ Answers.auth.local \in BOOLEAN
      /\ Answers.fingerprint.local \in BOOLEAN
  <2>1. Answers.classification.local \in BOOLEAN /\ Answers.auth.local \in BOOLEAN
    BY <1>2 DEF Answers, Classification, AuthModes
  <2>2. Answers.fingerprint.local \in BOOLEAN
    <3>1. world.wire.tls \in {"dns", "badCert", "handshake", "down", "ok"}
      BY WorldsAssumption
    <3> QED BY <1>2, <3>1 DEF Answers, Fingerprint, Seen
  <2> QED BY <2>1, <2>2
<1>5. Answers.tools.tools \in BOOLEAN /\ Answers.tools.poisoned \in BOOLEAN
  BY DEF Answers, ToolAnalysis, ToolsBuilt
<1>6. Answers.secrets.repo \in BOOLEAN /\ Answers.secrets.failed \in BOOLEAN
  BY DEF Answers, SecretsScan, CheckoutRead
<1>7. \A m \in ToSet(Leaves(Subject)) : m.veto \in Vetoes
  <2>1. Subject.sca.repo \in BOOLEAN /\ Subject.sca.success \in BOOLEAN
    BY <1>1, <1>2 DEF CheckoutRead
  <2> DEFINE s == Subject
  <2>2. /\ s.classification.local \in BOOLEAN /\ s.fingerprint.local \in BOOLEAN
        /\ s.auth.local \in BOOLEAN /\ s.sca.repo \in BOOLEAN /\ s.sca.success \in BOOLEAN
        /\ s.cves.success \in BOOLEAN /\ s.cves.queryable \in BOOLEAN
        /\ s.tools.tools \in BOOLEAN /\ s.tools.poisoned \in BOOLEAN
        /\ s.secrets.repo \in BOOLEAN /\ s.secrets.failed \in BOOLEAN
    BY <1>1, <1>3, <1>4, <1>5, <1>6, <2>1
  <2> HIDE DEF s
  <2>3. \A m \in ToSet(Leaves(s)) : m.veto \in Vetoes
    BY <2>2, VetoKinds
  <2> QED BY <2>3 DEF s
<1> QED BY <1>1, <1>7

\* A dangerous transport fails its metric (transport_security.py).
LEMMA TransportFails ==
  ASSUME world \in Worlds, DangerousTransport
  PROVE  TransportSecurity(Answers.fingerprint).veto = "failure"
<1>1. /\ Answers.fingerprint.local = FALSE
      /\ Answers.fingerprint.level \in {"https_invalid_cert", "http_only"}
  BY DEF DangerousTransport, Answers, Fingerprint, Seen
<1> QED BY <1>1 DEF TransportSecurity, TransportVeto, Assessed, Metric

\* Dangerous tools fail a metric (metadata_security.py, tool_source_code_security.py).
LEMMA ToolsFail ==
  ASSUME world \in Worlds, DangerousTools
  PROVE  \/ MetadataSecurity(Answers.tools).veto = "failure"
         \/ ToolSourceCodeSecurity(Answers.tools.source).veto = "failure"
<1> DEFINE tools == world.tools
           t == ToolAnalysis(world.local, CheckoutRead, tools)
<1>1. t = Answers.tools /\ t.tools = TRUE
  BY DEF Answers, ToolAnalysis, DangerousTools
<1>2. CASE tools.metadata = "poisoned"
  <2>1. t.poisoned = TRUE
    BY <1>2 DEF ToolAnalysis, DangerousTools
  <2> QED BY <1>1, <2>1 DEF MetadataSecurity, Assessed, Metric
<1>3. CASE tools.metadata # "poisoned"
  <2>1. /\ tools.metadata = "clean" /\ CheckoutRead /\ tools.source = "ok"
        /\ \/ "t1" \in tools.findings
           \/ "t1_08" \in tools.findings /\ ~world.local
           \/ "t1_09" \in tools.findings /\ world.local
    BY <1>3 DEF DangerousTools
  <2>2. t.source = SourceCodeAnalysis(world.local, CheckoutRead, tools)
    BY <2>1 DEF ToolAnalysis, DangerousTools
  <2>3. \E c \in tools.findings : TierOf(c) = 1 /\ SourceSeverity(c, world.local) = "high"
    BY <2>1 DEF TierOf, SourceSeverity, SeverityMap
  <2> DEFINE s == SourceCodeAnalysis(world.local, CheckoutRead, tools)
             told == {[tier |-> TierOf(c), severity |-> SourceSeverity(c, world.local)] : c \in tools.findings}
  <2>4. s.findings = told /\ s.ran = TRUE /\ s.repo = CheckoutRead
    BY <2>1 DEF SourceCodeAnalysis
  <2>5. PICK f \in told : f.tier = 1 /\ f.severity = "high"
    <3>1. PICK c \in tools.findings : TierOf(c) = 1 /\ SourceSeverity(c, world.local) = "high"
      BY <2>3
    <3> DEFINE f == [tier |-> TierOf(c), severity |-> SourceSeverity(c, world.local)]
    <3>2. f \in told
      OBVIOUS
    <3>3. f.tier = 1 /\ f.severity = "high"
      BY <3>1
    <3> HIDE DEF f, told
    <3> QED BY <3>2, <3>3
  <2> HIDE DEF s, told
  <2> HIDE DEF t
  <2> QED BY <1>1, <2>1, <2>2, <2>4, <2>5 DEF s, ToolSourceCodeSecurity, Assessed, Metric
<1> QED BY <1>2, <1>3

\* A confirmed secret fails its metric (secrets_risk.py).
LEMMA SecretsFail ==
  ASSUME world \in Worlds, LeakedSecret
  PROVE  SecretsRisk(Answers.secrets).veto = "failure"
<1> DEFINE secrets == world.secrets
           confirmed == {i \in secrets.leaks : i \in DOMAIN secrets.hits}
           context == LlmContext(secrets.hits)
<1>1. PICK i \in DOMAIN secrets.hits : i \in secrets.leaks /\ i \in context
  BY DEF LeakedSecret
<1>2. Cardinality(confirmed) \in Nat /\ Cardinality(confirmed) # 0
  <2>1. secrets.hits \in Seq(ToSet(secrets.hits))
    BY WorldsAssumption
  <2>2. DOMAIN secrets.hits = 1..Len(secrets.hits) /\ Len(secrets.hits) \in Nat
    BY <2>1
  <2>3. IsFiniteSet(DOMAIN secrets.hits)
    BY <2>2, FS_Interval
  <2>4. IsFiniteSet(confirmed)
    BY <2>3, FS_Subset
  <2>5. confirmed # {}
    BY <1>1
  <2> HIDE DEF confirmed
  <2> QED BY <2>4, <2>5, FS_EmptySet, FS_CardinalityType
<1>3. Answers.secrets.repo = TRUE /\ Answers.secrets.failed = FALSE
  BY DEF LeakedSecret, Answers, SecretsScan
<1>4. Answers.secrets.count = Cardinality(confirmed)
  BY <1>1 DEF LeakedSecret, Answers, SecretsScan
<1> HIDE DEF confirmed
<1>5. Answers.secrets.count > 0
  BY <1>2, <1>4
<1> QED BY <1>3, <1>5 DEF SecretsRisk, Assessed, Metric

-----------------------------------------------------------------------------
(* Advisories (AdvisoryMerge): what a bucket of details and the map of     *)
(* buckets hold, and what recording and merging them keeps.                *)

Detail ==
    {d \in [source : {"depscan", "osv"}, id : STRING, ids : SUBSET STRING,
            severity : STRING \cup {"HIGH"}, transitive : BOOLEAN, reachable : BOOLEAN,
            used : Nat] : d.id \in d.ids}

Bucket == [ids : SUBSET STRING, cve : Seq(Detail), malware : Seq(Detail)]

\* The details of a version or of an entry.
Held(b) == ToSet(b.cve) \cup ToSet(b.malware)

\* A bucket knows the identifiers of its details, and keeps malware apart.
BucketOK(b) ==
    /\ b \in Bucket
    /\ \A d \in Held(b) : d.ids \subseteq b.ids
    /\ \A i \in b.ids : \E d \in Held(b) : i \in d.ids
    /\ \A d \in ToSet(b.malware) : IsMalware(d)
    /\ \A d \in ToSet(b.cve) : ~IsMalware(d)

Alike(d, e) == d = e \/ d.ids \cap e.ids # {}

\* What a bucket holds is typed.
LEMMA HeldTyped ==
  ASSUME NEW b \in Bucket
  PROVE  Held(b) \subseteq Detail
<1>1. b.cve \in Seq(Detail) /\ b.malware \in Seq(Detail)
  BY DEF Bucket
<1>2. ToSet(b.cve) \subseteq Detail
  BY <1>1 DEF ToSet
<1>3. ToSet(b.malware) \subseteq Detail
  BY <1>1 DEF ToSet
<1> QED BY <1>2, <1>3 DEF Held

\* A new bucket holds nothing.
LEMMA InitBucketOK == BucketOK(InitVersionBucket) /\ Held(InitVersionBucket) = {}
<1>1. <<>> \in Seq(Detail) /\ ToSet(<<>>) = {}
  BY DEF ToSet
<1>2. InitVersionBucket \in Bucket
  BY <1>1 DEF InitVersionBucket, Bucket
<1>3. Held(InitVersionBucket) = {} /\ ToSet(InitVersionBucket.cve) = {} /\ ToSet(InitVersionBucket.malware) = {}
  BY <1>1 DEF InitVersionBucket, Held
<1> QED BY <1>2, <1>3 DEF BucketOK, InitVersionBucket

\* A detail is added to a bucket, or one that shares an identifier is there.
LEMMA UpsertVulnOK ==
  ASSUME NEW b, BucketOK(b), NEW d \in Detail
  PROVE  LET r == UpsertVersionVuln(b, d)
         IN /\ BucketOK(r) /\ Held(b) \subseteq Held(r) /\ Held(r) \subseteq Held(b) \cup {d}
            /\ \E e \in Held(r) : Alike(e, d)
<1> DEFINE r == UpsertVersionVuln(b, d)
<1>0. b \in Bucket /\ b.cve \in Seq(Detail) /\ b.malware \in Seq(Detail)
  BY DEF BucketOK, Bucket
<1>1. CASE d.ids \cap b.ids # {}
  <2>1. r = b
    BY <1>1 DEF UpsertVersionVuln
  <2>2. \E e \in Held(b) : d.ids \cap e.ids # {}
    BY <1>1 DEF BucketOK
  <2> QED BY <2>1, <2>2 DEF Alike
<1>2. CASE ~(d.ids \cap b.ids # {})
  <2> DEFINE ids == b.ids \cup d.ids
             c == [b EXCEPT !.ids = ids]
  <2>1. r = AddVulnToBucket(c, d)
    BY <1>2 DEF UpsertVersionVuln
  <2>2. c \in Bucket /\ c.ids = ids /\ c.cve = b.cve /\ c.malware = b.malware
    <3>1. ids \in SUBSET STRING
      BY <1>0 DEF Bucket, Detail
    <3> HIDE DEF ids
    <3> QED BY <1>0, <3>1 DEF Bucket
  <2>3. /\ Append(b.cve, d) \in Seq(Detail) /\ ToSet(Append(b.cve, d)) = ToSet(b.cve) \cup {d}
        /\ Append(b.malware, d) \in Seq(Detail) /\ ToSet(Append(b.malware, d)) = ToSet(b.malware) \cup {d}
    BY <1>0, ToSetAppend
  <2>4. /\ r \in Bucket /\ r.ids = ids
        /\ \/ ~IsMalware(d) /\ r.malware = b.malware /\ r.cve = Append(b.cve, d)
           \/ IsMalware(d) /\ r.malware = Append(b.malware, d) /\ r.cve = b.cve
    <3> HIDE DEF c, r, ids
    <3> QED BY <2>1, <2>2, <2>3 DEF AddVulnToBucket, Bucket
  <2>5. Held(r) = Held(b) \cup {d}
    BY <2>3, <2>4 DEF Held
  <2> HIDE DEF c, r
  <2>6. BucketOK(r)
    BY <2>3, <2>4, <2>5 DEF BucketOK
  <2> QED BY <2>5, <2>6 DEF Alike, r
<1> QED BY <1>1, <1>2

RecordOne(b, details, wanted, i) == IF i \in wanted THEN UpsertVersionVuln(b, details[i]) ELSE b

\* Details are recorded one by one (_merge_version_bucket).
LEMMA RecordPrefixes ==
  ASSUME NEW n \in Nat, NEW details, DOMAIN details = 1..n, \A i \in 1..n : details[i] \in Detail,
         NEW bucket, BucketOK(bucket), NEW wanted
  PROVE  \E h \in [0..n -> {b \in Bucket : BucketOK(b)}] :
            /\ h[0] = bucket /\ h[n] = RecordAll(bucket, details, wanted)
            /\ \A k \in 1..n : h[k] = RecordOne(h[k - 1], details, wanted, k)
<1> DEFINE X == {b \in Bucket : BucketOK(b)}
           step == [k \in 1..n |-> [x \in X |-> RecordOne(x, details, wanted, k)]]
           index == [i \in DOMAIN details |-> i]
           Eq(f) == f = [s \in SUBSET DOMAIN index |->
                           IF s = {} THEN bucket ELSE RecordOne(f[s \ {Max(s)}], details, wanted, index[Max(s)])]
           it == CHOOSE f : Eq(f)
<1>1. bucket \in X /\ DOMAIN index = 1..n /\ \A i \in 1..n : index[i] = i
  BY DEF BucketOK
<1>2. \A k \in 1..n, x \in X : RecordOne(x, details, wanted, k) \in X
  BY UpsertVulnOK DEF RecordOne, BucketOK
<1>3. step \in [1..n -> [X -> X]] /\ \A k \in 1..n, x \in X : step[k][x] = RecordOne(x, details, wanted, k)
  BY <1>2
<1>4. RecordAll(bucket, details, wanted) = it[1..n]
  BY <1>1 DEF RecordAll, FoldLeftDomain, FoldLeft, MapThenFoldSet, RecordOne
<1>5. FoldsIn(it, n, X, bucket, step)
  <2> HIDE DEF step, X
  <2>1. PICK g \in [SUBSET (1..n) -> X] : IsFold(g, n, bucket, step)
    BY <1>1, <1>3, FoldExists
  <2>2. Eq(g)
    BY <1>1, <1>3, <2>1, MaxIn DEF IsFold
  <2>3. Eq(it)
    <3> HIDE DEF Eq
    <3> QED BY <2>2
  <2> HIDE DEF it
  <2>4. \A s \in SUBSET (1..n) : it[s] = IF s = {} THEN bucket ELSE RecordOne(it[s \ {Max(s)}], details, wanted, index[Max(s)])
    BY <1>1, <2>3
  <2>5. \A s \in SUBSET (1..n) : s # {} => Max(s) \in 1..n
    BY MaxIn
  <2> HIDE DEF index
  <2>6. it[{}] = bucket
    BY <2>4
  <2>7. ASSUME NEW s \in SUBSET (1..n), s # {}, it[s \ {Max(s)}] \in X
        PROVE  it[s] = step[Max(s)][it[s \ {Max(s)}]]
    <3>1. it[s] = RecordOne(it[s \ {Max(s)}], details, wanted, Max(s))
      BY <1>1, <2>4, <2>5, <2>7
    <3> QED BY <1>3, <2>5, <2>7, <3>1
  <2> QED BY <2>6, <2>7 DEF FoldsIn
<1> HIDE DEF it, step, X, index
<1>6. PICK h \in [0..n -> X] : StepByStep(h, n, bucket, step) /\ h[n] = it[1..n]
  <2>1. n \in Nat /\ step \in [1..n -> [X -> X]]
    BY <1>1, <1>3, <1>5
  <2>2. bucket \in X
    BY <1>1, <1>3, <1>5
  <2>3. FoldsIn(it, n, X, bucket, step)
    BY <1>5
  <2>4. Unrolls(it, n, X, bucket, step)
    BY <2>1, <2>2, <2>3, FoldPrefixes
  <2> QED BY <2>4 DEF Unrolls
<1>7. \A k \in 1..n : h[k] = RecordOne(h[k - 1], details, wanted, k)
  <2> TAKE k \in 1..n
  <2>1. k - 1 \in 0..n
    OBVIOUS
  <2> QED BY <1>3, <1>6, <2>1 DEF StepByStep
<1> QED BY <1>4, <1>6, <1>7 DEF StepByStep, X

\* Afterwards the bucket holds every wanted detail, or one that shares an
\* identifier with it.
LEMMA RecordAllOK ==
  ASSUME NEW n \in Nat, NEW details, DOMAIN details = 1..n, \A i \in 1..n : details[i] \in Detail,
         NEW bucket, BucketOK(bucket), NEW wanted
  PROVE  LET r == RecordAll(bucket, details, wanted)
         IN /\ BucketOK(r) /\ Held(bucket) \subseteq Held(r)
            /\ Held(r) \subseteq Held(bucket) \cup {details[i] : i \in wanted \cap (1..n)}
            /\ \A i \in wanted \cap (1..n) : \E e \in Held(r) : Alike(e, details[i])
<1> DEFINE X == {b \in Bucket : BucketOK(b)}
<1>1. PICK h \in [0..n -> X] :
            /\ h[0] = bucket /\ h[n] = RecordAll(bucket, details, wanted)
            /\ \A k \in 1..n : h[k] = RecordOne(h[k - 1], details, wanted, k)
  <2> HIDE DEF X
  <2> QED BY RecordPrefixes DEF X
<1> DEFINE OK(k) ==
              /\ Held(bucket) \subseteq Held(h[k])
              /\ Held(h[k]) \subseteq Held(bucket) \cup {details[i] : i \in wanted \cap (1..n)}
              /\ \A i \in wanted \cap (1..k) : \E e \in Held(h[k]) : Alike(e, details[i])
           T == {k \in 0..n : OK(k)}
<1>2. 0 \in T
  BY <1>1, EmptyPrefix
<1>3. ASSUME NEW k \in 1..n, k - 1 \in T PROVE k \in T
  <2>1. k - 1 \in 0..n /\ k \in 0..n /\ BucketOK(h[k - 1]) /\ OK(k - 1)
    BY <1>1, <1>3
  <2>2. \A i \in wanted \cap (1..k) : i # k => i \in wanted \cap (1..(k - 1))
    BY <1>3
  <2>3. CASE k \notin wanted
    BY <1>1, <2>1, <2>2, <2>3 DEF RecordOne
  <2>4. CASE k \in wanted
    <3>1. h[k] = UpsertVersionVuln(h[k - 1], details[k]) /\ details[k] \in Detail
      BY <1>1, <2>4 DEF RecordOne
    <3>2. /\ Held(h[k - 1]) \subseteq Held(h[k]) /\ Held(h[k]) \subseteq Held(h[k - 1]) \cup {details[k]}
          /\ \E e \in Held(h[k]) : Alike(e, details[k])
      <4> DEFINE b == h[k - 1]
                 d == details[k]
      <4> HIDE DEF b, d, X, T, OK
      <4>1. BucketOK(b) /\ d \in Detail /\ h[k] = UpsertVersionVuln(b, d)
        BY <2>1, <3>1 DEF b, d
      <4>2. /\ Held(b) \subseteq Held(h[k]) /\ Held(h[k]) \subseteq Held(b) \cup {d}
            /\ \E e \in Held(h[k]) : Alike(e, d)
        BY <4>1, UpsertVulnOK
      <4> QED BY <4>2 DEF b, d
    <3>3. Held(bucket) \subseteq Held(h[k])
      BY <2>1, <3>2
    <3>4. Held(h[k]) \subseteq Held(bucket) \cup {details[i] : i \in wanted \cap (1..n)}
      BY <2>1, <2>4, <3>2
    <3>5. \A i \in wanted \cap (1..k) : \E e \in Held(h[k]) : Alike(e, details[i])
      BY <2>1, <2>2, <3>2
    <3> QED BY <2>1, <3>3, <3>4, <3>5
  <2> QED BY <2>3, <2>4
<1>4. n \in T
  <2>1. \A k \in 1..n : k - 1 \in T => k \in T
    BY <1>3
  <2>2. n \in 0..n
    OBVIOUS
  <2> HIDE DEF T
  <2> QED BY <1>2, <2>1, <2>2, PrefixInduction
<1>5. BucketOK(h[n])
  BY <1>1
<1> QED BY <1>1, <1>4, <1>5

Keys == (STRING \X STRING) \X STRING

\* The rows a map of packages may hold: a key and a detail each.
RowsOK(Rows) == Rows \subseteq Keys \X Detail

MapOK(m, Rows) ==
    /\ m \in UNION {[D -> Bucket] : D \in SUBSET {r[1] : r \in Rows}}
    /\ \A key \in DOMAIN m : BucketOK(m[key]) /\ \A d \in Held(m[key]) : <<key, d>> \in Rows

ClosedIn(Rows, package, C) ==
    \A r \in Rows : r[1][1] = package => r[2].ids \subseteq C \/ r[2].ids \cap C = {}

\* The map tells of the detail, in its version: under one of its identifiers, or
\* of one that others lead to.
TellsOf(m, Rows, key, d) ==
    /\ key \in DOMAIN m
    /\ \A C : ClosedIn(Rows, key[1], C) /\ d.ids \subseteq C =>
                 \E e \in Held(m[key]) : e.ids \subseteq C

\* A bucket that holds more still tells what it told.
LEMMA TellsMore ==
  ASSUME NEW Rows, RowsOK(Rows), NEW m, NEW r, MapOK(r, Rows), NEW key, NEW d,
         TellsOf(m, Rows, key, d), key \in DOMAIN r,
         \A e \in Held(m[key]) : <<key, e>> \in Rows /\ \E f \in Held(r[key]) : Alike(f, e)
  PROVE  TellsOf(r, Rows, key, d)
<1> SUFFICES ASSUME NEW C, ClosedIn(Rows, key[1], C), d.ids \subseteq C
             PROVE  \E e \in Held(r[key]) : e.ids \subseteq C
  BY DEF TellsOf
<1>1. PICK e \in Held(m[key]) : e.ids \subseteq C
  BY DEF TellsOf
<1>2. PICK f \in Held(r[key]) : Alike(f, e)
  OBVIOUS
<1>3. <<key, f>> \in Rows
  BY DEF MapOK
<1>4. f.ids \subseteq C \/ f.ids \cap C = {}
  BY <1>3 DEF ClosedIn
<1>5. e.id \in e.ids /\ f.id \in f.ids
  BY <1>1, <1>3 DEF RowsOK, Detail
<1> QED BY <1>1, <1>2, <1>4, <1>5 DEF Alike

\* A bucket tells a detail that it holds, or one alike.
LEMMA TellsOne ==
  ASSUME NEW Rows, RowsOK(Rows), NEW r, MapOK(r, Rows), NEW key, NEW d, <<key, d>> \in Rows,
         key \in DOMAIN r, \E f \in Held(r[key]) : Alike(f, d)
  PROVE  TellsOf(r, Rows, key, d)
<1> SUFFICES ASSUME NEW C, ClosedIn(Rows, key[1], C), d.ids \subseteq C
             PROVE  \E e \in Held(r[key]) : e.ids \subseteq C
  BY DEF TellsOf
<1>2. PICK f \in Held(r[key]) : Alike(f, d)
  OBVIOUS
<1>3. <<key, f>> \in Rows
  BY DEF MapOK
<1>4. f.ids \subseteq C \/ f.ids \cap C = {}
  BY <1>3 DEF ClosedIn
<1>5. d.id \in d.ids /\ f.id \in f.ids
  BY <1>3 DEF RowsOK, Detail
<1> QED BY <1>2, <1>4, <1>5 DEF Alike

\* Of two merged buckets nothing is lost: each detail, or one alike, is held.
LEMMA MergeBucketOK ==
  ASSUME NEW b, BucketOK(b), NEW s, BucketOK(s)
  PROVE  LET r == MergeVersionBucket(b, s)
         IN /\ BucketOK(r) /\ Held(b) \subseteq Held(r) /\ Held(r) \subseteq Held(b) \cup Held(s)
            /\ \A d \in Held(s) : \E e \in Held(r) : Alike(e, d)
<1> DEFINE details == s.cve \o s.malware
           n == Len(details)
           r == RecordAll(b, details, DOMAIN details)
<1>1. /\ details \in Seq(Detail) /\ n \in Nat /\ DOMAIN details = 1..n
      /\ ToSet(details) = Held(s)
  <2>1. s.cve \in Seq(Detail) /\ s.malware \in Seq(Detail)
    BY DEF BucketOK, Bucket
  <2>2. details \in Seq(Detail) /\ ToSet(details) = Held(s)
    BY <2>1, ToSetConcat DEF Held
  <2> HIDE DEF details
  <2> QED BY <2>2
<1>2. r = MergeVersionBucket(b, s)
  BY DEF MergeVersionBucket
<1>3. \A i \in 1..n : details[i] \in Detail /\ details[i] \in Held(s)
  <2> HIDE DEF details, n
  <2> QED BY <1>1 DEF ToSet
<1>4. \A d \in Held(s) : \E i \in 1..n : d = details[i]
  <2> HIDE DEF details, n
  <2> QED BY <1>1 DEF ToSet
<1>5. /\ BucketOK(r) /\ Held(b) \subseteq Held(r)
      /\ Held(r) \subseteq Held(b) \cup {details[i] : i \in (DOMAIN details) \cap (1..n)}
      /\ \A i \in (DOMAIN details) \cap (1..n) : \E e \in Held(r) : Alike(e, details[i])
  <2> HIDE DEF details, n
  <2> QED BY <1>1, <1>3, RecordAllOK
<1> HIDE DEF details, n, r
<1> QED BY <1>1, <1>2, <1>3, <1>4, <1>5

\* So it is with the maps of two sources (_merge_package_maps).
LEMMA MergeMapsOK ==
  ASSUME NEW Rows, RowsOK(Rows), NEW t, MapOK(t, Rows), NEW s, MapOK(s, Rows)
  PROVE  LET r == MergePackageMaps(t, s)
         IN /\ MapOK(r, Rows) /\ DOMAIN r = DOMAIN t \cup DOMAIN s
            /\ \A key \in DOMAIN t : Held(t[key]) \subseteq Held(r[key])
            /\ \A key \in DOMAIN s : \A d \in Held(s[key]) : \E e \in Held(r[key]) : Alike(e, d)
<1> DEFINE r == MergePackageMaps(t, s)
           D == DOMAIN t \cup DOMAIN s
<1>1. /\ DOMAIN r = D /\ r = [key \in D |-> r[key]]
      /\ \A key \in DOMAIN s : r[key] = MergeVersionBucket(BucketOf(t, key), s[key])
      /\ \A key \in D \ DOMAIN s : r[key] = t[key]
  BY DEF MergePackageMaps
<1>2. \A key \in DOMAIN t : BucketOf(t, key) = t[key]
  BY DEF BucketOf
<1>3. \A key \in DOMAIN s : BucketOK(s[key]) /\ BucketOK(BucketOf(t, key))
  BY InitBucketOK DEF MapOK, BucketOf
<1>4. ASSUME NEW key \in DOMAIN s
      PROVE  /\ BucketOK(r[key]) /\ Held(BucketOf(t, key)) \subseteq Held(r[key])
             /\ Held(r[key]) \subseteq Held(BucketOf(t, key)) \cup Held(s[key])
             /\ \A d \in Held(s[key]) : \E e \in Held(r[key]) : Alike(e, d)
  <2> HIDE DEF r
  <2> QED BY <1>1, <1>3, MergeBucketOK
<1>5. \A key \in DOMAIN s : \A d \in Held(BucketOf(t, key)) : <<key, d>> \in Rows
  BY InitBucketOK DEF MapOK, BucketOf
<1>6. \A key \in D : BucketOK(r[key]) /\ \A d \in Held(r[key]) : <<key, d>> \in Rows
  <2> HIDE DEF r
  <2> QED BY <1>1, <1>4, <1>5 DEF MapOK
<1>7. \A key \in D : r[key] \in Bucket
  BY <1>6 DEF BucketOK
<1>8. D \in SUBSET {x[1] : x \in Rows}
  BY DEF MapOK
<1> HIDE DEF r
<1>9. r \in [D -> Bucket]
  BY <1>1, <1>7
<1>10. MapOK(r, Rows)
  <2> HIDE DEF D
  <2> QED BY <1>1, <1>6, <1>8, <1>9 DEF MapOK
<1>11. \A key \in DOMAIN t : Held(t[key]) \subseteq Held(r[key])
  BY <1>1, <1>2, <1>4
<1> QED BY <1>1, <1>4, <1>10, <1>11 DEF r

\* The details made of an advisory are typed.
LEMMA DetailsTyped ==
  ASSUME NEW a \in Advisory, NEW tr
  PROVE  /\ KeyOf(a) \in Keys
         /\ DepscanDetails(a) \in Detail /\ DepscanDetails(a).ids = a.ids
         /\ OsvDetails(a, tr) \in Detail /\ OsvDetails(a, tr).ids = a.ids
<1>1. /\ a.id \in STRING /\ a.ids \in SUBSET STRING /\ a.severity \in STRING /\ a.id \in a.ids
      /\ a.indirect \in BOOLEAN /\ a.reachable \in BOOLEAN /\ a.used \in Nat
      /\ a.package \in STRING \X STRING /\ a.version \in STRING
  BY DEF Advisory
<1>2. DetailSeverity(a) \in STRING \cup {"HIGH"}
  BY <1>1 DEF DetailSeverity
<1>3. (a.package \in tr) \in BOOLEAN
  OBVIOUS
<1>4. KeyOf(a) \in Keys
  BY <1>1 DEF KeyOf, Keys
<1>5. DepscanDetails(a) \in Detail /\ DepscanDetails(a).ids = a.ids
  BY <1>1, <1>2 DEF DepscanDetails, Detail
<1>6. OsvDetails(a, tr) \in Detail /\ OsvDetails(a, tr).ids = a.ids
  BY <1>1, <1>2, <1>3 DEF OsvDetails, Detail
<1> QED BY <1>4, <1>5, <1>6

DepscanRows(U) == {<<KeyOf(b), DepscanDetails(b)>> : b \in U}
OsvRows(U, tr) == {<<KeyOf(b), OsvDetails(b, tr)>> : b \in U}

\* So are the recordings of a set of advisories.
LEMMA RowsTyped ==
  ASSUME NEW U \in SUBSET Advisory, NEW tr
  PROVE  RowsOK(DepscanRows(U)) /\ RowsOK(OsvRows(U, tr)) /\ RowsOK(DepscanRows(U) \cup OsvRows(U, tr))
BY DetailsTyped DEF RowsOK, DepscanRows, OsvRows

\* One report of depscan is recorded whole (_process_depscan).
LEMMA VdrOK ==
  ASSUME NEW U \in SUBSET Advisory, NEW report \in Seq(Advisory),
         \A a \in ToSet(report) : a.package # NoPackage => a \in U
  PROVE  LET m == ProcessVdr(report)
         IN /\ MapOK(m, DepscanRows(U))
            /\ \A a \in ToSet(report) : a.package # NoPackage =>
                  /\ KeyOf(a) \in DOMAIN m
                  /\ \E e \in Held(m[KeyOf(a)]) : Alike(e, DepscanDetails(a))
<1> DEFINE n == Len(report)
           details == [i \in DOMAIN report |-> DepscanDetails(report[i])]
           Wanted(key) == {i \in DOMAIN report : KeyOf(report[i]) = key}
           m == ProcessVdr(report)
           D == KnownKeys(report)
<1>1. n \in Nat /\ DOMAIN report = 1..n /\ DOMAIN details = 1..n /\ \A i \in 1..n : report[i] \in Advisory
  OBVIOUS
<1>2. \A i \in 1..n : details[i] = DepscanDetails(report[i]) /\ details[i] \in Detail
  BY <1>1, DetailsTyped
<1>3. /\ DOMAIN m = D /\ m = [key \in D |-> m[key]]
      /\ \A key \in D : m[key] = RecordAll(InitVersionBucket, details, Wanted(key))
  BY DEF ProcessVdr
<1>4. \A key \in D : key[1] # NoPackage
  BY DEF KnownKeys, KeyOf
<1>5. ASSUME NEW key
      PROVE  LET r == RecordAll(InitVersionBucket, details, Wanted(key))
             IN /\ BucketOK(r) /\ Held(r) \subseteq {details[i] : i \in Wanted(key)}
                /\ \A i \in Wanted(key) : \E e \in Held(r) : Alike(e, details[i])
  <2> DEFINE w == Wanted(key)
             r == RecordAll(InitVersionBucket, details, w)
  <2>1. w \cap (1..n) = w
    BY <1>1
  <2> HIDE DEF w, details, n, r
  <2>2. /\ BucketOK(r) /\ Held(r) \subseteq Held(InitVersionBucket) \cup {details[i] : i \in w \cap (1..n)}
        /\ \A i \in w \cap (1..n) : \E e \in Held(r) : Alike(e, details[i])
    BY <1>1, <1>2, InitBucketOK, RecordAllOK DEF r
  <2> QED BY <2>1, <2>2, InitBucketOK DEF w, r
<1> HIDE DEF m, details
<1>6. \A key \in D : BucketOK(m[key]) /\ \A d \in Held(m[key]) : <<key, d>> \in DepscanRows(U)
  <2> TAKE key \in D
  <2>1. BucketOK(m[key]) /\ Held(m[key]) \subseteq {details[i] : i \in Wanted(key)}
    BY <1>3, <1>5
  <2>2. \A i \in Wanted(key) : report[i] \in U
    BY <1>1, <1>4 DEF KeyOf, ToSet
  <2>3. \A i \in Wanted(key) : <<key, details[i]>> \in DepscanRows(U)
    BY <1>1, <1>2, <2>2 DEF DepscanRows
  <2> QED BY <2>1, <2>3
<1>7. D \in SUBSET {x[1] : x \in DepscanRows(U)}
  <2>1. \A a \in U : <<KeyOf(a), DepscanDetails(a)>> \in DepscanRows(U)
    BY DEF DepscanRows
  <2>2. \A a \in U : KeyOf(a) \in {x[1] : x \in DepscanRows(U)}
    <3> TAKE a \in U
    <3>1. <<KeyOf(a), DepscanDetails(a)>>[1] = KeyOf(a)
      OBVIOUS
    <3> QED BY <2>1, <3>1, Zenon
  <2> QED BY <2>2 DEF KnownKeys
<1>8. MapOK(m, DepscanRows(U))
  <2>1. m \in [D -> Bucket]
    BY <1>3, <1>6 DEF BucketOK
  <2> HIDE DEF D
  <2> QED BY <1>3, <1>6, <1>7, <2>1 DEF MapOK
<1>9. ASSUME NEW a \in ToSet(report), a.package # NoPackage
      PROVE  /\ KeyOf(a) \in DOMAIN m
             /\ \E e \in Held(m[KeyOf(a)]) : Alike(e, DepscanDetails(a))
  <2>1. KeyOf(a) \in D
    BY <1>9 DEF KnownKeys
  <2>2. PICK i \in 1..n : a = report[i]
    BY <1>1 DEF ToSet
  <2>3. i \in Wanted(KeyOf(a)) /\ details[i] = DepscanDetails(a)
    BY <1>1, <1>2, <2>2
  <2> DEFINE key == KeyOf(a)
             w == Wanted(key)
             r == RecordAll(InitVersionBucket, details, w)
  <2>4. \A j \in w : \E e \in Held(r) : Alike(e, details[j])
    BY <1>5
  <2>5. m[key] = r /\ i \in w
    BY <1>3, <2>1, <2>3
  <2> HIDE DEF key, w, r
  <2>6. \E e \in Held(m[key]) : Alike(e, DepscanDetails(a))
    BY <2>3, <2>4, <2>5
  <2> QED BY <1>3, <2>1, <2>6 DEF key
<1> QED BY <1>8, <1>9 DEF m

Maps(Rows) == {m \in UNION {[D -> Bucket] : D \in SUBSET {r[1] : r \in Rows}} : MapOK(m, Rows)}

AddReport(map, r) == MergePackageMaps(map, ProcessVdr(r))

\* The reports are processed one by one.
LEMMA DepscanPrefixes ==
  ASSUME NEW U \in SUBSET Advisory, NEW reports \in Seq(Seq(Advisory)),
         \A i \in DOMAIN reports : \A a \in ToSet(reports[i]) : a.package # NoPackage => a \in U
  PROVE  \E h \in [0..Len(reports) -> Maps(DepscanRows(U))] :
            /\ h[0] = <<>> /\ h[Len(reports)] = ProcessDepscan(reports)
            /\ \A k \in 1..Len(reports) : h[k] = AddReport(h[k - 1], reports[k])
<1> DEFINE n == Len(reports)
           X == Maps(DepscanRows(U))
           step == [k \in 1..n |-> [x \in X |-> AddReport(x, reports[k])]]
           Eq(f) == f = [s \in SUBSET DOMAIN reports |->
                           IF s = {} THEN <<>> ELSE AddReport(f[s \ {Max(s)}], reports[Max(s)])]
           it == CHOOSE f : Eq(f)
<1>1. n \in Nat /\ DOMAIN reports = 1..n /\ \A k \in 1..n : reports[k] \in Seq(Advisory)
  OBVIOUS
<1>2. <<>> \in X
  <2>1. <<>> \in [{} -> Bucket] /\ DOMAIN <<>> = {}
    OBVIOUS
  <2>2. <<>> \in UNION {[D -> Bucket] : D \in SUBSET {r[1] : r \in DepscanRows(U)}}
    BY <2>1
  <2> QED BY <2>1, <2>2 DEF Maps, MapOK
<1>3. \A k \in 1..n, x \in X : AddReport(x, reports[k]) \in X
  <2> TAKE k \in 1..n, x \in X
  <2>1. MapOK(x, DepscanRows(U)) /\ MapOK(ProcessVdr(reports[k]), DepscanRows(U))
    BY <1>1, VdrOK DEF Maps
  <2>2. MapOK(AddReport(x, reports[k]), DepscanRows(U))
    BY <2>1, RowsTyped, MergeMapsOK DEF AddReport
  <2> QED BY <2>2 DEF Maps, MapOK
<1>4. step \in [1..n -> [X -> X]] /\ \A k \in 1..n, x \in X : step[k][x] = AddReport(x, reports[k])
  BY <1>3
<1>5. ProcessDepscan(reports) = it[1..n]
  BY <1>1 DEF ProcessDepscan, FoldLeft, MapThenFoldSet, AddReport
<1>6. FoldsIn(it, n, X, <<>>, step)
  <2> HIDE DEF step, X, n
  <2>1. PICK g \in [SUBSET (1..n) -> X] : IsFold(g, n, <<>>, step)
    BY <1>1, <1>2, <1>4, FoldExists
  <2>2. Eq(g)
    BY <1>1, <1>4, <2>1, MaxIn DEF IsFold
  <2>3. Eq(it)
    <3> HIDE DEF Eq
    <3> QED BY <2>2
  <2> HIDE DEF it
  <2>4. \A s \in SUBSET (1..n) : it[s] = IF s = {} THEN <<>> ELSE AddReport(it[s \ {Max(s)}], reports[Max(s)])
    BY <1>1, <2>3
  <2>5. \A s \in SUBSET (1..n) : s # {} => Max(s) \in 1..n
    BY <1>1, MaxIn
  <2> QED BY <1>4, <2>4, <2>5 DEF FoldsIn
<1> HIDE DEF it, step, X, n
<1>7. PICK h \in [0..n -> X] : StepByStep(h, n, <<>>, step) /\ h[n] = it[1..n]
  <2>1. n \in Nat /\ step \in [1..n -> [X -> X]]
    BY <1>1, <1>2, <1>4, <1>6
  <2>2. <<>> \in X
    BY <1>1, <1>2, <1>4, <1>6
  <2>3. FoldsIn(it, n, X, <<>>, step)
    BY <1>6
  <2>4. Unrolls(it, n, X, <<>>, step)
    BY <2>1, <2>2, <2>3, FoldPrefixes
  <2> QED BY <2>4 DEF Unrolls
<1>8. \A k \in 1..n : h[k] = AddReport(h[k - 1], reports[k])
  <2> TAKE k \in 1..n
  <2>1. k - 1 \in 0..n
    BY <1>1
  <2> QED BY <1>4, <1>7, <2>1 DEF StepByStep
<1> QED BY <1>5, <1>7, <1>8 DEF StepByStep, X, n

\* One more report keeps what the earlier ones told.
LEMMA AddReportOK ==
  ASSUME NEW U \in SUBSET Advisory, NEW report \in Seq(Advisory),
         \A a \in ToSet(report) : a.package # NoPackage => a \in U,
         NEW t, MapOK(t, DepscanRows(U))
  PROVE  LET r == AddReport(t, report)
             Rows == DepscanRows(U)
         IN /\ MapOK(r, Rows)
            /\ \A key, d : TellsOf(t, Rows, key, d) => TellsOf(r, Rows, key, d)
            /\ \A a \in ToSet(report) : a.package # NoPackage =>
                  TellsOf(r, Rows, KeyOf(a), DepscanDetails(a))
<1> DEFINE Rows == DepscanRows(U)
           s == ProcessVdr(report)
           r == MergePackageMaps(t, s)
<1>1. RowsOK(Rows)
  BY RowsTyped
<1>2. /\ MapOK(s, Rows)
      /\ \A a \in ToSet(report) : a.package # NoPackage =>
            KeyOf(a) \in DOMAIN s /\ \E e \in Held(s[KeyOf(a)]) : Alike(e, DepscanDetails(a))
  BY VdrOK
<1>3. \A a \in ToSet(report) : a.package # NoPackage => <<KeyOf(a), DepscanDetails(a)>> \in Rows
  BY DEF DepscanRows
<1> HIDE DEF Rows, s
<1>4. /\ MapOK(r, Rows) /\ DOMAIN r = DOMAIN t \cup DOMAIN s
      /\ \A key \in DOMAIN t : Held(t[key]) \subseteq Held(r[key])
      /\ \A key \in DOMAIN s : \A d \in Held(s[key]) : \E e \in Held(r[key]) : Alike(e, d)
  <2>1. MapOK(t, Rows) /\ MapOK(s, Rows)
    BY <1>2 DEF Rows
  <2> QED BY <1>1, <2>1, MergeMapsOK
<1> HIDE DEF r
<1>5. ASSUME NEW key, NEW d, TellsOf(t, Rows, key, d) PROVE TellsOf(r, Rows, key, d)
  <2>1. key \in DOMAIN t /\ key \in DOMAIN r
    BY <1>4, <1>5 DEF TellsOf
  <2>2. \A e \in Held(t[key]) : <<key, e>> \in Rows /\ \E f \in Held(r[key]) : Alike(f, e)
    BY <1>4, <2>1 DEF MapOK, Alike, Rows
  <2> QED BY <1>1, <1>4, <1>5, <2>1, <2>2, TellsMore
<1>6. ASSUME NEW a \in ToSet(report), a.package # NoPackage
      PROVE  TellsOf(r, Rows, KeyOf(a), DepscanDetails(a))
  <2> DEFINE key == KeyOf(a)
             d == DepscanDetails(a)
  <2>1. <<key, d>> \in Rows /\ key \in DOMAIN s /\ \E e \in Held(s[key]) : Alike(e, d)
    BY <1>2, <1>3, <1>6
  <2> HIDE DEF key, d
  <2>2. TellsOf(s, Rows, key, d)
    BY <1>1, <1>2, <2>1, TellsOne
  <2>3. /\ key \in DOMAIN r
        /\ \A e \in Held(s[key]) : <<key, e>> \in Rows /\ \E f \in Held(r[key]) : Alike(f, e)
    BY <1>2, <1>4, <2>1 DEF MapOK
  <2>4. TellsOf(r, Rows, key, d)
    BY <1>1, <1>4, <2>2, <2>3, TellsMore
  <2> QED BY <2>4 DEF key, d
<1> QED BY <1>4, <1>5, <1>6 DEF r, s, Rows, AddReport

\* All reports together tell every advisory of theirs.
LEMMA DepscanOK ==
  ASSUME NEW U \in SUBSET Advisory, NEW reports \in Seq(Seq(Advisory)),
         \A i \in DOMAIN reports : \A a \in ToSet(reports[i]) : a.package # NoPackage => a \in U
  PROVE  LET m == ProcessDepscan(reports)
         IN /\ MapOK(m, DepscanRows(U))
            /\ \A i \in DOMAIN reports : \A a \in ToSet(reports[i]) : a.package # NoPackage =>
                  TellsOf(m, DepscanRows(U), KeyOf(a), DepscanDetails(a))
<1> DEFINE n == Len(reports)
           Rows == DepscanRows(U)
           Told2(m, i) == \A a \in ToSet(reports[i]) : a.package # NoPackage =>
                            TellsOf(m, Rows, KeyOf(a), DepscanDetails(a))
<1>1. PICK h \in [0..n -> Maps(Rows)] :
            /\ h[0] = <<>> /\ h[n] = ProcessDepscan(reports)
            /\ \A k \in 1..n : h[k] = AddReport(h[k - 1], reports[k])
  BY DepscanPrefixes
<1>2. n \in Nat /\ DOMAIN reports = 1..n /\ \A k \in 1..n : reports[k] \in Seq(Advisory)
  OBVIOUS
<1>0. RowsOK(Rows)
  BY RowsTyped
<1> DEFINE T == {k \in 0..n : \A i \in 1..k : Told2(h[k], i)}
<1>3. 0 \in T
  BY <1>2, EmptyPrefix
<1>4. ASSUME NEW k \in 1..n, k - 1 \in T PROVE k \in T
  <2> DEFINE t == h[k - 1]
             r == h[k]
             report == reports[k]
  <2>1. k \in 0..n /\ k - 1 \in 0..n /\ MapOK(t, Rows) /\ r = AddReport(t, report) /\ report \in Seq(Advisory)
    <3>1. k \in 0..n /\ k - 1 \in 0..n /\ report \in Seq(Advisory)
      BY <1>2
    <3>2. t \in Maps(Rows) /\ r = AddReport(t, report)
      BY <1>1, <3>1
    <3> QED BY <3>1, <3>2 DEF Maps
  <2>2. \A a \in ToSet(report) : a.package # NoPackage => a \in U
    BY <1>2
  <2>3. \A i \in 1..(k - 1) : Told2(t, i)
    BY <1>4
  <2>4. \A i \in 1..k : i # k => i \in 1..(k - 1)
    BY <1>2
  <2> HIDE DEF t, r, T, n, report, Told2
  <2>5. /\ \A key, d : TellsOf(t, Rows, key, d) => TellsOf(r, Rows, key, d)
        /\ \A a \in ToSet(report) : a.package # NoPackage =>
              TellsOf(r, Rows, KeyOf(a), DepscanDetails(a))
    BY <2>1, <2>2, AddReportOK
  <2>6. Told2(r, k)
    BY <2>5 DEF Told2, report
  <2>7. \A i \in 1..(k - 1) : Told2(r, i)
    BY <2>3, <2>5 DEF Told2
  <2> QED BY <2>1, <2>4, <2>6, <2>7 DEF T, r
<1>5. n \in T
  <2>1. \A k \in 1..n : k - 1 \in T => k \in T
    BY <1>4
  <2>2. n \in 0..n
    BY <1>2
  <2> HIDE DEF T, n
  <2> QED BY <1>2, <1>3, <2>1, <2>2, PrefixInduction
<1>6. MapOK(h[n], Rows) /\ \A i \in 1..n : Told2(h[n], i)
  <2>1. n \in 0..n
    BY <1>2
  <2> QED BY <1>1, <1>5, <2>1 DEF Maps
<1> HIDE DEF T, n, Rows
<1> QED BY <1>1, <1>2, <1>6 DEF Rows

\* The deduplicated answer of osv-scanner tells every advisory of its own.
LEMMA OsvMapOK ==
  ASSUME NEW U \in SUBSET Advisory, \A u \in U : u.package # NoPackage, NEW advisories \in Seq(Advisory), NEW tr,
         \A a \in ToSet(advisories) : a.package # NoPackage => a \in U,
         NEW map, MapOK(map, DepscanRows(U))
  PROVE  LET m == ProcessOsv(map, advisories, tr)
             Rows == DepscanRows(U) \cup OsvRows(U, tr)
         IN /\ MapOK(m, Rows)
            /\ \A key \in DOMAIN map : key \in DOMAIN m /\ Held(map[key]) \subseteq Held(m[key])
            /\ \A a \in ToSet(advisories) : a.package # NoPackage =>
                  TellsOf(m, Rows, KeyOf(a), OsvDetails(a, tr))
<1> DEFINE n == Len(advisories)
           Rows == DepscanRows(U) \cup OsvRows(U, tr)
           details == [i \in DOMAIN advisories |-> OsvDetails(advisories[i], tr)]
           Wanted(key) == {i \in DedupeOsv(advisories) : KeyOf(advisories[i]) = key}
           m == ProcessOsv(map, advisories, tr)
           D == DOMAIN map \cup KnownKeys(advisories)
<1>1. n \in Nat /\ DOMAIN advisories = 1..n /\ DOMAIN details = 1..n /\ \A i \in 1..n : advisories[i] \in Advisory
  OBVIOUS
<1>2. \A i \in 1..n : details[i] = OsvDetails(advisories[i], tr) /\ details[i] \in Detail /\ details[i].ids = advisories[i].ids
  BY <1>1, DetailsTyped
<1>3. /\ DOMAIN m = D /\ m = [key \in D |-> m[key]]
      /\ \A key \in D : m[key] = RecordAll(BucketOf(map, key), details, Wanted(key))
  BY DEF ProcessOsv
<1>4. DedupeOsv(advisories) \subseteq 1..n
  BY <1>1 DEF DedupeOsv
<1>5. \A key : BucketOK(BucketOf(map, key)) /\ \A d \in Held(BucketOf(map, key)) : <<key, d>> \in DepscanRows(U)
  BY InitBucketOK DEF MapOK, BucketOf
<1>6. ASSUME NEW key
      PROVE  LET r == RecordAll(BucketOf(map, key), details, Wanted(key))
             IN /\ BucketOK(r) /\ Held(BucketOf(map, key)) \subseteq Held(r)
                /\ Held(r) \subseteq Held(BucketOf(map, key)) \cup {details[i] : i \in Wanted(key)}
                /\ \A i \in Wanted(key) : \E e \in Held(r) : Alike(e, details[i])
  <2> DEFINE w == Wanted(key)
             b == BucketOf(map, key)
             r == RecordAll(b, details, w)
  <2>1. w \cap (1..n) = w
    BY <1>4
  <2>2. BucketOK(b)
    BY <1>5
  <2> HIDE DEF w, details, n, r, b
  <2>3. /\ BucketOK(r) /\ Held(b) \subseteq Held(r)
        /\ Held(r) \subseteq Held(b) \cup {details[i] : i \in w \cap (1..n)}
        /\ \A i \in w \cap (1..n) : \E e \in Held(r) : Alike(e, details[i])
    BY <1>1, <1>2, <2>2, RecordAllOK DEF r
  <2> QED BY <2>1, <2>3 DEF w, r, b
<1> HIDE DEF m, details
<1>7. \A key \in D : BucketOK(m[key]) /\ \A d \in Held(m[key]) : <<key, d>> \in Rows
  <2> TAKE key \in D
  <2> DEFINE b == BucketOf(map, key)
             w == Wanted(key)
  <2>1. BucketOK(m[key]) /\ Held(m[key]) \subseteq Held(b) \cup {details[i] : i \in w}
    BY <1>3, <1>6
  <2>2. \A i \in w : <<key, details[i]>> \in Rows
    <3> TAKE i \in w
    <3>1. i \in 1..n /\ KeyOf(advisories[i]) = key
      BY <1>4
    <3>2. CASE advisories[i].package = NoPackage
      <4>1. key[1] = NoPackage
        BY <3>1, <3>2 DEF KeyOf
      <4>2. key \notin KnownKeys(advisories)
        BY <4>1 DEF KnownKeys, KeyOf
      <4>3. key \in DOMAIN map
        BY <4>2
      <4>4. PICK x \in DepscanRows(U) : x[1] = key
        BY <4>3 DEF MapOK
      <4>5. PICK u \in U : KeyOf(u) = key
        BY <4>4 DEF DepscanRows
      <4> QED BY <4>1, <4>5 DEF KeyOf
    <3>3. CASE advisories[i].package # NoPackage
      <4>1. advisories[i] \in U
        BY <1>1, <3>1, <3>3 DEF ToSet
      <4> QED BY <1>2, <3>1, <4>1 DEF OsvRows
    <3> QED BY <3>2, <3>3
  <2>3. \A d \in Held(b) : <<key, d>> \in Rows
    BY <1>5
  <2> HIDE DEF b, w, Rows
  <2> QED BY <2>1, <2>2, <2>3
<1>8. D \in SUBSET {x[1] : x \in Rows}
  <2>1. \A a \in U : <<KeyOf(a), DepscanDetails(a)>> \in Rows
    BY DEF DepscanRows
  <2>2. \A a \in U : KeyOf(a) \in {x[1] : x \in Rows}
    <3> TAKE a \in U
    <3>1. <<KeyOf(a), DepscanDetails(a)>>[1] = KeyOf(a)
      OBVIOUS
    <3> QED BY <2>1, <3>1, Zenon
  <2>3. DOMAIN map \subseteq {x[1] : x \in Rows}
    BY DEF MapOK
  <2>4. KnownKeys(advisories) \subseteq {x[1] : x \in Rows}
    BY <2>2 DEF KnownKeys
  <2> QED BY <2>3, <2>4
<1>9. MapOK(m, Rows)
  <2>1. m \in [D -> Bucket]
    BY <1>3, <1>7 DEF BucketOK
  <2> HIDE DEF D, Rows
  <2> QED BY <1>3, <1>7, <1>8, <2>1 DEF MapOK
<1>10. ASSUME NEW key \in DOMAIN map
       PROVE  key \in DOMAIN m /\ Held(map[key]) \subseteq Held(m[key])
  <2>1. BucketOf(map, key) = map[key]
    BY DEF BucketOf
  <2> QED BY <1>3, <1>6, <2>1
<1>11. ASSUME NEW a \in ToSet(advisories), a.package # NoPackage
       PROVE  TellsOf(m, Rows, KeyOf(a), OsvDetails(a, tr))
  <2> DEFINE key == KeyOf(a)
  <2>1. key \in D /\ key \in DOMAIN m
    BY <1>3, <1>11 DEF KnownKeys
  <2> SUFFICES ASSUME NEW C, ClosedIn(Rows, key[1], C), OsvDetails(a, tr).ids \subseteq C
               PROVE  \E e \in Held(m[key]) : e.ids \subseteq C
    BY <2>1 DEF TellsOf
  <2> DEFINE P == {i \in 1..n : KeyOf(advisories[i]) = key /\ advisories[i].ids \subseteq C}
  <2>2. PICK i0 \in 1..n : a = advisories[i0]
    BY <1>1 DEF ToSet
  <2>3. i0 \in P
    BY <1>2, <2>2
  <2>4. PICK i \in P : \A j \in P : i <= j
    <3>1. P \in SUBSET Nat /\ P # {}
      BY <2>3
    <3> HIDE DEF P
    <3> QED BY <3>1, LeastNatural
  <2>5. \A j \in 1..n : KeyOf(advisories[j]) = key =>
            advisories[j].ids \subseteq C \/ advisories[j].ids \cap C = {}
    <3> TAKE j \in 1..n
    <3> HAVE KeyOf(advisories[j]) = key
    <3>1. advisories[j].package = a.package /\ advisories[j] \in ToSet(advisories) /\ key[1] = a.package
      BY <1>1 DEF KeyOf, ToSet
    <3>2. advisories[j] \in U
      BY <1>11, <3>1
    <3> DEFINE x == <<key, OsvDetails(advisories[j], tr)>>
    <3>3. x \in Rows /\ x[1] = key /\ x[2].ids = advisories[j].ids
      BY <1>2, <3>2 DEF OsvRows
    <3> HIDE DEF x, Rows
    <3> QED BY <3>3 DEF ClosedIn
  <2>6. i \in Wanted(key)
    <3>1. ASSUME NEW j \in 1..(i - 1), KeyOf(advisories[j]) = KeyOf(advisories[i]),
                 advisories[j].ids \cap advisories[i].ids # {}
          PROVE  FALSE
      <4>1. j \in 1..n /\ j < i
        BY <1>1, <2>4
      <4>2. j \in P
        BY <2>5, <3>1, <4>1
      <4> QED BY <1>1, <2>4, <4>1, <4>2
    <3> QED BY <1>1, <2>4, <3>1 DEF DedupeOsv
  <2>7. PICK e \in Held(m[key]) : Alike(e, details[i])
    <3> DEFINE w == Wanted(key)
               r == RecordAll(BucketOf(map, key), details, w)
    <3>1. \A j \in w : \E e \in Held(r) : Alike(e, details[j])
      BY <1>6
    <3>2. m[key] = r
      BY <1>3, <2>1
    <3> HIDE DEF w, r, P
    <3> QED BY <2>6, <3>1, <3>2 DEF w
  <2>8. <<key, e>> \in Rows
    BY <1>7, <2>1
  <2>9. e.ids \subseteq C \/ e.ids \cap C = {}
    <3> DEFINE x == <<key, e>>
    <3>1. x \in Rows /\ x[1][1] = key[1] /\ x[2] = e
      BY <2>8
    <3> HIDE DEF x, Rows
    <3> QED BY <3>1 DEF ClosedIn
  <2>10. details[i].ids \subseteq C /\ details[i].id \in details[i].ids
    BY <1>2, <2>4 DEF Detail
  <2> HIDE DEF P, Rows
  <2> QED BY <2>7, <2>9, <2>10 DEF Alike
<1> QED BY <1>9, <1>10, <1>11 DEF m

\* The image of a finite set is finite.
LEMMA FiniteImage ==
  ASSUME NEW S, IsFiniteSet(S), NEW f, DOMAIN f = S
  PROVE  IsFiniteSet({f[x] : x \in S})
<1> DEFINE T == {f[x] : x \in S}
           g == [x \in S |-> f[x]]
<1>1. g \in Surjection(S, T)
  BY DEF Surjection
<1> HIDE DEF T, g
<1> QED BY <1>1, FS_Surjection DEF T

\* A sequence has finitely many elements.
LEMMA FiniteElements ==
  ASSUME NEW S, NEW s \in Seq(S)
  PROVE  IsFiniteSet(ToSet(s))
<1>1. DOMAIN s = 1..Len(s) /\ Len(s) \in Nat
  OBVIOUS
<1>2. IsFiniteSet(DOMAIN s)
  BY <1>1, FS_Interval
<1> QED BY <1>2, FiniteImage DEF ToSet

\* An order of a finite set holds every element of it.
LEMMA OrderCovers ==
  ASSUME NEW S, IsFiniteSet(S), NEW order \in SetToSeqs(S)
  PROVE  /\ order \in Seq(S) /\ Len(order) = Cardinality(S) /\ Cardinality(S) \in Nat
         /\ ToSet(order) = S
<1> DEFINE n == Cardinality(S)
<1>1. n \in Nat
  BY FS_CardinalityType
<1>2. order \in [1..n -> S] /\ \A i, j \in 1..n : i # j => order[i] # order[j]
  BY DEF SetToSeqs
<1>3. IsFiniteSet(1..n) /\ Cardinality(1..n) = n
  BY <1>1, FS_Interval
<1>4. order \in Injection(1..n, S)
  BY <1>2 DEF Injection, IsInjective
<1>5. order \in Surjection(1..n, S)
  BY <1>3, <1>4, FS_Injection
<1> HIDE DEF n
<1>6. ToSet(order) = S
  BY <1>2, <1>5 DEF Surjection, ToSet
<1>7. order \in Seq(S) /\ Len(order) = n
  BY <1>1, <1>2
<1> QED BY <1>1, <1>6, <1>7 DEF n

Recordings == DepscanRows(AdvisoriesUsed) \cup OsvRows(AdvisoriesUsed, inventory.transitive)
InReports(a) == a \in UNION {ToSet(r) : r \in ToSet(Reports)}

\* What there is to merge is typed.
LEMMA AnswersTyped ==
  ASSUME Scanning
  PROVE  Reports \in Seq(Seq(Advisory)) /\ Advisories \in Seq(Advisory)
<1>1. Reports \in Seq(Seq(Advisory))
  <2>1. CASE DepscanSucceeded
    <3>1. depscan \in DepscanEnd /\ depscan.outcome = "exit"
      BY <2>1 DEF Scanning, DepscanSucceeded, Running
    <3>2. depscan.reports \in Seq(Seq(Advisory))
      BY <3>1 DEF DepscanEnd, NoAnswer
    <3> QED BY <2>1, <3>2 DEF Reports
  <2>2. CASE ~DepscanSucceeded
    BY <2>2 DEF Reports
  <2> QED BY <2>1, <2>2
<1>2. Advisories \in Seq(Advisory)
  <2>1. CASE OsvPrinted /\ osv.output = "json"
    <3>1. osv \in OsvEnd /\ osv.outcome = "exit"
      BY <2>1 DEF Scanning, OsvPrinted, Running
    <3>2. osv.advisories \in Seq(Advisory)
      BY <3>1 DEF OsvEnd, NoAnswer
    <3> QED BY <2>1, <3>2 DEF Advisories
  <2>2. CASE ~(OsvPrinted /\ osv.output = "json")
    BY <2>2 DEF Advisories
  <2> QED BY <2>1, <2>2
<1> QED BY <1>1, <1>2

\* So is every advisory that is used.
LEMMA UsedTyped ==
  ASSUME Scanning
  PROVE  /\ AdvisoriesUsed \in SUBSET Advisory /\ IsFiniteSet(AdvisoriesUsed)
         /\ \A a \in AdvisoriesUsed : a.package # NoPackage
         /\ \A i \in DOMAIN Reports : \A a \in ToSet(Reports[i]) : a.package # NoPackage => a \in AdvisoriesUsed
         /\ \A a \in ToSet(Advisories) : a.package # NoPackage => a \in AdvisoriesUsed
<1> DEFINE all == (UNION {ToSet(r) : r \in ToSet(Reports)}) \cup ToSet(Advisories)
<1>1. Reports \in Seq(Seq(Advisory)) /\ Advisories \in Seq(Advisory)
  BY AnswersTyped
<1>2. \A r \in ToSet(Reports) : r \in Seq(Advisory)
  BY <1>1 DEF ToSet
<1>3. \A r \in ToSet(Reports) : IsFiniteSet(ToSet(r)) /\ ToSet(r) \subseteq Advisory
  <2> TAKE r \in ToSet(Reports)
  <2>1. r \in Seq(Advisory)
    BY <1>2
  <2>2. IsFiniteSet(ToSet(r))
    BY <2>1, FiniteElements
  <2>3. ToSet(r) \subseteq Advisory
    BY <2>1 DEF ToSet
  <2> QED BY <2>2, <2>3
<1>4. IsFiniteSet({ToSet(r) : r \in ToSet(Reports)})
  <2> DEFINE f == [r \in ToSet(Reports) |-> ToSet(r)]
  <2>1. IsFiniteSet(ToSet(Reports))
    BY <1>1, FiniteElements
  <2>2. {f[r] : r \in ToSet(Reports)} = {ToSet(r) : r \in ToSet(Reports)}
    OBVIOUS
  <2>3. DOMAIN f = ToSet(Reports)
    OBVIOUS
  <2> HIDE DEF f
  <2>4. IsFiniteSet({f[r] : r \in ToSet(Reports)})
    BY <2>1, <2>3, FiniteImage
  <2> QED BY <2>2, <2>4
<1>5. IsFiniteSet(UNION {ToSet(r) : r \in ToSet(Reports)})
  BY <1>3, <1>4, FS_UNION
<1>6. IsFiniteSet(ToSet(Advisories)) /\ ToSet(Advisories) \subseteq Advisory
  <2>1. IsFiniteSet(ToSet(Advisories))
    BY <1>1, FiniteElements
  <2>2. ToSet(Advisories) \subseteq Advisory
    BY <1>1 DEF ToSet
  <2> QED BY <2>1, <2>2
<1>7. IsFiniteSet(all)
  <2> DEFINE A == UNION {ToSet(r) : r \in ToSet(Reports)}
             B == ToSet(Advisories)
  <2>1. IsFiniteSet(A) /\ IsFiniteSet(B) /\ all = A \cup B
    BY <1>5, <1>6
  <2> HIDE DEF A, B, all
  <2> QED BY <2>1, FS_Union
<1>8. AdvisoriesUsed \in SUBSET all
  BY DEF AdvisoriesUsed
<1>9. IsFiniteSet(AdvisoriesUsed)
  <2> HIDE DEF all
  <2> QED BY <1>7, <1>8, FS_Subset
<1>10. AdvisoriesUsed \in SUBSET Advisory
  <2>1. \A a \in all : a \in Advisory
    BY <1>3, <1>6
  <2> QED BY <1>8, <2>1
<1>11. \A i \in DOMAIN Reports : Reports[i] \in ToSet(Reports)
  BY DEF ToSet
<1>12. ASSUME NEW i \in DOMAIN Reports, NEW a \in ToSet(Reports[i]), a.package # NoPackage
       PROVE  a \in AdvisoriesUsed
  <2>1. a \in UNION {ToSet(r) : r \in ToSet(Reports)}
    BY <1>11
  <2> QED BY <1>12, <2>1 DEF AdvisoriesUsed
<1>13. /\ \A a \in ToSet(Advisories) : a.package # NoPackage => a \in AdvisoriesUsed
       /\ \A a \in AdvisoriesUsed : a.package # NoPackage
  BY DEF AdvisoriesUsed
<1> QED BY <1>9, <1>10, <1>12, <1>13

\* What was recorded stands for an advisory of its package and version; and of
\* every advisory that was reported something is recorded, itself or another one
\* that its identifiers lead to, from depscan where depscan reported it.
LEMMA RecordedTells ==
  ASSUME Scanning
  PROVE  /\ MapOK(Recorded, Recordings)
         /\ \A a \in AdvisoriesUsed :
               /\ KeyOf(a) \in DOMAIN Recorded
               /\ \A C : Linked(a.package, C) /\ a.ids \subseteq C =>
                     \E e \in Held(Recorded[KeyOf(a)]) :
                        e.ids \subseteq C /\ (InReports(a) => e.source = "depscan")
<1> DEFINE U == AdvisoriesUsed
           tr == inventory.transitive
           Deps == DepscanRows(U)
           Rows == Deps \cup OsvRows(U, tr)
           map == ProcessDepscan(Reports)
           m == ProcessOsv(map, Advisories, tr)
<1>1. Reports \in Seq(Seq(Advisory)) /\ Advisories \in Seq(Advisory)
  BY AnswersTyped
<1>2. /\ U \in SUBSET Advisory
      /\ \A a \in U : a.package # NoPackage
      /\ \A i \in DOMAIN Reports : \A a \in ToSet(Reports[i]) : a.package # NoPackage => a \in U
      /\ \A a \in ToSet(Advisories) : a.package # NoPackage => a \in U
  BY UsedTyped
<1>3. RowsOK(Deps) /\ RowsOK(Rows)
  BY <1>2, RowsTyped
<1> HIDE DEF U, tr
<1>4. /\ MapOK(map, Deps)
      /\ \A i \in DOMAIN Reports : \A a \in ToSet(Reports[i]) : a.package # NoPackage =>
            TellsOf(map, Deps, KeyOf(a), DepscanDetails(a))
  BY <1>1, <1>2, DepscanOK
<1> HIDE DEF map
<1>5. /\ MapOK(m, Rows)
      /\ \A key \in DOMAIN map : key \in DOMAIN m /\ Held(map[key]) \subseteq Held(m[key])
      /\ \A a \in ToSet(Advisories) : a.package # NoPackage =>
            TellsOf(m, Rows, KeyOf(a), OsvDetails(a, tr))
  BY <1>1, <1>2, <1>4, OsvMapOK
<1> HIDE DEF m
<1>6. Recorded = m /\ Recordings = Rows
  BY DEF Recorded, Recordings, m, map, tr, U
<1>7. ASSUME NEW p, NEW C, Linked(p, C)
      PROVE  ClosedIn(Deps, p, C) /\ ClosedIn(Rows, p, C)
  <2>1. \A r \in Rows : \E b \in U : r[1][1] = b.package /\ r[2].ids = b.ids
    <3> TAKE r \in Rows
    <3>1. PICK b \in U : r = <<KeyOf(b), DepscanDetails(b)>> \/ r = <<KeyOf(b), OsvDetails(b, tr)>>
      BY DEF DepscanRows, OsvRows
    <3>2. r[1][1] = b.package
      BY <3>1 DEF KeyOf
    <3>3. r[2].ids = b.ids
      BY <3>1 DEF DepscanDetails, OsvDetails
    <3> QED BY <3>2, <3>3
  <2>2. \A b \in U : b.package = p => b.ids \subseteq C \/ b.ids \cap C = {}
    BY <1>7 DEF Linked, U
  <2> HIDE DEF Rows, Deps
  <2>3. ClosedIn(Rows, p, C)
    BY <2>1, <2>2 DEF ClosedIn
  <2> QED BY <2>3 DEF ClosedIn, Rows
<1>8. ASSUME NEW a \in U, InReports(a)
      PROVE  /\ KeyOf(a) \in DOMAIN m
             /\ \A C : Linked(a.package, C) /\ a.ids \subseteq C =>
                   \E e \in Held(m[KeyOf(a)]) : e.ids \subseteq C /\ e.source = "depscan"
  <2> DEFINE key == KeyOf(a)
  <2>1. PICK i \in DOMAIN Reports : a \in ToSet(Reports[i])
    BY <1>8 DEF InReports, ToSet
  <2>2. TellsOf(map, Deps, key, DepscanDetails(a))
    BY <1>2, <1>4, <2>1
  <2>3. key[1] = a.package /\ DepscanDetails(a).ids = a.ids
    BY DEF KeyOf, DepscanDetails
  <2> HIDE DEF key, Deps, Rows
  <2>4. key \in DOMAIN map /\ key \in DOMAIN m /\ Held(map[key]) \subseteq Held(m[key])
    BY <1>5, <2>2 DEF TellsOf
  <2>5. ASSUME NEW C, Linked(a.package, C), a.ids \subseteq C
        PROVE  \E e \in Held(m[key]) : e.ids \subseteq C /\ e.source = "depscan"
    <3>1. PICK e \in Held(map[key]) : e.ids \subseteq C
      BY <1>7, <2>2, <2>3, <2>5 DEF TellsOf
    <3>2. <<key, e>> \in Deps
      BY <1>4, <2>4 DEF MapOK
    <3>3. e.source = "depscan"
      BY <3>2 DEF Deps, DepscanRows, DepscanDetails
    <3> QED BY <2>4, <3>1, <3>3
  <2> QED BY <2>4, <2>5 DEF key
<1>9. ASSUME NEW a \in U, ~InReports(a)
      PROVE  /\ KeyOf(a) \in DOMAIN m
             /\ \A C : Linked(a.package, C) /\ a.ids \subseteq C =>
                   \E e \in Held(m[KeyOf(a)]) : e.ids \subseteq C
  <2> DEFINE key == KeyOf(a)
  <2>1. a \in ToSet(Advisories)
    <3>1. a \in AdvisoriesUsed
      BY DEF U
    <3>2. a \in (UNION {ToSet(r) : r \in ToSet(Reports)}) \cup ToSet(Advisories)
      BY <3>1 DEF AdvisoriesUsed
    <3> QED BY <1>9, <3>2 DEF InReports
  <2>2. TellsOf(m, Rows, key, OsvDetails(a, tr))
    BY <1>2, <1>5, <2>1
  <2>3. key[1] = a.package /\ OsvDetails(a, tr).ids = a.ids
    BY DEF KeyOf, OsvDetails
  <2> HIDE DEF key, Deps, Rows
  <2>4. ASSUME NEW C, Linked(a.package, C), a.ids \subseteq C
        PROVE  \E e \in Held(m[key]) : e.ids \subseteq C
    BY <1>7, <2>2, <2>3, <2>4 DEF TellsOf
  <2> QED BY <2>2, <2>4 DEF key, TellsOf
<1> HIDE DEF Rows, Deps
<1> QED BY <1>5, <1>6, <1>8, <1>9 DEF U

-----------------------------------------------------------------------------
(* Entries: the buckets of a package are placed in groups, in any order.   *)

Package == STRING \X STRING
Group == [package : Package, versions : SUBSET STRING, ids : SUBSET STRING,
          cve : Seq(Detail), malware : Seq(Detail)]

Severe(d) == d.reachable /\ d.severity \in {"HIGH", "CRITICAL"}

\* Severities are ordered by rank (_severity_rank).
LEMMA RankFacts ==
  /\ \A s : SeverityRank(s) \in 1..9
  /\ \A s : SeverityRank(s) = 8 => s = "HIGH"
  /\ \A s : SeverityRank(s) = 9 => s = "CRITICAL"
  /\ SeverityRank("HIGH") = 8 /\ SeverityRank("CRITICAL") = 9
<1> DEFINE o == SeverityOrder
<1>1. /\ DOMAIN o = 1..9 /\ o[1] = "none" /\ o[2] = "NONE" /\ o[3] = "UNKNOWN" /\ o[4] = "INFO"
      /\ o[5] = "LOW" /\ o[6] = "MEDIUM" /\ o[7] = "MODERATE" /\ o[8] = "HIGH" /\ o[9] = "CRITICAL"
  BY DEF SeverityOrder
<1> HIDE DEF o
<1>2. \A s : s \in ToSet(o) <=> \E i \in 1..9 : o[i] = s
  BY <1>1 DEF ToSet
<1>3. ASSUME NEW s PROVE SeverityRank(s) \in 1..9 /\ (s \in ToSet(o) => o[SeverityRank(s)] = s)
                         /\ (s \notin ToSet(o) => SeverityRank(s) = 1)
  <2>1. CASE s \in ToSet(o)
    <3>1. \E i \in 1..9 : o[i] = s
      BY <1>2, <2>1
    <3> QED BY <1>1, <2>1, <3>1 DEF SeverityRank, o
  <2>2. CASE s \notin ToSet(o)
    BY <2>2 DEF SeverityRank, o
  <2> QED BY <2>1, <2>2
<1>4. \A s : SeverityRank(s) = 8 => s = "HIGH"
  BY <1>1, <1>3
<1>5. \A s : SeverityRank(s) = 9 => s = "CRITICAL"
  BY <1>1, <1>3
<1>6. "HIGH" \in ToSet(o) /\ "CRITICAL" \in ToSet(o)
  <2>1. 8 \in 1..9 /\ 9 \in 1..9
    OBVIOUS
  <2> QED BY <1>1, <1>2, <2>1
<1>7. SeverityRank("HIGH") = 8
  <2>1. SeverityRank("HIGH") \in 1..9 /\ o[SeverityRank("HIGH")] = "HIGH"
    BY <1>3, <1>6
  <2> QED BY <1>1, <2>1
<1>8. SeverityRank("CRITICAL") = 9
  <2>1. SeverityRank("CRITICAL") \in 1..9 /\ o[SeverityRank("CRITICAL")] = "CRITICAL"
    BY <1>3, <1>6
  <2> QED BY <1>1, <2>1
<1> QED BY <1>3, <1>4, <1>5, <1>7, <1>8

\* Two details of one advisory become one that is as severe as each.
LEMMA MergeDetailsOK ==
  ASSUME NEW x \in Detail, NEW d \in Detail
  PROVE  LET y == MergeVulnDetails(x, d)
         IN y \in Detail /\ y.id = x.id /\ y.ids = x.ids /\ (Severe(x) \/ Severe(d) => Severe(y))
<1> DEFINE tr == x.transitive /\ d.transitive
           re == x.reachable \/ d.reachable
           us == IF d.used > x.used THEN d.used ELSE x.used
           se == IF SeverityRank(d.severity) > SeverityRank(x.severity) THEN d.severity ELSE x.severity
           y == [x EXCEPT !.transitive = tr, !.reachable = re, !.used = us, !.severity = se]
<1>1. /\ x.severity \in STRING \cup {"HIGH"} /\ d.severity \in STRING \cup {"HIGH"}
      /\ x.used \in Nat /\ d.used \in Nat /\ x.reachable \in BOOLEAN /\ d.reachable \in BOOLEAN
      /\ x.transitive \in BOOLEAN /\ d.transitive \in BOOLEAN
  BY DEF Detail
<1>2. tr \in BOOLEAN /\ re \in BOOLEAN /\ us \in Nat /\ se \in STRING \cup {"HIGH"}
  BY <1>1
<1>3. MergeVulnDetails(x, d) = y
  BY DEF MergeVulnDetails
<1>4. Severe(x) \/ Severe(d) => re /\ se \in {"HIGH", "CRITICAL"}
  <2>1. SeverityRank(d.severity) \in 1..9 /\ SeverityRank(x.severity) \in 1..9
    BY RankFacts
  <2>2. CASE Severe(x)
    <3>1. SeverityRank(x.severity) \in {8, 9}
      BY <2>2, RankFacts DEF Severe
    <3> QED BY <2>1, <2>2, <3>1, RankFacts DEF Severe
  <2>3. CASE Severe(d)
    <3>1. SeverityRank(d.severity) \in {8, 9}
      BY <2>3, RankFacts DEF Severe
    <3> QED BY <2>1, <2>3, <3>1, RankFacts DEF Severe
  <2> QED BY <2>2, <2>3
<1> HIDE DEF tr, re, us, se
<1>5. y \in Detail /\ y.id = x.id /\ y.ids = x.ids /\ y.reachable = re /\ y.severity = se
  BY <1>2 DEF Detail
<1> HIDE DEF y
<1> QED BY <1>3, <1>4, <1>5 DEF Severe

\* The elements of a sequence in which one was replaced.
LEMMA ReplaceFirst ==
  ASSUME NEW S, NEW s \in Seq(S), s # <<>>, NEW y \in S
  PROVE  LET t == [s EXCEPT ![1] = y]
         IN /\ t \in Seq(S) /\ t # <<>> /\ s[1] \in S /\ s[1] \in ToSet(s)
            /\ y \in ToSet(t)
            /\ \A x \in ToSet(s) : x = s[1] \/ x \in ToSet(t)
            /\ \A x \in ToSet(t) : x = y \/ x \in ToSet(s)
<1> DEFINE t == [s EXCEPT ![1] = y]
           n == Len(s)
<1>1. n \in Nat /\ DOMAIN s = 1..n /\ n # 0 /\ 1 \in 1..n
  OBVIOUS
<1>2. DOMAIN t = 1..n /\ t[1] = y /\ \A i \in 1..n : i # 1 => t[i] = s[i]
  BY <1>1
<1>3. t \in Seq(S)
  <2>1. \A i \in 1..n : t[i] \in S
    BY <1>1, <1>2
  <2>2. t = [i \in 1..n |-> t[i]]
    BY <1>1
  <2> HIDE DEF t, n
  <2>3. t \in [1..n -> S]
    BY <2>1, <2>2
  <2> QED BY <1>1, <2>3, FunctionIsSequence
<1> HIDE DEF t
<1>4. t # <<>>
  BY <1>1, <1>2
<1>5. y \in ToSet(t) /\ s[1] \in ToSet(s) /\ s[1] \in S
  BY <1>1, <1>2 DEF ToSet
<1>6. \A x \in ToSet(s) : x = s[1] \/ x \in ToSet(t)
  BY <1>1, <1>2 DEF ToSet
<1>7. \A x \in ToSet(t) : x = y \/ x \in ToSet(s)
  BY <1>1, <1>2 DEF ToSet
<1> QED BY <1>3, <1>4, <1>5, <1>6, <1>7 DEF t

\* An entry knows the identifiers of its details.
GroupOK(g) == g \in Group /\ \A d \in Held(g) : d.ids \subseteq g.ids

\* What an entry tells does not get less.
Grows(g, h) ==
    /\ h.package = g.package /\ g.versions \subseteq h.versions /\ g.ids \subseteq h.ids
    /\ \A d \in Held(g) : \E e \in Held(h) : e.id = d.id /\ e.ids = d.ids
    /\ g.malware # <<>> => h.malware # <<>>
    /\ (\E d \in ToSet(g.cve) : Severe(d)) => \E d \in ToSet(h.cve) : Severe(d)

\* The entry tells of a detail: as malware or as severe, where it is.
TellsKind(g, d) ==
    /\ IsMalware(d) => g.malware # <<>>
    /\ ~IsMalware(d) /\ Severe(d) => \E e \in ToSet(g.cve) : Severe(e)

\* A detail that is added to a group is held and told, and nothing is lost.
LEMMA AddToGroup ==
  ASSUME NEW g \in Group, NEW d \in Detail
  PROVE  LET h == AddVulnToBucket(g, d)
         IN /\ h \in Group /\ Held(h) = Held(g) \cup {d} /\ h.ids = g.ids
            /\ Grows(g, h) /\ TellsKind(h, d)
<1> DEFINE h == AddVulnToBucket(g, d)
<1>1. g.cve \in Seq(Detail) /\ g.malware \in Seq(Detail)
  BY DEF Group
<1>2. /\ Append(g.cve, d) \in Seq(Detail) /\ ToSet(Append(g.cve, d)) = ToSet(g.cve) \cup {d}
      /\ Append(g.malware, d) \in Seq(Detail) /\ ToSet(Append(g.malware, d)) = ToSet(g.malware) \cup {d}
      /\ Append(g.malware, d) # <<>>
  BY <1>1, ToSetAppend
<1>3. /\ h \in Group /\ h.package = g.package /\ h.versions = g.versions /\ h.ids = g.ids
      /\ \/ ~IsMalware(d) /\ h.malware = g.malware /\ h.cve = Append(g.cve, d)
         \/ IsMalware(d) /\ h.malware = Append(g.malware, d) /\ h.cve = g.cve
  BY <1>2 DEF AddVulnToBucket, Group
<1> HIDE DEF h
<1>4. Held(h) = Held(g) \cup {d}
  BY <1>2, <1>3 DEF Held
<1>5. Grows(g, h)
  BY <1>2, <1>3, <1>4 DEF Grows
<1>6. TellsKind(h, d)
  BY <1>2, <1>3 DEF TellsKind
<1> QED BY <1>3, <1>4, <1>5, <1>6 DEF h

\* A detail whose identifiers the group knows is merged into the first of its
\* kind; the group tells of it, and of what it told before.
LEMMA MergeIntoGroup ==
  ASSUME NEW g, GroupOK(g), NEW d \in Detail, d.ids \subseteq g.ids
  PROVE  LET h == MergeGroupVulnDetails(g, d)
         IN /\ GroupOK(h) /\ h.ids = g.ids /\ Held(h) # {}
            /\ Grows(g, h) /\ TellsKind(h, d)
<1> DEFINE h == MergeGroupVulnDetails(g, d)
<1>1. g \in Group /\ g.cve \in Seq(Detail) /\ g.malware \in Seq(Detail)
  BY DEF Group, GroupOK
<1>2. CASE h = AddVulnToBucket(g, d)
  <2> HIDE DEF h
  <2>1. h \in Group /\ Held(h) = Held(g) \cup {d} /\ h.ids = g.ids /\ Grows(g, h) /\ TellsKind(h, d)
    BY <1>1, <1>2, AddToGroup
  <2>2. GroupOK(h)
    BY <2>1 DEF GroupOK
  <2> QED BY <2>1, <2>2 DEF h
<1>3. CASE IsMalware(d) /\ g.malware # <<>>
  <2> DEFINE s == g.malware
             y == MergeVulnDetails(s[1], d)
             t == [s EXCEPT ![1] = y]
  <2>1. s[1] \in Detail /\ y \in Detail /\ y.id = s[1].id /\ y.ids = s[1].ids
    <3>1. s[1] \in Detail
      BY <1>1, <1>3
    <3> QED BY <3>1, MergeDetailsOK
  <2>2. h = [g EXCEPT !.malware = t]
    BY <1>3 DEF MergeGroupVulnDetails
  <2> HIDE DEF y
  <2>3. /\ t \in Seq(Detail) /\ t # <<>> /\ s[1] \in ToSet(s) /\ y \in ToSet(t)
        /\ \A x \in ToSet(s) : x = s[1] \/ x \in ToSet(t)
        /\ \A x \in ToSet(t) : x = y \/ x \in ToSet(s)
    <3>1. s \in Seq(Detail) /\ s # <<>>
      BY <1>1, <1>3
    <3> HIDE DEF s
    <3> QED BY <2>1, <3>1, ReplaceFirst
  <2> HIDE DEF h, t
  <2>4. /\ h \in Group /\ h.package = g.package /\ h.versions = g.versions /\ h.ids = g.ids
        /\ h.cve = g.cve /\ h.malware = t
    BY <1>1, <2>2, <2>3 DEF Group
  <2>5. GroupOK(h)
    BY <2>1, <2>3, <2>4 DEF GroupOK, Held
  <2>6. Grows(g, h)
    BY <2>1, <2>3, <2>4 DEF Grows, Held
  <2>7. TellsKind(h, d) /\ Held(h) # {}
    BY <1>3, <2>3, <2>4 DEF TellsKind, Held
  <2> QED BY <2>4, <2>5, <2>6, <2>7 DEF h
<1>4. CASE ~IsMalware(d) /\ g.cve # <<>>
  <2> DEFINE s == g.cve
             y == MergeVulnDetails(s[1], d)
             t == [s EXCEPT ![1] = y]
  <2>1. s[1] \in Detail /\ y \in Detail /\ y.id = s[1].id /\ y.ids = s[1].ids /\ (Severe(s[1]) \/ Severe(d) => Severe(y))
    <3>1. s[1] \in Detail
      BY <1>1, <1>4
    <3> QED BY <3>1, MergeDetailsOK
  <2>2. h = [g EXCEPT !.cve = t]
    BY <1>4 DEF MergeGroupVulnDetails
  <2> HIDE DEF y
  <2>3. /\ t \in Seq(Detail) /\ t # <<>> /\ s[1] \in ToSet(s) /\ y \in ToSet(t)
        /\ \A x \in ToSet(s) : x = s[1] \/ x \in ToSet(t)
        /\ \A x \in ToSet(t) : x = y \/ x \in ToSet(s)
    <3>1. s \in Seq(Detail) /\ s # <<>> /\ y \in Detail
      BY <1>1, <1>4, <2>1
    <3> HIDE DEF s
    <3> QED BY <3>1, ReplaceFirst
  <2> HIDE DEF h, t
  <2>4. /\ h \in Group /\ h.package = g.package /\ h.versions = g.versions /\ h.ids = g.ids
        /\ h.malware = g.malware /\ h.cve = t
    BY <1>1, <2>2, <2>3 DEF Group
  <2>5. GroupOK(h)
    BY <2>1, <2>3, <2>4 DEF GroupOK, Held
  <2>6. Grows(g, h)
    BY <2>1, <2>3, <2>4 DEF Grows, Held
  <2>7. TellsKind(h, d) /\ Held(h) # {}
    BY <1>4, <2>1, <2>3, <2>4 DEF TellsKind, Held
  <2> QED BY <2>4, <2>5, <2>6, <2>7 DEF h
<1> QED BY <1>2, <1>3, <1>4 DEF MergeGroupVulnDetails

\* A detail placed in a group is told by it from then on.
LEMMA FillOK ==
  ASSUME NEW g, GroupOK(g), NEW version \in STRING, NEW d \in Detail
  PROVE  LET h == Fill(g, version, d)
         IN /\ GroupOK(h) /\ h.ids = g.ids \cup d.ids /\ Held(h) # {}
            /\ version = "" \/ version \in h.versions
            /\ Grows(g, h) /\ TellsKind(h, d)
<1> DEFINE versions == IF version = "" THEN g.versions ELSE g.versions \cup {version}
           ids == g.ids \cup d.ids
           m == [g EXCEPT !.versions = versions, !.ids = ids]
           h == Fill(g, version, d)
<1>1. g \in Group /\ d.ids \in SUBSET STRING
  BY DEF GroupOK, Detail
<1>2. versions \in SUBSET STRING /\ ids \in SUBSET STRING
  BY <1>1 DEF Group
<1>3. h = IF d.ids \cap g.ids # {} THEN MergeGroupVulnDetails(m, d) ELSE AddVulnToBucket(m, d)
  BY DEF Fill
<1>4. g.versions \subseteq versions /\ g.ids \subseteq ids /\ (version = "" \/ version \in versions) /\ d.ids \subseteq ids
  OBVIOUS
<1> HIDE DEF h, versions, ids
<1>5. /\ m \in Group /\ m.versions = versions /\ m.ids = ids /\ m.package = g.package /\ m.cve = g.cve
      /\ m.malware = g.malware
  BY <1>1, <1>2 DEF Group
<1> HIDE DEF m
<1>6. GroupOK(m) /\ Held(m) = Held(g)
  BY <1>4, <1>5 DEF GroupOK, Held
<1>7. GroupOK(h) /\ h.ids = m.ids /\ Held(h) # {} /\ Grows(m, h) /\ TellsKind(h, d)
  <2>1. CASE d.ids \cap g.ids # {}
    BY <1>3, <1>4, <1>5, <1>6, <2>1, MergeIntoGroup
  <2>2. CASE ~(d.ids \cap g.ids # {})
    <3>1. h \in Group /\ Held(h) = Held(m) \cup {d} /\ h.ids = m.ids /\ Grows(m, h) /\ TellsKind(h, d)
      BY <1>3, <1>5, <2>2, AddToGroup
    <3> QED BY <1>4, <1>5, <1>6, <3>1 DEF GroupOK
  <2> QED BY <2>1, <2>2
<1>8. Grows(g, h)
  BY <1>4, <1>5, <1>6, <1>7 DEF Grows
<1>9. version = "" \/ version \in h.versions
  BY <1>4, <1>5, <1>7 DEF Grows
<1> QED BY <1>5, <1>7, <1>8, <1>9 DEF h, ids

Apart(ids, C) == ids \subseteq C \/ ids \cap C = {}

\* What the identifiers lead to are the entries that name them; no entry mixes
\* identifiers of C with others.
PlacedOK(p, package, C) ==
    /\ p \in [groups : UNION {[D -> Group] : D \in SUBSET STRING},
              lead : UNION {[D -> STRING] : D \in SUBSET STRING}]
    /\ \A n \in DOMAIN p.groups : /\ GroupOK(p.groups[n]) /\ p.groups[n].package = package
                                  /\ Apart(p.groups[n].ids, C)
    /\ DOMAIN p.groups \subseteq DOMAIN p.lead
    /\ \A i \in DOMAIN p.lead : p.lead[i] \in DOMAIN p.groups /\ i \in p.groups[p.lead[i]].ids

\* An entry names the version and holds a detail of C; it tells of d.
Shows(g, key, C, d) ==
    /\ key[2] = "" \/ key[2] \in g.versions
    /\ \E x \in Held(g) : x.id \in C
    /\ TellsKind(g, d)
Shown(p, key, C, d) == \E n \in DOMAIN p.groups : Shows(p.groups[n], key, C, d)

\* Placing more keeps what was shown.
LEMMA ShowsMore ==
  ASSUME NEW g, NEW h, Grows(g, h), NEW key, NEW C, NEW d, Shows(g, key, C, d)
  PROVE  Shows(h, key, C, d)
BY DEF Grows, Shows, TellsKind

\* A detail placed in one group or a new one is shown (_build_purl_vulns_from_map).
LEMMA PlaceIntoOK ==
  ASSUME NEW package \in Package, NEW C, NEW p, PlacedOK(p, package, C),
         NEW key \in Keys, key[1] = package, NEW d \in Detail, Apart(d.ids, C),
         NEW name, name \in IF {p.lead[i] : i \in d.ids \cap DOMAIN p.lead} = {} THEN {d.id}
                            ELSE {p.lead[i] : i \in d.ids \cap DOMAIN p.lead}
  PROVE  LET q == PlaceInto(p, key, d, name)
         IN /\ PlacedOK(q, package, C)
            /\ \A k, e : Shown(p, k, C, e) => Shown(q, k, C, e)
            /\ d.ids \subseteq C => Shown(q, key, C, d)
<1> DEFINE old == IF name \in DOMAIN p.groups THEN p.groups[name] ELSE NewGroup(key[1])
           h == Fill(old, key[2], d)
           N == DOMAIN p.groups \cup {name}
           L == DOMAIN p.lead \cup d.ids
           gs == [n \in N |-> IF n = name THEN h ELSE p.groups[n]]
           ls == [i \in L |-> IF i \in d.ids THEN name ELSE p.lead[i]]
           q == PlaceInto(p, key, d, name)
           hits == {p.lead[i] : i \in d.ids \cap DOMAIN p.lead}
<1>0. q = [groups |-> gs, lead |-> ls]
  BY DEF PlaceInto
<1>1. /\ DOMAIN p.groups \in SUBSET STRING /\ DOMAIN p.lead \in SUBSET STRING
      /\ \A n \in DOMAIN p.groups : p.groups[n] \in Group
      /\ \A i \in DOMAIN p.lead : p.lead[i] \in STRING
  <2>1. /\ p.groups \in UNION {[D -> Group] : D \in SUBSET STRING}
        /\ p.lead \in UNION {[D -> STRING] : D \in SUBSET STRING}
    BY DEF PlacedOK
  <2>2. PICK D \in SUBSET STRING : p.groups \in [D -> Group]
    BY <2>1
  <2>3. PICK E \in SUBSET STRING : p.lead \in [E -> STRING]
    BY <2>1
  <2> QED BY <2>2, <2>3
<1>2. d.id \in STRING /\ d.ids \in SUBSET STRING /\ d.id \in d.ids /\ key[2] \in STRING
  BY DEF Detail, Keys
<1>3. name \in STRING
  BY <1>1, <1>2
<1>5. /\ GroupOK(old) /\ old.package = package /\ Apart(old.ids, C)
      /\ name \notin DOMAIN p.groups => old.ids = {}
  <2>1. CASE name \in DOMAIN p.groups
    BY <2>1 DEF PlacedOK
  <2>2. CASE name \notin DOMAIN p.groups
    <3> DEFINE new == NewGroup(package)
    <3>1. old = new
      BY <2>2
    <3>2. new \in Group /\ new.ids = {} /\ new.package = package /\ Held(new) = {}
      <4>1. <<>> \in Seq(Detail) /\ ToSet(<<>>) = {}
        BY DEF ToSet
      <4> QED BY <4>1 DEF NewGroup, Group, Held
    <3> HIDE DEF new, old
    <3> QED BY <3>1, <3>2 DEF GroupOK, Apart
  <2> QED BY <2>1, <2>2
<1>6. /\ GroupOK(h) /\ h.ids = old.ids \cup d.ids /\ Held(h) # {}
      /\ key[2] = "" \/ key[2] \in h.versions
      /\ Grows(old, h) /\ TellsKind(h, d)
  <2> HIDE DEF old
  <2> QED BY <1>2, <1>5, FillOK
<1>7. h.package = package
  BY <1>5, <1>6 DEF Grows
<1>8. Apart(h.ids, C)
  <2>1. CASE hits = {}
    <3>1. name = d.id
      BY <2>1
    <3>2. name \notin DOMAIN p.lead
      BY <1>2, <2>1, <3>1
    <3>3. old.ids = {}
      BY <1>5, <3>2 DEF PlacedOK
    <3> HIDE DEF h, old
    <3> QED BY <1>6, <3>3 DEF Apart
  <2>2. CASE hits # {}
    <3>1. PICK i \in d.ids \cap DOMAIN p.lead : name = p.lead[i]
      BY <2>2
    <3>2. i \in old.ids
      BY <3>1 DEF PlacedOK
    <3> HIDE DEF h, old
    <3> QED BY <1>5, <1>6, <3>1, <3>2 DEF Apart
  <2> QED BY <2>1, <2>2
<1> HIDE DEF h, old, q, hits
<1>9. /\ DOMAIN q.groups = N /\ DOMAIN q.lead = L /\ q.groups[name] = h
      /\ \A n \in N : n # name => q.groups[n] = p.groups[n] /\ n \in DOMAIN p.groups
      /\ \A i \in d.ids : q.lead[i] = name
      /\ \A i \in L : i \notin d.ids => q.lead[i] = p.lead[i] /\ i \in DOMAIN p.lead
  BY <1>0
<1>10. q \in [groups : UNION {[D -> Group] : D \in SUBSET STRING},
              lead : UNION {[D -> STRING] : D \in SUBSET STRING}]
  <2>1. N \in SUBSET STRING /\ L \in SUBSET STRING
    BY <1>1, <1>2, <1>3
  <2>2. gs \in [N -> Group]
    BY <1>1, <1>6 DEF GroupOK
  <2>3. ls \in [L -> STRING]
    BY <1>1, <1>3
  <2> HIDE DEF gs, ls, N, L
  <2> QED BY <1>0, <2>1, <2>2, <2>3
<1>11. \A n \in DOMAIN q.groups : /\ GroupOK(q.groups[n]) /\ q.groups[n].package = package
                                  /\ Apart(q.groups[n].ids, C)
  BY <1>6, <1>7, <1>8, <1>9 DEF PlacedOK
<1>12. DOMAIN q.groups \subseteq DOMAIN q.lead
  <2>1. name \in L
    <3>1. CASE hits = {}
      BY <1>2, <3>1 DEF hits
    <3>2. CASE hits # {}
      BY <3>2 DEF hits, PlacedOK
    <3> QED BY <3>1, <3>2
  <2> QED BY <1>9, <2>1 DEF PlacedOK
<1>13. \A i \in DOMAIN q.lead : q.lead[i] \in DOMAIN q.groups /\ i \in q.groups[q.lead[i]].ids
  <2> TAKE i \in DOMAIN q.lead
  <2>1. CASE i \in d.ids
    BY <1>6, <1>9, <2>1
  <2>2. CASE i \notin d.ids
    <3>1. q.lead[i] = p.lead[i] /\ p.lead[i] \in DOMAIN p.groups /\ i \in p.groups[p.lead[i]].ids
      BY <1>9, <2>2 DEF PlacedOK
    <3>2. CASE p.lead[i] = name
      <4>1. i \in old.ids
        BY <3>1, <3>2 DEF old
      <4> QED BY <1>6, <1>9, <3>1, <3>2, <4>1
    <3>3. CASE p.lead[i] # name
      BY <1>9, <3>1, <3>3
    <3> QED BY <3>2, <3>3
  <2> QED BY <2>1, <2>2
<1>14. PlacedOK(q, package, C)
  BY <1>10, <1>11, <1>12, <1>13 DEF PlacedOK
<1>15. ASSUME NEW k, NEW e, Shown(p, k, C, e) PROVE Shown(q, k, C, e)
  <2>1. PICK n \in DOMAIN p.groups : Shows(p.groups[n], k, C, e)
    BY <1>15 DEF Shown
  <2>2. CASE n = name
    <3>1. p.groups[n] = old
      BY <2>2 DEF old
    <3>2. Shows(h, k, C, e)
      BY <1>6, <2>1, <3>1, ShowsMore
    <3> QED BY <1>9, <2>2, <3>2 DEF Shown
  <2>3. CASE n # name
    BY <1>9, <2>1, <2>3 DEF Shown
  <2> QED BY <2>2, <2>3
<1>16. ASSUME d.ids \subseteq C PROVE Shown(q, key, C, d)
  <2>1. h.ids \subseteq C
    BY <1>2, <1>6, <1>8, <1>16 DEF Apart
  <2>2. PICK x \in Held(h) : TRUE
    BY <1>6
  <2>3. x \in Detail
    <3>1. h.cve \in Seq(Detail) /\ h.malware \in Seq(Detail)
      BY <1>6 DEF GroupOK, Group
    <3>2. ToSet(h.cve) \subseteq Detail
      BY <3>1 DEF ToSet
    <3>3. ToSet(h.malware) \subseteq Detail
      BY <3>1 DEF ToSet
    <3> QED BY <3>2, <3>3 DEF Held
  <2>4. x.id \in x.ids /\ x.ids \subseteq h.ids
    BY <1>6, <2>3 DEF Detail, GroupOK
  <2>5. Shows(h, key, C, d)
    BY <1>6, <2>1, <2>4 DEF Shows
  <2> QED BY <1>9, <2>5 DEF Shown
<1> QED BY <1>14, <1>15, <1>16 DEF q

Placed(package, C) ==
    {p \in [groups : UNION {[D -> Group] : D \in SUBSET STRING},
            lead : UNION {[D -> STRING] : D \in SUBSET STRING}] : PlacedOK(p, package, C)}

Place(ways, key, d) == UNION {PlaceDetail(p, key, d) : p \in ways}

InOrder(bucket) == bucket.cve \o bucket.malware

AllShow(ways, key, C, d) == \A p \in ways : Shown(p, key, C, d)

\* Before anything is placed, nothing is missing.
LEMMA NothingPlacedOK ==
  ASSUME NEW package, NEW C
  PROVE  {NothingPlaced} \in SUBSET Placed(package, C)
<1>1. <<>> \in [{} -> Group] /\ <<>> \in [{} -> STRING] /\ DOMAIN <<>> = {}
  OBVIOUS
<1>2. /\ <<>> \in UNION {[D -> Group] : D \in SUBSET STRING}
      /\ <<>> \in UNION {[D -> STRING] : D \in SUBSET STRING}
  BY <1>1
<1>3. NothingPlaced \in [groups : UNION {[D -> Group] : D \in SUBSET STRING},
                         lead : UNION {[D -> STRING] : D \in SUBSET STRING}]
  BY <1>2 DEF NothingPlaced
<1>4. DOMAIN NothingPlaced.groups = {} /\ DOMAIN NothingPlaced.lead = {}
  BY <1>1 DEF NothingPlaced
<1> QED BY <1>3, <1>4 DEF Placed, PlacedOK

\* Placing a detail in any way the code allows shows it.
LEMMA PlaceOK ==
  ASSUME NEW package \in Package, NEW C, NEW ways \in SUBSET Placed(package, C),
         NEW key \in Keys, key[1] = package, NEW d \in Detail, Apart(d.ids, C)
  PROVE  /\ Place(ways, key, d) \in SUBSET Placed(package, C)
         /\ \A k, e : AllShow(ways, k, C, e) => AllShow(Place(ways, key, d), k, C, e)
         /\ d.ids \subseteq C => AllShow(Place(ways, key, d), key, C, d)
<1>1. ASSUME NEW q \in Place(ways, key, d)
      PROVE  \E p \in ways : /\ PlacedOK(q, package, C)
                             /\ \A k, e : Shown(p, k, C, e) => Shown(q, k, C, e)
                             /\ d.ids \subseteq C => Shown(q, key, C, d)
  <2>1. PICK p \in ways : q \in PlaceDetail(p, key, d)
    BY <1>1 DEF Place
  <2>2. PICK name \in IF {p.lead[i] : i \in d.ids \cap DOMAIN p.lead} = {} THEN {d.id}
                      ELSE {p.lead[i] : i \in d.ids \cap DOMAIN p.lead} :
           q = PlaceInto(p, key, d, name)
    BY <2>1 DEF PlaceDetail
  <2>3. PlacedOK(p, package, C)
    BY DEF Placed
  <2> QED BY <2>2, <2>3, PlaceIntoOK
<1>2. Place(ways, key, d) \in SUBSET Placed(package, C)
  <2> SUFFICES ASSUME NEW q \in Place(ways, key, d) PROVE q \in Placed(package, C)
    OBVIOUS
  <2>1. PlacedOK(q, package, C)
    BY <1>1
  <2> QED BY <2>1 DEF Placed, PlacedOK
<1> QED BY <1>1, <1>2 DEF AllShow

\* The details of a version are placed one by one.
Progress(package, C, ways, key, details) ==
    \E h \in [0..Len(details) -> SUBSET Placed(package, C)] :
        /\ h[0] = ways
        /\ \A k \in 1..Len(details) : h[k] = Place(h[k - 1], key, details[k])
        /\ \A bucket : InOrder(bucket) = details =>
              PlaceVersion(ways, key, bucket) = h[Len(details)]

\* The details of a version are placed one by one.
LEMMA VersionPrefixes ==
  ASSUME NEW package \in Package, NEW C, NEW ways \in SUBSET Placed(package, C),
         NEW key \in Keys, key[1] = package, NEW details \in Seq(Detail),
         \A d \in ToSet(details) : Apart(d.ids, C)
  PROVE  Progress(package, C, ways, key, details)
<1> DEFINE n == Len(details)
           X == SUBSET Placed(package, C)
           step == [k \in 1..n |-> [x \in X |-> Place(x, key, details[k])]]
           Eq(f) == f = [s \in SUBSET DOMAIN details |->
                           IF s = {} THEN ways ELSE Place(f[s \ {Max(s)}], key, details[Max(s)])]
           it == CHOOSE f : Eq(f)
<1>1. n \in Nat /\ DOMAIN details = 1..n /\ \A k \in 1..n : details[k] \in Detail /\ Apart(details[k].ids, C)
  <2>1. n \in Nat /\ DOMAIN details = 1..n /\ \A k \in 1..n : details[k] \in Detail
    OBVIOUS
  <2> QED BY <2>1 DEF ToSet
<1>2. ways \in X
  OBVIOUS
<1>3. \A k \in 1..n, x \in X : Place(x, key, details[k]) \in X
  BY <1>1, PlaceOK
<1>4. step \in [1..n -> [X -> X]] /\ \A k \in 1..n, x \in X : step[k][x] = Place(x, key, details[k])
  BY <1>3
<1>5. ASSUME NEW bucket, InOrder(bucket) = details
      PROVE  PlaceVersion(ways, key, bucket) = it[1..n]
  BY <1>1, <1>5 DEF PlaceVersion, FoldLeft, MapThenFoldSet, Place, InOrder
<1>6. FoldsIn(it, n, X, ways, step)
  <2> HIDE DEF step, X, n
  <2>1. PICK g \in [SUBSET (1..n) -> X] : IsFold(g, n, ways, step)
    BY <1>1, <1>2, <1>4, FoldExists
  <2>2. Eq(g)
    BY <1>1, <1>4, <2>1, MaxIn DEF IsFold
  <2>3. Eq(it)
    <3> HIDE DEF Eq
    <3> QED BY <2>2
  <2> HIDE DEF it
  <2>4. \A s \in SUBSET (1..n) : it[s] = IF s = {} THEN ways ELSE Place(it[s \ {Max(s)}], key, details[Max(s)])
    BY <1>1, <2>3
  <2>5. \A s \in SUBSET (1..n) : s # {} => Max(s) \in 1..n
    BY <1>1, MaxIn
  <2> QED BY <1>4, <2>4, <2>5 DEF FoldsIn
<1> HIDE DEF it, step, X, n
<1>7. PICK h \in [0..n -> X] : StepByStep(h, n, ways, step) /\ h[n] = it[1..n]
  <2>1. n \in Nat /\ step \in [1..n -> [X -> X]]
    BY <1>1, <1>2, <1>4, <1>6
  <2>2. ways \in X
    BY <1>1, <1>2, <1>4, <1>6
  <2>3. FoldsIn(it, n, X, ways, step)
    BY <1>6
  <2>4. Unrolls(it, n, X, ways, step)
    BY <2>1, <2>2, <2>3, FoldPrefixes
  <2> QED BY <2>4 DEF Unrolls
<1>8. \A k \in 1..n : h[k] = Place(h[k - 1], key, details[k])
  <2> TAKE k \in 1..n
  <2>1. k - 1 \in 0..n
    BY <1>1
  <2> QED BY <1>4, <1>7, <2>1 DEF StepByStep
<1>9. h[0] = ways
  BY <1>7 DEF StepByStep
<1> QED BY <1>5, <1>7, <1>8, <1>9 DEF X, n, Progress

\* A placed version shows all its details.
LEMMA VersionOK ==
  ASSUME NEW package \in Package, NEW C, NEW ways \in SUBSET Placed(package, C),
         NEW key \in Keys, key[1] = package, NEW bucket \in Bucket,
         \A d \in Held(bucket) : Apart(d.ids, C)
  PROVE  LET w == PlaceVersion(ways, key, bucket)
         IN /\ w \in SUBSET Placed(package, C)
            /\ \A k, e : AllShow(ways, k, C, e) => AllShow(w, k, C, e)
            /\ \A d \in Held(bucket) : d.ids \subseteq C => AllShow(w, key, C, d)
<1> DEFINE details == InOrder(bucket)
           n == Len(details)
           w == PlaceVersion(ways, key, bucket)
<1>1. details \in Seq(Detail) /\ ToSet(details) = Held(bucket)
  <2>1. bucket.cve \in Seq(Detail) /\ bucket.malware \in Seq(Detail)
    BY DEF Bucket
  <2> QED BY <2>1, ToSetConcat DEF Held, InOrder
<1>0. details = InOrder(bucket)
  OBVIOUS
<1> HIDE DEF details, w
<1>2. n \in Nat /\ DOMAIN details = 1..n /\ \A k \in 1..n : details[k] \in Detail
  BY <1>1
<1>3. \A k \in 1..n : details[k] \in Held(bucket) /\ Apart(details[k].ids, C)
  BY <1>1, <1>2 DEF ToSet
<1>4. PICK h \in [0..n -> SUBSET Placed(package, C)] :
            /\ h[0] = ways /\ h[n] = w
            /\ \A k \in 1..n : h[k] = Place(h[k - 1], key, details[k])
  <2>1. \A d \in ToSet(details) : Apart(d.ids, C)
    BY <1>1
  <2>2. Progress(package, C, ways, key, details)
    BY <1>1, <2>1, VersionPrefixes
  <2> QED BY <1>0, <2>2 DEF w, Progress
<1> DEFINE T == {k \in 0..n : /\ \A j, e : AllShow(ways, j, C, e) => AllShow(h[k], j, C, e)
                              /\ \A i \in 1..k : details[i].ids \subseteq C => AllShow(h[k], key, C, details[i])}
<1> HIDE DEF n
<1>5. 0 \in T
  BY <1>2, <1>4, EmptyPrefix
<1>6. ASSUME NEW k \in 1..n, k - 1 \in T PROVE k \in T
  <2>1. k \in 0..n /\ k - 1 \in 0..n
    BY <1>2
  <2>2. h[k - 1] \in SUBSET Placed(package, C) /\ h[k] = Place(h[k - 1], key, details[k])
    BY <1>4, <2>1
  <2>3. /\ \A j, e : AllShow(h[k - 1], j, C, e) => AllShow(h[k], j, C, e)
        /\ details[k].ids \subseteq C => AllShow(h[k], key, C, details[k])
    BY <1>2, <1>3, <2>2, PlaceOK
  <2>4. \A i \in 1..k : i # k => i \in 1..(k - 1)
    BY <1>2
  <2> QED BY <1>6, <2>1, <2>3, <2>4
<1>7. n \in T
  <2>1. \A k \in 1..n : k - 1 \in T => k \in T
    BY <1>6
  <2>2. n \in 0..n
    BY <1>2
  <2> HIDE DEF T
  <2> QED BY <1>2, <1>5, <2>1, <2>2, PrefixInduction
<1>8. w \in SUBSET Placed(package, C)
  <2>1. n \in 0..n
    BY <1>2
  <2> QED BY <1>4, <2>1
<1>9. ASSUME NEW d \in Held(bucket), d.ids \subseteq C PROVE AllShow(w, key, C, d)
  <2>1. PICK i \in 1..n : d = details[i]
    BY <1>1, <1>2 DEF ToSet
  <2> QED BY <1>4, <1>7, <1>9, <2>1
<1> QED BY <1>4, <1>7, <1>8, <1>9 DEF w

\* The versions of the package that the map holds, and what they hold.
VersionsOK(map, package, C) ==
    \A key \in {k \in DOMAIN map : k[1] = package} :
        /\ key \in Keys /\ map[key] \in Bucket
        /\ \A d \in Held(map[key]) : Apart(d.ids, C)

\* The versions of a package are placed one by one.
Passes(package, C, map, keys) ==
    \E h \in [0..Len(keys) -> SUBSET Placed(package, C)] :
        /\ h[0] = {NothingPlaced} /\ h[Len(keys)] = PlaceVersions(map, keys)
        /\ \A k \in 1..Len(keys) : h[k] = PlaceVersion(h[k - 1], keys[k], map[keys[k]])

\* The versions of a package are placed one by one.
LEMMA PackagePrefixes ==
  ASSUME NEW package \in Package, NEW C, NEW map, VersionsOK(map, package, C),
         NEW keys \in Seq({k \in DOMAIN map : k[1] = package})
  PROVE  Passes(package, C, map, keys)
<1> DEFINE n == Len(keys)
           X == SUBSET Placed(package, C)
           base == {NothingPlaced}
           step == [k \in 1..n |-> [x \in X |-> PlaceVersion(x, keys[k], map[keys[k]])]]
           Eq(f) == f = [s \in SUBSET DOMAIN keys |->
                           IF s = {} THEN base
                           ELSE PlaceVersion(f[s \ {Max(s)}], keys[Max(s)], map[keys[Max(s)]])]
           it == CHOOSE f : Eq(f)
<1>1. /\ n \in Nat /\ DOMAIN keys = 1..n
      /\ \A k \in 1..n : keys[k] \in DOMAIN map /\ keys[k][1] = package
  OBVIOUS
<1>2. base \in X
  BY NothingPlacedOK
<1>3. \A k \in 1..n, x \in X : PlaceVersion(x, keys[k], map[keys[k]]) \in X
  <2> TAKE k \in 1..n, x \in X
  <2> DEFINE key == keys[k]
             bucket == map[key]
  <2>1. key \in Keys /\ key[1] = package /\ bucket \in Bucket /\ \A d \in Held(bucket) : Apart(d.ids, C)
    BY <1>1 DEF VersionsOK
  <2> HIDE DEF key, bucket
  <2>2. PlaceVersion(x, key, bucket) \in SUBSET Placed(package, C)
    BY <2>1, VersionOK
  <2> QED BY <2>2 DEF key, bucket
<1>4. /\ step \in [1..n -> [X -> X]]
      /\ \A k \in 1..n, x \in X : step[k][x] = PlaceVersion(x, keys[k], map[keys[k]])
  BY <1>3
<1>5. PlaceVersions(map, keys) = it[1..n]
  BY <1>1 DEF PlaceVersions, FoldLeft, MapThenFoldSet
<1>6. FoldsIn(it, n, X, base, step)
  <2> HIDE DEF step, X, n, base
  <2>1. PICK g \in [SUBSET (1..n) -> X] : IsFold(g, n, base, step)
    BY <1>1, <1>2, <1>4, FoldExists
  <2>2. Eq(g)
    BY <1>1, <1>4, <2>1, MaxIn DEF IsFold
  <2>3. Eq(it)
    <3> HIDE DEF Eq
    <3> QED BY <2>2
  <2> HIDE DEF it
  <2>4. \A s \in SUBSET (1..n) : it[s] = IF s = {} THEN base
                    ELSE PlaceVersion(it[s \ {Max(s)}], keys[Max(s)], map[keys[Max(s)]])
    BY <1>1, <2>3
  <2>5. \A s \in SUBSET (1..n) : s # {} => Max(s) \in 1..n
    BY <1>1, MaxIn
  <2> QED BY <1>4, <2>4, <2>5 DEF FoldsIn
<1> HIDE DEF it, step, X, n, base
<1>7. PICK h \in [0..n -> X] : StepByStep(h, n, base, step) /\ h[n] = it[1..n]
  <2>1. n \in Nat /\ step \in [1..n -> [X -> X]]
    BY <1>1, <1>2, <1>4, <1>6
  <2>2. base \in X
    BY <1>1, <1>2, <1>4, <1>6
  <2>3. FoldsIn(it, n, X, base, step)
    BY <1>6
  <2>4. Unrolls(it, n, X, base, step)
    BY <2>1, <2>2, <2>3, FoldPrefixes
  <2> QED BY <2>4 DEF Unrolls
<1>8. \A k \in 1..n : h[k] = PlaceVersion(h[k - 1], keys[k], map[keys[k]])
  <2> TAKE k \in 1..n
  <2>1. k - 1 \in 0..n
    BY <1>1
  <2> QED BY <1>4, <1>7, <2>1 DEF StepByStep
<1>9. h[0] = base /\ h[n] = PlaceVersions(map, keys)
  BY <1>5, <1>7 DEF StepByStep
<1> QED BY <1>7, <1>8, <1>9 DEF X, n, base, Passes

\* A placed package shows the details of all its versions.
LEMMA PackageOK ==
  ASSUME NEW package \in Package, NEW C, NEW map, VersionsOK(map, package, C),
         NEW keys \in Seq({k \in DOMAIN map : k[1] = package})
  PROVE  LET w == PlaceVersions(map, keys)
         IN /\ w \in SUBSET Placed(package, C)
            /\ \A key \in ToSet(keys) : \A d \in Held(map[key]) :
                  d.ids \subseteq C => AllShow(w, key, C, d)
<1> DEFINE n == Len(keys)
           w == PlaceVersions(map, keys)
<1>1. /\ n \in Nat /\ DOMAIN keys = 1..n
      /\ \A k \in 1..n : keys[k] \in DOMAIN map /\ keys[k][1] = package
  OBVIOUS
<1>2. Passes(package, C, map, keys)
  BY PackagePrefixes
<1>3. PICK h \in [0..n -> SUBSET Placed(package, C)] :
        /\ h[0] = {NothingPlaced} /\ h[n] = w
        /\ \A k \in 1..n : h[k] = PlaceVersion(h[k - 1], keys[k], map[keys[k]])
  BY <1>2 DEF Passes
<1> DEFINE Done(v, i) == \A d \in Held(map[keys[i]]) : d.ids \subseteq C => AllShow(v, keys[i], C, d)
           T == {k \in 0..n : \A i \in 1..k : Done(h[k], i)}
<1> HIDE DEF n, w
<1>4. 0 \in T
  BY <1>1, EmptyPrefix
<1>5. ASSUME NEW k \in 1..n, k - 1 \in T PROVE k \in T
  <2> DEFINE key == keys[k]
             bucket == map[key]
             old == h[k - 1]
             new == h[k]
  <2>1. k \in 0..n /\ k - 1 \in 0..n
    BY <1>1
  <2>2. old \in SUBSET Placed(package, C) /\ new = PlaceVersion(old, key, bucket)
    BY <1>3, <2>1
  <2>3. key \in Keys /\ key[1] = package /\ bucket \in Bucket /\ \A d \in Held(bucket) : Apart(d.ids, C)
    BY <1>1 DEF VersionsOK
  <2>4. \A i \in 1..(k - 1) : Done(old, i)
    BY <1>5
  <2>5. \A i \in 1..k : i # k => i \in 1..(k - 1)
    BY <1>1
  <2>6. /\ \A j, e : AllShow(old, j, C, e) => AllShow(new, j, C, e)
        /\ \A d \in Held(bucket) : d.ids \subseteq C => AllShow(new, key, C, d)
    <3> HIDE DEF key, bucket, old, new
    <3> QED BY <2>2, <2>3, VersionOK
  <2>7. Done(new, k)
    BY <2>6
  <2>8. \A i \in 1..(k - 1) : Done(new, i)
    <3> HIDE DEF new, old
    <3> QED BY <2>4, <2>6
  <2> HIDE DEF Done
  <2> QED BY <2>1, <2>5, <2>7, <2>8
<1>6. n \in T
  <2>1. \A k \in 1..n : k - 1 \in T => k \in T
    BY <1>5
  <2>2. n \in 0..n
    BY <1>1
  <2> HIDE DEF T
  <2> QED BY <1>1, <1>4, <2>1, <2>2, PrefixInduction
<1>7. w \in SUBSET Placed(package, C)
  <2>1. n \in 0..n
    BY <1>1
  <2> QED BY <1>3, <2>1
<1>8. ASSUME NEW key \in ToSet(keys), NEW d \in Held(map[key]), d.ids \subseteq C
      PROVE  AllShow(w, key, C, d)
  <2>1. PICK i \in 1..n : key = keys[i]
    BY <1>1 DEF ToSet
  <2>2. Done(h[n], i)
    BY <1>6, <2>1
  <2> QED BY <1>3, <1>8, <2>1, <2>2
<1> QED BY <1>7, <1>8 DEF w

\* Whatever the order of a package's versions and the ways its advisories are
\* grouped: every recorded detail is shown by an entry of its package.
LEMMA GroupsTell ==
  ASSUME NEW package \in Package, NEW C, NEW map, VersionsOK(map, package, C),
         IsFiniteSet({k \in DOMAIN map : k[1] = package}),
         NEW entries \in GroupsOf(map, package),
         NEW key \in DOMAIN map, key[1] = package, NEW d \in Held(map[key]), d.ids \subseteq C
  PROVE  \E g \in entries : GroupOK(g) /\ g.package = package /\ Shows(g, key, C, d)
<1> DEFINE S == {k \in DOMAIN map : k[1] = package}
<1>1. PICK keys \in SetToSeqs(S) : \E p \in PlaceVersions(map, keys) :
         entries = {p.groups[n] : n \in DOMAIN p.groups}
  BY DEF GroupsOf
<1>2. PICK p \in PlaceVersions(map, keys) : entries = {p.groups[n] : n \in DOMAIN p.groups}
  BY <1>1
<1>3. keys \in Seq(S) /\ ToSet(keys) = S
  <2> HIDE DEF S
  <2>1. IsFiniteSet(S)
    BY DEF S
  <2> QED BY <2>1, <1>1, OrderCovers
<1>4. key \in ToSet(keys)
  BY <1>3
<1>5. p \in Placed(package, C) /\ Shown(p, key, C, d)
  BY <1>2, <1>3, <1>4, PackageOK DEF AllShow
<1>6. PICK n \in DOMAIN p.groups : Shows(p.groups[n], key, C, d)
  BY <1>5 DEF Shown
<1>7. GroupOK(p.groups[n]) /\ p.groups[n].package = package
  BY <1>5 DEF Placed, PlacedOK
<1> QED BY <1>2, <1>6, <1>7

\* The entries show every recorded detail.
LEMMA EntriesTell ==
  ASSUME NEW map, NEW key \in DOMAIN map, key[1] \in Package, NEW C, VersionsOK(map, key[1], C),
         IsFiniteSet(DOMAIN map), NEW entries \in BuildPurlVulns(map),
         NEW d \in Held(map[key]), d.ids \subseteq C
  PROVE  \E g \in entries : GroupOK(g) /\ g.package = key[1] /\ Shows(g, key, C, d)
<1> DEFINE packages == {k[1] : k \in DOMAIN map}
           package == key[1]
<1>1. PICK f \in [packages -> UNION {GroupsOf(map, p) : p \in packages}] :
         /\ \A p \in packages : f[p] \in GroupsOf(map, p)
         /\ entries = UNION {f[p] : p \in packages}
  BY DEF BuildPurlVulns
<1>2. package \in packages /\ f[package] \in GroupsOf(map, package) /\ f[package] \subseteq entries
  BY <1>1
<1>3. IsFiniteSet({k \in DOMAIN map : k[1] = package})
  BY FS_Subset
<1>4. \E g \in f[package] : GroupOK(g) /\ g.package = package /\ Shows(g, key, C, d)
  <2> HIDE DEF packages
  <2> QED BY <1>2, <1>3, GroupsTell
<1> QED BY <1>2, <1>4

-----------------------------------------------------------------------------
(* What a successful scan tells.                                           *)

\* The versions of a package that were recorded are finitely many.
LEMMA RecordedVersions ==
  ASSUME Scanning, NEW package \in Package, NEW C, Linked(package, C)
  PROVE  IsFiniteSet(DOMAIN Recorded) /\ VersionsOK(Recorded, package, C)
<1> DEFINE U == AdvisoriesUsed
           tr == inventory.transitive
           m == Recorded
           R == Recordings
<1>1. U \in SUBSET Advisory /\ IsFiniteSet(U)
  BY UsedTyped
<1>2. RowsOK(R)
  BY <1>1, RowsTyped DEF Recordings
<1>3. MapOK(m, R)
  BY RecordedTells
<1>4. \A r \in R : \E b \in U : r[1] = KeyOf(b) /\ r[2] \in {DepscanDetails(b), OsvDetails(b, tr)}
  BY DEF Recordings, DepscanRows, OsvRows
<1>5. DOMAIN m \subseteq {r[1] : r \in R}
  BY <1>3 DEF MapOK
<1>6. IsFiniteSet(DOMAIN m)
  <2> DEFINE f == [b \in U |-> KeyOf(b)]
  <2>1. IsFiniteSet({f[b] : b \in U})
    <3> HIDE DEF U
    <3> QED BY <1>1, FiniteImage
  <2>2. {r[1] : r \in R} \subseteq {f[b] : b \in U}
    <3> SUFFICES ASSUME NEW r \in R PROVE r[1] \in {f[b] : b \in U}
      OBVIOUS
    <3>1. PICK b \in U : r[1] = KeyOf(b)
      BY <1>4
    <3> QED BY <3>1
  <2> HIDE DEF f, U, R, m
  <2> QED BY <2>1, <2>2, <1>5, FS_Subset
<1>7. ASSUME NEW key \in DOMAIN m, key[1] = package
      PROVE  key \in Keys /\ m[key] \in Bucket /\ \A d \in Held(m[key]) : Apart(d.ids, C)
  <2>1. m[key] \in Bucket
    BY <1>3 DEF MapOK, BucketOK
  <2>2. key \in Keys
    BY <1>2, <1>5 DEF RowsOK
  <2>3. ASSUME NEW d \in Held(m[key]) PROVE Apart(d.ids, C)
    <3>1. <<key, d>> \in R
      BY <1>3 DEF MapOK
    <3>2. PICK b \in U : key = KeyOf(b) /\ d \in {DepscanDetails(b), OsvDetails(b, tr)}
      BY <1>4, <3>1
    <3>3. d.ids = b.ids
      BY <3>2 DEF DepscanDetails, OsvDetails
    <3>4. b.package = package
      BY <1>7, <3>2 DEF KeyOf
    <3> QED BY <3>3, <3>4 DEF Linked, Apart
  <2> QED BY <2>1, <2>2, <2>3
<1> QED BY <1>6, <1>7 DEF VersionsOK

\* Every advisory is shown by an entry: of its package, naming its version, that
\* holds a detail of C and tells of a recorded one.
LEMMA AdvisoryTold ==
  ASSUME Scanning, NEW a \in AdvisoriesUsed, NEW C, Linked(a.package, C), a.ids \subseteq C,
         NEW entries \in BuildPurlVulns(Recorded)
  PROVE  /\ KeyOf(a) \in DOMAIN Recorded
         /\ \E d \in Held(Recorded[KeyOf(a)]), g \in entries :
               /\ d.ids \subseteq C /\ (InReports(a) => d.source = "depscan")
               /\ GroupOK(g) /\ g.package = a.package /\ Shows(g, KeyOf(a), C, d)
<1> DEFINE key == KeyOf(a)
<1>1. key[1] = a.package
  BY DEF KeyOf
<1>2. a.package \in Package
  BY UsedTyped DEF Advisory, Package
<1>3. IsFiniteSet(DOMAIN Recorded) /\ VersionsOK(Recorded, a.package, C)
  BY <1>2, RecordedVersions
<1>4. key \in DOMAIN Recorded
  BY RecordedTells
<1>5. PICK d \in Held(Recorded[key]) : d.ids \subseteq C /\ (InReports(a) => d.source = "depscan")
  BY RecordedTells
<1> HIDE DEF key
<1>6. PICK g \in entries : GroupOK(g) /\ g.package = key[1] /\ Shows(g, key, C, d)
  BY <1>1, <1>2, <1>3, <1>4, <1>5, EntriesTell
<1> QED BY <1>1, <1>4, <1>5, <1>6 DEF key

\* The identifiers an advisory's lead to are linked.
LEMMA LinkedIdsAre ==
  ASSUME NEW a \in AdvisoriesUsed
  PROVE  Linked(a.package, LinkedIds(a)) /\ a.ids \subseteq LinkedIds(a)
<1> DEFINE known == UNION {b.ids : b \in AdvisoriesUsed}
           L == LinkedIds(a)
<1>1. \A i : i \in L <=> /\ i \in known
                         /\ \A ids \in SUBSET known : a.ids \subseteq ids /\ Linked(a.package, ids) => i \in ids
  BY DEF LinkedIds
<1>2. \A b \in AdvisoriesUsed : b.ids \subseteq known
  OBVIOUS
<1> HIDE DEF known, L
<1>3. a.ids \subseteq L
  BY <1>1, <1>2
<1>4. ASSUME NEW b \in AdvisoriesUsed, b.package = a.package, NEW i \in b.ids \cap L
      PROVE  b.ids \subseteq L
  <2> SUFFICES ASSUME NEW j \in b.ids, NEW ids \in SUBSET known, a.ids \subseteq ids, Linked(a.package, ids)
               PROVE  j \in ids
    BY <1>1, <1>2
  <2>1. i \in ids
    BY <1>1
  <2> QED BY <1>4, <2>1 DEF Linked
<1> QED BY <1>3, <1>4 DEF Linked, L

\* What osv-scanner or depscan said is kept by the list of malicious packages.
LEMMA EntriesKept ==
  ASSUME NEW e, NEW deps, NEW listed
  PROVE  e \subseteq MergeDatadogMalicious(e, deps, listed)
BY DEF MergeDatadogMalicious

\* A scan that merged its findings tells every advisory.
LEMMA SuccessTells ==
  ASSUME Scanning
  PROVE  SuccessTellsAll
<1> SUFFICES ASSUME result.success PROVE SuccessTellsAll
  BY DEF SuccessTellsAll
<1>1. Merged
  BY DEF Scanning
<1>2. DepscanSucceeded \/ (OsvPrinted /\ osv.output = "json")
  <2>1. ~ScannersFailed /\ ~Unreadable
    BY <1>1 DEF Merged
  <2>2. CASE ~DepscanSucceeded
    <3>1. OsvPrinted /\ osv.output \notin {"garbage", "odd", "empty"}
      BY <2>1, <2>2 DEF ScannersFailed, Unreadable, OsvPrinted
    <3>2. osv \in OsvEnd /\ osv.outcome = "exit"
      BY <3>1 DEF Scanning, OsvPrinted, Running
    <3>3. osv.output \in {"empty", "garbage", "odd", "json"}
      BY <3>2 DEF OsvEnd, NoAnswer
    <3> QED BY <3>1, <3>3
  <2> QED BY <2>2
<1>3. PICK e \in BuildPurlVulns(Recorded) :
          result.entries = MergeDatadogMalicious(e, Dependencies, world.listed)
  BY <1>1 DEF Merged
<1>4. ASSUME NEW a \in AdvisoriesUsed
      PROVE  \E g \in result.entries :
              /\ g.package = a.package
              /\ a.version = "" \/ a.version \in g.versions
              /\ \E d \in ToSet(g.cve \o g.malware) : d.id \in LinkedIds(a)
  <2> DEFINE C == LinkedIds(a)
  <2>1. PICK g \in e : GroupOK(g) /\ g.package = a.package /\ \E d : Shows(g, KeyOf(a), C, d)
    BY LinkedIdsAre, AdvisoryTold
  <2>2. g \in result.entries
    BY <1>3, EntriesKept
  <2>3. KeyOf(a)[2] = a.version
    BY DEF KeyOf
  <2>4. PICK x \in Held(g) : x.id \in C
    BY <2>1 DEF Shows
  <2>5. x \in ToSet(g.cve \o g.malware)
    <3>1. g.cve \in Seq(Detail) /\ g.malware \in Seq(Detail)
      BY <2>1 DEF GroupOK, Group
    <3> QED BY <2>4, <3>1, ToSetConcat DEF Held
  <2>6. a.version = "" \/ a.version \in g.versions
    BY <2>1, <2>3 DEF Shows
  <2> QED BY <2>1, <2>2, <2>4, <2>5, <2>6
<1> QED BY <1>2, <1>4 DEF SuccessTellsAll

-----------------------------------------------------------------------------
(* A reported danger blocks.                                               *)

\* What was recorded within the identifiers of an unrivalled advisory is its own.
LEMMA Unmistaken ==
  ASSUME Scanning, NEW a \in AdvisoriesUsed, Unrivalled(a),
         NEW entries \in BuildPurlVulns(Recorded)
  PROVE  \E d \in Detail, g \in entries :
            /\ d \in {DepscanDetails(a), OsvDetails(a, inventory.transitive)}
            /\ InReports(a) => d = DepscanDetails(a)
            /\ GroupOK(g) /\ TellsKind(g, d)
<1> DEFINE key == KeyOf(a)
<1>1. Linked(a.package, a.ids)
  BY DEF Unrivalled, Linked
<1>2. PICK d \in Held(Recorded[key]), g \in entries :
         /\ d.ids \subseteq a.ids /\ (InReports(a) => d.source = "depscan")
         /\ GroupOK(g) /\ TellsKind(g, d)
  BY <1>1, AdvisoryTold DEF Shows
<1>3. key \in DOMAIN Recorded /\ MapOK(Recorded, Recordings)
  BY RecordedTells
<1>4. <<key, d>> \in Recordings
  BY <1>2, <1>3 DEF MapOK
<1>5. PICK b \in AdvisoriesUsed :
         key = KeyOf(b) /\ d \in {DepscanDetails(b), OsvDetails(b, inventory.transitive)}
  BY <1>4 DEF Recordings, DepscanRows, OsvRows
<1>6. b = a
  <2>1. b.package = a.package
    BY <1>5 DEF KeyOf
  <2>2. b.id \in b.ids
    BY UsedTyped DEF Advisory
  <2>3. b.ids \subseteq a.ids
    BY <1>2, <1>5 DEF DepscanDetails, OsvDetails
  <2> QED BY <2>1, <2>2, <2>3 DEF Unrivalled
<1>7. InReports(a) => d = DepscanDetails(a)
  BY <1>2, <1>5, <1>6 DEF OsvDetails
<1>8. d \in Detail
  BY <1>5, UsedTyped, DetailsTyped
<1> QED BY <1>2, <1>5, <1>6, <1>7, <1>8

\* An entry with malware fails its metric (malicious_deps.py).
LEMMA MalwareFails ==
  ASSUME NEW sca, sca.repo = TRUE, sca.success = TRUE, NEW g \in sca.entries, g.malware # <<>>
  PROVE  MaliciousDependencies(sca).veto = "failure"
BY DEF MaliciousDependencies, OfDependencies, Assessed, Metric

\* A severe flaw that is reached fails its metric (vulnerability_risk.py).
LEMMA SevereFails ==
  ASSUME NEW sca, sca.repo = TRUE, sca.success = TRUE, NEW g \in sca.entries,
         NEW x \in ToSet(g.cve), Severe(x)
  PROVE  VulnerabilityRisk(sca).veto = "failure"
<1> DEFINE high == UNION {{e.cve[i] : i \in HighCves(e)} : e \in sca.entries}
<1>1. x \in high
  BY DEF Severe, ToSet, HighCves
<1>2. \E v \in high : v.reachable
  BY <1>1 DEF Severe
<1> HIDE DEF high
<1> QED BY <1>2 DEF high, VulnerabilityRisk, OfDependencies, Assessed, Metric

\* A dependency on the list of malicious packages has an entry with malware.
LEMMA ListedIsTold ==
  ASSUME NEW e, NEW deps, NEW listed, NEW d \in deps,
         d[1] \in {"npm", "pypi"}, <<d[1], d[2]>> \in listed
  PROVE  \E g \in MergeDatadogMalicious(e, deps, listed) : g.malware # <<>>
<1> DEFINE flagged == UNION {{<<g.package, v>> : v \in g.versions} :
                             g \in {g \in e : g.malware # <<>>}}
           named == {n \in deps : /\ n[1] \in {"npm", "pypi"}
                                  /\ <<n[1], n[2]>> \in listed
                                  /\ <<<<n[1], n[2]>>, n[3]>> \notin flagged}
           detail == [source |-> "datadog", id |-> "DATADOG-MAL", ids |-> {}, severity |-> "HIGH",
                      transitive |-> FALSE, reachable |-> FALSE, used |-> 0]
           New(n) == [NewGroup(<<n[1], n[2]>>) EXCEPT
                         !.versions = IF n[3] = "none" THEN {} ELSE {n[3]},
                         !.malware = <<detail>>]
<1>1. MergeDatadogMalicious(e, deps, listed) = e \cup {New(n) : n \in named}
  BY DEF MergeDatadogMalicious
<1>2. CASE <<<<d[1], d[2]>>, d[3]>> \in flagged
  <2>1. \E g \in e : g.malware # <<>>
    BY <1>2
  <2> QED BY <2>1, EntriesKept
<1>3. CASE <<<<d[1], d[2]>>, d[3]>> \notin flagged
  <2>1. d \in named
    BY <1>3
  <2>2. New(d).malware # <<>>
    BY DEF NewGroup
  <2> HIDE DEF New, named, flagged
  <2> QED BY <1>1, <2>1, <2>2
<1> QED BY <1>2, <1>3

\* A dangerous dependency fails one of the two metrics.
LEMMA DependencyFails ==
  ASSUME world \in Worlds, Scanning, DangerousDependency
  PROVE  LET sca == [repo |-> CheckoutRead, success |-> result.success, entries |-> result.entries]
         IN \/ MaliciousDependencies(sca).veto = "failure"
            \/ VulnerabilityRisk(sca).veto = "failure"
<1> DEFINE sca == [repo |-> CheckoutRead, success |-> result.success, entries |-> result.entries]
<1>1. Merged /\ result.success = TRUE /\ CheckoutRead = TRUE
  BY DEF DangerousDependency, Scanning, CheckoutRead
<1>2. PICK e \in BuildPurlVulns(Recorded) :
          result.entries = MergeDatadogMalicious(e, Dependencies, world.listed)
  BY <1>1 DEF Merged
<1>3. e \subseteq result.entries
  BY <1>2, EntriesKept
<1>4. sca.repo = TRUE /\ sca.success = TRUE /\ sca.entries = result.entries
  BY <1>1
<1> HIDE DEF sca
<1>5. ASSUME NEW d \in result.dependencies, d[1] \in {"npm", "pypi"}, <<d[1], d[2]>> \in world.listed
      PROVE  MaliciousDependencies(sca).veto = "failure"
  <2>1. result.dependencies = Dependencies
    BY <1>1 DEF Merged
  <2>2. PICK g \in result.entries : g.malware # <<>>
    BY <1>2, <1>5, <2>1, ListedIsTold
  <2> QED BY <1>4, <2>2, MalwareFails
<1>6. ASSUME NEW a \in AdvisoriesUsed, Unrivalled(a), a.ids \cap MalwareIds # {}
      PROVE  MaliciousDependencies(sca).veto = "failure"
  <2>1. PICK d \in Detail, g \in e :
            /\ d \in {DepscanDetails(a), OsvDetails(a, inventory.transitive)}
            /\ TellsKind(g, d)
    BY <1>6, Unmistaken
  <2>2. IsMalware(d)
    BY <1>6, <2>1 DEF DepscanDetails, OsvDetails, IsMalware
  <2>3. g.malware # <<>> /\ g \in sca.entries
    BY <1>3, <1>4, <2>1, <2>2 DEF TellsKind
  <2> QED BY <1>4, <2>3, MalwareFails
<1>7. ASSUME NEW a \in AdvisoriesUsed, InReports(a), Unrivalled(a), a.reachable,
             a.severity \in {"HIGH", "CRITICAL"}
      PROVE  \/ MaliciousDependencies(sca).veto = "failure"
             \/ VulnerabilityRisk(sca).veto = "failure"
  <2>1. PICK d \in Detail, g \in e :
            /\ d \in {DepscanDetails(a), OsvDetails(a, inventory.transitive)}
            /\ d = DepscanDetails(a)
            /\ TellsKind(g, d)
    BY <1>7, Unmistaken
  <2>2. Severe(d)
    BY <1>7, <2>1 DEF DepscanDetails, DetailSeverity, Severe
  <2>3. g \in sca.entries
    BY <1>3, <1>4
  <2>4. CASE IsMalware(d)
    BY <1>4, <2>1, <2>3, <2>4, MalwareFails DEF TellsKind
  <2>5. CASE ~IsMalware(d)
    <3>1. PICK x \in ToSet(g.cve) : Severe(x)
      BY <2>1, <2>2, <2>5 DEF TellsKind
    <3> QED BY <1>4, <2>3, <3>1, SevereFails
  <2> QED BY <2>4, <2>5
<1>8. \/ \E d \in result.dependencies : d[1] \in {"npm", "pypi"} /\ <<d[1], d[2]>> \in world.listed
      \/ \E a \in AdvisoriesUsed : Unrivalled(a) /\ a.ids \cap MalwareIds # {}
      \/ \E a \in AdvisoriesUsed : InReports(a) /\ Unrivalled(a) /\ a.reachable
                                   /\ a.severity \in {"HIGH", "CRITICAL"}
  BY DEF DangerousDependency, InReports
<1> QED BY <1>5, <1>6, <1>7, <1>8 DEF sca

\* The invariants imply that a reported danger blocks.
LEMMA DangerBlocks ==
  ASSUME world \in Worlds, Assessing, Scanning, QueryOK(query)
  PROVE  ReportedDangerBlocks
<1> SUFFICES ASSUME Decided, DangerousDependency \/ DangerousTransport \/ DangerousTools \/ LeakedSecret
             PROVE  assessment.decision = "block"
  BY DEF ReportedDangerBlocks
<1> DEFINE s == Subject
           leaves == ToSet(Leaves(s))
<1>1. /\ s.fingerprint = Answers.fingerprint /\ s.tools = Answers.tools
      /\ s.secrets = Answers.secrets
      /\ s.sca = [repo |-> CheckoutRead, success |-> result.success, entries |-> result.entries]
      /\ assessment.decision = Decision(s)
      /\ \A m \in leaves : m.veto \in Vetoes
  BY SubjectIs
<1> HIDE DEF s
<1>2. /\ TransportSecurity(s.fingerprint) \in leaves
      /\ MaliciousDependencies(s.sca) \in leaves /\ VulnerabilityRisk(s.sca) \in leaves
      /\ MetadataSecurity(s.tools) \in leaves /\ ToolSourceCodeSecurity(s.tools.source) \in leaves
      /\ SecretsRisk(s.secrets) \in leaves
  BY LeavesAre
<1>3. \E m \in leaves : m.veto = "failure"
  <2>1. CASE DangerousDependency
    BY <1>1, <1>2, <2>1, DependencyFails
  <2>2. CASE DangerousTransport
    BY <1>1, <1>2, <2>2, TransportFails
  <2>3. CASE DangerousTools
    BY <1>1, <1>2, <2>3, ToolsFail
  <2>4. CASE LeakedSecret
    BY <1>1, <1>2, <2>4, SecretsFail
  <2> QED BY <2>1, <2>2, <2>3, <2>4
<1>4. Decision(s) = "block"
  BY <1>1, <1>3, FailureDecides
<1> QED BY <1>1, <1>4

McpInvariant == OsvInvariant /\ Assessing /\ Scanning

\* The invariant holds at first.
LEMMA McpInit == Init => McpInvariant
<1> SUFFICES ASSUME Init PROVE McpInvariant
  OBVIOUS
<1>1. OsvInvariant
  BY QueryStartOK DEF Init, OsvInvariant
<1>2. Assessing
  BY DEF Init, Assessing, Decided
<1>3. Scanning
  BY DEF Init, DependencyInit, Scanning, NoResult
<1> QED BY <1>1, <1>2, <1>3 DEF McpInvariant

\* The query, the scan and the assessment keep the facts above in every behaviour.
THEOREM McpInvariantHolds == Spec => []McpInvariant
<1>1. McpInvariant /\ [Next]_vars => McpInvariant'
  BY OsvStep, AssessingStep, ScanningStep DEF McpInvariant, OsvInvariant
<1> QED BY <1>1, McpInit, PTL DEF Spec

\* Whatever the scanners report: a scan that ends with success tells every
\* advisory, through four places that drop duplicates (sca_pipeline.py).
THEOREM SuccessTellsEverything == Spec => []SuccessTellsAll
<1>1. McpInvariant => SuccessTellsAll
  BY SuccessTells DEF McpInvariant
<1> QED BY <1>1, McpInvariantHolds, PTL

\* Whatever the other metrics come to, a danger that an extractor reported
\* blocks the server (orchestrator.py, engine.py).
THEOREM DangerIsBlocked == Spec => []ReportedDangerBlocks
<1>1. McpInvariant => ReportedDangerBlocks
  BY DangerBlocks DEF McpInvariant, OsvInvariant
<1> QED BY <1>1, McpInvariantHolds, PTL

-----------------------------------------------------------------------------
(* The table of dependencies (DependencyInventory): rows may be added in   *)
(* any order, and declared names end up direct.                            *)

Ecosystems == {"npm", "pypi", "cargo", "golang", "none"}
DependencyKinds == {"direct", "transitive"}
Row == Ecosystems \X STRING \X Versions
RowOf(ecosystem, e) == <<ecosystem, e.name, e.version>>

KindOf(D, k) == IF <<k[1], k[2]>> \in D THEN "direct" ELSE "transitive"
UnderOf(D, k) == <<k[1], k[2], KindOf(D, k)>>

\* Some row of R gives the name of k an exact version.
Pinned(R, k) == \E x \in R : x[1] = k[1] /\ x[2] = k[2] /\ ~IsRangeVersion(x[3])
Kept(R) == {k \in R : IsRangeVersion(k[3]) => ~Pinned(R, k)}

\* The table that the rows R come to, in whatever order they are added, where D
\* are the direct names.
TableOf(D, R) ==
    [kinds  |-> [k \in Kept(R) |-> KindOf(D, k)],
     byType |-> {<<UnderOf(D, k), k>> : k \in Kept(R)},
     exact  |-> {UnderOf(D, k) : k \in {k \in R : ~IsRangeVersion(k[3])}}]

\* The parts of a row.
LEMMA RowIs ==
  ASSUME NEW ecosystem \in Ecosystems, NEW e \in Entries
  PROVE  LET k == RowOf(ecosystem, e)
         IN k \in Row /\ k[1] = ecosystem /\ k[2] = e.name /\ k[3] = e.version
BY DEF RowOf, Row, Entries

\* What one more row pins.
LEMMA PinnedMore ==
  ASSUME NEW R, NEW key, NEW k
  PROVE  Pinned(R \cup {key}, k) <=>
            Pinned(R, k) \/ (key[1] = k[1] /\ key[2] = k[2] /\ ~IsRangeVersion(key[3]))
BY DEF Pinned

\* Rows are remembered under the same key exactly when they have the same name.
LEMMA UnderSame ==
  ASSUME NEW D, NEW k \in Row, NEW x \in Row
  PROVE  UnderOf(D, k) = UnderOf(D, x) <=> k[1] = x[1] /\ k[2] = x[2]
BY DEF UnderOf, KindOf

\* The parts of a table.
LEMMA TableFields ==
  ASSUME NEW D, NEW R \in SUBSET Row
  PROVE  LET t == TableOf(D, R)
         IN /\ t = [kinds |-> t.kinds, byType |-> t.byType, exact |-> t.exact]
            /\ DOMAIN t.kinds = Kept(R) /\ \A k \in Kept(R) : t.kinds[k] = KindOf(D, k)
            /\ t.kinds = [k \in Kept(R) |-> KindOf(D, k)]
            /\ \A u : u \in t.exact <=> \E k \in R : ~IsRangeVersion(k[3]) /\ u = UnderOf(D, k)
            /\ \A u, k : <<u, k>> \in t.byType <=> k \in Kept(R) /\ u = UnderOf(D, k)
            /\ \A p : p \in t.byType <=> \E k \in Kept(R) : p = <<UnderOf(D, k), k>>
BY DEF TableOf

\* Adding a row to the table of R gives the table of R and the row
\* (_upsert_dependency): the heart of why the order does not matter.
LEMMA UpsertRow ==
  ASSUME NEW D, NEW R \in SUBSET Row, NEW ecosystem \in Ecosystems, NEW e \in Entries
  PROVE  UpsertDependency(TableOf(D, R), ecosystem, e, KindOf(D, RowOf(ecosystem, e)))
           = TableOf(D, R \cup {RowOf(ecosystem, e)})
<1> DEFINE key == RowOf(ecosystem, e)
           type == KindOf(D, key)
           S == R \cup {key}
           t == TableOf(D, R)
           under == UnderOf(D, key)
           range == IsRangeVersion(e.version)
           ranges == IF range THEN {}
                     ELSE {k \in DOMAIN t.kinds : IsRangeVersion(k[3]) /\ <<under, k>> \in t.byType}
           kept == DOMAIN t.kinds \ ranges
           new == key \notin kept
           kinds == [k \in kept \cup {key} |-> IF k = key /\ (new \/ type = "direct") THEN type ELSE t.kinds[k]]
           byType == (t.byType \ ({under} \X ranges)) \cup (IF new THEN {<<under, key>>} ELSE {})
           exact == IF new /\ ~range THEN t.exact \cup {under} ELSE t.exact
           upserted == UpsertDependency(t, ecosystem, e, type)
<1>1. key \in Row /\ key[1] = ecosystem /\ key[2] = e.name /\ key[3] = e.version /\ S \in SUBSET Row
  BY RowIs
<1>2. key = <<ecosystem, e.name, e.version>> /\ under = <<ecosystem, e.name, type>>
  BY <1>1 DEF RowOf, UnderOf
<1>3. upserted = IF range /\ under \in t.exact THEN t
               ELSE [kinds |-> kinds, byType |-> byType, exact |-> exact]
  <2> HIDE DEF t, type, key, under
  <2> QED BY <1>2 DEF UpsertDependency
<1> DEFINE w == TableOf(D, S)
<1>4. /\ t = [kinds |-> t.kinds, byType |-> t.byType, exact |-> t.exact]
      /\ DOMAIN t.kinds = Kept(R) /\ \A k \in Kept(R) : t.kinds[k] = KindOf(D, k)
      /\ t.kinds = [k \in Kept(R) |-> KindOf(D, k)]
      /\ \A u : u \in t.exact <=> \E k \in R : ~IsRangeVersion(k[3]) /\ u = UnderOf(D, k)
      /\ \A u, k : <<u, k>> \in t.byType <=> k \in Kept(R) /\ u = UnderOf(D, k)
      /\ \A p : p \in t.byType <=> \E k \in Kept(R) : p = <<UnderOf(D, k), k>>
  BY TableFields
<1>5. /\ w = [kinds |-> w.kinds, byType |-> w.byType, exact |-> w.exact]
      /\ DOMAIN w.kinds = Kept(S) /\ \A k \in Kept(S) : w.kinds[k] = KindOf(D, k)
      /\ w.kinds = [k \in Kept(S) |-> KindOf(D, k)]
      /\ \A u : u \in w.exact <=> \E k \in S : ~IsRangeVersion(k[3]) /\ u = UnderOf(D, k)
      /\ \A u, k : <<u, k>> \in w.byType <=> k \in Kept(S) /\ u = UnderOf(D, k)
      /\ \A p : p \in w.byType <=> \E k \in Kept(S) : p = <<UnderOf(D, k), k>>
  BY <1>1, TableFields
<1>6. Kept(R) \subseteq R /\ Kept(S) \subseteq S /\ R \subseteq Row /\ S \subseteq Row
  BY <1>1 DEF Kept
<1>7. \A k \in Row : UnderOf(D, k) = under <=> k[1] = key[1] /\ k[2] = key[2]
  BY <1>1, UnderSame
<1>8. \A k : Pinned(S, k) <=> Pinned(R, k) \/ (key[1] = k[1] /\ key[2] = k[2] /\ ~range)
  BY <1>1, PinnedMore
<1>9. under \in t.exact <=> Pinned(R, key)
  BY <1>4, <1>6, <1>7 DEF Pinned
<1>10. \A k \in S : k \in R \/ k = key
  OBVIOUS
<1> HIDE DEF t, w, under, type, upserted
<1> DEFINE told == [kinds |-> kinds, byType |-> byType, exact |-> exact]
<1>11. CASE range /\ under \in t.exact
  <2>1. Kept(S) = Kept(R)
    BY <1>1, <1>8, <1>9, <1>11 DEF Kept
  <2>2. w.exact = t.exact
    BY <1>1, <1>4, <1>5, <1>11
  <2>3. w.byType = t.byType
    <3>1. \A p : p \in w.byType <=> p \in t.byType
      BY <1>4, <1>5, <2>1
    <3> QED BY <3>1
  <2>4. upserted = t
    BY <1>3, <1>11
  <2>5. w.kinds = t.kinds
    BY <1>4, <1>5, <2>1
  <2>6. /\ t = [kinds |-> t.kinds, byType |-> t.byType, exact |-> t.exact]
        /\ w = [kinds |-> w.kinds, byType |-> w.byType, exact |-> w.exact]
    BY <1>4, <1>5
  <2>7. upserted = w
    BY <2>2, <2>3, <2>4, <2>5, <2>6
  <2> QED BY <2>7 DEF w, t, type, upserted
<1>12. CASE range /\ under \notin t.exact
  <2>1. ranges = {} /\ kept = Kept(R)
    BY <1>4, <1>12
  <2>2. Kept(S) = Kept(R) \cup {key}
    BY <1>1, <1>8, <1>9, <1>12 DEF Kept
  <2>3. w.exact = exact
    <3>1. \A u : u \in w.exact <=> u \in t.exact
      BY <1>1, <1>4, <1>5, <1>10, <1>12
    <3> QED BY <1>12, <3>1
  <2>4. byType = w.byType
    <3>1. byType = t.byType \cup (IF new THEN {<<under, key>>} ELSE {})
      BY <2>1
    <3>2. \A p : p \in byType <=> p \in t.byType \/ p = <<under, key>>
      <4>1. ~new => <<under, key>> \in t.byType
        BY <1>4, <2>1 DEF under
      <4> QED BY <3>1, <4>1
    <3>3. \A p : p \in w.byType <=> p \in t.byType \/ p = <<under, key>>
      <4>1. \A p : p \in t.byType <=> \E k \in Kept(R) : p = <<UnderOf(D, k), k>>
        BY <1>4
      <4>2. \A p : p \in w.byType <=> \E k \in Kept(S) : p = <<UnderOf(D, k), k>>
        BY <1>5
      <4>3. under = UnderOf(D, key)
        BY DEF under
      <4> HIDE DEF key, S
      <4> QED BY <2>2, <4>1, <4>2, <4>3
    <3> HIDE DEF byType
    <3> QED BY <3>2, <3>3
  <2>5. kinds = w.kinds
    <3> HIDE DEF ranges
    <3> QED BY <1>4, <1>5, <2>1, <2>2 DEF type
  <2>8. upserted = [kinds |-> kinds, byType |-> byType, exact |-> exact]
    BY <1>3, <1>12
  <2>9. w = [kinds |-> w.kinds, byType |-> w.byType, exact |-> w.exact]
    BY <1>5
  <2>10. upserted = w
    <3> HIDE DEF kinds, byType, exact
    <3> QED BY <2>3, <2>4, <2>5, <2>8, <2>9
  <2> QED BY <2>10 DEF w, t, type, upserted
<1>13. CASE ~range
  <2>1. ranges = {k \in Kept(R) : IsRangeVersion(k[3]) /\ k[1] = key[1] /\ k[2] = key[2]}
    BY <1>4, <1>6, <1>7, <1>13
  <2> HIDE DEF ranges
  <2>2. \A k : k \in Kept(S) <=> k = key \/ (k \in Kept(R) /\ k \notin ranges)
    <3>1. \A k : k \in Kept(S) <=> k \in S /\ (IsRangeVersion(k[3]) => ~Pinned(S, k))
      BY DEF Kept
    <3>2. \A k : k \in Kept(R) <=> k \in R /\ (IsRangeVersion(k[3]) => ~Pinned(R, k))
      BY DEF Kept
    <3>3. ~IsRangeVersion(key[3]) /\ key \in S
      BY <1>1, <1>13
    <3> QED BY <1>8, <1>10, <1>13, <2>1, <3>1, <3>2, <3>3
  <2>3. Kept(S) = kept \cup {key}
    BY <1>4, <2>2
  <2>4. new <=> key \notin R
    <3>1. key \in Kept(R) <=> key \in R
      BY <1>1, <1>13 DEF Kept
    <3>2. key \notin ranges
      BY <1>1, <1>13, <2>1
    <3> QED BY <1>4, <3>1, <3>2
  <2> HIDE DEF new
  <2>5. exact = w.exact
    <3>1. \A u : u \in w.exact <=> u \in t.exact \/ u = under
      BY <1>1, <1>4, <1>5, <1>13 DEF under
    <3>2. ~new => under \in t.exact
      BY <1>1, <1>4, <1>13, <2>4 DEF under
    <3> QED BY <1>13, <3>1, <3>2
  <2>6. byType = w.byType
    <3>1. ~new => <<under, key>> \in t.byType /\ <<under, key>> \notin {under} \X ranges
      <4>1. ~new => key \in kept
        BY DEF new
      <4> QED BY <1>4, <4>1 DEF under
    <3>2. \A p : p \in byType <=> (p \in t.byType /\ p \notin {under} \X ranges) \/ p = <<under, key>>
      BY <3>1
    <3>3. \A k \in Kept(R) : <<UnderOf(D, k), k>> \in {under} \X ranges <=> k \in ranges
      BY <1>6, <1>7, <2>1
    <3>4. \A p : p \in w.byType <=> (p \in t.byType /\ p \notin {under} \X ranges) \/ p = <<under, key>>
      <4>1. ASSUME NEW p \in w.byType
            PROVE  (p \in t.byType /\ p \notin {under} \X ranges) \/ p = <<under, key>>
        <5>1. PICK k \in Kept(S) : p = <<UnderOf(D, k), k>>
          BY <1>5
        <5>2. CASE k = key
          BY <5>1, <5>2 DEF under
        <5>3. CASE k # key
          BY <1>4, <2>2, <3>3, <5>1, <5>3
        <5> QED BY <5>2, <5>3
      <4>2. ASSUME NEW p \in t.byType, p \notin {under} \X ranges PROVE p \in w.byType
        <5>1. PICK k \in Kept(R) : p = <<UnderOf(D, k), k>>
          BY <1>4
        <5>2. k \in Kept(S)
          BY <2>2, <3>3, <4>2, <5>1
        <5> QED BY <1>5, <5>1, <5>2
      <4>3. <<under, key>> \in w.byType
        BY <1>5, <2>2 DEF under
      <4> QED BY <4>1, <4>2, <4>3
    <3> HIDE DEF byType
    <3> QED BY <3>2, <3>4
  <2>7. kinds = w.kinds
    <3> DEFINE K == kept \cup {key}
    <3>1. \A k \in K : kinds[k] = KindOf(D, k)
      <4> TAKE k \in K
      <4>1. k # key => k \in Kept(R)
        BY <1>4
      <4>2. ~new => key \in Kept(R)
        BY <1>4 DEF new
      <4> QED BY <1>4, <4>1, <4>2 DEF type
    <3>2. DOMAIN kinds = K /\ kinds = [k \in K |-> kinds[k]]
      OBVIOUS
    <3> HIDE DEF kinds, kept
    <3> QED BY <1>5, <2>3, <3>1, <3>2
  <2>8. upserted = [kinds |-> kinds, byType |-> byType, exact |-> exact]
    BY <1>3, <1>13
  <2>9. w = [kinds |-> w.kinds, byType |-> w.byType, exact |-> w.exact]
    BY <1>5
  <2>10. upserted = w
    <3> HIDE DEF kinds, byType, exact
    <3> QED BY <2>5, <2>6, <2>7, <2>8, <2>9
  <2> QED BY <2>10 DEF w, t, type, upserted
<1> QED BY <1>11, <1>12, <1>13 DEF upserted, w, t, type

Under == Ecosystems \X STRING \X DependencyKinds
Table == [kinds : UNION {[K -> DependencyKinds] : K \in SUBSET Row},
          byType : SUBSET (Under \X Row), exact : SUBSET Under]

\* The table of typed rows is typed.
LEMMA TableOfTyped ==
  ASSUME NEW D, NEW R \in SUBSET Row
  PROVE  TableOf(D, R) \in Table
<1> DEFINE kinds == [k \in Kept(R) |-> KindOf(D, k)]
           byType == {<<UnderOf(D, k), k>> : k \in Kept(R)}
           exact == {UnderOf(D, k) : k \in {k \in R : ~IsRangeVersion(k[3])}}
<1>1. Kept(R) \in SUBSET Row /\ \A k \in Row : KindOf(D, k) \in DependencyKinds /\ UnderOf(D, k) \in Under
  BY DEF Kept, KindOf, UnderOf, Under, Row, DependencyKinds
<1>2. kinds \in UNION {[K -> DependencyKinds] : K \in SUBSET Row}
  <2>1. kinds \in [Kept(R) -> DependencyKinds]
    BY <1>1
  <2> HIDE DEF kinds
  <2> QED BY <1>1, <2>1
<1>3. byType \in SUBSET (Under \X Row) /\ exact \in SUBSET Under
  BY <1>1
<1> HIDE DEF kinds, byType, exact
<1>4. TableOf(D, R) = [kinds |-> kinds, byType |-> byType, exact |-> exact]
  BY DEF TableOf, kinds, byType, exact
<1> QED BY <1>2, <1>3, <1>4 DEF Table

\* A typed table stays typed.
LEMMA UpsertTyped ==
  ASSUME NEW t \in Table, NEW ecosystem \in Ecosystems, NEW e \in Entries, NEW type \in DependencyKinds
  PROVE  UpsertDependency(t, ecosystem, e, type) \in Table
<1> DEFINE key == <<ecosystem, e.name, e.version>>
           under == <<ecosystem, e.name, type>>
           range == IsRangeVersion(e.version)
           ranges == IF range THEN {}
                     ELSE {k \in DOMAIN t.kinds : IsRangeVersion(k[3]) /\ <<under, k>> \in t.byType}
           kept == DOMAIN t.kinds \ ranges
           new == key \notin kept
           kinds == [k \in kept \cup {key} |-> IF k = key /\ (new \/ type = "direct") THEN type ELSE t.kinds[k]]
           byType == (t.byType \ ({under} \X ranges)) \cup (IF new THEN {<<under, key>>} ELSE {})
           exact == IF new /\ ~range THEN t.exact \cup {under} ELSE t.exact
<1>1. UpsertDependency(t, ecosystem, e, type) =
         IF range /\ under \in t.exact THEN t ELSE [kinds |-> kinds, byType |-> byType, exact |-> exact]
  BY DEF UpsertDependency
<1>2. key \in Row /\ under \in Under
  BY DEF Row, Under, Entries
<1>3. PICK K \in SUBSET Row : t.kinds \in [K -> DependencyKinds]
  BY DEF Table
<1>4. t.byType \in SUBSET (Under \X Row) /\ t.exact \in SUBSET Under
  BY DEF Table
<1> HIDE DEF key, under, ranges
<1>5. kinds \in UNION {[J -> DependencyKinds] : J \in SUBSET Row}
  <2>1. kinds \in [kept \cup {key} -> DependencyKinds] /\ kept \cup {key} \in SUBSET Row
    BY <1>2, <1>3
  <2> HIDE DEF kinds, kept
  <2> QED BY <2>1
<1>6. byType \in SUBSET (Under \X Row) /\ exact \in SUBSET Under
  BY <1>2, <1>4
<1> HIDE DEF kinds, byType, exact
<1>7. [kinds |-> kinds, byType |-> byType, exact |-> exact] \in Table
  BY <1>5, <1>6 DEF Table
<1> QED BY <1>1, <1>7

TypeFor(e, direct) == IF e.name \in direct THEN "direct" ELSE "transitive"
UpsertOne(t, ecosystem, e, direct) == UpsertDependency(t, ecosystem, e, TypeFor(e, direct))

\* The entries are added one by one.
Upserts(table, ecosystem, entries, direct) ==
    \E h \in [0..Len(entries) -> Table] :
        /\ h[0] = table /\ h[Len(entries)] = UpsertAll(table, ecosystem, entries, direct)
        /\ \A k \in 1..Len(entries) : h[k] = UpsertOne(h[k - 1], ecosystem, entries[k], direct)

\* Entries are added one by one.
LEMMA UpsertPrefixes ==
  ASSUME NEW table \in Table, NEW ecosystem \in Ecosystems, NEW entries \in Seq(Entries), NEW direct
  PROVE  Upserts(table, ecosystem, entries, direct)
<1> DEFINE n == Len(entries)
           step == [k \in 1..n |-> [x \in Table |-> UpsertOne(x, ecosystem, entries[k], direct)]]
           Eq(f) == f = [s \in SUBSET DOMAIN entries |->
                           IF s = {} THEN table
                           ELSE UpsertOne(f[s \ {Max(s)}], ecosystem, entries[Max(s)], direct)]
           it == CHOOSE f : Eq(f)
<1>1. n \in Nat /\ DOMAIN entries = 1..n /\ \A k \in 1..n : entries[k] \in Entries
  OBVIOUS
<1>3. \A k \in 1..n, x \in Table : UpsertOne(x, ecosystem, entries[k], direct) \in Table
  BY <1>1, UpsertTyped DEF UpsertOne, TypeFor, DependencyKinds
<1>4. /\ step \in [1..n -> [Table -> Table]]
      /\ \A k \in 1..n, x \in Table : step[k][x] = UpsertOne(x, ecosystem, entries[k], direct)
  BY <1>3
<1>5. UpsertAll(table, ecosystem, entries, direct) = it[1..n]
  BY <1>1 DEF UpsertAll, FoldLeft, MapThenFoldSet, UpsertOne, TypeFor
<1>6. FoldsIn(it, n, Table, table, step)
  <2> HIDE DEF step, n
  <2>1. PICK g \in [SUBSET (1..n) -> Table] : IsFold(g, n, table, step)
    BY <1>1, <1>4, FoldExists
  <2>2. Eq(g)
    BY <1>1, <1>4, <2>1, MaxIn DEF IsFold
  <2>3. Eq(it)
    <3> HIDE DEF Eq
    <3> QED BY <2>2
  <2> HIDE DEF it
  <2>4. \A s \in SUBSET (1..n) : it[s] = IF s = {} THEN table
                    ELSE UpsertOne(it[s \ {Max(s)}], ecosystem, entries[Max(s)], direct)
    BY <1>1, <2>3
  <2>5. \A s \in SUBSET (1..n) : s # {} => Max(s) \in 1..n
    BY <1>1, MaxIn
  <2> QED BY <1>4, <2>4, <2>5 DEF FoldsIn
<1> HIDE DEF it, step, n
<1>7. PICK h \in [0..n -> Table] : StepByStep(h, n, table, step) /\ h[n] = it[1..n]
  <2>1. n \in Nat /\ step \in [1..n -> [Table -> Table]]
    BY <1>1, <1>4, <1>6
  <2>2. table \in Table
    BY <1>1, <1>4, <1>6
  <2>3. FoldsIn(it, n, Table, table, step)
    BY <1>6
  <2>4. Unrolls(it, n, Table, table, step)
    BY <2>1, <2>2, <2>3, FoldPrefixes
  <2> QED BY <2>4 DEF Unrolls
<1>8. \A k \in 1..n : h[k] = UpsertOne(h[k - 1], ecosystem, entries[k], direct)
  <2> TAKE k \in 1..n
  <2>1. k - 1 \in 0..n
    BY <1>1
  <2> QED BY <1>4, <1>7, <2>1 DEF StepByStep
<1>9. h[0] = table /\ h[n] = UpsertAll(table, ecosystem, entries, direct)
  BY <1>5, <1>7 DEF StepByStep
<1> QED BY <1>7, <1>8, <1>9 DEF n, Upserts

RowsOf(ecosystem, entries) == {RowOf(ecosystem, e) : e \in ToSet(entries)}

\* A list of entries keeps the table typed.
LEMMA UpsertAllTyped ==
  ASSUME NEW table \in Table, NEW ecosystem \in Ecosystems, NEW entries \in Seq(Entries), NEW direct
  PROVE  UpsertAll(table, ecosystem, entries, direct) \in Table
<1>1. PICK h \in [0..Len(entries) -> Table] : h[Len(entries)] = UpsertAll(table, ecosystem, entries, direct)
  BY UpsertPrefixes DEF Upserts
<1>2. Len(entries) \in 0..Len(entries)
  OBVIOUS
<1> QED BY <1>1, <1>2

\* Where names are direct as D says, entries add their rows.
LEMMA UpsertAllRows ==
  ASSUME NEW D, NEW R \in SUBSET Row, NEW ecosystem \in Ecosystems, NEW entries \in Seq(Entries), NEW direct,
         \A e \in ToSet(entries) : e.name \in direct <=> <<ecosystem, e.name>> \in D
  PROVE  /\ RowsOf(ecosystem, entries) \in SUBSET Row
         /\ UpsertAll(TableOf(D, R), ecosystem, entries, direct) = TableOf(D, R \cup RowsOf(ecosystem, entries))
<1> DEFINE n == Len(entries)
           base == TableOf(D, R)
           Rows(k) == R \cup {RowOf(ecosystem, entries[i]) : i \in 1..k}
<1>1. n \in Nat /\ DOMAIN entries = 1..n /\ \A k \in 1..n : entries[k] \in Entries
  OBVIOUS
<1>2. \A k \in 1..n : TypeFor(entries[k], direct) = KindOf(D, RowOf(ecosystem, entries[k]))
  <2> TAKE k \in 1..n
  <2>1. entries[k] \in ToSet(entries)
    BY <1>1 DEF ToSet
  <2> QED BY <1>1, <2>1, RowIs DEF TypeFor, KindOf
<1>3. base \in Table
  BY TableOfTyped
<1>4. PICK h \in [0..n -> Table] :
        /\ h[0] = base /\ h[n] = UpsertAll(base, ecosystem, entries, direct)
        /\ \A k \in 1..n : h[k] = UpsertOne(h[k - 1], ecosystem, entries[k], direct)
  <2> HIDE DEF base
  <2> QED BY <1>3, UpsertPrefixes DEF Upserts
<1>5. \A k \in 1..n : RowOf(ecosystem, entries[k]) \in Row
  BY <1>1, RowIs
<1> DEFINE T == {k \in 0..n : h[k] = TableOf(D, Rows(k))}
<1> HIDE DEF n
<1>6. 0 \in T
  <2>1. Rows(0) = R
    BY EmptyPrefix
  <2> HIDE DEF Rows
  <2>2. h[0] = TableOf(D, Rows(0)) /\ 0 \in 0..n
    BY <1>1, <1>4, <2>1
  <2> QED BY <2>2
<1>7. ASSUME NEW k \in 1..n, k - 1 \in T PROVE k \in T
  <2>1. k \in 0..n /\ k - 1 \in 0..n /\ h[k - 1] = TableOf(D, Rows(k - 1))
    BY <1>1, <1>7
  <2>2. Rows(k - 1) \in SUBSET Row
    BY <1>1, <1>5
  <2>3. Rows(k) = Rows(k - 1) \cup {RowOf(ecosystem, entries[k])}
    <3>1. \A i : i \in 1..k <=> i \in 1..(k - 1) \/ i = k
      BY <1>1
    <3> QED BY <3>1
  <2> HIDE DEF Rows
  <2>4. h[k] = TableOf(D, Rows(k - 1) \cup {RowOf(ecosystem, entries[k])})
    BY <1>1, <1>2, <1>4, <2>1, <2>2, UpsertRow DEF UpsertOne
  <2> QED BY <2>1, <2>3, <2>4
<1>8. n \in T
  <2>1. \A k \in 1..n : k - 1 \in T => k \in T
    BY <1>7
  <2>2. n \in 0..n
    BY <1>1
  <2> HIDE DEF T
  <2> QED BY <1>1, <1>6, <2>1, <2>2, PrefixInduction
<1>9. {RowOf(ecosystem, entries[i]) : i \in 1..n} = RowsOf(ecosystem, entries)
  BY <1>1 DEF RowsOf, ToSet
<1> QED BY <1>4, <1>5, <1>8, <1>9

ParsedOK(p) ==
    /\ p.ecosystem \in Ecosystems
    /\ p.result.directEntries \in Seq(Entries) /\ p.result.transitiveEntries \in Seq(Entries)
    /\ p.result.direct = Names(p.result.directEntries)

LockRows(p) ==
    RowsOf(p.ecosystem, p.result.transitiveEntries) \cup RowsOf(p.ecosystem, p.result.directEntries)

\* The empty table is the table of no rows.
LEMMA NothingIsTable ==
  ASSUME NEW D
  PROVE  NoDependencies = TableOf(D, {})
<1>1. Kept({}) = {}
  BY DEF Kept
<1>2. [k \in {} |-> KindOf(D, k)] = <<>>
  <2> DEFINE f == [k \in {} |-> KindOf(D, k)]
  <2>1. f \in Seq({}) /\ Len(f) = 0
    OBVIOUS
  <2> HIDE DEF f
  <2>2. f = <<>>
    BY <2>1
  <2> QED BY <2>2 DEF f
<1> QED BY <1>1, <1>2 DEF NoDependencies, TableOf

\* A parsed lockfile adds the rows of its entries.
LEMMA AddLockfileRows ==
  ASSUME NEW D, NEW R \in SUBSET Row, NEW p, ParsedOK(p),
         \A n \in p.result.direct : <<p.ecosystem, n>> \in D
  PROVE  /\ LockRows(p) \in SUBSET Row
         /\ AddLockfile(TableOf(D, R), p, D) = TableOf(D, R \cup LockRows(p))
<1> DEFINE eco == p.ecosystem
           resolved == p.result.transitiveEntries
           declared == p.result.directEntries
           direct == {n \in Names(resolved) : <<eco, n>> \in D}
           A == RowsOf(eco, resolved)
           B == RowsOf(eco, declared)
<1>1. eco \in Ecosystems /\ resolved \in Seq(Entries) /\ declared \in Seq(Entries)
  BY DEF ParsedOK
<1>2. \A e \in ToSet(resolved) : e.name \in direct <=> <<eco, e.name>> \in D
  BY DEF Names
<1>3. \A e \in ToSet(declared) : e.name \in Names(declared) <=> <<eco, e.name>> \in D
  BY DEF Names, ParsedOK
<1>4. AddLockfile(TableOf(D, R), p, D) =
         UpsertAll(UpsertAll(TableOf(D, R), eco, resolved, direct), eco, declared, Names(declared))
  BY DEF AddLockfile
<1> HIDE DEF eco, resolved, declared, direct
<1>5. A \in SUBSET Row /\ UpsertAll(TableOf(D, R), eco, resolved, direct) = TableOf(D, R \cup A)
  BY <1>1, <1>2, UpsertAllRows
<1> DEFINE S == R \cup A
<1>6. S \in SUBSET Row
  BY <1>5
<1> HIDE DEF A, S
<1>7. B \in SUBSET Row /\ UpsertAll(TableOf(D, S), eco, declared, Names(declared)) = TableOf(D, S \cup B)
  BY <1>1, <1>3, <1>6, UpsertAllRows
<1> HIDE DEF B
<1>8. S \cup B = R \cup LockRows(p) /\ LockRows(p) = A \cup B
  BY DEF S, A, B, LockRows, eco, resolved, declared
<1>9. AddLockfile(TableOf(D, R), p, D) = TableOf(D, S \cup B)
  BY <1>4, <1>5, <1>7 DEF S
<1> QED BY <1>5, <1>7, <1>8, <1>9

\* It keeps the table typed.
LEMMA AddLockfileTyped ==
  ASSUME NEW t \in Table, NEW p, ParsedOK(p), NEW D
  PROVE  AddLockfile(t, p, D) \in Table
<1> DEFINE u == UpsertAll(t, p.ecosystem, p.result.transitiveEntries,
                          {n \in Names(p.result.transitiveEntries) : <<p.ecosystem, n>> \in D})
<1>1. /\ p.ecosystem \in Ecosystems
      /\ p.result.transitiveEntries \in Seq(Entries) /\ p.result.directEntries \in Seq(Entries)
  BY DEF ParsedOK
<1>2. u \in Table
  BY <1>1, UpsertAllTyped
<1>3. AddLockfile(t, p, D) = UpsertAll(u, p.ecosystem, p.result.directEntries, Names(p.result.directEntries))
  BY DEF AddLockfile
<1> HIDE DEF u
<1> QED BY <1>1, <1>2, <1>3, UpsertAllTyped

\* The parsed lockfiles are added one by one.
Adds(files, n) ==
    \E h \in [0..n -> Table] :
        /\ h[0] = NoDependencies /\ h[n] = AddLockfiles(files)
        /\ \A k \in 1..n : h[k] = AddLockfile(h[k - 1], files[k], Named(files, "direct"))

\* Parsed lockfiles are added one by one.
LEMMA LockfilePrefixes ==
  ASSUME NEW n \in Nat, NEW files, DOMAIN files = 1..n, \A i \in 1..n : ParsedOK(files[i])
  PROVE  Adds(files, n)
<1> DEFINE D == Named(files, "direct")
           base == NoDependencies
           step == [k \in 1..n |-> [x \in Table |-> AddLockfile(x, files[k], D)]]
           Eq(f) == f = [s \in SUBSET DOMAIN files |->
                           IF s = {} THEN base
                           ELSE AddLockfile(f[s \ {Max(s)}], files[Max(s)], D)]
           it == CHOOSE f : Eq(f)
<1>2. base \in Table
  <2>1. TableOf(D, {}) \in Table
    BY TableOfTyped
  <2> QED BY <2>1, NothingIsTable
<1>3. \A k \in 1..n, x \in Table : AddLockfile(x, files[k], D) \in Table
  BY AddLockfileTyped
<1>4. /\ step \in [1..n -> [Table -> Table]]
      /\ \A k \in 1..n, x \in Table : step[k][x] = AddLockfile(x, files[k], D)
  BY <1>3
<1>5. AddLockfiles(files) = it[1..n]
  BY DEF AddLockfiles, FoldLeft, MapThenFoldSet
<1>6. FoldsIn(it, n, Table, base, step)
  <2> HIDE DEF step, base, D
  <2>1. PICK g \in [SUBSET (1..n) -> Table] : IsFold(g, n, base, step)
    BY <1>2, <1>4, FoldExists
  <2>2. Eq(g)
    BY <1>4, <2>1, MaxIn DEF IsFold
  <2>3. Eq(it)
    <3> HIDE DEF Eq
    <3> QED BY <2>2
  <2> HIDE DEF it
  <2>4. \A s \in SUBSET (1..n) : it[s] = IF s = {} THEN base
                    ELSE AddLockfile(it[s \ {Max(s)}], files[Max(s)], D)
    BY <2>3
  <2>5. \A s \in SUBSET (1..n) : s # {} => Max(s) \in 1..n
    BY MaxIn
  <2> QED BY <1>4, <2>4, <2>5 DEF FoldsIn
<1> HIDE DEF it, step, base, D
<1>7. PICK h \in [0..n -> Table] : StepByStep(h, n, base, step) /\ h[n] = it[1..n]
  <2>1. n \in Nat /\ step \in [1..n -> [Table -> Table]]
    BY <1>2, <1>4, <1>6
  <2>2. base \in Table
    BY <1>2, <1>4, <1>6
  <2>3. FoldsIn(it, n, Table, base, step)
    BY <1>6
  <2>4. Unrolls(it, n, Table, base, step)
    BY <2>1, <2>2, <2>3, FoldPrefixes
  <2> QED BY <2>4 DEF Unrolls
<1>8. \A k \in 1..n : h[k] = AddLockfile(h[k - 1], files[k], D)
  <2> TAKE k \in 1..n
  <2>1. k - 1 \in 0..n
    OBVIOUS
  <2> QED BY <1>4, <1>7, <2>1 DEF StepByStep
<1>9. h[0] = base /\ h[n] = AddLockfiles(files)
  BY <1>5, <1>7 DEF StepByStep
<1> QED BY <1>7, <1>8, <1>9 DEF base, D, Adds

AllRows(files) == UNION {LockRows(p) : p \in ToSet(files)}

\* What the parsed lockfiles come to is given by the set of them.
LEMMA LockfilesRows ==
  ASSUME NEW n \in Nat, NEW files, DOMAIN files = 1..n, \A i \in 1..n : ParsedOK(files[i])
  PROVE  /\ AllRows(files) \in SUBSET Row
         /\ AddLockfiles(files) = TableOf(Named(files, "direct"), AllRows(files))
<1> DEFINE D == Named(files, "direct")
           Rows(k) == UNION {LockRows(files[i]) : i \in 1..k}
<1>1. \A k \in 1..n : \A m \in files[k].result.direct : <<files[k].ecosystem, m>> \in D
  BY DEF Named, ToSet
<1>2. Adds(files, n)
  BY LockfilePrefixes
<1> HIDE DEF D
<1>3. \A k \in 1..n : LockRows(files[k]) \in SUBSET Row
  BY <1>1, AddLockfileRows
<1>4. PICK h \in [0..n -> Table] :
        /\ h[0] = NoDependencies /\ h[n] = AddLockfiles(files)
        /\ \A k \in 1..n : h[k] = AddLockfile(h[k - 1], files[k], D)
  BY <1>2 DEF Adds, D
<1> DEFINE T == {k \in 0..n : h[k] = TableOf(D, Rows(k))}
<1>5. 0 \in T
  <2>1. Rows(0) = {}
    BY EmptyPrefix
  <2> HIDE DEF Rows
  <2>3. NoDependencies = TableOf(D, {})
    BY NothingIsTable
  <2>4. h[0] = TableOf(D, {})
    BY <1>4, <2>3, Zenon
  <2>5. h[0] = TableOf(D, Rows(0))
    BY <2>1, <2>4, Zenon
  <2>2. h[0] = TableOf(D, Rows(0)) /\ 0 \in 0..n
    BY <2>5
  <2> QED BY <2>2
<1>6. ASSUME NEW k \in 1..n, k - 1 \in T PROVE k \in T
  <2>1. k \in 0..n /\ k - 1 \in 0..n /\ h[k - 1] = TableOf(D, Rows(k - 1))
    BY <1>6
  <2>2. Rows(k - 1) \in SUBSET Row
    BY <1>3
  <2>3. Rows(k) = Rows(k - 1) \cup LockRows(files[k])
    <3>1. \A i : i \in 1..k <=> i \in 1..(k - 1) \/ i = k
      OBVIOUS
    <3> QED BY <3>1
  <2> HIDE DEF Rows
  <2>4. h[k] = TableOf(D, Rows(k - 1) \cup LockRows(files[k]))
    BY <1>1, <1>4, <2>1, <2>2, AddLockfileRows
  <2> QED BY <2>1, <2>3, <2>4
<1>7. n \in T
  <2>1. \A k \in 1..n : k - 1 \in T => k \in T
    BY <1>6
  <2>2. n \in 0..n
    OBVIOUS
  <2> HIDE DEF T
  <2> QED BY <1>5, <2>1, <2>2, PrefixInduction
<1>8. Rows(n) = AllRows(files)
  BY DEF AllRows, ToSet
<1>9. AllRows(files) \in SUBSET Row
  BY <1>3, <1>8
<1> HIDE DEF Rows
<1> QED BY <1>4, <1>7, <1>8, <1>9 DEF D

\* Some row of the name is direct.
Listed(t, name) == \E k \in DOMAIN t.kinds : <<k[1], k[2]>> = name /\ t.kinds[k] = "direct"

\* The table's notes are about its rows.
TableOK(t) ==
    /\ t \in Table
    /\ \A u \in Under, k \in Row : <<u, k>> \in t.byType => u[1] = k[1] /\ u[2] = k[2]
    /\ \A u \in t.exact : u[3] = "direct" =>
          \E k \in DOMAIN t.kinds : /\ k[1] = u[1] /\ k[2] = u[2] /\ ~IsRangeVersion(k[3])
                                    /\ t.kinds[k] = "direct"

\* In such a table every name in D with a row is listed as direct.
LEMMA TableOfOK ==
  ASSUME NEW D, NEW R \in SUBSET Row
  PROVE  /\ TableOK(TableOf(D, R))
         /\ \A k \in R : <<k[1], k[2]>> \in D => Listed(TableOf(D, R), <<k[1], k[2]>>)
<1> DEFINE t == TableOf(D, R)
<1>1. /\ DOMAIN t.kinds = Kept(R) /\ \A k \in Kept(R) : t.kinds[k] = KindOf(D, k)
      /\ \A u : u \in t.exact <=> \E k \in R : ~IsRangeVersion(k[3]) /\ u = UnderOf(D, k)
      /\ \A u, k : <<u, k>> \in t.byType <=> k \in Kept(R) /\ u = UnderOf(D, k)
  BY TableFields
<1>2. t \in Table
  BY TableOfTyped
<1>3. \A k : k \in Kept(R) <=> k \in R /\ (IsRangeVersion(k[3]) => ~Pinned(R, k))
  BY DEF Kept
<1>4. \A k \in Row : /\ UnderOf(D, k)[1] = k[1] /\ UnderOf(D, k)[2] = k[2]
                     /\ UnderOf(D, k)[3] = KindOf(D, k)
  BY DEF UnderOf
<1> HIDE DEF t
<1>5. TableOK(t)
  <2>1. \A u \in Under, k \in Row : <<u, k>> \in t.byType => u[1] = k[1] /\ u[2] = k[2]
    BY <1>1, <1>4
  <2>2. ASSUME NEW u \in t.exact, u[3] = "direct"
        PROVE  \E k \in DOMAIN t.kinds : /\ k[1] = u[1] /\ k[2] = u[2] /\ ~IsRangeVersion(k[3])
                                         /\ t.kinds[k] = "direct"
    <3>1. PICK k \in R : ~IsRangeVersion(k[3]) /\ u = UnderOf(D, k)
      BY <1>1
    <3> QED BY <1>1, <1>3, <1>4, <2>2, <3>1
  <2> QED BY <1>2, <2>1, <2>2 DEF TableOK
<1>6. ASSUME NEW k \in R, <<k[1], k[2]>> \in D PROVE Listed(t, <<k[1], k[2]>>)
  <2>1. CASE k \in Kept(R)
    BY <1>1, <1>6, <2>1 DEF Listed, KindOf
  <2>2. CASE k \notin Kept(R)
    <3>1. PICK x \in R : x[1] = k[1] /\ x[2] = k[2] /\ ~IsRangeVersion(x[3])
      BY <1>3, <2>2 DEF Pinned
    <3>2. x \in Kept(R) /\ KindOf(D, x) = "direct"
      BY <1>3, <1>6, <3>1 DEF KindOf
    <3> QED BY <1>1, <3>1, <3>2 DEF Listed
  <2> QED BY <2>1, <2>2
<1> QED BY <1>5, <1>6 DEF t

\* An entry added as direct is listed, and what was listed stays listed.
LEMMA UpsertDirect ==
  ASSUME NEW t, TableOK(t), NEW ecosystem \in Ecosystems, NEW e \in Entries
  PROVE  LET r == UpsertDependency(t, ecosystem, e, "direct")
         IN /\ TableOK(r) /\ Listed(r, <<ecosystem, e.name>>)
            /\ \A name : Listed(t, name) => Listed(r, name)
<1> DEFINE key == <<ecosystem, e.name, e.version>>
           under == <<ecosystem, e.name, "direct">>
           range == IsRangeVersion(e.version)
           ranges == IF range THEN {}
                     ELSE {k \in DOMAIN t.kinds : IsRangeVersion(k[3]) /\ <<under, k>> \in t.byType}
           kept == DOMAIN t.kinds \ ranges
           new == key \notin kept
           kinds == [k \in kept \cup {key} |-> IF k = key THEN "direct" ELSE t.kinds[k]]
           byType == (t.byType \ ({under} \X ranges)) \cup (IF new THEN {<<under, key>>} ELSE {})
           exact == IF new /\ ~range THEN t.exact \cup {under} ELSE t.exact
           w == [kinds |-> kinds, byType |-> byType, exact |-> exact]
           r == UpsertDependency(t, ecosystem, e, "direct")
<1>1. r = IF range /\ under \in t.exact THEN t ELSE w
  BY DEF UpsertDependency
<1>2. r \in Table
  BY UpsertTyped DEF TableOK, DependencyKinds
<1>3. /\ key \in Row /\ under \in Under /\ key[1] = ecosystem /\ key[2] = e.name /\ key[3] = e.version
      /\ under[1] = ecosystem /\ under[2] = e.name /\ under[3] = "direct"
  BY DEF Row, Under, Entries, DependencyKinds
<1>4. DOMAIN t.kinds \in SUBSET Row
  <2>1. PICK K \in SUBSET Row : t.kinds \in [K -> DependencyKinds]
    BY DEF TableOK, Table
  <2> QED BY <2>1
<1>5. CASE range /\ under \in t.exact
  <2>1. r = t
    BY <1>1, <1>5
  <2>2. Listed(t, <<ecosystem, e.name>>)
    <3> HIDE DEF key, under
    <3> QED BY <1>3, <1>5 DEF TableOK, Listed
  <2> QED BY <2>1, <2>2
<1>6. CASE ~(range /\ under \in t.exact)
  <2>1. r = w
    BY <1>1, <1>6
  <2>2. w.kinds = kinds /\ w.byType = byType /\ w.exact = exact
    OBVIOUS
  <2>3. \A k \in ranges : k[1] = ecosystem /\ k[2] = e.name /\ IsRangeVersion(k[3]) /\ ~range
    <3> HIDE DEF key, under
    <3> QED BY <1>3, <1>4 DEF TableOK
  <2> HIDE DEF ranges, w, r
  <2>4. DOMAIN w.kinds = kept \cup {key} /\ w.kinds[key] = "direct"
    BY <2>2
  <2>5. \A k \in DOMAIN t.kinds : k \notin ranges =>
           k \in DOMAIN w.kinds /\ (t.kinds[k] = "direct" => w.kinds[k] = "direct")
    BY <2>2, <2>4
  <2>6. Listed(w, <<ecosystem, e.name>>)
    <3> HIDE DEF key
    <3> QED BY <1>3, <2>4 DEF Listed
  <2>7. ASSUME NEW name, Listed(t, name) PROVE Listed(w, name)
    <3>1. PICK k \in DOMAIN t.kinds : <<k[1], k[2]>> = name /\ t.kinds[k] = "direct"
      BY <2>7 DEF Listed
    <3>2. CASE k \in ranges
      BY <2>3, <2>6, <3>1, <3>2
    <3>3. CASE k \notin ranges
      BY <2>5, <3>1, <3>3 DEF Listed
    <3> QED BY <3>2, <3>3
  <2>8. \A u \in Under, k \in Row : <<u, k>> \in w.byType => u[1] = k[1] /\ u[2] = k[2]
    <3> HIDE DEF kept
    <3>1. \A p \in byType : p \in t.byType \/ p = <<under, key>>
      OBVIOUS
    <3> HIDE DEF byType, key, under
    <3> QED BY <1>3, <2>2, <3>1 DEF TableOK
  <2>9. ASSUME NEW u \in w.exact, u[3] = "direct"
        PROVE  \E k \in DOMAIN w.kinds : /\ k[1] = u[1] /\ k[2] = u[2] /\ ~IsRangeVersion(k[3])
                                         /\ w.kinds[k] = "direct"
    <3>1. u \in t.exact \/ (u = under /\ ~range)
      BY <2>2
    <3> HIDE DEF under, key, kept, new, kinds, byType, exact
    <3>2. CASE u \in t.exact
      <4>1. PICK k \in DOMAIN t.kinds : /\ k[1] = u[1] /\ k[2] = u[2] /\ ~IsRangeVersion(k[3])
                                        /\ t.kinds[k] = "direct"
        BY <2>9, <3>2 DEF TableOK
      <4>2. k \notin ranges
        BY <2>3, <4>1
      <4> QED BY <2>5, <4>1, <4>2
    <3>3. CASE u = under /\ ~range
      BY <1>3, <2>4, <3>3
    <3> QED BY <3>1, <3>2, <3>3
  <2>10. TableOK(r)
    BY <1>2, <2>1, <2>8, <2>9 DEF TableOK
  <2> QED BY <2>1, <2>6, <2>7, <2>10 DEF r
<1> QED BY <1>5, <1>6

\* Entries that are all direct are listed, and keep what was.
LEMMA UpsertAllDirect ==
  ASSUME NEW t, TableOK(t), NEW ecosystem \in Ecosystems, NEW entries \in Seq(Entries)
  PROVE  LET r == UpsertAll(t, ecosystem, entries, Names(entries))
         IN /\ TableOK(r)
            /\ \A e \in ToSet(entries) : Listed(r, <<ecosystem, e.name>>)
            /\ \A name : Listed(t, name) => Listed(r, name)
<1> DEFINE n == Len(entries)
           r == UpsertAll(t, ecosystem, entries, Names(entries))
<1>1. n \in Nat /\ DOMAIN entries = 1..n /\ \A k \in 1..n : entries[k] \in Entries
  OBVIOUS
<1>2. \A k \in 1..n : TypeFor(entries[k], Names(entries)) = "direct"
  BY <1>1 DEF TypeFor, Names, ToSet
<1>3. t \in Table
  BY DEF TableOK
<1>4. PICK h \in [0..n -> Table] :
        /\ h[0] = t /\ h[n] = r
        /\ \A k \in 1..n : h[k] = UpsertOne(h[k - 1], ecosystem, entries[k], Names(entries))
  BY <1>3, UpsertPrefixes DEF Upserts
<1> DEFINE T == {k \in 0..n : /\ TableOK(h[k])
                              /\ \A i \in 1..k : Listed(h[k], <<ecosystem, entries[i].name>>)
                              /\ \A name : Listed(t, name) => Listed(h[k], name)}
<1> HIDE DEF n, r
<1>5. 0 \in T
  BY <1>1, <1>4, EmptyPrefix
<1>6. ASSUME NEW k \in 1..n, k - 1 \in T PROVE k \in T
  <2> DEFINE old == h[k - 1]
             new == h[k]
             entry == entries[k]
  <2>1. k \in 0..n /\ k - 1 \in 0..n /\ entry \in Entries
    BY <1>1
  <2>2. /\ TableOK(old) /\ \A i \in 1..(k - 1) : Listed(old, <<ecosystem, entries[i].name>>)
        /\ \A name : Listed(t, name) => Listed(old, name)
    BY <1>6
  <2>3. new = UpsertDependency(old, ecosystem, entry, "direct")
    BY <1>2, <1>4 DEF UpsertOne
  <2>4. \A i \in 1..k : i # k => i \in 1..(k - 1)
    BY <1>1
  <2> HIDE DEF old, new, entry, T
  <2>5. /\ TableOK(new) /\ Listed(new, <<ecosystem, entry.name>>)
        /\ \A name : Listed(old, name) => Listed(new, name)
    BY <2>1, <2>2, <2>3, UpsertDirect
  <2>6. \A i \in 1..k : Listed(new, <<ecosystem, entries[i].name>>)
    BY <2>2, <2>4, <2>5 DEF entry
  <2>7. \A name : Listed(t, name) => Listed(new, name)
    BY <2>2, <2>5
  <2> QED BY <2>1, <2>5, <2>6, <2>7 DEF T, new
<1>7. n \in T
  <2>1. \A k \in 1..n : k - 1 \in T => k \in T
    BY <1>6
  <2>2. n \in 0..n
    BY <1>1
  <2> HIDE DEF T
  <2> QED BY <1>1, <1>5, <2>1, <2>2, PrefixInduction
<1>8. \A e \in ToSet(entries) : \E i \in 1..n : e = entries[i]
  BY <1>1 DEF ToSet
<1> QED BY <1>4, <1>7, <1>8 DEF r

\* What is read of a manifest is typed.
LEMMA ManifestRead ==
  ASSUME NEW m \in Manifest
  PROVE  ParseManifest(m).ecosystem \in Ecosystems /\ ParseManifest(m).entries \in Seq(Entries)
<1>1. m.declared \in Seq(Entries)
  BY DEF Manifest
<1>2. \A v \in Versions : StripOperator(v) \in Versions /\ SplitRequirement(v) \in Versions
  BY DEF StripOperator, SplitRequirement, Versions, ExactVersions
<1> DEFINE a == [i \in DOMAIN m.declared |-> [m.declared[i] EXCEPT !.version = StripOperator(@)]]
           b == [i \in DOMAIN m.declared |-> [m.declared[i] EXCEPT !.version = SplitRequirement(@)]]
<1>3. \A e \in Entries : /\ [e EXCEPT !.version = StripOperator(@)] \in Entries
                         /\ [e EXCEPT !.version = SplitRequirement(@)] \in Entries
  BY <1>2 DEF Entries
<1>4. DOMAIN m.declared = 1..Len(m.declared) /\ Len(m.declared) \in Nat
      /\ \A i \in DOMAIN m.declared : m.declared[i] \in Entries
  BY <1>1
<1>5. a \in Seq(Entries) /\ b \in Seq(Entries)
  <2>1. a \in [1..Len(m.declared) -> Entries] /\ b \in [1..Len(m.declared) -> Entries]
    BY <1>3, <1>4
  <2> HIDE DEF a, b
  <2> QED BY <1>4, <2>1, FunctionIsSequence
<1>6. <<>> \in Seq(Entries)
  OBVIOUS
<1>7. \/ ParseManifest(m) = [ecosystem |-> "npm", entries |-> a]
      \/ ParseManifest(m) = [ecosystem |-> "pypi", entries |-> b]
      \/ ParseManifest(m) = [ecosystem |-> "none", entries |-> <<>>]
  BY DEF ParseManifest, WithVersions
<1> HIDE DEF a, b
<1> DEFINE r == ParseManifest(m)
<1>8. /\ r.ecosystem \in {"npm", "pypi", "none"}
      /\ r.entries = a \/ r.entries = b \/ r.entries = <<>>
  BY <1>7
<1> HIDE DEF r
<1>9. r.ecosystem \in Ecosystems /\ r.entries \in Seq(Entries)
  BY <1>5, <1>6, <1>8 DEF Ecosystems
<1> QED BY <1>9 DEF r

\* A manifest's declarations become direct, and what was listed stays.
LEMMA AddManifestOK ==
  ASSUME NEW t, TableOK(t), NEW m \in Manifest
  PROVE  LET r == AddManifest(t, m)
         IN /\ TableOK(r)
            /\ \A e \in ToSet(ParseManifest(m).entries) : Listed(r, <<ParseManifest(m).ecosystem, e.name>>)
            /\ \A name : Listed(t, name) => Listed(r, name)
BY ManifestRead, UpsertAllDirect DEF AddManifest

\* A manifest keeps the table typed.
LEMMA AddManifestTyped ==
  ASSUME NEW t \in Table, NEW m \in Manifest
  PROVE  AddManifest(t, m) \in Table
BY ManifestRead, UpsertAllTyped DEF AddManifest

ManifestsAdded(table, manifests) == FoldLeft(AddManifest, table, manifests)

\* The manifests are added one by one.
AddsManifests(table, manifests) ==
    \E h \in [0..Len(manifests) -> Table] :
        /\ h[0] = table /\ h[Len(manifests)] = ManifestsAdded(table, manifests)
        /\ \A k \in 1..Len(manifests) : h[k] = AddManifest(h[k - 1], manifests[k])

\* Manifests are added one by one.
LEMMA ManifestPrefixes ==
  ASSUME NEW table \in Table, NEW manifests \in Seq(Manifest)
  PROVE  AddsManifests(table, manifests)
<1> DEFINE n == Len(manifests)
           step == [k \in 1..n |-> [x \in Table |-> AddManifest(x, manifests[k])]]
           Eq(f) == f = [s \in SUBSET DOMAIN manifests |->
                           IF s = {} THEN table ELSE AddManifest(f[s \ {Max(s)}], manifests[Max(s)])]
           it == CHOOSE f : Eq(f)
<1>1. n \in Nat /\ DOMAIN manifests = 1..n /\ \A k \in 1..n : manifests[k] \in Manifest
  OBVIOUS
<1>3. \A k \in 1..n, x \in Table : AddManifest(x, manifests[k]) \in Table
  BY <1>1, AddManifestTyped
<1>4. /\ step \in [1..n -> [Table -> Table]]
      /\ \A k \in 1..n, x \in Table : step[k][x] = AddManifest(x, manifests[k])
  BY <1>3
<1>5. ManifestsAdded(table, manifests) = it[1..n]
  BY <1>1 DEF ManifestsAdded, FoldLeft, MapThenFoldSet
<1>6. FoldsIn(it, n, Table, table, step)
  <2> HIDE DEF step, n
  <2>1. PICK g \in [SUBSET (1..n) -> Table] : IsFold(g, n, table, step)
    BY <1>1, <1>4, FoldExists
  <2>2. Eq(g)
    BY <1>1, <1>4, <2>1, MaxIn DEF IsFold
  <2>3. Eq(it)
    <3> HIDE DEF Eq
    <3> QED BY <2>2
  <2> HIDE DEF it
  <2>4. \A s \in SUBSET (1..n) : it[s] = IF s = {} THEN table ELSE AddManifest(it[s \ {Max(s)}], manifests[Max(s)])
    BY <1>1, <2>3
  <2>5. \A s \in SUBSET (1..n) : s # {} => Max(s) \in 1..n
    BY <1>1, MaxIn
  <2> QED BY <1>4, <2>4, <2>5 DEF FoldsIn
<1> HIDE DEF it, step, n
<1>7. PICK h \in [0..n -> Table] : StepByStep(h, n, table, step) /\ h[n] = it[1..n]
  <2>1. n \in Nat /\ step \in [1..n -> [Table -> Table]]
    BY <1>1, <1>4, <1>6
  <2>2. table \in Table
    BY <1>1, <1>4, <1>6
  <2>3. FoldsIn(it, n, Table, table, step)
    BY <1>6
  <2>4. Unrolls(it, n, Table, table, step)
    BY <2>1, <2>2, <2>3, FoldPrefixes
  <2> QED BY <2>4 DEF Unrolls
<1>8. \A k \in 1..n : h[k] = AddManifest(h[k - 1], manifests[k])
  <2> TAKE k \in 1..n
  <2>1. k - 1 \in 0..n
    BY <1>1
  <2> QED BY <1>4, <1>7, <2>1 DEF StepByStep
<1>9. h[0] = table /\ h[n] = ManifestsAdded(table, manifests)
  BY <1>5, <1>7 DEF StepByStep
<1> QED BY <1>7, <1>8, <1>9 DEF n, AddsManifests

\* Whatever a manifest declares is listed, and what was listed stays listed.
LEMMA ManifestsOK ==
  ASSUME NEW t, TableOK(t), NEW manifests \in Seq(Manifest)
  PROVE  LET r == ManifestsAdded(t, manifests)
         IN /\ \A i \in DOMAIN manifests : \A e \in ToSet(ParseManifest(manifests[i]).entries) :
                  Listed(r, <<ParseManifest(manifests[i]).ecosystem, e.name>>)
            /\ \A name : Listed(t, name) => Listed(r, name)
<1> DEFINE n == Len(manifests)
           r == ManifestsAdded(t, manifests)
           Told3(v, i) == \A e \in ToSet(ParseManifest(manifests[i]).entries) :
                            Listed(v, <<ParseManifest(manifests[i]).ecosystem, e.name>>)
<1>1. n \in Nat /\ DOMAIN manifests = 1..n /\ \A k \in 1..n : manifests[k] \in Manifest
  OBVIOUS
<1>2. t \in Table
  BY DEF TableOK
<1>3. PICK h \in [0..n -> Table] :
        /\ h[0] = t /\ h[n] = r
        /\ \A k \in 1..n : h[k] = AddManifest(h[k - 1], manifests[k])
  BY <1>2, ManifestPrefixes DEF AddsManifests
<1> DEFINE T == {k \in 0..n : /\ TableOK(h[k]) /\ \A i \in 1..k : Told3(h[k], i)
                              /\ \A name : Listed(t, name) => Listed(h[k], name)}
<1> HIDE DEF n, r
<1>4. 0 \in T
  <2> HIDE DEF Told3
  <2> QED BY <1>1, <1>3, EmptyPrefix
<1>5. ASSUME NEW k \in 1..n, k - 1 \in T PROVE k \in T
  <2> DEFINE old == h[k - 1]
             new == h[k]
             m == manifests[k]
  <2>1. k \in 0..n /\ m \in Manifest
    BY <1>1
  <2>2. /\ TableOK(old) /\ \A i \in 1..(k - 1) : Told3(old, i)
        /\ \A name : Listed(t, name) => Listed(old, name)
    BY <1>5
  <2>3. new = AddManifest(old, m)
    BY <1>3
  <2>4. \A i \in 1..k : i # k => i \in 1..(k - 1)
    BY <1>1
  <2> HIDE DEF old, new, m, T
  <2>5. /\ TableOK(new)
        /\ \A e \in ToSet(ParseManifest(m).entries) : Listed(new, <<ParseManifest(m).ecosystem, e.name>>)
        /\ \A name : Listed(old, name) => Listed(new, name)
    BY <2>1, <2>2, <2>3, AddManifestOK
  <2>6. Told3(new, k)
    BY <2>5 DEF m
  <2>7. \A i \in 1..(k - 1) : Told3(new, i)
    BY <2>2, <2>5
  <2>8. \A name : Listed(t, name) => Listed(new, name)
    BY <2>2, <2>5
  <2> HIDE DEF Told3
  <2> QED BY <2>1, <2>4, <2>5, <2>6, <2>7, <2>8 DEF T, new
<1>6. n \in T
  <2>1. \A k \in 1..n : k - 1 \in T => k \in T
    BY <1>5
  <2>2. n \in 0..n
    BY <1>1
  <2> HIDE DEF T
  <2> QED BY <1>1, <1>4, <2>1, <2>2, PrefixInduction
<1> QED BY <1>1, <1>3, <1>6 DEF r

\* An entry is appended unless it is there.
LEMMA NamesConcat ==
  ASSUME NEW a \in Seq(Entries), NEW e \in Entries
  PROVE  AddDependencyEntry(a, e) \in Seq(Entries)
         /\ ToSet(AddDependencyEntry(a, e)) = ToSet(a) \cup {e}
<1>1. Append(a, e) \in Seq(Entries) /\ ToSet(Append(a, e)) = ToSet(a) \cup {e}
  BY ToSetAppend
<1>2. CASE e \in ToSet(a)
  BY <1>2 DEF AddDependencyEntry
<1>3. CASE e \notin ToSet(a)
  BY <1>1, <1>3 DEF AddDependencyEntry
<1> QED BY <1>2, <1>3

\* The entries are taken one by one.
Takes(entries) ==
    \E h \in [0..Len(entries) -> Seq(Entries)] :
        /\ h[0] = <<>> /\ h[Len(entries)] = Distinct(entries)
        /\ \A k \in 1..Len(entries) : h[k] = AddDependencyEntry(h[k - 1], entries[k])

\* Entries are taken one by one (_add_dependency_entry).
LEMMA DistinctPrefixes ==
  ASSUME NEW entries \in Seq(Entries)
  PROVE  Takes(entries)
<1> DEFINE n == Len(entries)
           X == Seq(Entries)
           step == [k \in 1..n |-> [x \in X |-> AddDependencyEntry(x, entries[k])]]
           Eq(f) == f = [s \in SUBSET DOMAIN entries |->
                           IF s = {} THEN <<>> ELSE AddDependencyEntry(f[s \ {Max(s)}], entries[Max(s)])]
           it == CHOOSE f : Eq(f)
<1>1. n \in Nat /\ DOMAIN entries = 1..n /\ \A k \in 1..n : entries[k] \in Entries
  OBVIOUS
<1>2. <<>> \in X
  OBVIOUS
<1>3. \A k \in 1..n, x \in X : AddDependencyEntry(x, entries[k]) \in X
  BY <1>1, NamesConcat
<1>4. /\ step \in [1..n -> [X -> X]]
      /\ \A k \in 1..n, x \in X : step[k][x] = AddDependencyEntry(x, entries[k])
  BY <1>3
<1>5. Distinct(entries) = it[1..n]
  BY <1>1 DEF Distinct, FoldLeft, MapThenFoldSet
<1>6. FoldsIn(it, n, X, <<>>, step)
  <2> HIDE DEF step, n, X
  <2>1. PICK g \in [SUBSET (1..n) -> X] : IsFold(g, n, <<>>, step)
    BY <1>1, <1>2, <1>4, FoldExists
  <2>2. Eq(g)
    BY <1>1, <1>4, <2>1, MaxIn DEF IsFold
  <2>3. Eq(it)
    <3> HIDE DEF Eq
    <3> QED BY <2>2
  <2> HIDE DEF it
  <2>4. \A s \in SUBSET (1..n) : it[s] = IF s = {} THEN <<>> ELSE AddDependencyEntry(it[s \ {Max(s)}], entries[Max(s)])
    BY <1>1, <2>3
  <2>5. \A s \in SUBSET (1..n) : s # {} => Max(s) \in 1..n
    BY <1>1, MaxIn
  <2> QED BY <1>4, <2>4, <2>5 DEF FoldsIn
<1> HIDE DEF it, step, n, X
<1>7. PICK h \in [0..n -> X] : StepByStep(h, n, <<>>, step) /\ h[n] = it[1..n]
  <2>1. n \in Nat /\ step \in [1..n -> [X -> X]]
    BY <1>1, <1>2, <1>4, <1>6
  <2>2. <<>> \in X
    BY <1>1, <1>2, <1>4, <1>6
  <2>3. FoldsIn(it, n, X, <<>>, step)
    BY <1>6
  <2>4. Unrolls(it, n, X, <<>>, step)
    BY <2>1, <2>2, <2>3, FoldPrefixes
  <2> QED BY <2>4 DEF Unrolls
<1>8. \A k \in 1..n : h[k] = AddDependencyEntry(h[k - 1], entries[k])
  <2> TAKE k \in 1..n
  <2>1. k - 1 \in 0..n
    BY <1>1
  <2> QED BY <1>4, <1>7, <2>1 DEF StepByStep
<1>9. h[0] = <<>> /\ h[n] = Distinct(entries)
  BY <1>5, <1>7 DEF StepByStep
<1> QED BY <1>7, <1>8, <1>9 DEF n, X, Takes

\* A list without repeated entries has the names of the whole list.
LEMMA DistinctOK ==
  ASSUME NEW entries \in Seq(Entries)
  PROVE  Distinct(entries) \in Seq(Entries) /\ Names(Distinct(entries)) = Names(entries)
<1> DEFINE n == Len(entries)
<1>1. n \in Nat /\ DOMAIN entries = 1..n /\ \A k \in 1..n : entries[k] \in Entries
  OBVIOUS
<1>2. PICK h \in [0..n -> Seq(Entries)] :
        /\ h[0] = <<>> /\ h[n] = Distinct(entries)
        /\ \A k \in 1..n : h[k] = AddDependencyEntry(h[k - 1], entries[k])
  BY DistinctPrefixes DEF Takes
<1> DEFINE T == {k \in 0..n : ToSet(h[k]) = {entries[i] : i \in 1..k}}
<1> HIDE DEF n
<1>3. 0 \in T
  <2>1. ToSet(<<>>) = {}
    BY DEF ToSet
  <2> QED BY <1>1, <1>2, <2>1, EmptyPrefix
<1>4. ASSUME NEW k \in 1..n, k - 1 \in T PROVE k \in T
  <2>1. k \in 0..n /\ k - 1 \in 0..n /\ h[k - 1] \in Seq(Entries)
    BY <1>1
  <2>2. ToSet(h[k]) = ToSet(h[k - 1]) \cup {entries[k]}
    BY <1>1, <1>2, <2>1, NamesConcat
  <2>3. \A i : i \in 1..k <=> i \in 1..(k - 1) \/ i = k
    BY <1>1
  <2>4. {entries[i] : i \in 1..k} = {entries[i] : i \in 1..(k - 1)} \cup {entries[k]}
    BY <2>3
  <2>5. ToSet(h[k - 1]) = {entries[i] : i \in 1..(k - 1)}
    BY <1>4
  <2>6. ToSet(h[k]) = {entries[i] : i \in 1..k}
    BY <2>2, <2>4, <2>5
  <2> QED BY <2>1, <2>6
<1>5. n \in T
  <2>1. \A k \in 1..n : k - 1 \in T => k \in T
    BY <1>4
  <2>2. n \in 0..n
    BY <1>1
  <2> HIDE DEF T
  <2> QED BY <1>1, <1>3, <2>1, <2>2, PrefixInduction
<1>6. ToSet(Distinct(entries)) = ToSet(entries)
  BY <1>1, <1>2, <1>5 DEF ToSet
<1>7. Distinct(entries) \in Seq(Entries)
  <2>1. n \in 0..n
    BY <1>1
  <2> QED BY <1>2, <2>1
<1> QED BY <1>6, <1>7 DEF Names

\* The result of a parser is typed.
LEMMA ResultOK ==
  ASSUME NEW all, NEW direct \in Seq(Entries), NEW transitive \in Seq(Entries)
  PROVE  LET r == ParseResult(all, direct, transitive)
         IN /\ r.directEntries \in Seq(Entries) /\ r.transitiveEntries \in Seq(Entries)
            /\ r.direct = Names(r.directEntries)
BY DistinctOK DEF ParseResult

\* So are entries with pinned versions.
LEMMA PinnedTyped ==
  ASSUME NEW entries \in Seq(Entries)
  PROVE  WithVersions(PinnedVersion, entries) \in Seq(Entries)
<1> DEFINE a == [i \in DOMAIN entries |-> [entries[i] EXCEPT !.version = PinnedVersion(@)]]
<1>1. \A v \in Versions : PinnedVersion(v) \in Versions
  BY DEF PinnedVersion, NoVersion, Versions, ExactVersions
<1>2. \A e \in Entries : [e EXCEPT !.version = PinnedVersion(@)] \in Entries
  BY <1>1 DEF Entries
<1>3. DOMAIN entries = 1..Len(entries) /\ Len(entries) \in Nat /\ \A i \in DOMAIN entries : entries[i] \in Entries
  OBVIOUS
<1>4. a \in [1..Len(entries) -> Entries]
  BY <1>2, <1>3
<1>5. WithVersions(PinnedVersion, entries) = a
  BY DEF WithVersions
<1> HIDE DEF a
<1> QED BY <1>3, <1>4, <1>5, FunctionIsSequence

\* So is what any of the eight parsers returns (parsers.py).
LEMMA ParsedFileOK ==
  ASSUME NEW kind \in LockfileKinds, NEW lock \in Lockfile, NEW m \in Manifest
  PROVE  ParsedOK(ParseLockfile(kind, lock, m))
<1> DEFINE OK(r) == /\ r.directEntries \in Seq(Entries) /\ r.transitiveEntries \in Seq(Entries)
                    /\ r.direct = Names(r.directEntries)
<1>1. lock.root \in Seq(Entries) /\ lock.packages \in Seq(Entries) /\ <<>> \in Seq(Entries)
  <2>1. <<>> \in Seq(Entries)
    OBVIOUS
  <2> QED BY <2>1 DEF Lockfile
<1>2. \A name : Declared(m, name) \in Seq(Entries)
  <2>1. m.declared \in Seq(Entries) /\ m.optional \in Seq(Entries)
    BY DEF Manifest
  <2>2. m.declared \o m.optional \in Seq(Entries)
    BY <2>1, ToSetConcat
  <2> QED BY <1>1, <2>2 DEF Declared
<1>3. \A a, b \in Seq(Entries) : a \o b \in Seq(Entries)
  BY ToSetConcat
<1>4. \A all : \A a, b \in Seq(Entries) : OK(ParseResult(all, a, b))
  BY ResultOK
<1>5. OK(NothingParsed)
  BY <1>1, <1>4 DEF NothingParsed
<1>6. WithVersions(PinnedVersion, Declared(m, "pyproject.toml")) \in Seq(Entries)
      /\ WithVersions(PinnedVersion, lock.packages) \in Seq(Entries)
  BY <1>1, <1>2, PinnedTyped
<1> HIDE DEF OK
<1>7. OK(ParsePackageLock(lock, m))
  BY <1>1, <1>3, <1>4, <1>5 DEF ParsePackageLock
<1>8. OK(ParseYarnLock(lock, m))
  BY <1>1, <1>2, <1>3, <1>4 DEF ParseYarnLock
<1>9. OK(ParsePnpmLock(lock, m)) /\ OK(ParseBunLock(lock, m))
  BY <1>1, <1>2, <1>3, <1>4, <1>5 DEF ParsePnpmLock, ParseBunLock
<1>10. OK(ParseUvLock(lock, m))
  BY <1>1, <1>3, <1>4, <1>6 DEF ParseUvLock
<1>11. OK(ParseRequirements(lock, m))
  BY <1>1, <1>4, <1>6 DEF ParseRequirements
<1>12. OK(ParseCargoLock(lock, m))
  BY <1>1, <1>2, <1>3, <1>4, <1>5 DEF ParseCargoLock
<1>13. OK(ParseGoMod(lock, m))
  BY <1>1, <1>3, <1>4, <1>5 DEF ParseGoMod
<1>14. OK(Parsed(kind, lock, m))
  BY <1>7, <1>8, <1>9, <1>10, <1>11, <1>12, <1>13 DEF Parsed, LockfileKinds, JsLockfiles
<1>15. EcosystemOf(kind) \in Ecosystems
  BY DEF EcosystemOf, LockfileKinds, JsLockfiles, Ecosystems
<1> QED BY <1>14, <1>15 DEF OK, ParseLockfile, ParsedOK

\* The parts of an inventory.
LEMMA InventoryIs ==
  ASSUME NEW files, NEW manifests
  PROVE  /\ files = <<>> => Inventory(files, manifests).kinds = [k \in ManifestRows(manifests) |-> "direct"]
         /\ files # <<>> => Inventory(files, manifests).kinds
                               = ManifestsAdded(AddLockfiles(files), manifests).kinds
         /\ Inventory(files, manifests) =
               [kinds |-> Inventory(files, manifests).kinds,
                transitive |-> Named(files, "transitive") \ Named(files, "direct")]
BY DEF Inventory, ManifestsAdded

\* The elements of a sequence, and when there are none.
LEMMA FilesAre ==
  ASSUME NEW S, NEW files \in Seq(S)
  PROVE  /\ Len(files) \in Nat /\ DOMAIN files = 1..Len(files)
         /\ files = <<>> <=> Len(files) = 0
         /\ \A p : p \in ToSet(files) <=> \E i \in 1..Len(files) : p = files[i]
         /\ files = <<>> <=> ToSet(files) = {}
<1>1. /\ Len(files) \in Nat /\ DOMAIN files = 1..Len(files)
      /\ files = <<>> <=> Len(files) = 0
  OBVIOUS
<1>2. \A p : p \in ToSet(files) <=> \E i \in 1..Len(files) : p = files[i]
  BY <1>1 DEF ToSet
<1>3. Len(files) # 0 => 1 \in 1..Len(files)
  BY <1>1
<1> QED BY <1>1, <1>2, <1>3

\* What lockfiles or manifests declare is listed as direct.
LEMMA InventoryLists ==
  ASSUME NEW S, NEW files \in Seq(S), \A p \in ToSet(files) : ParsedOK(p),
         NEW manifests \in Seq(Manifest),
         NEW name \in Named(files, "direct") \cup {<<k[1], k[2]>> : k \in ManifestRows(manifests)}
  PROVE  Listed(Inventory(files, manifests), name)
<1> DEFINE D == Named(files, "direct")
           R == AllRows(files)
           inv == Inventory(files, manifests)
           t == AddLockfiles(files)
<1>1. /\ Len(files) \in Nat /\ DOMAIN files = 1..Len(files)
      /\ \A p : p \in ToSet(files) <=> \E i \in 1..Len(files) : p = files[i]
      /\ files = <<>> <=> ToSet(files) = {}
  BY FilesAre
<1>2. CASE files = <<>>
  <2>1. D = {}
    BY <1>1, <1>2 DEF Named
  <2>2. PICK k \in ManifestRows(manifests) : name = <<k[1], k[2]>>
    BY <2>1
  <2>3. inv.kinds = [x \in ManifestRows(manifests) |-> "direct"]
    BY <1>2, InventoryIs
  <2> HIDE DEF inv
  <2>4. k \in DOMAIN inv.kinds /\ inv.kinds[k] = "direct"
    BY <2>3
  <2> QED BY <2>2, <2>4 DEF Listed, inv
<1>3. CASE files # <<>>
  <2>1. \A i \in 1..Len(files) : ParsedOK(files[i])
    BY <1>1
  <2>2. R \in SUBSET Row /\ t = TableOf(D, R)
    BY <1>1, <2>1, LockfilesRows
  <2>3. TableOK(t) /\ \A k \in R : <<k[1], k[2]>> \in D => Listed(t, <<k[1], k[2]>>)
    <3> HIDE DEF D, R, t
    <3> QED BY <2>2, TableOfOK
  <2> DEFINE r == ManifestsAdded(t, manifests)
  <2>4. /\ \A i \in DOMAIN manifests : \A e \in ToSet(ParseManifest(manifests[i]).entries) :
                  Listed(r, <<ParseManifest(manifests[i]).ecosystem, e.name>>)
        /\ \A m : Listed(t, m) => Listed(r, m)
    <3> HIDE DEF t
    <3> QED BY <2>3, ManifestsOK
  <2>5. inv.kinds = r.kinds
    BY <1>3, InventoryIs
  <2>6. CASE name \in D
    <3>0. PICK p \in ToSet(files) : \E m \in p.result.direct : name = <<p.ecosystem, m>>
      BY <2>6 DEF Named
    <3>1. PICK m \in p.result.direct : name = <<p.ecosystem, m>>
      BY <3>0
    <3>2. ParsedOK(p)
      OBVIOUS
    <3>3. PICK e \in ToSet(p.result.directEntries) : m = e.name
      BY <3>2 DEF ParsedOK, Names
    <3> DEFINE k == RowOf(p.ecosystem, e)
    <3>4. k \in R
          <4>1. k \in RowsOf(p.ecosystem, p.result.directEntries)
        BY DEF RowsOf
      <4>2. k \in LockRows(p)
        BY <4>1 DEF LockRows
      <4> HIDE DEF k
      <4> QED BY <4>2 DEF AllRows
    <3>5. p.ecosystem \in Ecosystems /\ e \in Entries
      BY <3>2 DEF ParsedOK, ToSet
    <3>6. <<k[1], k[2]>> = name
      BY <3>1, <3>3, <3>5, RowIs
    <3> HIDE DEF k, R, D, t, r
    <3>7. Listed(t, name)
      BY <2>3, <2>6, <3>4, <3>6
    <3>8. Listed(r, name)
      BY <2>4, <3>7
    <3> QED BY <2>5, <3>8 DEF Listed
  <2>7. CASE name \notin D
    <3>1. PICK k \in ManifestRows(manifests) : name = <<k[1], k[2]>>
      BY <2>7
    <3>7. PICK x \in ToSet(manifests) : \E e \in ToSet(ParseManifest(x).entries) :
             k = <<ParseManifest(x).ecosystem, e.name, e.version>>
      BY DEF ManifestRows
    <3>2. PICK e \in ToSet(ParseManifest(x).entries) :
             k = <<ParseManifest(x).ecosystem, e.name, e.version>>
      BY <3>7
    <3>3. PICK i \in DOMAIN manifests : x = manifests[i]
      BY DEF ToSet
    <3>4. Listed(r, <<ParseManifest(x).ecosystem, e.name>>)
      BY <2>4, <3>3
    <3>5. name = <<ParseManifest(x).ecosystem, e.name>>
      BY <3>1, <3>2
    <3> HIDE DEF r, inv
    <3>6. Listed(r, name)
      BY <3>4, <3>5
    <3> QED BY <2>5, <3>6 DEF Listed, inv
  <2> QED BY <2>6, <2>7
<1> QED BY <1>2, <1>3

\* The order the lockfiles are parsed in does not matter.
LEMMA InventoryOfSet ==
  ASSUME NEW S, NEW a \in Seq(S), NEW b \in Seq(S), ToSet(a) = ToSet(b),
         \A p \in ToSet(a) : ParsedOK(p), NEW manifests
  PROVE  Inventory(a, manifests) = Inventory(b, manifests)
<1>1. /\ Len(a) \in Nat /\ DOMAIN a = 1..Len(a)
      /\ \A p : p \in ToSet(a) <=> \E i \in 1..Len(a) : p = a[i]
      /\ a = <<>> <=> ToSet(a) = {}
  BY FilesAre
<1>2. /\ Len(b) \in Nat /\ DOMAIN b = 1..Len(b)
      /\ \A p : p \in ToSet(b) <=> \E i \in 1..Len(b) : p = b[i]
      /\ b = <<>> <=> ToSet(b) = {}
  BY FilesAre
<1>3. /\ Named(a, "direct") = Named(b, "direct") /\ Named(a, "transitive") = Named(b, "transitive")
      /\ AllRows(a) = AllRows(b)
  BY DEF Named, AllRows
<1>4. AddLockfiles(a) = TableOf(Named(a, "direct"), AllRows(a))
  BY <1>1, LockfilesRows
<1>5. AddLockfiles(b) = TableOf(Named(b, "direct"), AllRows(b))
  BY <1>2, LockfilesRows
<1>6. AddLockfiles(a) = AddLockfiles(b)
  BY <1>3, <1>4, <1>5
<1>7. ManifestsAdded(AddLockfiles(a), manifests) = ManifestsAdded(AddLockfiles(b), manifests)
  BY <1>6
<1>8. a = <<>> <=> b = <<>>
  BY <1>1, <1>2
<1>9. CASE a = <<>>
  <2>1. a = b
    BY <1>8, <1>9
  <2> QED BY <2>1
<1>10. CASE a # <<>>
  <2>4. b # <<>>
    BY <1>8, <1>10
  <2>5. Inventory(a, manifests).kinds = ManifestsAdded(AddLockfiles(a), manifests).kinds
    BY <1>10, InventoryIs
  <2>6. Inventory(b, manifests).kinds = ManifestsAdded(AddLockfiles(b), manifests).kinds
    BY <2>4, InventoryIs
  <2>1. Inventory(a, manifests).kinds = Inventory(b, manifests).kinds
    BY <1>7, <2>5, <2>6, Zenon
  <2>2. /\ Inventory(a, manifests) =
               [kinds |-> Inventory(a, manifests).kinds,
                transitive |-> Named(a, "transitive") \ Named(a, "direct")]
        /\ Inventory(b, manifests) =
               [kinds |-> Inventory(b, manifests).kinds,
                transitive |-> Named(b, "transitive") \ Named(b, "direct")]
    BY InventoryIs, Zenon
  <2> QED BY <1>3, <2>1, <2>2, Zenon
<1> QED BY <1>9, <1>10

-----------------------------------------------------------------------------
(* The scan over the checkout (DependencyScan).                            *)

\* A scan reads the directories of its checkout and the lockfiles that are there,
\* and goes on with what those and the manifests come to.
Collected ==
    parsed \in Seq(Lockfiles) /\ inventory = Inventory(ParsedIn(parsed), Manifests)

Gathered ==
    /\ Checkout(dirs)
    /\ generating \subseteq {d \in Dirs : HasManifest(d)}
    /\ generated \subseteq {f \in Dirs \X LockfileKinds : HasLock(f[1], f[2])}
    /\ phase = "scan" => Collected
    /\ phase = "done" /\ ~result.raised => Collected \/ (parsed = <<>> /\ dirs = <<>>)

\* The lockfile a generator is responsible for is of a known kind.
LEMMA LockfileIsKind ==
  ASSUME NEW dir, Directory(dir), dir.manifest.name # "none"
  PROVE  LockfileOf(dir) \in LockfileKinds
<1> DEFINE order == <<"yarn.lock", "pnpm-lock.yaml", "bun.lock", "package-lock.json">>
           there == {i \in DOMAIN order : order[i] \in DOMAIN dir.locks}
<1>1. dir.manifest.name \in {"package.json", "pyproject.toml", "Cargo.toml"}
  BY DEF Directory, Manifest
<1>2. DOMAIN dir.locks \subseteq LockfileKinds
  BY DEF Directory
<1>3. dir.manifest.name = "package.json" => DetectPackageManager(dir) \in LockfileKinds
  <2>1. CASE there = {}
    BY <2>1 DEF DetectPackageManager, Directory, LockfileKinds
  <2>2. CASE there # {}
    <3>1. there \in SUBSET Nat
      OBVIOUS
    <3>2. \A i \in there : order[i] \in LockfileKinds
      BY <1>2
    <3>3. DetectPackageManager(dir) = order[Min(there)]
      BY <2>2 DEF DetectPackageManager
    <3> HIDE DEF there
    <3>4. PICK x \in there : \A y \in there : x <= y
      BY <2>2, <3>1, LeastNatural
    <3>5. Min(there) \in there
      BY <3>4 DEF Min
    <3> HIDE DEF order
    <3> QED BY <3>2, <3>3, <3>5
  <2> QED BY <2>1, <2>2
<1> QED BY <1>1, <1>3 DEF LockfileOf, LockfileKinds

\* The directories of a checkout.
LEMMA DirsAre ==
  ASSUME NEW c, Checkout(c)
  PROVE  Len(c) \in Nat /\ DOMAIN c = 1..Len(c) /\ \A i \in DOMAIN c : Directory(c[i])
BY DEF Checkout

\* Lockfiles are finitely many, and parsed to typed results.
LEMMA LockfilesAre ==
  ASSUME Gathered
  PROVE  /\ IsFiniteSet(Lockfiles)
         /\ \A f \in Lockfiles : ParsedOK(ParsedFile(f))
         /\ Manifests \in Seq(Manifest)
<1>1. /\ Len(dirs) \in Nat /\ Dirs = 1..Len(dirs)
      /\ \A d \in Dirs : Directory(dirs[d])
  BY DirsAre DEF Gathered, Dirs
<1>2. Lockfiles \in SUBSET (Dirs \X LockfileKinds)
      /\ \A f \in Lockfiles : HasLock(f[1], f[2])
  BY DEF Lockfiles, Gathered
<1>3. IsFiniteSet(Lockfiles)
  <2>1. IsFiniteSet(Dirs)
    BY <1>1, FS_Interval
  <2>2. IsFiniteSet(LockfileKinds)
    <3> DEFINE kinds == {"package-lock.json", "yarn.lock", "pnpm-lock.yaml", "bun.lock", "uv.lock",
                         "requirements.txt", "Cargo.lock", "go.mod"}
               names == <<"package-lock.json", "yarn.lock", "pnpm-lock.yaml", "bun.lock", "uv.lock",
                          "requirements.txt", "Cargo.lock", "go.mod">>
    <3>1. names \in Seq(kinds)
      OBVIOUS
    <3>2. ToSet(names) = kinds
      <4>1. DOMAIN names = 1..8
        OBVIOUS
      <4>2. \A k : k \in kinds => \E i \in 1..8 : names[i] = k
        OBVIOUS
      <4>3. \A i \in 1..8 : names[i] \in kinds
        OBVIOUS
      <4> HIDE DEF names, kinds
      <4> QED BY <4>1, <4>2, <4>3 DEF ToSet
    <3>3. kinds = LockfileKinds
      BY DEF LockfileKinds, JsLockfiles
    <3> HIDE DEF names, kinds
    <3> QED BY <3>1, <3>2, <3>3, FiniteElements
  <2>3. IsFiniteSet(Dirs \X LockfileKinds)
    BY <2>1, <2>2, FS_Product
  <2> QED BY <1>2, <2>3, FS_Subset
<1>4. ASSUME NEW f \in Lockfiles
      PROVE  ParsedOK(ParsedFile(f))
  <2> DEFINE dir == dirs[f[1]]
             lock == dir.locks[f[2]]
  <2>1. f[1] \in Dirs /\ f[2] \in LockfileKinds /\ f[2] \in DOMAIN dir.locks
    BY <1>2 DEF HasLock
  <2>2. Directory(dir)
    BY <1>1, <2>1
  <2> HIDE DEF dir
  <2>3. lock \in Lockfile /\ dir.manifest \in Manifest
    BY <2>1, <2>2 DEF Directory
  <2> HIDE DEF lock
  <2>4. ParsedOK(ParseLockfile(f[2], lock, dir.manifest))
    BY <2>1, <2>3, ParsedFileOK
  <2> QED BY <2>4 DEF ParsedFile, lock, dir
<1>5. Manifests \in Seq(Manifest)
  <2>1. \A d \in 1..Len(dirs) : dirs[d].manifest \in Manifest
    BY <1>1 DEF Directory
  <2>2. Manifests \in [1..Len(dirs) -> Manifest]
    BY <1>1, <2>1 DEF Manifests
  <2> QED BY <1>1, <2>2, FunctionIsSequence
<1> QED BY <1>3, <1>4, <1>5

\* What an order of lockfiles is parsed to.
LEMMA ParsedInIs ==
  ASSUME Gathered, NEW order \in Seq(Lockfiles)
  PROVE  LET files == {ParsedFile(f) : f \in Lockfiles}
         IN /\ ParsedIn(order) \in Seq(files)
            /\ ToSet(ParsedIn(order)) = {ParsedFile(f) : f \in ToSet(order)}
            /\ \A p \in ToSet(ParsedIn(order)) : ParsedOK(p)
<1> DEFINE files == {ParsedFile(f) : f \in Lockfiles}
           read == [i \in DOMAIN order |-> ParsedFile(order[i])]
<1>1. Len(order) \in Nat /\ DOMAIN order = 1..Len(order) /\ \A i \in 1..Len(order) : order[i] \in Lockfiles
  OBVIOUS
<1>2. read \in [1..Len(order) -> files]
  BY <1>1
<1>3. read \in Seq(files)
  <2> HIDE DEF read, files
  <2> QED BY <1>1, <1>2, FunctionIsSequence
<1>4. \A p : p \in ToSet(read) <=> \E i \in 1..Len(order) : p = ParsedFile(order[i])
  BY <1>1 DEF ToSet
<1>5. \A f : f \in ToSet(order) <=> \E i \in 1..Len(order) : f = order[i]
  BY <1>1 DEF ToSet
<1>6. ParsedIn(order) = read
  BY DEF ParsedIn
<1> HIDE DEF read
<1>7. ToSet(read) = {ParsedFile(f) : f \in ToSet(order)}
  <2>1. \A p : p \in ToSet(read) <=> \E f \in ToSet(order) : p = ParsedFile(f)
    BY <1>4, <1>5
  <2> QED BY <2>1
<1>8. \A p \in ToSet(read) : ParsedOK(p)
  BY <1>1, <1>4, LockfilesAre
<1> QED BY <1>3, <1>6, <1>7, <1>8

\* A lockfile left behind keeps the checkout typed and removes nothing.
LEMMA LeavesOK ==
  ASSUME Gathered, NEW d \in generating, NEW lock \in Lockfile, LeavesLockfile(d, lock)
  PROVE  /\ Checkout(dirs') /\ DOMAIN dirs' = Dirs /\ LockfileOf(dirs[d]) \in LockfileKinds
         /\ \A x \in Dirs : /\ dirs'[x].manifest = dirs[x].manifest
                            /\ DOMAIN dirs[x].locks \subseteq DOMAIN dirs'[x].locks
         /\ LockfileOf(dirs[d]) \in DOMAIN dirs'[d].locks
<1> DEFINE kind == LockfileOf(dirs[d])
           locks == [k \in DOMAIN dirs[d].locks \cup {kind} |-> IF k = kind THEN lock ELSE dirs[d].locks[k]]
           dir == [dirs[d] EXCEPT !.locks = locks]
<1>1. /\ Len(dirs) \in Nat /\ Dirs = 1..Len(dirs) /\ DOMAIN dirs = Dirs
      /\ \A x \in Dirs : Directory(dirs[x])
  BY DirsAre DEF Gathered, Dirs
<1>2. d \in Dirs /\ dirs[d].manifest.name # "none"
  BY DEF Gathered, HasManifest
<1>3. kind \in LockfileKinds
  BY <1>1, <1>2, LockfileIsKind
<1>4. dirs' = [dirs EXCEPT ![d] = dir]
  BY DEF LeavesLockfile
<1>5. /\ dirs[d] = [manifest |-> dirs[d].manifest, manager |-> dirs[d].manager,
                    locks |-> dirs[d].locks, makes |-> dirs[d].makes]
      /\ dirs[d].locks \in [DOMAIN dirs[d].locks -> Lockfile] /\ DOMAIN dirs[d].locks \subseteq LockfileKinds
  BY <1>1, <1>2 DEF Directory
<1> HIDE DEF kind
<1>6. DOMAIN locks = DOMAIN dirs[d].locks \cup {kind} /\ locks \in [DOMAIN locks -> Lockfile]
  BY <1>5
<1> HIDE DEF locks
<1>7. /\ dir = [manifest |-> dirs[d].manifest, manager |-> dirs[d].manager,
                locks |-> locks, makes |-> dirs[d].makes]
  BY <1>5
<1> HIDE DEF dir
<1>8. /\ dir.manifest = dirs[d].manifest /\ dir.manager = dirs[d].manager
      /\ dir.locks = locks /\ dir.makes = dirs[d].makes
  BY <1>7
<1>9. Directory(dir)
  <2>1. Directory(dirs[d])
    BY <1>1, <1>2
  <2>2. DOMAIN locks \subseteq LockfileKinds
    BY <1>3, <1>5, <1>6
  <2> QED BY <1>6, <1>7, <1>8, <2>1, <2>2 DEF Directory
<1>10. /\ DOMAIN dirs' = Dirs
       /\ \A x \in Dirs : dirs'[x] = IF x = d THEN dir ELSE dirs[x]
  BY <1>1, <1>4
<1>11. Checkout(dirs')
  <2>1. dirs' \in [1..Len(dirs) -> ToSet(dirs')]
    <3>1. dirs' = [x \in Dirs |-> dirs'[x]]
      BY <1>1, <1>4
    <3>2. \A x \in Dirs : dirs'[x] \in ToSet(dirs')
      BY <1>10 DEF ToSet
    <3> QED BY <1>1, <3>1, <3>2
  <2>2. dirs' \in Seq(ToSet(dirs'))
    BY <1>1, <2>1, FunctionIsSequence
  <2> QED BY <1>1, <1>9, <1>10, <2>2 DEF Checkout
<1> QED BY <1>2, <1>3, <1>6, <1>8, <1>10, <1>11 DEF kind

\* The end of a generator keeps the facts.
LEMMA EndGenerateOK ==
  ASSUME Gathered, NEW d \in generating, NEW made, phase = "generate", EndGenerate(d, made),
         Checkout(dirs'), DOMAIN dirs' = Dirs,
         \A x \in Dirs : /\ dirs'[x].manifest = dirs[x].manifest
                         /\ DOMAIN dirs[x].locks \subseteq DOMAIN dirs'[x].locks,
         \A f \in made : f \in Dirs \X LockfileKinds /\ f[2] \in DOMAIN dirs'[f[1]].locks
  PROVE  Gathered'
<1>1. /\ generating' = generating \ {d} /\ generated' = generated \cup made
      /\ phase' = "generate" /\ result' = result
  BY DEF EndGenerate
<1>2. Dirs' = Dirs
  BY DEF Dirs
<1>3. generating' \subseteq {x \in Dirs' : HasManifest(x)'}
  BY <1>1, <1>2 DEF Gathered, HasManifest
<1>4. generated' \subseteq {f \in Dirs' \X LockfileKinds : HasLock(f[1], f[2])'}
  <2>1. ASSUME NEW f \in generated'
        PROVE  f \in Dirs \X LockfileKinds /\ f[2] \in DOMAIN dirs'[f[1]].locks
    <3>1. CASE f \in generated
      BY <3>1 DEF Gathered, HasLock
    <3>2. CASE f \in made
      BY <3>2
    <3> QED BY <1>1, <2>1, <3>1, <3>2
  <2> QED BY <1>2, <2>1 DEF HasLock
<1> QED BY <1>1, <1>3, <1>4 DEF Gathered

\* So does a step that leaves the files and what was parsed alone.
LEMMA KeepsGathered ==
  ASSUME Gathered, UNCHANGED <<dirs, generating, generated, parsed, inventory>>,
         phase' = "scan" => phase = "scan",
         phase' = "done" /\ ~result'.raised => phase = "scan" \/ (phase = "done" /\ ~result.raised)
  PROVE  Gathered'
<1>1. Collected' = Collected
  BY DEF Collected, Lockfiles, ParsedIn, ParsedFile, Manifests, Dirs, HasLock
<1>2. Dirs' = Dirs /\ \A d : HasManifest(d)' = HasManifest(d) /\ \A k : HasLock(d, k)' = HasLock(d, k)
  BY DEF Dirs, HasManifest, HasLock
<1> QED BY <1>1, <1>2 DEF Gathered

\* So does every step of the assessment.
LEMMA GatheredStep ==
  ASSUME world \in Worlds, Assessing, Gathered, [Next]_vars
  PROVE  Gathered'
<1>1. CASE UNCHANGED <<dirs, generating, generated, parsed, inventory, phase, result>>
  BY <1>1, KeepsGathered
<1>2. CASE UseGivenPath \/ CloneRepository
  <2>1. assessment.stage = "clone" /\ DependencyStart(world.checkout)
    BY <1>2 DEF UseGivenPath, CloneRepository
  <2>2. DependencyInit
    BY <2>1 DEF Assessing
  <2>3. /\ dirs' = world.checkout /\ phase' = "generate" /\ generated' = {}
        /\ generating' = {d \in DOMAIN world.checkout : world.checkout[d].manifest.name # "none"}
    BY <2>1, <2>2 DEF DependencyStart, DependencyInit
  <2> QED BY <2>3, WorldsAssumption DEF Gathered, Dirs, HasManifest
<1>3. CASE UseNoRepository
  <2>1. assessment.stage = "clone" /\ NoCheckout
    BY <1>3 DEF UseNoRepository
  <2>2. DependencyInit
    BY <2>1 DEF Assessing
  <2>3. /\ dirs' = dirs /\ generating' = generating /\ generated' = generated /\ phase' = "done"
        /\ parsed' = <<>> /\ dirs = <<>> /\ generating = {} /\ generated = {}
    BY <2>1, <2>2 DEF NoCheckout, DependencyInit
  <2> QED BY <2>3 DEF Gathered
<1>4. CASE ScanDependencies
  <2>0. DependencyStep(world)
    BY <1>4 DEF ScanDependencies
  <2>1. ASSUME NEW d \in Dirs, KeepExistingLockfile(d)
        PROVE  Gathered'
    <3>1. /\ phase = "generate" /\ d \in generating /\ HasLock(d, LockfileOf(dirs[d])) /\ dirs' = dirs
          /\ EndGenerate(d, {<<d, LockfileOf(dirs[d])>>})
      BY <2>1 DEF KeepExistingLockfile
    <3>2. Checkout(dirs) /\ Directory(dirs[d]) /\ dirs[d].manifest.name # "none"
      BY <3>1, DirsAre DEF Gathered, Dirs, HasManifest
    <3>3. LockfileOf(dirs[d]) \in LockfileKinds
      BY <3>2, LockfileIsKind
    <3> DEFINE kind == LockfileOf(dirs[d])
    <3>4. DOMAIN dirs' = Dirs /\ kind \in DOMAIN dirs'[d].locks /\ kind \in LockfileKinds
      BY <3>1, <3>3 DEF Dirs, HasLock
    <3> HIDE DEF kind
    <3>5. \A f \in {<<d, kind>>} : f \in Dirs \X LockfileKinds /\ f[2] \in DOMAIN dirs'[f[1]].locks
      BY <3>4
    <3>6. EndGenerate(d, {<<d, kind>>})
      BY <3>1 DEF kind
    <3> QED BY <3>1, <3>2, <3>4, <3>5, <3>6, EndGenerateOK
  <2>2. ASSUME NEW d \in generating, phase = "generate", NEW lock \in Lockfile, LeavesLockfile(d, lock),
               NEW made, made = {} \/ made = {<<d, LockfileOf(dirs[d])>>}, EndGenerate(d, made)
        PROVE  Gathered'
    <3> DEFINE kind == LockfileOf(dirs[d])
    <3>1. /\ Checkout(dirs') /\ DOMAIN dirs' = Dirs /\ kind \in LockfileKinds
          /\ \A x \in Dirs : /\ dirs'[x].manifest = dirs[x].manifest
                             /\ DOMAIN dirs[x].locks \subseteq DOMAIN dirs'[x].locks
          /\ kind \in DOMAIN dirs'[d].locks
      BY <2>2, LeavesOK
    <3>2. d \in Dirs /\ (made = {} \/ made = {<<d, kind>>})
      BY <2>2 DEF Gathered
    <3> HIDE DEF kind
    <3>3. \A f \in made : f \in Dirs \X LockfileKinds /\ f[2] \in DOMAIN dirs'[f[1]].locks
      BY <3>1, <3>2
    <3> QED BY <2>2, <3>1, <3>3, EndGenerateOK
  <2>3. \A d \in generating : dirs[d].makes \in Lockfile /\ [dirs[d].makes EXCEPT !.state = "corrupt"] \in Lockfile
    <3> TAKE d \in generating
    <3>1. Directory(dirs[d])
      BY DirsAre DEF Gathered, Dirs
    <3>2. dirs[d].makes \in Lockfile
      BY <3>1 DEF Directory
    <3> QED BY <3>2 DEF Lockfile, FileStates
  <2>4. ASSUME NEW d \in Dirs, GenerateLockfile(d)
        PROVE  Gathered'
    BY <2>2, <2>3, <2>4 DEF GenerateLockfile
  <2>5. ASSUME NEW d \in Dirs, GenerateFails(d)
        PROVE  Gathered'
    <3>1. phase = "generate" /\ d \in generating /\ EndGenerate(d, {})
      BY <2>5 DEF GenerateFails
    <3>2. CASE UNCHANGED dirs
      <4>1. Checkout(dirs') /\ DOMAIN dirs' = Dirs
        BY <3>2 DEF Gathered, Dirs
      <4> QED BY <3>1, <3>2, <4>1, EndGenerateOK
    <3>3. CASE LeavesLockfile(d, [dirs[d].makes EXCEPT !.state = "corrupt"])
      BY <2>2, <2>3, <3>1, <3>3
    <3> QED BY <2>5, <3>2, <3>3 DEF GenerateFails
  <2>6. CASE CollectDependencies
    <3>1. UNCHANGED <<dirs, generating, generated>>
      BY <2>6 DEF CollectDependencies
    <3>2. Lockfiles' = Lockfiles /\ Manifests' = Manifests /\ Dirs' = Dirs
          /\ \A d : HasManifest(d)' = HasManifest(d) /\ \A k : HasLock(d, k)' = HasLock(d, k)
      BY <3>1 DEF Lockfiles, Manifests, Dirs, HasLock, HasManifest
    <3>3. CASE ParserRaises
      <4>1. phase' = "done" /\ result'.raised = TRUE
        BY <2>6, <3>3 DEF CollectDependencies, Raised, Fails, NoResult
      <4> QED BY <3>1, <3>2, <4>1 DEF Gathered
    <3>4. CASE ~ParserRaises
      <4>1. /\ parsed' \in SetToSeqs(Lockfiles) /\ phase' = "scan"
            /\ inventory' = Inventory(ParsedIn(parsed'), Manifests)
        BY <2>6, <3>4 DEF CollectDependencies
      <4>2. parsed' \in Seq(Lockfiles)
        BY <4>1, LockfilesAre, OrderCovers
      <4>3. ParsedIn(parsed') = ParsedIn(parsed)'
        BY <3>1 DEF ParsedIn, ParsedFile
      <4>4. Collected'
        BY <3>2, <4>1, <4>2, <4>3 DEF Collected
      <4> QED BY <3>1, <3>2, <4>1, <4>4 DEF Gathered
    <3> QED BY <3>3, <3>4
  <2>7. ASSUME NEW r, DepscanEnds(r) \/ OsvEnds(r)
        PROVE  Gathered'
    BY <2>7, <1>1 DEF DepscanEnds, OsvEnds
  <2>8. CASE NoScannerAnswered(world.listed) \/ MergeFindings(world.listed)
    <3>1. /\ phase = "scan" /\ phase' = "done"
          /\ UNCHANGED <<dirs, generating, generated, parsed, inventory>>
      BY <2>8 DEF NoScannerAnswered, MergeFindings, BothEnded, Fails, Raised
    <3> QED BY <3>1, KeepsGathered
  <2> QED BY <2>0, <2>1, <2>4, <2>5, <2>6, <2>7, <2>8 DEF DependencyStep
<1> QED BY <1>1, <1>2, <1>3, <1>4 DEF Next, Finished, vars, dependencyVars, CloneFails, QueryAdvisories,
          ExtractorsAnswer, ExtractorRaises, Evaluate

\* What was collected lists what is declared.
LEMMA CollectedLists ==
  ASSUME Gathered
  PROVE  DeclaredIsListed
<1> SUFFICES ASSUME phase \in {"scan", "done"}, ~result.raised,
                    NEW n \in Named(ParsedIn(parsed), "direct")
                              \cup {<<k[1], k[2]>> : k \in ManifestRows(Manifests)}
             PROVE  Listed(inventory, n)
  BY DEF DeclaredIsListed, Listed
<1>1. CASE Collected
  <2>1. /\ ParsedIn(parsed) \in Seq({ParsedFile(f) : f \in Lockfiles})
        /\ \A p \in ToSet(ParsedIn(parsed)) : ParsedOK(p)
    BY <1>1, ParsedInIs DEF Collected
  <2>2. Manifests \in Seq(Manifest)
    BY LockfilesAre
  <2>3. Listed(Inventory(ParsedIn(parsed), Manifests), n)
    BY <2>1, <2>2, InventoryLists
  <2> QED BY <1>1, <2>3 DEF Collected
<1>2. CASE parsed = <<>> /\ dirs = <<>>
  <2>1. DOMAIN ParsedIn(parsed) = {} /\ DOMAIN Manifests = {}
    BY <1>2 DEF ParsedIn, Manifests, Dirs
  <2>2. ToSet(ParsedIn(parsed)) = {} /\ ToSet(Manifests) = {}
    BY <2>1 DEF ToSet
  <2>3. Named(ParsedIn(parsed), "direct") = {} /\ ManifestRows(Manifests) = {}
    BY <2>2 DEF Named, ManifestRows
  <2> QED BY <2>3
<1> QED BY <1>1, <1>2 DEF Gathered

\* It would be the same in any other order.
LEMMA CollectedInAnyOrder ==
  ASSUME Gathered
  PROVE  OrderIsImmaterial
<1> SUFFICES ASSUME phase = "scan", NEW order \in SetToSeqs(ToSet(parsed))
             PROVE  Inventory(ParsedIn(order), Manifests) = inventory
  BY DEF OrderIsImmaterial
<1>1. parsed \in Seq(Lockfiles) /\ inventory = Inventory(ParsedIn(parsed), Manifests)
  BY DEF Gathered, Collected
<1>2. order \in Seq(ToSet(parsed)) /\ ToSet(order) = ToSet(parsed)
  BY <1>1, FiniteElements, OrderCovers
<1>3. ToSet(parsed) \subseteq Lockfiles
  BY <1>1 DEF ToSet
<1>4. order \in Seq(Lockfiles)
  BY <1>2, <1>3
<1> DEFINE files == {ParsedFile(f) : f \in Lockfiles}
           a == ParsedIn(order)
           b == ParsedIn(parsed)
<1>5. /\ a \in Seq(files) /\ ToSet(a) = {ParsedFile(f) : f \in ToSet(order)}
      /\ \A p \in ToSet(a) : ParsedOK(p)
  BY <1>4, ParsedInIs
<1>6. b \in Seq(files) /\ ToSet(b) = {ParsedFile(f) : f \in ToSet(parsed)}
  BY <1>1, ParsedInIs
<1>7. ToSet(a) = ToSet(b)
  BY <1>2, <1>5, <1>6
<1> HIDE DEF a, b, files
<1>8. Inventory(a, Manifests) = Inventory(b, Manifests)
  BY <1>5, <1>6, <1>7, InventoryOfSet
<1> QED BY <1>1, <1>8 DEF a, b

\* The facts hold before there is a checkout.
LEMMA GatheredAtFirst == Init => Gathered
<1> SUFFICES ASSUME Init PROVE Gathered
  OBVIOUS
<1>1. dirs = <<>> /\ phase = "none" /\ generating = {} /\ generated = {}
  BY DEF Init, DependencyInit
<1>2. <<>> \in Seq(ToSet(<<>>)) /\ DOMAIN <<>> = {}
  OBVIOUS
<1>3. Checkout(dirs)
  BY <1>1, <1>2 DEF Checkout
<1> QED BY <1>1, <1>3 DEF Gathered

\* A scan goes on with what the lockfiles and manifests of its checkout come to,
\* in every behaviour.
THEOREM GatheredHolds == Spec => []Gathered
<1>1. McpInvariant /\ Gathered /\ [Next]_vars => Gathered'
  BY GatheredStep DEF McpInvariant, OsvInvariant
<1> QED BY <1>1, GatheredAtFirst, McpInvariantHolds, PTL DEF Spec

\* Whatever files a checkout holds, no declared dependency is lost or left transitive.
THEOREM DeclaredAreListed == Spec => []DeclaredIsListed
BY GatheredHolds, CollectedLists, PTL

\* The dependencies of a checkout do not depend on the order its lockfiles are parsed in.
THEOREM OrderNeverMatters == Spec => []OrderIsImmaterial
BY GatheredHolds, CollectedInAnyOrder, PTL
=============================================================================
