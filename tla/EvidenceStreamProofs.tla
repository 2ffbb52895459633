------------------------ MODULE EvidenceStreamProofs ------------------------
(***************************************************************************)
(* Theorems about EvidenceStream, for every set of notifications and of     *)
(* answers of the log store, every normalisation and every limit.           *)
(*                                                                          *)
(* The model's loops are recursive functions over the positions of a        *)
(* sequence.  LoopRuns shows that such a function exists; what a loop       *)
(* keeps from one position to the next then holds of its result             *)
(* (PositionInduction).                                                     *)
(***************************************************************************)
EXTENDS EvidenceStream, SequenceTheorems, FiniteSetTheorems, WellFoundedInduction, TLAPS

\* A nonempty set of numbers has a least member.
LEMMA LeastExists ==
  ASSUME NEW S, S \subseteq Nat, S # {}
  PROVE  \E x \in S : \A y \in S : x <= y
<1> DEFINE R == OpToRel(<, Nat)
<1>1. IsWellFoundedOn(R, Nat)
  BY NatLessThanWellFounded, Zenon
<1>2. PICK x \in S : \A y \in S : <<y, x>> \notin R
  BY <1>1, WFMin, Zenon
<1>3. ASSUME NEW y \in S PROVE x <= y
  <2>1. y \in Nat /\ x \in Nat
    OBVIOUS
  <2>2. ~(y < x)
    BY <1>2, <2>1, Zenon DEF OpToRel
  <2> QED BY <2>1, <2>2
<1> QED BY <1>3

\* What holds before the first position, and after a position if before it, holds
\* after the last.
LEMMA PositionInduction ==
  ASSUME NEW L \in Nat, NEW T, 0 \in T,
         \A n \in 0..L : n \in T /\ n < L => n + 1 \in T
  PROVE  \A n \in 0..L : n \in T
<1> SUFFICES ASSUME NEW k \in 0..L, k \notin T PROVE FALSE
  OBVIOUS
<1> DEFINE S == {n \in 0..L : n \notin T}
<1>1. PICK x \in S : \A y \in S : x <= y
  <2>1. S \subseteq Nat /\ S # {}
    OBVIOUS
  <2> HIDE DEF S
  <2> QED BY <2>1, LeastExists
<1>2. x \in Nat /\ x # 0 /\ x <= L /\ x \notin T
  OBVIOUS
<1>3. x - 1 \in 0..L /\ x - 1 < L /\ (x - 1) + 1 = x
  BY <1>2
<1>4. x - 1 \in T
  BY <1>1, <1>3
<1> QED BY <1>2, <1>3, <1>4

\* What a loop has accumulated after each position.
Loop(f, L, base, next) == f[0] = base /\ \A n \in 1..L : f[n] = next[n][f[n - 1]]

\* Sets of positions are finite, and so are counts.
LEMMA PositionsFinite ==
  ASSUME NEW L \in Nat, NEW P, P \subseteq 1..L
  PROVE  IsFiniteSet(P) /\ Cardinality(P) \in Nat
<1>1. IsFiniteSet(1..L)
  <2>1. 1 \in Int /\ L \in Int
    OBVIOUS
  <2> QED BY <2>1, FS_Interval
<1>2. IsFiniteSet(P)
  BY <1>1, FS_Subset
<1> QED BY <1>2, FS_CardinalityType

\* A loop over positions runs: for every step there is a function from the number
\* of positions passed to what has been accumulated.
LEMMA LoopRuns ==
  ASSUME NEW L \in Nat, NEW A, NEW base \in A, NEW next \in [1..L -> [A -> A]]
  PROVE  \E f \in [0..L -> A] : Loop(f, L, base, next)
<1> DEFINE Runs(f, n) == \A m \in 0..n : f[m] = IF m = 0 THEN base ELSE next[m][f[m - 1]]
           T == {n \in 0..L : \E f \in [0..n -> A] : Runs(f, n)}
<1>1. 0 \in T
  <2>1. [m \in 0..0 |-> base] \in [0..0 -> A] /\ Runs([m \in 0..0 |-> base], 0)
    OBVIOUS
  <2>2. 0 \in 0..L
    OBVIOUS
  <2> HIDE DEF Runs
  <2> QED BY <2>1, <2>2
<1>2. ASSUME NEW n \in 0..L, n \in T, n < L
      PROVE  n + 1 \in T
  <2>1. PICK f \in [0..n -> A] : Runs(f, n)
    BY <1>2
  <2> DEFINE x == next[n + 1][f[n]]
             g == [m \in 0..(n + 1) |-> IF m = n + 1 THEN x ELSE f[m]]
  <2>2. n + 1 \in 1..L /\ f[n] \in A
    BY <1>2
  <2>3. x \in A
    BY <2>2
  <2> HIDE DEF x
  <2>4. g \in [0..(n + 1) -> A]
    BY <2>3
  <2>5. Runs(g, n + 1)
    <3> SUFFICES ASSUME NEW m \in 0..(n + 1)
                 PROVE  g[m] = IF m = 0 THEN base ELSE next[m][g[m - 1]]
      OBVIOUS
    <3>1. CASE m = n + 1
      <4>1. g[m - 1] = f[n] /\ g[m] = x /\ m # 0
        BY <3>1
      <4> QED BY <4>1, <3>1 DEF x
    <3>2. CASE m \in 0..n
      <4>1. g[m] = f[m] /\ (m # 0 => g[m - 1] = f[m - 1])
        BY <3>2
      <4> QED BY <4>1, <3>2, <2>1
    <3> QED BY <3>1, <3>2
  <2>6. n + 1 \in 0..L
    BY <1>2
  <2> HIDE DEF Runs, g
  <2> QED BY <2>4, <2>5, <2>6
<1>3. L \in T
  <2> HIDE DEF T
  <2>1. \A n \in 0..L : n \in T /\ n < L => n + 1 \in T
    BY <1>2
  <2>2. \A n \in 0..L : n \in T
    BY <1>1, <2>1, PositionInduction
  <2> QED BY <2>2
<1>4. PICK f \in [0..L -> A] : Runs(f, L)
  BY <1>3
<1>5. f[0] = base
  <2>1. 0 \in 0..L
    OBVIOUS
  <2> QED BY <1>4, <2>1, Zenon
<1>6. \A n \in 1..L : f[n] = next[n][f[n - 1]]
  <2>1. \A n \in 1..L : n \in 0..L /\ n # 0
    OBVIOUS
  <2> QED BY <1>4, <2>1, Zenon
<1> QED BY <1>5, <1>6, Zenon DEF Loop

-----------------------------------------------------------------------------
(***************************************************************************)
(* Sequences: what Subsequence, Unique and FlattenSeq keep.                 *)
(***************************************************************************)

\* A sequence lists some positions of another, each once.
Lists(t, s, positions) ==
  \E b \in Bijection(DOMAIN t, positions) : \A k \in DOMAIN t : t[k] = s[b[k]]

\* Appending the next position to a list of positions.
LEMMA ListsNext ==
  ASSUME NEW V, NEW s \in Seq(V), NEW t \in Seq(V), NEW P, P \subseteq DOMAIN s,
         NEW n \in DOMAIN s, n \notin P, Lists(t, s, P)
  PROVE  Append(t, s[n]) \in Seq(V) /\ Lists(Append(t, s[n]), s, P \cup {n})
<1> DEFINE u == Append(t, s[n])
<1>1. PICK b \in Bijection(DOMAIN t, P) : \A k \in DOMAIN t : t[k] = s[b[k]]
  BY DEF Lists
<1>2. /\ b \in [DOMAIN t -> P]
      /\ \A x, y \in DOMAIN t : b[x] = b[y] => x = y
      /\ \A z \in P : \E x \in DOMAIN t : b[x] = z
  BY DEF Bijection, Injection, Surjection, IsInjective
<1>3. /\ s[n] \in V /\ u \in Seq(V) /\ Len(t) \in Nat
      /\ DOMAIN t = 1..Len(t) /\ DOMAIN u = 1..(Len(t) + 1)
      /\ u[Len(t) + 1] = s[n]
      /\ \A k \in DOMAIN t : u[k] = t[k]
  OBVIOUS
<1> DEFINE c == [k \in DOMAIN u |-> IF k = Len(t) + 1 THEN n ELSE b[k]]
<1> HIDE DEF u
<1>4. c \in [DOMAIN u -> P \cup {n}]
  BY <1>2, <1>3
<1>5. \A x, y \in DOMAIN u : c[x] = c[y] => x = y
  BY <1>2, <1>3
<1>6. \A z \in P \cup {n} : \E x \in DOMAIN u : c[x] = z
  BY <1>2, <1>3
<1>7. \A k \in DOMAIN u : u[k] = s[c[k]]
  BY <1>1, <1>3
<1> HIDE DEF c
<1>8. c \in Bijection(DOMAIN u, P \cup {n})
  BY <1>4, <1>5, <1>6 DEF Bijection, Injection, Surjection, IsInjective
<1>9. Lists(u, s, P \cup {n})
  BY <1>7, <1>8 DEF Lists
<1> QED BY <1>3, <1>9 DEF u

\* A subsequence lists the positions it keeps.
LEMMA SubsequenceLists ==
  ASSUME NEW V, NEW s \in Seq(V), NEW keep, keep \subseteq DOMAIN s
  PROVE  Subsequence(s, keep) \in Seq(V) /\ Lists(Subsequence(s, keep), s, keep)
<1> DEFINE L == Len(s)
           next == [n \in 1..L |-> [t \in Seq(V) |-> IF n \in keep THEN Append(t, s[n]) ELSE t]]
           taken == CHOOSE f : f = [n \in 0..L |->
                      IF n = 0 THEN <<>>
                      ELSE IF n \in keep THEN Append(f[n - 1], s[n]) ELSE f[n - 1]]
<1>0. L \in Nat /\ DOMAIN s = 1..L /\ \A n \in 1..L : s[n] \in V
  OBVIOUS
<1>1. next \in [1..L -> [Seq(V) -> Seq(V)]]
  OBVIOUS
<1>2. PICK f \in [0..L -> Seq(V)] :
        f[0] = <<>> /\ \A n \in 1..L : f[n] = next[n][f[n - 1]]
  <2>1. <<>> \in Seq(V) /\ L \in Nat
    OBVIOUS
  <2> HIDE DEF next, L
  <2>2. \E f \in [0..L -> Seq(V)] : Loop(f, L, <<>>, next)
    BY <1>1, <2>1, LoopRuns
  <2> QED BY <2>2 DEF Loop
<1>3. \A n \in 1..L : f[n] = IF n \in keep THEN Append(f[n - 1], s[n]) ELSE f[n - 1]
  <2> TAKE n \in 1..L
  <2>1. n - 1 \in 0..L
    BY <1>0
  <2>2. f[n - 1] \in Seq(V)
    BY <2>1
  <2>3. next[n][f[n - 1]] = IF n \in keep THEN Append(f[n - 1], s[n]) ELSE f[n - 1]
    BY <2>2
  <2> QED BY <2>3, <1>2
<1>4. f = [n \in 0..L |-> IF n = 0 THEN <<>>
                          ELSE IF n \in keep THEN Append(f[n - 1], s[n]) ELSE f[n - 1]]
  <2> HIDE DEF next, L
  <2>1. \A n \in 0..L : n = 0 \/ n \in 1..L
    BY <1>0
  <2> QED BY <1>2, <1>3, <2>1
<1>5. taken = [n \in 0..L |-> IF n = 0 THEN <<>>
                 ELSE IF n \in keep THEN Append(taken[n - 1], s[n]) ELSE taken[n - 1]]
  <2> HIDE DEF next, L
  <2> QED BY <1>4, Zenon
<1>6. taken[0] = <<>> /\ \A n \in 1..L : taken[n] = IF n \in keep THEN Append(taken[n - 1], s[n])
                                                    ELSE taken[n - 1]
  <2> HIDE DEF taken, L, next
  <2>1. 0 \in 0..L /\ \A n \in 1..L : n \in 0..L /\ n # 0
    BY <1>0
  <2> QED BY <1>5, <2>1, Zenon
<1> HIDE DEF taken, next
<1> DEFINE T == {n \in 0..L : taken[n] \in Seq(V) /\ Lists(taken[n], s, keep \cap 1..n)}
<1>7. 0 \in T
  <2>1. <<>> \in Seq(V) /\ DOMAIN <<>> = {} /\ keep \cap 1..0 = {}
    OBVIOUS
  <2>2. <<>> \in Bijection({}, {})
    BY <2>1 DEF Bijection, Injection, Surjection, IsInjective
  <2>3. Lists(<<>>, s, keep \cap 1..0)
    BY <2>1, <2>2 DEF Lists
  <2>4. 0 \in 0..L /\ taken[0] \in Seq(V) /\ Lists(taken[0], s, keep \cap 1..0)
    BY <1>0, <1>6, <2>1, <2>3
  <2> QED BY <2>4, Zenon
<1>8. ASSUME NEW n \in 0..L, n \in T, n < L
      PROVE  n + 1 \in T
  <2>1. n + 1 \in 1..L /\ n + 1 \in 0..L /\ (n + 1) - 1 = n /\ n + 1 \in DOMAIN s
    BY <1>0, <1>8
  <2>2. taken[n] \in Seq(V) /\ Lists(taken[n], s, keep \cap 1..n)
    BY <1>8
  <2>3. CASE n + 1 \in keep
    <3>1. taken[n + 1] = Append(taken[n], s[n + 1])
      BY <1>6, <2>1, <2>3
    <3>2. /\ keep \cap 1..n \subseteq DOMAIN s /\ n + 1 \notin keep \cap 1..n
          /\ keep \cap 1..(n + 1) = (keep \cap 1..n) \cup {n + 1}
      BY <1>0, <2>3
    <3>3. taken[n + 1] \in Seq(V) /\ Lists(taken[n + 1], s, (keep \cap 1..n) \cup {n + 1})
      <4> DEFINE t == taken[n]
                 P == keep \cap 1..n
                 m == n + 1
      <4>1. t \in Seq(V) /\ P \subseteq DOMAIN s /\ m \in DOMAIN s /\ m \notin P /\ Lists(t, s, P)
        BY <2>1, <2>2, <3>2
      <4> HIDE DEF t, P, m
      <4>2. Append(t, s[m]) \in Seq(V) /\ Lists(Append(t, s[m]), s, P \cup {m})
        BY <4>1, ListsNext
      <4> QED BY <3>1, <4>2 DEF t, P, m
    <3> QED BY <2>1, <3>2, <3>3
  <2>4. CASE n + 1 \notin keep
    <3>1. taken[n + 1] = taken[n]
      BY <1>6, <2>1, <2>4
    <3>2. keep \cap 1..(n + 1) = keep \cap 1..n
      BY <1>0, <2>4
    <3> QED BY <2>1, <2>2, <3>1, <3>2
  <2> QED BY <2>3, <2>4
<1>9. L \in T
  <2> HIDE DEF T
  <2>1. \A n \in 0..L : n \in T
    BY <1>0, <1>7, <1>8, PositionInduction
  <2> QED BY <1>0, <2>1
<1>10. keep \cap 1..L = keep
  BY <1>0
<1>11. Subsequence(s, keep) = taken[L]
  BY Zenon DEF taken, Subsequence
<1> QED BY <1>9, <1>10, <1>11

\* Two sequences of one set of values in bijection.
LEMMA ReordersSymmetric ==
  ASSUME NEW s, NEW t, Reorders(s, t)
  PROVE  Reorders(t, s)
<1>1. PICK b \in Bijection(DOMAIN s, DOMAIN t) : \A k \in DOMAIN s : s[k] = t[b[k]]
  BY DEF Reorders
<1>2. /\ b \in [DOMAIN s -> DOMAIN t]
      /\ \A x, y \in DOMAIN s : b[x] = b[y] => x = y
      /\ \A z \in DOMAIN t : \E x \in DOMAIN s : b[x] = z
  BY DEF Bijection, Injection, Surjection, IsInjective
<1> DEFINE c == [z \in DOMAIN t |-> CHOOSE x \in DOMAIN s : b[x] = z]
<1>3. \A z \in DOMAIN t : c[z] \in DOMAIN s /\ b[c[z]] = z
  BY <1>2
<1>4. c \in [DOMAIN t -> DOMAIN s]
  BY <1>3
<1> HIDE DEF c
<1>5. \A x \in DOMAIN s : c[b[x]] = x
  BY <1>2, <1>3
<1>6. c \in Bijection(DOMAIN t, DOMAIN s)
  BY <1>2, <1>3, <1>4, <1>5 DEF Bijection, Injection, Surjection, IsInjective
<1>7. \A z \in DOMAIN t : t[z] = s[c[z]]
  BY <1>1, <1>3
<1> QED BY <1>6, <1>7 DEF Reorders

\* Unique keeps the values of a sequence, each once.
LEMMA UniqueValues ==
  ASSUME NEW V, NEW s \in Seq(V)
  PROVE  /\ Unique(s) \in Seq(V)
         /\ IsInjective(Unique(s))
         /\ ToSet(Unique(s)) = ToSet(s)
<1> DEFINE keep == {n \in DOMAIN s : \A m \in 1..(n - 1) : s[m] # s[n]}
           u == Subsequence(s, keep)
<1>0. DOMAIN s = 1..Len(s) /\ Len(s) \in Nat
  OBVIOUS
<1>1. u = Unique(s)
  BY DEF Unique
<1>2. u \in Seq(V) /\ Lists(u, s, keep)
  <2>1. keep \subseteq DOMAIN s
    OBVIOUS
  <2> HIDE DEF keep
  <2> QED BY <2>1, SubsequenceLists
<1>3. PICK b \in Bijection(DOMAIN u, keep) : \A k \in DOMAIN u : u[k] = s[b[k]]
  <2> HIDE DEF u, keep
  <2> QED BY <1>2 DEF Lists
<1> HIDE DEF u
<1>4. /\ b \in [DOMAIN u -> keep]
      /\ \A x, y \in DOMAIN u : b[x] = b[y] => x = y
      /\ \A z \in keep : \E x \in DOMAIN u : b[x] = z
  <2> HIDE DEF keep
  <2> QED BY DEF Bijection, Injection, Surjection, IsInjective
<1>5. ASSUME NEW x \in keep, NEW y \in keep, s[x] = s[y]
      PROVE  x = y
  BY <1>0, <1>5
<1>6. IsInjective(u)
  <2> SUFFICES ASSUME NEW x \in DOMAIN u, NEW y \in DOMAIN u, u[x] = u[y] PROVE x = y
    BY DEF IsInjective
  <2> HIDE DEF keep
  <2>1. b[x] \in keep /\ b[y] \in keep /\ s[b[x]] = s[b[y]]
    BY <1>3, <1>4
  <2>2. b[x] = b[y]
    BY <1>5, <2>1
  <2> QED BY <1>4, <2>2
<1>7. ASSUME NEW n \in DOMAIN s
      PROVE  \E x \in DOMAIN u : u[x] = s[n]
  <2> DEFINE S == {m \in DOMAIN s : s[m] = s[n]}
  <2>1. S \subseteq Nat /\ S # {}
    BY <1>0
  <2>2. PICK m \in S : \A k \in S : m <= k
    <3> HIDE DEF S
    <3> QED BY <2>1, LeastExists
  <2>3. m \in keep
    <3> SUFFICES ASSUME NEW k \in 1..(m - 1), s[k] = s[m] PROVE FALSE
      OBVIOUS
    <3>1. k \in DOMAIN s /\ ~(m <= k)
      BY <1>0
    <3> QED BY <2>2, <3>1
  <2>4. PICK x \in DOMAIN u : b[x] = m
    BY <1>4, <2>3, Zenon
  <2>5. u[x] = s[m] /\ s[m] = s[n]
    BY <1>3, <2>4
  <2> QED BY <2>5
<1>8. ASSUME NEW x \in DOMAIN u
      PROVE  \E n \in DOMAIN s : s[n] = u[x]
  BY <1>3, <1>4
<1>9. ToSet(u) = ToSet(s)
  BY <1>7, <1>8 DEF ToSet
<1> QED BY <1>1, <1>2, <1>6, <1>9

\* Sequences without repetition and of the same values are reorderings.
LEMMA SameValuesReorder ==
  ASSUME NEW s, NEW t, IsInjective(s), IsInjective(t), ToSet(s) = ToSet(t)
  PROVE  Reorders(s, t)
<1>1. \A k \in DOMAIN s : \E j \in DOMAIN t : t[j] = s[k]
  BY DEF ToSet
<1>2. \A j \in DOMAIN t : \E k \in DOMAIN s : s[k] = t[j]
  BY DEF ToSet
<1>3. /\ \A x, y \in DOMAIN s : s[x] = s[y] => x = y
      /\ \A x, y \in DOMAIN t : t[x] = t[y] => x = y
  BY DEF IsInjective
<1> DEFINE b == [k \in DOMAIN s |-> CHOOSE j \in DOMAIN t : t[j] = s[k]]
<1>4. \A k \in DOMAIN s : b[k] \in DOMAIN t /\ t[b[k]] = s[k]
  BY <1>1
<1>5. b \in [DOMAIN s -> DOMAIN t]
  BY <1>4
<1> HIDE DEF b
<1>6. \A x, y \in DOMAIN s : b[x] = b[y] => x = y
  BY <1>3, <1>4
<1>7. \A z \in DOMAIN t : \E x \in DOMAIN s : b[x] = z
  <2> TAKE z \in DOMAIN t
  <2>1. PICK x \in DOMAIN s : s[x] = t[z]
    BY <1>2
  <2>2. b[x] \in DOMAIN t /\ t[b[x]] = t[z]
    BY <1>4, <2>1
  <2> QED BY <1>3, <2>2
<1>8. b \in Bijection(DOMAIN s, DOMAIN t)
  BY <1>5, <1>6, <1>7 DEF Bijection, Injection, Surjection, IsInjective
<1> QED BY <1>4, <1>8 DEF Reorders

\* What two reorderings keep of the same values are reorderings.
LEMMA SubsequencesReorder ==
  ASSUME NEW V, NEW s \in Seq(V), NEW t \in Seq(V), NEW W, Reorders(s, t)
  PROVE  Reorders(Subsequence(s, {k \in DOMAIN s : s[k] \in W}),
                  Subsequence(t, {k \in DOMAIN t : t[k] \in W}))
<1> DEFINE P == {k \in DOMAIN s : s[k] \in W}
           Q == {k \in DOMAIN t : t[k] \in W}
           u == Subsequence(s, P)
           v == Subsequence(t, Q)
<1>1. PICK b \in Bijection(DOMAIN s, DOMAIN t) : \A k \in DOMAIN s : s[k] = t[b[k]]
  BY DEF Reorders
<1>2. Lists(u, s, P) /\ Lists(v, t, Q)
  <2>1. P \subseteq DOMAIN s /\ Q \subseteq DOMAIN t
    OBVIOUS
  <2> HIDE DEF P, Q
  <2> QED BY <2>1, SubsequenceLists
<1> HIDE DEF u, v
<1>3. PICK c \in Bijection(DOMAIN u, P) : \A k \in DOMAIN u : u[k] = s[c[k]]
  <2> HIDE DEF P
  <2> QED BY <1>2 DEF Lists
<1>4. PICK d \in Bijection(DOMAIN v, Q) : \A k \in DOMAIN v : v[k] = t[d[k]]
  <2> HIDE DEF Q
  <2> QED BY <1>2 DEF Lists
<1>5. /\ b \in [DOMAIN s -> DOMAIN t]
      /\ \A x, y \in DOMAIN s : b[x] = b[y] => x = y
      /\ \A z \in DOMAIN t : \E x \in DOMAIN s : b[x] = z
  BY DEF Bijection, Injection, Surjection, IsInjective
<1>6. /\ c \in [DOMAIN u -> P]
      /\ \A x, y \in DOMAIN u : c[x] = c[y] => x = y
      /\ \A z \in P : \E x \in DOMAIN u : c[x] = z
  <2> HIDE DEF P
  <2> QED BY DEF Bijection, Injection, Surjection, IsInjective
<1>7. /\ d \in [DOMAIN v -> Q]
      /\ \A x, y \in DOMAIN v : d[x] = d[y] => x = y
      /\ \A z \in Q : \E x \in DOMAIN v : d[x] = z
  <2> HIDE DEF Q
  <2> QED BY DEF Bijection, Injection, Surjection, IsInjective
<1>8. /\ \A x \in P : b[x] \in Q /\ x \in DOMAIN s
      /\ \A z \in Q : \E x \in P : b[x] = z
  BY <1>1, <1>5
<1> HIDE DEF P, Q
<1> DEFINE e == [k \in DOMAIN u |-> CHOOSE j \in DOMAIN v : d[j] = b[c[k]]]
<1>9. \A k \in DOMAIN u : e[k] \in DOMAIN v /\ d[e[k]] = b[c[k]]
  BY <1>6, <1>7, <1>8
<1>10. e \in [DOMAIN u -> DOMAIN v]
  BY <1>9
<1> HIDE DEF e
<1>11. \A x, y \in DOMAIN u : e[x] = e[y] => x = y
  BY <1>5, <1>6, <1>8, <1>9
<1>12. \A z \in DOMAIN v : \E x \in DOMAIN u : e[x] = z
  <2> TAKE z \in DOMAIN v
  <2>1. PICK y \in P : b[y] = d[z]
    BY <1>7, <1>8
  <2>2. PICK x \in DOMAIN u : c[x] = y
    BY <1>6
  <2>3. e[x] \in DOMAIN v /\ d[e[x]] = d[z]
    BY <1>9, <2>1, <2>2
  <2> QED BY <1>7, <2>3
<1>13. \A k \in DOMAIN u : u[k] = v[e[k]]
  BY <1>1, <1>3, <1>4, <1>6, <1>8, <1>9
<1>14. e \in Bijection(DOMAIN u, DOMAIN v)
  BY <1>10, <1>11, <1>12 DEF Bijection, Injection, Surjection, IsInjective
<1>15. Reorders(u, v)
  BY <1>13, <1>14 DEF Reorders
<1> QED BY <1>15 DEF u, v, P, Q

\* Reorderings one after the other are reorderings.
LEMMA ConcatReorders ==
  ASSUME NEW V, NEW s \in Seq(V), NEW t \in Seq(V), NEW u \in Seq(V), NEW v \in Seq(V),
         Reorders(s, t), Reorders(u, v)
  PROVE  Reorders(s \o u, t \o v)
<1> DEFINE x == s \o u
           y == t \o v
<1>1. PICK b \in Bijection(DOMAIN s, DOMAIN t) : \A k \in DOMAIN s : s[k] = t[b[k]]
  BY DEF Reorders
<1>2. PICK c \in Bijection(DOMAIN u, DOMAIN v) : \A k \in DOMAIN u : u[k] = v[c[k]]
  BY DEF Reorders
<1>3. /\ b \in [DOMAIN s -> DOMAIN t] /\ c \in [DOMAIN u -> DOMAIN v]
      /\ \A k, j \in DOMAIN s : b[k] = b[j] => k = j
      /\ \A k, j \in DOMAIN u : c[k] = c[j] => k = j
      /\ \A z \in DOMAIN t : \E k \in DOMAIN s : b[k] = z
      /\ \A z \in DOMAIN v : \E k \in DOMAIN u : c[k] = z
  BY DEF Bijection, Injection, Surjection, IsInjective
<1>4. /\ Len(s) \in Nat /\ Len(t) \in Nat /\ Len(u) \in Nat /\ Len(v) \in Nat
      /\ DOMAIN s = 1..Len(s) /\ DOMAIN t = 1..Len(t)
      /\ DOMAIN u = 1..Len(u) /\ DOMAIN v = 1..Len(v)
      /\ DOMAIN x = 1..(Len(s) + Len(u)) /\ DOMAIN y = 1..(Len(t) + Len(v))
  OBVIOUS
<1>5. /\ \A k \in DOMAIN s : k \in DOMAIN x /\ x[k] = s[k]
      /\ \A k \in DOMAIN t : k \in DOMAIN y /\ y[k] = t[k]
      /\ \A k \in DOMAIN u : Len(s) + k \in DOMAIN x /\ x[Len(s) + k] = u[k]
      /\ \A k \in DOMAIN v : Len(t) + k \in DOMAIN y /\ y[Len(t) + k] = v[k]
  OBVIOUS
<1>6. \A k \in DOMAIN x :
        \/ k \in DOMAIN s /\ k <= Len(s)
        \/ k - Len(s) \in DOMAIN u /\ k > Len(s) /\ k = Len(s) + (k - Len(s))
  BY <1>4
<1> HIDE DEF x, y
<1> DEFINE d == [k \in DOMAIN x |-> IF k <= Len(s) THEN b[k] ELSE Len(t) + c[k - Len(s)]]
<1>7. \A k \in DOMAIN s : k \in DOMAIN x /\ d[k] = b[k] /\ d[k] \in 1..Len(t)
  BY <1>3, <1>4, <1>5
<1>8. \A k \in DOMAIN u : /\ Len(s) + k \in DOMAIN x
                          /\ d[Len(s) + k] = Len(t) + c[k]
                          /\ c[k] \in 1..Len(v)
  <2> TAKE k \in DOMAIN u
  <2>1. ~(Len(s) + k <= Len(s)) /\ (Len(s) + k) - Len(s) = k
    BY <1>4
  <2> QED BY <1>3, <1>4, <1>5, <2>1
<1> HIDE DEF d
<1>9. \A k \in DOMAIN x : d[k] \in DOMAIN y
  <2> TAKE k \in DOMAIN x
  <2>1. CASE k \in DOMAIN s
    <3>1. d[k] \in 1..Len(t)
      BY <1>7, <2>1
    <3> QED BY <1>4, <3>1
  <2>2. CASE k - Len(s) \in DOMAIN u /\ k = Len(s) + (k - Len(s))
    <3>1. d[k] = Len(t) + c[k - Len(s)] /\ c[k - Len(s)] \in 1..Len(v)
      BY <1>8, <2>2
    <3> QED BY <1>4, <3>1
  <2> QED BY <1>6, <2>1, <2>2
<1>10. d \in [DOMAIN x -> DOMAIN y]
  BY <1>9 DEF d
<1>11. ASSUME NEW k \in DOMAIN x, NEW j \in DOMAIN x, d[k] = d[j]
       PROVE  k = j
  <2>1. CASE k \in DOMAIN s /\ j \in DOMAIN s
    BY <1>3, <1>7, <1>11, <2>1
  <2>2. CASE k \in DOMAIN s /\ j - Len(s) \in DOMAIN u /\ j = Len(s) + (j - Len(s))
    <3>1. d[k] \in 1..Len(t) /\ d[j] = Len(t) + c[j - Len(s)] /\ c[j - Len(s)] \in 1..Len(v)
      BY <1>7, <1>8, <2>2
    <3> QED BY <1>4, <1>11, <3>1
  <2>3. CASE j \in DOMAIN s /\ k - Len(s) \in DOMAIN u /\ k = Len(s) + (k - Len(s))
    <3>1. d[j] \in 1..Len(t) /\ d[k] = Len(t) + c[k - Len(s)] /\ c[k - Len(s)] \in 1..Len(v)
      BY <1>7, <1>8, <2>3
    <3> QED BY <1>4, <1>11, <3>1
  <2>4. CASE /\ k - Len(s) \in DOMAIN u /\ k = Len(s) + (k - Len(s))
             /\ j - Len(s) \in DOMAIN u /\ j = Len(s) + (j - Len(s))
    <3>1. /\ d[k] = Len(t) + c[k - Len(s)] /\ c[k - Len(s)] \in 1..Len(v)
          /\ d[j] = Len(t) + c[j - Len(s)] /\ c[j - Len(s)] \in 1..Len(v)
      BY <1>8, <2>4
    <3>2. c[k - Len(s)] = c[j - Len(s)]
      <4> DEFINE p == c[k - Len(s)]
                 q == c[j - Len(s)]
      <4>1. Len(t) + p = Len(t) + q /\ p \in 1..Len(v) /\ q \in 1..Len(v)
        BY <1>11, <3>1
      <4> HIDE DEF p, q
      <4>2. p = q
        BY <1>4, <4>1
      <4> QED BY <4>2 DEF p, q
    <3>3. k - Len(s) = j - Len(s)
      BY <1>3, <2>4, <3>2
    <3> QED BY <2>4, <3>3
  <2> QED BY <1>6, <2>1, <2>2, <2>3, <2>4
<1>12. ASSUME NEW z \in DOMAIN y
       PROVE  \E k \in DOMAIN x : d[k] = z
  <2>1. z \in DOMAIN t \/ (z - Len(t) \in DOMAIN v /\ z = Len(t) + (z - Len(t)))
    BY <1>4
  <2>2. CASE z \in DOMAIN t
    BY <1>3, <1>7, <2>2
  <2>3. CASE z - Len(t) \in DOMAIN v /\ z = Len(t) + (z - Len(t))
    <3>1. PICK k \in DOMAIN u : c[k] = z - Len(t)
      BY <1>3, <2>3
    <3>2. Len(s) + k \in DOMAIN x /\ d[Len(s) + k] = Len(t) + (z - Len(t))
      BY <1>8, <3>1
    <3> QED BY <2>3, <3>2
  <2> QED BY <2>1, <2>2, <2>3
<1>13. d \in Bijection(DOMAIN x, DOMAIN y)
  BY <1>10, <1>11, <1>12 DEF Bijection, Injection, Surjection, IsInjective
<1>14. \A k \in DOMAIN x : x[k] = y[d[k]]
  <2> TAKE k \in DOMAIN x
  <2>1. CASE k \in DOMAIN s
    BY <1>1, <1>3, <1>5, <1>7, <2>1
  <2>2. CASE k - Len(s) \in DOMAIN u /\ k = Len(s) + (k - Len(s))
    <3> DEFINE j == k - Len(s)
    <3>1. x[k] = u[j] /\ u[j] = v[c[j]] /\ c[j] \in DOMAIN v
      BY <1>2, <1>3, <1>5, <2>2
    <3>2. d[k] = Len(t) + c[j]
      BY <1>8, <2>2
    <3> QED BY <1>5, <3>1, <3>2
  <2> QED BY <1>6, <2>1, <2>2
<1>15. Reorders(x, y)
  BY <1>13, <1>14 DEF Reorders
<1> QED BY <1>15 DEF x, y

\* A value occurs as often in a reordering.
LEMMA ReorderedCount ==
  ASSUME NEW V, NEW s \in Seq(V), NEW t, Reorders(s, t), NEW x
  PROVE  Count(s, x) = Count(t, x)
<1> DEFINE P == {n \in DOMAIN s : s[n] = x}
           Q == {n \in DOMAIN t : t[n] = x}
<1>1. PICK b \in Bijection(DOMAIN s, DOMAIN t) : \A k \in DOMAIN s : s[k] = t[b[k]]
  BY DEF Reorders
<1>2. /\ b \in [DOMAIN s -> DOMAIN t]
      /\ \A k, j \in DOMAIN s : b[k] = b[j] => k = j
      /\ \A z \in DOMAIN t : \E k \in DOMAIN s : b[k] = z
  BY DEF Bijection, Injection, Surjection, IsInjective
<1> DEFINE c == [k \in P |-> b[k]]
<1>3. c \in Bijection(P, Q)
  <2>1. c \in [P -> Q] /\ (\A k, j \in P : c[k] = c[j] => k = j)
        /\ \A z \in Q : \E k \in P : c[k] = z
    BY <1>1, <1>2
  <2> HIDE DEF P, Q, c
  <2> QED BY <2>1 DEF Bijection, Injection, Surjection, IsInjective
<1>4. IsFiniteSet(P)
  <2>1. P \subseteq 1..Len(s) /\ Len(s) \in Nat
    OBVIOUS
  <2> HIDE DEF P
  <2> QED BY <2>1, PositionsFinite
<1>5. ExistsBijection(P, Q)
  <2> HIDE DEF P, Q, c
  <2> QED BY <1>3 DEF ExistsBijection
<1>6. Cardinality(P) = Cardinality(Q)
  <2> HIDE DEF P, Q
  <2> QED BY <1>4, <1>5, FS_Bijection
<1> QED BY <1>6 DEF Count

\* One sequence after another has the values of both.
LEMMA ConcatValues ==
  ASSUME NEW V, NEW s \in Seq(V), NEW t \in Seq(V)
  PROVE  s \o t \in Seq(V) /\ ToSet(s \o t) = ToSet(s) \cup ToSet(t)
<1> DEFINE u == s \o t
<1>1. /\ Len(s) \in Nat /\ Len(t) \in Nat /\ u \in Seq(V)
      /\ DOMAIN s = 1..Len(s) /\ DOMAIN t = 1..Len(t) /\ DOMAIN u = 1..(Len(s) + Len(t))
  OBVIOUS
<1>2. /\ \A k \in DOMAIN s : k \in DOMAIN u /\ u[k] = s[k]
      /\ \A k \in DOMAIN t : Len(s) + k \in DOMAIN u /\ u[Len(s) + k] = t[k]
  OBVIOUS
<1>3. \A k \in DOMAIN u :
        k \in DOMAIN s \/ (k - Len(s) \in DOMAIN t /\ k = Len(s) + (k - Len(s)))
  BY <1>1
<1> HIDE DEF u
<1>4. ASSUME NEW x \in ToSet(u) PROVE x \in ToSet(s) \cup ToSet(t)
  <2>1. PICK k \in DOMAIN u : u[k] = x
    BY DEF ToSet
  <2>2. CASE k \in DOMAIN s
    BY <1>2, <2>1, <2>2 DEF ToSet
  <2>3. CASE k - Len(s) \in DOMAIN t /\ k = Len(s) + (k - Len(s))
    BY <1>2, <2>1, <2>3 DEF ToSet
  <2> QED BY <1>3, <2>2, <2>3
<1>5. ASSUME NEW x \in ToSet(s) \cup ToSet(t) PROVE x \in ToSet(u)
  BY <1>2 DEF ToSet
<1> QED BY <1>1, <1>4, <1>5 DEF u

\* FlattenSeq has the values of all its sequences.
LEMMA FlattenedValues ==
  ASSUME NEW V, NEW seqs \in Seq(Seq(V))
  PROVE  /\ FlattenSeq(seqs) \in Seq(V)
         /\ ToSet(FlattenSeq(seqs)) = UNION {ToSet(seqs[k]) : k \in DOMAIN seqs}
<1> DEFINE L == Len(seqs)
<1>0. L \in Nat /\ DOMAIN seqs = 1..L /\ \A n \in 1..L : seqs[n] \in Seq(V)
  OBVIOUS
<1>1. CASE L = 0
  <2>1. FlattenSeq(seqs) = seqs
    BY <1>1 DEF FlattenSeq
  <2>2. seqs = <<>> /\ DOMAIN seqs = {}
    BY <1>0, <1>1
  <2>3. seqs \in Seq(V) /\ ToSet(seqs) = {} /\ {ToSet(seqs[k]) : k \in DOMAIN seqs} = {}
    BY <2>2 DEF ToSet
  <2> QED BY <2>1, <2>3
<1>2. CASE L # 0
  <2> DEFINE next == [n \in 1..L |-> [t \in Seq(V) |-> t \o seqs[n]]]
             flatten == CHOOSE g : g = [i \in 1..L |-> IF i = 1 THEN seqs[i] ELSE g[i - 1] \o seqs[i]]
  <2>1. PICK f \in [0..L -> Seq(V)] :
          f[0] = <<>> /\ \A n \in 1..L : f[n] = next[n][f[n - 1]]
    <3>1. <<>> \in Seq(V) /\ L \in Nat /\ next \in [1..L -> [Seq(V) -> Seq(V)]]
      OBVIOUS
    <3> HIDE DEF next, L
    <3>2. \E f \in [0..L -> Seq(V)] : Loop(f, L, <<>>, next)
      BY <3>1, LoopRuns
    <3> QED BY <3>2 DEF Loop
  <2>2. \A n \in 1..L : f[n] = f[n - 1] \o seqs[n]
    <3> TAKE n \in 1..L
    <3>1. n - 1 \in 0..L
      BY <1>0
    <3>2. f[n - 1] \in Seq(V)
      BY <3>1
    <3>3. next[n][f[n - 1]] = f[n - 1] \o seqs[n]
      BY <3>2
    <3> QED BY <3>3, <2>1
  <2> HIDE DEF next
  <2>3. 1 \in 1..L /\ f[1] = seqs[1]
    <3>1. 1 \in 1..L /\ 1 - 1 = 0
      BY <1>0, <1>2
    <3>2. f[1] = <<>> \o seqs[1] /\ seqs[1] \in Seq(V)
      BY <1>0, <2>1, <2>2, <3>1
    <3> QED BY <3>1, <3>2
  <2> DEFINE h == [i \in 1..L |-> f[i]]
  <2>4. h = [i \in 1..L |-> IF i = 1 THEN seqs[i] ELSE h[i - 1] \o seqs[i]]
    <3>1. \A i \in 1..L : i # 1 => i - 1 \in 1..L
      BY <1>0
    <3> HIDE DEF L
    <3> QED BY <2>2, <2>3, <3>1
  <2>5. flatten = [i \in 1..L |-> IF i = 1 THEN seqs[i] ELSE flatten[i - 1] \o seqs[i]]
    <3> HIDE DEF h, L
    <3> QED BY <2>4, Zenon
  <2>6. flatten[1] = seqs[1] /\ \A i \in 1..L : i # 1 => flatten[i] = flatten[i - 1] \o seqs[i]
    <3> HIDE DEF flatten, L
    <3> QED BY <2>3, <2>5, Zenon
  <2> HIDE DEF flatten
  <2> DEFINE U(n) == UNION {ToSet(seqs[k]) : k \in 1..n}
             T == {n \in 0..L : n # 0 => flatten[n] \in Seq(V) /\ ToSet(flatten[n]) = U(n)}
  <2>7. 0 \in T
    BY <1>0
  <2>8. ASSUME NEW n \in 0..L, n \in T, n < L
        PROVE  n + 1 \in T
    <3>1. /\ n + 1 \in 1..L /\ n + 1 \in 0..L /\ (n + 1) - 1 = n
          /\ n = 0 \/ n + 1 # 1
      BY <1>0, <2>8
    <3>2. CASE n = 0
      <4>1. U(1) = ToSet(seqs[1])
        <5>1. 1..1 = {1}
          OBVIOUS
        <5> QED BY <5>1
      <4>2. flatten[1] \in Seq(V) /\ ToSet(flatten[1]) = U(1)
        BY <1>0, <2>3, <2>6, <4>1
      <4>3. n + 1 = 1
        BY <3>2
      <4> HIDE DEF U
      <4> QED BY <3>1, <4>2, <4>3
    <3>3. CASE n # 0
      <4>1. flatten[n] \in Seq(V) /\ ToSet(flatten[n]) = U(n)
        <5> HIDE DEF U
        <5> QED BY <2>8, <3>3
      <4>2. flatten[n + 1] = flatten[n] \o seqs[n + 1] /\ seqs[n + 1] \in Seq(V)
        BY <1>0, <2>6, <3>1, <3>3
      <4>3. U(n + 1) = U(n) \cup ToSet(seqs[n + 1])
        <5>1. 1..(n + 1) = (1..n) \cup {n + 1}
          BY <1>0
        <5> QED BY <5>1
      <4> HIDE DEF U
      <4>4. flatten[n + 1] \in Seq(V) /\ ToSet(flatten[n + 1]) = U(n + 1)
        <5> DEFINE a == flatten[n]
                   c == seqs[n + 1]
        <5>1. a \in Seq(V) /\ c \in Seq(V)
          BY <4>1, <4>2
        <5> HIDE DEF a, c
        <5>2. a \o c \in Seq(V) /\ ToSet(a \o c) = ToSet(a) \cup ToSet(c)
          BY <5>1, ConcatValues
        <5> QED BY <4>1, <4>2, <4>3, <5>2 DEF a, c
      <4> QED BY <3>1, <4>4
    <3> QED BY <3>2, <3>3
  <2>9. L \in T
    <3> HIDE DEF T
    <3>1. \A n \in 0..L : n \in T
      BY <1>0, <2>7, <2>8, PositionInduction
    <3> QED BY <1>0, <3>1
  <2>10. FlattenSeq(seqs) = flatten[L]
    BY <1>2, Zenon DEF flatten, FlattenSeq
  <2> QED BY <1>0, <1>2, <2>9, <2>10
<1> QED BY <1>1, <1>2

-----------------------------------------------------------------------------
(***************************************************************************)
(* The delta: what MultisetDifference keeps from one value to the next.     *)
(***************************************************************************)

\* A value occurs in a sequence if its count is not zero.
LEMMA CountType ==
  ASSUME NEW V, NEW s \in Seq(V), NEW x
  PROVE  Count(s, x) \in Nat /\ (Count(s, x) = 0 <=> x \notin ToSet(s))
<1> DEFINE P == {n \in DOMAIN s : s[n] = x}
<1>1. P \subseteq 1..Len(s) /\ Len(s) \in Nat
  OBVIOUS
<1>2. P = {} <=> x \notin ToSet(s)
  BY DEF ToSet
<1>3. IsFiniteSet(P) /\ Cardinality(P) \in Nat
  <2> HIDE DEF P
  <2> QED BY <1>1, PositionsFinite
<1>4. Cardinality(P) = 0 <=> P = {}
  <2> HIDE DEF P
  <2> QED BY <1>3, FS_EmptySet
<1>5. Count(s, x) = Cardinality(P)
  BY DEF Count
<1> QED BY <1>2, <1>3, <1>4, <1>5

\* How often an item is among the first values.
CountTo(values, n, i) == Cardinality({m \in 1..n : values[m] = i})

\* How the count of a value grows from one position to the next.
LEMMA CountNext ==
  ASSUME NEW values, NEW n \in Nat, NEW i
  PROVE  /\ CountTo(values, n, i) \in Nat
         /\ CountTo(values, n + 1, i) = CountTo(values, n, i) + IF values[n + 1] = i THEN 1 ELSE 0
<1> DEFINE P == {m \in 1..n : values[m] = i}
           Q == {m \in 1..(n + 1) : values[m] = i}
<1>1. IsFiniteSet(P) /\ Cardinality(P) \in Nat
  <2>1. P \subseteq 1..n
    OBVIOUS
  <2> HIDE DEF P
  <2> QED BY <2>1, PositionsFinite
<1>2. n + 1 \notin P /\ Q = IF values[n + 1] = i THEN P \cup {n + 1} ELSE P
  OBVIOUS
<1>3. Cardinality(Q) = Cardinality(P) + IF values[n + 1] = i THEN 1 ELSE 0
  <2> HIDE DEF P, Q
  <2>1. Cardinality(P \cup {n + 1}) = Cardinality(P) + 1
    BY <1>1, <1>2, FS_AddElement
  <2> QED BY <1>1, <1>2, <2>1
<1> QED BY <1>1, <1>3 DEF CountTo

\* The references made to an item.
To(refs, i) == {k \in DOMAIN refs : refs[k][2] = i}

\* The positions of a sequence that a value was appended to.
LEMMA AppendedPositions ==
  ASSUME NEW V, NEW q \in Seq(V), NEW x \in V, NEW u, u = Append(q, x)
  PROVE  /\ u \in Seq(V) /\ Len(q) \in Nat /\ DOMAIN q = 1..Len(q)
         /\ DOMAIN u = DOMAIN q \cup {Len(q) + 1} /\ u[Len(q) + 1] = x
         /\ \A k \in DOMAIN q : u[k] = q[k] /\ q[k] \in V
  OBVIOUS

\* The references to an item after one more reference.
LEMMA AppendedTo ==
  ASSUME NEW V, NEW q \in Seq(V), NEW x \in V, NEW i
  PROVE  /\ IsFiniteSet(To(q, i)) /\ Cardinality(To(q, i)) \in Nat
         /\ Cardinality(To(Append(q, x), i)) = Cardinality(To(q, i)) + IF x[2] = i THEN 1 ELSE 0
<1> DEFINE n == Len(q) + 1
           u == Append(q, x)
<1>1. /\ n \in Nat /\ n \notin DOMAIN q /\ DOMAIN q = 1..Len(q) /\ Len(q) \in Nat
      /\ DOMAIN u = DOMAIN q \cup {n}
      /\ u[n] = x /\ \A k \in DOMAIN q : u[k] = q[k]
  OBVIOUS
<1> HIDE DEF n, u
<1>2. IsFiniteSet(To(q, i)) /\ Cardinality(To(q, i)) \in Nat
  <2>1. To(q, i) \subseteq 1..Len(q)
    BY <1>1 DEF To
  <2> QED BY <1>1, <2>1, PositionsFinite
<1>3. n \notin To(q, i) /\ To(u, i) = IF x[2] = i THEN To(q, i) \cup {n} ELSE To(q, i)
  BY <1>1 DEF To
<1>4. Cardinality(To(q, i) \cup {n}) = Cardinality(To(q, i)) + 1
  BY <1>2, <1>3, FS_AddElement
<1> QED BY <1>2, <1>3, <1>4 DEF u

Ref(direction) == {direction} \X Items \X Nat

Tally(direction) == [remaining : [Items -> Nat], occurrences : [Items -> Nat],
                     refs : Seq(Ref(direction))]

\* The difference so far: items of the baseline that remain, occurrences beyond
\* it, and a reference for each of those.
Tallied(acc, n, values, base) ==
  /\ \A i \in Items :
       /\ CountTo(values, n, i) + acc.remaining[i] = Count(base, i) + acc.occurrences[i]
       /\ acc.remaining[i] = 0 \/ acc.occurrences[i] = 0
       /\ Cardinality(To(acc.refs, i)) = acc.occurrences[i]
  /\ \A k \in DOMAIN acc.refs : acc.refs[k][3] <= acc.occurrences[acc.refs[k][2]]
  /\ IsInjective(acc.refs)

DifferenceStep(acc, i, direction) ==
  IF acc.remaining[i] > 0
  THEN [acc EXCEPT !.remaining[i] = @ - 1]
  ELSE [acc EXCEPT !.occurrences[i] = @ + 1,
                   !.refs = Append(@, <<direction, i, acc.occurrences[i] + 1>>)]

\* A step of the pass over the values keeps the types of what it accumulates.
LEMMA DifferenceStepType ==
  ASSUME NEW direction, NEW acc \in Tally(direction), NEW i \in Items
  PROVE  DifferenceStep(acc, i, direction) \in Tally(direction)
<1>1. /\ acc.remaining \in [Items -> Nat] /\ acc.occurrences \in [Items -> Nat]
      /\ acc.refs \in Seq(Ref(direction))
  BY DEF Tally
<1>2. CASE acc.remaining[i] > 0
  <2>1. acc.remaining[i] - 1 \in Nat
    BY <1>1, <1>2
  <2> QED BY <1>1, <1>2, <2>1 DEF DifferenceStep, Tally
<1>3. CASE ~(acc.remaining[i] > 0)
  <2>1. <<direction, i, acc.occurrences[i] + 1>> \in Ref(direction)
    BY <1>1 DEF Ref
  <2>2. Append(acc.refs, <<direction, i, acc.occurrences[i] + 1>>) \in Seq(Ref(direction))
    BY <1>1, <2>1
  <2> DEFINE o == [acc.occurrences EXCEPT ![i] = @ + 1]
             q == Append(acc.refs, <<direction, i, acc.occurrences[i] + 1>>)
  <2>3. DifferenceStep(acc, i, direction) =
          [remaining |-> acc.remaining, occurrences |-> o, refs |-> q]
    BY <1>3 DEF DifferenceStep, Tally
  <2>4. o \in [Items -> Nat] /\ q \in Seq(Ref(direction))
    BY <1>1, <2>2
  <2> HIDE DEF o, q
  <2> QED BY <1>1, <2>3, <2>4 DEF Tally
<1> QED BY <1>2, <1>3

\* A step of the pass keeps the books: what remains of the baseline, what was
\* taken and what was referred to make up what has been seen.
LEMMA DifferenceStepTallied ==
  ASSUME NEW values \in Seq(Items), NEW base \in Seq(Items), NEW direction,
         NEW n \in Nat, n + 1 \in DOMAIN values,
         NEW acc \in Tally(direction), Tallied(acc, n, values, base)
  PROVE  Tallied(DifferenceStep(acc, values[n + 1], direction), n + 1, values, base)
<1> DEFINE i == values[n + 1]
           new == DifferenceStep(acc, i, direction)
           r == acc.remaining
           o == acc.occurrences
           q == acc.refs
<1>1. i \in Items /\ r \in [Items -> Nat] /\ o \in [Items -> Nat] /\ q \in Seq(Ref(direction))
  BY DEF Tally
<1>2. \A j \in Items : /\ CountTo(values, n, j) \in Nat /\ Count(base, j) \in Nat
                       /\ CountTo(values, n + 1, j)
                            = CountTo(values, n, j) + IF i = j THEN 1 ELSE 0
  BY CountNext, CountType
<1>3. /\ \A j \in Items : /\ CountTo(values, n, j) + r[j] = Count(base, j) + o[j]
                          /\ r[j] = 0 \/ o[j] = 0
                          /\ Cardinality(To(q, j)) = o[j]
      /\ \A k \in DOMAIN q : q[k][3] <= o[q[k][2]]
      /\ IsInjective(q)
  BY DEF Tallied
<1>4. CASE r[i] > 0
  <2>1. /\ new.remaining = [r EXCEPT ![i] = @ - 1]
        /\ new.occurrences = o /\ new.refs = q
    BY <1>4 DEF DifferenceStep, Tally
  <2> DEFINE s == new.remaining
  <2>2. \A j \in Items : s[j] = IF j = i THEN r[j] - 1 ELSE r[j]
    BY <1>1, <2>1
  <2> HIDE DEF i, r, o, q, new, s
  <2>3. ASSUME NEW j \in Items
        PROVE  /\ CountTo(values, n + 1, j) + s[j] = Count(base, j) + o[j]
               /\ s[j] = 0 \/ o[j] = 0
    <3>1. /\ r[j] \in Nat /\ o[j] \in Nat /\ CountTo(values, n, j) \in Nat /\ Count(base, j) \in Nat
          /\ CountTo(values, n, j) + r[j] = Count(base, j) + o[j]
          /\ r[j] = 0 \/ o[j] = 0
      BY <1>1, <1>2, <1>3
    <3>2. CASE j = i
      <4>1. CountTo(values, n + 1, j) = CountTo(values, n, j) + 1 /\ s[j] = r[j] - 1 /\ r[j] > 0
        BY <1>2, <1>4, <2>2, <3>2
      <4> DEFINE c == CountTo(values, n, j)
                 b == Count(base, j)
                 rj == r[j]
                 oj == o[j]
      <4>2. /\ rj \in Nat /\ oj \in Nat /\ c \in Nat /\ b \in Nat /\ rj > 0
            /\ c + rj = b + oj
            /\ rj = 0 \/ oj = 0
        BY <3>1, <4>1
      <4> HIDE DEF c, b, rj, oj
      <4>3. (c + 1) + (rj - 1) = b + oj /\ oj = 0
        BY <4>2
      <4> QED BY <4>1, <4>3 DEF c, b, rj, oj
    <3>3. CASE j # i
      <4>1. CountTo(values, n + 1, j) = CountTo(values, n, j) /\ s[j] = r[j]
        BY <1>2, <2>2, <3>1, <3>3
      <4> QED BY <3>1, <4>1
    <3> QED BY <3>2, <3>3
  <2>4. Tallied(new, n + 1, values, base)
    BY <1>3, <2>1, <2>3 DEF Tallied, s
  <2> QED BY <2>4 DEF new, i
<1>5. CASE ~(r[i] > 0)
  <2> DEFINE x == <<direction, i, o[i] + 1>>
             p == new.occurrences
             u == new.refs
  <2>1. /\ new.remaining = r
        /\ p = [o EXCEPT ![i] = @ + 1] /\ u = Append(q, x)
    BY <1>5 DEF DifferenceStep, Tally
  <2>2. \A j \in Items : p[j] \in Nat /\ p[j] = IF j = i THEN o[j] + 1 ELSE o[j]
    BY <1>1, <2>1
  <2>3. x \in Ref(direction) /\ x[2] = i /\ x[3] = o[i] + 1
    BY <1>1 DEF Ref
  <2>4. /\ DOMAIN u = DOMAIN q \cup {Len(q) + 1} /\ u[Len(q) + 1] = x
        /\ \A k \in DOMAIN q : u[k] = q[k] /\ q[k] \in Ref(direction)
    <3> DEFINE V == Ref(direction)
    <3>1. q \in Seq(V) /\ x \in V /\ u = Append(q, x)
      BY <1>1, <2>1, <2>3
    <3> HIDE DEF V, i, r, o, q, new, x, p, u
    <3>2. /\ DOMAIN u = DOMAIN q \cup {Len(q) + 1} /\ u[Len(q) + 1] = x
          /\ \A k \in DOMAIN q : u[k] = q[k] /\ q[k] \in V
      BY <3>1, AppendedPositions
    <3> QED BY <3>2 DEF V
  <2> HIDE DEF i, r, o, q, new, x, p, u
  <2>5. \A j \in Items : Cardinality(To(u, j)) = Cardinality(To(q, j)) + IF x[2] = j THEN 1 ELSE 0
    BY <1>1, <2>1, <2>3, AppendedTo
  <2>6. r[i] = 0
    BY <1>1, <1>5
  <2>7. ASSUME NEW j \in Items
        PROVE  /\ CountTo(values, n + 1, j) + r[j] = Count(base, j) + p[j]
               /\ r[j] = 0 \/ p[j] = 0
               /\ Cardinality(To(u, j)) = p[j]
    <3>1. /\ r[j] \in Nat /\ o[j] \in Nat /\ CountTo(values, n, j) \in Nat /\ Count(base, j) \in Nat
          /\ CountTo(values, n, j) + r[j] = Count(base, j) + o[j]
          /\ r[j] = 0 \/ o[j] = 0
          /\ Cardinality(To(q, j)) = o[j]
      BY <1>1, <1>2, <1>3
    <3>2. CASE j = i
      <4>1. /\ CountTo(values, n + 1, j) = CountTo(values, n, j) + 1 /\ p[j] = o[j] + 1 /\ r[j] = 0
            /\ Cardinality(To(u, j)) = Cardinality(To(q, j)) + 1
        BY <1>2, <2>2, <2>3, <2>5, <2>6, <3>2
      <4> QED BY <3>1, <4>1
    <3>3. CASE j # i
      <4>1. /\ CountTo(values, n + 1, j) = CountTo(values, n, j) /\ p[j] = o[j]
            /\ Cardinality(To(u, j)) = Cardinality(To(q, j))
        BY <1>2, <2>2, <2>3, <2>5, <3>1, <3>3
      <4> QED BY <3>1, <4>1
    <3> QED BY <3>2, <3>3
  <2>8. \A k \in DOMAIN q : q[k][2] \in Items /\ q[k][3] \in Nat
    BY <2>4 DEF Ref
  <2>9. ASSUME NEW k \in DOMAIN u
        PROVE  u[k][3] <= p[u[k][2]]
    <3>1. CASE k \in DOMAIN q
      <4>1. u[k] = q[k] /\ q[k][3] <= o[q[k][2]] /\ o[q[k][2]] \in Nat
        BY <1>1, <1>3, <2>4, <2>8, <3>1
      <4> DEFINE j == q[k][2]
                 v == q[k][3]
      <4>2. j \in Items /\ v \in Nat /\ v <= o[j]
        BY <2>8, <3>1, <4>1
      <4> HIDE DEF j, v
      <4>3. o[j] \in Nat /\ p[j] \in Nat /\ (p[j] = o[j] \/ p[j] = o[j] + 1)
        BY <1>1, <2>2, <4>2
      <4>4. v <= p[j]
        BY <4>2, <4>3
      <4> QED BY <4>1, <4>4 DEF j, v
    <3>2. CASE k = Len(q) + 1
      BY <1>1, <2>2, <2>3, <2>4, <3>2
    <3> QED BY <2>4, <3>1, <3>2
  <2>10. ASSUME NEW k \in DOMAIN q
         PROVE  u[k] # x
    <3>1. u[k] = q[k] /\ q[k][3] <= o[q[k][2]]
      BY <1>3, <2>4
    <3> QED BY <1>1, <2>3, <2>8, <3>1
  <2>11. IsInjective(u)
    <3>1. \A a, b \in DOMAIN q : q[a] = q[b] => a = b
      BY <1>3 DEF IsInjective
    <3>2. \A a, b \in DOMAIN u : u[a] = u[b] => a = b
      BY <2>4, <2>10, <3>1
    <3> QED BY <3>2 DEF IsInjective
  <2>12. Tallied(new, n + 1, values, base)
    BY <2>1, <2>7, <2>9, <2>11 DEF Tallied, p, u
  <2> QED BY <2>12 DEF new, i
<1> QED BY <1>4, <1>5

\* The references of a difference: one per occurrence beyond the baseline's.
LEMMA DifferenceCounts ==
  ASSUME NEW values \in Seq(Items), NEW base \in Seq(Items), NEW direction
  PROVE  LET refs == MultisetDifference(values, base, direction)
         IN  /\ refs \in Seq(Ref(direction))
             /\ IsInjective(refs)
             /\ \A i \in Items :
                  IF Count(values, i) > Count(base, i)
                  THEN Cardinality(To(refs, i)) = Count(values, i) - Count(base, i)
                  ELSE To(refs, i) = {} /\ Cardinality(To(refs, i)) = 0
<1> DEFINE L == Len(values)
           A == Tally(direction)
           start == [remaining |-> [i \in Items |-> Count(base, i)],
                     occurrences |-> [i \in Items |-> 0], refs |-> <<>>]
           next == [n \in 1..L |-> [acc \in A |-> DifferenceStep(acc, values[n], direction)]]
           pass == CHOOSE p : p = [n \in 0..L |->
                     IF n = 0 THEN start ELSE DifferenceStep(p[n - 1], values[n], direction)]
<1>0. L \in Nat /\ DOMAIN values = 1..L /\ \A n \in 1..L : values[n] \in Items
  OBVIOUS
<1>1. \A i \in Items : Count(base, i) \in Nat
  BY CountType
<1>2. start \in A
  <2>1. <<>> \in Seq(Ref(direction))
    OBVIOUS
  <2> QED BY <1>1, <2>1 DEF Tally
<1>3. next \in [1..L -> [A -> A]]
  <2>1. \A n \in 1..L : \A acc \in A : DifferenceStep(acc, values[n], direction) \in A
    BY <1>0, DifferenceStepType
  <2> HIDE DEF L, A
  <2> QED BY <2>1
<1> HIDE DEF A, start
<1>4. PICK f \in [0..L -> A] : f[0] = start /\ \A n \in 1..L : f[n] = next[n][f[n - 1]]
  <2> HIDE DEF next, L
  <2>1. \E f \in [0..L -> A] : Loop(f, L, start, next)
    BY <1>0, <1>2, <1>3, LoopRuns
  <2> QED BY <2>1 DEF Loop
<1>5. \A n \in 1..L : f[n] = DifferenceStep(f[n - 1], values[n], direction)
  <2> TAKE n \in 1..L
  <2>1. n - 1 \in 0..L
    BY <1>0
  <2>2. f[n - 1] \in A
    BY <2>1
  <2>3. next[n][f[n - 1]] = DifferenceStep(f[n - 1], values[n], direction)
    BY <2>2
  <2> QED BY <2>3, <1>4
<1> HIDE DEF next
<1>6. f = [n \in 0..L |-> IF n = 0 THEN start ELSE DifferenceStep(f[n - 1], values[n], direction)]
  <2>1. \A n \in 0..L : n = 0 \/ n \in 1..L
    BY <1>0
  <2> HIDE DEF L
  <2> QED BY <1>4, <1>5, <2>1
<1>7. pass = [n \in 0..L |->
                IF n = 0 THEN start ELSE DifferenceStep(pass[n - 1], values[n], direction)]
  <2> HIDE DEF L
  <2> QED BY <1>6, Zenon
<1>8. /\ pass[0] = start
      /\ \A n \in 1..L : pass[n] = DifferenceStep(pass[n - 1], values[n], direction)
  <2>1. 0 \in 0..L /\ \A n \in 1..L : n \in 0..L /\ n # 0
    BY <1>0
  <2> HIDE DEF pass, L
  <2> QED BY <1>7, <2>1, Zenon
<1>9. MultisetDifference(values, base, direction) = pass[L].refs
  BY Zenon DEF MultisetDifference, pass, start, DifferenceStep
<1> HIDE DEF pass
<1> DEFINE T == {n \in 0..L : pass[n] \in A /\ Tallied(pass[n], n, values, base)}
<1>10. 0 \in T
  <2>1. /\ start.refs = <<>> /\ DOMAIN start.refs = {}
        /\ \A i \in Items : start.remaining[i] = Count(base, i) /\ start.occurrences[i] = 0
    BY DEF start
  <2>2. \A i \in Items : To(start.refs, i) = {} /\ Cardinality(To(start.refs, i)) = 0
    BY <2>1, FS_EmptySet DEF To
  <2>3. \A i \in Items : CountTo(values, 0, i) = 0
    <3> TAKE i \in Items
    <3>1. {m \in 1..0 : values[m] = i} = {}
      OBVIOUS
    <3> QED BY <3>1, FS_EmptySet DEF CountTo
  <2>4. IsInjective(start.refs)
    BY <2>1 DEF IsInjective
  <2>5. Tallied(start, 0, values, base)
    BY <1>1, <2>1, <2>2, <2>3, <2>4 DEF Tallied
  <2>6. 0 \in 0..L
    BY <1>0
  <2> HIDE DEF L
  <2> QED BY <1>2, <1>8, <2>5, <2>6
<1>11. ASSUME NEW n \in 0..L, n \in T, n < L
       PROVE  n + 1 \in T
  <2>1. /\ n \in Nat /\ n + 1 \in 1..L /\ n + 1 \in 0..L /\ (n + 1) - 1 = n
        /\ n + 1 \in DOMAIN values /\ values[n + 1] \in Items
    BY <1>0, <1>11
  <2> DEFINE acc == pass[n]
  <2>2. acc \in Tally(direction) /\ Tallied(acc, n, values, base)
    BY <1>11 DEF A
  <2>3. pass[n + 1] = DifferenceStep(acc, values[n + 1], direction)
    <3> HIDE DEF L
    <3> QED BY <1>8, <2>1
  <2> HIDE DEF acc, L
  <2>4. DifferenceStep(acc, values[n + 1], direction) \in A
    BY <2>1, <2>2, DifferenceStepType DEF A
  <2>5. Tallied(DifferenceStep(acc, values[n + 1], direction), n + 1, values, base)
    BY <2>1, <2>2, DifferenceStepTallied
  <2> QED BY <2>1, <2>3, <2>4, <2>5
<1>12. L \in T
  <2> HIDE DEF T, L
  <2>1. \A n \in 0..L : n \in T
    BY <1>0, <1>10, <1>11, PositionInduction
  <2> QED BY <1>0, <2>1
<1> DEFINE acc == pass[L]
           refs == acc.refs
<1>13. /\ acc \in Tally(direction) /\ Tallied(acc, L, values, base)
       /\ refs \in Seq(Ref(direction)) /\ IsInjective(refs)
  <2>1. acc \in Tally(direction) /\ Tallied(acc, L, values, base)
    BY <1>12 DEF A
  <2> HIDE DEF acc
  <2> QED BY <2>1 DEF Tally, Tallied
<1>14. \A i \in Items : Count(values, i) = CountTo(values, L, i)
  BY <1>0 DEF Count, CountTo
<1> HIDE DEF acc, L
<1>15. ASSUME NEW i \in Items
       PROVE  IF Count(values, i) > Count(base, i)
              THEN Cardinality(To(refs, i)) = Count(values, i) - Count(base, i)
              ELSE To(refs, i) = {} /\ Cardinality(To(refs, i)) = 0
  <2> DEFINE c == Count(values, i)
             b == Count(base, i)
             r == acc.remaining[i]
             o == acc.occurrences[i]
  <2>1. c \in Nat /\ b \in Nat /\ r \in Nat /\ o \in Nat
    BY <1>1, <1>13, CountType DEF Tally
  <2>2. c + r = b + o /\ (r = 0 \/ o = 0) /\ Cardinality(To(refs, i)) = o
    BY <1>13, <1>14 DEF Tallied
  <2>3. IsFiniteSet(To(refs, i))
    <3>1. To(refs, i) \subseteq 1..Len(refs) /\ Len(refs) \in Nat
      <4> HIDE DEF refs
      <4> QED BY <1>13 DEF To
    <3> QED BY <3>1, PositionsFinite
  <2>4. Cardinality(To(refs, i)) = 0 <=> To(refs, i) = {}
    BY <2>3, FS_EmptySet
  <2> HIDE DEF c, b, r, o
  <2>5. IF c > b THEN o = c - b ELSE o = 0
    BY <2>1, <2>2
  <2> QED BY <2>2, <2>4, <2>5 DEF c, b
<1> QED BY <1>9, <1>13, <1>15 DEF acc

\* The items of a package, one for each text.
LEMMA ItemsType ==
  ASSUME NEW p \in Package
  PROVE  /\ p.evidence \in Seq(Texts) /\ ItemsOf(p) \in Seq(Items)
         /\ DOMAIN ItemsOf(p) = DOMAIN p.evidence
         /\ \A n \in DOMAIN p.evidence : p.evidence[n] \in Texts /\ ItemsOf(p)[n] = Normal[p.evidence[n]]
<1>1. p.evidence \in Seq(Texts)
  BY DEF Package
<1>2. \A n \in DOMAIN p.evidence : p.evidence[n] \in Texts /\ Normal[p.evidence[n]] \in Items
  BY <1>1, DeltaAssumption
<1> QED BY <1>1, <1>2 DEF ItemsOf

\* A delta refers to an item that was added exactly when there is more of it.
LEMMA DeltaRefers ==
  ASSUME NEW p \in Package, NEW q \in Package
  PROVE  LET d == Delta(p, q)
         IN  /\ d.added \in Seq(Ref("added")) /\ d.removed \in Seq(Ref("removed"))
             /\ IsInjective(d.added) /\ IsInjective(d.removed)
             /\ \A i \in Items :
                  /\ Count(ItemsOf(p), i) \in Nat /\ Count(ItemsOf(q), i) \in Nat
                  /\ Cardinality(To(d.added, i)) + Count(ItemsOf(p), i)
                       = Cardinality(To(d.removed, i)) + Count(ItemsOf(q), i)
                  /\ To(d.added, i) = {} <=> Count(ItemsOf(q), i) <= Count(ItemsOf(p), i)
                  /\ To(d.removed, i) = {} <=> Count(ItemsOf(p), i) <= Count(ItemsOf(q), i)
<1> DEFINE d == Delta(p, q)
           s == ItemsOf(p)
           t == ItemsOf(q)
<1>1. s \in Seq(Items) /\ t \in Seq(Items)
  BY ItemsType
<1>2. /\ d.added = MultisetDifference(t, s, "added")
      /\ d.removed = MultisetDifference(s, t, "removed")
  BY DEF Delta
<1> HIDE DEF s, t, d
<1>3. \A i \in Items : Count(s, i) \in Nat /\ Count(t, i) \in Nat
  BY <1>1, CountType
<1>4. /\ d.added \in Seq(Ref("added")) /\ IsInjective(d.added)
      /\ \A i \in Items :
           IF Count(t, i) > Count(s, i)
           THEN Cardinality(To(d.added, i)) = Count(t, i) - Count(s, i)
           ELSE To(d.added, i) = {} /\ Cardinality(To(d.added, i)) = 0
  BY <1>1, <1>2, DifferenceCounts
<1>5. /\ d.removed \in Seq(Ref("removed")) /\ IsInjective(d.removed)
      /\ \A i \in Items :
           IF Count(s, i) > Count(t, i)
           THEN Cardinality(To(d.removed, i)) = Count(s, i) - Count(t, i)
           ELSE To(d.removed, i) = {} /\ Cardinality(To(d.removed, i)) = 0
  BY <1>1, <1>2, DifferenceCounts
<1>6. Cardinality({}) = 0
  BY FS_EmptySet
<1>7. ASSUME NEW i \in Items
      PROVE  /\ Cardinality(To(d.added, i)) + Count(s, i) = Cardinality(To(d.removed, i)) + Count(t, i)
             /\ To(d.added, i) = {} <=> Count(t, i) <= Count(s, i)
             /\ To(d.removed, i) = {} <=> Count(s, i) <= Count(t, i)
  <2> DEFINE a == Count(s, i)
             b == Count(t, i)
             x == Cardinality(To(d.added, i))
             y == Cardinality(To(d.removed, i))
  <2>1. a \in Nat /\ b \in Nat
    BY <1>3
  <2>2. /\ IF b > a THEN x = b - a ELSE To(d.added, i) = {} /\ x = 0
        /\ IF a > b THEN y = a - b ELSE To(d.removed, i) = {} /\ y = 0
        /\ To(d.added, i) = {} => x = 0
        /\ To(d.removed, i) = {} => y = 0
    BY <1>4, <1>5, <1>6
  <2> HIDE DEF a, b, x, y
  <2>3. x + a = y + b
    BY <2>1, <2>2
  <2>4. To(d.added, i) = {} <=> b <= a
    BY <2>1, <2>2
  <2>5. To(d.removed, i) = {} <=> a <= b
    BY <2>1, <2>2
  <2> QED BY <2>3, <2>4, <2>5 DEF a, b, x, y
<1> QED BY <1>3, <1>4, <1>5, <1>7 DEF d, s, t

\* Evidence is equivalent exactly when its delta has no reference.
LEMMA EquivalentMeans ==
  ASSUME NEW p \in Package, NEW q \in Package
  PROVE  /\ Digest(p) = Digest(q) <=>
              /\ p.facts = q.facts /\ p.missing = q.missing
              /\ \A i \in Items : Count(ItemsOf(p), i) = Count(ItemsOf(q), i)
         /\ Digest(p) = Digest(q) <=> DeltaRefs(Delta(p, q)) = {}
<1> DEFINE d == Delta(p, q)
           s == ItemsOf(p)
           t == ItemsOf(q)
<1>0. /\ p.facts \in [Fields -> FactValues] /\ q.facts \in [Fields -> FactValues]
  BY DEF Package
<1>1. Digest(p) = Digest(q) <=>
        /\ p.facts = q.facts /\ p.missing = q.missing
        /\ \A i \in Items : Count(s, i) = Count(t, i)
  BY DEF Digest
<1>2. /\ d.changedFacts = {f \in Fields : p.facts[f] # q.facts[f]}
      /\ d.addedMissing = q.missing \ p.missing
      /\ d.resolvedMissing = p.missing \ q.missing
  BY DEF Delta
<1>3. /\ d.added \in Seq(Ref("added")) /\ d.removed \in Seq(Ref("removed"))
      /\ \A i \in Items :
           /\ Count(s, i) \in Nat /\ Count(t, i) \in Nat
           /\ To(d.added, i) = {} <=> Count(t, i) <= Count(s, i)
           /\ To(d.removed, i) = {} <=> Count(s, i) <= Count(t, i)
  BY DeltaRefers
<1> HIDE DEF d, s, t
<1>4. d.changedFacts = {} <=> p.facts = q.facts
  BY <1>0, <1>2
<1>5. d.addedMissing = {} /\ d.resolvedMissing = {} <=> p.missing = q.missing
  BY <1>2
<1>6. /\ d.added = <<>> <=> DOMAIN d.added = {}
      /\ d.removed = <<>> <=> DOMAIN d.removed = {}
  <2> DEFINE a == d.added
             r == d.removed
  <2>1. a \in Seq(Ref("added")) /\ r \in Seq(Ref("removed"))
    BY <1>3
  <2> HIDE DEF a, r
  <2>2. (a = <<>> <=> DOMAIN a = {}) /\ (r = <<>> <=> DOMAIN r = {})
    BY <2>1
  <2> QED BY <2>2 DEF a, r
<1>7. d.added = <<>> /\ d.removed = <<>> <=> \A i \in Items : Count(s, i) = Count(t, i)
  <2>1. /\ \A n \in DOMAIN d.added : d.added[n][2] \in Items
        /\ \A n \in DOMAIN d.removed : d.removed[n][2] \in Items
    BY <1>3 DEF Ref
  <2>2. d.added = <<>> <=> \A i \in Items : To(d.added, i) = {}
    BY <1>6, <2>1 DEF To
  <2>3. d.removed = <<>> <=> \A i \in Items : To(d.removed, i) = {}
    BY <1>6, <2>1 DEF To
  <2>4. \A i \in Items : Count(s, i) = Count(t, i) <=>
                           To(d.added, i) = {} /\ To(d.removed, i) = {}
    BY <1>3
  <2> QED BY <2>2, <2>3, <2>4
<1>8. DeltaRefs(d) = {} <=>
        /\ d.added = <<>> /\ d.removed = <<>>
        /\ d.changedFacts = {} /\ d.addedMissing = {} /\ d.resolvedMissing = {}
  <2>1. d.added = <<>> <=> {d.added[n] : n \in DOMAIN d.added} = {}
    BY <1>6
  <2>2. d.removed = <<>> <=> {d.removed[n] : n \in DOMAIN d.removed} = {}
    BY <1>6
  <2> QED BY <2>1, <2>2 DEF DeltaRefs
<1> QED BY <1>1, <1>4, <1>5, <1>7, <1>8 DEF d, s, t

-----------------------------------------------------------------------------
(***************************************************************************)
(* The inductive invariant: what is known of the last delivery's decision   *)
(* is that it was made of the two packages on show.                         *)
(***************************************************************************)

DecisionMade ==
  IF subject = None
  THEN latest = None /\ prior = None /\ decision = None
  ELSE /\ subject \in Firing /\ latest \in PackagesOf[subject]
       /\ prior = None => decision = [outcome |-> "first_observation", basis |-> "no_baseline"]
       /\ prior # None => decision \in Decisions(prior, latest)

StreamInv == TypeOK /\ DecisionMade /\ BaselineCoversLatest

\* What BaselineCoversLatest says of the run on record.
Covers(record, candidate) ==
  /\ \A i \in Items : Operational(i) =>
       Count(ItemsOf(candidate), i) <= Count(ItemsOf(record), i)
  /\ \A f \in Fields \ {"title"} : record.facts[f] = candidate.facts[f]
  /\ record.missing \subseteq candidate.missing

\* Decisions about two packages are decisions.
LEMMA DecisionsTyped ==
  ASSUME NEW p, NEW q
  PROVE  Decisions(p, q) \subseteq Decision
<1> DEFINE refs == DeltaRefs(Delta(p, q))
<1>1. \A reply : Judged(reply, refs) \in Decision
  <2> TAKE reply
  <2> HIDE DEF refs
  <2> QED BY DEF Judged, Decision
<1>2. /\ [outcome |-> "not_material", basis |-> "equivalent"] \in Decision
      /\ [outcome |-> "material", basis |-> "deterministic_policy"] \in Decision
  BY DEF Decision
<1>3. \A reply \in Replies(refs) : Judged(reply, refs) \in Decision
  BY <1>1
<1> QED BY <1>2, <1>3 DEF Decisions

\* The cases of a decision against a baseline.
LEMMA DecisionCases ==
  ASSUME NEW p, NEW q, NEW d \in Decisions(p, q)
  PROVE  \/ /\ Digest(p) = Digest(q)
            /\ d.outcome = "not_material" /\ d.basis = "equivalent"
         \/ /\ Digest(p) # Digest(q) /\ DeterministicallyMaterial(Delta(p, q))
            /\ d.outcome = "material" /\ d.basis = "deterministic_policy"
         \/ /\ Digest(p) # Digest(q) /\ ~DeterministicallyMaterial(Delta(p, q))
            /\ d.basis \in {"classifier", "classifier_fallback"}
<1> DEFINE refs == DeltaRefs(Delta(p, q))
<1>1. CASE Digest(p) = Digest(q)
  <2>1. Decisions(p, q) = {[outcome |-> "not_material", basis |-> "equivalent"]}
    BY <1>1 DEF Decisions
  <2> QED BY <1>1, <2>1
<1>2. CASE Digest(p) # Digest(q) /\ DeterministicallyMaterial(Delta(p, q))
  <2>1. Decisions(p, q) = {[outcome |-> "material", basis |-> "deterministic_policy"]}
    BY <1>2 DEF Decisions
  <2> QED BY <1>2, <2>1
<1>3. CASE Digest(p) # Digest(q) /\ ~DeterministicallyMaterial(Delta(p, q))
  <2>1. Decisions(p, q) = {Judged(reply, refs) : reply \in Replies(refs)}
    BY <1>3 DEF Decisions
  <2>2. PICK reply \in Replies(refs) : d = Judged(reply, refs)
    BY <2>1
  <2>3. d.basis \in {"classifier", "classifier_fallback"}
    <3> HIDE DEF refs
    <3> QED BY <2>2 DEF Judged
  <2> QED BY <1>3, <2>3
<1> QED BY <1>1, <1>2, <1>3

\* What is not decided by policy adds no operational evidence, resolves no missing
\* context and changes no fact but the title.
LEMMA UndecidedIsCovered ==
  ASSUME NEW p \in Package, NEW q \in Package, ~DeterministicallyMaterial(Delta(p, q))
  PROVE  Covers(p, q)
<1> DEFINE d == Delta(p, q)
<1>1. /\ d.changedFacts = {f \in Fields : p.facts[f] # q.facts[f]}
      /\ d.resolvedMissing = p.missing \ q.missing
  BY DEF Delta
<1>2. \A i \in Items : To(d.added, i) = {} <=> Count(ItemsOf(q), i) <= Count(ItemsOf(p), i)
  BY DeltaRefers
<1> HIDE DEF d
<1>3. /\ ~ \E n \in DOMAIN d.added : Operational(d.added[n][2])
      /\ d.resolvedMissing = {}
      /\ d.changedFacts \cap {"severity", "status", "service"} = {}
  BY DEF DeterministicallyMaterial, d
<1>4. ASSUME NEW i \in Items, Operational(i)
      PROVE  Count(ItemsOf(q), i) <= Count(ItemsOf(p), i)
  BY <1>2, <1>3, <1>4 DEF To
<1>5. \A f \in Fields \ {"title"} : p.facts[f] = q.facts[f]
  BY <1>1, <1>3 DEF Fields
<1>6. p.missing \subseteq q.missing
  BY <1>1, <1>3
<1> QED BY <1>4, <1>5, <1>6 DEF Covers

\* A package covers itself.
LEMMA ItselfCovered ==
  ASSUME NEW p \in Package
  PROVE  Covers(p, p)
<1>1. \A i \in Items : Count(ItemsOf(p), i) \in Nat
  BY ItemsType, CountType
<1> QED BY <1>1 DEF Covers

\* A delivery that is not triaged is covered by its baseline.
LEMMA SuppressedIsCovered ==
  ASSUME NEW p \in Package, NEW q \in Package, NEW d \in Decisions(p, q),
         d.outcome = "not_material"
  PROVE  Covers(p, q)
<1>1. CASE Digest(p) = Digest(q)
  <2>1. /\ p.facts = q.facts /\ p.missing = q.missing
        /\ \A i \in Items : Count(ItemsOf(p), i) = Count(ItemsOf(q), i)
    BY <1>1, EquivalentMeans
  <2>2. Covers(p, p)
    BY ItselfCovered
  <2> QED BY <2>1, <2>2 DEF Covers
<1>2. CASE ~DeterministicallyMaterial(Delta(p, q))
  BY <1>2, UndecidedIsCovered
<1>3. Digest(p) = Digest(q) \/ ~DeterministicallyMaterial(Delta(p, q))
  BY DecisionCases
<1> QED BY <1>1, <1>2, <1>3

\* The packages made of notifications are packages.
LEMMA PackageTypes ==
  /\ None \notin Packages /\ Packages \subseteq Package
  /\ None \notin Notifications /\ Firing \subseteq Notifications
  /\ DOMAIN PackagesOf = Firing
  /\ \A n \in Firing : IncidentOf(n) \in Incidents /\ PackagesOf[n] \subseteq Packages
<1>1. DOMAIN PackagesOf = Firing /\ Firing \subseteq Notifications
  BY DEF PackagesOf, Firing
<1>2. \A n \in Firing : PackagesOf[n] \subseteq Packages
  BY <1>1 DEF Packages, Range
<1>3. \A n \in Firing : IncidentOf(n) \in Incidents
  BY StreamAssumption DEF Firing
<1>4. Packages \subseteq Package /\ None \notin Packages /\ None \notin Notifications
  BY PackagesAssumption, StreamAssumption
<1> QED BY <1>1, <1>2, <1>3, <1>4

\* The invariant holds at first ...
LEMMA StreamInit ==
  ASSUME Init
  PROVE  StreamInv
<1>1. TypeOK
  BY DEF Init, TypeOK
<1>2. DecisionMade
  BY DEF Init, DecisionMade
<1>3. BaselineCoversLatest
  BY DEF Init, BaselineCoversLatest, OnRecord
<1> QED BY <1>1, <1>2, <1>3 DEF StreamInv

\* A delivery, whatever was decided about it.
LEMMA DeliverKeeps ==
  ASSUME TypeOK, NEW n \in Firing, NEW p \in PackagesOf[n], NEW d \in Decision,
         Deliver(n, p, d),
         LET record == baseline[IncidentOf(n)]
         IN  \/ record = None /\ d = [outcome |-> "first_observation", basis |-> "no_baseline"]
             \/ record # None /\ d \in Decisions(record, p)
  PROVE  StreamInv'
<1> DEFINE i == IncidentOf(n)
           record == baseline[i]
<1>1. /\ i \in Incidents /\ n \in Notifications /\ n # None /\ p \in Packages /\ p \in Package
      /\ record \in Packages \cup {None} /\ DOMAIN baseline = Incidents
  BY PackageTypes DEF TypeOK
<1>2. /\ subject' = n /\ latest' = p /\ prior' = record /\ decision' = d /\ resolved' = resolved
      /\ baseline' = [baseline EXCEPT ![i] = IF d.outcome = "not_material" THEN record ELSE p]
  BY DEF Deliver, BaselineAfter
<1>3. OnRecord' = IF d.outcome = "not_material" THEN record ELSE p
  <2>1. OnRecord' = baseline'[i]
    BY <1>1, <1>2 DEF OnRecord
  <2> HIDE DEF i
  <2> QED BY <1>1, <1>2, <2>1
<1>4. TypeOK'
  <2>1. baseline' \in [Incidents -> Packages \cup {None}]
    <3> HIDE DEF i, record
    <3> QED BY <1>1, <1>2 DEF TypeOK
  <2> HIDE DEF record
  <2> QED BY <1>1, <1>2, <2>1 DEF TypeOK
<1> HIDE DEF i, record
<1>5. DecisionMade'
  BY <1>1, <1>2 DEF DecisionMade, i, record
<1>6. BaselineCoversLatest'
  <2> SUFFICES ASSUME OnRecord' # None PROVE Covers(OnRecord', p)
    BY <1>2 DEF BaselineCoversLatest, Covers
  <2>1. CASE d.outcome = "not_material"
    <3>1. record # None /\ d \in Decisions(record, p)
      BY <1>3, <2>1 DEF i, record
    <3>2. record \in Package
      BY <1>1, <3>1, PackageTypes
    <3>3. Covers(record, p)
      BY <1>1, <2>1, <3>1, <3>2, SuppressedIsCovered
    <3> QED BY <1>3, <2>1, <3>3
  <2>2. CASE d.outcome # "not_material"
    BY <1>1, <1>3, <2>2, ItselfCovered
  <2> QED BY <2>1, <2>2
<1> QED BY <1>4, <1>5, <1>6 DEF StreamInv

\* ... and every step keeps it.
LEMMA StreamStep ==
  ASSUME StreamInv, [Next]_vars
  PROVE  StreamInv'
<1>0. TypeOK /\ DecisionMade /\ BaselineCoversLatest
  BY DEF StreamInv
<1>1. ASSUME NEW n \in Firing, NEW p \in PackagesOf[n], FirstObservation(n, p)
      PROVE  StreamInv'
  <2> DEFINE d == [outcome |-> "first_observation", basis |-> "no_baseline"]
  <2>1. d \in Decision
    BY DEF Decision
  <2>2. baseline[IncidentOf(n)] = None /\ Deliver(n, p, d)
    BY <1>1 DEF FirstObservation
  <2> QED BY <1>0, <2>1, <2>2, DeliverKeeps
<1>2. ASSUME NEW n \in Firing, NEW p \in PackagesOf[n], Redelivery(n, p)
      PROVE  StreamInv'
  <2>1. baseline[IncidentOf(n)] # None
    BY <1>2 DEF Redelivery
  <2>2. PICK d \in Decisions(baseline[IncidentOf(n)], p) : Deliver(n, p, d)
    BY <1>2 DEF Redelivery
  <2>3. d \in Decision
    BY DecisionsTyped
  <2> QED BY <1>0, <2>1, <2>2, <2>3, DeliverKeeps
<1>3. ASSUME NEW n \in AllResolved, Resolve(n)
      PROVE  StreamInv'
  <2>1. UNCHANGED <<baseline, last>> /\ resolved' = resolved \cup {IncidentOf(n)}
    BY <1>3 DEF Resolve
  <2>2. IncidentOf(n) \in Incidents
    BY StreamAssumption DEF AllResolved
  <2> QED BY <1>0, <2>1, <2>2
          DEF StreamInv, TypeOK, DecisionMade, BaselineCoversLatest, OnRecord, last
<1>4. ASSUME NEW i \in Incidents, ExpireRuns(i)
      PROVE  StreamInv'
  <2>1. /\ baseline' = [baseline EXCEPT ![i] = None]
        /\ resolved' = resolved /\ subject' = subject /\ latest' = latest /\ prior' = prior
        /\ decision' = decision
    BY <1>4 DEF ExpireRuns, last
  <2>2. TypeOK'
    BY <1>0, <2>1 DEF TypeOK
  <2>3. DecisionMade'
    BY <1>0, <2>1 DEF DecisionMade
  <2>4. OnRecord' = None \/ OnRecord' = OnRecord
    <3>1. CASE subject = None
      BY <2>1, <3>1 DEF OnRecord
    <3>2. CASE subject # None
      <4>1. IncidentOf(subject) \in Incidents
        BY <1>0, <3>2, PackageTypes DEF DecisionMade
      <4>2. OnRecord = baseline[IncidentOf(subject)] /\ OnRecord' = baseline'[IncidentOf(subject)]
        BY <2>1, <3>2 DEF OnRecord
      <4> DEFINE k == IncidentOf(subject)
      <4> HIDE DEF k
      <4>3. baseline'[k] = None \/ baseline'[k] = baseline[k]
        BY <1>0, <2>1, <4>1 DEF TypeOK, k
      <4> QED BY <4>2, <4>3 DEF k
    <3> QED BY <3>1, <3>2
  <2>5. BaselineCoversLatest'
    BY <1>0, <2>1, <2>4 DEF BaselineCoversLatest
  <2> QED BY <2>2, <2>3, <2>5 DEF StreamInv
<1>5. ASSUME NEW i \in Incidents, ExpireOutcomes(i)
      PROVE  StreamInv'
  <2>1. UNCHANGED <<baseline, last>> /\ resolved' = resolved \ {i}
    BY <1>5 DEF ExpireOutcomes
  <2> QED BY <1>0, <2>1
          DEF StreamInv, TypeOK, DecisionMade, BaselineCoversLatest, OnRecord, last
<1>6. CASE UNCHANGED vars
  BY <1>0, <1>6 DEF StreamInv, TypeOK, DecisionMade, BaselineCoversLatest, OnRecord, vars, last
<1> QED BY <1>1, <1>2, <1>3, <1>4, <1>5, <1>6 DEF Next

\* The last decision is one the gate may make about the last package, and the run on
\* record covers the last delivery: no step of the stream breaks either.
THEOREM StreamInvariant == Spec => []StreamInv
<1>1. Init => StreamInv
  BY StreamInit
<1>2. StreamInv /\ [Next]_vars => StreamInv'
  BY StreamStep
<1> QED BY <1>1, <1>2, PTL DEF Spec

\* Nothing that operators must act on is suppressed: the run on record has seen
\* whatever is operational in the last delivery.
THEOREM BaselineCovers == Spec => []BaselineCoversLatest
<1>1. StreamInv => BaselineCoversLatest
  BY DEF StreamInv
<1> QED BY <1>1, StreamInvariant, PTL

\* What the last decision was about.
LEMMA ComparedPackages ==
  ASSUME StreamInv, Compared
  PROVE  /\ subject \in Firing /\ latest \in PackagesOf[subject]
         /\ prior \in Packages /\ latest \in Packages
         /\ prior \in Package /\ latest \in Package
         /\ decision \in Decisions(prior, latest)
BY PackageTypes DEF StreamInv, TypeOK, DecisionMade, Compared

\* The delta of the two packages that were compared last accounts for every
\* difference, and a decision that something is material has a reference.
THEOREM DeltaExact == Spec => []DeltaIsExact
<1>1. StreamInv => DeltaIsExact
  <2> SUFFICES ASSUME StreamInv, Compared
               PROVE  LET d == Delta(prior, latest)
                      IN  /\ \A i \in Items :
                               /\ Cardinality(To(d.added, i)) + Count(ItemsOf(prior), i)
                                    = Cardinality(To(d.removed, i)) + Count(ItemsOf(latest), i)
                               /\ To(d.added, i) = {} \/ To(d.removed, i) = {}
                          /\ IsInjective(d.added) /\ IsInjective(d.removed)
                          /\ (Digest(prior) = Digest(latest)) = (DeltaRefs(d) = {})
                          /\ decision.outcome = "material" => DeltaRefs(d) # {}
    BY DEF DeltaIsExact, To
  <2> DEFINE d == Delta(prior, latest)
  <2>1. prior \in Package /\ latest \in Package /\ decision \in Decisions(prior, latest)
    BY ComparedPackages
  <2>2. /\ IsInjective(d.added) /\ IsInjective(d.removed)
        /\ \A i \in Items :
             /\ Count(ItemsOf(prior), i) \in Nat /\ Count(ItemsOf(latest), i) \in Nat
             /\ Cardinality(To(d.added, i)) + Count(ItemsOf(prior), i)
                  = Cardinality(To(d.removed, i)) + Count(ItemsOf(latest), i)
             /\ To(d.added, i) = {} <=> Count(ItemsOf(latest), i) <= Count(ItemsOf(prior), i)
             /\ To(d.removed, i) = {} <=> Count(ItemsOf(prior), i) <= Count(ItemsOf(latest), i)
    BY <2>1, DeltaRefers
  <2>3. Digest(prior) = Digest(latest) <=> DeltaRefs(d) = {}
    BY <2>1, EquivalentMeans
  <2>4. Digest(prior) = Digest(latest) => decision.outcome # "material"
    BY <2>1, DecisionCases
  <2> HIDE DEF d
  <2>5. ASSUME NEW i \in Items
        PROVE  To(d.added, i) = {} \/ To(d.removed, i) = {}
    BY <2>2
  <2> QED BY <2>2, <2>3, <2>4, <2>5 DEF d
<1> QED BY <1>1, StreamInvariant, PTL

-----------------------------------------------------------------------------
(***************************************************************************)
(* Packages: which evidence of which source a notification makes.           *)
(***************************************************************************)

\* A sequence of evidence of one source.
LEMMA FoundValues ==
  ASSUME NEW V, NEW words \in Seq(V), NEW source
  PROVE  /\ Found(source, words) \in Seq([source : {source}, words : V])
         /\ DOMAIN Found(source, words) = DOMAIN words
         /\ ToSet(Found(source, words)) = {[source |-> source, words |-> w] : w \in ToSet(words)}
         /\ Found(source, words) = <<>> <=> words = <<>>
<1>1. DOMAIN words = 1..Len(words) /\ Len(words) \in Nat /\ \A k \in DOMAIN words : words[k] \in V
  OBVIOUS
<1>2. Found(source, words) = [k \in 1..Len(words) |-> [source |-> source, words |-> words[k]]]
  BY <1>1 DEF Found
<1>3. Found(source, words) \in Seq([source : {source}, words : V])
  BY <1>1, <1>2
<1>4. words = <<>> <=> Len(words) = 0
  OBVIOUS
<1>5. Found(source, words) = <<>> <=> words = <<>>
  BY <1>1, <1>2, <1>4
<1>6. ToSet(Found(source, words)) = {[source |-> source, words |-> w] : w \in ToSet(words)}
  BY <1>1, <1>2 DEF ToSet
<1> QED BY <1>1, <1>2, <1>3, <1>5, <1>6

\* The first value present, above all when that is the first.
LEMMA FirstOfValue ==
  ASSUME NEW V, NEW values \in Seq(V), NEW default
  PROVE  /\ FirstOf(values, default) \in V \cup {default}
         /\ values # <<>> /\ values[1] # NoValue => FirstOf(values, default) = values[1]
<1> DEFINE present == {k \in DOMAIN values : values[k] # NoValue}
<1>0. DOMAIN values = 1..Len(values) /\ Len(values) \in Nat
  OBVIOUS
<1>1. CASE present = {}
  <2>1. FirstOf(values, default) = default
    BY <1>1 DEF FirstOf
  <2>2. values # <<>> => 1 \in DOMAIN values
    BY <1>0
  <2> QED BY <1>1, <2>1, <2>2
<1>2. CASE present # {}
  <2>1. present \subseteq Nat /\ present \subseteq DOMAIN values
    BY <1>0
  <2>2. FirstOf(values, default) = values[Min(present)]
    BY <1>2 DEF FirstOf
  <2>3. values # <<>> /\ values[1] # NoValue => 1 \in present
    BY <1>0
  <2>4. \A k \in present : 1 <= k
    BY <1>0
  <2> HIDE DEF present
  <2>5. \E x \in present : \A y \in present : x <= y
    BY <1>2, <2>1, LeastExists
  <2> DEFINE m == Min(present)
  <2>6. m \in present /\ \A y \in present : m <= y
    BY <2>5 DEF Min
  <2> HIDE DEF m
  <2>7. values[m] \in V
    BY <2>1, <2>6
  <2>8. 1 \in present => m = 1
    <3>1. 1 \in present => m <= 1 /\ 1 <= m /\ m \in Nat
      BY <2>1, <2>4, <2>6
    <3> QED BY <3>1
  <2> QED BY <2>2, <2>3, <2>7, <2>8 DEF m
<1> QED BY <1>1, <1>2

\* The words a notification and a reply have of each source.
Sources == {"alert", "symptom", "deploy", "log", "service", "runbook", "verification"}

WordsOf(n, r) ==
  LET active == ActiveAlerts(n)
      service == Service(n)
      refs == RunbookRefs(active)
  IN  [alert |-> AlertNames(active), symptom |-> Symptoms(active), deploy |-> DeploysOf[service],
       log |-> LogLines(r), service |-> IF service \in Owned THEN <<service>> ELSE <<>>,
       runbook |-> Subsequence(refs, {k \in DOMAIN refs : refs[k] \in Runbooks}),
       verification |-> VerificationSignals(active)]

\* The firing alerts of a notification are alerts.
LEMMA ActiveType ==
  ASSUME NEW n \in Notifications
  PROVE  n.alerts \in Seq(Alert) /\ ActiveAlerts(n) \in Seq(Alert)
<1>1. n.alerts \in Seq(Alert)
  BY StreamAssumption DEF Notification
<1> DEFINE keep == {k \in DOMAIN n.alerts : n.alerts[k].status = "firing"}
<1>2. keep \subseteq DOMAIN n.alerts
  OBVIOUS
<1> HIDE DEF keep
<1>3. Subsequence(n.alerts, keep) \in Seq(Alert)
  BY <1>1, <1>2, SubsequenceLists
<1> QED BY <1>1, <1>3 DEF ActiveAlerts, keep

\* A service that was found is a word.
LEMMA ServiceType ==
  ASSUME NEW n \in Notifications, Service(n) # NoValue
  PROVE  Service(n) \in Words
<1> DEFINE values == <<n.service>> \o [k \in DOMAIN n.alerts |-> n.alerts[k].service]
<1>1. n.service \in Label /\ n.alerts \in Seq(Alert)
  BY StreamAssumption DEF Notification
<1>2. [k \in DOMAIN n.alerts |-> n.alerts[k].service] \in Seq(Label)
  <2>1. DOMAIN n.alerts = 1..Len(n.alerts) /\ Len(n.alerts) \in Nat
    BY <1>1
  <2>2. \A k \in DOMAIN n.alerts : n.alerts[k].service \in Label
    <3>1. \A k \in DOMAIN n.alerts : n.alerts[k] \in Alert
      BY <1>1
    <3> QED BY <3>1 DEF Alert
  <2> QED BY <2>1, <2>2
<1>3. values \in Seq(Label)
  BY <1>1, <1>2
<1> HIDE DEF values
<1>4. FirstOf(values, NoValue) \in Label \cup {NoValue}
  BY <1>3, FirstOfValue
<1>5. Service(n) = FirstOf(values, NoValue)
  BY DEF Service, values
<1> QED BY <1>4, <1>5 DEF Label

\* The lists an alert has of words.
LEMMA FlattenedAlerts ==
  ASSUME NEW alerts \in Seq(Alert), NEW lists, DOMAIN lists = DOMAIN alerts,
         lists = [k \in DOMAIN alerts |-> lists[k]],
         \A k \in DOMAIN alerts : lists[k] \in Seq(Words)
  PROVE  /\ lists \in Seq(Seq(Words))
         /\ FlattenSeq(lists) \in Seq(Words)
         /\ Unique(FlattenSeq(lists)) \in Seq(Words) /\ IsInjective(Unique(FlattenSeq(lists)))
         /\ ToSet(Unique(FlattenSeq(lists))) = UNION {ToSet(lists[k]) : k \in DOMAIN alerts}
<1>1. lists \in Seq(Seq(Words))
  <2>1. DOMAIN alerts = 1..Len(alerts) /\ Len(alerts) \in Nat
    OBVIOUS
  <2> QED BY <2>1
<1>2. /\ FlattenSeq(lists) \in Seq(Words)
      /\ ToSet(FlattenSeq(lists)) = UNION {ToSet(lists[k]) : k \in DOMAIN lists}
  BY <1>1, FlattenedValues
<1> DEFINE flat == FlattenSeq(lists)
<1>3. flat \in Seq(Words)
  BY <1>2
<1> HIDE DEF flat
<1>4. /\ Unique(flat) \in Seq(Words) /\ IsInjective(Unique(flat))
      /\ ToSet(Unique(flat)) = ToSet(flat)
  BY <1>3, UniqueValues
<1> QED BY <1>1, <1>2, <1>4 DEF flat

Signals(a) == (IF a.fingerprint = NoValue THEN <<>> ELSE <<a.fingerprint>>) \o a.links

\* What is listed of the alerts of a group, in terms of sets.
LEMMA ListsOfAlerts ==
  ASSUME NEW alerts \in Seq(Alert)
  PROVE  /\ Symptoms(alerts) \in Seq(Words) /\ IsInjective(Symptoms(alerts))
         /\ ToSet(Symptoms(alerts)) = UNION {ToSet(alerts[k].symptoms) : k \in DOMAIN alerts}
         /\ RunbookRefs(alerts) \in Seq(Words) /\ IsInjective(RunbookRefs(alerts))
         /\ ToSet(RunbookRefs(alerts)) = UNION {ToSet(alerts[k].runbooks) : k \in DOMAIN alerts}
         /\ VerificationSignals(alerts) \in Seq(Words) /\ IsInjective(VerificationSignals(alerts))
         /\ ToSet(VerificationSignals(alerts)) = UNION {ToSet(Signals(alerts[k])) : k \in DOMAIN alerts}
<1> DEFINE s == [k \in DOMAIN alerts |-> alerts[k].symptoms]
           b == [k \in DOMAIN alerts |-> alerts[k].runbooks]
           v == [k \in DOMAIN alerts |-> Signals(alerts[k])]
<1>1. \A k \in DOMAIN alerts : alerts[k] \in Alert
  OBVIOUS
<1>2. \A a \in Alert : a.symptoms \in Seq(Words) /\ a.runbooks \in Seq(Words)
                       /\ Signals(a) \in Seq(Words)
  <2> TAKE a \in Alert
  <2>1. /\ a.symptoms \in Seq(Words) /\ a.runbooks \in Seq(Words) /\ a.links \in Seq(Words)
        /\ a.fingerprint \in Words \cup {NoValue}
    BY DEF Alert, Label
  <2>2. (IF a.fingerprint = NoValue THEN <<>> ELSE <<a.fingerprint>>) \in Seq(Words)
    BY <2>1
  <2>3. Signals(a) \in Seq(Words)
    BY <2>1, <2>2 DEF Signals
  <2> QED BY <2>1, <2>3
<1>3. /\ DOMAIN s = DOMAIN alerts /\ s = [k \in DOMAIN alerts |-> s[k]]
      /\ \A k \in DOMAIN alerts : s[k] \in Seq(Words) /\ s[k] = alerts[k].symptoms
  BY <1>1, <1>2
<1>4. /\ DOMAIN b = DOMAIN alerts /\ b = [k \in DOMAIN alerts |-> b[k]]
      /\ \A k \in DOMAIN alerts : b[k] \in Seq(Words) /\ b[k] = alerts[k].runbooks
  BY <1>1, <1>2
<1>5. /\ DOMAIN v = DOMAIN alerts /\ v = [k \in DOMAIN alerts |-> v[k]]
      /\ \A k \in DOMAIN alerts : v[k] \in Seq(Words) /\ v[k] = Signals(alerts[k])
  BY <1>1, <1>2
<1>6. /\ Symptoms(alerts) = Unique(FlattenSeq(s))
      /\ RunbookRefs(alerts) = Unique(FlattenSeq(b))
      /\ VerificationSignals(alerts) = Unique(FlattenSeq(v))
  BY DEF Symptoms, RunbookRefs, VerificationSignals, Signals
<1> HIDE DEF s, b, v
<1>7. /\ Unique(FlattenSeq(s)) \in Seq(Words) /\ IsInjective(Unique(FlattenSeq(s)))
      /\ ToSet(Unique(FlattenSeq(s))) = UNION {ToSet(s[k]) : k \in DOMAIN alerts}
  BY <1>3, FlattenedAlerts
<1>8. /\ Unique(FlattenSeq(b)) \in Seq(Words) /\ IsInjective(Unique(FlattenSeq(b)))
      /\ ToSet(Unique(FlattenSeq(b))) = UNION {ToSet(b[k]) : k \in DOMAIN alerts}
  BY <1>4, FlattenedAlerts
<1>9. /\ Unique(FlattenSeq(v)) \in Seq(Words) /\ IsInjective(Unique(FlattenSeq(v)))
      /\ ToSet(Unique(FlattenSeq(v))) = UNION {ToSet(v[k]) : k \in DOMAIN alerts}
  BY <1>5, FlattenedAlerts
<1>10. {ToSet(s[k]) : k \in DOMAIN alerts} = {ToSet(alerts[k].symptoms) : k \in DOMAIN alerts}
  BY <1>3
<1>11. {ToSet(b[k]) : k \in DOMAIN alerts} = {ToSet(alerts[k].runbooks) : k \in DOMAIN alerts}
  BY <1>4
<1>12. {ToSet(v[k]) : k \in DOMAIN alerts} = {ToSet(Signals(alerts[k])) : k \in DOMAIN alerts}
  BY <1>5
<1> QED BY <1>6, <1>7, <1>8, <1>9, <1>10, <1>11, <1>12

\* The lines kept of a reply are words.
LEMMA LogLinesType ==
  ASSUME NEW r \in LogReplies
  PROVE  LogLines(r) \in Seq(Words)
<1> DEFINE lines == FlattenSeq(r.streams)
           m == IF Len(lines) < LogLimit THEN Len(lines) ELSE LogLimit
<1>1. r.streams \in Seq(Seq(Words))
  BY StreamAssumption DEF LogReply
<1>2. lines \in Seq(Words)
  BY <1>1, FlattenedValues
<1> HIDE DEF lines
<1>3. m \in 0..Len(lines) /\ Len(lines) \in Nat
  BY <1>2, IntakeAssumption
<1> HIDE DEF m
<1>4. SubSeq(lines, 1, m) \in Seq(Words)
  BY <1>2, <1>3
<1> QED BY <1>4 DEF LogLines, EntriesFromPayload, lines, m

\* The words of a package are of any set that has the words and the names of alerts.
LEMMA WordsType ==
  ASSUME NEW n \in Notifications, Service(n) # NoValue, NEW r \in LogReplies,
         NEW W, Words \subseteq W, ToSet(AlertNames(ActiveAlerts(n))) \subseteq W
  PROVE  \A s \in Sources : WordsOf(n, r)[s] \in Seq(W)
<1> DEFINE w == WordsOf(n, r)
           active == ActiveAlerts(n)
           names == AlertNames(active)
<1>1. active \in Seq(Alert) /\ Service(n) \in Words
  BY ActiveType, ServiceType
<1> HIDE DEF active
<1>2. names \in Seq(W)
  <2>1. DOMAIN active = 1..Len(active) /\ Len(active) \in Nat
    BY <1>1
  <2>2. names = [k \in 1..Len(active) |-> names[k]]
    BY <2>1 DEF AlertNames
  <2>3. \A k \in 1..Len(active) : names[k] \in W
    BY <2>2 DEF ToSet, active
  <2> HIDE DEF names
  <2> QED BY <2>1, <2>2, <2>3
<1> HIDE DEF names
<1>3. /\ Symptoms(active) \in Seq(W) /\ DeploysOf[Service(n)] \in Seq(W) /\ LogLines(r) \in Seq(W)
      /\ (IF Service(n) \in Owned THEN <<Service(n)>> ELSE <<>>) \in Seq(W)
      /\ VerificationSignals(active) \in Seq(W)
      /\ RunbookRefs(active) \in Seq(W)
  <2>1. /\ Symptoms(active) \in Seq(Words) /\ DeploysOf[Service(n)] \in Seq(Words)
        /\ LogLines(r) \in Seq(Words)
        /\ VerificationSignals(active) \in Seq(Words)
        /\ RunbookRefs(active) \in Seq(Words)
    BY <1>1, ListsOfAlerts, LogLinesType, IntakeAssumption
  <2>2. \A s \in Seq(Words) : s \in Seq(W)
    OBVIOUS
  <2>3. (IF Service(n) \in Owned THEN <<Service(n)>> ELSE <<>>) \in Seq(W)
    BY <1>1
  <2> QED BY <2>1, <2>2, <2>3
<1>4. w["runbook"] \in Seq(W)
  <2> DEFINE refs == RunbookRefs(active)
             keep == {k \in DOMAIN refs : refs[k] \in Runbooks}
  <2>1. w["runbook"] = Subsequence(refs, keep)
    BY DEF WordsOf, active
  <2>2. refs \in Seq(W) /\ keep \subseteq DOMAIN refs
    BY <1>3
  <2> HIDE DEF refs, keep, w
  <2> QED BY <2>1, <2>2, SubsequenceLists
<1>5. /\ w["alert"] = names /\ w["symptom"] = Symptoms(active) /\ w["deploy"] = DeploysOf[Service(n)]
      /\ w["log"] = LogLines(r) /\ w["verification"] = VerificationSignals(active)
      /\ w["service"] = IF Service(n) \in Owned THEN <<Service(n)>> ELSE <<>>
  BY DEF WordsOf, names, active
<1> HIDE DEF w
<1>6. \A s \in Sources : w[s] \in Seq(W)
  BY <1>2, <1>3, <1>4, <1>5 DEF Sources
<1> QED BY <1>6 DEF w

\* The evidence found of one source, among that of all.
LEMMA FoundType ==
  ASSUME NEW W, NEW v \in Seq(W), NEW s \in Sources
  PROVE  /\ Found(s, v) \in Seq([source : Sources, words : W])
         /\ ToSet(Found(s, v)) = {[source |-> s, words |-> x] : x \in ToSet(v)}
         /\ Found(s, v) = <<>> <=> v = <<>>
<1> DEFINE D == [source : {s}, words : W]
           E == [source : Sources, words : W]
<1>1. /\ Found(s, v) \in Seq(D)
      /\ ToSet(Found(s, v)) = {[source |-> s, words |-> x] : x \in ToSet(v)}
      /\ Found(s, v) = <<>> <=> v = <<>>
  BY FoundValues
<1>2. D \subseteq E
  OBVIOUS
<1> HIDE DEF D, E
<1>3. Found(s, v) \in Seq(E)
  BY <1>1, <1>2
<1> QED BY <1>1, <1>3 DEF E

\* A package in terms of the words of its sources.
LEMMA PackageWords ==
  ASSUME NEW n, NEW r
  PROVE  LET p == BuildPackage(n, r)
             F(s) == Found(s, WordsOf(n, r)[s])
         IN  /\ p.evidence = F("alert") \o F("symptom") \o F("deploy") \o F("log") \o F("service")
                               \o F("runbook") \o F("verification")
             /\ p.missing = {c \in {"logs", "service", "runbook", "verification"} :
                               F(IF c = "logs" THEN "log" ELSE c) = <<>>}
BY DEF BuildPackage, WordsOf, ServiceEvidence, RunbookEvidence, MissingContext

\* Every source has a sequence of words, and the evidence of a package has a text
\* for each of them and no other.
LEMMA PackageEvidence ==
  ASSUME NEW n \in Notifications, Service(n) # NoValue, NEW r \in LogReplies
  PROVE  LET p == BuildPackage(n, r)
             w == WordsOf(n, r)
         IN  /\ \A s \in Sources : \E V : w[s] \in Seq(V)
             /\ ToSet(p.evidence) =
                  UNION {{[source |-> s, words |-> x] : x \in ToSet(w[s])} : s \in Sources}
             /\ p.missing = {c \in {"logs", "service", "runbook", "verification"} :
                               w[IF c = "logs" THEN "log" ELSE c] = <<>>}
<1> DEFINE p == BuildPackage(n, r)
           w == WordsOf(n, r)
           W == Words \cup ToSet(AlertNames(ActiveAlerts(n)))
           E == [source : Sources, words : W]
           F(s) == Found(s, w[s])
<1>1. \A s \in Sources : w[s] \in Seq(W)
  <2>1. Words \subseteq W /\ ToSet(AlertNames(ActiveAlerts(n))) \subseteq W
    OBVIOUS
  <2> HIDE DEF W
  <2> QED BY <2>1, WordsType
<1> HIDE DEF W
<1>2. /\ p.evidence = F("alert") \o F("symptom") \o F("deploy") \o F("log") \o F("service")
                        \o F("runbook") \o F("verification")
      /\ p.missing = {c \in {"logs", "service", "runbook", "verification"} :
                        F(IF c = "logs" THEN "log" ELSE c) = <<>>}
  BY PackageWords
<1> HIDE DEF w, p
<1>3. ASSUME NEW s \in Sources
      PROVE  /\ F(s) \in Seq(E)
             /\ ToSet(F(s)) = {[source |-> s, words |-> x] : x \in ToSet(w[s])}
             /\ F(s) = <<>> <=> w[s] = <<>>
  <2> DEFINE v == w[s]
  <2>1. v \in Seq(W)
    BY <1>1
  <2> HIDE DEF v
  <2>2. /\ Found(s, v) \in Seq([source : Sources, words : W])
        /\ ToSet(Found(s, v)) = {[source |-> s, words |-> x] : x \in ToSet(v)}
        /\ Found(s, v) = <<>> <=> v = <<>>
    BY <2>1, FoundType
  <2> QED BY <2>2 DEF v
<1> HIDE DEF E, F
<1>4. ToSet(p.evidence) = ToSet(F("alert")) \cup ToSet(F("symptom")) \cup ToSet(F("deploy"))
         \cup ToSet(F("log")) \cup ToSet(F("service")) \cup ToSet(F("runbook"))
         \cup ToSet(F("verification"))
  <2> DEFINE a == F("alert")
             b == a \o F("symptom")
             c == b \o F("deploy")
             d == c \o F("log")
             e == d \o F("service")
             f == e \o F("runbook")
             g == f \o F("verification")
  <2>0. \A s \in Sources : F(s) \in Seq(E)
    BY <1>3
  <2>1. a \in Seq(E)
    BY <2>0 DEF Sources
  <2> HIDE DEF a
  <2>2. b \in Seq(E) /\ ToSet(b) = ToSet(a) \cup ToSet(F("symptom"))
    BY <2>0, <2>1, ConcatValues DEF Sources
  <2> HIDE DEF b
  <2>3. c \in Seq(E) /\ ToSet(c) = ToSet(b) \cup ToSet(F("deploy"))
    BY <2>0, <2>2, ConcatValues DEF Sources
  <2> HIDE DEF c
  <2>4. d \in Seq(E) /\ ToSet(d) = ToSet(c) \cup ToSet(F("log"))
    BY <2>0, <2>3, ConcatValues DEF Sources
  <2> HIDE DEF d
  <2>5. e \in Seq(E) /\ ToSet(e) = ToSet(d) \cup ToSet(F("service"))
    BY <2>0, <2>4, ConcatValues DEF Sources
  <2> HIDE DEF e
  <2>6. f \in Seq(E) /\ ToSet(f) = ToSet(e) \cup ToSet(F("runbook"))
    BY <2>0, <2>5, ConcatValues DEF Sources
  <2> HIDE DEF f
  <2>7. g \in Seq(E) /\ ToSet(g) = ToSet(f) \cup ToSet(F("verification"))
    BY <2>0, <2>6, ConcatValues DEF Sources
  <2>8. g = p.evidence
    BY <1>2 DEF a, b, c, d, e, f, g
  <2> HIDE DEF g
  <2> QED BY <2>2, <2>3, <2>4, <2>5, <2>6, <2>7, <2>8 DEF a
<1>5. ToSet(p.evidence) = UNION {ToSet(F(s)) : s \in Sources}
  BY <1>4 DEF Sources
<1> DEFINE X(s) == {[source |-> s, words |-> x] : x \in ToSet(w[s])}
<1>6. {ToSet(F(s)) : s \in Sources} = {X(s) : s \in Sources}
  <2>1. \A s \in Sources : ToSet(F(s)) = X(s)
    BY <1>3
  <2> HIDE DEF X
  <2> QED BY <2>1
<1>7. p.missing = {c \in {"logs", "service", "runbook", "verification"} :
                      w[IF c = "logs" THEN "log" ELSE c] = <<>>}
  BY <1>2, <1>3 DEF Sources
<1>8. \A s \in Sources : \E V : w[s] \in Seq(V)
  BY <1>1
<1> QED BY <1>5, <1>6, <1>7, <1>8 DEF p, w

\* The items of a package are its texts, normalised.
LEMMA CountedItems ==
  ASSUME NEW p \in Package, NEW i \in Items
  PROVE  /\ Count(ItemsOf(p), i) \in Nat
         /\ Count(ItemsOf(p), i) # 0 <=> \E t \in ToSet(p.evidence) : Normal[t] = i
         /\ Count(ItemsOf(p), i) # 0 <=> i \in ToSet(ItemsOf(p))
<1>1. /\ ItemsOf(p) \in Seq(Items) /\ DOMAIN ItemsOf(p) = DOMAIN p.evidence
      /\ \A n \in DOMAIN p.evidence : ItemsOf(p)[n] = Normal[p.evidence[n]]
  BY ItemsType
<1>2. /\ Count(ItemsOf(p), i) \in Nat
      /\ Count(ItemsOf(p), i) = 0 <=> i \notin ToSet(ItemsOf(p))
  BY <1>1, CountType
<1>3. i \in ToSet(ItemsOf(p)) <=> \E t \in ToSet(p.evidence) : Normal[t] = i
  BY <1>1 DEF ToSet
<1> QED BY <1>2, <1>3

\* The texts of a package and the sources and tiers of their items.
LEMMA TextTypes ==
  ASSUME NEW p \in Package, NEW t \in ToSet(p.evidence)
  PROVE  t \in Texts /\ Normal[t] \in Items /\ Normal[t].source = t.source
         /\ TierOf[Normal[t]] = SourceTier[t.source]
<1>1. t \in Texts
  BY ItemsType DEF ToSet
<1>2. Normal[t] \in Items
  BY <1>1, DeltaAssumption
<1> QED BY <1>1, <1>2, SourceAssumption

\* A package has items of a source if it has words of it.
LEMMA SourceItems ==
  ASSUME NEW n \in Firing, NEW r \in LogReplies, NEW s \in Sources
  PROVE  LET p == BuildPackage(n, r)
         IN  /\ p \in Package
             /\ WordsOf(n, r)[s] = <<>> <=>
                  \A i \in Items : i.source = s => Count(ItemsOf(p), i) = 0
<1> DEFINE p == BuildPackage(n, r)
           w == WordsOf(n, r)
<1>1. n \in Notifications /\ Service(n) # NoValue
  BY DEF Firing, Accepted
<1>2. p \in Package
  <2>1. p \in PackagesOf[n]
    BY DEF PackagesOf
  <2> HIDE DEF p
  <2> QED BY <2>1, PackageTypes
<1>3. /\ \E V : w[s] \in Seq(V)
      /\ ToSet(p.evidence) = UNION {{[source |-> z, words |-> x] : x \in ToSet(w[z])} : z \in Sources}
  BY <1>1, PackageEvidence
<1> HIDE DEF p, w
<1>4. w[s] = <<>> <=> ToSet(w[s]) = {}
  <2> DEFINE v == w[s]
  <2>1. PICK V : v \in Seq(V)
    BY <1>3
  <2> HIDE DEF v
  <2>2. v = <<>> <=> DOMAIN v = {}
    BY <2>1
  <2> QED BY <2>2 DEF ToSet, v
<1>5. \A t \in ToSet(p.evidence) : t.source = s => t.words \in ToSet(w[s])
  BY <1>3
<1>6. \A x \in ToSet(w[s]) : [source |-> s, words |-> x] \in ToSet(p.evidence)
  <2> DEFINE X(z) == {[source |-> z, words |-> x] : x \in ToSet(w[z])}
  <2>1. X(s) \in {X(z) : z \in Sources} /\ ToSet(p.evidence) = UNION {X(z) : z \in Sources}
    BY <1>3
  <2>2. \A x \in ToSet(w[s]) : [source |-> s, words |-> x] \in X(s)
    OBVIOUS
  <2> HIDE DEF X
  <2> QED BY <2>1, <2>2
<1>7. ASSUME NEW x \in ToSet(w[s])
      PROVE  \E i \in Items : i.source = s /\ Count(ItemsOf(p), i) # 0
  <2> DEFINE t == [source |-> s, words |-> x]
  <2>1. t \in ToSet(p.evidence) /\ t.source = s
    BY <1>6
  <2> HIDE DEF t
  <2>2. Normal[t] \in Items /\ Normal[t].source = s
    BY <1>2, <2>1, TextTypes
  <2>3. Count(ItemsOf(p), Normal[t]) # 0
    BY <1>2, <2>1, <2>2, CountedItems
  <2> QED BY <2>2, <2>3
<1>8. ASSUME NEW i \in Items, i.source = s, Count(ItemsOf(p), i) # 0
      PROVE  ToSet(w[s]) # {}
  <2>1. PICK t \in ToSet(p.evidence) : Normal[t] = i
    BY <1>2, <1>8, CountedItems
  <2>2. t.source = s
    BY <1>2, <1>8, <2>1, TextTypes
  <2> QED BY <1>5, <2>2
<1> QED BY <1>2, <1>4, <1>7, <1>8 DEF p, w

\* What the last package was made of.
LEMMA LatestBuilt ==
  ASSUME StreamInv, subject # None
  PROVE  /\ subject \in Firing /\ latest \in Package
         /\ \E r \in LogReplies : latest = BuildPackage(subject, r)
<1>1. subject \in Firing /\ latest \in PackagesOf[subject]
  BY DEF StreamInv, DecisionMade
<1>2. latest \in Package
  BY <1>1, PackageTypes
<1>3. \E r \in LogReplies : latest = BuildPackage(subject, r)
  BY <1>1 DEF PackagesOf
<1> QED BY <1>1, <1>2, <1>3

\* What Grafana signals in the last delivery is on record.
LEMMA SignalsOnRecord ==
  ASSUME StreamInv, OnRecord # None, NEW t \in ToSet(latest.evidence),
         t.source \in {"alert", "symptom"}
  PROVE  t \in Texts /\ Normal[t] \in ToSet(ItemsOf(OnRecord))
<1>1. subject # None
  BY DEF OnRecord
<1>2. latest \in Package /\ IncidentOf(subject) \in Incidents
  BY <1>1, LatestBuilt, PackageTypes
<1>3. OnRecord \in Package
  <2> DEFINE k == IncidentOf(subject)
  <2>1. OnRecord = baseline[k] /\ k \in Incidents
    BY <1>1, <1>2 DEF OnRecord
  <2> HIDE DEF k
  <2> QED BY <2>1, PackageTypes DEF StreamInv, TypeOK
<1> DEFINE i == Normal[t]
<1>4. t \in Texts /\ i \in Items /\ TierOf[i] = SourceTier[t.source]
  BY <1>2, TextTypes
<1>5. Operational(i)
  BY <1>4 DEF SourceTier, Operational
<1>6. Count(ItemsOf(latest), i) \in Nat /\ Count(ItemsOf(latest), i) # 0
  BY <1>2, <1>4, CountedItems
<1>7. Count(ItemsOf(latest), i) <= Count(ItemsOf(OnRecord), i)
  BY <1>4, <1>5 DEF StreamInv, BaselineCoversLatest
<1>8. Count(ItemsOf(OnRecord), i) \in Nat
  BY <1>3, <1>4, CountedItems
<1>9. Count(ItemsOf(OnRecord), i) # 0
  <2> DEFINE a == Count(ItemsOf(latest), i)
             b == Count(ItemsOf(OnRecord), i)
  <2>1. a \in Nat /\ b \in Nat /\ a # 0 /\ a <= b
    BY <1>6, <1>7, <1>8
  <2> HIDE DEF a, b
  <2>2. b # 0
    BY <2>1
  <2> QED BY <2>2 DEF b
<1> QED BY <1>3, <1>4, <1>9, CountedItems

\* No firing alert of the last notification, and no symptom of one, is missing in
\* the evidence of the run on record.
THEOREM FiringAlertsKept == Spec => []FiringAlertsOnRecord
<1>1. StreamInv => FiringAlertsOnRecord
  <2> SUFFICES ASSUME StreamInv, OnRecord # None, NEW a \in ToSet(ActiveAlerts(subject))
               PROVE  LET seen == ToSet(ItemsOf(OnRecord))
                          shown(source, word) ==
                            \E t \in Texts : /\ t = [source |-> source, words |-> word]
                                             /\ Normal[t] \in seen
                      IN  /\ a.alertname # NoValue => shown("alert", a.alertname)
                          /\ \A word \in ToSet(a.symptoms) : shown("symptom", word)
    BY DEF FiringAlertsOnRecord
  <2> DEFINE active == ActiveAlerts(subject)
  <2>1. subject # None
    BY DEF OnRecord
  <2>2. subject \in Firing
    BY <2>1, LatestBuilt
  <2>3. PICK r \in LogReplies : latest = BuildPackage(subject, r)
    BY <2>1, LatestBuilt
  <2>4. subject \in Notifications /\ Service(subject) # NoValue
    BY <2>2 DEF Firing, Accepted
  <2> DEFINE w == WordsOf(subject, r)
  <2>5. ToSet(latest.evidence) = UNION {{[source |-> s, words |-> x] : x \in ToSet(w[s])} : s \in Sources}
    BY <2>3, <2>4, PackageEvidence
  <2>6. active \in Seq(Alert)
    BY <2>4, ActiveType
  <2>7. w["alert"] = AlertNames(active) /\ w["symptom"] = Symptoms(active)
    BY DEF WordsOf
  <2> HIDE DEF w, active
  <2>8. PICK k \in DOMAIN active : active[k] = a
    BY DEF ToSet, active
  <2>9. a \in Alert
    BY <2>6, <2>8
  <2>10. ASSUME NEW s \in {"alert", "symptom"}, NEW x \in ToSet(w[s])
         PROVE  LET t == [source |-> s, words |-> x]
                IN  t \in Texts /\ Normal[t] \in ToSet(ItemsOf(OnRecord))
    <3> DEFINE t == [source |-> s, words |-> x]
    <3>1. t \in ToSet(latest.evidence) /\ t.source = s
      BY <2>5 DEF Sources
    <3> HIDE DEF t
    <3>2. t \in Texts /\ Normal[t] \in ToSet(ItemsOf(OnRecord))
      BY <3>1, SignalsOnRecord
    <3> QED BY <3>2 DEF t
  <2>11. ASSUME a.alertname # NoValue
         PROVE  a.alertname \in ToSet(w["alert"])
    <3> DEFINE x == a.alertname
    <3>1. <<x>> \in Seq({x}) /\ <<x>> # <<>> /\ <<x>>[1] = x
      OBVIOUS
    <3> HIDE DEF x
    <3>2. FirstOf(<<x>>, Placeholders[k]) = x
      BY <2>11, <3>1, FirstOfValue DEF x
    <3>3. k \in DOMAIN AlertNames(active) /\ AlertNames(active)[k] = x
      BY <2>8, <3>2 DEF AlertNames, x
    <3> QED BY <2>7, <3>3 DEF ToSet, x
  <2>12. ASSUME NEW word \in ToSet(a.symptoms)
         PROVE  word \in ToSet(w["symptom"])
    <3>1. ToSet(w["symptom"]) = UNION {ToSet(active[j].symptoms) : j \in DOMAIN active}
      BY <2>6, <2>7, ListsOfAlerts
    <3> QED BY <2>8, <3>1
  <2> QED BY <2>10, <2>11, <2>12
<1> QED BY <1>1, StreamInvariant, PTL

\* An outage of the log store is not taken for a change of the incident.
THEOREM LostLogsImmaterial == Spec => []LostLogsNotDecisive
<1>1. StreamInv => LostLogsNotDecisive
  <2> DEFINE others(p) == [i \in {i \in Items : i.source # "log"} |-> Count(ItemsOf(p), i)]
  <2> SUFFICES ASSUME StreamInv, Compared, prior.facts = latest.facts,
                      others(prior) = others(latest), "logs" \in latest.missing
               PROVE  decision.basis # "deterministic_policy"
    BY DEF LostLogsNotDecisive
  <2>1. /\ subject \in Firing /\ prior \in Package /\ latest \in Package /\ prior \in Packages
        /\ subject # None /\ decision \in Decisions(prior, latest)
    BY ComparedPackages, PackageTypes
  <2>2. ASSUME NEW i \in Items, i.source # "log"
        PROVE  Count(ItemsOf(prior), i) = Count(ItemsOf(latest), i)
    <3> DEFINE j == i
    <3>1. others(prior)[i] = others(latest)[i]
      OBVIOUS
    <3>2. i \in {k \in Items : k.source # "log"}
      BY <2>2
    <3> QED BY <3>1, <3>2
  <2> HIDE DEF others
  <2>3. PICK r \in LogReplies : latest = BuildPackage(subject, r)
    BY <2>1, LatestBuilt
  <2>4. PICK n \in Firing, z \in LogReplies : prior = BuildPackage(n, z)
    BY <2>1, PackageTypes DEF Packages, Range, PackagesOf
  <2> DEFINE w == WordsOf(subject, r)
             v == WordsOf(n, z)
             kinds == {"logs", "service", "runbook", "verification"}
  <2>5. /\ latest.missing = {c \in kinds : w[IF c = "logs" THEN "log" ELSE c] = <<>>}
        /\ prior.missing = {c \in kinds : v[IF c = "logs" THEN "log" ELSE c] = <<>>}
    <3>1. /\ subject \in Notifications /\ Service(subject) # NoValue
          /\ n \in Notifications /\ Service(n) # NoValue
      BY <2>1, <2>4 DEF Firing, Accepted
    <3> QED BY <2>3, <2>4, <3>1, PackageEvidence
  <2>6. \A s \in Sources :
          /\ w[s] = <<>> <=> \A i \in Items : i.source = s => Count(ItemsOf(latest), i) = 0
          /\ v[s] = <<>> <=> \A i \in Items : i.source = s => Count(ItemsOf(prior), i) = 0
    BY <2>1, <2>3, <2>4, SourceItems
  <2> HIDE DEF w, v
  <2>7. \A s \in Sources : s # "log" => (w[s] = <<>> <=> v[s] = <<>>)
    BY <2>2, <2>6
  <2>8. prior.missing \subseteq latest.missing
    <3> SUFFICES ASSUME NEW c \in prior.missing, c # "logs" PROVE c \in latest.missing
      OBVIOUS
    <3>1. c \in {"service", "runbook", "verification"} /\ v[c] = <<>>
      BY <2>5
    <3>2. w[c] = <<>>
      BY <2>7, <3>1 DEF Sources
    <3> QED BY <2>5, <3>1, <3>2
  <2>9. \A i \in Items : i.source = "log" => Count(ItemsOf(latest), i) = 0
    <3>1. w["log"] = <<>>
      BY <2>5
    <3> QED BY <2>6, <3>1 DEF Sources
  <2> DEFINE d == Delta(prior, latest)
  <2>10. /\ d.changedFacts = {} /\ d.resolvedMissing = {}
    BY <2>8 DEF Delta
  <2>11. /\ d.added \in Seq(Ref("added"))
         /\ \A i \in Items :
              /\ Count(ItemsOf(prior), i) \in Nat /\ Count(ItemsOf(latest), i) \in Nat
              /\ To(d.added, i) = {} <=> Count(ItemsOf(latest), i) <= Count(ItemsOf(prior), i)
    BY <2>1, DeltaRefers
  <2> HIDE DEF d
  <2>12. \A i \in Items : To(d.added, i) = {}
    <3> TAKE i \in Items
    <3>1. Count(ItemsOf(latest), i) <= Count(ItemsOf(prior), i)
      <4>1. CASE i.source = "log"
        BY <2>9, <2>11, <4>1
      <4>2. CASE i.source # "log"
        BY <2>2, <2>11, <4>2
      <4> QED BY <4>1, <4>2
    <3> QED BY <2>11, <3>1
  <2>13. ~DeterministicallyMaterial(d)
    <3>1. \A k \in DOMAIN d.added : d.added[k][2] \in Items
      BY <2>11 DEF Ref
    <3>2. DOMAIN d.added = {}
      BY <2>12, <3>1 DEF To
    <3> QED BY <2>10, <3>2 DEF DeterministicallyMaterial
  <2> QED BY <2>1, <2>13, DecisionCases DEF d
<1> QED BY <1>1, StreamInvariant, PTL

-----------------------------------------------------------------------------
(***************************************************************************)
(* The order of the alerts of a group.                                      *)
(***************************************************************************)

\* A sequence is in its own order.
LEMMA ReordersItself ==
  ASSUME NEW s
  PROVE  Reorders(s, s)
<1> DEFINE b == [k \in DOMAIN s |-> k]
<1>1. /\ b \in [DOMAIN s -> DOMAIN s]
      /\ \A x, y \in DOMAIN s : b[x] = b[y] => x = y
      /\ \A z \in DOMAIN s : \E x \in DOMAIN s : b[x] = z
      /\ \A k \in DOMAIN s : s[k] = s[b[k]]
  OBVIOUS
<1> HIDE DEF b
<1>2. b \in Bijection(DOMAIN s, DOMAIN s)
  BY <1>1 DEF Bijection, Injection, Surjection, IsInjective
<1> QED BY <1>1, <1>2 DEF Reorders

\* A function of each element of a reordering.
LEMMA MappedReorders ==
  ASSUME NEW s, NEW t, Reorders(s, t), NEW f, NEW g, DOMAIN f = DOMAIN s, DOMAIN g = DOMAIN t,
         \A k \in DOMAIN s : \A j \in DOMAIN t : s[k] = t[j] => f[k] = g[j]
  PROVE  Reorders(f, g)
<1>1. PICK b \in Bijection(DOMAIN s, DOMAIN t) : \A k \in DOMAIN s : s[k] = t[b[k]]
  BY DEF Reorders
<1>2. b \in [DOMAIN s -> DOMAIN t]
  BY DEF Bijection, Injection
<1>3. \A k \in DOMAIN f : f[k] = g[b[k]]
  BY <1>1, <1>2
<1> QED BY <1>1, <1>3 DEF Reorders

\* Every value of a reordering is one of the other.
LEMMA ReorderedValues ==
  ASSUME NEW s, NEW t, Reorders(s, t)
  PROVE  \A k \in DOMAIN s : \E j \in DOMAIN t : t[j] = s[k]
<1>1. PICK b \in Bijection(DOMAIN s, DOMAIN t) : \A k \in DOMAIN s : s[k] = t[b[k]]
  BY DEF Reorders
<1>2. b \in [DOMAIN s -> DOMAIN t]
  BY DEF Bijection, Injection
<1> QED BY <1>1, <1>2

\* The firing alerts of a reordered group.
LEMMA ActiveReorders ==
  ASSUME NEW m \in Notifications, NEW n \in Notifications, Reorders(m.alerts, n.alerts)
  PROVE  Reorders(ActiveAlerts(m), ActiveAlerts(n))
<1> DEFINE W == {a \in Alert : a.status = "firing"}
           s == m.alerts
           t == n.alerts
<1>1. s \in Seq(Alert) /\ t \in Seq(Alert)
  BY ActiveType
<1>2. /\ {k \in DOMAIN s : s[k].status = "firing"} = {k \in DOMAIN s : s[k] \in W}
      /\ {k \in DOMAIN t : t[k].status = "firing"} = {k \in DOMAIN t : t[k] \in W}
  <2> HIDE DEF s, t
  <2>1. (\A k \in DOMAIN s : s[k] \in Alert) /\ \A k \in DOMAIN t : t[k] \in Alert
    BY <1>1
  <2> DEFINE A == Alert
  <2>2. \A a \in A : a \in W <=> a.status = "firing"
    OBVIOUS
  <2> HIDE DEF A, W
  <2> QED BY <2>1, <2>2 DEF A
<1> HIDE DEF W
<1>3. Reorders(Subsequence(s, {k \in DOMAIN s : s[k] \in W}),
               Subsequence(t, {k \in DOMAIN t : t[k] \in W}))
  BY <1>1, SubsequencesReorder
<1> QED BY <1>2, <1>3 DEF ActiveAlerts

\* What is listed of reordered alerts.
LEMMA ListsReorder ==
  ASSUME NEW s \in Seq(Alert), NEW t \in Seq(Alert), Reorders(s, t)
  PROVE  /\ Reorders(Symptoms(s), Symptoms(t))
         /\ Reorders(RunbookRefs(s), RunbookRefs(t))
         /\ Reorders(VerificationSignals(s), VerificationSignals(t))
<1>1. /\ \A k \in DOMAIN s : \E j \in DOMAIN t : t[j] = s[k]
      /\ \A j \in DOMAIN t : \E k \in DOMAIN s : s[k] = t[j]
  BY ReorderedValues, ReordersSymmetric
<1>2. /\ ToSet(Symptoms(s)) = ToSet(Symptoms(t))
      /\ ToSet(RunbookRefs(s)) = ToSet(RunbookRefs(t))
      /\ ToSet(VerificationSignals(s)) = ToSet(VerificationSignals(t))
  <2>1. {ToSet(s[k].symptoms) : k \in DOMAIN s} = {ToSet(t[k].symptoms) : k \in DOMAIN t}
    BY <1>1
  <2>2. {ToSet(s[k].runbooks) : k \in DOMAIN s} = {ToSet(t[k].runbooks) : k \in DOMAIN t}
    BY <1>1
  <2>3. {ToSet(Signals(s[k])) : k \in DOMAIN s} = {ToSet(Signals(t[k])) : k \in DOMAIN t}
    BY <1>1
  <2> QED BY <2>1, <2>2, <2>3, ListsOfAlerts
<1>3. /\ IsInjective(Symptoms(s)) /\ IsInjective(Symptoms(t))
      /\ IsInjective(RunbookRefs(s)) /\ IsInjective(RunbookRefs(t))
      /\ IsInjective(VerificationSignals(s)) /\ IsInjective(VerificationSignals(t))
  BY ListsOfAlerts
<1> QED BY <1>2, <1>3, SameValuesReorder

\* Firing alerts are alerts of the notification.
LEMMA ActiveValues ==
  ASSUME NEW n \in Notifications
  PROVE  \A k \in DOMAIN ActiveAlerts(n) : ActiveAlerts(n)[k] \in ToSet(n.alerts)
<1> DEFINE keep == {k \in DOMAIN n.alerts : n.alerts[k].status = "firing"}
           s == n.alerts
           t == Subsequence(s, keep)
<1>1. s \in Seq(Alert) /\ keep \subseteq DOMAIN s
  BY ActiveType
<1> HIDE DEF keep, s
<1>2. Lists(t, s, keep)
  BY <1>1, SubsequenceLists
<1> HIDE DEF t
<1>3. PICK b \in Bijection(DOMAIN t, keep) : \A k \in DOMAIN t : t[k] = s[b[k]]
  BY <1>2 DEF Lists
<1>4. \A k \in DOMAIN t : b[k] \in DOMAIN s
  BY <1>1 DEF Bijection, Injection
<1>5. \A k \in DOMAIN t : t[k] \in ToSet(s)
  BY <1>3, <1>4 DEF ToSet
<1> QED BY <1>5 DEF t, s, keep, ActiveAlerts

\* The severity a notification has in common for its alerts.
LEMMA SeverityGiven ==
  ASSUME NEW n \in Notification, n.severity # NoValue
  PROVE  Severity(n) = n.severity
<1> DEFINE alerts == RelevantAlerts(n)
           severities == [k \in DOMAIN alerts |-> alerts[k].severity]
           values == <<n.severity>> \o severities
<1>1. alerts \in Seq(Alert)
  <2> DEFINE keep == {k \in DOMAIN n.alerts : n.alerts[k].status = "firing"}
  <2>1. n.alerts \in Seq(Alert) /\ keep \subseteq DOMAIN n.alerts
    BY DEF Notification
  <2> HIDE DEF keep
  <2>2. Subsequence(n.alerts, keep) \in Seq(Alert)
    BY <2>1, SubsequenceLists
  <2> QED BY <2>1, <2>2 DEF RelevantAlerts, ActiveAlerts, keep
<1> HIDE DEF alerts
<1>2. severities \in Seq(Label)
  <2>1. DOMAIN alerts = 1..Len(alerts) /\ Len(alerts) \in Nat
        /\ \A k \in DOMAIN alerts : alerts[k] \in Alert
    BY <1>1
  <2>2. \A k \in DOMAIN alerts : alerts[k].severity \in Label
    BY <2>1 DEF Alert
  <2> QED BY <2>1, <2>2
<1> HIDE DEF severities
<1>3. n.severity \in Label
  BY DEF Notification
<1>4. values \in Seq(Label) /\ values # <<>> /\ values[1] = n.severity
  BY <1>2, <1>3
<1> HIDE DEF values
<1>5. FirstOf(values, "UNKNOWN") = n.severity
  BY <1>4, FirstOfValue
<1> QED BY <1>5 DEF Severity, values, severities, alerts

\* With a name, an alert goes by it wherever it stands.
LEMMA NamesReorder ==
  ASSUME NEW s, NEW t, Reorders(s, t), \A k \in DOMAIN s : s[k].alertname # NoValue
  PROVE  /\ Reorders(AlertNames(s), AlertNames(t))
         /\ \A k \in DOMAIN t : t[k].alertname # NoValue
<1>1. ASSUME NEW x, x # NoValue, NEW default
      PROVE  FirstOf(<<x>>, default) = x
  <2>1. <<x>> \in Seq({x}) /\ <<x>> # <<>> /\ <<x>>[1] = x
    OBVIOUS
  <2> QED BY <1>1, <2>1, FirstOfValue
<1>2. \A k \in DOMAIN t : t[k].alertname # NoValue
  <2>1. \A k \in DOMAIN t : \E j \in DOMAIN s : s[j] = t[k]
    BY ReordersSymmetric, ReorderedValues
  <2> QED BY <2>1
<1>3. ASSUME NEW u, \A k \in DOMAIN u : u[k].alertname # NoValue
      PROVE  /\ DOMAIN AlertNames(u) = DOMAIN u
             /\ \A k \in DOMAIN u : AlertNames(u)[k] = u[k].alertname
  <2>1. DOMAIN AlertNames(u) = DOMAIN u
    BY DEF AlertNames
  <2>2. ASSUME NEW k \in DOMAIN u
        PROVE  AlertNames(u)[k] = u[k].alertname
    <3> DEFINE x == u[k].alertname
               d == Placeholders[k]
    <3>1. AlertNames(u)[k] = FirstOf(<<x>>, d)
      BY DEF AlertNames
    <3>2. x # NoValue
      BY <1>3
    <3> HIDE DEF x, d
    <3>3. FirstOf(<<x>>, d) = x
      BY <1>1, <3>2
    <3> QED BY <3>1, <3>3 DEF x
  <2> QED BY <2>1, <2>2
<1> DEFINE f == AlertNames(s)
           g == AlertNames(t)
<1>4. /\ DOMAIN f = DOMAIN s /\ \A k \in DOMAIN s : f[k] = s[k].alertname
      /\ DOMAIN g = DOMAIN t /\ \A k \in DOMAIN t : g[k] = t[k].alertname
  BY <1>2, <1>3
<1> HIDE DEF f, g
<1>5. Reorders(f, g)
  BY <1>4, MappedReorders
<1> QED BY <1>2, <1>5 DEF f, g

\* The words of each source, for two orders of the same alerts.
LEMMA WordsReorder ==
  ASSUME NEW m \in Notifications, NEW n \in Notifications, NEW r \in LogReplies,
         Reorders(m.alerts, n.alerts), Service(m) = Service(n),
         \A a \in ToSet(m.alerts) : a.alertname # NoValue
  PROVE  \A s \in Sources : Reorders(WordsOf(m, r)[s], WordsOf(n, r)[s])
<1> DEFINE s == ActiveAlerts(m)
           t == ActiveAlerts(n)
           a == RunbookRefs(s)
           b == RunbookRefs(t)
           v == WordsOf(m, r)
           w == WordsOf(n, r)
<1>1. /\ s \in Seq(Alert) /\ t \in Seq(Alert) /\ Reorders(s, t)
      /\ \A k \in DOMAIN s : s[k] \in ToSet(m.alerts)
  BY ActiveReorders, ActiveType, ActiveValues
<1>2. /\ v["alert"] = AlertNames(s) /\ w["alert"] = AlertNames(t)
      /\ v["symptom"] = Symptoms(s) /\ w["symptom"] = Symptoms(t)
      /\ v["deploy"] = w["deploy"] /\ v["log"] = w["log"] /\ v["service"] = w["service"]
      /\ v["runbook"] = Subsequence(a, {k \in DOMAIN a : a[k] \in Runbooks})
      /\ w["runbook"] = Subsequence(b, {k \in DOMAIN b : b[k] \in Runbooks})
      /\ v["verification"] = VerificationSignals(s)
      /\ w["verification"] = VerificationSignals(t)
  BY DEF WordsOf
<1> HIDE DEF v, w, s, t
<1>3. Reorders(AlertNames(s), AlertNames(t))
  BY <1>1, NamesReorder
<1>4. /\ Reorders(Symptoms(s), Symptoms(t))
      /\ Reorders(a, b)
      /\ Reorders(VerificationSignals(s), VerificationSignals(t))
      /\ a \in Seq(Words) /\ b \in Seq(Words)
  BY <1>1, ListsReorder, ListsOfAlerts
<1> HIDE DEF a, b
<1>5. Reorders(Subsequence(a, {k \in DOMAIN a : a[k] \in Runbooks}),
               Subsequence(b, {k \in DOMAIN b : b[k] \in Runbooks}))
  BY <1>4, SubsequencesReorder
<1>6. \A s_1 \in {"deploy", "log", "service"} : Reorders(v[s_1], w[s_1])
  BY <1>2, ReordersItself
<1>7. \A s_1 \in Sources : Reorders(v[s_1], w[s_1])
  BY <1>2, <1>3, <1>4, <1>5, <1>6 DEF Sources
<1> QED BY <1>7 DEF v, w

\* Two notifications with the same words of each source, in whatever order.
LEMMA EvidenceReorders ==
  ASSUME NEW m \in Notifications, NEW n \in Notifications, NEW r \in LogReplies,
         Service(m) # NoValue, Service(n) # NoValue,
         \A s \in Sources : Reorders(WordsOf(m, r)[s], WordsOf(n, r)[s])
  PROVE  /\ Reorders(BuildPackage(m, r).evidence, BuildPackage(n, r).evidence)
         /\ BuildPackage(m, r).missing = BuildPackage(n, r).missing
<1> DEFINE W == Words \cup ToSet(AlertNames(ActiveAlerts(m))) \cup ToSet(AlertNames(ActiveAlerts(n)))
           E == [source : Sources, words : W]
           v == WordsOf(m, r)
           w == WordsOf(n, r)
           F(s) == Found(s, v[s])
           G(s) == Found(s, w[s])
           p == BuildPackage(m, r)
           q == BuildPackage(n, r)
<1>1. \A s \in Sources : v[s] \in Seq(W) /\ w[s] \in Seq(W)
  <2>1. /\ Words \subseteq W /\ ToSet(AlertNames(ActiveAlerts(m))) \subseteq W
        /\ ToSet(AlertNames(ActiveAlerts(n))) \subseteq W
    OBVIOUS
  <2> HIDE DEF W
  <2> QED BY <2>1, WordsType
<1> HIDE DEF W
<1>2. /\ p.evidence = F("alert") \o F("symptom") \o F("deploy") \o F("log") \o F("service")
                        \o F("runbook") \o F("verification")
      /\ p.missing = {c \in {"logs", "service", "runbook", "verification"} :
                        F(IF c = "logs" THEN "log" ELSE c) = <<>>}
  BY PackageWords
<1>3. /\ q.evidence = G("alert") \o G("symptom") \o G("deploy") \o G("log") \o G("service")
                         \o G("runbook") \o G("verification")
       /\ q.missing = {c \in {"logs", "service", "runbook", "verification"} :
                         G(IF c = "logs" THEN "log" ELSE c) = <<>>}
  BY PackageWords
<1>4. \A s \in Sources : Reorders(v[s], w[s])
  OBVIOUS
<1> HIDE DEF v, w, p, q
<1>5. ASSUME NEW s \in Sources
      PROVE  /\ F(s) \in Seq(E) /\ G(s) \in Seq(E) /\ Reorders(F(s), G(s))
             /\ F(s) = <<>> <=> G(s) = <<>>
  <2> DEFINE x == v[s]
             y == w[s]
             f == Found(s, x)
             g == Found(s, y)
  <2>1. x \in Seq(W) /\ y \in Seq(W) /\ Reorders(x, y)
    BY <1>1, <1>4
  <2> HIDE DEF x, y
  <2>2. f \in Seq(E) /\ g \in Seq(E)
    BY <2>1, FoundType
  <2>3. /\ DOMAIN f = DOMAIN x /\ \A k \in DOMAIN x : f[k] = [source |-> s, words |-> x[k]]
        /\ DOMAIN g = DOMAIN y /\ \A k \in DOMAIN y : g[k] = [source |-> s, words |-> y[k]]
    BY DEF Found
  <2> HIDE DEF f, g, E
  <2>4. Reorders(f, g)
    BY <2>1, <2>3, MappedReorders
  <2>5. f = <<>> <=> g = <<>>
    <3>1. (\A k \in DOMAIN f : DOMAIN g # {}) /\ (\A k \in DOMAIN g : DOMAIN f # {})
      BY <2>4, ReordersSymmetric, ReorderedValues
    <3>2. (f = <<>> <=> DOMAIN f = {}) /\ (g = <<>> <=> DOMAIN g = {})
      BY <2>2
    <3> QED BY <3>1, <3>2
  <2> QED BY <2>2, <2>4, <2>5 DEF f, g, x, y
<1> HIDE DEF F, G, E
<1>6. Reorders(p.evidence, q.evidence)
  <2> DEFINE a1 == F("alert")
             a2 == G("alert")
             b1 == a1 \o F("symptom")
             b2 == a2 \o G("symptom")
             c1 == b1 \o F("deploy")
             c2 == b2 \o G("deploy")
             d1 == c1 \o F("log")
             d2 == c2 \o G("log")
             e1 == d1 \o F("service")
             e2 == d2 \o G("service")
             f1 == e1 \o F("runbook")
             f2 == e2 \o G("runbook")
             g1 == f1 \o F("verification")
             g2 == f2 \o G("verification")
  <2>0. \A s \in Sources : F(s) \in Seq(E) /\ G(s) \in Seq(E) /\ Reorders(F(s), G(s))
    BY <1>5
  <2>1. a1 \in Seq(E) /\ a2 \in Seq(E) /\ Reorders(a1, a2)
    BY <2>0 DEF Sources
  <2> HIDE DEF a1, a2
  <2>2. b1 \in Seq(E) /\ b2 \in Seq(E) /\ Reorders(b1, b2)
    BY <2>0, <2>1, ConcatReorders DEF Sources
  <2> HIDE DEF b1, b2
  <2>3. c1 \in Seq(E) /\ c2 \in Seq(E) /\ Reorders(c1, c2)
    BY <2>0, <2>2, ConcatReorders DEF Sources
  <2> HIDE DEF c1, c2
  <2>4. d1 \in Seq(E) /\ d2 \in Seq(E) /\ Reorders(d1, d2)
    BY <2>0, <2>3, ConcatReorders DEF Sources
  <2> HIDE DEF d1, d2
  <2>5. e1 \in Seq(E) /\ e2 \in Seq(E) /\ Reorders(e1, e2)
    BY <2>0, <2>4, ConcatReorders DEF Sources
  <2> HIDE DEF e1, e2
  <2>6. f1 \in Seq(E) /\ f2 \in Seq(E) /\ Reorders(f1, f2)
    BY <2>0, <2>5, ConcatReorders DEF Sources
  <2> HIDE DEF f1, f2
  <2>7. Reorders(g1, g2)
    BY <2>0, <2>6, ConcatReorders DEF Sources
  <2> QED BY <1>2, <1>3, <2>7 DEF a1, a2, b1, b2, c1, c2, d1, d2, e1, e2, f1, f2, g1, g2
<1>7. p.missing = q.missing
  BY <1>2, <1>3, <1>5 DEF Sources
<1> QED BY <1>6, <1>7 DEF p, q

\* Two orders of the same alerts make equivalent packages.
THEOREM AlertOrder == Spec => []AlertOrderImmaterial
<1>1. StreamInv => AlertOrderImmaterial
  <2> SUFFICES ASSUME StreamInv, subject # None, NEW n \in Notifications \ {subject},
                      [n EXCEPT !.alerts = <<>>] = [subject EXCEPT !.alerts = <<>>],
                      Reorders(n.alerts, subject.alerts), n.severity # NoValue,
                      \A a \in ToSet(n.alerts) : a.alertname # NoValue,
                      Service(n) = Service(subject), NEW r \in LogReplies
               PROVE  Digest(BuildPackage(n, r)) = Digest(BuildPackage(subject, r))
    BY DEF AlertOrderImmaterial
  <2>1. /\ subject \in Firing /\ subject \in Notifications /\ Service(subject) # NoValue
    BY LatestBuilt DEF Firing, Accepted
  <2>2. /\ n \in Notifications /\ subject \in Notification /\ n \in Notification
    BY <2>1, StreamAssumption
  <2>3. /\ n.title = subject.title /\ n.severity = subject.severity
    <3>1. \A x \in Notification : /\ [x EXCEPT !.alerts = <<>>].title = x.title
                                  /\ [x EXCEPT !.alerts = <<>>].severity = x.severity
      BY DEF Notification
    <3> QED BY <2>2, <3>1
  <2>4. Title(n) = Title(subject)
    BY <2>3 DEF Title
  <2>5. Severity(n) = Severity(subject)
    <3>1. \A x \in Notification : x.severity # NoValue => Severity(x) = x.severity
      BY SeverityGiven
    <3> QED BY <2>2, <2>3, <3>1
  <2> DEFINE p == BuildPackage(n, r)
             q == BuildPackage(subject, r)
  <2>6. p.facts = q.facts
    BY <2>4, <2>5 DEF BuildPackage
  <2>7. Reorders(p.evidence, q.evidence) /\ p.missing = q.missing
    BY <2>1, <2>2, WordsReorder, EvidenceReorders
  <2>8. q \in Package
    <3>1. q \in PackagesOf[subject]
      BY <2>1 DEF PackagesOf
    <3> HIDE DEF q
    <3> QED BY <2>1, <3>1, PackageTypes
  <2> HIDE DEF p, q
  <2>9. Reorders(ItemsOf(q), ItemsOf(p)) /\ ItemsOf(q) \in Seq(Items)
    <3> DEFINE f == ItemsOf(p)
               g == ItemsOf(q)
               s == p.evidence
               t == q.evidence
    <3>1. /\ DOMAIN f = DOMAIN s /\ \A k \in DOMAIN s : f[k] = Normal[s[k]]
          /\ DOMAIN g = DOMAIN t /\ \A k \in DOMAIN t : g[k] = Normal[t[k]]
      BY DEF ItemsOf
    <3>2. g \in Seq(Items)
      BY <2>8, ItemsType
    <3> HIDE DEF f, g, s, t
    <3>3. Reorders(s, t)
      BY <2>7 DEF s, t
    <3>4. Reorders(f, g)
      BY <3>1, <3>3, MappedReorders
    <3>5. Reorders(g, f)
      BY <3>4, ReordersSymmetric
    <3> QED BY <3>2, <3>5 DEF f, g
  <2>10. \A i \in Items : Count(ItemsOf(p), i) = Count(ItemsOf(q), i)
    <3> DEFINE f == ItemsOf(p)
               g == ItemsOf(q)
    <3>1. Reorders(g, f) /\ g \in Seq(Items)
      BY <2>9
    <3> HIDE DEF f, g
    <3>2. \A i \in Items : Count(g, i) = Count(f, i)
      BY <3>1, ReorderedCount
    <3> QED BY <3>2 DEF f, g
  <2>11. Digest(p) = Digest(q)
    <3>1. [i \in Items |-> Count(ItemsOf(p), i)] = [i \in Items |-> Count(ItemsOf(q), i)]
      BY <2>10
    <3> QED BY <2>6, <2>7, <3>1 DEF Digest
  <2> QED BY <2>11 DEF p, q
<1> QED BY <1>1, StreamInvariant, PTL

=============================================================================
