------------------------ MODULE LaunchArguments_proofs ------------------------
(***************************************************************************)
(* Proofs about LaunchArguments, for every list of arguments and every     *)
(* config file, of any length: the wrapper's scans read what native's      *)
(* parser reads, the tool survives, the caller keeps what it passed, and   *)
(* exactly the comments of a config file are stripped.                     *)
(*                                                                         *)
(* The inductions are over positions of a list: a set of naturals with a   *)
(* counterexample has a least one (LeastElement), and from it Induct.      *)
(***************************************************************************)
EXTENDS LaunchArguments, FiniteSetTheorems, SequenceTheorems, WellFoundedInduction, TLAPS

-----------------------------------------------------------------------------
(* Inductions over data, and recursive functions                             *)

LEMMA LeastElement ==
  ASSUME NEW T, T \subseteq Nat, T # {}
  PROVE  \E n \in T : \A m \in T : n <= m
<1>1. PICK x \in T : \A y \in T : ~(<<y, x>> \in OpToRel(<, Nat))
  BY NatLessThanWellFounded, WFMin
<1>2. ASSUME NEW y \in T PROVE x <= y
  <2>1. y \in Nat /\ x \in Nat
    OBVIOUS
  <2>2. <<y, x>> \in OpToRel(<, Nat) <=> y < x
    BY <2>1 DEF OpToRel
  <2>3. ~(y < x)
    BY <1>1, <2>2
  <2> QED BY <2>1, <2>3
<1> QED BY <1>2

\* From a on, a set that keeps the next number has all up to n.
LEMMA Induct ==
  ASSUME NEW a \in Nat, NEW n \in Nat, NEW S, a \in S,
         \A i \in a + 1 .. n : i - 1 \in S => i \in S
  PROVE  \A i \in a .. n : i \in S
<1> DEFINE Bad == {i \in a .. n : i \notin S}
<1> SUFFICES ASSUME Bad # {} PROVE FALSE
  OBVIOUS
<1>1. PICK i \in Bad : \A j \in Bad : i <= j
  <2>1. Bad \subseteq Nat
    OBVIOUS
  <2> HIDE DEF Bad
  <2>q. QED
    BY <2>1, LeastElement
<1>2. i \in a + 1 .. n /\ i - 1 \in a .. n /\ i \notin S
  <2>1. i # a
    BY <1>1
  <2>q. QED
    BY <1>1, <2>1
<1>3. i - 1 \in S
  BY <1>1, <1>2
<1>q. QED
  BY <1>2, <1>3

\* A value carried through 1 .. n by a step.
StaysIn(V, n, step) == \A v \in V, i \in 1 .. n : step[<<v, i>>] \in V
Carries(u, c, n, step) ==
  u[0] = c /\ \A i \in 1 .. n : u[i] = step[<<u[i - 1], i>>]

LEMMA FoldExists ==
  ASSUME NEW V, NEW c \in V, NEW n \in Nat, NEW step,
         StaysIn(V, n, step)
  PROVE  \E u \in [0 .. n -> V] : Carries(u, c, n, step)
<1> USE DEF StaysIn, Carries
<1> DEFINE Good(m) == \E u \in [0 .. m -> V] :
                        u[0] = c /\ \A i \in 1 .. m : u[i] = step[<<u[i - 1], i>>]
           Bad == {m \in 0 .. n : ~Good(m)}
<1>1. Good(0)
  <2>1. [i \in 0 .. 0 |-> c] \in [0 .. 0 -> V] /\ [i \in 0 .. 0 |-> c][0] = c /\ 1 .. 0 = {}
    OBVIOUS
  <2>q. QED
    BY <2>1
<1>2. ASSUME NEW m \in 1 .. n, Good(m - 1) PROVE Good(m)
  <2>1. PICK u \in [0 .. m - 1 -> V] :
          u[0] = c /\ \A i \in 1 .. m - 1 : u[i] = step[<<u[i - 1], i>>]
    BY <1>2
  <2> DEFINE w == [i \in 0 .. m |-> IF i = m THEN step[<<u[m - 1], m>>] ELSE u[i]]
  <2>2. m - 1 \in 0 .. m - 1 /\ m \in Nat /\ u[m - 1] \in V /\ step[<<u[m - 1], m>>] \in V
    <3>1. m - 1 \in 0 .. m - 1 /\ m \in Nat
      OBVIOUS
    <3>2. u[m - 1] \in V
      BY <3>1
    <3>q. QED
      BY <3>1, <3>2
  <2>3. w \in [0 .. m -> V]
    BY <2>2
  <2>4. w[0] = c
    BY <2>1, <2>2
  <2>5. ASSUME NEW i \in 1 .. m PROVE w[i] = step[<<w[i - 1], i>>]
    <3>1. i - 1 \in 0 .. m - 1 /\ i - 1 \in 0 .. m /\ i \in 0 .. m /\ w[i - 1] = u[i - 1]
      BY <2>2
    <3>2. CASE i = m
      BY <3>1, <3>2
    <3>3. CASE i # m
      <4>1. i \in 1 .. m - 1 /\ w[i] = u[i]
        BY <2>2, <3>3
      <4>q. QED
        BY <2>1, <3>1, <4>1
    <3>q. QED
      BY <3>2, <3>3
  <2> HIDE DEF w
  <2>q. QED
    BY <2>3, <2>4, <2>5
<1> HIDE DEF Good
<1>3. SUFFICES ASSUME Bad # {} PROVE FALSE
  <2>1. n \in 0 .. n
    OBVIOUS
  <2>2. Good(n)
    BY <1>3, <2>1
  <2>q. QED
    BY <2>2 DEF Good
<1>4. Bad \subseteq Nat
  OBVIOUS
<1>5. PICK m \in Bad : \A k \in Bad : m <= k
  <2> HIDE DEF Bad
  <2>q. QED
    BY <1>3, <1>4, LeastElement
<1>6. m \in 1 .. n
  BY <1>1
<1>7. m - 1 \in 0 .. n /\ m - 1 \notin Bad
  BY <1>5, <1>6
<1>8. Good(m - 1)
  BY <1>7
<1>q. QED
  BY <1>2, <1>6, <1>8

-----------------------------------------------------------------------------
(* Where a comment ends                                                      *)

BlockEnds(s, i) == {k + 2 : k \in {n \in i + 2 .. Len(s) - 1 : s[n] = "*" /\ s[n + 1] = "/"}}
LineEnds(s, i) == {k \in i + 2 .. Len(s) : s[k] = "\n"}
FirstOf(ends, n) == CHOOSE k \in ends \cup {n} : \A m \in ends : k <= m

LEMMA CommentEndIs ==
  \A s, i : CommentEnd(s, i) = FirstOf(IF s[i + 1] = "*" THEN BlockEnds(s, i) ELSE LineEnds(s, i),
                                       Len(s) + 1)
BY DEF CommentEnd, FirstOf, BlockEnds, LineEnds

LEMMA FirstOfProperties ==
  ASSUME NEW n \in Nat, NEW ends \in SUBSET Nat
  PROVE  FirstOf(ends, n) \in ends \cup {n} /\ \A m \in ends : FirstOf(ends, n) <= m
<1>1. \E k \in ends \cup {n} : \A m \in ends : k <= m
  <2>1. CASE ends = {}
    BY <2>1
  <2>2. CASE ends # {}
    BY <2>2, LeastElement
  <2>q. QED
    BY <2>1, <2>2
<1>q. QED
  BY <1>1 DEF FirstOf

\* A comment holds its two opening characters, and reaches to its first end
\* after them or to the end of the file.
LEMMA CommentEndProperties ==
  ASSUME NEW s \in Seq(STRING), NEW i \in 1 .. Len(s), StartsComment(s, i)
  PROVE  /\ i + 1 \in 1 .. Len(s) /\ CommentEnd(s, i) \in i + 2 .. Len(s) + 1
         /\ s[i + 1] = "*" =>
              /\ \A k \in i + 2 .. Len(s) - 1 :
                   s[k] = "*" /\ s[k + 1] = "/" => CommentEnd(s, i) <= k + 2
              /\ CommentEnd(s, i) # Len(s) + 1 =>
                   /\ CommentEnd(s, i) >= i + 4
                   /\ s[CommentEnd(s, i) - 2] = "*" /\ s[CommentEnd(s, i) - 1] = "/"
         /\ s[i + 1] # "*" =>
              /\ \A k \in i + 2 .. Len(s) : s[k] = "\n" => CommentEnd(s, i) <= k
              /\ CommentEnd(s, i) # Len(s) + 1 => s[CommentEnd(s, i)] = "\n"
<1> DEFINE n == Len(s)
           e == CommentEnd(s, i)
<1>1. n \in Nat /\ i \in 1 .. n /\ i < n /\ i + 1 \in 1 .. n
  BY LenProperties DEF StartsComment
<1>2. CASE s[i + 1] = "*"
  <2>1. e = FirstOf(BlockEnds(s, i), n + 1)
    BY <1>2, CommentEndIs
  <2>2. BlockEnds(s, i) \in SUBSET Nat /\ n + 1 \in Nat
    BY <1>1 DEF BlockEnds
  <2>3. e \in BlockEnds(s, i) \cup {n + 1} /\ \A m \in BlockEnds(s, i) : e <= m
    BY <2>1, <2>2, FirstOfProperties
  <2> HIDE DEF e, n
  <2>4. \A k \in i + 2 .. n - 1 : s[k] = "*" /\ s[k + 1] = "/" => k + 2 \in BlockEnds(s, i)
    BY DEF BlockEnds, n
  <2>5. e \in BlockEnds(s, i) =>
          \E k \in i + 2 .. n - 1 : s[k] = "*" /\ s[k + 1] = "/" /\ e = k + 2
    BY DEF BlockEnds, n
  <2>6. e \in i + 2 .. n + 1 /\ (e # n + 1 => e >= i + 4 /\ s[e - 2] = "*" /\ s[e - 1] = "/")
    <3>1. CASE e = n + 1
      BY <1>1, <3>1
    <3>2. CASE e # n + 1
      <4>1. PICK k \in i + 2 .. n - 1 : s[k] = "*" /\ s[k + 1] = "/" /\ e = k + 2
        BY <2>3, <2>5, <3>2
      <4>2. e - 2 = k /\ e - 1 = k + 1 /\ e \in i + 2 .. n + 1 /\ e >= i + 4
        BY <1>1, <4>1
      <4>q. QED
        BY <4>1, <4>2
    <3>q. QED
      BY <3>1, <3>2
  <2>7. \A k \in i + 2 .. n - 1 : s[k] = "*" /\ s[k + 1] = "/" => e <= k + 2
    BY <2>3, <2>4
  <2>q. QED
    BY <1>1, <1>2, <2>6, <2>7 DEF e, n
<1>3. CASE s[i + 1] # "*"
  <2>1. e = FirstOf(LineEnds(s, i), n + 1)
    BY <1>3, CommentEndIs
  <2>2. LineEnds(s, i) \in SUBSET Nat /\ n + 1 \in Nat
    BY <1>1 DEF LineEnds
  <2>3. e \in LineEnds(s, i) \cup {n + 1} /\ \A m \in LineEnds(s, i) : e <= m
    BY <2>1, <2>2, FirstOfProperties
  <2> HIDE DEF e, n
  <2>4. \A k : k \in LineEnds(s, i) <=> k \in i + 2 .. n /\ s[k] = "\n"
    BY DEF LineEnds, n
  <2>5. e \in i + 2 .. n + 1 /\ (e # n + 1 => s[e] = "\n")
    BY <1>1, <2>3, <2>4
  <2>6. \A k \in i + 2 .. n : s[k] = "\n" => e <= k
    BY <2>3, <2>4
  <2>q. QED
    BY <1>1, <1>3, <2>5, <2>6 DEF e, n
<1>q. QED
  BY <1>2, <1>3

-----------------------------------------------------------------------------
(* What the wrapper's scan of a config file finds                            *)

Quotes == {"code", "string", "escape"}
IsScan(s, C) == C = [p \in (1 .. Len(s) + 1) \X Quotes |-> CommentedFrom(s, C, p[1], p[2])]

LEMMA CommentedIs == \A s : Commented(s) = (CHOOSE C : IsScan(s, C))[<<1, "code">>]
BY DEF Commented, IsScan, Quotes

\* What the scan finds from i on, it finds in the positions from i on.
LEMMA CommentedFromType ==
  ASSUME NEW s \in Seq(STRING), NEW i \in 1 .. Len(s) + 1, NEW q \in Quotes, NEW C,
         \A j \in i + 1 .. Len(s) + 1 : \A r \in Quotes : C[<<j, r>>] \in SUBSET (j .. Len(s))
  PROVE  CommentedFrom(s, C, i, q) \in SUBSET (i .. Len(s))
<1> DEFINE n == Len(s)
<1>1. n \in Nat
  BY LenProperties
<1>2. CASE i > n
  <2>1. ~(i <= n)
    BY <1>1, <1>2
  <2>2. CommentedFrom(s, C, i, q) = {}
    BY <1>2, <2>1 DEF CommentedFrom
  <2>q. QED
    BY <2>2
<1>3. CASE i <= n
  <2>1. i + 1 \in i + 1 .. n + 1 /\ i \in 1 .. n /\ ~(i > n)
    BY <1>1, <1>3
  <2>2. \A j \in i + 1 .. n + 1 : \A r \in Quotes : C[<<j, r>>] \in SUBSET (i .. n)
    <3>1. \A j \in i + 1 .. n + 1 : j .. n \subseteq i .. n
      BY <1>1
    <3>q. QED
      BY <3>1
  <2>3. StartsComment(s, i) => /\ CommentEnd(s, i) \in i + 1 .. n + 1
                               /\ i .. CommentEnd(s, i) - 1 \in SUBSET (i .. n)
    <3>1. StartsComment(s, i) => CommentEnd(s, i) \in i + 2 .. n + 1
      BY <2>1, CommentEndProperties
    <3>q. QED
      BY <1>1, <2>1, <3>1
  <2> HIDE DEF n
  <2>4. CASE q = "escape"
    BY <1>3, <2>1, <2>2, <2>4 DEF CommentedFrom, Quotes, n
  <2>5. CASE q = "string"
    BY <1>3, <2>1, <2>2, <2>5 DEF CommentedFrom, Quotes, n
  <2>6. CASE q = "code"
    BY <1>3, <2>1, <2>2, <2>3, <2>6 DEF CommentedFrom, Quotes, n
  <2>q. QED
    BY <2>4, <2>5, <2>6 DEF Quotes, n
<1>q. QED
  BY <1>1, <1>2, <1>3

LEMMA CommentedFromLocal ==
  ASSUME NEW s \in Seq(STRING), NEW i \in 1 .. Len(s) + 1, NEW q \in Quotes, NEW C, NEW D,
         \A j \in i + 1 .. Len(s) + 1 : \A r \in Quotes : C[<<j, r>>] = D[<<j, r>>]
  PROVE  CommentedFrom(s, C, i, q) = CommentedFrom(s, D, i, q)
<1> DEFINE n == Len(s)
<1>1. n \in Nat
  BY LenProperties
<1>2. CASE i > n
  <2>1. ~(i <= n)
    BY <1>1, <1>2
  <2>q. QED
    BY <1>2, <2>1 DEF CommentedFrom
<1>3. CASE i <= n
  <2>1. i + 1 \in i + 1 .. n + 1 /\ i \in 1 .. n /\ ~(i > n)
    BY <1>1, <1>3
  <2>2. StartsComment(s, i) => CommentEnd(s, i) \in i + 1 .. n + 1
    <3>1. StartsComment(s, i) => CommentEnd(s, i) \in i + 2 .. n + 1
      BY <2>1, CommentEndProperties
    <3>q. QED
      BY <1>1, <2>1, <3>1
  <2> HIDE DEF n
  <2>4. CASE q = "escape"
    BY <1>3, <2>1, <2>4 DEF CommentedFrom, Quotes, n
  <2>5. CASE q = "string"
    BY <1>3, <2>1, <2>5 DEF CommentedFrom, Quotes, n
  <2>6. CASE q = "code"
    BY <1>3, <2>1, <2>2, <2>6 DEF CommentedFrom, Quotes, n
  <2>q. QED
    BY <2>4, <2>5, <2>6 DEF Quotes
<1>q. QED
  BY <1>1, <1>2, <1>3

\* C is what the scan finds from the positions k and later on.
ScansFrom(s, C, k) ==
  \A j \in k .. Len(s) + 1 : \A q \in Quotes :
    C[<<j, q>>] \in SUBSET (j .. Len(s)) /\ C[<<j, q>>] = CommentedFrom(s, C, j, q)

LEMMA ScanExists ==
  ASSUME NEW s \in Seq(STRING)
  PROVE  \E C : IsScan(s, C)
<1> DEFINE n == Len(s)
           Good(k) == \E C : ScansFrom(s, C, k)
           Bad == {m \in 0 .. n : ~Good(n + 1 - m)}
<1>1. n \in Nat
  BY LenProperties
<1>2. ASSUME NEW k \in 1 .. n + 1, NEW C, \A j \in k + 1 .. n + 1 : j \in Nat, ScansFrom(s, C, k + 1)
      PROVE  Good(k)
  <2> DEFINE D == [p \in (k .. n + 1) \X Quotes |->
                     IF p[1] = k THEN CommentedFrom(s, C, k, p[2]) ELSE C[p]]
  <2>1. k \in Nat /\ \A j \in k .. n + 1 : j = k \/ (j \in k + 1 .. n + 1 /\ j # k)
    BY <1>1
  <2>2. \A j \in k + 1 .. n + 1 : \A q \in Quotes : D[<<j, q>>] = C[<<j, q>>]
    <3>1. \A j \in k + 1 .. n + 1 : j \in k .. n + 1 /\ j # k
      BY <1>1
    <3>q. QED
      BY <3>1
  <2>3. \A q \in Quotes : D[<<k, q>>] = CommentedFrom(s, C, k, q)
    <3>1. k \in k .. n + 1
      BY <1>1
    <3>q. QED
      BY <3>1
  <2> HIDE DEF D
  <2>4. \A j \in k .. n + 1 : \A q \in Quotes : CommentedFrom(s, D, j, q) = CommentedFrom(s, C, j, q)
    <3> SUFFICES ASSUME NEW j \in k .. n + 1, NEW q \in Quotes
                 PROVE  CommentedFrom(s, D, j, q) = CommentedFrom(s, C, j, q)
      OBVIOUS
    <3>1. j \in 1 .. n + 1 /\ \A l \in j + 1 .. n + 1 : l \in k + 1 .. n + 1
      BY <1>1
    <3>2. \A l \in j + 1 .. n + 1 : \A r \in Quotes : D[<<l, r>>] = C[<<l, r>>]
      BY <2>2, <3>1
    <3>q. QED
      BY <3>1, <3>2, CommentedFromLocal
  <2>5. \A q \in Quotes : CommentedFrom(s, C, k, q) \in SUBSET (k .. n)
    <3>1. \A j \in k + 1 .. n + 1 : \A r \in Quotes : C[<<j, r>>] \in SUBSET (j .. n)
      BY <1>2 DEF ScansFrom
    <3>q. QED
      BY <3>1, CommentedFromType
  <2>6. ScansFrom(s, D, k)
    <3> SUFFICES ASSUME NEW j \in k .. n + 1, NEW q \in Quotes
                 PROVE  D[<<j, q>>] \in SUBSET (j .. n) /\ D[<<j, q>>] = CommentedFrom(s, D, j, q)
      BY DEF ScansFrom
    <3>1. CASE j = k
      BY <2>3, <2>4, <2>5, <3>1
    <3>2. CASE j # k
      <4>1. j \in k + 1 .. n + 1
        BY <2>1, <3>2
      <4>2. C[<<j, q>>] \in SUBSET (j .. n) /\ C[<<j, q>>] = CommentedFrom(s, C, j, q)
        BY <1>2, <4>1 DEF ScansFrom
      <4>q. QED
        BY <2>2, <2>4, <4>1, <4>2
    <3>q. QED
      BY <3>1, <3>2
  <2>q. QED
    BY <2>6
<1>3. Good(n + 1)
  <2>1. n + 1 \in 1 .. n + 1 /\ (n + 1) + 1 .. n + 1 = {}
    BY <1>1
  <2>2. ScansFrom(s, {}, (n + 1) + 1)
    BY <2>1 DEF ScansFrom
  <2> HIDE DEF Good, n
  <2>q. QED
    BY <1>2, <2>1, <2>2
<1>4. Good(1)
  <2> SUFFICES ASSUME ~Good(1) PROVE FALSE
    OBVIOUS
  <2>1. n \in Bad /\ Bad \subseteq Nat
    <3>1. n \in 0 .. n /\ n + 1 - n = 1
      BY <1>1
    <3>q. QED
      BY <3>1
  <2>2. PICK m \in Bad : \A l \in Bad : m <= l
    <3> HIDE DEF Bad
    <3>q. QED
      BY <2>1, LeastElement
  <2> HIDE DEF Good
  <2>3. m # 0
    <3>1. n + 1 - 0 = n + 1
      BY <1>1
    <3>q. QED
      BY <1>3, <2>2, <3>1
  <2>4. m - 1 \in 0 .. n /\ m - 1 \notin Bad /\ m \in 1 .. n
    BY <1>1, <2>2, <2>3
  <2>5. Good(n + 1 - (m - 1))
    BY <2>4
  <2>6. n + 1 - (m - 1) = (n + 1 - m) + 1 /\ n + 1 - m \in 1 .. n + 1
        /\ \A j \in (n + 1 - m) + 1 .. n + 1 : j \in Nat
    BY <1>1, <2>4
  <2>7. PICK C : ScansFrom(s, C, (n + 1 - m) + 1)
    BY <2>5, <2>6 DEF Good
  <2>8. Good(n + 1 - m)
    BY <1>2, <2>6, <2>7
  <2>q. QED
    BY <2>2, <2>8
<1>5. PICK C : ScansFrom(s, C, 1)
  BY <1>4
<1> DEFINE D == [p \in (1 .. n + 1) \X Quotes |-> C[p]]
<1>6. ASSUME NEW j \in 1 .. n + 1, NEW q \in Quotes
      PROVE  D[<<j, q>>] = CommentedFrom(s, D, j, q)
  <2>1. \A l \in 1 .. n + 1 : \A r \in Quotes : D[<<l, r>>] = C[<<l, r>>]
    OBVIOUS
  <2>2. \A l \in j + 1 .. n + 1 : l \in 1 .. n + 1
    BY <1>1
  <2> HIDE DEF D
  <2>3. CommentedFrom(s, D, j, q) = CommentedFrom(s, C, j, q)
    BY <2>1, <2>2, CommentedFromLocal
  <2>4. C[<<j, q>>] = CommentedFrom(s, C, j, q)
    BY <1>5 DEF ScansFrom
  <2>q. QED
    BY <2>1, <2>3, <2>4
<1>7. \A p \in (1 .. n + 1) \X Quotes : D[p] = CommentedFrom(s, D, p[1], p[2])
  <2> HIDE DEF D, n
  <2>q. QED
    BY <1>6
<1>8. D = [p \in (1 .. n + 1) \X Quotes |-> D[p]]
  OBVIOUS
<1> HIDE DEF D
<1>9. D = [p \in (1 .. n + 1) \X Quotes |-> CommentedFrom(s, D, p[1], p[2])]
  BY <1>7, <1>8
<1>q. QED
  BY <1>9 DEF IsScan

LEMMA CommentedScan ==
  ASSUME NEW s \in Seq(STRING)
  PROVE  \E C : ScansFrom(s, C, 1) /\ Commented(s) = C[<<1, "code">>]
<1> DEFINE n == Len(s)
           C == CHOOSE D : IsScan(s, D)
           Bad == {m \in 0 .. n : ~ScansFrom(s, C, n + 1 - m)}
<1>1. n \in Nat
  BY LenProperties
<1>2. IsScan(s, C)
  BY ScanExists
<1>3. Commented(s) = C[<<1, "code">>]
  BY CommentedIs
<1> HIDE DEF C
<1>4. \A j \in 1 .. n + 1 : \A q \in Quotes : C[<<j, q>>] = CommentedFrom(s, C, j, q)
  BY <1>2 DEF IsScan
<1>5. ASSUME NEW k \in 1 .. n + 1, ScansFrom(s, C, k + 1) \/ k = n + 1
      PROVE  ScansFrom(s, C, k)
  <2>1. \A j \in k + 1 .. n + 1 : \A q \in Quotes : C[<<j, q>>] \in SUBSET (j .. n)
    <3>1. CASE ScansFrom(s, C, k + 1)
      BY <3>1 DEF ScansFrom
    <3>2. CASE k = n + 1
      <4>1. k + 1 .. n + 1 = {}
        BY <1>1, <3>2
      <4>q. QED
        BY <4>1
    <3>q. QED
      BY <1>5, <3>1, <3>2
  <2>2. \A q \in Quotes : C[<<k, q>>] \in SUBSET (k .. n)
    BY <1>4, <2>1, CommentedFromType
  <2>3. \A j \in k .. n + 1 : j \in 1 .. n + 1 /\ (j = k \/ j \in k + 1 .. n + 1)
    BY <1>1
  <2>q. QED
    BY <1>4, <2>1, <2>2, <2>3 DEF ScansFrom
<1>6. ScansFrom(s, C, 1)
  <2> SUFFICES ASSUME ~ScansFrom(s, C, 1) PROVE FALSE
    OBVIOUS
  <2>1. n \in Bad /\ Bad \subseteq Nat
    <3>1. n \in 0 .. n /\ n + 1 - n = 1
      BY <1>1
    <3>q. QED
      BY <3>1
  <2>2. PICK m \in Bad : \A l \in Bad : m <= l
    <3> HIDE DEF Bad
    <3>q. QED
      BY <2>1, LeastElement
  <2>3. n + 1 - m \in 1 .. n + 1 /\ n + 1 - (m - 1) = (n + 1 - m) + 1
    BY <1>1, <2>2
  <2>4. CASE m = 0
    <3>1. n + 1 - m = n + 1
      BY <1>1, <2>4
    <3>q. QED
      BY <1>5, <2>2, <2>3, <3>1
  <2>5. CASE m # 0
    <3>1. m - 1 \in 0 .. n /\ m - 1 \notin Bad
      BY <1>1, <2>2, <2>5
    <3>2. ScansFrom(s, C, (n + 1 - m) + 1)
      BY <2>3, <3>1
    <3>q. QED
      BY <1>5, <2>2, <2>3, <3>2
  <2>q. QED
    BY <2>4, <2>5
<1>q. QED
  BY <1>3, <1>6

\* The scan's equations at k, by what stands there.
ScanAt(s, C, k) ==
  /\ C[<<k, "escape">>] = C[<<k + 1, "string">>]
  /\ C[<<k, "string">>] =
       C[<<k + 1, IF s[k] = "\\" THEN "escape" ELSE IF s[k] = "\"" THEN "code" ELSE "string">>]
  /\ s[k] = "\"" => C[<<k, "code">>] = C[<<k + 1, "string">>]
  /\ s[k] # "\"" /\ StartsComment(s, k) =>
       C[<<k, "code">>] = (k .. CommentEnd(s, k) - 1) \cup C[<<CommentEnd(s, k), "code">>]
  /\ s[k] # "\"" /\ ~StartsComment(s, k) => C[<<k, "code">>] = C[<<k + 1, "code">>]
  /\ \A q \in Quotes : C[<<k + 1, q>>] \in SUBSET (k + 1 .. Len(s))

LEMMA ScanEquations ==
  ASSUME NEW s \in Seq(STRING), NEW C, ScansFrom(s, C, 1), NEW k \in 1 .. Len(s)
  PROVE  ScanAt(s, C, k)
<1>1. /\ Len(s) \in Nat /\ k \in 1 .. Len(s) + 1 /\ k + 1 \in 1 .. Len(s) + 1
      /\ k <= Len(s) /\ ~(k > Len(s))
  <2>1. Len(s) \in Nat
    BY LenProperties
  <2>q. QED
    BY <2>1
<1>2. \A q \in Quotes : C[<<k, q>>] = CommentedFrom(s, C, k, q)
  BY <1>1 DEF ScansFrom
<1>3. \A q \in Quotes : C[<<k + 1, q>>] \in SUBSET (k + 1 .. Len(s))
  BY <1>1 DEF ScansFrom
<1>4. C[<<k, "escape">>] = C[<<k + 1, "string">>]
  BY <1>1, <1>2 DEF CommentedFrom, Quotes
<1>5. C[<<k, "string">>] =
        C[<<k + 1, IF s[k] = "\\" THEN "escape" ELSE IF s[k] = "\"" THEN "code" ELSE "string">>]
  BY <1>1, <1>2 DEF CommentedFrom, Quotes
<1>6. C[<<k, "code">>] =
         IF s[k] = "\"" THEN C[<<k + 1, "string">>]
         ELSE IF StartsComment(s, k) THEN (k .. CommentEnd(s, k) - 1) \cup C[<<CommentEnd(s, k), "code">>]
         ELSE C[<<k + 1, "code">>]
  BY <1>1, <1>2 DEF CommentedFrom, Quotes
<1>q. QED
  BY <1>3, <1>4, <1>5, <1>6 DEF ScanAt

-----------------------------------------------------------------------------
(* The lexer keeps up with the scan                                          *)

\* The characters of a file and the blank.
Chars == STRING \cup {" "}

Blank(s, p) == IF p \in Commented(s) /\ s[p] \notin LineBreaks THEN " " ELSE s[p]

\* Before k the lexer put out what the wrapper leaves.
Blanks(s, out, k) == \A p \in 1 .. k - 1 : out[p] = Blank(s, p)

\* The comments from k on are X.
FoundFrom(s, k, X) == \A p \in k .. Len(s) : p \in Commented(s) <=> p \in X

\* The lexer's state when it is about to read position k.
InText(s, C, k, m) ==
  /\ m.q \in Quotes /\ Blanks(s, m.out, k)
  /\ FoundFrom(s, k, C[<<k, m.q>>])

\* After a slash at h.
AtSlash(s, C, k, m, h) ==
  /\ m.q = "slash" /\ h \in 1 .. Len(s) /\ k = h + 1 /\ s[h] = "/" /\ m.out[h] = "/"
  /\ Blanks(s, m.out, h) /\ FoundFrom(s, h, C[<<h, "code">>])

\* In a comment that ends at e.
Inside(s, C, k, m, e) ==
  /\ e \in k .. Len(s) + 1 /\ Blanks(s, m.out, k)
  /\ FoundFrom(s, k, (k .. e - 1) \cup C[<<e, "code">>])

InLine(s, C, k, m, e) ==
  /\ m.q = "line" /\ Inside(s, C, k, m, e)
  /\ \A j \in k .. Len(s) : s[j] = "\n" => e <= j
  /\ e # Len(s) + 1 => s[e] = "\n"

\* Its next star may be at k or later.
InBlock(s, C, k, m, e) ==
  /\ m.q = "block" /\ Inside(s, C, k, m, e)
  /\ \A j \in k .. Len(s) - 1 : s[j] = "*" /\ s[j + 1] = "/" => e <= j + 2
  /\ e # Len(s) + 1 => e >= k + 2 /\ s[e - 2] = "*" /\ s[e - 1] = "/"

\* After a star at h.
AtStar(s, C, k, m, e, h) ==
  /\ m.q = "star" /\ h \in 1 .. Len(s) /\ k = h + 1 /\ s[h] = "*" /\ Inside(s, C, k, m, e)
  /\ \A j \in h .. Len(s) - 1 : s[j] = "*" /\ s[j + 1] = "/" => e <= j + 2
  /\ e # Len(s) + 1 => e >= k + 1 /\ s[e - 2] = "*" /\ s[e - 1] = "/"

Follows(s, C, k, m) ==
  /\ m.out \in Seq(Chars) /\ Len(m.out) = k - 1
  /\ \/ InText(s, C, k, m)
     \/ \E h \in Nat : AtSlash(s, C, k, m, h)
     \/ \E e \in Nat : InLine(s, C, k, m, e) \/ InBlock(s, C, k, m, e)
     \/ \E e, h \in Nat : AtStar(s, C, k, m, e, h)

LEMMA OutStep ==
  ASSUME NEW s, NEW k \in Nat, k # 0, NEW out \in Seq(Chars), Len(out) = k - 1, Blanks(s, out, k),
         NEW c \in Chars, c = Blank(s, k)
  PROVE  /\ Append(out, c) \in Seq(Chars) /\ Len(Append(out, c)) = (k + 1) - 1
         /\ Blanks(s, Append(out, c), k + 1)
<1>1. /\ Append(out, c) \in Seq(Chars) /\ Len(Append(out, c)) = k
      /\ Append(out, c)[k] = c /\ \A p \in 1 .. k - 1 : Append(out, c)[p] = out[p]
  BY AppendProperties
<1>2. \A p \in 1 .. (k + 1) - 1 : p \in 1 .. k - 1 \/ p = k
  OBVIOUS
<1>3. (k + 1) - 1 = k
  OBVIOUS
<1>q. QED
  BY <1>1, <1>2, <1>3 DEF Blanks

LEMMA Positions ==
  ASSUME NEW s \in Seq(STRING), NEW k \in 1 .. Len(s)
  PROVE  /\ Len(s) \in Nat /\ k \in Nat /\ k # 0 /\ (k + 1) - 1 = k /\ s[k] \in Chars
         /\ k \in k .. Len(s) /\ k \notin k + 1 .. Len(s)
         /\ \A p \in k + 1 .. Len(s) : p \in k .. Len(s)
<1>1. Len(s) \in Nat
  BY LenProperties
<1>2. k \in Nat /\ k # 0 /\ (k + 1) - 1 = k /\ k <= Len(s)
  BY <1>1
<1>3. k \in k .. Len(s)
  BY <1>1, <1>2
<1>4. k \notin k + 1 .. Len(s)
  BY <1>1, <1>2
<1>5. \A p \in k + 1 .. Len(s) : p \in k .. Len(s)
  BY <1>1, <1>2
<1>q. QED
  BY <1>1, <1>2, <1>3, <1>4, <1>5, ElementOfSeq DEF Chars

\* Later comments are found from a later position.
LEMMA FoundLater ==
  ASSUME NEW s \in Seq(STRING), NEW k \in 1 .. Len(s), NEW X, NEW Y, FoundFrom(s, k, X),
         \A p \in k + 1 .. Len(s) : p \in X <=> p \in Y
  PROVE  FoundFrom(s, k + 1, Y)
BY Positions DEF FoundFrom

\* A code position that is no quote and opens no comment.
LEMMA PlainCode ==
  ASSUME NEW s \in Seq(STRING), NEW C, ScansFrom(s, C, 1), NEW k \in 1 .. Len(s),
         FoundFrom(s, k, C[<<k, "code">>]), s[k] # "\"", ~StartsComment(s, k)
  PROVE  FoundFrom(s, k + 1, C[<<k + 1, "code">>]) /\ Blank(s, k) = s[k]
<1>1. /\ C[<<k, "code">>] = C[<<k + 1, "code">>]
      /\ C[<<k + 1, "code">>] \in SUBSET (k + 1 .. Len(s))
  <2>1. ScanAt(s, C, k)
    BY ScanEquations
  <2>2. "code" \in Quotes
    BY DEF Quotes
  <2>q. QED
    BY <2>1, <2>2 DEF ScanAt
<1>3. FoundFrom(s, k + 1, C[<<k + 1, "code">>])
  BY <1>1, FoundLater
<1>4. k \notin Commented(s)
  BY <1>1, Positions DEF FoundFrom
<1>q. QED
  BY <1>3, <1>4 DEF Blank

\* The text lexer at a character of text.
LEMMA TextStep ==
  ASSUME NEW s \in Seq(STRING), NEW C, ScansFrom(s, C, 1), NEW k \in 1 .. Len(s), NEW m,
         m.out \in Seq(Chars), Len(m.out) = k - 1, InText(s, C, k, m)
  PROVE  Follows(s, C, k + 1, Lex(m, s[k]))
<1> DEFINE c == s[k]
<1>1. /\ Len(s) \in Nat /\ k \in Nat /\ k # 0 /\ (k + 1) - 1 = k /\ c \in Chars
      /\ k \in k .. Len(s) /\ k \notin k + 1 .. Len(s)
  BY Positions
<1>2. /\ C[<<k, "escape">>] = C[<<k + 1, "string">>]
      /\ C[<<k, "string">>] =
           C[<<k + 1, IF c = "\\" THEN "escape" ELSE IF c = "\"" THEN "code" ELSE "string">>]
      /\ c = "\"" => C[<<k, "code">>] = C[<<k + 1, "string">>]
      /\ \A q \in Quotes : C[<<k + 1, q>>] \in SUBSET (k + 1 .. Len(s))
  <2>1. ScanAt(s, C, k)
    BY ScanEquations
  <2>q. QED
    BY <2>1 DEF ScanAt
<1>3. FoundFrom(s, k, C[<<k, m.q>>]) /\ Blanks(s, m.out, k) /\ m.q \in Quotes
  BY DEF InText
<1>a. "code" \in Quotes /\ "string" \in Quotes /\ "escape" \in Quotes
  BY DEF Quotes
\* The character stays text.
<1>4. ASSUME NEW q \in Quotes, C[<<k, m.q>>] = C[<<k + 1, q>>],
             Lex(m, c) = [q |-> q, out |-> Append(m.out, c)]
      PROVE  Follows(s, C, k + 1, Lex(m, c))
  <2>1. FoundFrom(s, k + 1, C[<<k + 1, q>>])
    BY <1>3, <1>4, FoundLater
  <2>2. k \notin Commented(s)
    BY <1>1, <1>2, <1>3, <1>4 DEF FoundFrom
  <2>3. c = Blank(s, k)
    BY <2>2 DEF Blank
  <2> HIDE DEF c
  <2>4. /\ Append(m.out, c) \in Seq(Chars) /\ Len(Append(m.out, c)) = (k + 1) - 1
        /\ Blanks(s, Append(m.out, c), k + 1)
    BY <1>1, <1>3, <2>3, OutStep
  <2>5. Lex(m, c).q = q /\ Lex(m, c).out = Append(m.out, c)
    BY <1>4
  <2>q. QED
    BY <2>1, <2>4, <2>5 DEF Follows, InText
<1> HIDE DEF c
<1>5. CASE m.q = "escape"
  <2>1. Lex(m, c) = [q |-> "string", out |-> Append(m.out, c)]
    BY <1>5 DEF Lex
  <2>2. C[<<k, m.q>>] = C[<<k + 1, "string">>]
    BY <1>2, <1>5
  <2>q. QED
    BY <1>4, <1>a, <2>1, <2>2 DEF c
<1>6. CASE m.q = "string"
  <2> DEFINE r == IF c = "\\" THEN "escape" ELSE IF c = "\"" THEN "code" ELSE "string"
  <2>1. Lex(m, c) = [q |-> r, out |-> Append(m.out, c)]
    BY <1>6 DEF Lex
  <2>2. C[<<k, m.q>>] = C[<<k + 1, r>>]
    BY <1>2, <1>6
  <2>3. r \in Quotes
    BY <1>a
  <2> HIDE DEF r
  <2>q. QED
    BY <1>4, <2>1, <2>2, <2>3 DEF c
<1>7. CASE m.q = "code" /\ c = "\""
  <2>1. Lex(m, c) = [q |-> "string", out |-> Append(m.out, c)]
    BY <1>7 DEF Lex
  <2>2. C[<<k, m.q>>] = C[<<k + 1, "string">>]
    BY <1>2, <1>7
  <2>q. QED
    BY <1>4, <1>a, <2>1, <2>2 DEF c
<1>8. CASE m.q = "code" /\ c = "/"
  <2>1. Lex(m, c) = [q |-> "slash", out |-> Append(m.out, c)]
    BY <1>8 DEF Lex
  <2>2. /\ Append(m.out, c) \in Seq(Chars) /\ Len(Append(m.out, c)) = (k + 1) - 1
        /\ Append(m.out, c)[k] = c /\ \A p \in 1 .. k - 1 : Append(m.out, c)[p] = m.out[p]
    BY <1>1, AppendProperties
  <2>3. Blanks(s, Append(m.out, c), k)
    BY <1>3, <2>2 DEF Blanks
  <2>4. Lex(m, c).q = "slash" /\ Lex(m, c).out = Append(m.out, c)
    BY <2>1
  <2>5. AtSlash(s, C, k + 1, Lex(m, c), k)
    BY <1>3, <1>8, <2>2, <2>3, <2>4 DEF AtSlash, c
  <2>q. QED
    BY <1>1, <2>2, <2>4, <2>5 DEF Follows, c
<1>9. CASE m.q = "code" /\ c # "\"" /\ c # "/"
  <2>1. ~StartsComment(s, k)
    BY <1>9 DEF StartsComment, c
  <2>2. C[<<k, m.q>>] = C[<<k + 1, "code">>]
    <3>1. ScanAt(s, C, k)
      BY ScanEquations
    <3>q. QED
      BY <1>9, <2>1, <3>1 DEF ScanAt, c
  <2>3. Lex(m, c) = [q |-> "code", out |-> Append(m.out, c)]
    BY <1>9 DEF Lex
  <2>q. QED
    BY <1>4, <1>a, <2>2, <2>3 DEF c
<1>q. QED
  BY <1>3, <1>5, <1>6, <1>7, <1>8, <1>9 DEF Quotes, c

\* What is left of a character inside a comment.
Kept(c) == IF c \in LineBreaks THEN c ELSE " "

\* A character inside a comment is blanked, unless it breaks the line.
LEMMA InsideStep ==
  ASSUME NEW s \in Seq(STRING), NEW C, NEW k \in 1 .. Len(s), NEW m, NEW e \in k + 1 .. Len(s) + 1,
         m.out \in Seq(Chars), Len(m.out) = k - 1, Inside(s, C, k, m, e),
         NEW x, x.out = Append(m.out, Kept(s[k]))
  PROVE  /\ x.out \in Seq(Chars) /\ Len(x.out) = (k + 1) - 1 /\ Blanks(s, x.out, k + 1)
         /\ FoundFrom(s, k + 1, (k + 1 .. e - 1) \cup C[<<e, "code">>])
         /\ e \in Nat
<1>1. /\ Len(s) \in Nat /\ k \in Nat /\ k # 0 /\ s[k] \in Chars /\ k \in k .. Len(s)
  BY Positions
<1>2. e \in Nat /\ k \in k .. e - 1
  BY <1>1
<1>a. \A p \in k + 1 .. Len(s) : p \in k .. e - 1 <=> p \in k + 1 .. e - 1
  BY <1>1, <1>2
<1>3. FoundFrom(s, k, (k .. e - 1) \cup C[<<e, "code">>]) /\ Blanks(s, m.out, k)
  BY DEF Inside
<1>4. k \in Commented(s)
  BY <1>1, <1>2, <1>3 DEF FoundFrom
<1>5. FoundFrom(s, k + 1, (k + 1 .. e - 1) \cup C[<<e, "code">>])
  BY <1>3, <1>a, FoundLater
<1> DEFINE c == Kept(s[k])
<1>6. c \in Chars /\ c = Blank(s, k) /\ x.out = Append(m.out, c)
  <2>1. c \in Chars
    BY <1>1 DEF Kept, Chars
  <2>2. Kept(s[k]) = Blank(s, k)
    BY <1>4 DEF Blank, Kept
  <2>q. QED
    BY <2>1, <2>2
<1> HIDE DEF c
<1>7. /\ Append(m.out, c) \in Seq(Chars) /\ Len(Append(m.out, c)) = (k + 1) - 1
      /\ Blanks(s, Append(m.out, c), k + 1)
  BY <1>1, <1>3, <1>6, OutStep
<1>q. QED
  BY <1>2, <1>5, <1>6, <1>7

LEMMA LineStep ==
  ASSUME NEW s \in Seq(STRING), NEW C, ScansFrom(s, C, 1), NEW k \in 1 .. Len(s), NEW m,
         m.out \in Seq(Chars), Len(m.out) = k - 1, NEW e \in Nat, InLine(s, C, k, m, e)
  PROVE  Follows(s, C, k + 1, Lex(m, s[k]))
<1> DEFINE x == Lex(m, s[k])
<1>1. /\ Len(s) \in Nat /\ k \in Nat /\ k # 0 /\ s[k] \in Chars /\ k \in k .. Len(s)
  BY Positions
<1>2. /\ m.q = "line" /\ Inside(s, C, k, m, e) /\ e \in k .. Len(s) + 1
      /\ \A j \in k .. Len(s) : s[j] = "\n" => e <= j
      /\ e # Len(s) + 1 => s[e] = "\n"
      /\ FoundFrom(s, k, (k .. e - 1) \cup C[<<e, "code">>]) /\ Blanks(s, m.out, k)
  BY DEF InLine, Inside
<1>3. CASE s[k] = "\n"
  <2>1. e = k /\ k .. e - 1 = {}
    BY <1>1, <1>2, <1>3
  <2>2. FoundFrom(s, k, C[<<k, "code">>])
    BY <1>2, <2>1 DEF FoundFrom
  <2>3. s[k] # "\"" /\ ~StartsComment(s, k)
    BY <1>3 DEF StartsComment
  <2>4. FoundFrom(s, k + 1, C[<<k + 1, "code">>]) /\ Blank(s, k) = s[k]
    BY <2>2, <2>3, PlainCode
  <2>5. x = [q |-> "code", out |-> Append(m.out, s[k])]
    BY <1>2, <1>3 DEF Lex, LineBreaks
  <2>6. /\ Append(m.out, s[k]) \in Seq(Chars) /\ Len(Append(m.out, s[k])) = (k + 1) - 1
        /\ Blanks(s, Append(m.out, s[k]), k + 1)
    BY <1>1, <1>2, <2>4, OutStep
  <2>7. x.q = "code" /\ x.out = Append(m.out, s[k])
    BY <2>5
  <2> HIDE DEF x
  <2>q. QED
    BY <2>4, <2>6, <2>7 DEF Follows, InText, Quotes, x
<1>4. CASE s[k] # "\n"
  <2>1. e \in k + 1 .. Len(s) + 1
    <3>1. e # k
      BY <1>1, <1>2, <1>4
    <3>q. QED
      BY <1>1, <1>2, <3>1
  <2>2. x = [q |-> "line", out |-> Append(m.out, Kept(s[k]))]
    BY <1>2, <1>4 DEF Lex, Kept
  <2>3. x.q = "line" /\ x.out = Append(m.out, Kept(s[k]))
    BY <2>2
  <2> HIDE DEF x
  <2>4. /\ x.out \in Seq(Chars) /\ Len(x.out) = (k + 1) - 1 /\ Blanks(s, x.out, k + 1)
        /\ FoundFrom(s, k + 1, (k + 1 .. e - 1) \cup C[<<e, "code">>])
    BY <1>2, <2>1, <2>3, InsideStep
  <2>5. \A j \in k + 1 .. Len(s) : s[j] = "\n" => e <= j
    BY <1>2, Positions
  <2>6. InLine(s, C, k + 1, x, e)
    BY <1>2, <2>1, <2>3, <2>4, <2>5 DEF InLine, Inside
  <2>q. QED
    BY <2>4, <2>6 DEF Follows, x
<1>q. QED
  BY <1>3, <1>4

LEMMA BlockStep ==
  ASSUME NEW s \in Seq(STRING), NEW C, NEW k \in 1 .. Len(s), NEW m,
         m.out \in Seq(Chars), Len(m.out) = k - 1, NEW e \in Nat, InBlock(s, C, k, m, e)
  PROVE  Follows(s, C, k + 1, Lex(m, s[k]))
<1> DEFINE x == Lex(m, s[k])
<1>1. /\ Len(s) \in Nat /\ k \in Nat /\ k # 0 /\ s[k] \in Chars /\ k \in k .. Len(s) /\ k <= Len(s)
  BY Positions
<1>2. /\ m.q = "block" /\ Inside(s, C, k, m, e) /\ e \in k .. Len(s) + 1
      /\ \A j \in k .. Len(s) - 1 : s[j] = "*" /\ s[j + 1] = "/" => e <= j + 2
      /\ e # Len(s) + 1 => e >= k + 2 /\ s[e - 2] = "*" /\ s[e - 1] = "/"
  BY DEF InBlock, Inside
<1>3. e \in k + 1 .. Len(s) + 1
  BY <1>1, <1>2
<1>4. x = [q |-> IF s[k] = "*" THEN "star" ELSE "block",
           out |-> Append(m.out, Kept(s[k]))]
  BY <1>2 DEF Lex, Kept
<1>5. x.q = (IF s[k] = "*" THEN "star" ELSE "block")
      /\ x.out = Append(m.out, Kept(s[k]))
  BY <1>4
<1> HIDE DEF x
<1>6. /\ x.out \in Seq(Chars) /\ Len(x.out) = (k + 1) - 1 /\ Blanks(s, x.out, k + 1)
      /\ FoundFrom(s, k + 1, (k + 1 .. e - 1) \cup C[<<e, "code">>])
  BY <1>2, <1>3, <1>5, InsideStep
<1>7. Inside(s, C, k + 1, x, e)
  BY <1>3, <1>6 DEF Inside
<1>8. CASE s[k] = "*"
  <2>1. e # Len(s) + 1 => e >= (k + 1) + 1 /\ s[e - 2] = "*" /\ s[e - 1] = "/"
    <3>1. (k + 1) + 1 = k + 2
      BY <1>1
    <3>q. QED
      BY <1>2, <3>1
  <2>2. AtStar(s, C, k + 1, x, e, k)
    BY <1>2, <1>5, <1>7, <1>8, <2>1 DEF AtStar
  <2>q. QED
    BY <1>1, <1>6, <2>2 DEF Follows, x
<1>9. CASE s[k] # "*"
  <2>1. e # Len(s) + 1 => e >= (k + 1) + 2
    <3>1. e # Len(s) + 1 => e >= k + 2 /\ e - 2 # k
      BY <1>2, <1>9
    <3>2. e # k + 2 \/ e - 2 = k
      BY <1>1
    <3>q. QED
      BY <1>1, <3>1, <3>2
  <2>2. \A j \in k + 1 .. Len(s) - 1 : j \in k .. Len(s) - 1
    BY <1>1
  <2>3. InBlock(s, C, k + 1, x, e)
    BY <1>2, <1>5, <1>7, <1>9, <2>1, <2>2 DEF InBlock
  <2>q. QED
    BY <1>6, <2>3 DEF Follows, x
<1>q. QED
  BY <1>8, <1>9

LEMMA StarStep ==
  ASSUME NEW s \in Seq(STRING), NEW C, NEW k \in 1 .. Len(s), NEW m,
         m.out \in Seq(Chars), Len(m.out) = k - 1, NEW e \in Nat, NEW h \in Nat,
         AtStar(s, C, k, m, e, h)
  PROVE  Follows(s, C, k + 1, Lex(m, s[k]))
<1> DEFINE x == Lex(m, s[k])
<1>1. /\ Len(s) \in Nat /\ k \in Nat /\ k # 0 /\ s[k] \in Chars /\ k \in k .. Len(s) /\ k <= Len(s)
  BY Positions
<1>2. /\ m.q = "star" /\ Inside(s, C, k, m, e) /\ e \in k .. Len(s) + 1
      /\ k = h + 1 /\ s[h] = "*" /\ h \in Nat
      /\ \A j \in h .. Len(s) - 1 : s[j] = "*" /\ s[j + 1] = "/" => e <= j + 2
      /\ e # Len(s) + 1 => e >= k + 1 /\ s[e - 2] = "*" /\ s[e - 1] = "/"
  BY DEF AtStar, Inside
<1>3. e \in k + 1 .. Len(s) + 1
  BY <1>1, <1>2
<1>4. x = [q |-> IF s[k] = "/" THEN "code" ELSE IF s[k] = "*" THEN "star" ELSE "block",
           out |-> Append(m.out, Kept(s[k]))]
  BY <1>2 DEF Lex, Kept
<1>5. x.q = (IF s[k] = "/" THEN "code" ELSE IF s[k] = "*" THEN "star" ELSE "block")
      /\ x.out = Append(m.out, Kept(s[k]))
  BY <1>4
<1> HIDE DEF x
<1>6. /\ x.out \in Seq(Chars) /\ Len(x.out) = (k + 1) - 1 /\ Blanks(s, x.out, k + 1)
      /\ FoundFrom(s, k + 1, (k + 1 .. e - 1) \cup C[<<e, "code">>])
  BY <1>2, <1>3, <1>5, InsideStep
<1>7. Inside(s, C, k + 1, x, e)
  BY <1>3, <1>6 DEF Inside
<1>8. CASE s[k] = "/"
  <2>1. h \in h .. Len(s) - 1 /\ s[h + 1] = "/"
    BY <1>1, <1>2, <1>8
  <2>2. e <= h + 2
    BY <1>2, <2>1
  <2>3. e = k + 1 /\ k + 1 .. e - 1 = {}
    BY <1>1, <1>2, <1>3, <2>2
  <2>4. FoundFrom(s, k + 1, C[<<k + 1, "code">>])
    BY <1>6, <2>3 DEF FoundFrom
  <2>q. QED
    BY <1>5, <1>6, <1>8, <2>4 DEF Follows, InText, Quotes, x
<1>9. CASE s[k] # "/"
  <2>1. e # Len(s) + 1 => e >= k + 2
    <3>1. e # Len(s) + 1 => e >= k + 1 /\ e - 1 # k
      BY <1>2, <1>9
    <3>2. e # k + 1 \/ e - 1 = k
      BY <1>1
    <3>q. QED
      BY <1>1, <3>1, <3>2
  <2>2. \A j \in k .. Len(s) - 1 : j \in h .. Len(s) - 1
    BY <1>1, <1>2
  <2>3. CASE s[k] = "*"
    <3>1. (k + 1) + 1 = k + 2
      BY <1>1
    <3>2. AtStar(s, C, k + 1, x, e, k)
      BY <1>2, <1>5, <1>7, <1>9, <2>1, <2>2, <2>3, <3>1 DEF AtStar
    <3>q. QED
      BY <1>1, <1>6, <3>2 DEF Follows, x
  <2>4. CASE s[k] # "*"
    <3>1. e # Len(s) + 1 => e >= (k + 1) + 2
      <4>1. e # Len(s) + 1 => e >= k + 2 /\ e - 2 # k
        BY <1>2, <2>1, <2>4
      <4>2. e # k + 2 \/ e - 2 = k
        BY <1>1
      <4>q. QED
        BY <1>1, <4>1, <4>2
    <3>2. \A j \in k + 1 .. Len(s) - 1 : j \in h .. Len(s) - 1
      BY <1>1, <1>2
    <3>3. InBlock(s, C, k + 1, x, e)
      BY <1>2, <1>5, <1>7, <1>9, <2>4, <3>1, <3>2 DEF InBlock
    <3>q. QED
      BY <1>6, <3>3 DEF Follows, x
  <2>q. QED
    BY <2>3, <2>4
<1>q. QED
  BY <1>8, <1>9

\* Blanking the last character, and nothing else.
LEMMA Overwritten ==
  ASSUME NEW h \in Nat, h # 0, NEW out \in Seq(Chars), Len(out) = h
  PROVE  /\ [out EXCEPT ![Len(out)] = " "] \in Seq(Chars)
         /\ Len([out EXCEPT ![Len(out)] = " "]) = h
         /\ [out EXCEPT ![Len(out)] = " "][h] = " "
         /\ \A p \in 1 .. h - 1 : [out EXCEPT ![Len(out)] = " "][p] = out[p]
<1>1. " " \in Chars
  BY DEF Chars
<1>2. h \in 1 .. Len(out)
  OBVIOUS
<1>3. \A e \in Chars :
        /\ [out EXCEPT ![h] = e] \in Seq(Chars)
        /\ Len([out EXCEPT ![h] = e]) = Len(out)
        /\ \A p \in 1 .. Len(out) : [out EXCEPT ![h] = e][p] = IF p = h THEN e ELSE out[p]
  BY <1>2, ExceptSeq
<1> DEFINE b == [out EXCEPT ![h] = " "]
<1>4. /\ b \in Seq(Chars) /\ Len(b) = h
      /\ \A p \in 1 .. h : b[p] = IF p = h THEN " " ELSE out[p]
  BY <1>1, <1>3
<1>5. \A p \in 1 .. h - 1 : p \in 1 .. h /\ p # h
  OBVIOUS
<1>6. [out EXCEPT ![Len(out)] = " "] = b
  OBVIOUS
<1> HIDE DEF b
<1>q. QED
  BY <1>2, <1>4, <1>5, <1>6

LEMMA SlashStep ==
  ASSUME NEW s \in Seq(STRING), NEW C, ScansFrom(s, C, 1), NEW k \in 1 .. Len(s), NEW m,
         m.out \in Seq(Chars), Len(m.out) = k - 1, NEW h \in Nat, AtSlash(s, C, k, m, h)
  PROVE  Follows(s, C, k + 1, Lex(m, s[k]))
<1> DEFINE x == Lex(m, s[k])
<1>1. /\ Len(s) \in Nat /\ k \in Nat /\ k # 0 /\ s[k] \in Chars /\ k \in k .. Len(s) /\ k <= Len(s)
  BY Positions
<1>2. /\ m.q = "slash" /\ h \in 1 .. Len(s) /\ k = h + 1 /\ s[h] = "/" /\ m.out[h] = "/"
      /\ Blanks(s, m.out, h) /\ FoundFrom(s, h, C[<<h, "code">>]) /\ Len(m.out) = h
      /\ h < Len(s) /\ h \in Nat /\ h \in h .. Len(s)
  BY <1>1 DEF AtSlash
<1>3. CASE s[k] \in {"/", "*"}
  <2> DEFINE e == CommentEnd(s, h)
             out == Append([m.out EXCEPT ![Len(m.out)] = " "], " ")
  <2>1. StartsComment(s, h) /\ s[h] # "\""
    BY <1>2, <1>3 DEF StartsComment
  <2>2. /\ e \in h + 2 .. Len(s) + 1
        /\ s[k] = "*" =>
              /\ \A j \in h + 2 .. Len(s) - 1 :
                   s[j] = "*" /\ s[j + 1] = "/" => e <= j + 2
              /\ e # Len(s) + 1 => e >= h + 4 /\ s[e - 2] = "*" /\ s[e - 1] = "/"
        /\ s[k] # "*" =>
              /\ \A j \in h + 2 .. Len(s) : s[j] = "\n" => e <= j
              /\ e # Len(s) + 1 => s[e] = "\n"
    BY <1>2, <2>1, CommentEndProperties
  <2>3. C[<<h, "code">>] = (h .. e - 1) \cup C[<<e, "code">>]
    <3>1. ScanAt(s, C, h)
      BY <1>2, ScanEquations
    <3>q. QED
      BY <2>1, <3>1 DEF ScanAt
  <2> HIDE DEF e
  <2>4. /\ e \in Nat /\ h \in h .. e - 1 /\ k \in h .. e - 1 /\ k \in h .. Len(s)
        /\ e \in k + 1 .. Len(s) + 1
        /\ \A p \in k + 1 .. Len(s) : /\ p \in h .. Len(s)
                                      /\ p \in h .. e - 1 <=> p \in k + 1 .. e - 1
    BY <1>1, <1>2, <2>2
  <2>5. h \in Commented(s) /\ k \in Commented(s)
    BY <1>2, <2>3, <2>4 DEF FoundFrom
  <2>6. Blank(s, h) = " " /\ Blank(s, k) = " "
    BY <1>2, <1>3, <2>5 DEF Blank, LineBreaks
  <2>7. FoundFrom(s, k + 1, (k + 1 .. e - 1) \cup C[<<e, "code">>])
    BY <1>2, <2>3, <2>4 DEF FoundFrom
  <2>8. x = [q |-> IF s[k] = "/" THEN "line" ELSE "block", out |-> out]
    BY <1>2, <1>3 DEF Lex
  <2>9. /\ out \in Seq(Chars) /\ Len(out) = (k + 1) - 1 /\ Blanks(s, out, k + 1)
    <3> DEFINE b == [m.out EXCEPT ![Len(m.out)] = " "]
    <3>1. b \in Seq(Chars) /\ Len(b) = h /\ b[h] = " " /\ \A p \in 1 .. h - 1 : b[p] = m.out[p]
      <4>1. h # 0
        BY <1>2
      <4>q. QED
        BY <1>2, <4>1, Overwritten
    <3>2. k - 1 = h /\ \A p \in 1 .. k - 1 : p \in 1 .. h - 1 \/ p = h
      BY <1>1, <1>2
    <3> HIDE DEF b
    <3>3. Blanks(s, b, k)
      BY <1>2, <2>6, <3>1, <3>2 DEF Blanks
    <3>4. out = Append(b, " ")
      BY DEF b
    <3> HIDE DEF out
    <3>5. " " \in Chars /\ " " = Blank(s, k) /\ Len(b) = k - 1
      BY <2>6, <3>1, <3>2 DEF Chars
    <3>6. /\ Append(b, " ") \in Seq(Chars) /\ Len(Append(b, " ")) = (k + 1) - 1
          /\ Blanks(s, Append(b, " "), k + 1)
      BY <1>1, <3>1, <3>3, <3>5, OutStep
    <3>q. QED
      BY <3>4, <3>6
  <2> HIDE DEF out
  <2>10. x.q = (IF s[k] = "/" THEN "line" ELSE "block") /\ x.out = out
    BY <2>8
  <2> HIDE DEF x
  <2>11. Inside(s, C, k + 1, x, e)
    BY <2>4, <2>7, <2>9, <2>10 DEF Inside
  <2>a. s[k] = "*" =>
              /\ \A j \in k + 1 .. Len(s) - 1 :
                   s[j] = "*" /\ s[j + 1] = "/" => e <= j + 2
              /\ e # Len(s) + 1 => e >= (k + 1) + 2 /\ s[e - 2] = "*" /\ s[e - 1] = "/"
    <3>1. k + 1 = h + 2 /\ h + 4 = (k + 1) + 2
      BY <1>1, <1>2
    <3>q. QED
      BY <2>2, <3>1
  <2>b. s[k] # "*" =>
              /\ \A j \in k + 1 .. Len(s) : s[j] = "\n" => e <= j
              /\ e # Len(s) + 1 => s[e] = "\n"
    <3>1. k + 1 = h + 2
      BY <1>1, <1>2
    <3>q. QED
      BY <2>2, <3>1
  <2>12. CASE s[k] = "/"
    <3>1. InLine(s, C, k + 1, x, e)
      BY <2>10, <2>11, <2>12, <2>b DEF InLine
    <3>q. QED
      BY <2>4, <2>9, <2>10, <3>1 DEF Follows, x
  <2>13. CASE s[k] = "*"
    <3>1. InBlock(s, C, k + 1, x, e)
      BY <2>10, <2>11, <2>13, <2>a DEF InBlock
    <3>q. QED
      BY <2>4, <2>9, <2>10, <3>1 DEF Follows, x
  <2>q. QED
    BY <1>3, <2>12, <2>13
<1>4. CASE s[k] \notin {"/", "*"}
  <2>1. s[h] # "\"" /\ ~StartsComment(s, h)
    BY <1>2, <1>4 DEF StartsComment
  <2>2. FoundFrom(s, h + 1, C[<<h + 1, "code">>]) /\ Blank(s, h) = s[h]
    BY <1>2, <2>1, PlainCode
  <2> DEFINE y == [q |-> "code", out |-> m.out]
  <2>3. Blanks(s, m.out, k)
    <3>1. \A p \in 1 .. k - 1 : p \in 1 .. h - 1 \/ p = h
      BY <1>1, <1>2
    <3>q. QED
      BY <1>2, <2>2, <3>1 DEF Blanks
  <2>4. y.q = "code" /\ y.out = m.out /\ Lex(y, s[k]) = Lex(m, s[k])
    BY <1>2, <1>4 DEF Lex
  <2> HIDE DEF y
  <2>5. InText(s, C, k, y)
    BY <1>2, <2>2, <2>3, <2>4 DEF InText, Quotes
  <2>6. Follows(s, C, k + 1, Lex(y, s[k]))
    BY <2>4, <2>5, TextStep
  <2>q. QED
    BY <2>4, <2>6
<1>q. QED
  BY <1>3, <1>4

LEMMA LexStep ==
  ASSUME NEW s \in Seq(STRING), NEW C, ScansFrom(s, C, 1), NEW k \in 1 .. Len(s), NEW m,
         Follows(s, C, k, m)
  PROVE  Follows(s, C, k + 1, Lex(m, s[k]))
<1>1. m.out \in Seq(Chars) /\ Len(m.out) = k - 1
  BY DEF Follows
<1>2. CASE InText(s, C, k, m)
  BY <1>1, <1>2, TextStep
<1>3. CASE \E h \in Nat : AtSlash(s, C, k, m, h)
  BY <1>1, <1>3, SlashStep
<1>4. CASE \E e \in Nat : InLine(s, C, k, m, e) \/ InBlock(s, C, k, m, e)
  BY <1>1, <1>4, LineStep, BlockStep
<1>5. CASE \E e, h \in Nat : AtStar(s, C, k, m, e, h)
  BY <1>1, <1>5, StarStep
<1>q. QED
  BY <1>2, <1>3, <1>4, <1>5 DEF Follows

-----------------------------------------------------------------------------
(* The lexer's whole run                                                     *)

LexStart == [q |-> "code", out |-> <<>>]
IsLexing(s, u) == u = [i \in 0 .. Len(s) |-> IF i = 0 THEN LexStart ELSE Lex(u[i - 1], s[i])]

LEMMA LexedIs == \A s : Lexed(s) = (CHOOSE u : IsLexing(s, u))[Len(s)].out
BY DEF Lexed, IsLexing, LexStart

\* u has the lexer's states up to n.
Lexes(s, u, n) == u[0] = LexStart /\ \A i \in 1 .. n : u[i] = Lex(u[i - 1], s[i])

LEMMA LexesOn ==
  ASSUME NEW s, NEW n \in Nat, n # 0, NEW u, Lexes(s, u, n - 1)
  PROVE  \E w : Lexes(s, w, n)
<1> DEFINE w == [i \in 0 .. n |-> IF i = n THEN Lex(u[n - 1], s[n]) ELSE u[i]]
<1>1. w[0] = u[0] /\ w[n] = Lex(u[n - 1], s[n]) /\ \A i \in 0 .. n - 1 : w[i] = u[i]
  OBVIOUS
<1> HIDE DEF w
<1>2. ASSUME NEW i \in 1 .. n PROVE w[i] = Lex(w[i - 1], s[i])
  <2>1. i - 1 \in 0 .. n - 1 /\ (i = n \/ (i \in 0 .. n - 1 /\ i \in 1 .. n - 1))
    OBVIOUS
  <2>q. QED
    BY <1>1, <2>1 DEF Lexes
<1>q. QED
  BY <1>1, <1>2 DEF Lexes

LEMMA LexingExists ==
  ASSUME NEW s \in Seq(STRING)
  PROVE  \E u : IsLexing(s, u)
<1> DEFINE n == Len(s)
           Good(m) == \E u : Lexes(s, u, m)
           Bad == {m \in 0 .. n : ~Good(m)}
<1>1. n \in Nat
  BY LenProperties
<1>2. Good(0)
  <2>1. [i \in {0} |-> LexStart][0] = LexStart /\ 1 .. 0 = {}
    OBVIOUS
  <2>2. Lexes(s, [i \in {0} |-> LexStart], 0)
    BY <2>1 DEF Lexes
  <2>q. QED
    BY <2>2
<1>3. Good(n)
  <2> SUFFICES ASSUME ~Good(n) PROVE FALSE
    OBVIOUS
  <2>1. n \in Bad /\ Bad \subseteq Nat
    BY <1>1
  <2>2. PICK m \in Bad : \A l \in Bad : m <= l
    <3> HIDE DEF Bad
    <3>q. QED
      BY <2>1, LeastElement
  <2>3. m \in Nat /\ m # 0 /\ m - 1 \in 0 .. n /\ m - 1 \notin Bad
    BY <1>1, <1>2, <2>2
  <2>4. Good(m - 1)
    BY <2>3
  <2>5. Good(m)
    BY <2>3, <2>4, LexesOn
  <2>q. QED
    BY <2>2, <2>5
<1>4. PICK u : Lexes(s, u, n)
  BY <1>3
<1> DEFINE w == [i \in 0 .. n |-> u[i]]
<1>5. ASSUME NEW i \in 0 .. n
      PROVE  w[i] = IF i = 0 THEN LexStart ELSE Lex(w[i - 1], s[i])
  <2>1. i # 0 => i \in 1 .. n /\ i - 1 \in 0 .. n
    BY <1>1
  <2>2. 0 \in 0 .. n /\ \A j \in 0 .. n : w[j] = u[j]
    BY <1>1
  <2> HIDE DEF w
  <2>q. QED
    BY <1>4, <2>1, <2>2 DEF Lexes
<1>6. w = [i \in 0 .. n |-> w[i]]
  OBVIOUS
<1> HIDE DEF w
<1>7. w = [i \in 0 .. n |-> IF i = 0 THEN LexStart ELSE Lex(w[i - 1], s[i])]
  BY <1>5, <1>6
<1>q. QED
  BY <1>7 DEF IsLexing

LEMMA LexStarts ==
  ASSUME NEW s \in Seq(STRING), NEW C, Commented(s) = C[<<1, "code">>]
  PROVE  Follows(s, C, 1, LexStart)
<1>1. LexStart.q = "code" /\ LexStart.out = <<>>
  BY DEF LexStart
<1>2. <<>> \in Seq(Chars) /\ Len(<<>>) = 1 - 1 /\ 1 .. 1 - 1 = {}
  OBVIOUS
<1>3. InText(s, C, 1, LexStart)
  BY <1>1, <1>2 DEF InText, Quotes, Blanks, FoundFrom
<1>q. QED
  BY <1>1, <1>2, <1>3 DEF Follows

\* At the end of the file the lexer put out what the wrapper leaves of it.
LEMMA LexEnds ==
  ASSUME NEW s \in Seq(STRING), NEW C, ScansFrom(s, C, 1), NEW m, Follows(s, C, Len(s) + 1, m)
  PROVE  m.out \in Seq(Chars) /\ Len(m.out) = Len(s) /\ \A p \in 1 .. Len(s) : m.out[p] = Blank(s, p)
<1> DEFINE n == Len(s)
<1>1. n \in Nat /\ (n + 1) - 1 = n
  BY LenProperties
<1>2. m.out \in Seq(Chars) /\ Len(m.out) = n
  BY <1>1 DEF Follows
<1>3. CASE Blanks(s, m.out, n + 1)
  BY <1>1, <1>2, <1>3 DEF Blanks
<1>4. CASE \E h \in Nat : AtSlash(s, C, n + 1, m, h)
  <2>1. PICK h \in Nat : AtSlash(s, C, n + 1, m, h)
    BY <1>4
  <2>2. h = n /\ n \in 1 .. n
    <3>1. h \in 1 .. n /\ n + 1 = h + 1
      BY <2>1 DEF AtSlash
    <3> HIDE DEF n
    <3>q. QED
      BY <1>1, <3>1
  <2>3. /\ s[n] = "/" /\ m.out[n] = "/" /\ Blanks(s, m.out, n) /\ FoundFrom(s, n, C[<<n, "code">>])
    BY <2>1, <2>2 DEF AtSlash
  <2>4. s[n] # "\"" /\ ~StartsComment(s, n)
    BY <1>1, <2>3 DEF StartsComment
  <2>5. Blank(s, n) = s[n]
    BY <2>2, <2>3, <2>4, PlainCode
  <2>6. \A p \in 1 .. n : p \in 1 .. n - 1 \/ p = n
    <3> HIDE DEF n
    <3>q. QED
      BY <1>1
  <2>q. QED
    BY <1>2, <2>3, <2>5, <2>6 DEF Blanks
<1>q. QED
  BY <1>3, <1>4 DEF Follows, InText, InLine, InBlock, AtStar, Inside

\* The wrapper's scan leaves of any text what the lexer leaves.
LEMMA StripsByTheGrammar ==
  ASSUME NEW s \in Seq(STRING)
  PROVE  Stripped(s) = Lexed(s)
<1> DEFINE n == Len(s)
           u == CHOOSE w : IsLexing(s, w)
<1>1. n \in Nat /\ DOMAIN s = 1 .. n
  BY LenProperties
<1>2. PICK C : ScansFrom(s, C, 1) /\ Commented(s) = C[<<1, "code">>]
  BY CommentedScan
<1>3. IsLexing(s, u) /\ Lexed(s) = u[n].out
  BY LexingExists, LexedIs
<1> HIDE DEF u
<1>4. u[0] = LexStart /\ \A i \in 1 .. n : u[i] = Lex(u[i - 1], s[i])
  <2>1. 0 \in 0 .. n /\ \A i \in 1 .. n : i \in 0 .. n /\ i # 0
    BY <1>1
  <2>2. \A i \in 0 .. n : u[i] = IF i = 0 THEN LexStart ELSE Lex(u[i - 1], s[i])
    BY <1>3 DEF IsLexing
  <2>q. QED
    BY <2>1, <2>2
<1> DEFINE Bad == {i \in 0 .. n : ~Follows(s, C, i + 1, u[i])}
<1>5. 0 \notin Bad
  <2>1. Follows(s, C, 1, u[0])
    BY <1>2, <1>4, LexStarts
  <2>2. 0 + 1 = 1
    OBVIOUS
  <2>q. QED
    BY <2>1, <2>2
<1>6. Bad = {}
  <2> SUFFICES ASSUME Bad # {} PROVE FALSE
    OBVIOUS
  <2>1. Bad \subseteq Nat
    BY <1>1
  <2>2. PICK i \in Bad : \A j \in Bad : i <= j
    <3> HIDE DEF Bad
    <3>q. QED
      BY <2>1, LeastElement
  <2>3. i \in 1 .. n /\ i - 1 \in 0 .. n /\ (i - 1) + 1 = i
    <3>1. i # 0
      BY <1>5, <2>2
    <3>q. QED
      BY <1>1, <2>2, <3>1
  <2>4. i - 1 \notin Bad
    BY <2>2, <2>3
  <2>5. Follows(s, C, i, u[i - 1])
    BY <2>3, <2>4
  <2>6. Follows(s, C, i + 1, u[i])
    BY <1>2, <1>4, <2>3, <2>5, LexStep
  <2>q. QED
    BY <2>2, <2>6
<1>7. Follows(s, C, n + 1, u[n])
  <2>1. n \in 0 .. n
    BY <1>1
  <2>q. QED
    BY <1>6, <2>1
<1> DEFINE o == u[n].out
<1>8. o \in Seq(Chars) /\ Len(o) = n /\ \A p \in 1 .. n : o[p] = Blank(s, p)
  BY <1>2, <1>7, LexEnds
<1> HIDE DEF o
<1>9. o = [p \in 1 .. n |-> o[p]]
  BY <1>8, LenProperties
<1>10. Stripped(s) = [p \in 1 .. n |-> Blank(s, p)]
  BY <1>1 DEF Stripped, Blank
<1>q. QED
  BY <1>3, <1>8, <1>9, <1>10 DEF o

-----------------------------------------------------------------------------
(* The config file                                                           *)

FileInv == file \in Seq(STRING) /\ (data # <<>> => data = Stripped(file))

LEMMA FileInductive == Spec => []FileInv
<1>1. Init => FileInv
  <2>1. <<>> \in Seq(STRING) /\ \A f \in Files : f \in Seq(STRING)
    BY LaunchArgumentsAssumption
  <2>q. QED
    BY <2>1 DEF Init, FileInv
<1>2. FileInv /\ [Next]_vars => FileInv'
  <2> SUFFICES ASSUME FileInv, [Next]_vars PROVE FileInv'
    OBVIOUS
  <2> USE DEF FileInv
  <2>1. CASE InteractivePlan
    <3>1. UNCHANGED <<file, data>>
      BY <2>1 DEF InteractivePlan, Refuse
    <3>q. QED
      BY <3>1
  <2>2. CASE Launch
    <3>1. file' = file /\ (data' = Stripped(file) \/ data' = data)
      BY <2>2 DEF Launch
    <3>q. QED
      BY <3>1
  <2>3. CASE OpenLane
    <3>1. UNCHANGED <<file, data>>
      BY <2>3 DEF OpenLane, Refuse
    <3>q. QED
      BY <3>1
  <2>4. CASE UNCHANGED vars
    BY <2>4 DEF vars
  <2>q. QED
    BY <2>1, <2>2, <2>3, <2>4 DEF Next
<1>q. QED
  BY <1>1, <1>2, PTL DEF Spec

\* Of every config file, whatever is in it, exactly the comments are read as
\* blanks: the wrapper's scan (stripMCPComments), which jumps from an opening
\* to its end, and the lexical grammar, which reads one character at a time,
\* blank the same positions.
THEOREM CommentsStripped == Spec => []OnlyCommentsStripped
<1>1. FileInv => OnlyCommentsStripped
  BY StripsByTheGrammar DEF FileInv, OnlyCommentsStripped
<1>q. QED
  BY <1>1, FileInductive, PTL

-----------------------------------------------------------------------------
(* Native's parser, one token at a time                                      *)

\* The meanings of a value: what the caller's arguments mean, and what the
\* wrapper's own options do.
Parts == STRING \cup {"tool", "managed", "rename", "launch"}

OneOf(kinds, keys) == [kind : kinds, key : keys, value : SUBSET Parts]
Bares == [kind : {"option"}, key : Keys, value : {{}}]
Tokens == OneOf({"word"}, {"none"}) \cup Bares \cup OneOf({"attached"}, Keys) \cup {Boundary}

ParserStates ==
  [open : Keys \cup {"none"}, literal : BOOLEAN, positional : Seq(Tokens),
   values : [Keys -> SUBSET Parts], count : [Keys -> Nat]]

IsSetting(t) == t.key \in Keys /\ ~IsWord(t)

LEMMA NoneIsNoKey == "none" \notin Keys
BY DEF Keys, Arrays, Scalars, Flags

LEMMA TokenKinds ==
  ASSUME NEW t \in Tokens
  PROVE  /\ t.value \in SUBSET Parts
         /\ \/ IsWord(t) /\ t # Boundary /\ ~IsSetting(t) /\ t.key = "none"
            \/ t = Boundary /\ ~IsWord(t) /\ ~IsSetting(t)
            \/ /\ IsSetting(t) /\ t # Boundary /\ ~IsWord(t) /\ t.kind \in {"option", "attached"}
               /\ t.kind = "option" => t.value = {}
<1> USE NoneIsNoKey DEF IsWord, IsSetting
<1>1. Boundary.kind = "boundary" /\ Boundary.key = "none" /\ Boundary.value = {}
  BY DEF Boundary
<1>2. CASE t \in OneOf({"word"}, {"none"})
  <2>1. t.kind = "word" /\ t.key = "none" /\ t.value \in SUBSET Parts
    BY <1>2 DEF OneOf
  <2>q. QED
    BY <1>1, <2>1
<1>3. CASE t \in Bares
  <2>1. t.kind = "option" /\ t.key \in Keys /\ t.value = {}
    BY <1>3 DEF Bares
  <2>q. QED
    BY <1>1, <2>1
<1>4. CASE t \in OneOf({"attached"}, Keys)
  <2>1. t.kind = "attached" /\ t.key \in Keys /\ t.value \in SUBSET Parts
    BY <1>4 DEF OneOf
  <2>q. QED
    BY <1>1, <2>1
<1>5. CASE t = Boundary
  BY <1>1, <1>5
<1>q. QED
  BY <1>2, <1>3, <1>4, <1>5 DEF Tokens

\* What an option leaves open for the words after it.
Opened(t) == IF t.key \in Arrays \/ (t.key \in Scalars /\ t.kind = "option") THEN t.key ELSE "none"

ReadsLiteral(s, t, x) ==
  /\ x.literal /\ x.open = s.open /\ x.positional = Append(s.positional, t)
  /\ x.values = s.values /\ x.count = s.count
ReadsBoundary(s, t, x) ==
  /\ x.literal /\ x.open = "none" /\ x.positional = s.positional
  /\ x.values = s.values /\ x.count = s.count
ReadsPositional(s, t, x) ==
  /\ ~x.literal /\ x.open = "none" /\ x.positional = Append(s.positional, t)
  /\ x.values = s.values /\ x.count = s.count
ReadsValue(s, t, x) ==
  /\ ~x.literal /\ x.open = (IF s.open \in Arrays THEN s.open ELSE "none")
  /\ x.positional = s.positional
  /\ x.values = [s.values EXCEPT ![s.open] = @ \cup t.value] /\ x.count = s.count
ReadsSetting(s, t, x) ==
  /\ ~x.literal /\ x.open = Opened(t) /\ x.positional = s.positional
  /\ x.values = [s.values EXCEPT ![t.key] = @ \cup t.value]
  /\ x.count = [s.count EXCEPT ![t.key] = @ + 1]

LEMMA ReadFields ==
  ASSUME NEW s \in ParserStates, NEW t \in Tokens
  PROVE  /\ s.literal => ReadsLiteral(s, t, Read(s, t))
         /\ ~s.literal /\ t = Boundary => ReadsBoundary(s, t, Read(s, t))
         /\ ~s.literal /\ IsWord(t) /\ s.open = "none" => ReadsPositional(s, t, Read(s, t))
         /\ ~s.literal /\ IsWord(t) /\ s.open # "none" => ReadsValue(s, t, Read(s, t))
         /\ ~s.literal /\ IsSetting(t) => ReadsSetting(s, t, Read(s, t))
<1>1. s = [open |-> s.open, literal |-> s.literal, positional |-> s.positional,
           values |-> s.values, count |-> s.count]
      /\ s.literal \in BOOLEAN
  BY DEF ParserStates
<1>2. CASE s.literal
  <2>1. Read(s, t) = [s EXCEPT !.positional = Append(@, t)]
    BY <1>2 DEF Read
  <2>q. QED
    BY <1>1, <1>2, <2>1 DEF ReadsLiteral
<1>3. CASE ~s.literal /\ t = Boundary
  <2>1. Read(s, t) = [s EXCEPT !.literal = TRUE, !.open = "none"] /\ ~IsWord(t) /\ ~IsSetting(t)
    BY <1>3, TokenKinds DEF Read
  <2>q. QED
    BY <1>1, <1>3, <2>1 DEF ReadsBoundary
<1>4. CASE ~s.literal /\ IsWord(t) /\ s.open = "none"
  <2>1. t # Boundary /\ ~IsSetting(t)
    BY <1>4, TokenKinds
  <2>2. Read(s, t) = [s EXCEPT !.positional = Append(@, t)]
    BY <1>4, <2>1 DEF Read
  <2>q. QED
    BY <1>1, <1>4, <2>1, <2>2 DEF ReadsPositional
<1>5. CASE ~s.literal /\ IsWord(t) /\ s.open # "none"
  <2>1. t # Boundary /\ ~IsSetting(t)
    BY <1>5, TokenKinds
  <2>2. Read(s, t) = [s EXCEPT !.values[s.open] = @ \cup t.value,
                               !.open = IF s.open \in Arrays THEN @ ELSE "none"]
    BY <1>5, <2>1 DEF Read
  <2>q. QED
    BY <1>1, <1>5, <2>1, <2>2 DEF ReadsValue
<1>6. CASE ~s.literal /\ IsSetting(t)
  <2>1. t # Boundary /\ ~IsWord(t)
    BY <1>6, TokenKinds
  <2>2. Read(s, t) = [s EXCEPT !.values[t.key] = @ \cup t.value, !.count[t.key] = @ + 1,
                               !.open = Opened(t)]
    BY <1>6, <2>1 DEF Read, Opened
  <2>q. QED
    BY <1>1, <1>6, <2>1, <2>2 DEF ReadsSetting
<1>q. QED
  BY <1>2, <1>3, <1>4, <1>5, <1>6

\* One of the five.
LEMMA ReadCases ==
  ASSUME NEW s \in ParserStates, NEW t \in Tokens
  PROVE  \/ s.literal
         \/ ~s.literal /\ t = Boundary
         \/ ~s.literal /\ IsWord(t) /\ s.open = "none"
         \/ ~s.literal /\ IsWord(t) /\ s.open # "none" /\ s.open \in Keys
         \/ ~s.literal /\ IsSetting(t)
BY TokenKinds DEF ParserStates

LEMMA ReadType ==
  ASSUME NEW s \in ParserStates, NEW t \in Tokens
  PROVE  Read(s, t) \in ParserStates
<1>1. \A k \in Keys : s.values[k] \cup t.value \in SUBSET Parts /\ s.count[k] + 1 \in Nat
  BY TokenKinds DEF ParserStates
<1>2. /\ s.open \in Keys \cup {"none"} /\ s.literal \in BOOLEAN /\ s.positional \in Seq(Tokens)
      /\ s.values \in [Keys -> SUBSET Parts] /\ s.count \in [Keys -> Nat]
      /\ Append(s.positional, t) \in Seq(Tokens)
  BY DEF ParserStates
<1>3. Opened(t) \in Keys \cup {"none"}
  BY DEF Opened, Keys
<1> DEFINE x == Read(s, t)
<1>4. x = [open |-> x.open, literal |-> x.literal, positional |-> x.positional,
           values |-> x.values, count |-> x.count]
      /\ x.literal \in BOOLEAN
  <2>1. s = [open |-> s.open, literal |-> s.literal, positional |-> s.positional,
           values |-> s.values, count |-> s.count]
    BY DEF ParserStates
  <2>q. QED
    BY <1>2, <2>1, TokenKinds, ReadCases DEF Read
<1>5. /\ x.open \in Keys \cup {"none"} /\ x.positional \in Seq(Tokens)
      /\ x.values \in [Keys -> SUBSET Parts] /\ x.count \in [Keys -> Nat]
  <2> HIDE DEF x
  <2>1. CASE s.literal
    <3>1. ReadsLiteral(s, t, x)
      BY <2>1, ReadFields DEF x
    <3>q. QED
      BY <1>2, <3>1 DEF ReadsLiteral
  <2>2. CASE ~s.literal /\ t = Boundary
    <3>1. ReadsBoundary(s, t, x)
      BY <2>2, ReadFields DEF x
    <3>q. QED
      BY <1>2, <3>1 DEF ReadsBoundary
  <2>3. CASE ~s.literal /\ IsWord(t) /\ s.open = "none"
    <3>1. ReadsPositional(s, t, x)
      BY <2>3, ReadFields DEF x
    <3>q. QED
      BY <1>2, <3>1 DEF ReadsPositional
  <2>4. CASE ~s.literal /\ IsWord(t) /\ s.open # "none" /\ s.open \in Keys
    <3>1. ReadsValue(s, t, x)
      BY <2>4, ReadFields DEF x
    <3>2. [s.values EXCEPT ![s.open] = @ \cup t.value] \in [Keys -> SUBSET Parts]
      BY <1>1, <1>2, <2>4
    <3>q. QED
      BY <1>2, <2>4, <3>1, <3>2 DEF ReadsValue
  <2>5. CASE ~s.literal /\ IsSetting(t)
    <3>1. ReadsSetting(s, t, x)
      BY <2>5, ReadFields DEF x
    <3>2. t.key \in Keys
      BY <2>5 DEF IsSetting
    <3>3. [s.values EXCEPT ![t.key] = @ \cup t.value] \in [Keys -> SUBSET Parts]
      BY <1>1, <1>2, <3>2
    <3>4. [s.count EXCEPT ![t.key] = @ + 1] \in [Keys -> Nat]
      BY <1>1, <1>2, <3>2
    <3>q. QED
      BY <1>2, <1>3, <3>1, <3>3, <3>4 DEF ReadsSetting
  <2>q. QED
    BY <2>1, <2>2, <2>3, <2>4, <2>5, ReadCases
<1> HIDE DEF x
<1>q. QED
  BY <1>4, <1>5 DEF ParserStates, x

-----------------------------------------------------------------------------
(* Native's parser over a list                                               *)

ParseStart == [open |-> "none", literal |-> FALSE, positional |-> <<>>,
               values |-> [k \in Keys |-> {}], count |-> [k \in Keys |-> 0]]
IsParsing(l, u) == u = [i \in 0 .. Len(l) |-> IF i = 0 THEN ParseStart ELSE Read(u[i - 1], l[i])]

LEMMA ParsedIs == \A l : Parsed(l) = (CHOOSE u : IsParsing(l, u))[Len(l)]
BY DEF Parsed, IsParsing, ParseStart

\* u has the parser's states over l.
Parses(l, u) ==
  /\ u[0] = ParseStart /\ \A i \in 1 .. Len(l) : u[i] = Read(u[i - 1], l[i])
  /\ \A i \in 0 .. Len(l) : u[i] \in ParserStates

LEMMA StartType == ParseStart \in ParserStates
<1>1. /\ [k \in Keys |-> {}] \in [Keys -> SUBSET Parts] /\ [k \in Keys |-> 0] \in [Keys -> Nat]
      /\ <<>> \in Seq(Tokens)
  OBVIOUS
<1>q. QED
  BY <1>1 DEF ParseStart, ParserStates

LEMMA ParsingExists ==
  ASSUME NEW l \in Seq(Tokens)
  PROVE  \E u : IsParsing(l, u)
<1> DEFINE n == Len(l)
           V == ParserStates
           step == [p \in V \X (1 .. n) |-> Read(p[1], l[p[2]])]
<1>1. n \in Nat /\ \A i \in 1 .. n : l[i] \in Tokens
  BY LenProperties, ElementOfSeq
<1>2. \A v \in V, i \in 1 .. n : step[<<v, i>>] = Read(v, l[i])
  OBVIOUS
<1>3. \A v \in V, i \in 1 .. n : Read(v, l[i]) \in V
  BY <1>1, ReadType
<1> HIDE DEF step, V, n
<1>4. ParseStart \in V /\ StaysIn(V, n, step)
  BY <1>2, <1>3, StartType DEF StaysIn, V
<1>5. PICK u \in [0 .. n -> V] : Carries(u, ParseStart, n, step)
  BY <1>1, <1>4, FoldExists
<1>6. \A i \in 0 .. n : u[i] = IF i = 0 THEN ParseStart ELSE Read(u[i - 1], l[i])
  <2> SUFFICES ASSUME NEW i \in 0 .. n, i # 0
               PROVE  u[i] = Read(u[i - 1], l[i])
    BY <1>5 DEF Carries
  <2>1. i \in 1 .. n /\ i - 1 \in 0 .. n
    BY <1>1
  <2>2. u[i - 1] \in V
    BY <2>1
  <2>q. QED
    BY <1>2, <1>5, <2>1, <2>2 DEF Carries
<1>q. QED
  BY <1>5, <1>6 DEF IsParsing, n

LEMMA Parsing ==
  ASSUME NEW l \in Seq(Tokens)
  PROVE  \E u : Parses(l, u) /\ Parsed(l) = u[Len(l)]
<1> DEFINE n == Len(l)
           u == CHOOSE w : IsParsing(l, w)
           Bad == {i \in 0 .. n : u[i] \notin ParserStates}
<1>1. n \in Nat /\ \A i \in 1 .. n : l[i] \in Tokens
  BY LenProperties, ElementOfSeq
<1>2. IsParsing(l, u) /\ Parsed(l) = u[n]
  BY ParsingExists, ParsedIs
<1> HIDE DEF u
<1>3. u[0] = ParseStart /\ \A i \in 1 .. n : u[i] = Read(u[i - 1], l[i])
  <2>1. 0 \in 0 .. n /\ \A i \in 1 .. n : i \in 0 .. n /\ i # 0
    BY <1>1
  <2>2. \A i \in 0 .. n : u[i] = IF i = 0 THEN ParseStart ELSE Read(u[i - 1], l[i])
    BY <1>2 DEF IsParsing
  <2>q. QED
    BY <2>1, <2>2
<1>4. Bad = {}
  <2> SUFFICES ASSUME Bad # {} PROVE FALSE
    OBVIOUS
  <2>1. Bad \subseteq Nat
    BY <1>1
  <2>2. PICK i \in Bad : \A j \in Bad : i <= j
    <3> HIDE DEF Bad
    <3>q. QED
      BY <2>1, LeastElement
  <2>3. i \in 1 .. n /\ i - 1 \in 0 .. n
    <3>1. i # 0
      BY <1>3, <2>2, StartType
    <3>q. QED
      BY <1>1, <2>2, <3>1
  <2>4. u[i - 1] \in ParserStates
    BY <2>2, <2>3
  <2>5. u[i] \in ParserStates
    BY <1>1, <1>3, <2>3, <2>4, ReadType
  <2>q. QED
    BY <2>2, <2>5
<1>5. Parses(l, u)
  BY <1>3, <1>4 DEF Parses
<1>q. QED
  BY <1>2, <1>5

-----------------------------------------------------------------------------
(* The literal boundary                                                      *)

LEMMA EndProperties ==
  ASSUME NEW l \in Seq(Tokens)
  PROVE  /\ End(l) \in 1 .. Len(l) + 1 /\ Len(l) \in Nat
         /\ End(l) = Len(l) + 1 \/ l[End(l)] = Boundary
         /\ \A i \in 1 .. End(l) - 1 : i \in 1 .. Len(l) /\ l[i] # Boundary
<1> DEFINE n == Len(l)
           Ends == {i \in 1 .. n + 1 : i = n + 1 \/ l[i] = Boundary}
<1>1. n \in Nat
  BY LenProperties
<1>2. PICK e \in Ends : \A i \in Ends : e <= i
  <2>1. n + 1 \in Ends /\ Ends \subseteq Nat
    BY <1>1
  <2> HIDE DEF Ends
  <2>q. QED
    BY <2>1, LeastElement
<1>3. e \in 1 .. n + 1 /\ (e = n + 1 \/ l[e] = Boundary) /\ \A i \in 1 .. e - 1 : l[i] # Boundary
  <2>1. e \in 1 .. n + 1 /\ (e = n + 1 \/ l[e] = Boundary)
    BY <1>2
  <2>2. ASSUME NEW i \in 1 .. e - 1 PROVE l[i] # Boundary
    <3>1. i \in 1 .. n + 1 /\ ~(e <= i)
      BY <1>1, <2>1
    <3>2. i \notin Ends
      BY <1>2, <3>1
    <3>q. QED
      BY <3>1, <3>2
  <2>q. QED
    BY <2>1, <2>2
<1> HIDE DEF Ends
<1>4. /\ End(l) \in 1 .. n + 1 /\ (End(l) = n + 1 \/ l[End(l)] = Boundary)
      /\ \A i \in 1 .. End(l) - 1 : l[i] # Boundary
  BY <1>3 DEF End
<1>5. \A i \in 1 .. End(l) - 1 : i \in 1 .. n
  <2> HIDE DEF n
  <2>q. QED
    BY <1>1, <1>4
<1>q. QED
  BY <1>1, <1>4, <1>5

\* There is one such position.
LEMMA EndIs ==
  ASSUME NEW l \in Seq(Tokens), NEW e \in 1 .. Len(l) + 1, e = Len(l) + 1 \/ l[e] = Boundary,
         \A i \in 1 .. e - 1 : l[i] # Boundary
  PROVE  End(l) = e
<1> DEFINE f == End(l)
           n == Len(l)
<1>1. /\ n \in Nat /\ f \in 1 .. n + 1 /\ (f = n + 1 \/ l[f] = Boundary)
      /\ \A i \in 1 .. f - 1 : i \in 1 .. n /\ l[i] # Boundary
  BY EndProperties
<1>2. e \in 1 .. n + 1 /\ (e = n + 1 \/ l[e] = Boundary)
  OBVIOUS
<1> HIDE DEF f, n
<1>3. ~(f < e)
  <2> SUFFICES ASSUME f < e PROVE FALSE
    OBVIOUS
  <2>1. f \in 1 .. e - 1 /\ f # n + 1
    BY <1>1, <1>2
  <2>q. QED
    BY <1>1, <2>1
<1>4. ~(e < f)
  <2> SUFFICES ASSUME e < f PROVE FALSE
    OBVIOUS
  <2>1. e \in 1 .. f - 1 /\ e # n + 1
    BY <1>1, <1>2
  <2>q. QED
    BY <1>1, <1>2, <2>1
<1>q. QED
  BY <1>1, <1>2, <1>3, <1>4 DEF f

-----------------------------------------------------------------------------
(* What the options before the boundary mean to native                       *)

\* One token of a list, as the parser reads it.
LEMMA ParseStep ==
  ASSUME NEW l \in Seq(Tokens), NEW u, Parses(l, u), NEW i \in 1 .. Len(l)
  PROVE  /\ l[i] \in Tokens /\ u[i - 1] \in ParserStates /\ u[i] \in ParserStates
         /\ u[i] = Read(u[i - 1], l[i]) /\ Len(l) \in Nat /\ i \in Nat
<1>1. Len(l) \in Nat
  BY LenProperties
<1>2. i \in Nat /\ i \in 0 .. Len(l) /\ i - 1 \in 0 .. Len(l)
  BY <1>1
<1>q. QED
  BY <1>1, <1>2, ElementOfSeq DEF Parses

\* The parser takes everything literally from the boundary on.
LEMMA LiteralFromEnd ==
  ASSUME NEW l \in Seq(Tokens), NEW u, Parses(l, u), NEW i \in 0 .. Len(l)
  PROVE  u[i].literal <=> i >= End(l)
<1> DEFINE n == Len(l)
           e == End(l)
           S == {j \in 0 .. n : u[j].literal <=> j >= e}
<1>1. /\ e \in 1 .. n + 1 /\ n \in Nat /\ (e = n + 1 \/ l[e] = Boundary)
      /\ \A j \in 1 .. e - 1 : l[j] # Boundary
  BY EndProperties
<1> HIDE DEF e
<1>2. 0 \in S
  <2>1. ~u[0].literal
    BY DEF Parses, ParseStart
  <2>2. 0 \in 0 .. n /\ ~(0 >= e)
    BY <1>1
  <2>q. QED
    BY <2>1, <2>2
<1>3. ASSUME NEW j \in 0 + 1 .. n, j - 1 \in S PROVE j \in S
  <2>1. j \in 1 .. n /\ j \in 0 .. n /\ j - 1 \in 0 .. n
    BY <1>1
  <2>2. u[j] = Read(u[j - 1], l[j]) /\ u[j - 1] \in ParserStates /\ l[j] \in Tokens
    BY <2>1, ParseStep
  <2>3. u[j - 1].literal <=> j - 1 >= e
    BY <1>3
  <2>4. u[j].literal <=> u[j - 1].literal \/ l[j] = Boundary
    <3> DEFINE x == Read(u[j - 1], l[j])
    <3>1. x.literal <=> u[j - 1].literal \/ l[j] = Boundary
      BY <2>2, ReadCases, ReadFields, TokenKinds
         DEF ReadsLiteral, ReadsBoundary, ReadsPositional, ReadsValue, ReadsSetting
    <3>q. QED
      BY <2>2, <3>1
  <2>5. CASE j < e
    <3>1. j \in 1 .. e - 1 /\ ~(j >= e) /\ ~(j - 1 >= e)
      BY <1>1, <2>1, <2>5
    <3>q. QED
      BY <1>1, <2>1, <2>3, <2>4, <3>1
  <2>6. CASE j = e
    <3>1. j >= e /\ e # n + 1
      BY <1>1, <2>1, <2>6
    <3>q. QED
      BY <1>1, <2>1, <2>4, <2>6, <3>1
  <2>7. CASE j > e
    <3>1. j >= e /\ j - 1 >= e
      BY <1>1, <2>1, <2>7
    <3>q. QED
      BY <2>1, <2>3, <2>4, <3>1
  <2>q. QED
    BY <1>1, <2>1, <2>5, <2>6, <2>7
<1>4. \A j \in 0 .. n : j \in S
  <2> HIDE DEF S, n
  <2>1. 0 \in Nat /\ n \in Nat
    BY <1>1
  <2>q. QED
    BY <1>2, <1>3, <2>1, Induct
<1>q. QED
  BY <1>4 DEF e

\* A token's effect on what is known of the option k.
LEMMA KeyStep ==
  ASSUME NEW s \in ParserStates, NEW t \in Tokens, NEW k \in Keys
  PROVE  /\ s.literal \/ t = Boundary =>
              Read(s, t).values[k] = s.values[k] /\ Read(s, t).count[k] = s.count[k]
         /\ ~s.literal /\ t # Boundary =>
              /\ Read(s, t).values[k] =
                   s.values[k] \cup (IF IsOption(t, k) \/ (IsWord(t) /\ s.open = k) THEN t.value ELSE {})
              /\ Read(s, t).count[k] = s.count[k] + (IF IsOption(t, k) THEN 1 ELSE 0)
              /\ k \in Arrays =>
                   (Read(s, t).open = k <=> IsOption(t, k) \/ (IsWord(t) /\ s.open = k))
              /\ Read(s, t).open = k => IsOption(t, k) \/ s.open = k
<1> DEFINE x == Read(s, t)
<1>1. s.values \in [Keys -> SUBSET Parts] /\ s.count \in [Keys -> Nat] /\ s.literal \in BOOLEAN
  BY DEF ParserStates
<1>a. IsOption(t, k) <=> IsSetting(t) /\ t.key = k
  BY DEF IsOption, IsSetting
<1>b. k # "none"
  BY NoneIsNoKey
<1> HIDE DEF x
<1>2. CASE s.literal
  <2>1. ReadsLiteral(s, t, x)
    BY <1>2, ReadFields DEF x
  <2>q. QED
    BY <1>2, <2>1 DEF ReadsLiteral, x
<1>3. CASE ~s.literal /\ t = Boundary
  <2>1. ReadsBoundary(s, t, x)
    BY <1>3, ReadFields DEF x
  <2>q. QED
    BY <1>3, <2>1 DEF ReadsBoundary, x
<1>4. CASE ~s.literal /\ IsWord(t) /\ s.open = "none"
  <2>1. ReadsPositional(s, t, x) /\ t # Boundary /\ ~IsSetting(t)
    BY <1>4, ReadFields, TokenKinds DEF x
  <2>2. x.values[k] = s.values[k] \cup {} /\ x.count[k] = s.count[k] + 0
    BY <1>1, <2>1 DEF ReadsPositional
  <2>q. QED
    BY <1>4, <1>a, <1>b, <2>1, <2>2 DEF ReadsPositional, x
<1>5. CASE ~s.literal /\ IsWord(t) /\ s.open # "none" /\ s.open \in Keys
  <2>1. ReadsValue(s, t, x) /\ t # Boundary /\ ~IsSetting(t)
    BY <1>5, ReadFields, TokenKinds DEF x
  <2>2. x.values[k] = s.values[k] \cup (IF s.open = k THEN t.value ELSE {})
    BY <1>1, <1>5, <2>1 DEF ReadsValue
  <2>3. x.count[k] = s.count[k] + 0
    BY <1>1, <2>1 DEF ReadsValue
  <2>q. QED
    BY <1>5, <1>a, <1>b, <2>1, <2>2, <2>3 DEF ReadsValue, x
<1>6. CASE ~s.literal /\ IsSetting(t)
  <2>1. ReadsSetting(s, t, x) /\ t # Boundary /\ ~IsWord(t) /\ t.key \in Keys
    BY <1>6, ReadFields, TokenKinds DEF x, IsSetting
  <2>2. x.values[k] = s.values[k] \cup (IF t.key = k THEN t.value ELSE {})
    BY <1>1, <2>1 DEF ReadsSetting
  <2>3. x.count[k] = s.count[k] + (IF t.key = k THEN 1 ELSE 0)
    BY <1>1, <2>1 DEF ReadsSetting
  <2>4. /\ k \in Arrays => (x.open = k <=> t.key = k)
        /\ x.open = k => t.key = k
    BY <1>b, <2>1 DEF ReadsSetting, Opened
  <2>q. QED
    BY <1>6, <1>a, <2>1, <2>2, <2>3, <2>4 DEF x
<1>q. QED
  BY <1>2, <1>3, <1>4, <1>5, <1>6, ReadCases

\* An option the list does not hold before its boundary has no value to native.
LEMMA NoOption ==
  ASSUME NEW l \in Seq(Tokens), NEW k \in Keys, \A i \in 1 .. End(l) - 1 : ~IsOption(l[i], k)
  PROVE  Parsed(l).values[k] = {} /\ Parsed(l).count[k] = 0
<1> DEFINE n == Len(l)
           e == End(l)
<1>1. PICK u : Parses(l, u) /\ Parsed(l) = u[n]
  BY Parsing
<1>2. e \in 1 .. n + 1 /\ n \in Nat /\ n \in 0 .. n
  BY EndProperties
<1> DEFINE S == {j \in 0 .. n : u[j].values[k] = {} /\ u[j].count[k] = 0 /\ u[j].open # k}
<1>3. 0 \in S
  <2>1. u[0].values[k] = {} /\ u[0].count[k] = 0 /\ u[0].open # k
    BY <1>1, NoneIsNoKey DEF Parses, ParseStart
  <2>q. QED
    BY <1>2, <2>1
<1>4. ASSUME NEW j \in 0 + 1 .. n, j - 1 \in S PROVE j \in S
  <2>1. j \in 1 .. n /\ j \in 0 .. n /\ j - 1 \in 0 .. n
    BY <1>2
  <2>2. u[j] = Read(u[j - 1], l[j]) /\ u[j - 1] \in ParserStates /\ l[j] \in Tokens
    BY <1>1, <2>1, ParseStep
  <2>3. u[j - 1].values[k] = {} /\ u[j - 1].count[k] = 0 /\ u[j - 1].open # k
    BY <1>4
  <2>4. u[j - 1].literal <=> j - 1 >= e
    BY <1>1, <2>1, LiteralFromEnd
  <2>5. ~u[j - 1].literal /\ l[j] # Boundary => ~IsOption(l[j], k)
    <3>1. CASE j >= e
      <4>1. j - 1 >= e \/ j = e
        BY <1>2, <2>1, <3>1
      <4>2. j = e => l[j] = Boundary
        BY <1>2, <2>1, EndProperties
      <4>q. QED
        BY <2>4, <4>1, <4>2
    <3>2. CASE ~(j >= e)
      <4>1. j \in 1 .. e - 1
        BY <1>2, <2>1, <3>2
      <4>q. QED
        BY <4>1
    <3>q. QED
      BY <3>1, <3>2
  <2>6. u[j].values[k] = {} /\ u[j].count[k] = 0
    BY <2>2, <2>3, <2>5, KeyStep
  <2>7. u[j].open # k
    <3>1. CASE u[j - 1].literal
      <4>1. ReadsLiteral(u[j - 1], l[j], u[j])
        BY <2>2, <3>1, ReadFields
      <4>q. QED
        BY <2>3, <4>1 DEF ReadsLiteral
    <3>2. CASE ~u[j - 1].literal /\ l[j] = Boundary
      <4>1. ReadsBoundary(u[j - 1], l[j], u[j])
        BY <2>2, <3>2, ReadFields
      <4>q. QED
        BY <4>1, NoneIsNoKey DEF ReadsBoundary
    <3>3. CASE ~u[j - 1].literal /\ l[j] # Boundary
      BY <2>2, <2>3, <2>5, <3>3, KeyStep
    <3>q. QED
      BY <3>1, <3>2, <3>3
  <2>q. QED
    BY <2>1, <2>6, <2>7
<1>5. \A j \in 0 .. n : j \in S
  <2> HIDE DEF S, n
  <2>1. 0 \in Nat
    OBVIOUS
  <2>q. QED
    BY <1>2, <1>3, <1>4, <2>1, Induct
<1>q. QED
  BY <1>1, <1>2, <1>5

\* An option that stands once before the boundary counts once.
LEMMA OneOption ==
  ASSUME NEW l \in Seq(Tokens), NEW k \in Keys, NEW x \in 1 .. End(l) - 1,
         \A i \in 1 .. End(l) - 1 : IsOption(l[i], k) <=> i = x
  PROVE  Parsed(l).count[k] = 1
<1> DEFINE n == Len(l)
           e == End(l)
<1>1. PICK u : Parses(l, u) /\ Parsed(l) = u[n]
  BY Parsing
<1>2. e \in 1 .. n + 1 /\ n \in Nat /\ n \in 0 .. n /\ x \in 1 .. e - 1 /\ x \in 1 .. n /\ x \in Nat
  BY EndProperties
<1> DEFINE S == {j \in 0 .. n : u[j].count[k] = IF j < x THEN 0 ELSE 1}
<1>3. 0 \in S
  <2>1. u[0].count[k] = 0
    BY <1>1 DEF Parses, ParseStart
  <2>q. QED
    BY <1>2, <2>1
<1>4. ASSUME NEW j \in 0 + 1 .. n, j - 1 \in S PROVE j \in S
  <2>1. j \in 1 .. n /\ j \in 0 .. n /\ j - 1 \in 0 .. n
    BY <1>2
  <2>2. u[j] = Read(u[j - 1], l[j]) /\ u[j - 1] \in ParserStates /\ l[j] \in Tokens
    BY <1>1, <2>1, ParseStep
  <2>3. u[j - 1].count[k] = IF j - 1 < x THEN 0 ELSE 1
    BY <1>4
  <2>4. u[j - 1].literal <=> j - 1 >= e
    BY <1>1, <2>1, LiteralFromEnd
  <2>5. CASE j >= e
    <3>1. j - 1 >= e \/ j = e
      BY <1>2, <2>1, <2>5
    <3>2. j = e => l[j] = Boundary
      BY <1>2, <2>1, EndProperties
    <3>3. u[j].count[k] = u[j - 1].count[k]
      BY <2>2, <2>4, <3>1, <3>2, KeyStep
    <3>4. ~(j - 1 < x) /\ ~(j < x)
      BY <1>2, <2>1, <2>5
    <3>q. QED
      BY <2>1, <2>3, <3>3, <3>4
  <2>6. CASE ~(j >= e)
    <3>1. j \in 1 .. e - 1 /\ ~(j - 1 >= e)
      BY <1>2, <2>1, <2>6
    <3>2. l[j] # Boundary /\ (IsOption(l[j], k) <=> j = x)
      BY <3>1, EndProperties
    <3>3. u[j].count[k] = u[j - 1].count[k] + (IF j = x THEN 1 ELSE 0)
      BY <2>2, <2>4, <3>1, <3>2, KeyStep
    <3>4. /\ j < x => j - 1 < x /\ j # x
          /\ j = x => j - 1 < x /\ ~(j < x)
          /\ ~(j < x) /\ j # x => ~(j - 1 < x)
      BY <1>2, <2>1
    <3>q. QED
      BY <2>1, <2>3, <3>3, <3>4
  <2>q. QED
    BY <2>5, <2>6
<1>5. \A j \in 0 .. n : j \in S
  <2> HIDE DEF S, n
  <2>1. 0 \in Nat
    OBVIOUS
  <2>q. QED
    BY <1>2, <1>3, <1>4, <2>1, Induct
<1>6. u[n].count[k] = 1
  <2>1. ~(n < x)
    BY <1>2
  <2>q. QED
    BY <1>2, <1>5, <2>1
<1>q. QED
  BY <1>1, <1>6

\* An array k is open after i, and x is a value it has up to i.
OpenAt(l, k, i) ==
  \E n \in 1 .. i : IsOption(l[n], k) /\ \A h \in n + 1 .. i : IsWord(l[h])
FoundBy(l, k, i, x) ==
  \E n \in 1 .. i :
    /\ IsOption(l[n], k)
    /\ \/ x \in l[n].value
       \/ \E j \in n + 1 .. i : x \in l[j].value /\ \A h \in n + 1 .. j : IsWord(l[h])

LEMMA OpenStep ==
  ASSUME NEW l, NEW k, NEW i \in Nat, i # 0
  PROVE  OpenAt(l, k, i) <=> IsOption(l[i], k) \/ (IsWord(l[i]) /\ OpenAt(l, k, i - 1))
<1>1. ASSUME OpenAt(l, k, i) PROVE IsOption(l[i], k) \/ (IsWord(l[i]) /\ OpenAt(l, k, i - 1))
  <2>1. PICK n \in 1 .. i : IsOption(l[n], k) /\ \A h \in n + 1 .. i : IsWord(l[h])
    BY <1>1 DEF OpenAt
  <2>2. CASE n = i
    BY <2>1, <2>2
  <2>3. CASE n # i
    <3>1. n \in 1 .. i - 1 /\ i \in n + 1 .. i /\ \A h \in n + 1 .. i - 1 : h \in n + 1 .. i
      BY <2>3
    <3>q. QED
      BY <2>1, <3>1 DEF OpenAt
  <2>q. QED
    BY <2>2, <2>3
<1>2. ASSUME IsOption(l[i], k) PROVE OpenAt(l, k, i)
  <2>1. i \in 1 .. i /\ i + 1 .. i = {}
    OBVIOUS
  <2>q. QED
    BY <1>2, <2>1 DEF OpenAt
<1>3. ASSUME IsWord(l[i]), OpenAt(l, k, i - 1) PROVE OpenAt(l, k, i)
  <2>1. PICK n \in 1 .. i - 1 : IsOption(l[n], k) /\ \A h \in n + 1 .. i - 1 : IsWord(l[h])
    BY <1>3 DEF OpenAt
  <2>2. n \in 1 .. i /\ \A h \in n + 1 .. i : h \in n + 1 .. i - 1 \/ h = i
    OBVIOUS
  <2>q. QED
    BY <1>3, <2>1, <2>2 DEF OpenAt
<1>q. QED
  BY <1>1, <1>2, <1>3

LEMMA FoundStep ==
  ASSUME NEW l, NEW k, NEW x, NEW i \in Nat, i # 0
  PROVE  FoundBy(l, k, i, x) <=>
           \/ FoundBy(l, k, i - 1, x)
           \/ x \in l[i].value /\ (IsOption(l[i], k) \/ (IsWord(l[i]) /\ OpenAt(l, k, i - 1)))
<1>1. ASSUME FoundBy(l, k, i, x), ~FoundBy(l, k, i - 1, x)
      PROVE  x \in l[i].value /\ (IsOption(l[i], k) \/ (IsWord(l[i]) /\ OpenAt(l, k, i - 1)))
  <2>1. PICK n \in 1 .. i :
          /\ IsOption(l[n], k)
          /\ \/ x \in l[n].value
             \/ \E j \in n + 1 .. i : x \in l[j].value /\ \A h \in n + 1 .. j : IsWord(l[h])
    BY <1>1 DEF FoundBy
  <2>2. CASE n = i
    <3>1. i + 1 .. i = {}
      OBVIOUS
    <3>q. QED
      BY <2>1, <2>2, <3>1
  <2>3. CASE n # i
    <3>1. n \in 1 .. i - 1
      BY <2>3
    <3>2. x \notin l[n].value
      BY <1>1, <2>1, <3>1 DEF FoundBy
    <3>3. PICK j \in n + 1 .. i : x \in l[j].value /\ \A h \in n + 1 .. j : IsWord(l[h])
      BY <2>1, <3>2
    <3>4. j = i
      <4>1. j \notin n + 1 .. i - 1
        BY <1>1, <2>1, <3>1, <3>3 DEF FoundBy
      <4>q. QED
        BY <3>1, <4>1
    <3>5. i \in n + 1 .. i /\ \A h \in n + 1 .. i - 1 : h \in n + 1 .. i
      BY <3>1
    <3>q. QED
      BY <2>1, <3>1, <3>3, <3>4, <3>5 DEF OpenAt
  <2>q. QED
    BY <2>2, <2>3
<1>2. ASSUME FoundBy(l, k, i - 1, x) PROVE FoundBy(l, k, i, x)
  <2>1. PICK n \in 1 .. i - 1 :
          /\ IsOption(l[n], k)
          /\ \/ x \in l[n].value
             \/ \E j \in n + 1 .. i - 1 : x \in l[j].value /\ \A h \in n + 1 .. j : IsWord(l[h])
    BY <1>2 DEF FoundBy
  <2>2. n \in 1 .. i /\ \A j \in n + 1 .. i - 1 : j \in n + 1 .. i
    OBVIOUS
  <2>q. QED
    BY <2>1, <2>2 DEF FoundBy
<1>3. ASSUME x \in l[i].value, IsOption(l[i], k) PROVE FoundBy(l, k, i, x)
  <2>1. i \in 1 .. i
    OBVIOUS
  <2>q. QED
    BY <1>3, <2>1 DEF FoundBy
<1>4. ASSUME x \in l[i].value, IsWord(l[i]), OpenAt(l, k, i - 1) PROVE FoundBy(l, k, i, x)
  <2>1. PICK n \in 1 .. i - 1 : IsOption(l[n], k) /\ \A h \in n + 1 .. i - 1 : IsWord(l[h])
    BY <1>4 DEF OpenAt
  <2>2. /\ n \in 1 .. i /\ i \in n + 1 .. i
        /\ \A h \in n + 1 .. i : h \in n + 1 .. i - 1 \/ h = i
    OBVIOUS
  <2>3. \A h \in n + 1 .. i : IsWord(l[h])
    BY <1>4, <2>1, <2>2
  <2>q. QED
    BY <1>4, <2>1, <2>2, <2>3 DEF FoundBy
<1>q. QED
  BY <1>1, <1>2, <1>3, <1>4

\* What the wrapper collects of an array before the boundary.
LEMMA CollectedFound ==
  ASSUME NEW l \in Seq(Tokens), NEW k \in Arrays, NEW x
  PROVE  x \in Collected(l, k) <=> FoundBy(l, k, End(l) - 1, x)
<1> DEFINE e == End(l)
<1>1. /\ e \in 1 .. Len(l) + 1 /\ Len(l) \in Nat /\ (e = Len(l) + 1 \/ l[e] = Boundary)
      /\ \A j \in 1 .. e - 1 : j \in 1 .. Len(l)
  BY EndProperties
<1>2. x \in Collected(l, k) <=>
        \E n \in 1 .. e - 1 :
          /\ IsOption(l[n], k)
          /\ \/ x \in l[n].value
             \/ \E j \in n + 1 .. Len(l) : x \in l[j].value /\ \A h \in n + 1 .. j : IsWord(l[h])
  BY DEF Collected, Window
<1> HIDE DEF e
<1>3. ASSUME NEW n \in 1 .. e - 1, NEW j \in n + 1 .. Len(l), \A h \in n + 1 .. j : IsWord(l[h])
      PROVE  j \in n + 1 .. e - 1
  <2> SUFFICES ASSUME ~(j < e) PROVE FALSE
    BY <1>1
  <2>1. e \in n + 1 .. j /\ e # Len(l) + 1
    BY <1>1
  <2>2. IsWord(l[e]) /\ l[e] = Boundary
    BY <1>1, <1>3, <2>1
  <2>q. QED
    BY <2>2 DEF IsWord, Boundary
<1>4. \A n \in 1 .. e - 1 : \A j \in n + 1 .. e - 1 : j \in n + 1 .. Len(l)
  BY <1>1
<1>q. QED
  BY <1>2, <1>3, <1>4 DEF FoundBy, e

\* The wrapper collects of an array exactly what native reads of it.
LEMMA CollectsWhatNativeReads ==
  ASSUME NEW l \in Seq(Tokens), NEW k \in Arrays
  PROVE  Parsed(l).values[k] = Collected(l, k)
<1> DEFINE n == Len(l)
           e == End(l)
<1>1. PICK u : Parses(l, u) /\ Parsed(l) = u[n]
  BY Parsing
<1>2. e \in 1 .. n + 1 /\ n \in Nat /\ n \in 0 .. n /\ e - 1 \in 0 .. n /\ e - 1 \in Nat
  BY EndProperties
<1>a. k \in Keys
  BY DEF Keys
<1> DEFINE S == {j \in 0 .. e - 1 : /\ u[j].open = k <=> OpenAt(l, k, j)
                                    /\ \A x : x \in u[j].values[k] <=> FoundBy(l, k, j, x)}
<1>3. 0 \in S
  <2>1. u[0].open # k /\ u[0].values[k] = {}
    BY <1>1, <1>a, NoneIsNoKey DEF Parses, ParseStart
  <2>2. 1 .. 0 = {} /\ 0 \in 0 .. e - 1
    BY <1>2
  <2>q. QED
    BY <2>1, <2>2 DEF OpenAt, FoundBy
<1>4. ASSUME NEW j \in 0 + 1 .. e - 1, j - 1 \in S PROVE j \in S
  <2>1. j \in 1 .. e - 1 /\ j \in 1 .. n /\ j \in 0 .. e - 1 /\ j - 1 \in 0 .. n /\ ~(j - 1 >= e)
        /\ j \in Nat /\ j # 0
    BY <1>2
  <2>2. u[j] = Read(u[j - 1], l[j]) /\ u[j - 1] \in ParserStates /\ l[j] \in Tokens
    BY <1>1, <2>1, ParseStep
  <2>3. ~u[j - 1].literal /\ l[j] # Boundary
    BY <1>1, <2>1, LiteralFromEnd, EndProperties
  <2>4. /\ u[j - 1].open = k <=> OpenAt(l, k, j - 1)
        /\ \A x : x \in u[j - 1].values[k] <=> FoundBy(l, k, j - 1, x)
    BY <1>4
  <2>5. /\ u[j].values[k] =
             u[j - 1].values[k] \cup
               (IF IsOption(l[j], k) \/ (IsWord(l[j]) /\ u[j - 1].open = k) THEN l[j].value ELSE {})
        /\ u[j].open = k <=> IsOption(l[j], k) \/ (IsWord(l[j]) /\ u[j - 1].open = k)
    BY <1>a, <2>2, <2>3, KeyStep
  <2>6. u[j].open = k <=> OpenAt(l, k, j)
    BY <2>1, <2>4, <2>5, OpenStep
  <2>7. ASSUME NEW x PROVE x \in u[j].values[k] <=> FoundBy(l, k, j, x)
    <3>1. FoundBy(l, k, j, x) <=>
           \/ FoundBy(l, k, j - 1, x)
           \/ x \in l[j].value /\ (IsOption(l[j], k) \/ (IsWord(l[j]) /\ OpenAt(l, k, j - 1)))
      BY <2>1, FoundStep
    <3>q. QED
      BY <2>4, <2>5, <3>1
  <2>q. QED
    BY <2>1, <2>6, <2>7
<1>5. \A j \in 0 .. e - 1 : j \in S
  <2> HIDE DEF S, e
  <2>1. 0 \in Nat
    OBVIOUS
  <2>q. QED
    BY <1>2, <1>3, <1>4, <2>1, Induct
<1>6. \A x : x \in u[e - 1].values[k] <=> FoundBy(l, k, e - 1, x)
  <2>1. e - 1 \in 0 .. e - 1
    BY <1>2
  <2>q. QED
    BY <1>5, <2>1
<1> DEFINE T == {j \in 0 .. n : u[j].values[k] = u[e - 1].values[k]}
<1>7. ASSUME NEW j \in (e - 1) + 1 .. n, j - 1 \in T PROVE j \in T
  <2>1. j \in 1 .. n /\ j \in 0 .. n /\ j - 1 \in 0 .. n /\ (j - 1 >= e \/ j = e)
    BY <1>2
  <2>2. u[j] = Read(u[j - 1], l[j]) /\ u[j - 1] \in ParserStates /\ l[j] \in Tokens
    BY <1>1, <2>1, ParseStep
  <2>3. u[j - 1].literal \/ l[j] = Boundary
    BY <1>1, <1>2, <2>1, LiteralFromEnd, EndProperties
  <2>4. u[j].values[k] = u[j - 1].values[k]
    BY <1>a, <2>2, <2>3, KeyStep
  <2>q. QED
    BY <1>7, <2>1, <2>4
<1>8. e - 1 \in T
  BY <1>2
<1>9. \A j \in e - 1 .. n : j \in T
  <2> HIDE DEF T, e, n
  <2>q. QED
    BY <1>2, <1>7, <1>8, Induct
<1>10. u[n].values[k] = u[e - 1].values[k]
  <2>1. n \in e - 1 .. n
    BY <1>2
  <2>q. QED
    BY <1>9, <2>1
<1>11. \A x : x \in Collected(l, k) <=> FoundBy(l, k, e - 1, x)
  BY CollectedFound
<1>q. QED
  BY <1>1, <1>6, <1>10, <1>11

-----------------------------------------------------------------------------
(* Native's parses of two lists                                              *)

\* p has the value w of the option k on top of what q has, and c more of it.
Adds(p, q, k, w, c) ==
  /\ p.positional = q.positional
  /\ p.values[k] = q.values[k] \cup w /\ p.count[k] = q.count[k] + c
  /\ \A o \in Keys : o # k => p.values[o] = q.values[o] /\ p.count[o] = q.count[o]

Shifts(p, q, k, w, c) == Adds(p, q, k, w, c) /\ p.open = q.open /\ p.literal = q.literal

\* One more value for one option in both.
LEMMA BothGrow ==
  ASSUME NEW f \in [Keys -> SUBSET Parts], NEW g \in [Keys -> SUBSET Parts], NEW k \in Keys, NEW w,
         f[k] = g[k] \cup w, \A o \in Keys : o # k => f[o] = g[o], NEW r \in Keys, NEW v,
         NEW F, NEW G, F = [f EXCEPT ![r] = @ \cup v], G = [g EXCEPT ![r] = @ \cup v]
  PROVE  /\ F[k] = G[k] \cup w
         /\ \A o \in Keys : o # k => F[o] = G[o]
<1>1. \A o \in Keys : F[o] = f[o] \cup (IF o = r THEN v ELSE {})
  OBVIOUS
<1>2. \A o \in Keys : G[o] = g[o] \cup (IF o = r THEN v ELSE {})
  OBVIOUS
<1>3. F[k] = G[k] \cup w
  BY <1>1, <1>2
<1>q. QED
  BY <1>1, <1>2, <1>3

LEMMA ShiftStep ==
  ASSUME NEW p \in ParserStates, NEW q \in ParserStates, NEW k \in Keys, NEW w, NEW c \in Nat,
         NEW t \in Tokens, Shifts(p, q, k, w, c)
  PROVE  Shifts(Read(p, t), Read(q, t), k, w, c)
<1> DEFINE x == Read(p, t)
           y == Read(q, t)
<1>1. /\ p.values \in [Keys -> SUBSET Parts] /\ p.count \in [Keys -> Nat]
      /\ q.values \in [Keys -> SUBSET Parts] /\ q.count \in [Keys -> Nat]
  BY DEF ParserStates
<1>2. /\ p.positional = q.positional /\ p.open = q.open /\ p.literal = q.literal
      /\ p.values[k] = q.values[k] \cup w /\ p.count[k] = q.count[k] + c
      /\ \A o \in Keys : o # k => p.values[o] = q.values[o] /\ p.count[o] = q.count[o]
  BY DEF Shifts, Adds
<1>b. x.literal \in BOOLEAN /\ y.literal \in BOOLEAN
  <2>1. x \in ParserStates /\ y \in ParserStates
    BY ReadType
  <2> HIDE DEF x, y
  <2>q. QED
    BY <2>1 DEF ParserStates
<1> HIDE DEF x, y
<1>3. CASE q.literal
  <2>1. ReadsLiteral(p, t, x) /\ ReadsLiteral(q, t, y)
    BY <1>2, <1>3, ReadFields DEF x, y
  <2>q. QED
    BY <1>2, <1>b, <2>1 DEF ReadsLiteral, Shifts, Adds, x, y
<1>4. CASE ~q.literal /\ t = Boundary
  <2>1. ReadsBoundary(p, t, x) /\ ReadsBoundary(q, t, y)
    BY <1>2, <1>4, ReadFields DEF x, y
  <2>q. QED
    BY <1>2, <1>b, <2>1 DEF ReadsBoundary, Shifts, Adds, x, y
<1>5. CASE ~q.literal /\ IsWord(t) /\ q.open = "none"
  <2>1. ReadsPositional(p, t, x) /\ ReadsPositional(q, t, y)
    BY <1>2, <1>5, ReadFields DEF x, y
  <2>q. QED
    BY <1>2, <1>b, <2>1 DEF ReadsPositional, Shifts, Adds, x, y
<1>6. CASE ~q.literal /\ IsWord(t) /\ q.open # "none" /\ q.open \in Keys
  <2>1. ReadsValue(p, t, x) /\ ReadsValue(q, t, y)
    BY <1>2, <1>6, ReadFields DEF x, y
  <2>2. /\ x.values[k] = y.values[k] \cup w
        /\ \A o \in Keys : o # k => x.values[o] = y.values[o]
    <3> DEFINE f == p.values
               g == q.values
               F == x.values
               G == y.values
    <3>1. /\ f \in [Keys -> SUBSET Parts] /\ g \in [Keys -> SUBSET Parts] /\ q.open \in Keys
          /\ f[k] = g[k] \cup w /\ \A o \in Keys : o # k => f[o] = g[o]
          /\ F = [f EXCEPT ![q.open] = @ \cup t.value] /\ G = [g EXCEPT ![q.open] = @ \cup t.value]
      BY <1>1, <1>2, <1>6, <2>1 DEF ReadsValue
    <3> HIDE DEF f, g, F, G
    <3>2. F[k] = G[k] \cup w /\ \A o \in Keys : o # k => F[o] = G[o]
      BY <3>1, BothGrow
    <3>q. QED
      BY <3>2 DEF F, G
  <2>q. QED
    BY <1>2, <1>b, <2>1, <2>2 DEF ReadsValue, Shifts, Adds, x, y
<1>7. CASE ~q.literal /\ IsSetting(t)
  <2>1. ReadsSetting(p, t, x) /\ ReadsSetting(q, t, y) /\ t.key \in Keys
    BY <1>2, <1>7, ReadFields DEF x, y, IsSetting
  <2>2. /\ x.values[k] = y.values[k] \cup w
        /\ \A o \in Keys : o # k => x.values[o] = y.values[o]
    <3> DEFINE f == p.values
               g == q.values
               F == x.values
               G == y.values
    <3>1. /\ f \in [Keys -> SUBSET Parts] /\ g \in [Keys -> SUBSET Parts] /\ t.key \in Keys
          /\ f[k] = g[k] \cup w /\ \A o \in Keys : o # k => f[o] = g[o]
          /\ F = [f EXCEPT ![t.key] = @ \cup t.value] /\ G = [g EXCEPT ![t.key] = @ \cup t.value]
      BY <1>1, <1>2, <2>1 DEF ReadsSetting
    <3> HIDE DEF f, g, F, G
    <3>2. F[k] = G[k] \cup w /\ \A o \in Keys : o # k => F[o] = G[o]
      BY <3>1, BothGrow
    <3>q. QED
      BY <3>2 DEF F, G
  <2>3. \A o \in Keys : /\ x.count[o] = p.count[o] + (IF o = t.key THEN 1 ELSE 0)
                        /\ y.count[o] = q.count[o] + (IF o = t.key THEN 1 ELSE 0)
    BY <1>1, <2>1 DEF ReadsSetting
  <2>4. \A o \in Keys : p.count[o] \in Nat /\ q.count[o] \in Nat
    BY <1>1
  <2>5. /\ x.count[k] = y.count[k] + c
        /\ \A o \in Keys : o # k => x.count[o] = y.count[o]
    BY <1>2, <2>3, <2>4
  <2>q. QED
    BY <1>2, <1>b, <2>1, <2>2, <2>5 DEF ReadsSetting, Shifts, Adds, x, y
<1>q. QED
  BY <1>3, <1>4, <1>5, <1>6, <1>7, ReadCases

\* Over the same tokens, from a in one list and from a + d in the other.
LEMMA ShiftedParse ==
  ASSUME NEW l \in Seq(Tokens), NEW m \in Seq(Tokens), NEW u, NEW v, Parses(l, u), Parses(m, v),
         NEW d \in Nat, NEW a \in 0 .. Len(l), Len(m) = Len(l) + d,
         \A i \in a + 1 .. Len(l) : m[i + d] = l[i],
         NEW k \in Keys, NEW w, NEW c \in Nat, Shifts(v[a + d], u[a], k, w, c)
  PROVE  Shifts(v[Len(m)], u[Len(l)], k, w, c)
<1> DEFINE n == Len(l)
           S == {j \in a .. n : Shifts(v[j + d], u[j], k, w, c)}
<1>1. n \in Nat /\ a \in Nat /\ a \in a .. n /\ n \in a .. n
  BY LenProperties
<1>2. ASSUME NEW j \in a + 1 .. n, j - 1 \in S PROVE j \in S
  <2>1. /\ j \in a .. n /\ j \in 1 .. n /\ j + d \in 1 .. Len(m) /\ (j + d) - 1 = (j - 1) + d
    BY <1>1
  <2>2. u[j] = Read(u[j - 1], l[j]) /\ u[j - 1] \in ParserStates /\ l[j] \in Tokens
    BY <2>1, ParseStep
  <2>3. v[j + d] = Read(v[(j - 1) + d], m[j + d]) /\ v[(j - 1) + d] \in ParserStates
    <3>1. v[j + d] = Read(v[(j + d) - 1], m[j + d]) /\ v[(j + d) - 1] \in ParserStates
      BY <2>1, ParseStep
    <3>q. QED
      BY <2>1, <3>1
  <2>4. m[j + d] = l[j] /\ Shifts(v[(j - 1) + d], u[j - 1], k, w, c)
    BY <1>2
  <2>5. Shifts(v[j + d], u[j], k, w, c)
    BY <2>2, <2>3, <2>4, ShiftStep
  <2>q. QED
    BY <2>1, <2>5
<1>3. \A j \in a .. n : j \in S
  <2>1. a \in S
    BY <1>1
  <2> HIDE DEF S, n
  <2>q. QED
    BY <1>1, <1>2, <2>1, Induct
<1>4. Shifts(v[n + d], u[n], k, w, c)
  BY <1>1, <1>3
<1>q. QED
  BY <1>4

\* Over the same first tokens the parser is in the same state.
LEMMA SameParse ==
  ASSUME NEW l \in Seq(Tokens), NEW m \in Seq(Tokens), NEW u, NEW v, Parses(l, u), Parses(m, v),
         NEW a \in 0 .. Len(l), a <= Len(m), \A i \in 1 .. a : m[i] = l[i]
  PROVE  v[a] = u[a]
<1> DEFINE S == {j \in 0 .. a : v[j] = u[j]}
<1>1. Len(l) \in Nat /\ Len(m) \in Nat /\ a \in Nat
  BY LenProperties
<1>2. 0 \in S
  BY <1>1 DEF Parses
<1>3. ASSUME NEW j \in 0 + 1 .. a, j - 1 \in S PROVE j \in S
  <2>1. j \in 1 .. a /\ j \in 0 .. a /\ j \in 1 .. Len(l) /\ j \in 1 .. Len(m)
    BY <1>1
  <2>2. u[j] = Read(u[j - 1], l[j]) /\ v[j] = Read(v[j - 1], m[j])
    BY <2>1 DEF Parses
  <2>3. m[j] = l[j] /\ v[j - 1] = u[j - 1]
    BY <1>3, <2>1
  <2>q. QED
    BY <2>1, <2>2, <2>3
<1>4. \A j \in 0 .. a : j \in S
  <2> HIDE DEF S
  <2>1. 0 \in Nat
    OBVIOUS
  <2>q. QED
    BY <1>1, <1>2, <1>3, <2>1, Induct
<1>q. QED
  BY <1>1, <1>4

-----------------------------------------------------------------------------
(* What the wrapper's own options add to native's parse                      *)

Pair(k, w) == <<Option(k), Word(w)>>

LEMMA PairTokens ==
  ASSUME NEW k \in Keys, NEW w \in SUBSET Parts
  PROVE  /\ Option(k) \in Tokens /\ Word(w) \in Tokens
         /\ Option(k) # Boundary /\ Word(w) # Boundary
         /\ IsSetting(Option(k)) /\ Option(k).key = k /\ Option(k).value = {}
         /\ Option(k).kind = "option" /\ IsWord(Word(w)) /\ Word(w).value = w
         /\ Word(w).kind = "word" /\ Word(w).key = "none"
<1>1. Option(k) \in Bares /\ Word(w) \in OneOf({"word"}, {"none"})
  BY DEF Option, Word, Bares, OneOf
<1>q. QED
  BY <1>1 DEF Tokens, Option, Word, Boundary, IsSetting, IsWord

\* The pair goes in front of the boundary, and nothing else moves in order.
LEMMA InsertIs ==
  ASSUME NEW l \in Seq(Tokens), NEW k \in Keys, NEW w \in SUBSET Parts,
         NEW m, m = InsertBeforeBoundary(l, Pair(k, w))
  PROVE  /\ m \in Seq(Tokens) /\ Len(m) = Len(l) + 2
         /\ \A i \in 1 .. End(l) - 1 : m[i] = l[i]
         /\ m[End(l)] = Option(k) /\ m[End(l) + 1] = Word(w)
         /\ \A i \in End(l) .. Len(l) : m[i + 2] = l[i]
         /\ End(m) = End(l) + 2
<1> DEFINE n == Len(l)
           e == End(l)
           A == SubSeq(l, 1, e - 1)
           B == SubSeq(l, e, n)
           V == Pair(k, w)
<1>1. /\ e \in 1 .. n + 1 /\ n \in Nat /\ e \in Nat /\ (e = n + 1 \/ l[e] = Boundary)
      /\ \A i \in 1 .. e - 1 : i \in 1 .. n /\ l[i] # Boundary
      /\ \A i \in 1 .. n : l[i] \in Tokens
  BY EndProperties, ElementOfSeq
<1>2. V \in Seq(Tokens) /\ Len(V) = 2 /\ V[1] = Option(k) /\ V[2] = Word(w)
  BY PairTokens DEF Pair
<1>3. m = (A \o V) \o B
  BY DEF InsertBeforeBoundary
<1> HIDE DEF V, e, n
<1>4. A \in Seq(Tokens) /\ Len(A) = e - 1 /\ \A i \in 1 .. e - 1 : A[i] = l[i]
  <2>1. 1 \in Int /\ e - 1 \in Int /\ \A i \in 1 .. e - 1 : l[i] \in Tokens
    BY <1>1
  <2>2. /\ A \in Seq(Tokens) /\ Len(A) = IF 1 <= e - 1 THEN (e - 1) - 1 + 1 ELSE 0
        /\ \A i \in 1 .. (e - 1) - 1 + 1 : A[i] = l[1 + i - 1]
    BY <2>1, SubSeqProperties
  <2>3. (e - 1) - 1 + 1 = e - 1 /\ \A i \in 1 .. e - 1 : 1 + i - 1 = i
    BY <1>1
  <2>q. QED
    BY <1>1, <2>2, <2>3
<1>5. B \in Seq(Tokens) /\ Len(B) = n - e + 1 /\ \A i \in e .. n : B[i - e + 1] = l[i]
  <2>1. e \in Int /\ n \in Int /\ \A i \in e .. n : l[i] \in Tokens
    BY <1>1
  <2>2. /\ B \in Seq(Tokens) /\ Len(B) = IF e <= n THEN n - e + 1 ELSE 0
        /\ \A i \in 1 .. n - e + 1 : B[i] = l[e + i - 1]
    BY <2>1, SubSeqProperties
  <2>3. \A i \in e .. n : i - e + 1 \in 1 .. n - e + 1 /\ e + (i - e + 1) - 1 = i
    BY <1>1
  <2>q. QED
    BY <1>1, <2>2, <2>3
<1> HIDE DEF A, B
<1>6. /\ A \o V \in Seq(Tokens) /\ Len(A \o V) = e + 1
      /\ \A i \in 1 .. e - 1 : (A \o V)[i] = l[i]
      /\ (A \o V)[e] = Option(k) /\ (A \o V)[e + 1] = Word(w)
  <2>1. /\ A \o V \in Seq(Tokens) /\ Len(A \o V) = Len(A) + Len(V)
        /\ \A i \in 1 .. Len(A) + Len(V) : (A \o V)[i] = IF i <= Len(A) THEN A[i] ELSE V[i - Len(A)]
    BY <1>2, <1>4, ConcatProperties
  <2>2. /\ Len(A) + Len(V) = e + 1
        /\ \A i \in 1 .. e - 1 : i \in 1 .. e + 1 /\ i <= e - 1
        /\ e \in 1 .. e + 1 /\ ~(e <= e - 1) /\ e - (e - 1) = 1
        /\ e + 1 \in 1 .. e + 1 /\ ~(e + 1 <= e - 1) /\ e + 1 - (e - 1) = 2
    BY <1>1, <1>2, <1>4
  <2>3. \A i \in 1 .. e + 1 : (A \o V)[i] = IF i <= e - 1 THEN A[i] ELSE V[i - (e - 1)]
    BY <1>4, <2>1, <2>2
  <2>4. \A i \in 1 .. e - 1 : (A \o V)[i] = l[i]
    BY <1>4, <2>2, <2>3
  <2>5. (A \o V)[e] = V[1] /\ (A \o V)[e + 1] = V[2]
    BY <2>2, <2>3
  <2>q. QED
    BY <1>2, <2>1, <2>2, <2>4, <2>5
<1> DEFINE D == A \o V
<1> HIDE DEF D
<1>7. /\ m \in Seq(Tokens) /\ Len(m) = Len(D) + Len(B)
      /\ \A i \in 1 .. Len(D) + Len(B) : m[i] = IF i <= Len(D) THEN D[i] ELSE B[i - Len(D)]
  <2>1. D \in Seq(Tokens) /\ m = D \o B
    BY <1>3, <1>6 DEF D
  <2>2. /\ D \o B \in Seq(Tokens) /\ Len(D \o B) = Len(D) + Len(B)
        /\ \A i \in 1 .. Len(D) + Len(B) : (D \o B)[i] = IF i <= Len(D) THEN D[i] ELSE B[i - Len(D)]
    BY <1>5, <2>1, ConcatProperties
  <2>q. QED
    BY <2>1, <2>2
<1>8. Len(D) = e + 1 /\ Len(D) + Len(B) = n + 2
  <2>1. Len(D) = e + 1
    BY <1>6 DEF D
  <2>q. QED
    BY <1>1, <1>5, <2>1
<1>9. \A i \in 1 .. e + 1 : i \in 1 .. n + 2 /\ i <= e + 1
  BY <1>1
<1>10. \A i \in 1 .. e + 1 : m[i] = D[i]
  BY <1>7, <1>8, <1>9
<1>11. \A i \in 1 .. e - 1 : m[i] = l[i]
  <2>1. \A i \in 1 .. e - 1 : i \in 1 .. e + 1
    BY <1>1
  <2>q. QED
    BY <1>6, <1>10, <2>1 DEF D
<1>12. m[e] = Option(k) /\ m[e + 1] = Word(w)
  <2>1. e \in 1 .. e + 1 /\ e + 1 \in 1 .. e + 1
    BY <1>1
  <2>q. QED
    BY <1>6, <1>10, <2>1 DEF D
<1>13. \A i \in e .. n : m[i + 2] = l[i]
  <2>1. \A i \in e .. n : i + 2 \in 1 .. n + 2 /\ ~(i + 2 <= e + 1) /\ i + 2 - (e + 1) = i - e + 1
    BY <1>1
  <2>q. QED
    BY <1>5, <1>7, <1>8, <2>1
<1>14. End(m) = e + 2
  <2>1. e + 2 \in 1 .. Len(m) + 1 /\ Len(m) = n + 2
    BY <1>1, <1>7, <1>8
  <2>2. e + 2 = Len(m) + 1 \/ m[e + 2] = Boundary
    <3>1. e = n + 1 \/ e \in e .. n
      BY <1>1
    <3>q. QED
      BY <1>1, <1>13, <2>1, <3>1
  <2>3. \A i \in 1 .. (e + 2) - 1 : m[i] # Boundary
    <3>1. \A i \in 1 .. (e + 2) - 1 : i \in 1 .. e - 1 \/ i = e \/ i = e + 1
      BY <1>1
    <3>2. Option(k) # Boundary /\ Word(w) # Boundary
      BY PairTokens
    <3>q. QED
      BY <1>1, <1>11, <1>12, <3>1, <3>2
  <2>q. QED
    BY <1>7, <2>1, <2>2, <2>3, EndIs
<1>q. QED
  BY <1>7, <1>8, <1>11, <1>12, <1>13, <1>14 DEF e, n

\* A pair read where nothing is literal yet.
LEMMA PairRead ==
  ASSUME NEW q \in ParserStates, ~q.literal, NEW k \in Arrays \cup Scalars, NEW w \in SUBSET Parts
  PROVE  LET p == Read(Read(q, Option(k)), Word(w)) IN
         /\ Adds(p, q, k, w, 1) /\ ~p.literal /\ p \in ParserStates
         /\ p.open = IF k \in Arrays THEN k ELSE "none"
<1> DEFINE x == Read(q, Option(k))
           p == Read(x, Word(w))
<1>1. /\ Option(k) \in Tokens /\ Word(w) \in Tokens /\ IsSetting(Option(k)) /\ IsWord(Word(w))
      /\ Option(k).key = k /\ Option(k).value = {} /\ Option(k).kind = "option" /\ Word(w).value = w
      /\ k \in Keys /\ k # "none"
  <2>1. k \in Keys
    BY DEF Keys
  <2>q. QED
    BY <2>1, PairTokens, NoneIsNoKey
<1>2. q.values \in [Keys -> SUBSET Parts] /\ q.count \in [Keys -> Nat]
  BY DEF ParserStates
<1>3. x \in ParserStates /\ ReadsSetting(q, Option(k), x)
  BY <1>1, ReadType, ReadFields
<1> HIDE DEF x
<1>4. /\ ~x.literal /\ x.open = k /\ x.positional = q.positional
      /\ x.values = [q.values EXCEPT ![k] = @ \cup {}] /\ x.count = [q.count EXCEPT ![k] = @ + 1]
  BY <1>1, <1>3 DEF ReadsSetting, Opened
<1>5. /\ \A o \in Keys : x.values[o] = q.values[o] /\ x.count[o] = q.count[o] + (IF o = k THEN 1 ELSE 0)
      /\ x.values \in [Keys -> SUBSET Parts] /\ x.count \in [Keys -> Nat]
  <2>1. \A o \in Keys : x.values[o] = q.values[o]
    BY <1>1, <1>2, <1>4
  <2>2. \A o \in Keys : x.count[o] = q.count[o] + (IF o = k THEN 1 ELSE 0)
    BY <1>1, <1>2, <1>4
  <2>q. QED
    BY <1>3, <2>1, <2>2 DEF ParserStates
<1>6. p \in ParserStates /\ ReadsValue(x, Word(w), p)
  BY <1>1, <1>3, <1>4, ReadType, ReadFields
<1> HIDE DEF p
<1>7. /\ ~p.literal /\ p.open = (IF k \in Arrays THEN k ELSE "none") /\ p.positional = q.positional
      /\ p.values = [x.values EXCEPT ![k] = @ \cup w] /\ p.count = x.count
  BY <1>1, <1>4, <1>6 DEF ReadsValue
<1>8. /\ p.values[k] = q.values[k] \cup w
      /\ \A o \in Keys : o # k => p.values[o] = q.values[o]
  BY <1>1, <1>5, <1>7
<1>9. /\ p.count[k] = q.count[k] + 1
      /\ \A o \in Keys : o # k => p.count[o] = q.count[o]
  BY <1>1, <1>2, <1>5, <1>7
<1>q. QED
  BY <1>6, <1>7, <1>8, <1>9 DEF Adds, p, x

LEMMA InsertAdds ==
  ASSUME NEW l \in Seq(Tokens), NEW k \in Arrays \cup Scalars, NEW w \in SUBSET Parts,
         NEW m, m = InsertBeforeBoundary(l, Pair(k, w))
  PROVE  Adds(Parsed(m), Parsed(l), k, w, 1)
<1> DEFINE n == Len(l)
           e == End(l)
<1>1. /\ m \in Seq(Tokens) /\ Len(m) = n + 2
      /\ \A i \in 1 .. e - 1 : m[i] = l[i]
      /\ m[e] = Option(k) /\ m[e + 1] = Word(w)
      /\ \A i \in e .. n : m[i + 2] = l[i]
      /\ k \in Keys
  <2>1. k \in Keys
    BY DEF Keys
  <2>q. QED
    BY <2>1, InsertIs
<1>2. /\ e \in 1 .. n + 1 /\ n \in Nat /\ (e = n + 1 \/ l[e] = Boundary)
  BY EndProperties
<1>3. PICK u : Parses(l, u) /\ Parsed(l) = u[n]
  BY Parsing
<1>4. PICK v : Parses(m, v) /\ Parsed(m) = v[n + 2]
  BY <1>1, Parsing
<1> HIDE DEF n, e
<1>5. v[e - 1] = u[e - 1]
  <2>1. e - 1 \in 0 .. Len(l) /\ e - 1 <= Len(m)
    BY <1>1, <1>2 DEF n
  <2>q. QED
    BY <1>1, <1>3, <1>4, <2>1, SameParse
<1>6. u[e - 1] \in ParserStates /\ ~u[e - 1].literal
  <2>1. e - 1 \in 0 .. Len(l) /\ ~(e - 1 >= End(l))
    BY <1>2 DEF n, e
  <2>q. QED
    BY <1>3, <2>1, LiteralFromEnd DEF Parses
<1> DEFINE p == Read(Read(u[e - 1], Option(k)), Word(w))
<1>7. v[e + 1] = p
  <2>1. e \in 1 .. Len(m) /\ e + 1 \in 1 .. Len(m) /\ (e + 1) - 1 = e
    BY <1>1, <1>2
  <2>2. v[e] = Read(v[e - 1], m[e]) /\ v[e + 1] = Read(v[e], m[e + 1])
    BY <1>4, <2>1 DEF Parses
  <2>q. QED
    BY <1>1, <1>5, <2>2
<1>8. /\ Adds(p, u[e - 1], k, w, 1) /\ ~p.literal /\ p \in ParserStates
  BY <1>6, PairRead
<1> HIDE DEF p
<1>9. CASE e = n + 1
  <2>1. e + 1 = n + 2 /\ e - 1 = n
    BY <1>2, <1>9
  <2>q. QED
    BY <1>3, <1>4, <1>7, <1>8, <2>1
<1>10. CASE e # n + 1
  <2>1. /\ e \in e .. n /\ e \in 1 .. Len(l) /\ e \in 0 .. Len(l) /\ e + 2 \in 1 .. Len(m)
        /\ (e + 2) - 1 = e + 1 /\ 2 \in Nat /\ Len(m) = Len(l) + 2
        /\ \A i \in e + 1 .. Len(l) : i \in e .. n
    BY <1>1, <1>2, <1>10 DEF n
  <2>2. l[e] = Boundary /\ m[e + 2] = Boundary
    BY <1>1, <1>2, <1>10, <2>1
  <2>3. u[e] = Read(u[e - 1], Boundary) /\ v[e + 2] = Read(p, Boundary)
    <3>1. u[e] = Read(u[e - 1], l[e]) /\ v[e + 2] = Read(v[(e + 2) - 1], m[e + 2])
      BY <1>3, <1>4, <2>1 DEF Parses
    <3>q. QED
      BY <1>7, <2>1, <2>2, <3>1
  <2>4. Boundary \in Tokens
    BY DEF Tokens
  <2>5. ReadsBoundary(u[e - 1], Boundary, u[e]) /\ ReadsBoundary(p, Boundary, v[e + 2])
    BY <1>6, <1>8, <2>3, <2>4, ReadFields
  <2>6. u[e].literal \in BOOLEAN /\ v[e + 2].literal \in BOOLEAN
    <3>1. u[e] \in ParserStates /\ v[e + 2] \in ParserStates
      BY <1>6, <1>8, <2>3, <2>4, ReadType
    <3>q. QED
      BY <3>1 DEF ParserStates
  <2>7. Shifts(v[e + 2], u[e], k, w, 1)
    BY <1>8, <2>5, <2>6 DEF ReadsBoundary, Shifts, Adds
  <2>8. Shifts(v[Len(m)], u[Len(l)], k, w, 1)
    <3>1. \A i \in e + 1 .. Len(l) : m[i + 2] = l[i]
      BY <1>1, <2>1
    <3>2. 1 \in Nat
      OBVIOUS
    <3>q. QED
      BY <1>1, <1>3, <1>4, <2>1, <2>7, <3>1, <3>2, ShiftedParse
  <2>q. QED
    BY <1>1, <1>3, <1>4, <2>8 DEF Shifts, n
<1>q. QED
  BY <1>9, <1>10

LEMMA ParsedType ==
  ASSUME NEW l \in Seq(Tokens)
  PROVE  Parsed(l) \in ParserStates
<1>1. Len(l) \in Nat /\ Len(l) \in 0 .. Len(l)
  BY LenProperties
<1>q. QED
  BY <1>1, Parsing DEF Parses

\* The managed config in front of the list.
LEMMA PrefixIs ==
  ASSUME NEW l \in Seq(Tokens), NEW m, m = Prefixed(l)
  PROVE  /\ m \in Seq(Tokens) /\ Len(m) = Len(l) + 2
         /\ m[1] = Option("config") /\ m[2] = Word({"managed"})
         /\ \A i \in 1 .. Len(l) : m[i + 2] = l[i]
         /\ End(m) = End(l) + 2
<1> DEFINE n == Len(l)
           e == End(l)
           V == Pair("config", {"managed"})
<1>1. /\ e \in 1 .. n + 1 /\ n \in Nat /\ (e = n + 1 \/ l[e] = Boundary)
      /\ \A i \in 1 .. e - 1 : i \in 1 .. n /\ l[i] # Boundary
  BY EndProperties
<1>a. "config" \in Keys /\ {"managed"} \in SUBSET Parts
  BY DEF Keys, Scalars, Parts
<1>b. Option("config") # Boundary /\ Word({"managed"}) # Boundary
  BY <1>a, PairTokens
<1>2. V \in Seq(Tokens) /\ Len(V) = 2 /\ V[1] = Option("config") /\ V[2] = Word({"managed"})
  BY <1>a, PairTokens DEF Pair
<1>3. m = V \o l
  BY DEF Prefixed, Pair
<1> HIDE DEF V
<1>4. /\ V \o l \in Seq(Tokens) /\ Len(V \o l) = Len(V) + Len(l)
      /\ \A i \in 1 .. Len(V) + Len(l) : (V \o l)[i] = IF i <= Len(V) THEN V[i] ELSE l[i - Len(V)]
  BY <1>2, ConcatProperties
<1> HIDE DEF e, n
<1>5. /\ m \in Seq(Tokens) /\ Len(m) = n + 2
      /\ \A i \in 1 .. n + 2 : m[i] = IF i <= 2 THEN V[i] ELSE l[i - 2]
  <2>1. Len(V) + Len(l) = n + 2
    BY <1>1, <1>2 DEF n
  <2>q. QED
    BY <1>2, <1>3, <1>4, <2>1
<1>6. m[1] = V[1] /\ m[2] = V[2]
  <2>1. 1 \in 1 .. n + 2 /\ 2 \in 1 .. n + 2 /\ 1 <= 2 /\ 2 <= 2
    BY <1>1
  <2>q. QED
    BY <1>5, <2>1
<1>7. \A i \in 1 .. n : m[i + 2] = l[i]
  <2>1. \A i \in 1 .. n : i + 2 \in 1 .. n + 2 /\ ~(i + 2 <= 2) /\ i + 2 - 2 = i
    BY <1>1
  <2>q. QED
    BY <1>5, <2>1
<1>8. End(m) = e + 2
  <2>1. e + 2 \in 1 .. Len(m) + 1
    BY <1>1, <1>5
  <2>2. e + 2 = Len(m) + 1 \/ m[e + 2] = Boundary
    <3>1. e + 2 = Len(m) + 1 \/ e \in 1 .. n
      BY <1>1, <1>5
    <3>2. e \in 1 .. n => e # n + 1
      BY <1>1
    <3>q. QED
      BY <1>1, <1>7, <3>1, <3>2
  <2>3. \A i \in 1 .. (e + 2) - 1 : m[i] # Boundary
    <3> SUFFICES ASSUME NEW i \in 1 .. (e + 2) - 1, i # 1, i # 2 PROVE m[i] # Boundary
      BY <1>2, <1>6, <1>b
    <3>1. i - 2 \in 1 .. e - 1 /\ (i - 2) + 2 = i
      BY <1>1
    <3>q. QED
      BY <1>1, <1>7, <3>1
  <2>q. QED
    BY <1>5, <2>1, <2>2, <2>3, EndIs
<1>q. QED
  BY <1>2, <1>5, <1>6, <1>7, <1>8 DEF e, n

LEMMA PrefixAdds ==
  ASSUME NEW l \in Seq(Tokens), NEW m, m = Prefixed(l)
  PROVE  Adds(Parsed(m), Parsed(l), "config", {"managed"}, 1)
<1> DEFINE n == Len(l)
           k == "config"
           w == {"managed"}
           p == Read(Read(ParseStart, Option(k)), Word(w))
<1>1. /\ m \in Seq(Tokens) /\ Len(m) = n + 2 /\ m[1] = Option(k) /\ m[2] = Word(w)
      /\ \A i \in 1 .. n : m[i + 2] = l[i]
  BY PrefixIs
<1>2. n \in Nat /\ k \in Keys /\ k \in Arrays \cup Scalars /\ k \notin Arrays /\ w \in SUBSET Parts
  BY LenProperties DEF Keys, Scalars, Arrays, Parts
<1>3. PICK u : Parses(l, u) /\ Parsed(l) = u[n]
  BY Parsing
<1>4. PICK v : Parses(m, v) /\ Parsed(m) = v[n + 2]
  BY <1>1, Parsing
<1>5. u[0] = ParseStart /\ v[0] = ParseStart
  BY <1>3, <1>4 DEF Parses
<1>6. v[2] = p
  <2>1. 1 \in 1 .. Len(m) /\ 2 \in 1 .. Len(m) /\ 2 - 1 = 1 /\ 1 - 1 = 0
    BY <1>1, <1>2
  <2>2. v[1] = Read(v[1 - 1], m[1]) /\ v[2] = Read(v[2 - 1], m[2])
    BY <1>4, <2>1 DEF Parses
  <2>q. QED
    BY <1>1, <1>5, <2>1, <2>2
<1> HIDE DEF k, w
<1>7. ~ParseStart.literal /\ ParseStart.open = "none"
  BY DEF ParseStart
<1>8. Adds(p, ParseStart, k, w, 1) /\ ~p.literal /\ p \in ParserStates /\ p.open = "none"
  BY <1>2, <1>7, PairRead, StartType
<1> HIDE DEF p
<1>9. Shifts(v[0 + 2], u[0], k, w, 1)
  <2>1. p.literal = ParseStart.literal
    BY <1>7, <1>8 DEF ParserStates, ParseStart
  <2>2. 0 + 2 = 2
    OBVIOUS
  <2>q. QED
    BY <1>5, <1>6, <1>7, <1>8, <2>1, <2>2 DEF Shifts
<1>10. Shifts(v[Len(m)], u[Len(l)], k, w, 1)
  <2>1. /\ 0 \in 0 .. Len(l) /\ 2 \in Nat /\ 1 \in Nat /\ Len(m) = Len(l) + 2
        /\ \A i \in 0 + 1 .. Len(l) : m[i + 2] = l[i]
    BY <1>1, <1>2
  <2>q. QED
    BY <1>1, <1>2, <1>3, <1>4, <1>9, <2>1, ShiftedParse
<1>q. QED
  BY <1>1, <1>3, <1>4, <1>10 DEF Shifts, k, w

\* The managed config in the caller's value.
LEMMA ManagedIs ==
  ASSUME NEW l \in Seq(Tokens), NEW i \in Configs(l), HasValue(l, i), ValidConfig(l, i),
         NEW m, m = WithManaged(l, i), NEW j, j = ValueAt(l, i)
  PROVE  /\ j \in 1 .. End(l) - 1 /\ j \in 1 .. Len(l) /\ i \in 1 .. Len(l)
         /\ m \in Seq(Tokens) /\ Len(m) = Len(l)
         /\ \A h \in 1 .. Len(l) : h # j => m[h] = l[h]
         /\ m[j].kind = l[j].kind /\ m[j].key = l[j].key
         /\ m[j].value = l[j].value \cup {"managed"}
         /\ \/ j = i /\ IsOption(l[j], "config")
            \/ j = i + 1 /\ IsWord(l[j]) /\ IsOption(l[i], "config") /\ l[i].kind = "option"
<1> DEFINE n == Len(l)
           e == End(l)
           t == l[j]
           x == [t EXCEPT !.value = @ \cup {"managed"}]
<1>1. /\ e \in 1 .. n + 1 /\ n \in Nat /\ \A h \in 1 .. e - 1 : h \in 1 .. n
  BY EndProperties
<1>2. i \in 1 .. e - 1 /\ IsOption(l[i], "config") /\ j < e
  BY DEF Configs, HasValue
<1>3. \A h \in 1 .. n : l[h] \in Tokens
  BY ElementOfSeq
<1>4. l[i] \in Tokens /\ l[i].kind \in {"option", "attached"} /\ i \in 1 .. n
  <2>1. IsSetting(l[i]) /\ i \in 1 .. n
    BY <1>1, <1>2 DEF IsOption, IsSetting, Keys, Scalars
  <2>2. l[i] \in Tokens
    BY <1>3, <2>1
  <2>q. QED
    BY <2>1, <2>2, TokenKinds
<1> HIDE DEF e, n
<1>5. j \in 1 .. e - 1 /\ j \in 1 .. n /\ (j = i \/ (j = i + 1 /\ l[i].kind = "option"))
  BY <1>1, <1>2, <1>4 DEF ValueAt
<1>6. IsWord(t) \/ j = i
  BY DEF ValidConfig
<1>7. t \in Tokens /\ t \in OneOf({"word"}, {"none"}) \cup OneOf({"attached"}, Keys)
  <2>1. t \in Tokens
    BY <1>3, <1>5
  <2>2. CASE j = i
    <3>1. t.kind = "attached"
      <4>1. i + 1 # i
        BY <1>1, <1>2
      <4>q. QED
        BY <2>2, <4>1 DEF ValueAt
    <3>q. QED
      BY <2>1, <3>1 DEF Tokens, Bares, Boundary
  <2>3. CASE IsWord(t)
    BY <2>1, <2>3 DEF Tokens, Bares, Boundary, IsWord
  <2>q. QED
    BY <1>6, <2>1, <2>2, <2>3
<1> HIDE DEF t
<1>8. x \in Tokens /\ x.kind = t.kind /\ x.key = t.key /\ x.value = t.value \cup {"managed"}
  <2>1. t.value \cup {"managed"} \in SUBSET Parts
    BY <1>7, TokenKinds DEF Parts
  <2>2. CASE t \in OneOf({"word"}, {"none"})
    <3>1. x \in OneOf({"word"}, {"none"})
      BY <2>1, <2>2 DEF OneOf
    <3>2. x.kind = t.kind /\ x.key = t.key /\ x.value = t.value \cup {"managed"}
      BY <2>2 DEF OneOf
    <3>q. QED
      BY <3>1, <3>2 DEF Tokens
  <2>3. CASE t \in OneOf({"attached"}, Keys)
    <3>1. x \in OneOf({"attached"}, Keys)
      BY <2>1, <2>3 DEF OneOf
    <3>2. x.kind = t.kind /\ x.key = t.key /\ x.value = t.value \cup {"managed"}
      BY <2>3 DEF OneOf
    <3>q. QED
      BY <3>1, <3>2 DEF Tokens
  <2>q. QED
    BY <1>7, <2>2, <2>3
<1>9. m = [l EXCEPT ![j] = x]
  BY DEF WithManaged, t
<1> HIDE DEF x
<1>10. /\ m \in Seq(Tokens) /\ Len(m) = n
       /\ \A h \in 1 .. n : m[h] = IF h = j THEN x ELSE l[h]
  BY <1>5, <1>8, <1>9, ExceptSeq DEF n
<1>q. QED
  BY <1>2, <1>5, <1>6, <1>8, <1>10 DEF n, e, t

LEMMA ManagedAdds ==
  ASSUME NEW l \in Seq(Tokens), NEW i \in Configs(l), HasValue(l, i), ValidConfig(l, i),
         NEW m, m = WithManaged(l, i)
  PROVE  Adds(Parsed(m), Parsed(l), "config", {"managed"}, 0)
<1> DEFINE n == Len(l)
           j == ValueAt(l, i)
           k == "config"
           w == {"managed"}
<1>1. /\ j \in 1 .. End(l) - 1 /\ j \in 1 .. n /\ i \in 1 .. n
      /\ m \in Seq(Tokens) /\ Len(m) = n
      /\ \A h \in 1 .. n : h # j => m[h] = l[h]
      /\ m[j].kind = l[j].kind /\ m[j].key = l[j].key
      /\ m[j].value = l[j].value \cup w
      /\ \/ j = i /\ IsOption(l[j], k)
         \/ j = i + 1 /\ IsWord(l[j]) /\ IsOption(l[i], k) /\ l[i].kind = "option"
  BY ManagedIs
<1>2. n \in Nat /\ k \in Keys /\ k \in Scalars /\ k \notin Arrays /\ k # "none"
  BY LenProperties, NoneIsNoKey DEF Keys, Scalars, Arrays
<1>3. PICK u : Parses(l, u) /\ Parsed(l) = u[n]
  BY Parsing
<1>4. PICK v : Parses(m, v) /\ Parsed(m) = v[n]
  BY <1>1, Parsing
<1> HIDE DEF j, k, w
<1>5. v[j - 1] = u[j - 1]
  <2>1. /\ j - 1 \in 0 .. Len(l) /\ j - 1 <= Len(m)
        /\ \A h \in 1 .. j - 1 : h \in 1 .. n /\ h # j
    BY <1>1, <1>2
  <2>q. QED
    BY <1>1, <1>3, <1>4, <2>1, SameParse
<1> DEFINE q == u[j - 1]
<1>6. /\ q \in ParserStates /\ u[j] = Read(q, l[j]) /\ v[j] = Read(q, m[j])
      /\ u[j] \in ParserStates /\ v[j] \in ParserStates
      /\ l[j] \in Tokens /\ m[j] \in Tokens
  <2>1. j \in 1 .. Len(l) /\ j \in 1 .. Len(m)
    BY <1>1
  <2>q. QED
    BY <1>1, <1>3, <1>4, <1>5, <2>1, ParseStep
<1>7. ~q.literal
  <2>1. j - 1 \in 0 .. n /\ ~(j - 1 >= End(l))
    <3>1. End(l) \in 1 .. n + 1
      BY EndProperties
    <3> HIDE DEF n
    <3>q. QED
      BY <1>1, <1>2, <3>1
  <2>q. QED
    BY <1>3, <2>1, LiteralFromEnd
<1> HIDE DEF q
<1>8. /\ q.values \in [Keys -> SUBSET Parts] /\ q.count \in [Keys -> Nat]
      /\ u[j].literal \in BOOLEAN /\ v[j].literal \in BOOLEAN
  BY <1>6 DEF ParserStates
<1>9. CASE j = i /\ IsOption(l[j], k)
  <2>1. IsSetting(l[j]) /\ l[j].key = k /\ IsSetting(m[j]) /\ m[j].key = k /\ Opened(m[j]) = Opened(l[j])
    BY <1>1, <1>2, <1>9 DEF IsOption, IsSetting, IsWord, Opened
  <2>2. ReadsSetting(q, l[j], u[j]) /\ ReadsSetting(q, m[j], v[j])
    BY <1>6, <1>7, <2>1, ReadFields
  <2>3. /\ v[j].values[k] = u[j].values[k] \cup w
        /\ \A o \in Keys : o # k => v[j].values[o] = u[j].values[o]
    <3>1. /\ u[j].values = [q.values EXCEPT ![k] = @ \cup l[j].value]
          /\ v[j].values = [q.values EXCEPT ![k] = @ \cup (l[j].value \cup w)]
      BY <1>1, <2>1, <2>2 DEF ReadsSetting
    <3>q. QED
      BY <1>2, <1>8, <3>1
  <2>4. v[j].count = u[j].count /\ u[j].count[k] \in Nat
    BY <1>2, <1>6, <2>1, <2>2 DEF ReadsSetting, ParserStates
  <2>q. QED
    <3>1. Shifts(v[j], u[j], k, w, 0)
      BY <1>8, <2>1, <2>2, <2>3, <2>4 DEF ReadsSetting, Shifts, Adds
    <3>2. /\ 0 \in Nat /\ j \in 0 .. Len(l) /\ Len(m) = Len(l) + 0 /\ j + 0 = j
          /\ \A h \in j + 1 .. Len(l) : m[h + 0] = l[h]
      <4>1. \A h \in j + 1 .. Len(l) : h \in 1 .. n /\ h # j /\ h + 0 = h
        BY <1>1, <1>2
      <4>q. QED
        BY <1>1, <1>2, <4>1
    <3>3. Shifts(v[Len(m)], u[Len(l)], k, w, 0)
      BY <1>1, <1>2, <1>3, <1>4, <3>1, <3>2, ShiftedParse
    <3>q. QED
      BY <1>1, <1>3, <1>4, <3>3 DEF Shifts, k, w
<1>10. CASE j = i + 1 /\ IsWord(l[j]) /\ IsOption(l[i], k) /\ l[i].kind = "option"
  <2>1. q.open = k
    <3>1. j - 1 = i /\ i - 1 \in 0 .. n
      BY <1>1, <1>2, <1>10
    <3>2. q = Read(u[i - 1], l[i]) /\ u[i - 1] \in ParserStates /\ l[i] \in Tokens
      BY <1>1, <1>3, <3>1, ParseStep DEF q
    <3>3. ~u[i - 1].literal
      <4>1. End(l) \in 1 .. n + 1
        BY EndProperties
      <4>2. ~(i - 1 >= End(l))
        <5> HIDE DEF n
        <5>q. QED
          BY <1>1, <1>2, <1>10, <4>1
      <4>q. QED
        BY <1>3, <3>1, <4>2, LiteralFromEnd
    <3>4. IsSetting(l[i]) /\ l[i].key = k
      BY <1>2, <1>10 DEF IsOption, IsSetting
    <3>5. ReadsSetting(u[i - 1], l[i], q)
      BY <3>2, <3>3, <3>4, ReadFields
    <3>q. QED
      BY <1>2, <1>10, <3>4, <3>5 DEF ReadsSetting, Opened
  <2>2. IsWord(m[j])
    BY <1>1, <1>10 DEF IsWord
  <2>3. ReadsValue(q, l[j], u[j]) /\ ReadsValue(q, m[j], v[j])
    BY <1>2, <1>6, <1>7, <1>10, <2>1, <2>2, ReadFields
  <2>4. /\ v[j].values[k] = u[j].values[k] \cup w
        /\ \A o \in Keys : o # k => v[j].values[o] = u[j].values[o]
    <3>1. /\ u[j].values = [q.values EXCEPT ![k] = @ \cup l[j].value]
          /\ v[j].values = [q.values EXCEPT ![k] = @ \cup (l[j].value \cup w)]
      BY <1>1, <2>1, <2>3 DEF ReadsValue
    <3>q. QED
      BY <1>2, <1>8, <3>1
  <2>5. v[j].count = u[j].count /\ u[j].count[k] \in Nat
    BY <1>2, <1>6, <2>3 DEF ReadsValue, ParserStates
  <2>q. QED
    <3>1. Shifts(v[j], u[j], k, w, 0)
      <4>1. /\ v[j].open = u[j].open /\ v[j].literal = u[j].literal
            /\ v[j].positional = u[j].positional
        BY <1>8, <2>3 DEF ReadsValue
      <4>2. v[j].count[k] = u[j].count[k] + 0
        BY <2>5
      <4>q. QED
        BY <2>4, <2>5, <4>1, <4>2 DEF Shifts, Adds
    <3>2. /\ 0 \in Nat /\ j \in 0 .. Len(l) /\ Len(m) = Len(l) + 0 /\ j + 0 = j
          /\ \A h \in j + 1 .. Len(l) : m[h + 0] = l[h]
      <4>1. \A h \in j + 1 .. Len(l) : h \in 1 .. n /\ h # j /\ h + 0 = h
        BY <1>1, <1>2
      <4>q. QED
        BY <1>1, <1>2, <4>1
    <3>3. Shifts(v[Len(m)], u[Len(l)], k, w, 0)
      BY <1>1, <1>2, <1>3, <1>4, <3>1, <3>2, ShiftedParse
    <3>q. QED
      BY <1>1, <1>3, <1>4, <3>3 DEF Shifts, k, w
<1>q. QED
  BY <1>1, <1>9, <1>10

-----------------------------------------------------------------------------
(* Bare mode, which the wrapper never adds                                   *)

IsBare(l, i) == l[i] = Option("bare") \/ (i < End(l) /\ l[i] = Attached("bare", {"true"}))

LEMMA BareIs == \A l : BareArgument(l) <=> \E i \in 1 .. Len(l) : IsBare(l, i)
BY DEF BareArgument, IsBare

LEMMA NotBare ==
  ASSUME NEW t, t.key # "bare"
  PROVE  t # Option("bare") /\ t # Attached("bare", {"true"})
BY DEF Option, Attached

LEMMA InsertBare ==
  ASSUME NEW l \in Seq(Tokens), NEW k \in Keys, k # "bare", NEW w \in SUBSET Parts,
         NEW m, m = InsertBeforeBoundary(l, Pair(k, w)), BareArgument(m)
  PROVE  BareArgument(l)
<1> DEFINE n == Len(l)
           e == End(l)
<1>1. /\ m \in Seq(Tokens) /\ Len(m) = n + 2
      /\ \A i \in 1 .. e - 1 : m[i] = l[i]
      /\ m[e] = Option(k) /\ m[e + 1] = Word(w)
      /\ \A i \in e .. n : m[i + 2] = l[i]
      /\ End(m) = e + 2
  BY InsertIs
<1>2. e \in 1 .. n + 1 /\ n \in Nat
  BY EndProperties
<1>3. PICK i \in 1 .. Len(m) : IsBare(m, i)
  BY BareIs
<1> HIDE DEF n, e
<1>4. i # e /\ i # e + 1
  <2>1. m[e].key # "bare" /\ m[e + 1].key # "bare"
    BY <1>1, PairTokens
  <2>q. QED
    BY <1>3, <2>1, NotBare DEF IsBare
<1>5. CASE i < e
  <2>1. i \in 1 .. e - 1 /\ i \in 1 .. n
    BY <1>1, <1>2, <1>5
  <2>2. IsBare(l, i)
    BY <1>1, <1>3, <1>5, <2>1 DEF IsBare, e
  <2>q. QED
    BY <2>1, <2>2, BareIs DEF n
<1>6. CASE ~(i < e)
  <2>1. i - 2 \in e .. n /\ i - 2 \in 1 .. n /\ (i - 2) + 2 = i /\ ~(i < e + 2)
    BY <1>1, <1>2, <1>4, <1>6
  <2>2. m[i] = l[i - 2] /\ m[i] = Option("bare")
    BY <1>1, <1>3, <2>1 DEF IsBare
  <2>q. QED
    BY <2>1, <2>2, BareIs DEF IsBare, n
<1>q. QED
  BY <1>5, <1>6

LEMMA PrefixBare ==
  ASSUME NEW l \in Seq(Tokens), NEW m, m = Prefixed(l), BareArgument(m)
  PROVE  BareArgument(l)
<1> DEFINE n == Len(l)
           e == End(l)
<1>1. /\ Len(m) = n + 2 /\ m[1] = Option("config") /\ m[2] = Word({"managed"})
      /\ \A i \in 1 .. n : m[i + 2] = l[i]
      /\ End(m) = e + 2
  BY PrefixIs
<1>2. e \in 1 .. n + 1 /\ n \in Nat
  BY EndProperties
<1>3. PICK i \in 1 .. Len(m) : IsBare(m, i)
  BY BareIs
<1> HIDE DEF n, e
<1>4. i # 1 /\ i # 2
  <2>1. m[1].key # "bare" /\ m[2].key # "bare"
    BY <1>1 DEF Option, Word
  <2>q. QED
    BY <1>3, <2>1, NotBare DEF IsBare
<1>5. i - 2 \in 1 .. n /\ (i - 2) + 2 = i /\ (i < e + 2 => i - 2 < e)
  BY <1>1, <1>2, <1>4
<1>6. IsBare(l, i - 2)
  BY <1>1, <1>3, <1>5 DEF IsBare, e
<1>q. QED
  BY <1>5, <1>6, BareIs DEF n

LEMMA ManagedBare ==
  ASSUME NEW l \in Seq(Tokens), NEW i \in Configs(l), HasValue(l, i), ValidConfig(l, i),
         NEW m, m = WithManaged(l, i), BareArgument(m)
  PROVE  BareArgument(l)
<1> DEFINE n == Len(l)
           j == ValueAt(l, i)
           e == End(l)
<1>1. /\ j \in 1 .. e - 1 /\ j \in 1 .. n /\ i \in 1 .. n
      /\ m \in Seq(Tokens) /\ Len(m) = n
      /\ \A h \in 1 .. n : h # j => m[h] = l[h]
      /\ m[j].kind = l[j].kind /\ m[j].key = l[j].key
      /\ \/ j = i /\ IsOption(l[j], "config")
         \/ j = i + 1 /\ IsWord(l[j])
  BY ManagedIs
<1>2. /\ e \in 1 .. n + 1 /\ n \in Nat /\ (e = n + 1 \/ l[e] = Boundary)
      /\ \A h \in 1 .. e - 1 : l[h] # Boundary
  BY EndProperties
<1> HIDE DEF n, j, e
<1>3. End(m) = e
  <2>1. e \in 1 .. Len(m) + 1 /\ e # j
    BY <1>1, <1>2
  <2>2. e = Len(m) + 1 \/ m[e] = Boundary
    <3>1. e = Len(m) + 1 \/ e \in 1 .. n
      BY <1>1, <1>2
    <3>2. e \in 1 .. n => e # n + 1
      BY <1>2
    <3>q. QED
      BY <1>1, <1>2, <2>1, <3>1, <3>2
  <2>3. \A h \in 1 .. e - 1 : m[h] # Boundary
    <3> SUFFICES ASSUME NEW h \in 1 .. e - 1 PROVE m[h] # Boundary
      OBVIOUS
    <3>1. h \in 1 .. n
      BY <1>2
    <3>2. CASE h = j
      <4>1. m[j].kind # "boundary"
        <5>1. l[j] \in Tokens
          BY <1>1, ElementOfSeq DEF n
        <5>2. IsOption(l[j], "config") => IsSetting(l[j])
          BY DEF IsOption, IsSetting, Keys, Scalars
        <5>q. QED
          BY <1>1, <5>1, <5>2, TokenKinds DEF IsWord
      <4>q. QED
        BY <3>2, <4>1 DEF Boundary
    <3>3. CASE h # j
      BY <1>1, <1>2, <3>1, <3>3
    <3>q. QED
      BY <3>2, <3>3
  <2>q. QED
    BY <1>1, <2>1, <2>2, <2>3, EndIs
<1>4. PICK h \in 1 .. Len(m) : IsBare(m, h)
  BY BareIs
<1>5. h # j
  <2>1. l[j] \in Tokens
    BY <1>1, ElementOfSeq DEF n
  <2>2. m[j].key # "bare"
    BY <1>1, <2>1, TokenKinds DEF IsOption
  <2>q. QED
    BY <1>4, <2>2, NotBare DEF IsBare
<1>6. h \in 1 .. n /\ IsBare(l, h)
  BY <1>1, <1>3, <1>4, <1>5 DEF IsBare, e
<1>q. QED
  BY <1>6, BareIs DEF n

-----------------------------------------------------------------------------
(* The steps of a managed launch                                             *)

LEMMA SingleConfig ==
  ASSUME NEW l \in Seq(Tokens), Cardinality(Configs(l)) <= 1, Configs(l) # {}
  PROVE  \E x \in Configs(l) : Configs(l) = {x}
<1>1. End(l) \in Nat /\ Configs(l) \in SUBSET (1 .. End(l) - 1)
  BY EndProperties DEF Configs
<1>2. IsFiniteSet(1 .. End(l) - 1)
  BY <1>1, FS_Interval
<1>3. IsFiniteSet(Configs(l))
  BY <1>1, <1>2, FS_Subset
<1>4. Cardinality(Configs(l)) \in Nat /\ Cardinality(Configs(l)) # 0
  BY <1>3, FS_CardinalityType, FS_EmptySet
<1>5. Cardinality(Configs(l)) = 1
  BY <1>4
<1>6. \E x : Configs(l) = {x}
  BY <1>3, <1>5, FS_Singleton
<1>q. QED
  BY <1>6

\* One config reaches native, with the managed server in it.
LEMMA ComposedAdds ==
  ASSUME NEW l \in Seq(Tokens), Composable(l), NEW m, m = Composed(l)
  PROVE  /\ m \in Seq(Tokens) /\ (BareArgument(m) => BareArgument(l))
         /\ \E c \in Nat : Adds(Parsed(m), Parsed(l), "config", {"managed"}, c)
         /\ Parsed(m).count["config"] = 1
<1>a. "config" \in Keys
  BY DEF Keys, Scalars
<1>b. \A i \in 1 .. End(l) - 1 : IsOption(l[i], "config") <=> i \in Configs(l)
  BY DEF Configs
<1>1. CASE Configs(l) = {}
  <2>1. m = Prefixed(l)
    BY <1>1 DEF Composed
  <2>2. m \in Seq(Tokens) /\ (BareArgument(m) => BareArgument(l))
    BY <2>1, PrefixIs, PrefixBare
  <2>3. Adds(Parsed(m), Parsed(l), "config", {"managed"}, 1) /\ 1 \in Nat
    BY <2>1, PrefixAdds
  <2>4. Parsed(l).count["config"] = 0
    BY <1>1, <1>a, <1>b, NoOption
  <2>5. Parsed(m).count["config"] = 0 + 1
    BY <2>3, <2>4 DEF Adds
  <2>q. QED
    BY <2>2, <2>3, <2>5
<1>2. CASE Configs(l) # {}
  <2>1. PICK x \in Configs(l) : Configs(l) = {x}
    BY <1>2, SingleConfig DEF Composable
  <2>2. m = WithManaged(l, x)
    BY <1>2, <2>1 DEF Composed
  <2>3. HasValue(l, x) /\ ValidConfig(l, x)
    BY <2>1 DEF Composable
  <2>4. m \in Seq(Tokens) /\ (BareArgument(m) => BareArgument(l))
    BY <2>2, <2>3, ManagedIs, ManagedBare
  <2>5. Adds(Parsed(m), Parsed(l), "config", {"managed"}, 0) /\ 0 \in Nat
    BY <2>2, <2>3, ManagedAdds
  <2>6. Parsed(l).count["config"] = 1
    <3>1. x \in 1 .. End(l) - 1
      BY <2>1 DEF Configs
    <3>2. \A i \in 1 .. End(l) - 1 : IsOption(l[i], "config") <=> i = x
      BY <1>b, <2>1
    <3>q. QED
      BY <1>a, <3>1, <3>2, OneOption
  <2>7. Parsed(m).count["config"] = 1 + 0
    BY <2>5, <2>6 DEF Adds
  <2>q. QED
    BY <2>4, <2>5, <2>7
<1>q. QED
  BY <1>1, <1>2

\* What InteractivePlan makes of the list it took.
Plans(l, b, m) ==
  /\ m \in Seq(Tokens)
  /\ Parsed(m).positional = Parsed(l).positional
  /\ Parsed(m).values["allow"] = Parsed(l).values["allow"] \cup {"tool"}
  /\ Parsed(m).values["startup"] = (IF b THEN {"rename"} ELSE Parsed(l).values["startup"])
  /\ b => Parsed(m).count["startup"] = 1
  /\ \A k \in Keys \ {"allow", "startup"} :
       /\ Parsed(m).values[k] = Parsed(l).values[k]
       /\ Parsed(m).count[k] = Parsed(l).count[k]

LEMMA Planned ==
  ASSUME NEW l \in Seq(Tokens), NEW b \in BOOLEAN, b => ~HasStartup(l),
         NEW r, r = (IF b THEN InsertBeforeBoundary(l, Rename) ELSE l),
         NEW m, m = Granted(r)
  PROVE  Plans(l, b, m)
<1>a. /\ {"startup", "allow"} \subseteq Keys /\ {"startup", "allow"} \subseteq Arrays \cup Scalars
      /\ {"rename"} \in SUBSET Parts /\ {"tool"} \in SUBSET Parts
  BY DEF Keys, Scalars, Arrays, Parts
<1>b. /\ Rename = Pair("startup", {"rename"}) /\ Grant = Pair("allow", {"tool"})
  BY DEF Rename, Grant, Pair
<1>1. /\ r \in Seq(Tokens)
      /\ Parsed(r).positional = Parsed(l).positional
      /\ Parsed(r).values["startup"] = (IF b THEN {"rename"} ELSE Parsed(l).values["startup"])
      /\ b => Parsed(r).count["startup"] = 1
      /\ \A k \in Keys : k # "startup" =>
              /\ Parsed(r).values[k] = Parsed(l).values[k]
              /\ Parsed(r).count[k] = Parsed(l).count[k]
  <2>1. CASE ~b
    <3>1. r = l
      BY <2>1
    <3>q. QED
      BY <2>1, <3>1
  <2>2. CASE b
    <3>1. r = InsertBeforeBoundary(l, Pair("startup", {"rename"}))
      BY <1>b, <2>2
    <3>2. r \in Seq(Tokens)
      BY <1>a, <3>1, InsertIs
    <3>3. Adds(Parsed(r), Parsed(l), "startup", {"rename"}, 1)
      BY <1>a, <3>1, InsertAdds
    <3>4. Parsed(l).values["startup"] = {} /\ Parsed(l).count["startup"] = 0
      <4>1. \A i \in 1 .. End(l) - 1 : ~IsOption(l[i], "startup")
        BY <2>2, EndProperties DEF HasStartup
      <4>q. QED
        BY <1>a, <4>1, NoOption
    <3>5. Parsed(r).count["startup"] = 0 + 1
      BY <3>3, <3>4 DEF Adds
    <3>q. QED
      BY <2>2, <3>2, <3>3, <3>4, <3>5 DEF Adds
  <2>q. QED
    BY <2>1, <2>2
<1>2. m = InsertBeforeBoundary(r, Pair("allow", {"tool"}))
  BY <1>b DEF Granted
<1>3. m \in Seq(Tokens)
  BY <1>1, <1>2, <1>a, InsertIs
<1>4. Adds(Parsed(m), Parsed(r), "allow", {"tool"}, 1)
  BY <1>1, <1>2, <1>a, InsertAdds
<1>q. QED
  BY <1>a, <1>1, <1>3, <1>4 DEF Adds, Plans

\* What a launch makes of the planned list.
LEMMA Launched ==
  ASSUME NEW l \in Seq(Tokens), Integrated(l), Composable(l), NEW m, m = WithInput(Composed(l))
  PROVE  /\ m \in Seq(Tokens) /\ ~BareArgument(m)
         /\ Parsed(m).positional = Parsed(l).positional
         /\ Parsed(m).values["config"] = Parsed(l).values["config"] \cup {"managed"}
         /\ Parsed(m).count["config"] = 1
         /\ Parsed(m).values["input"] = {"launch"}
         /\ \A k \in Keys \ {"config", "input"} :
              /\ Parsed(m).values[k] = Parsed(l).values[k]
              /\ Parsed(m).count[k] = Parsed(l).count[k]
<1> DEFINE r == Composed(l)
<1>a. /\ {"config", "input"} \subseteq Keys /\ {"config", "input"} \subseteq Arrays \cup Scalars
      /\ {"launch"} \in SUBSET Parts
  BY DEF Keys, Scalars, Arrays, Parts
<1>1. /\ r \in Seq(Tokens) /\ ~BareArgument(r)
      /\ \E c \in Nat : Adds(Parsed(r), Parsed(l), "config", {"managed"}, c)
      /\ Parsed(r).count["config"] = 1
  BY ComposedAdds DEF Integrated
<1>2. m = InsertBeforeBoundary(r, Pair("input", {"launch"}))
  BY DEF WithInput, Pair
<1> HIDE DEF r
<1>3. m \in Seq(Tokens)
  BY <1>1, <1>2, <1>a, InsertIs
<1>4. Adds(Parsed(m), Parsed(r), "input", {"launch"}, 1)
  BY <1>1, <1>2, <1>a, InsertAdds
<1>5. ~BareArgument(m)
  BY <1>1, <1>2, <1>a, InsertBare
<1>6. Parsed(l).values["input"] = {}
  <2>1. \A i \in 1 .. End(l) - 1 : ~IsOption(l[i], "input")
    BY DEF Integrated
  <2>q. QED
    BY <1>a, <2>1, NoOption
<1>7. /\ Parsed(r).positional = Parsed(l).positional
      /\ Parsed(r).values["config"] = Parsed(l).values["config"] \cup {"managed"}
      /\ \A k \in Keys : k # "config" =>
              /\ Parsed(r).values[k] = Parsed(l).values[k]
              /\ Parsed(r).count[k] = Parsed(l).count[k]
  BY <1>1 DEF Adds
<1>q. QED
  BY <1>a, <1>1, <1>3, <1>4, <1>5, <1>6, <1>7 DEF Adds

\* What a lane's native gets.
Opens(l, m) ==
  /\ m \in Seq(Tokens) /\ (BareArgument(m) => BareArgument(l))
  /\ Parsed(m).positional = Parsed(l).positional
  /\ Parsed(m).values["allow"] = Parsed(l).values["allow"] \cup {"tool"}
  /\ Parsed(m).values["config"] = Parsed(l).values["config"] \cup {"managed"}
  /\ Parsed(m).count["config"] = 1
  /\ Parsed(m).values["input"] = {}
  /\ \A k \in Keys \ {"config", "allow"} :
       /\ Parsed(m).values[k] = Parsed(l).values[k]
       /\ Parsed(m).count[k] = Parsed(l).count[k]

LEMMA LaneOpened ==
  ASSUME NEW l \in Seq(Tokens), HostAccepts(l),
         NEW m, m = l \o Grant \o <<Option("config"), Word({"managed"})>>
  PROVE  Opens(l, m)
<1> DEFINE r == InsertBeforeBoundary(l, Pair("allow", {"tool"}))
<1>a. /\ {"allow", "config", "input"} \subseteq Keys
      /\ {"allow", "config"} \subseteq Arrays \cup Scalars
      /\ {"tool"} \in SUBSET Parts /\ {"managed"} \in SUBSET Parts
  BY DEF Keys, Scalars, Arrays, Parts
<1>1. /\ r \in Seq(Tokens) /\ Len(r) = Len(l) + 2 /\ End(r) = End(l) + 2
  BY <1>a, InsertIs
<1>2. End(l) = Len(l) + 1 /\ Len(l) \in Nat
  BY EndProperties DEF HostAccepts
<1>3. \A x \in Seq(Tokens), v \in Seq(Tokens) :
        End(x) = Len(x) + 1 => InsertBeforeBoundary(x, v) = x \o v
  <2> SUFFICES ASSUME NEW x \in Seq(Tokens), NEW v \in Seq(Tokens), End(x) = Len(x) + 1
               PROVE  InsertBeforeBoundary(x, v) = x \o v
    OBVIOUS
  <2>1. Len(x) \in Nat
    BY LenProperties
  <2>2. InsertBeforeBoundary(x, v) = SubSeq(x, 1, Len(x)) \o v \o SubSeq(x, Len(x) + 1, Len(x))
    <3>1. Len(x) + 1 - 1 = Len(x)
      BY <2>1
    <3>q. QED
      BY <3>1 DEF InsertBeforeBoundary
  <2>3. SubSeq(x, 1, Len(x)) = x
    BY SubSeqFull
  <2>4. SubSeq(x, Len(x) + 1, Len(x)) = <<>>
    BY <2>1, SubSeqEmpty
  <2>5. x \o v \in Seq(Tokens)
    BY ConcatProperties
  <2>6. (x \o v) \o <<>> = x \o v
    BY <2>5, ConcatEmptySeq
  <2>q. QED
    BY <2>2, <2>3, <2>4, <2>6
<1>4. Pair("allow", {"tool"}) \in Seq(Tokens) /\ Pair("config", {"managed"}) \in Seq(Tokens)
  BY <1>a, PairTokens DEF Pair
<1>5. r = l \o Grant
  <2>1. r = l \o Pair("allow", {"tool"})
    BY <1>2, <1>3, <1>4
  <2>q. QED
    BY <2>1 DEF Grant, Pair
<1> HIDE DEF r
<1>6. m = InsertBeforeBoundary(r, Pair("config", {"managed"}))
  <2>1. End(r) = Len(r) + 1
    BY <1>1, <1>2
  <2>2. InsertBeforeBoundary(r, Pair("config", {"managed"})) = r \o Pair("config", {"managed"})
    BY <1>1, <1>3, <1>4, <2>1
  <2>q. QED
    BY <1>5, <2>2 DEF Pair
<1>7. m \in Seq(Tokens)
  BY <1>1, <1>6, <1>a, InsertIs
<1>8. BareArgument(m) => BareArgument(l)
  <2>1. BareArgument(m) => BareArgument(r)
    BY <1>1, <1>6, <1>a, InsertBare
  <2>2. BareArgument(r) => BareArgument(l)
    BY <1>a, InsertBare DEF r
  <2>q. QED
    BY <2>1, <2>2
<1>9. Adds(Parsed(r), Parsed(l), "allow", {"tool"}, 1)
  BY <1>a, InsertAdds DEF r
<1>10. Adds(Parsed(m), Parsed(r), "config", {"managed"}, 1)
  BY <1>1, <1>6, <1>a, InsertAdds
<1>11. Parsed(l).count["config"] = 0 /\ Parsed(l).values["input"] = {}
  <2>1. \A i \in 1 .. End(l) - 1 : ~IsOption(l[i], "config") /\ ~IsOption(l[i], "input")
    <3>1. \A i \in 1 .. End(l) - 1 : i \in 1 .. Len(l)
      BY <1>2
    <3>q. QED
      BY <3>1 DEF HostAccepts, IsOption, Conflicts
  <2>q. QED
    BY <1>a, <2>1, NoOption
<1>12. Parsed(m).count["config"] = 0 + 1
  BY <1>9, <1>10, <1>11, <1>a DEF Adds
<1> DEFINE x == Parsed(m)
           y == Parsed(r)
           z == Parsed(l)
<1>13. /\ y.positional = z.positional /\ y.values["allow"] = z.values["allow"] \cup {"tool"}
       /\ \A k \in Keys : k # "allow" => y.values[k] = z.values[k] /\ y.count[k] = z.count[k]
  BY <1>9 DEF Adds
<1>14. /\ x.positional = y.positional /\ x.values["config"] = y.values["config"] \cup {"managed"}
       /\ \A k \in Keys : k # "config" => x.values[k] = y.values[k] /\ x.count[k] = y.count[k]
  BY <1>10 DEF Adds
<1>15. z.values["input"] = {} /\ x.count["config"] = 1
  BY <1>11, <1>12
<1> HIDE DEF x, y, z
<1>16. /\ x.positional = z.positional
       /\ x.values["allow"] = z.values["allow"] \cup {"tool"}
       /\ x.values["config"] = z.values["config"] \cup {"managed"}
       /\ x.values["input"] = {}
       /\ \A k \in Keys \ {"config", "allow"} : x.values[k] = z.values[k] /\ x.count[k] = z.count[k]
  BY <1>a, <1>13, <1>14, <1>15
<1>q. QED
  BY <1>7, <1>8, <1>15, <1>16 DEF x, z, Opens

-----------------------------------------------------------------------------
(* The list InteractivePlan takes the wrapper's own options from             *)

LEMMA CallerTokens ==
  ASSUME NEW c \in Calls
  PROVE  c.args \in Seq(Tokens) /\ c.mode \in Modes
<1>1. Words \cup Options \cup {Boundary} \subseteq Tokens
  <2>1. SUBSET STRING \subseteq SUBSET Parts
    BY DEF Parts
  <2>2. Words \subseteq OneOf({"word"}, {"none"})
    BY <2>1 DEF Words, OneOf
  <2>3. Options \subseteq Bares \cup OneOf({"attached"}, Keys)
    BY <2>1 DEF Options, Bares, OneOf
  <2>q. QED
    BY <2>2, <2>3 DEF Tokens
<1>2. c.mode \in Modes /\ c.args \in Seq(Words \cup Options \cup {Boundary})
  BY LaunchArgumentsAssumption
<1> DEFINE A == Words \cup Options \cup {Boundary}
<1>3. c.args \in Seq(A) /\ A \subseteq Tokens
  BY <1>1, <1>2
<1> HIDE DEF A
<1>q. QED
  BY <1>2, <1>3

TakeStates ==
  [native : Seq(Tokens), named : BOOLEAN, wants : {"none", "group", "name"},
   literal : BOOLEAN, refused : BOOLEAN]

TakeStart == [native |-> <<>>, named |-> FALSE, wants |-> "none", literal |-> FALSE, refused |-> FALSE]

LEMMA TakeStartType == TakeStart \in TakeStates
<1>1. <<>> \in Seq(Tokens)
  OBVIOUS
<1>q. QED
  BY <1>1 DEF TakeStart, TakeStates

LEMMA TakeType ==
  ASSUME NEW s \in TakeStates, NEW t \in Tokens
  PROVE  Take(s, t) \in TakeStates
<1>1. /\ s = [native |-> s.native, named |-> s.named, wants |-> s.wants,
              literal |-> s.literal, refused |-> s.refused]
      /\ s.native \in Seq(Tokens) /\ s.named \in BOOLEAN /\ s.literal \in BOOLEAN
      /\ s.refused \in BOOLEAN /\ s.wants \in {"none", "group", "name"}
  BY DEF TakeStates
<1>2. Append(s.native, t) \in Seq(Tokens)
  BY <1>1
<1>3. CASE s.refused \/ s.literal
  <2>1. Take(s, t) = [s EXCEPT !.native = Append(@, t)]
    BY <1>3 DEF Take
  <2>q. QED
    BY <1>1, <1>2, <2>1 DEF TakeStates
<1>4. CASE ~(s.refused \/ s.literal) /\ s.wants # "none"
  <2>1. Take(s, t) = [s EXCEPT !.refused = t = Boundary \/ (s.wants = "name" /\ t = Word({})),
                               !.named = @ \/ s.wants = "name", !.wants = "none"]
    BY <1>4 DEF Take
  <2>q. QED
    BY <1>1, <2>1 DEF TakeStates
<1>5. CASE ~(s.refused \/ s.literal) /\ s.wants = "none" /\ TakesOwn(t) /\ t.kind = "option"
  <2>1. Take(s, t) = [s EXCEPT !.wants = t.key]
    BY <1>5 DEF Take
  <2>2. t.key \in {"none", "group", "name"}
    BY <1>5 DEF TakesOwn
  <2>q. QED
    BY <1>1, <2>1, <2>2 DEF TakeStates
<1>6. CASE ~(s.refused \/ s.literal) /\ s.wants = "none" /\ TakesOwn(t) /\ t.kind = "attached"
  <2>1. Take(s, t) = [s EXCEPT !.refused = t.key = "name" /\ t.value = {},
                               !.named = @ \/ t.key = "name"]
    BY <1>6 DEF Take
  <2>q. QED
    BY <1>1, <2>1 DEF TakeStates
<1>7. CASE /\ ~(s.refused \/ s.literal) /\ s.wants = "none"
           /\ ~(TakesOwn(t) /\ t.kind \in {"option", "attached"})
  <2>1. Take(s, t) = [s EXCEPT !.refused = IsOption(t, "prompt"), !.literal = t = Boundary,
                               !.native = Append(@, t)]
    BY <1>7 DEF Take
  <2>2. IsOption(t, "prompt") \in BOOLEAN
    BY DEF IsOption
  <2>q. QED
    BY <1>1, <1>2, <2>1, <2>2 DEF TakeStates
<1>q. QED
  BY <1>3, <1>4, <1>5, <1>6, <1>7

IsTaking(l, u) == u = [i \in 0 .. Len(l) |-> IF i = 0 THEN TakeStart ELSE Take(u[i - 1], l[i])]

LEMMA TakenIs == \A l : Taken(l) = (CHOOSE u : IsTaking(l, u))[Len(l)]
BY DEF Taken, IsTaking, TakeStart

LEMMA TakingExists ==
  ASSUME NEW l \in Seq(Tokens)
  PROVE  \E u : IsTaking(l, u)
<1> DEFINE n == Len(l)
           V == TakeStates
           step == [p \in V \X (1 .. n) |-> Take(p[1], l[p[2]])]
<1>1. n \in Nat /\ \A i \in 1 .. n : l[i] \in Tokens
  BY LenProperties, ElementOfSeq
<1>2. \A v \in V, i \in 1 .. n : step[<<v, i>>] = Take(v, l[i])
  OBVIOUS
<1>3. \A v \in V, i \in 1 .. n : Take(v, l[i]) \in V
  BY <1>1, TakeType
<1> HIDE DEF step, V, n
<1>4. TakeStart \in V /\ StaysIn(V, n, step)
  BY <1>2, <1>3, TakeStartType DEF StaysIn, V
<1>5. PICK u \in [0 .. n -> V] : Carries(u, TakeStart, n, step)
  BY <1>1, <1>4, FoldExists
<1>6. \A i \in 0 .. n : u[i] = IF i = 0 THEN TakeStart ELSE Take(u[i - 1], l[i])
  <2> SUFFICES ASSUME NEW i \in 0 .. n, i # 0
               PROVE  u[i] = Take(u[i - 1], l[i])
    BY <1>5 DEF Carries
  <2>1. i \in 1 .. n /\ i - 1 \in 0 .. n
    BY <1>1
  <2>2. u[i - 1] \in V
    BY <2>1
  <2>q. QED
    BY <1>2, <1>5, <2>1, <2>2 DEF Carries
<1>q. QED
  BY <1>5, <1>6 DEF IsTaking, n

LEMMA KeyNames ==
  {"allow", "exclude", "servers", "extension", "config", "input", "startup"} \subseteq Keys
BY DEF Keys, Arrays, Scalars

\* The states of InteractivePlan's loop over l.
Takes(l, u) ==
  /\ u[0] = TakeStart /\ \A i \in 1 .. Len(l) : u[i] = Take(u[i - 1], l[i])
  /\ \A i \in 0 .. Len(l) : u[i] \in TakeStates

LEMMA Taking ==
  ASSUME NEW l \in Seq(Tokens)
  PROVE  \E u : Takes(l, u) /\ Taken(l) = u[Len(l)]
<1> DEFINE n == Len(l)
           u == CHOOSE w : IsTaking(l, w)
           S == {i \in 0 .. n : u[i] \in TakeStates}
<1>1. n \in Nat /\ n \in 0 .. n /\ \A i \in 1 .. n : l[i] \in Tokens
  BY LenProperties, ElementOfSeq
<1>2. IsTaking(l, u) /\ Taken(l) = u[n]
  BY TakingExists, TakenIs
<1> HIDE DEF u
<1>3. u[0] = TakeStart /\ \A i \in 1 .. n : u[i] = Take(u[i - 1], l[i])
  <2>1. 0 \in 0 .. n /\ \A i \in 1 .. n : i \in 0 .. n /\ i # 0
    BY <1>1
  <2>2. \A i \in 0 .. n : u[i] = IF i = 0 THEN TakeStart ELSE Take(u[i - 1], l[i])
    BY <1>2 DEF IsTaking
  <2>q. QED
    BY <2>1, <2>2
<1>4. 0 \in S
  BY <1>1, <1>3, TakeStartType
<1>5. ASSUME NEW i \in 0 + 1 .. n, i - 1 \in S PROVE i \in S
  <2>1. i \in 1 .. n /\ i \in 0 .. n
    BY <1>1
  <2>2. u[i] \in TakeStates
    BY <1>1, <1>3, <1>5, <2>1, TakeType
  <2>q. QED
    BY <2>1, <2>2
<1>6. \A i \in 0 .. n : i \in S
  <2> HIDE DEF S, n
  <2>1. 0 \in Nat
    OBVIOUS
  <2>q. QED
    BY <1>1, <1>4, <1>5, <2>1, Induct
<1>7. Takes(l, u)
  BY <1>3, <1>6 DEF Takes
<1>q. QED
  BY <1>2, <1>7

LEMMA TakenType ==
  ASSUME NEW l \in Seq(Tokens)
  PROVE  Taken(l) \in TakeStates
<1>1. Len(l) \in Nat /\ Len(l) \in 0 .. Len(l)
  BY LenProperties
<1>q. QED
  BY <1>1, Taking DEF Takes

\* What one token does to the loop, where the list is not refused.
LEMMA TakeFields ==
  ASSUME NEW s \in TakeStates, NEW t \in Tokens, NEW x, x = Take(s, t), ~x.refused
  PROVE  /\ ~s.refused
         /\ s.literal => x.literal /\ x.native = Append(s.native, t)
         /\ ~s.literal /\ s.wants # "none" =>
              t # Boundary /\ ~x.literal /\ x.wants = "none" /\ x.native = s.native
         /\ ~s.literal /\ s.wants = "none" /\ TakesOwn(t) =>
              /\ ~x.literal /\ x.native = s.native
              /\ t.kind = "option" => x.wants = t.key
              /\ t.kind = "attached" => x.wants = "none"
              /\ t.kind \in {"option", "attached"}
         /\ ~s.literal /\ s.wants = "none" /\ ~TakesOwn(t) =>
              /\ x.native = Append(s.native, t) /\ x.wants = "none"
              /\ x.literal <=> t = Boundary
<1>1. /\ s = [native |-> s.native, named |-> s.named, wants |-> s.wants,
              literal |-> s.literal, refused |-> s.refused]
      /\ s.literal \in BOOLEAN /\ s.refused \in BOOLEAN
  BY DEF TakeStates
<1>2. CASE s.refused \/ s.literal
  <2>1. x = [s EXCEPT !.native = Append(@, t)]
    BY <1>2 DEF Take
  <2>q. QED
    BY <1>1, <1>2, <2>1
<1>3. CASE ~(s.refused \/ s.literal) /\ s.wants # "none"
  <2>1. x = [s EXCEPT !.refused = t = Boundary \/ (s.wants = "name" /\ t = Word({})),
                      !.named = @ \/ s.wants = "name", !.wants = "none"]
    BY <1>3 DEF Take
  <2>q. QED
    BY <1>1, <1>3, <2>1
<1>4. CASE ~(s.refused \/ s.literal) /\ s.wants = "none" /\ TakesOwn(t)
  <2>1. t.kind \in {"option", "attached"}
    <3>1. t # Boundary /\ ~IsWord(t)
      BY <1>4, TokenKinds, KeyNames, NoneIsNoKey DEF TakesOwn, Boundary
    <3>q. QED
      BY <3>1, TokenKinds
  <2>2. CASE t.kind = "option"
    <3>1. x = [s EXCEPT !.wants = t.key]
      BY <1>4, <2>2 DEF Take
    <3>q. QED
      BY <1>1, <1>4, <2>2, <3>1
  <2>3. CASE t.kind = "attached"
    <3>1. x = [s EXCEPT !.refused = t.key = "name" /\ t.value = {}, !.named = @ \/ t.key = "name"]
      BY <1>4, <2>3 DEF Take
    <3>q. QED
      BY <1>1, <1>4, <2>3, <3>1
  <2>q. QED
    BY <2>1, <2>2, <2>3
<1>5. CASE ~(s.refused \/ s.literal) /\ s.wants = "none" /\ ~TakesOwn(t)
  <2>1. x = [s EXCEPT !.refused = IsOption(t, "prompt"), !.literal = t = Boundary,
                      !.native = Append(@, t)]
    BY <1>5 DEF Take
  <2>q. QED
    BY <1>1, <1>5, <2>1
<1>q. QED
  BY <1>2, <1>3, <1>4, <1>5

LEMMA ParsedAppend ==
  ASSUME NEW l \in Seq(Tokens), NEW t \in Tokens
  PROVE  Parsed(Append(l, t)) = Read(Parsed(l), t)
<1> DEFINE n == Len(l)
           m == Append(l, t)
<1>1. /\ n \in Nat /\ n \in 0 .. n /\ m \in Seq(Tokens) /\ Len(m) = n + 1
      /\ m[n + 1] = t /\ \A i \in 1 .. n : m[i] = l[i]
  BY LenProperties, AppendProperties
<1>2. PICK u : Parses(l, u) /\ Parsed(l) = u[n]
  BY Parsing
<1>3. PICK v : Parses(m, v) /\ Parsed(m) = v[Len(m)]
  BY <1>1, Parsing
<1> HIDE DEF m, n
<1>4. v[n] = u[n]
  <2>1. n \in 0 .. Len(l) /\ n <= Len(m)
    BY <1>1 DEF n
  <2>q. QED
    BY <1>1, <1>2, <1>3, <2>1, SameParse
<1>5. v[n + 1] = Read(v[n], m[n + 1])
  <2>1. n + 1 \in 1 .. Len(m) /\ (n + 1) - 1 = n
    BY <1>1
  <2>2. v[n + 1] = Read(v[(n + 1) - 1], m[n + 1])
    BY <1>3, <2>1 DEF Parses
  <2>q. QED
    BY <2>1, <2>2
<1>q. QED
  BY <1>1, <1>2, <1>3, <1>4, <1>5 DEF m, n

LEMMA ParsedEmpty == Parsed(<<>>) = ParseStart
<1>1. <<>> \in Seq(Tokens) /\ Len(<<>>) = 0
  OBVIOUS
<1>q. QED
  BY <1>1, Parsing DEF Parses

LEMMA ReadLiteral ==
  ASSUME NEW s \in ParserStates, NEW t \in Tokens
  PROVE  Read(s, t).literal <=> s.literal \/ t = Boundary
<1>1. CASE s.literal
  BY <1>1, ReadFields DEF ReadsLiteral
<1>2. CASE ~s.literal /\ t = Boundary
  BY <1>2, ReadFields DEF ReadsBoundary
<1>3. CASE ~s.literal /\ IsWord(t) /\ s.open = "none"
  BY <1>3, ReadFields, TokenKinds DEF ReadsPositional
<1>4. CASE ~s.literal /\ IsWord(t) /\ s.open # "none"
  BY <1>4, ReadFields, TokenKinds DEF ReadsValue
<1>5. CASE ~s.literal /\ IsSetting(t)
  BY <1>5, ReadFields, TokenKinds DEF ReadsSetting
<1>q. QED
  BY <1>1, <1>2, <1>3, <1>4, <1>5, ReadCases

\* Native sees none of the wrapper's own options: the loop's boundary is the parser's, and
\* what it appends before it is no such option.
Without(w) ==
  LET x == Parsed(w.native) IN
  /\ x.literal <=> w.literal
  /\ \A k \in OwnKeys : x.count[k] = 0

LEMMA WithoutStep ==
  ASSUME NEW s \in TakeStates, NEW t \in Tokens, NEW w, w = Take(s, t), ~w.refused, Without(s)
  PROVE  Without(w)
<1> DEFINE x == Parsed(s.native)
           z == Parsed(w.native)
<1>1. /\ x \in ParserStates /\ s.native \in Seq(Tokens) /\ s.literal \in BOOLEAN
      /\ (x.literal <=> s.literal) /\ \A k \in OwnKeys : x.count[k] = 0
  BY ParsedType DEF TakeStates, Without
<1>2. w.native = Append(s.native, t) => z = Read(x, t)
  BY <1>1, ParsedAppend
<1>3. OwnKeys \subseteq Keys
  BY DEF OwnKeys, Keys, Scalars
<1> HIDE DEF x, z
<1>4. CASE s.literal
  <2>1. w.literal /\ z = Read(x, t)
    BY <1>2, <1>4, TakeFields
  <2>2. z.literal
    BY <1>1, <1>4, <2>1, ReadLiteral
  <2>3. \A k \in OwnKeys : z.count[k] = 0
    BY <1>1, <1>3, <1>4, <2>1, KeyStep
  <2>q. QED
    BY <2>1, <2>2, <2>3 DEF Without, z
<1>5. CASE ~s.literal /\ (s.wants # "none" \/ TakesOwn(t))
  <2>1. ~w.literal /\ w.native = s.native
    BY <1>5, TakeFields
  <2>q. QED
    BY <1>1, <1>5, <2>1 DEF Without, x
<1>6. CASE ~s.literal /\ s.wants = "none" /\ ~TakesOwn(t)
  <2>1. (w.literal <=> t = Boundary) /\ z = Read(x, t)
    BY <1>2, <1>6, TakeFields
  <2>2. z.literal <=> t = Boundary
    BY <1>1, <1>6, <2>1, ReadLiteral
  <2>3. \A k \in OwnKeys : ~IsOption(t, k)
    BY <1>6 DEF TakesOwn, IsOption, OwnKeys
  <2>4. ASSUME NEW k \in OwnKeys PROVE z.count[k] = 0
    <3>1. z.count[k] = x.count[k] \/ z.count[k] = x.count[k] + 0
      BY <1>1, <1>3, <1>6, <2>1, <2>3, KeyStep
    <3>q. QED
      BY <1>1, <3>1
  <2>q. QED
    BY <2>1, <2>2, <2>4 DEF Without, z
<1>q. QED
  BY <1>1, <1>4, <1>5, <1>6

LEMMA OwnGone ==
  ASSUME NEW l \in Seq(Tokens), ~Taken(l).refused
  PROVE  Without(Taken(l))
<1> DEFINE n == Len(l)
<1>1. n \in Nat /\ n \in 0 .. n /\ \A i \in 1 .. n : l[i] \in Tokens
  BY LenProperties, ElementOfSeq
<1>2. PICK u : Takes(l, u) /\ Taken(l) = u[n]
  BY Taking
<1> DEFINE S == {i \in 0 .. n : u[i].refused \/ Without(u[i])}
<1>3. 0 \in S
  <2>1. Parsed(TakeStart.native) = ParseStart /\ ~TakeStart.literal
    BY ParsedEmpty DEF TakeStart
  <2>2. OwnKeys \subseteq Keys
    BY DEF OwnKeys, Keys, Scalars
  <2>3. Without(TakeStart)
    BY <2>1, <2>2 DEF Without, ParseStart
  <2>q. QED
    BY <1>1, <1>2, <2>3 DEF Takes
<1>4. ASSUME NEW i \in 0 + 1 .. n, i - 1 \in S PROVE i \in S
  <2>1. i \in 1 .. n /\ i \in 0 .. n /\ i - 1 \in 0 .. n
    BY <1>1
  <2>2. u[i] = Take(u[i - 1], l[i]) /\ u[i - 1] \in TakeStates /\ l[i] \in Tokens
    BY <1>1, <1>2, <2>1 DEF Takes
  <2>3. ~u[i].refused => ~u[i - 1].refused
    BY <2>2, TakeFields
  <2>4. ~u[i].refused => Without(u[i])
    BY <1>4, <2>2, <2>3, WithoutStep
  <2>q. QED
    BY <2>1, <2>4
<1>5. \A i \in 0 .. n : i \in S
  <2> HIDE DEF S, n
  <2>1. 0 \in Nat
    OBVIOUS
  <2>q. QED
    BY <1>1, <1>3, <1>4, <2>1, Induct
<1>q. QED
  BY <1>1, <1>2, <1>5

\* The two parses tell the same of native's options and of the positionals.
Agree(x, y) ==
  /\ x.positional = y.positional
  /\ \A k \in Keys \ OwnKeys : x.values[k] = y.values[k] /\ x.count[k] = y.count[k]

\* A token read by both keeps that, unless it is a word and they do not leave the same open.
LEMMA AgreeStep ==
  ASSUME NEW x \in ParserStates, NEW y \in ParserStates, NEW t \in Tokens,
         Agree(x, y), x.literal <=> y.literal, ~x.literal /\ IsWord(t) => x.open = y.open
  PROVE  /\ Agree(Read(x, t), Read(y, t))
         /\ ~x.literal => Read(x, t).open = Read(y, t).open
<1> DEFINE a == Read(x, t)
           b == Read(y, t)
<1>1. /\ x.values \in [Keys -> SUBSET Parts] /\ y.values \in [Keys -> SUBSET Parts]
      /\ x.count \in [Keys -> Nat] /\ y.count \in [Keys -> Nat]
  BY DEF ParserStates
<1>2. CASE x.literal
  <2>1. ReadsLiteral(x, t, a) /\ ReadsLiteral(y, t, b)
    BY <1>2, ReadFields
  <2>q. QED
    BY <1>2, <2>1 DEF ReadsLiteral, Agree
<1>3. CASE ~x.literal /\ t = Boundary
  <2>1. ReadsBoundary(x, t, a) /\ ReadsBoundary(y, t, b)
    BY <1>3, ReadFields
  <2>q. QED
    BY <1>3, <2>1 DEF ReadsBoundary, Agree
<1>4. CASE ~x.literal /\ IsWord(t) /\ x.open = "none"
  <2>1. ReadsPositional(x, t, a) /\ ReadsPositional(y, t, b)
    BY <1>4, ReadFields
  <2>q. QED
    BY <1>4, <2>1 DEF ReadsPositional, Agree
<1>5. CASE ~x.literal /\ IsWord(t) /\ x.open # "none" /\ x.open \in Keys
  <2>1. ReadsValue(x, t, a) /\ ReadsValue(y, t, b) /\ x.open = y.open
    BY <1>5, ReadFields
  <2>2. a.positional = b.positional /\ a.open = b.open /\ a.count = x.count /\ b.count = y.count
    BY <2>1 DEF ReadsValue, Agree
  <2>3. /\ a.values = [x.values EXCEPT ![x.open] = @ \cup t.value]
        /\ b.values = [y.values EXCEPT ![x.open] = @ \cup t.value]
    BY <2>1 DEF ReadsValue
  <2> HIDE DEF a, b
  <2>4. \A k \in Keys \ OwnKeys : a.values[k] = b.values[k]
    <3> SUFFICES ASSUME NEW k \in Keys, k \notin OwnKeys PROVE a.values[k] = b.values[k]
      OBVIOUS
    <3>1. a.values[k] = x.values[k] \cup (IF k = x.open THEN t.value ELSE {})
      BY <1>1, <2>3
    <3>2. b.values[k] = y.values[k] \cup (IF k = x.open THEN t.value ELSE {})
      BY <1>1, <2>3
    <3>3. x.values[k] = y.values[k]
      BY DEF Agree
    <3>q. QED
      BY <3>1, <3>2, <3>3, Zenon
  <2>5. \A k \in Keys \ OwnKeys : a.count[k] = b.count[k]
    BY <2>2 DEF Agree
  <2>q. QED
    BY <2>2, <2>4, <2>5 DEF Agree, a, b
<1>6. CASE ~x.literal /\ IsSetting(t)
  <2>1. ReadsSetting(x, t, a) /\ ReadsSetting(y, t, b) /\ t.key \in Keys
    BY <1>6, ReadFields DEF IsSetting
  <2>2. a.positional = b.positional /\ a.open = b.open
    BY <2>1 DEF ReadsSetting, Agree
  <2>3. /\ a.values = [x.values EXCEPT ![t.key] = @ \cup t.value]
        /\ b.values = [y.values EXCEPT ![t.key] = @ \cup t.value]
        /\ a.count = [x.count EXCEPT ![t.key] = @ + 1]
        /\ b.count = [y.count EXCEPT ![t.key] = @ + 1]
    BY <2>1 DEF ReadsSetting
  <2> HIDE DEF a, b
  <2>4. \A k \in Keys \ OwnKeys : a.values[k] = b.values[k]
    <3> SUFFICES ASSUME NEW k \in Keys, k \notin OwnKeys PROVE a.values[k] = b.values[k]
      OBVIOUS
    <3>1. a.values[k] = x.values[k] \cup (IF k = t.key THEN t.value ELSE {})
      BY <1>1, <2>3
    <3>2. b.values[k] = y.values[k] \cup (IF k = t.key THEN t.value ELSE {})
      BY <1>1, <2>3
    <3>3. x.values[k] = y.values[k]
      BY DEF Agree
    <3>q. QED
      BY <3>1, <3>2, <3>3, Zenon
  <2>5. \A k \in Keys \ OwnKeys : a.count[k] = b.count[k]
    BY <1>1, <2>1, <2>3 DEF Agree
  <2>q. QED
    BY <2>2, <2>4, <2>5 DEF Agree, a, b
<1>q. QED
  BY <1>2, <1>3, <1>4, <1>5, <1>6, ReadCases

\* How what the loop's list leaves open goes with what the caller's leaves open after i: the
\* same, or nothing and no word follows, or an own option waits for its value.
Linked(l, i, w, x, y) ==
  \/ w.wants = "none" /\ x.open = y.open
  \/ w.wants = "none" /\ y.open = "none" /\ (i = Len(l) \/ ~IsWord(l[i + 1]))
  \/ /\ w.wants \in OwnKeys /\ y.open = w.wants /\ i < Len(l) /\ IsWord(l[i + 1])
     /\ x.open = "none" \/ i + 1 = Len(l) \/ ~IsWord(l[i + 2])

Leading(l, i) == \A j \in 1 .. i : IsWord(l[j]) \/ TakesOwn(l[j])

Joined(l, i, w, y) ==
  LET x == Parsed(w.native) IN
  /\ Agree(x, y) /\ (x.literal <=> y.literal) /\ (w.literal <=> y.literal)
  /\ ~y.literal => Linked(l, i, w, x, y)
  /\ Leading(l, i) => x.open = "none"

\* An own option stands before the boundary, so that Apart tells what is around it.
LEMMA ApartAt ==
  ASSUME NEW l \in Seq(Tokens), Apart(l), NEW i \in 1 .. Len(l), ~(i - 1 >= End(l)), TakesOwn(l[i])
  PROVE  /\ l[i].kind = "option" =>
              /\ i < Len(l) /\ IsWord(l[i + 1])
              /\ i + 1 = Len(l) \/ ~IsWord(l[i + 2]) \/ Leading(l, i - 1)
         /\ l[i].kind = "attached" => i = Len(l) \/ ~IsWord(l[i + 1]) \/ Leading(l, i - 1)
<1>1. /\ End(l) \in 1 .. Len(l) + 1 /\ Len(l) \in Nat /\ i \in Nat
      /\ End(l) = Len(l) + 1 \/ l[End(l)] = Boundary
  BY EndProperties
<1>2. l[i] # Boundary
  BY DEF TakesOwn, Boundary
<1>3. i \in 1 .. End(l) - 1
  BY <1>1, <1>2
<1>4. LET next == IF l[i].kind = "option" THEN i + 2 ELSE i + 1 IN
      /\ l[i].kind = "option" => i < Len(l) /\ IsWord(l[i + 1])
      /\ \/ next > Len(l) \/ ~IsWord(l[next])
         \/ \A j \in 1 .. i - 1 : IsWord(l[j]) \/ TakesOwn(l[j])
  BY <1>3 DEF Apart
<1>5. CASE l[i].kind = "option"
  <2>1. /\ i < Len(l) /\ IsWord(l[i + 1])
        /\ i + 2 > Len(l) \/ ~IsWord(l[i + 2]) \/ Leading(l, i - 1)
    BY <1>4, <1>5 DEF Leading
  <2>q. QED
    BY <1>1, <1>5, <2>1
<1>6. CASE l[i].kind = "attached"
  <2>1. i + 1 > Len(l) \/ ~IsWord(l[i + 1]) \/ Leading(l, i - 1)
    BY <1>4, <1>6 DEF Leading
  <2>q. QED
    BY <1>1, <1>6, <2>1
<1>q. QED
  BY <1>5, <1>6

LEMMA JoinedStep ==
  ASSUME NEW l \in Seq(Tokens), Apart(l), NEW i \in 1 .. Len(l),
         NEW s \in TakeStates, NEW w, w = Take(s, l[i]), ~w.refused,
         NEW y \in ParserStates, NEW z, z = Read(y, l[i]), y.literal <=> i - 1 >= End(l),
         Joined(l, i - 1, s, y)
  PROVE  Joined(l, i, w, z)
<1> DEFINE t == l[i]
           x == Parsed(s.native)
           a == Parsed(w.native)
           n == Len(l)
<1>1. t \in Tokens /\ n \in Nat /\ i \in Nat /\ (i - 1) + 1 = i /\ (i - 1) + 2 = i + 1 /\ i - 1 # n
  BY LenProperties, ElementOfSeq
<1>2. /\ Agree(x, y) /\ (x.literal <=> y.literal) /\ (s.literal <=> y.literal)
      /\ ~y.literal => Linked(l, i - 1, s, x, y)
      /\ Leading(l, i - 1) => x.open = "none"
  BY DEF Joined
<1>3. x \in ParserStates /\ s.native \in Seq(Tokens)
  BY ParsedType DEF TakeStates
<1>4. w.native = Append(s.native, t) => a = Read(x, t)
  BY <1>1, <1>3, ParsedAppend
<1>5. Leading(l, i) => Leading(l, i - 1) /\ (IsWord(t) \/ TakesOwn(t))
  BY <1>1 DEF Leading
<1>6. z \in ParserStates /\ (z.literal <=> y.literal \/ t = Boundary)
  BY <1>1, ReadType, ReadLiteral
<1>7. TakesOwn(t) => t.key \in OwnKeys /\ IsSetting(t) /\ t # Boundary /\ ~IsWord(t)
  <2>1. OwnKeys \subseteq Keys
    BY DEF OwnKeys, Keys, Scalars
  <2>q. QED
    BY <2>1 DEF TakesOwn, OwnKeys, IsSetting, Boundary
<1>8. OwnKeys \subseteq Keys /\ OwnKeys \subseteq Scalars /\ "none" \notin OwnKeys /\ OwnKeys \cap Arrays = {}
  BY DEF OwnKeys, Keys, Scalars, Arrays
<1> HIDE DEF t, x, a, n
<1>10. CASE y.literal
  <2>1. w.literal /\ a = Read(x, t)
    BY <1>1, <1>2, <1>4, <1>10, TakeFields DEF t
  <2>2. Agree(a, z) /\ a.literal /\ z.literal
    BY <1>1, <1>2, <1>3, <1>6, <1>10, <2>1, AgreeStep, ReadLiteral DEF t
  <2>3. a.open = x.open
    BY <1>1, <1>2, <1>3, <1>10, <2>1, ReadFields DEF ReadsLiteral
  <2>q. QED
    BY <1>2, <1>5, <2>1, <2>2, <2>3 DEF Joined, a
<1>11. CASE ~y.literal /\ s.wants # "none"
  <2>1. t # Boundary /\ ~w.literal /\ w.wants = "none" /\ a = x
    BY <1>1, <1>2, <1>11, TakeFields DEF t, a, x
  <2>2. /\ s.wants \in OwnKeys /\ y.open = s.wants /\ IsWord(t)
        /\ x.open = "none" \/ i = n \/ ~IsWord(l[i + 1])
    BY <1>1, <1>2, <1>11 DEF Linked, t, n
  <2>3. ReadsValue(y, t, z)
    BY <1>1, <1>8, <1>11, <2>2, ReadFields DEF t
  <2>4. /\ ~z.literal /\ z.open = "none" /\ z.positional = y.positional /\ z.count = y.count
        /\ z.values = [y.values EXCEPT ![y.open] = @ \cup t.value]
    BY <1>8, <2>2, <2>3 DEF ReadsValue
  <2>5. \A k \in Keys \ OwnKeys : z.values[k] = y.values[k]
    BY <2>2, <2>4 DEF ParserStates
  <2>6. Agree(a, z)
    BY <1>2, <2>1, <2>4, <2>5 DEF Agree
  <2>7. Linked(l, i, w, a, z)
    BY <2>1, <2>2, <2>4 DEF Linked, n
  <2>q. QED
    BY <1>2, <1>5, <1>11, <2>1, <2>4, <2>6, <2>7 DEF Joined, a
<1>12. CASE ~y.literal /\ s.wants = "none" /\ TakesOwn(t)
  <2>1. /\ ~w.literal /\ a = x /\ t.kind \in {"option", "attached"}
        /\ t.kind = "option" => w.wants = t.key
        /\ t.kind = "attached" => w.wants = "none"
    BY <1>1, <1>2, <1>12, TakeFields DEF t, a, x
  <2>2. ReadsSetting(y, t, z)
    BY <1>1, <1>7, <1>12, ReadFields DEF t
  <2>3. /\ ~z.literal /\ z.open = Opened(t) /\ z.positional = y.positional
        /\ z.values = [y.values EXCEPT ![t.key] = @ \cup t.value]
        /\ z.count = [y.count EXCEPT ![t.key] = @ + 1]
    BY <2>2 DEF ReadsSetting
  <2>4. \A k \in Keys \ OwnKeys : z.values[k] = y.values[k] /\ z.count[k] = y.count[k]
    <3>1. y.values \in [Keys -> SUBSET Parts] /\ y.count \in [Keys -> Nat]
      BY DEF ParserStates
    <3>2. \A k \in Keys : k # t.key => z.values[k] = y.values[k] /\ z.count[k] = y.count[k]
      BY <2>3, <3>1
    <3>3. \A k \in Keys \ OwnKeys : k \in Keys /\ k # t.key
      BY <1>7, <1>12
    <3>q. QED
      BY <3>2, <3>3, Zenon
  <2>5. Agree(a, z)
    BY <1>2, <2>1, <2>3, <2>4, Zenon DEF Agree
  <2>6. /\ t.kind = "option" =>
             /\ i < n /\ IsWord(l[i + 1])
             /\ i + 1 = n \/ ~IsWord(l[i + 2]) \/ Leading(l, i - 1)
        /\ t.kind = "attached" => i = n \/ ~IsWord(l[i + 1]) \/ Leading(l, i - 1)
    BY <1>12, ApartAt DEF t, n
  <2>7. CASE t.kind = "option"
    <3>1. z.open = t.key
      BY <1>7, <1>8, <1>12, <2>3, <2>7 DEF Opened
    <3>2. x.open = "none" \/ i + 1 = n \/ ~IsWord(l[i + 2])
      BY <1>2, <2>6, <2>7
    <3>3. Linked(l, i, w, a, z)
      BY <1>7, <1>12, <2>1, <2>6, <2>7, <3>1, <3>2 DEF Linked, n
    <3>q. QED
      BY <1>2, <1>5, <1>12, <2>1, <2>3, <2>5, <3>3 DEF Joined, a
  <2>8. CASE t.kind = "attached"
    <3>1. z.open = "none"
      BY <1>7, <1>8, <1>12, <2>3, <2>8 DEF Opened
    <3>2. x.open = "none" \/ i = n \/ ~IsWord(l[i + 1])
      BY <1>2, <2>6, <2>8
    <3>3. Linked(l, i, w, a, z)
      BY <2>1, <2>8, <3>1, <3>2 DEF Linked, n
    <3>q. QED
      BY <1>2, <1>5, <1>12, <2>1, <2>3, <2>5, <3>3 DEF Joined, a
  <2>q. QED
    BY <2>1, <2>7, <2>8
<1>13. CASE ~y.literal /\ s.wants = "none" /\ ~TakesOwn(t)
  <2>1. a = Read(x, t) /\ w.wants = "none" /\ (w.literal <=> t = Boundary)
    BY <1>1, <1>2, <1>4, <1>13, TakeFields DEF t
  <2>2. IsWord(t) => x.open = y.open
    BY <1>1, <1>2, <1>8, <1>13 DEF Linked, t, n
  <2>3. Agree(a, z) /\ a.open = z.open
    BY <1>1, <1>2, <1>3, <1>13, <2>1, <2>2, AgreeStep DEF t
  <2>4. (a.literal <=> t = Boundary) /\ (z.literal <=> t = Boundary)
    BY <1>1, <1>2, <1>3, <1>6, <1>13, <2>1, ReadLiteral
  <2>5. Linked(l, i, w, a, z)
    BY <2>1, <2>3 DEF Linked
  <2>6. Leading(l, i) => a.open = "none"
    <3> SUFFICES ASSUME Leading(l, i) PROVE a.open = "none"
      OBVIOUS
    <3>1. IsWord(t) /\ x.open = "none"
      BY <1>2, <1>5, <1>13
    <3>2. ReadsPositional(x, t, a)
      BY <1>1, <1>2, <1>3, <1>13, <2>1, <3>1, ReadFields
    <3>q. QED
      BY <3>2 DEF ReadsPositional
  <2>q. QED
    BY <2>1, <2>3, <2>4, <2>5, <2>6 DEF Joined, a
<1>q. QED
  BY <1>10, <1>11, <1>12, <1>13

\* Apart from native's options, the own ones leave the list without a trace in the others.
LEMMA ApartKeeps ==
  ASSUME NEW l \in Seq(Tokens), Apart(l), ~Taken(l).refused
  PROVE  Agree(Parsed(Taken(l).native), Parsed(l))
<1> DEFINE n == Len(l)
<1>1. n \in Nat /\ n \in 0 .. n /\ \A i \in 1 .. n : l[i] \in Tokens
  BY LenProperties, ElementOfSeq
<1>2. PICK u : Takes(l, u) /\ Taken(l) = u[n]
  BY Taking
<1>3. PICK v : Parses(l, v) /\ Parsed(l) = v[n]
  BY Parsing
<1> DEFINE S == {i \in 0 .. n : u[i].refused \/ Joined(l, i, u[i], v[i])}
<1>4. 0 \in S
  <2>1. u[0] = TakeStart /\ v[0] = ParseStart
    BY <1>2, <1>3 DEF Takes, Parses
  <2>2. Parsed(TakeStart.native) = ParseStart /\ ~TakeStart.literal /\ TakeStart.wants = "none"
    BY ParsedEmpty DEF TakeStart
  <2>3. ~ParseStart.literal /\ ParseStart.open = "none"
    BY DEF ParseStart
  <2>4. Joined(l, 0, TakeStart, ParseStart)
    BY <2>2, <2>3 DEF Joined, Agree, Linked
  <2>q. QED
    BY <1>1, <2>1, <2>4
<1>5. ASSUME NEW i \in 0 + 1 .. n, i - 1 \in S PROVE i \in S
  <2>1. i \in 1 .. n /\ i \in 0 .. n /\ i - 1 \in 0 .. n
    BY <1>1
  <2>2. u[i] = Take(u[i - 1], l[i]) /\ u[i - 1] \in TakeStates /\ l[i] \in Tokens
    BY <1>1, <1>2, <2>1 DEF Takes
  <2>3. v[i] = Read(v[i - 1], l[i]) /\ v[i - 1] \in ParserStates
    BY <1>3, <2>1, ParseStep
  <2>4. v[i - 1].literal <=> i - 1 >= End(l)
    BY <1>3, <2>1, LiteralFromEnd
  <2>5. ~u[i].refused => ~u[i - 1].refused
    BY <2>2, TakeFields
  <2>6. ~u[i].refused => Joined(l, i, u[i], v[i])
    BY <1>5, <2>1, <2>2, <2>3, <2>4, <2>5, JoinedStep
  <2>q. QED
    BY <2>1, <2>6
<1>6. \A i \in 0 .. n : i \in S
  <2> HIDE DEF S, n
  <2>1. 0 \in Nat
    OBVIOUS
  <2>q. QED
    BY <1>1, <1>4, <1>5, <2>1, Induct
<1>7. Joined(l, n, u[n], v[n])
  BY <1>1, <1>2, <1>6
<1>q. QED
  BY <1>2, <1>3, <1>7 DEF Joined

-----------------------------------------------------------------------------
(* The tool survives and the caller keeps what it passed                     *)

\* The caller's list without the wrapper's own options.
CallerList == Taken(call.args).native

\* What a plan holds: the caller's list with the rename and the grant before its boundary,
\* where the caller neither lost the tool nor asked for another startup.
PlanInv ==
  /\ call \in Calls /\ named \in BOOLEAN
  /\ stage = "given" => ~named
  /\ stage = "planned" =>
       /\ call.mode = "interactive"
       /\ ~Taken(call.args).refused
       /\ ValidManaged(CallerList) /\ (named => ~HasStartup(CallerList))
       /\ native = Granted(IF named THEN InsertBeforeBoundary(CallerList, Rename) ELSE CallerList)

LEMMA PlanInit ==
  ASSUME Init
  PROVE  PlanInv
BY DEF Init, PlanInv

LEMMA PlanStep ==
  ASSUME PlanInv, [Next]_vars
  PROVE  PlanInv'
<1>0. CASE UNCHANGED vars
  BY <1>0 DEF vars, PlanInv, CallerList
<1>a. /\ call \in Calls /\ named \in BOOLEAN /\ (stage = "given" => ~named)
      /\ call.args \in Seq(Tokens)
  BY CallerTokens DEF PlanInv
<1>1. CASE InteractivePlan
  <2> DEFINE T == Taken(call.args)
  <2>1. call' = call /\ stage = "given" /\ call.mode = "interactive"
    BY <1>1 DEF InteractivePlan
  <2>2. T.named \in BOOLEAN
    BY <1>a, TakenType DEF TakeStates
  <2>3. CASE stage' \in {"plain", "refused"} /\ named' = named
    BY <1>a, <2>1, <2>3 DEF PlanInv
  <2>4. CASE /\ ~T.refused /\ ValidManaged(T.native) /\ ~(T.named /\ HasStartup(T.native))
             /\ stage' = "planned" /\ named' = T.named /\ native' = Granted(Renamed(T.native))
    <3>1. native' = Granted(IF named' THEN InsertBeforeBoundary(T.native, Rename) ELSE T.native)
      BY <2>4 DEF Renamed
    <3> HIDE DEF T
    <3>2. CallerList' = T.native /\ Taken(call.args)' = T
      BY <2>1 DEF CallerList, T
    <3>q. QED
      BY <1>a, <2>1, <2>2, <2>4, <3>1, <3>2 DEF PlanInv
  <2>q. QED
    BY <1>1, <2>3, <2>4 DEF InteractivePlan, Refuse
<1>2. CASE Launch
  <2>1. call' = call /\ named' = named /\ stage' \in {"exec", "refused"}
    BY <1>2 DEF Launch
  <2>q. QED
    BY <1>a, <2>1 DEF PlanInv
<1>3. CASE OpenLane
  <2>1. call' = call /\ named' = named /\ stage' \in {"exec", "refused"}
    BY <1>3 DEF OpenLane, Refuse
  <2>q. QED
    BY <1>a, <2>1 DEF PlanInv
<1>q. QED
  BY <1>0, <1>1, <1>2, <1>3 DEF Next

\* A managed server that passed ValidManaged is within native's reading of the bound, and
\* its tool outside native's reading of the exclusions.
LEMMA ValidReads ==
  ASSUME NEW l \in Seq(Tokens), ValidManaged(l)
  PROVE  /\ "tool" \notin Parsed(l).values["exclude"]
         /\ Parsed(l).count["servers"] > 0 => "server" \in Parsed(l).values["servers"]
<1>1. /\ "exclude" \in Arrays /\ "servers" \in Arrays /\ "servers" \in Keys
  BY DEF Keys, Arrays
<1>2. /\ Parsed(l).values["exclude"] = Collected(l, "exclude")
      /\ Parsed(l).values["servers"] = Collected(l, "servers")
  BY <1>1, CollectsWhatNativeReads
<1>3. (\A i \in 1 .. End(l) - 1 : ~IsOption(l[i], "servers")) => Parsed(l).count["servers"] = 0
  BY <1>1, NoOption
<1>4. ~(0 > 0)
  OBVIOUS
<1>q. QED
  BY <1>2, <1>3, <1>4 DEF ValidManaged

\* What both properties say once native runs.
Survives(p) ==
  /\ "tool" \in p.values["allow"] /\ "tool" \notin p.values["exclude"]
  /\ p.count["servers"] > 0 => "server" \in p.values["servers"]
  /\ p.count["config"] = 1 /\ "managed" \in p.values["config"]

\* Every other key, each as in q: the wrapper's own options are among them.
Keeps(p, q, input, startup) ==
  /\ p.positional = q.positional
  /\ \A k \in Keys \ {"allow", "config", "input", "startup"} :
       p.values[k] = q.values[k] /\ p.count[k] = q.count[k]
  /\ p.values["allow"] = q.values["allow"] \cup {"tool"}
  /\ p.values["config"] = q.values["config"] \cup {"managed"}
  /\ p.values["input"] = input /\ p.values["startup"] = startup

LEMMA LaunchStep ==
  ASSUME PlanInv, Launch, stage' = "exec",
         NEW p, p = Parsed(native'), NEW q, q = Parsed(CallerList)
  PROVE  /\ Survives(p) /\ call.environment = {} /\ ~BareArgument(native')
         /\ ~Taken(call.args).refused
         /\ Keeps(p, q, {"launch"}, IF named THEN {"rename"} ELSE q.values["startup"])
         /\ named => p.count["startup"] = 1
         /\ call.mode = "interactive"
<1> DEFINE l == CallerList
           o == Parsed(native)
<1>1. /\ l \in Seq(Tokens) /\ named \in BOOLEAN /\ call.mode = "interactive"
      /\ ~Taken(call.args).refused
      /\ ValidManaged(l) /\ (named => ~HasStartup(l))
      /\ native = Granted(IF named THEN InsertBeforeBoundary(l, Rename) ELSE l)
  <2>1. stage = "planned" /\ call \in Calls
    BY DEF Launch, PlanInv
  <2>2. l \in Seq(Tokens)
    BY <2>1, CallerTokens, TakenType DEF CallerList, TakeStates
  <2>q. QED
    BY <2>1, <2>2 DEF PlanInv
<1>2. Integrated(native) /\ Composable(native) /\ native' = WithInput(Composed(native))
  BY DEF Launch
<1> HIDE DEF l, o
<1>3. /\ native \in Seq(Tokens)
      /\ o.positional = q.positional
      /\ o.values["allow"] = q.values["allow"] \cup {"tool"}
      /\ o.values["startup"] = (IF named THEN {"rename"} ELSE q.values["startup"])
      /\ named => o.count["startup"] = 1
      /\ \A k \in Keys \ {"allow", "startup"} :
           o.values[k] = q.values[k] /\ o.count[k] = q.count[k]
  <2> DEFINE z == IF named THEN InsertBeforeBoundary(l, Rename) ELSE l
  <2>1. named \in BOOLEAN /\ (named => ~HasStartup(l)) /\ l \in Seq(Tokens) /\ native = Granted(z)
    BY <1>1
  <2>2. q = Parsed(l)
    BY DEF l
  <2> HIDE DEF z
  <2>3. z = (IF named THEN InsertBeforeBoundary(l, Rename) ELSE l)
    BY DEF z
  <2>4. Plans(l, named, native)
    BY <2>1, <2>3, Planned
  <2>q. QED
    BY <2>2, <2>4 DEF o, Plans
<1>4. /\ ~BareArgument(native')
      /\ p.positional = o.positional
      /\ p.values["config"] = o.values["config"] \cup {"managed"}
      /\ p.count["config"] = 1 /\ p.values["input"] = {"launch"}
      /\ \A k \in Keys \ {"config", "input"} :
           p.values[k] = o.values[k] /\ p.count[k] = o.count[k]
  BY <1>2, <1>3, Launched DEF o
<1>5. Keeps(p, q, {"launch"}, IF named THEN {"rename"} ELSE q.values["startup"])
  BY <1>3, <1>4, KeyNames DEF Keeps
<1>6. /\ "tool" \notin q.values["exclude"]
      /\ q.count["servers"] > 0 => "server" \in q.values["servers"]
  BY <1>1, ValidReads DEF l
<1>7. Survives(p)
  <2>1. /\ p.values["exclude"] = q.values["exclude"]
        /\ p.values["servers"] = q.values["servers"] /\ p.count["servers"] = q.count["servers"]
        /\ "tool" \in p.values["allow"] /\ "managed" \in p.values["config"]
    BY <1>5, KeyNames DEF Keeps
  <2>q. QED
    BY <1>4, <1>6, <2>1 DEF Survives
<1>8. named => p.count["startup"] = 1
  BY <1>3, <1>4, KeyNames
<1>q. QED
  BY <1>1, <1>2, <1>4, <1>5, <1>7, <1>8 DEF Integrated

LEMMA LaneStep ==
  ASSUME PlanInv, OpenLane, stage' = "exec",
         NEW p, p = Parsed(native'), NEW q, q = Parsed(call.args)
  PROVE  /\ Survives(p) /\ call.mode = "lane" /\ ~named /\ ~named'
         /\ Keeps(p, q, {}, q.values["startup"])
         /\ "bare" \in call.environment \/ BareArgument(native') =>
              "server" \notin p.values["extension"]
         /\ p.count["safe"] = 0 /\ \A k \in OwnKeys : q.count[k] = 0
<1> DEFINE l == call.args
<1>1. /\ l \in Seq(Tokens) /\ ~named /\ call.mode = "lane"
  BY CallerTokens DEF PlanInv, OpenLane
<1>2. /\ HostAccepts(l) /\ ValidManaged(l) /\ ~BareExtension(l) /\ named' = named
      /\ native' = l \o Grant \o <<Option("config"), Word({"managed"})>>
  BY DEF OpenLane, Refuse
<1> HIDE DEF l
<1>3. /\ BareArgument(native') => BareArgument(l)
      /\ p.positional = q.positional
      /\ p.values["allow"] = q.values["allow"] \cup {"tool"}
      /\ p.values["config"] = q.values["config"] \cup {"managed"}
      /\ p.count["config"] = 1 /\ p.values["input"] = {}
      /\ \A k \in Keys \ {"config", "allow"} :
           p.values[k] = q.values[k] /\ p.count[k] = q.count[k]
  <2>1. l \in Seq(Tokens) /\ HostAccepts(l) /\ q = Parsed(l)
    BY <1>1, <1>2 DEF l
  <2>2. Opens(l, native')
    BY <1>2, <2>1, LaneOpened
  <2>q. QED
    BY <2>1, <2>2 DEF Opens
<1>4. /\ "tool" \notin q.values["exclude"]
      /\ q.count["servers"] > 0 => "server" \in q.values["servers"]
  BY <1>1, <1>2, ValidReads DEF l
<1>5. Keeps(p, q, {}, q.values["startup"])
  BY <1>3, KeyNames DEF Keeps
<1>6. Survives(p)
  <2>1. /\ p.values["exclude"] = q.values["exclude"]
        /\ p.values["servers"] = q.values["servers"] /\ p.count["servers"] = q.count["servers"]
        /\ "tool" \in p.values["allow"] /\ "managed" \in p.values["config"]
    BY <1>5, KeyNames DEF Keeps
  <2>q. QED
    BY <1>3, <1>4, <2>1 DEF Survives
<1>7. ASSUME "bare" \in call.environment \/ BareArgument(native') PROVE "server" \notin p.values["extension"]
  <2>1. p.values["extension"] = q.values["extension"]
    BY <1>3, KeyNames
  <2>2. q.values["extension"] = Collected(l, "extension")
    <3>1. "extension" \in Arrays
      BY DEF Arrays
    <3>q. QED
      BY <1>1, <3>1, CollectsWhatNativeReads DEF l
  <2>3. \/ "bare" \in call.environment
        \/ \E i \in 1 .. End(l) - 1 : l[i] \in {Option("bare"), Attached("bare", {"true"})}
    <3>1. Len(l) \in Nat /\ (End(l) = Len(l) + 1)
      BY <1>1, <1>2, EndProperties DEF HostAccepts
    <3>2. \A i \in 1 .. Len(l) : i \in 1 .. End(l) - 1
      BY <3>1
    <3>q. QED
      BY <1>3, <1>7, <3>2 DEF BareArgument
  <2>q. QED
    BY <1>2, <2>1, <2>2, <2>3 DEF BareExtension
<1>8. \A k \in OwnKeys \cup {"safe"} : q.count[k] = 0
  <2> SUFFICES ASSUME NEW k \in OwnKeys \cup {"safe"} PROVE q.count[k] = 0
    OBVIOUS
  <2>1. k \in Keys /\ k \in Conflicts \cup Unnamed
    BY DEF OwnKeys, Keys, Scalars, Flags, Conflicts, Unnamed
  <2>2. \A i \in 1 .. End(l) - 1 : i \in 1 .. Len(l)
    BY <1>1, EndProperties
  <2>3. \A i \in 1 .. End(l) - 1 : ~IsOption(l[i], k)
    BY <1>2, <2>1, <2>2 DEF HostAccepts, IsOption
  <2>q. QED
    BY <1>1, <2>1, <2>3, NoOption DEF l
<1>9. p.count["safe"] = 0
  <2>1. "safe" \in Keys \ {"allow", "config", "input", "startup"}
    BY DEF Keys, Flags
  <2>q. QED
    BY <1>5, <1>8, <2>1 DEF Keeps
<1>q. QED
  BY <1>1, <1>2, <1>3, <1>5, <1>6, <1>7, <1>8, <1>9

LEMMA ToolStep ==
  ASSUME PlanInv, ToolSurvives, [Next]_vars
  PROVE  ToolSurvives'
<1>1. CASE UNCHANGED vars
  BY <1>1 DEF vars, ToolSurvives, NativeBare
<1>2. CASE InteractivePlan
  <2>1. stage' # "exec"
    BY <1>2 DEF InteractivePlan, Refuse
  <2>q. QED
    BY <2>1 DEF ToolSurvives
<1>3. CASE Launch
  <2> SUFFICES ASSUME stage' = "exec" PROVE ToolSurvives'
    BY DEF ToolSurvives
  <2>1. /\ Survives(Parsed(native')) /\ call.environment = {} /\ ~BareArgument(native')
        /\ call.mode = "interactive"
    BY <1>3, LaunchStep
  <2>2. call' = call
    BY <1>3 DEF Launch
  <2>q. QED
    BY <2>1, <2>2 DEF ToolSurvives, NativeBare, Survives
<1>4. CASE OpenLane
  <2> SUFFICES ASSUME stage' = "exec" PROVE ToolSurvives'
    BY DEF ToolSurvives
  <2>1. /\ Survives(Parsed(native')) /\ call.mode = "lane"
        /\ "bare" \in call.environment \/ BareArgument(native') =>
             "server" \notin Parsed(native').values["extension"]
        /\ Parsed(native').count["safe"] = 0
    BY <1>4, LaneStep
  <2>2. call' = call
    BY <1>4 DEF OpenLane
  <2>q. QED
    BY <2>1, <2>2 DEF ToolSurvives, NativeBare, Survives
<1>q. QED
  BY <1>1, <1>2, <1>3, <1>4 DEF Next

\* What CallerKept says, of the parse p of what native gets and the parse c of what the
\* caller's list means.
KeptOf(p, c) ==
  /\ p.positional = c.positional
  /\ \A k \in Keys \ (OwnKeys \cup {"allow", "config", "input", "startup"}) :
       p.values[k] = c.values[k] /\ p.count[k] = c.count[k]
  /\ \A k \in OwnKeys : p.count[k] = 0
  /\ p.values["allow"] = c.values["allow"] \cup {"tool"}
  /\ p.values["config"] = c.values["config"] \cup {"managed"}

LEMMA AgreeKept ==
  ASSUME NEW p, NEW q, NEW c, NEW input, NEW startup, Keeps(p, q, input, startup), Agree(q, c),
         \A k \in OwnKeys : q.count[k] = 0
  PROVE  /\ KeptOf(p, c) /\ p.values["input"] = input /\ p.values["startup"] = startup
         /\ q.values["startup"] = c.values["startup"]
         /\ p.count["promptInteractive"] = c.count["promptInteractive"]
<1>1. /\ {"allow", "config", "startup", "promptInteractive"} \subseteq Keys \ OwnKeys
      /\ OwnKeys \subseteq Keys \ {"allow", "config", "input", "startup"}
      /\ "promptInteractive" \in Keys \ (OwnKeys \cup {"allow", "config", "input", "startup"})
  BY DEF OwnKeys, Keys, Arrays, Scalars
<1>2. /\ p.positional = q.positional /\ q.positional = c.positional
      /\ p.values["allow"] = q.values["allow"] \cup {"tool"}
      /\ p.values["config"] = q.values["config"] \cup {"managed"}
      /\ p.values["input"] = input /\ p.values["startup"] = startup
  BY DEF Keeps, Agree
<1>3. \A k \in Keys \ {"allow", "config", "input", "startup"} :
        p.values[k] = q.values[k] /\ p.count[k] = q.count[k]
  BY DEF Keeps
<1>4. \A k \in Keys \ OwnKeys : q.values[k] = c.values[k] /\ q.count[k] = c.count[k]
  BY DEF Agree
<1>5. \A k \in Keys \ (OwnKeys \cup {"allow", "config", "input", "startup"}) :
        p.values[k] = c.values[k] /\ p.count[k] = c.count[k]
  BY <1>3, <1>4
<1>6. \A k \in OwnKeys : p.count[k] = 0
  BY <1>1, <1>3
<1>7. /\ q.values["allow"] = c.values["allow"] /\ q.values["config"] = c.values["config"]
      /\ q.values["startup"] = c.values["startup"]
  BY <1>1, <1>4
<1>8. p.count["promptInteractive"] = c.count["promptInteractive"]
  BY <1>1, <1>5
<1>q. QED
  BY <1>2, <1>5, <1>6, <1>7, <1>8 DEF KeptOf

LEMMA CallerStep ==
  ASSUME PlanInv, CallerKept, [Next]_vars
  PROVE  CallerKept'
<1>1. CASE UNCHANGED vars
  BY <1>1 DEF vars, CallerKept, Meant
<1>2. CASE InteractivePlan
  <2>1. stage' # "exec"
    BY <1>2 DEF InteractivePlan, Refuse
  <2>q. QED
    BY <2>1 DEF CallerKept
<1>3. CASE Launch
  <2> SUFFICES ASSUME stage' = "exec" PROVE CallerKept'
    BY DEF CallerKept
  <2> DEFINE p == Parsed(native')
             q == Parsed(CallerList)
             c == Meant
  <2>1. /\ Keeps(p, q, {"launch"}, IF named THEN {"rename"} ELSE q.values["startup"])
        /\ (named => p.count["startup"] = 1) /\ call.mode = "interactive"
        /\ call.environment = {} /\ ~Taken(call.args).refused
    BY <1>3, LaunchStep
  <2>2. call' = call /\ named' = named /\ Meant' = Meant
    BY <1>3 DEF Launch, Meant
  <2>3. call.args \in Seq(Tokens) /\ CallerList \in Seq(Tokens)
    BY CallerTokens, TakenType DEF PlanInv, CallerList, TakeStates
  <2>4. \A k \in OwnKeys : q.count[k] = 0
    BY <2>1, <2>3, OwnGone DEF Without, CallerList
  <2>5. Agree(q, c)
    <3>1. CASE Apart(call.args)
      BY <2>1, <2>3, <3>1, ApartKeeps DEF Meant, CallerList
    <3>2. CASE ~Apart(call.args)
      BY <2>1, <3>2 DEF Meant, CallerList, Agree
    <3>q. QED
      BY <3>1, <3>2
  <2>6. c \in ParserStates
    <3>1. c = Parsed(call.args) \/ c = Parsed(CallerList)
      BY DEF Meant, CallerList
    <3>q. QED
      BY <2>3, <3>1, ParsedType
  <2> HIDE DEF p, q, c
  <2>7. /\ KeptOf(p, c) /\ p.values["input"] = {"launch"}
        /\ p.values["startup"] = (IF named THEN {"rename"} ELSE c.values["startup"])
        /\ p.count["promptInteractive"] = c.count["promptInteractive"]
    <3>1. /\ KeptOf(p, c) /\ p.values["input"] = {"launch"}
          /\ p.values["startup"] = (IF named THEN {"rename"} ELSE q.values["startup"])
          /\ q.values["startup"] = c.values["startup"]
          /\ p.count["promptInteractive"] = c.count["promptInteractive"]
      BY <2>1, <2>4, <2>5, AgreeKept
    <3>q. QED
      BY <3>1
  <2>8. c.count["promptInteractive"] \in Nat
    <3>1. "promptInteractive" \in Keys
      BY DEF Keys, Scalars
    <3>q. QED
      BY <2>6, <3>1 DEF ParserStates
  <2>9. named => p.count["startup"] + p.count["promptInteractive"] = 1 + c.count["promptInteractive"]
    BY <2>1, <2>7, <2>8
  <2>10. p = Parsed(native)' /\ c = Meant'
    BY <2>2 DEF p, c
  <2>q. QED
    BY <2>1, <2>2, <2>7, <2>9, <2>10 DEF CallerKept, KeptOf
<1>4. CASE OpenLane
  <2> SUFFICES ASSUME stage' = "exec" PROVE CallerKept'
    BY DEF CallerKept
  <2> DEFINE p == Parsed(native')
             c == Parsed(call.args)
  <2>1. /\ Keeps(p, c, {}, c.values["startup"]) /\ call.mode = "lane" /\ ~named'
        /\ \A k \in OwnKeys : c.count[k] = 0
    BY <1>4, LaneStep
  <2>2. call' = call
    BY <1>4 DEF OpenLane
  <2>3. Agree(c, c)
    BY DEF Agree
  <2>4. p = Parsed(native)' /\ c = Meant'
    BY <2>1, <2>2 DEF Meant
  <2> HIDE DEF p, c
  <2>5. KeptOf(p, c) /\ p.values["input"] = {} /\ p.values["startup"] = c.values["startup"]
    BY <2>1, <2>3, AgreeKept
  <2>q. QED
    BY <2>1, <2>2, <2>4, <2>5 DEF CallerKept, KeptOf
<1>q. QED
  BY <1>1, <1>2, <1>3, <1>4 DEF Next

\* PlanInv holds of every plan, so that a plan's list is the caller's own with the rename and
\* the grant in it.
THEOREM PlansAreGranted == Spec => []PlanInv
<1>1. Init => PlanInv
  BY PlanInit
<1>2. PlanInv /\ [Next]_vars => PlanInv'
  BY PlanStep
<1>q. QED
  BY <1>1, <1>2, PTL DEF Spec

\* Whatever list of words, options, attached options and boundaries a caller passes, of any
\* length and in any environment, native parses a managed launch so that the tool is allowed,
\* not excluded, within the bound on servers and from the one config: the wrapper's scan of an
\* array (validateManagedQwenArguments) reads what native's greedy parser reads, and every insertion lands
\* where the parser takes it for what it is. Native loads it, being neither bare nor safe, but
\* for the one case ToolSurvives names: an interactive caller's own --safe-mode, which
\* rejectIntegratedModes does not refuse.
THEOREM ToolAlwaysSurvives == Spec => []ToolSurvives
<1>1. Init => ToolSurvives
  BY DEF Init, ToolSurvives
<1>2. PlanInv /\ ToolSurvives /\ [Next]_vars => ToolSurvives'
  BY ToolStep
<1>q. QED
  BY <1>1, <1>2, PlansAreGranted, PTL DEF Spec

\* What the caller passed keeps its meaning to native through the plan, the composed config,
\* the input file and the lane's own arguments: every insertion changes the one option it adds,
\* and the wrapper's own options leave the list without a trace if they are apart from native's.
\* With a name the rename is the only startup prompt that native reads, but for those the caller
\* spells --promptInteractive.
THEOREM CallerAlwaysKept == Spec => []CallerKept
<1>1. Init => CallerKept
  BY DEF Init, CallerKept
<1>2. PlanInv /\ CallerKept /\ [Next]_vars => CallerKept'
  BY CallerStep
<1>q. QED
  BY <1>1, <1>2, PlansAreGranted, PTL DEF Spec

=============================================================================
