----------------------------- MODULE DiffProofs -----------------------------
(***************************************************************************)
(* Theorems about what the merge editor and the comments compute with: the *)
(* diff of two sequences, the edits made of it, and the drift of lines     *)
(* between two texts.  They hold for any sequences.                        *)
(***************************************************************************)
EXTENDS ThreeWayMerge, FiniteSetTheorems, SequenceTheorems, TLAPS

-----------------------------------------------------------------------------
(* Induction, and what FlattenSeq computes. *)

\* Induction over the naturals, said of a set: the numbers up to one that is
\* missing would be mapped one to one, and not onto, themselves.
LEMMA InductionOverNat ==
    ASSUME NEW S, 0 \in S, \A n \in Nat : n \in S => n + 1 \in S
    PROVE  \A n \in Nat : n \in S
<1> SUFFICES ASSUME NEW n \in Nat, n \notin S PROVE FALSE
  OBVIOUS
<1> DEFINE T == {k \in 0..n : k \in S}
           f == [k \in T |-> k + 1]
<1>1. IsFiniteSet(T)
  <2>1. IsFiniteSet(0..n)
    BY FS_Interval
  <2>2. T \in SUBSET (0..n)
    OBVIOUS
  <2> QED
    BY <2>1, <2>2, FS_Subset
<1>2. \A k \in T : k + 1 \in T
  OBVIOUS
<1>3. f \in Injection(T, T)
  BY <1>2 DEF Injection, IsInjective
<1>4. 0 \in T /\ \A k \in T : f[k] # 0
  OBVIOUS
<1> HIDE DEF T, f
<1>5. f \in Surjection(T, T)
  BY <1>1, <1>3, FS_Injection
<1> QED
  BY <1>4, <1>5 DEF Surjection

\* The function FlattenSeq recurses by, for a sequence of sequences.
Joining(seqs, g) ==
    g = [i \in 1..Len(seqs) |-> IF i = 1 THEN seqs[i] ELSE g[i - 1] \o seqs[i]]

\* The community modules define FlattenSeq by a recursive function, in a LET: any
\* function g that obeys its recursion gives its value.
LEMMA FlattenUnfolds ==
    ASSUME NEW S, NEW seqs \in Seq(S), seqs # <<>>, NEW g, Joining(seqs, g)
    PROVE  FlattenSeq(seqs) = g[Len(seqs)]
<1> DEFINE h == CHOOSE h : Joining(seqs, h)
           Same == {n \in Nat : n \in 1..Len(seqs) => h[n] = g[n]}
<1>1. Joining(seqs, h)
  OBVIOUS
<1>2. FlattenSeq(seqs) = h[Len(seqs)]
  BY DEF FlattenSeq, Joining
<1> HIDE DEF h
<1>3. Len(seqs) \in Nat \ {0}
  OBVIOUS
<1>4. 0 \in Same
  OBVIOUS
<1>5. \A n \in Nat : n \in Same => n + 1 \in Same
  <2> SUFFICES ASSUME NEW n \in Nat, n \in Same, n + 1 \in 1..Len(seqs)
               PROVE  h[n + 1] = g[n + 1]
    OBVIOUS
  <2>0. Len(seqs) \in Nat
    BY <1>3
  <2>1. h[n + 1] = IF n + 1 = 1 THEN seqs[n + 1] ELSE h[(n + 1) - 1] \o seqs[n + 1]
    BY <1>1, <1>3 DEF Joining
  <2>2. g[n + 1] = IF n + 1 = 1 THEN seqs[n + 1] ELSE g[(n + 1) - 1] \o seqs[n + 1]
    BY <1>3 DEF Joining
  <2>3. (n + 1) - 1 = n /\ (n + 1 # 1 => n \in 1..Len(seqs))
    BY <1>3
  <2>4. n + 1 # 1 => h[n] = g[n]
    BY <2>3
  <2> QED
    BY <2>1, <2>2, <2>3, <2>4
<1>6. Len(seqs) \in Same
  <2> HIDE DEF Same
  <2> QED BY <1>3, <1>4, <1>5, InductionOverNat
<1> QED
  BY <1>2, <1>3, <1>6

\* There is one, and it gives sequences.
LEMMA JoiningExists ==
    ASSUME NEW S, NEW seqs \in Seq(Seq(S))
    PROVE  \E g : Joining(seqs, g) /\ \A i \in 1..Len(seqs) : g[i] \in Seq(S)
<1> DEFINE Upto(n, g) == /\ DOMAIN g = 1..n
                         /\ \A i \in 1..n : g[i] \in Seq(S)
                         /\ \A i \in 1..n : g[i] = IF i = 1 THEN seqs[i] ELSE g[i - 1] \o seqs[i]
           Starts == {n \in Nat : n <= Len(seqs) => \E g : Upto(n, g)}
<1>1. 0 \in Starts
  <2>1. Upto(0, [i \in 1..0 |-> i])
    OBVIOUS
  <2> QED BY <2>1
<1>2. ASSUME NEW n \in Nat, n \in Starts PROVE n + 1 \in Starts
  <2> SUFFICES ASSUME n + 1 <= Len(seqs) PROVE \E g : Upto(n + 1, g)
    <3> HIDE DEF Upto
    <3> QED OBVIOUS
  <2>1. PICK g : Upto(n, g)
    <3>1. n <= Len(seqs)
      OBVIOUS
    <3> HIDE DEF Upto
    <3> QED BY <1>2, <3>1
  <2> DEFINE last == IF n = 0 THEN seqs[1] ELSE g[n] \o seqs[n + 1]
             h == [i \in 1..(n + 1) |-> IF i = n + 1 THEN last ELSE g[i]]
  <2>2. last \in Seq(S)
    <3>1. seqs[n + 1] \in Seq(S) /\ seqs[1] \in Seq(S)
      OBVIOUS
    <3>2. n # 0 => g[n] \in Seq(S)
      BY <2>1
    <3> QED
      BY <3>1, <3>2
  <2>3. \A i \in 1..(n + 1) : h[i] \in Seq(S)
    BY <2>1, <2>2
  <2>4. \A i \in 1..n : h[i] = g[i] /\ (i # 1 => h[i - 1] = g[i - 1])
    OBVIOUS
  <2>5. h[n + 1] = IF n + 1 = 1 THEN seqs[n + 1] ELSE h[(n + 1) - 1] \o seqs[n + 1]
    <3>1. h[n + 1] = last
      OBVIOUS
    <3>2. n # 0 => h[n] = g[n]
      OBVIOUS
    <3>3. (n + 1) - 1 = n
      OBVIOUS
    <3> HIDE DEF h
    <3> QED BY <3>1, <3>2, <3>3
  <2>6. \A i \in 1..(n + 1) : h[i] = IF i = 1 THEN seqs[i] ELSE h[i - 1] \o seqs[i]
    <3> SUFFICES ASSUME NEW i \in 1..(n + 1)
                 PROVE  h[i] = IF i = 1 THEN seqs[i] ELSE h[i - 1] \o seqs[i]
      OBVIOUS
    <3> HIDE DEF h
    <3>1. CASE i = n + 1
      BY <3>1, <2>5
    <3>2. CASE i # n + 1
      <4>1. i \in 1..n
        BY <3>2
      <4>2. g[i] = IF i = 1 THEN seqs[i] ELSE g[i - 1] \o seqs[i]
        BY <4>1, <2>1
      <4> QED BY <4>1, <4>2, <2>4
    <3> QED BY <3>1, <3>2
  <2>7. DOMAIN h = 1..(n + 1)
    OBVIOUS
  <2> HIDE DEF h
  <2> QED BY <2>3, <2>6, <2>7
<1>3. Len(seqs) \in Starts
  <2>1. Len(seqs) \in Nat
    OBVIOUS
  <2> HIDE DEF Starts
  <2> QED BY <1>1, <1>2, <2>1, InductionOverNat
<1>4. PICK g : Upto(Len(seqs), g)
  BY <1>3
<1> DEFINE h == [i \in 1..Len(seqs) |-> g[i]]
<1>5. \A i \in 1..Len(seqs) : i # 1 => i - 1 \in 1..Len(seqs)
  OBVIOUS
<1>6. \A i \in 1..Len(seqs) : h[i] = IF i = 1 THEN seqs[i] ELSE h[i - 1] \o seqs[i]
  BY <1>4, <1>5
<1>7. h = [i \in 1..Len(seqs) |-> h[i]] /\ \A i \in 1..Len(seqs) : h[i] \in Seq(S)
  BY <1>4
<1> HIDE DEF h
<1>8. Joining(seqs, h)
  BY <1>6, <1>7 DEF Joining
<1> QED BY <1>7, <1>8

\* Joining texts gives a text.
LEMMA FlattenType ==
    ASSUME NEW S, NEW seqs \in Seq(Seq(S))
    PROVE  FlattenSeq(seqs) \in Seq(S)
<1>1. CASE seqs = <<>>
  BY <1>1 DEF FlattenSeq
<1>2. CASE seqs # <<>>
  <2>1. PICK g : Joining(seqs, g) /\ \A i \in 1..Len(seqs) : g[i] \in Seq(S)
    BY JoiningExists
  <2>2. FlattenSeq(seqs) = g[Len(seqs)]
    BY <1>2, <2>1, FlattenUnfolds
  <2>3. Len(seqs) \in 1..Len(seqs)
    BY <1>2
  <2> QED BY <2>1, <2>2, <2>3
<1> QED
  BY <1>1, <1>2

\* One more text is joined behind the others.
LEMMA FlattenAppend ==
    ASSUME NEW S, NEW seqs \in Seq(Seq(S)), NEW s \in Seq(S)
    PROVE  FlattenSeq(Append(seqs, s)) = FlattenSeq(seqs) \o s
<1> DEFINE new == Append(seqs, s)
           n == Len(seqs)
<1>1. /\ new \in Seq(Seq(S)) /\ Len(new) = n + 1 /\ n \in Nat
      /\ new[n + 1] = s /\ \A i \in 1..n : new[i] = seqs[i]
  OBVIOUS
<1> HIDE DEF new
<1>2. PICK g : Joining(new, g) /\ \A i \in 1..Len(new) : g[i] \in Seq(S)
  BY <1>1, JoiningExists
<1>3. FlattenSeq(new) = g[n + 1]
  <2>1. new # <<>>
    BY <1>1
  <2> QED BY <1>1, <1>2, <2>1, FlattenUnfolds
<1>4. \A i \in 1..(n + 1) : g[i] = IF i = 1 THEN new[i] ELSE g[i - 1] \o new[i]
  BY <1>1, <1>2 DEF Joining
<1>5. CASE seqs = <<>>
  <2>1. n = 0 /\ FlattenSeq(seqs) = <<>>
    BY <1>5 DEF FlattenSeq
  <2> QED BY <1>1, <1>3, <1>4, <2>1 DEF new
<1>6. CASE seqs # <<>>
  <2> DEFINE h == [i \in 1..n |-> g[i]]
  <2>1. n # 0
    BY <1>6
  <2>2. \A i \in 1..n : h[i] = IF i = 1 THEN seqs[i] ELSE h[i - 1] \o seqs[i]
    <3> TAKE i \in 1..n
    <3>1. i \in 1..(n + 1) /\ (i # 1 => i - 1 \in 1..n)
      BY <1>1
    <3>2. g[i] = IF i = 1 THEN new[i] ELSE g[i - 1] \o new[i]
      BY <1>4, <3>1
    <3> QED BY <1>1, <3>1, <3>2
  <2>3. h = [i \in 1..n |-> h[i]] /\ h[n] = g[n]
    BY <1>1, <2>1
  <2> HIDE DEF h
  <2>4. Joining(seqs, h)
    BY <2>2, <2>3 DEF Joining
  <2>5. FlattenSeq(seqs) = g[n]
    BY <1>6, <2>3, <2>4, FlattenUnfolds
  <2>6. g[n + 1] = g[(n + 1) - 1] \o new[n + 1] /\ (n + 1) - 1 = n
    <3>1. n \in Nat /\ n # 0
      BY <1>1, <2>1
    <3> HIDE DEF n
    <3>2. n + 1 \in 1..(n + 1) /\ n + 1 # 1 /\ (n + 1) - 1 = n
      BY <3>1
    <3> QED BY <1>4, <3>2
  <2> QED BY <1>1, <1>3, <2>5, <2>6 DEF new
<1> QED BY <1>5, <1>6

-----------------------------------------------------------------------------
(* The diff of two sequences: the operators it is written with. *)

\* A bounded set of numbers has a greatest.
LEMMA GreatestOf ==
    ASSUME NEW T \in SUBSET Int, T # {}, NEW low \in Int, NEW bound \in Int,
           \A k \in T : low <= k /\ k <= bound
    PROVE  \E m \in T : \A k \in T : k <= m
<1> DEFINE Below == {n \in Nat : (\A k \in T : k <= low + n) => \E m \in T : \A k \in T : k <= m}
<1>1. 0 \in Below
  <2> SUFFICES ASSUME \A k \in T : k <= low PROVE \E m \in T : \A k \in T : k <= m
    OBVIOUS
  <2>1. PICK m \in T : TRUE
    OBVIOUS
  <2>2. \A k \in T : k \in Int /\ low <= k /\ k <= low
    OBVIOUS
  <2>3. \A k \in T : k <= m
    BY <2>1, <2>2
  <2> QED BY <2>1, <2>3
<1>2. ASSUME NEW n \in Nat, n \in Below PROVE n + 1 \in Below
  <2> SUFFICES ASSUME \A k \in T : k <= low + (n + 1) PROVE \E m \in T : \A k \in T : k <= m
    OBVIOUS
  <2>1. CASE low + (n + 1) \in T
    BY <2>1
  <2>2. CASE low + (n + 1) \notin T
    <3>1. \A k \in T : k <= low + n
      <4> TAKE k \in T
      <4>1. k \in Int /\ k <= low + (n + 1) /\ k # low + (n + 1)
        BY <2>2
      <4> QED BY <4>1
    <3> QED BY <1>2, <3>1
  <2> QED BY <2>1, <2>2
<1>3. bound - low \in Nat /\ low + (bound - low) = bound
  <2>1. PICK k \in T : low <= k /\ k <= bound
    OBVIOUS
  <2> QED BY <2>1
<1>4. bound - low \in Below
  <2> HIDE DEF Below
  <2> QED BY <1>1, <1>2, <1>3, InductionOverNat
<1> QED BY <1>3, <1>4

\* What is taken from a sequence.
LEMMA PartIs ==
    ASSUME NEW S, NEW s \in Seq(S), NEW i \in Nat, NEW j \in Int, j <= Len(s)
    PROVE  /\ SubSeq(s, i + 1, j) \in Seq(S)
           /\ Len(SubSeq(s, i + 1, j)) = IF i < j THEN j - i ELSE 0
           /\ \A k \in 1..(j - i) : SubSeq(s, i + 1, j)[k] = s[i + k]
<1>0. Len(s) \in Nat /\ \A k \in 1..Len(s) : s[k] \in S
  OBVIOUS
<1>1. \A k \in (i + 1)..j : s[k] \in S
  BY <1>0
<1>2. i + 1 \in Int
  OBVIOUS
<1>3. /\ SubSeq(s, i + 1, j) \in Seq(S)
      /\ Len(SubSeq(s, i + 1, j)) = IF i + 1 <= j THEN j - (i + 1) + 1 ELSE 0
      /\ \A k \in 1..(j - (i + 1) + 1) : SubSeq(s, i + 1, j)[k] = s[i + 1 + k - 1]
  BY <1>1, <1>2, SubSeqProperties
<1>4. \A k \in Int : i + 1 + k - 1 = i + k
  OBVIOUS
<1>5. j - (i + 1) + 1 = j - i /\ (i + 1 <= j <=> i < j)
  OBVIOUS
<1> QED BY <1>3, <1>4, <1>5

\* countCommonPrefix: the longest common start.
LEMMA PrefixIs ==
    ASSUME NEW S, NEW a \in Seq(S), NEW b \in Seq(S)
    PROVE  /\ CommonPrefix(a, b) \in Nat
           /\ CommonPrefix(a, b) <= Len(a) /\ CommonPrefix(a, b) <= Len(b)
           /\ \A i \in 1..CommonPrefix(a, b) : a[i] = b[i]
           /\ \A n \in Nat : n <= Len(a) /\ n <= Len(b) /\ (\A i \in 1..n : a[i] = b[i])
                                => n <= CommonPrefix(a, b)
<1> DEFINE C == CommonPrefixes({a, b})
           L == {Len(c) : c \in C}
<1>0. Len(a) \in Nat /\ Len(b) \in Nat
  OBVIOUS
<1>1. ASSUME NEW t \in Seq(S), NEW n \in Nat, n <= Len(t)
      PROVE  /\ SubSeq(t, 1, n) \in Seq(S) /\ Len(SubSeq(t, 1, n)) = n
             /\ \A i \in 1..n : SubSeq(t, 1, n)[i] = t[i]
  <2>1. /\ SubSeq(t, 0 + 1, n) \in Seq(S)
        /\ Len(SubSeq(t, 0 + 1, n)) = IF 0 < n THEN n - 0 ELSE 0
        /\ \A k \in 1..(n - 0) : SubSeq(t, 0 + 1, n)[k] = t[0 + k]
    BY <1>1, PartIs
  <2> QED BY <2>1
<1>2. ASSUME NEW n \in Nat, n <= Len(a), n <= Len(b), \A i \in 1..n : a[i] = b[i]
      PROVE  n \in L
  <2> DEFINE c == SubSeq(a, 1, n)
  <2>1. c \in Seq(S) /\ Len(c) = n /\ \A i \in 1..n : c[i] = a[i]
    BY <1>1, <1>2
  <2>2. SubSeq(b, 1, n) = c
    <3>1. /\ SubSeq(b, 1, n) \in Seq(S) /\ Len(SubSeq(b, 1, n)) = n
          /\ \A i \in 1..n : SubSeq(b, 1, n)[i] = b[i]
      BY <1>1, <1>2
    <3> QED BY <1>2, <2>1, <3>1, SeqEqual
  <2>3. c \in Prefixes(a)
    BY <1>2, <1>0 DEF Prefixes
  <2>4. SubSeq(c, 1, n) = c
    <3> HIDE DEF c
    <3> QED BY <2>1, SubSeqFull
  <2>5. IsPrefix(c, a) /\ IsPrefix(c, b)
    <3>1. SubSeq(a, 1, n) = c
      OBVIOUS
    <3> HIDE DEF c
    <3> QED BY <1>2, <2>1, <2>2, <2>4, <3>1 DEF IsPrefix
  <2> HIDE DEF c
  <2>6. c \in C
    BY <2>3, <2>5 DEF CommonPrefixes
  <2> HIDE DEF C
  <2> QED BY <2>1, <2>6
<1>3. ASSUME NEW c \in C
      PROVE  /\ Len(c) \in Nat /\ Len(c) <= Len(a) /\ Len(c) <= Len(b)
             /\ \A i \in 1..Len(c) : a[i] = b[i]
  <2>1. IsPrefix(c, a) /\ IsPrefix(c, b)
    BY <1>3 DEF CommonPrefixes
  <2>0. PICK t \in {a, b} : \E n \in 0..Len(t) : c = SubSeq(t, 1, n)
    BY <1>3 DEF CommonPrefixes, Prefixes
  <2>2. PICK n \in 0..Len(t) : c = SubSeq(t, 1, n)
    BY <2>0
  <2>3. t \in Seq(S) /\ n \in Nat /\ n <= Len(t)
    BY <1>0, <2>2
  <2>4. Len(c) = n
    BY <1>1, <2>2, <2>3
  <2>5. n <= Len(a) /\ n <= Len(b) /\ SubSeq(a, 1, n) = SubSeq(b, 1, n)
    BY <2>1, <2>4 DEF IsPrefix
  <2>6. \A i \in 1..n : SubSeq(a, 1, n)[i] = a[i] /\ SubSeq(b, 1, n)[i] = b[i]
    BY <1>1, <2>3, <2>5
  <2> QED BY <2>3, <2>4, <2>5, <2>6
<1> HIDE DEF C
<1>4. \E m \in L : \A k \in L : k <= m
  <2>1. 0 \in L
    BY <1>0, <1>2
  <2>2. \A k \in L : k \in Int /\ 0 <= k /\ k <= Len(a)
    BY <1>0, <1>3
  <2> HIDE DEF L
  <2>3. L \in SUBSET Int /\ L # {} /\ 0 \in Int /\ Len(a) \in Int
    BY <1>0, <2>1, <2>2
  <2> QED BY <2>2, <2>3, GreatestOf
<1>5. \E c \in C : \A d \in C : Len(d) <= Len(c)
  BY <1>4
<1> DEFINE longest == CHOOSE c \in C : \A d \in C : Len(d) <= Len(c)
<1>6. CommonPrefix(a, b) = Len(longest)
  BY DEF CommonPrefix, LongestCommonPrefix, C
<1>7. longest \in C /\ \A d \in C : Len(d) <= Len(longest)
  BY <1>5
<1> HIDE DEF longest
<1>8. \A n \in L : n <= Len(longest)
  BY <1>7
<1> QED BY <1>2, <1>3, <1>6, <1>7, <1>8

-----------------------------------------------------------------------------
(* The diff: the furthest points of a round lie within both sequences. *)

LEMMA DiagonalMoves ==
    ASSUME NEW d \in Nat, NEW e, e = d + 1, NEW k \in Diagonals(e)
    PROVE  /\ k \in Int /\ k <= e /\ -e <= k
           /\ k # e => k + 1 \in Diagonals(d)
           /\ k # -e => k - 1 \in Diagonals(d)
<1>1. k \in Int /\ k <= d + 1 /\ -(d + 1) <= k /\ (d + 1 - k) % 2 = 0
  BY DEF Diagonals
<1>2. (d - (k + 1)) % 2 = 0 /\ (d - (k - 1)) % 2 = 0
  BY <1>1
<1>3. k # d + 1 => k # d
  BY <1>1
<1>4. k # -(d + 1) => k # -d
  BY <1>1
<1> QED BY <1>1, <1>2, <1>3, <1>4 DEF Diagonals

LEMMA LastDiagonal ==
    ASSUME NEW n \in Nat, NEW m \in Nat
    PROVE  n - m \in Diagonals(n + m)
<1>1. (n + m - (n - m)) % 2 = 0
  <2>1. n + m - (n - m) = 2 * m
    OBVIOUS
  <2> QED BY <2>1
<1> QED BY <1>1 DEF Diagonals

\* What a snake from <<x, y>> to an end has on it.
SnakeTo(a, b, x, y, e) ==
    /\ e \in Nat /\ x <= e
    /\ x < e => e <= Len(a) /\ y + (e - x) <= Len(b)
    /\ \A i \in 1..(e - x) : a[x + i] = b[y + i]

\* advanceAlongSnake: goes on while the items are the same.
LEMMA SnakeIs ==
    ASSUME NEW S, NEW a \in Seq(S), NEW b \in Seq(S), NEW x \in Nat, NEW y \in Nat
    PROVE  SnakeTo(a, b, x, y, EndOfSnake(a, b, x, y))
<1> DEFINE e == EndOfSnake(a, b, x, y)
<1> DEFINE r == SubSeq(a, x + 1, Len(a))
           t == SubSeq(b, y + 1, Len(b))
           p == CommonPrefix(r, t)
<1>0. Len(a) \in Nat /\ Len(b) \in Nat
  OBVIOUS
<1>1. /\ r \in Seq(S) /\ Len(r) = (IF x < Len(a) THEN Len(a) - x ELSE 0)
      /\ \A k \in 1..(Len(a) - x) : r[k] = a[x + k]
  BY <1>0, PartIs
<1>2. /\ t \in Seq(S) /\ Len(t) = (IF y < Len(b) THEN Len(b) - y ELSE 0)
      /\ \A k \in 1..(Len(b) - y) : t[k] = b[y + k]
  BY <1>0, PartIs
<1> HIDE DEF r, t
<1>3. p \in Nat /\ p <= Len(r) /\ p <= Len(t) /\ \A i \in 1..p : r[i] = t[i]
  <2>1. r \in Seq(S) /\ t \in Seq(S)
    BY <1>1, <1>2
  <2> QED BY <2>1, PrefixIs
<1>4. e = x + p
  BY DEF EndOfSnake, r, t
<1> HIDE DEF p, e
<1>5. e \in Nat /\ x <= e /\ e - x = p
  BY <1>3, <1>4
<1>6. x < e => e <= Len(a) /\ y + (e - x) <= Len(b)
  BY <1>0, <1>1, <1>2, <1>3, <1>4
<1>7. \A i \in 1..p : a[x + i] = b[y + i]
  <2> TAKE i \in 1..p
  <2>1. p # 0
    BY <1>3
  <2>2. i \in 1..(Len(a) - x) /\ i \in 1..(Len(b) - y)
    BY <1>0, <1>1, <1>2, <1>3, <2>1
  <2> QED BY <1>1, <1>2, <1>3, <2>2
<1> QED BY <1>5, <1>6, <1>7 DEF SnakeTo, e

\* The points after d edits: one on each diagonal.
Frontier(v, d) ==
    /\ \A k \in Diagonals(d) :
          At(v, k) \in Nat /\ At(v, k) - k \in Nat /\ <<k, At(v, k)>> \in v
    /\ \A p \in v : p[1] \in Diagonals(d) /\ p = <<p[1], At(v, p[1])>>

\* Where the edit that leads to a diagonal leaves off, and the snake behind it ends.
StepEnd(a, b, v, k, d) == EndOfSnake(a, b, StartX(v, k, d), StartX(v, k, d) - k)

LEMMA StepPoints ==
    ASSUME NEW a, NEW b, NEW v, NEW d, NEW k \in Diagonals(d)
    PROVE  At(StepDepth(a, b, v, d), k) = StepEnd(a, b, v, k, d)
<1> DEFINE new == StepDepth(a, b, v, d)
<1>1. new = {<<j, StepEnd(a, b, v, j, d)>> : j \in Diagonals(d)}
  BY DEF StepDepth, StepEnd
<1> HIDE DEF new
<1>2. <<k, StepEnd(a, b, v, k, d)>> \in new
  BY <1>1
<1>3. \A p \in new : p[1] = k => p[2] = StepEnd(a, b, v, k, d)
  BY <1>1
<1>4. \E p \in new : p[1] = k
  BY <1>2
<1> QED BY <1>3, <1>4 DEF At, new

\* A front of what each diagonal has at its end.
LEMMA StepIsFront ==
    ASSUME NEW a, NEW b, NEW v, NEW d,
           \A k \in Diagonals(d) : StepEnd(a, b, v, k, d) \in Nat /\ StepEnd(a, b, v, k, d) - k \in Nat
    PROVE  Frontier(StepDepth(a, b, v, d), d)
<1> DEFINE new == StepDepth(a, b, v, d)
<1>1. new = {<<j, StepEnd(a, b, v, j, d)>> : j \in Diagonals(d)}
  BY DEF StepDepth, StepEnd
<1>2. \A k \in Diagonals(d) : At(new, k) = StepEnd(a, b, v, k, d)
  BY StepPoints
<1> HIDE DEF new
<1>3. \A k \in Diagonals(d) : <<k, At(new, k)>> \in new
  BY <1>1, <1>2
<1>4. ASSUME NEW p \in new PROVE p[1] \in Diagonals(d) /\ p = <<p[1], At(new, p[1])>>
  <2>1. PICK j \in Diagonals(d) : p = <<j, StepEnd(a, b, v, j, d)>>
    BY <1>1
  <2> QED BY <1>2, <2>1
<1>5. Frontier(new, d)
  BY <1>2, <1>3, <1>4 DEF Frontier
<1> QED BY <1>5 DEF new

\* chooseStartXForDiagonal: one edit from a point after d edits,
\* as far as any.
LEMMA StartIs ==
    ASSUME NEW d \in Nat, NEW v, Frontier(v, d), NEW e, e = d + 1, NEW k \in Diagonals(e),
           NEW x, x = StartX(v, k, e)
    PROVE  /\ x \in Nat /\ x - k \in Nat
           /\ CameFromAbove(v, k, e) => k + 1 \in Diagonals(d) /\ x = At(v, k + 1)
           /\ ~CameFromAbove(v, k, e) => k - 1 \in Diagonals(d) /\ x = At(v, k - 1) + 1
           /\ k # e => x >= At(v, k + 1)
           /\ k # -e => x >= At(v, k - 1) + 1
<1>1. /\ k \in Int /\ k <= e /\ -e <= k
      /\ k # e => k + 1 \in Diagonals(d)
      /\ k # -e => k - 1 \in Diagonals(d)
  BY DiagonalMoves
<1> DEFINE up == At(v, k + 1)
           down == At(v, k - 1)
<1>2. k # e => up \in Nat /\ up - (k + 1) \in Nat
  BY <1>1 DEF Frontier
<1>3. k # -e => down \in Nat /\ down - (k - 1) \in Nat
  BY <1>1 DEF Frontier
<1>4. CameFromAbove(v, k, e) <=> (k = -e \/ (k # e /\ down < up))
  BY DEF CameFromAbove
<1>5. x = IF CameFromAbove(v, k, e) THEN up ELSE down + 1
  BY DEF StartX
<1> HIDE DEF up, down
<1>6. x \in Nat /\ x - k \in Nat
  BY <1>1, <1>2, <1>3, <1>4, <1>5
<1>7. CameFromAbove(v, k, e) => k # e
  BY <1>1, <1>4
<1>8. /\ k # e => x >= up
      /\ k # -e => x >= down + 1
  BY <1>1, <1>2, <1>3, <1>4, <1>5
<1> QED BY <1>1, <1>4, <1>5, <1>6, <1>7, <1>8 DEF up, down

\* The first front: the snake from both starts.
LEMMA FirstFront ==
    ASSUME NEW S, NEW a \in Seq(S), NEW b \in Seq(S),
           NEW v, v = StepDepth(a, b, {<<1, 0>>}, 0)
    PROVE  /\ Frontier(v, 0)
           /\ Diagonals(0) = {0}
           /\ At(v, 0) = EndOfSnake(a, b, 0, 0)
<1>1. Diagonals(0) = {0}
  BY DEF Diagonals
<1>2. At({<<1, 0>>}, 1) = 0
  <2> DEFINE point == CHOOSE p \in {<<1, 0>>} : p[1] = 1
  <2>1. point \in {<<1, 0>>}
    OBVIOUS
  <2>2. At({<<1, 0>>}, 1) = point[2]
    BY Zenon DEF At
  <2> HIDE DEF point
  <2> QED BY <2>1, <2>2
<1>3. StartX({<<1, 0>>}, 0, 0) = 0
  <2>1. 0 + 1 = 1
    OBVIOUS
  <2>2. CameFromAbove({<<1, 0>>}, 0, 0)
    <3>1. ASSUME NEW z \in Int, z = 0 PROVE CameFromAbove({<<1, 0>>}, z, z)
      <4>1. \A n \in Int : -n = 0 - n
        OBVIOUS
      <4>2. 0 - z = z
        BY <3>1
      <4>3. -z = z
        BY <4>1, <4>2
      <4> QED BY <4>3 DEF CameFromAbove
    <3> QED BY <3>1
  <2> QED BY <1>2, <2>1, <2>2 DEF StartX
<1>4. StepEnd(a, b, {<<1, 0>>}, 0, 0) = EndOfSnake(a, b, 0, 0)
  BY <1>3 DEF StepEnd
<1>5. EndOfSnake(a, b, 0, 0) \in Nat
  BY SnakeIs DEF SnakeTo
<1>6. Frontier(v, 0)
  <2>1. \A k \in Diagonals(0) : StepEnd(a, b, {<<1, 0>>}, k, 0) \in Nat /\ StepEnd(a, b, {<<1, 0>>}, k, 0) - k \in Nat
    BY <1>1, <1>4, <1>5
  <2> QED BY <2>1, StepIsFront
<1>7. At(v, 0) = EndOfSnake(a, b, 0, 0)
  BY <1>1, <1>4, StepPoints
<1> QED BY <1>1, <1>6, <1>7

\* One more edit leads from a front to a front.
LEMMA NextFront ==
    ASSUME NEW S, NEW a \in Seq(S), NEW b \in Seq(S), NEW d \in Nat, NEW v, Frontier(v, d),
           NEW e, e = d + 1, NEW w, w = StepDepth(a, b, v, e)
    PROVE  /\ Frontier(w, e)
           /\ \A k \in Diagonals(e) :
                 At(w, k) = EndOfSnake(a, b, StartX(v, k, e), StartX(v, k, e) - k)
<1>1. ASSUME NEW k \in Diagonals(e)
      PROVE  StepEnd(a, b, v, k, e) \in Nat /\ StepEnd(a, b, v, k, e) - k \in Nat
  <2> DEFINE x == StartX(v, k, e)
  <2>1. x \in Nat /\ x - k \in Nat
    BY StartIs
  <2>2. StepEnd(a, b, v, k, e) = EndOfSnake(a, b, x, x - k)
    BY DEF StepEnd
  <2>3. k \in Int
    BY DiagonalMoves
  <2> HIDE DEF x
  <2>4. EndOfSnake(a, b, x, x - k) \in Nat /\ x <= EndOfSnake(a, b, x, x - k)
    BY <2>1, SnakeIs DEF SnakeTo
  <2> QED BY <2>1, <2>2, <2>3, <2>4
<1>2. Frontier(w, e)
  BY <1>1, StepIsFront
<1>3. \A k \in Diagonals(e) : At(w, k) = StepEnd(a, b, v, k, e)
  BY StepPoints
<1> QED BY <1>2, <1>3 DEF StepEnd

-----------------------------------------------------------------------------
(* The diff: each round gets further than the one before. *)

\* d edits make at least d steps from the start.
Deep(v, d) == \A k \in Diagonals(d) : 2 * At(v, k) - k >= d

\* A point behind the end of a side has one before it that is as far on the
\* other side, and one step less behind the end.
Over(a, b, v, w, e) ==
    \A k \in Diagonals(e) :
        /\ At(w, k) > Len(a) => k # -e /\ At(v, k - 1) >= At(w, k) - 1
        /\ At(w, k) - k > Len(b) => k # e /\ At(v, k + 1) >= At(w, k)

\* What an edit and the snake behind it come to, on a diagonal.
Stepped(a, b, v, w, k, d, e) ==
    LET x == At(w, k)
        s == StartX(v, k, e)
    IN  /\ x \in Nat /\ x - k \in Nat /\ k \in Int /\ s \in Nat /\ s - k \in Nat /\ s <= x
        /\ s < x => x <= Len(a) /\ x - k <= Len(b)
        /\ \A i \in 1..(x - s) : a[s + i] = b[s - k + i]
        /\ \/ CameFromAbove(v, k, e) /\ k + 1 \in Diagonals(d) /\ s = At(v, k + 1)
           \/ ~CameFromAbove(v, k, e) /\ k - 1 \in Diagonals(d) /\ s = At(v, k - 1) + 1
        /\ k # e => x >= At(v, k + 1)
        /\ k # -e => x >= At(v, k - 1) + 1

LEMMA StepIs ==
    ASSUME NEW S, NEW a \in Seq(S), NEW b \in Seq(S), NEW d \in Nat, NEW v, Frontier(v, d),
           NEW e, e = d + 1, NEW w, w = StepDepth(a, b, v, e), NEW k \in Diagonals(e)
    PROVE  Stepped(a, b, v, w, k, d, e)
<1> DEFINE x == At(w, k)
           s == StartX(v, k, e)
           y == s - k
<1>0. k \in Int /\ (k # e => k + 1 \in Diagonals(d)) /\ (k # -e => k - 1 \in Diagonals(d))
  BY DiagonalMoves
<1>1. /\ s \in Nat /\ s - k \in Nat
      /\ CameFromAbove(v, k, e) => k + 1 \in Diagonals(d) /\ s = At(v, k + 1)
      /\ ~CameFromAbove(v, k, e) => k - 1 \in Diagonals(d) /\ s = At(v, k - 1) + 1
      /\ k # e => s >= At(v, k + 1)
      /\ k # -e => s >= At(v, k - 1) + 1
  BY StartIs
<1>2. x = EndOfSnake(a, b, s, y)
  BY NextFront
<1>3. /\ k # e => At(v, k + 1) \in Int
      /\ k # -e => At(v, k - 1) \in Int
  <2>1. \A j \in Diagonals(d) : At(v, j) \in Nat
    BY DEF Frontier
  <2> QED BY <1>0, <2>1
<1>4. y \in Nat /\ y = s - k
  BY <1>1
<1> HIDE DEF x, s, y
<1>5. /\ x \in Nat /\ s <= x
      /\ s < x => x <= Len(a) /\ y + (x - s) <= Len(b)
      /\ \A i \in 1..(x - s) : a[s + i] = b[y + i]
  <2>1. s \in Nat /\ y \in Nat
    BY <1>1, <1>4
  <2>2. SnakeTo(a, b, s, y, x)
    BY <1>2, <2>1, SnakeIs
  <2> QED BY <2>2 DEF SnakeTo
<1>6. y + (x - s) = x - k /\ x - k \in Nat
  BY <1>0, <1>1, <1>4, <1>5
<1>7. /\ k # e => x >= At(v, k + 1)
      /\ k # -e => x >= At(v, k - 1) + 1
  BY <1>1, <1>3, <1>5
<1> QED BY <1>0, <1>1, <1>4, <1>5, <1>6, <1>7 DEF x, s, Stepped

LEMMA DeepStep ==
    ASSUME NEW S, NEW a \in Seq(S), NEW b \in Seq(S), NEW d \in Nat, NEW v, Frontier(v, d),
           Deep(v, d), NEW e, e = d + 1, NEW w, w = StepDepth(a, b, v, e)
    PROVE  Deep(w, e)
<1> SUFFICES ASSUME NEW k \in Diagonals(e) PROVE 2 * At(w, k) - k >= e
  BY DEF Deep
<1>0. Stepped(a, b, v, w, k, d, e)
  BY StepIs
<1>1. At(w, k) \in Nat /\ k \in Int
  BY <1>0 DEF Stepped
<1>2. CASE CameFromAbove(v, k, e)
  <2>1. k + 1 \in Diagonals(d) /\ At(v, k + 1) <= At(w, k)
    BY <1>0, <1>2 DEF Stepped
  <2>2. At(v, k + 1) \in Nat /\ 2 * At(v, k + 1) - (k + 1) >= d
    BY <2>1 DEF Frontier, Deep
  <2> QED BY <1>1, <2>1, <2>2
<1>3. CASE ~CameFromAbove(v, k, e)
  <2>1. k - 1 \in Diagonals(d) /\ At(v, k - 1) + 1 <= At(w, k)
    BY <1>0, <1>3 DEF Stepped
  <2>2. At(v, k - 1) \in Nat /\ 2 * At(v, k - 1) - (k - 1) >= d
    BY <2>1 DEF Frontier, Deep
  <2> QED BY <1>1, <2>1, <2>2
<1> QED BY <1>2, <1>3

LEMMA FirstOver ==
    ASSUME NEW S, NEW a \in Seq(S), NEW b \in Seq(S), NEW v, Frontier(v, 0),
           At(v, 0) <= Len(a), At(v, 0) <= Len(b), NEW w, w = StepDepth(a, b, v, 1)
    PROVE  Over(a, b, v, w, 1)
<1>1. Diagonals(0) = {0}
  BY DEF Diagonals
<1>2. At(v, 0) \in Nat
  BY <1>1 DEF Frontier
<1> SUFFICES ASSUME NEW k \in Diagonals(1)
             PROVE  /\ At(w, k) > Len(a) => k # -1 /\ At(v, k - 1) >= At(w, k) - 1
                    /\ At(w, k) - k > Len(b) => k # 1 /\ At(v, k + 1) >= At(w, k)
  BY DEF Over
<1> DEFINE x == At(w, k)
           s == StartX(v, k, 1)
<1>3. /\ x \in Nat /\ k \in Int /\ s \in Nat /\ s <= x
      /\ s < x => x <= Len(a) /\ x - k <= Len(b)
      /\ \/ k + 1 \in Diagonals(0) /\ s = At(v, k + 1)
         \/ k - 1 \in Diagonals(0) /\ s = At(v, k - 1) + 1
  <2>1. 0 \in Nat /\ 1 = 0 + 1
    OBVIOUS
  <2>2. Stepped(a, b, v, w, k, 0, 1)
    BY <2>1, StepIs
  <2> QED BY <2>2 DEF Stepped
<1> HIDE DEF x, s
<1>4. Len(a) \in Nat /\ Len(b) \in Nat
  OBVIOUS
<1>5. CASE k + 1 = 0 /\ s = At(v, k + 1)
  BY <1>2, <1>3, <1>4, <1>5 DEF x
<1>6. CASE k - 1 = 0 /\ s = At(v, k - 1) + 1
  BY <1>2, <1>3, <1>4, <1>6 DEF x
<1> QED BY <1>1, <1>3, <1>5, <1>6

LEMMA NextOver ==
    ASSUME NEW S, NEW a \in Seq(S), NEW b \in Seq(S), NEW d \in Nat, NEW u, Frontier(u, d),
           NEW e, e = d + 1, NEW v, v = StepDepth(a, b, u, e), Over(a, b, u, v, e),
           NEW f, f = e + 1, NEW w, w = StepDepth(a, b, v, f)
    PROVE  Over(a, b, v, w, f)
<1>0. e \in Nat
  OBVIOUS
<1>1. Frontier(v, e)
  BY NextFront
<1> SUFFICES ASSUME NEW k \in Diagonals(f)
             PROVE  /\ At(w, k) > Len(a) => k # -f /\ At(v, k - 1) >= At(w, k) - 1
                    /\ At(w, k) - k > Len(b) => k # f /\ At(v, k + 1) >= At(w, k)
  BY DEF Over
<1> DEFINE x == At(w, k)
           s == StartX(v, k, f)
<1>2. /\ x \in Nat /\ k \in Int /\ s \in Nat /\ s <= x
      /\ s < x => x <= Len(a) /\ x - k <= Len(b)
      /\ \/ k + 1 \in Diagonals(e) /\ s = At(v, k + 1)
         \/ k - 1 \in Diagonals(e) /\ s = At(v, k - 1) + 1
  <2>1. Stepped(a, b, v, w, k, e, f)
    BY <1>0, <1>1, StepIs
  <2> QED BY <2>1 DEF Stepped
<1>3. k <= f /\ -f <= k /\ (k # -f => k - 1 \in Diagonals(e)) /\ (k # f => k + 1 \in Diagonals(e))
  BY <1>0, DiagonalMoves
<1> HIDE DEF x, s
<1>4. Len(a) \in Nat /\ Len(b) \in Nat
  OBVIOUS
<1>5. ASSUME NEW j \in Diagonals(e)
      PROVE  /\ At(v, j) \in Nat /\ j \in Int /\ j <= e /\ -e <= j
             /\ j # e => j + 1 \in Diagonals(d) /\ At(v, j) >= At(u, j + 1) /\ At(u, j + 1) \in Nat
             /\ j # -e => j - 1 \in Diagonals(d) /\ At(v, j) >= At(u, j - 1) + 1 /\ At(u, j - 1) \in Nat
             /\ At(v, j) > Len(a) => j # -e /\ At(u, j - 1) >= At(v, j) - 1
             /\ At(v, j) - j > Len(b) => j # e /\ At(u, j + 1) >= At(v, j)
  <2>1. /\ j \in Int /\ j <= e /\ -e <= j
        /\ j # e => j + 1 \in Diagonals(d)
        /\ j # -e => j - 1 \in Diagonals(d)
    BY DiagonalMoves
  <2>2. At(v, j) \in Nat
    BY <1>1 DEF Frontier
  <2>3. /\ j # e => At(v, j) >= At(u, j + 1)
        /\ j # -e => At(v, j) >= At(u, j - 1) + 1
    <3>1. Stepped(a, b, u, v, j, d, e)
      BY StepIs
    <3> QED BY <3>1 DEF Stepped
  <2>4. \A i \in Diagonals(d) : At(u, i) \in Nat
    BY DEF Frontier
  <2>5. /\ At(v, j) > Len(a) => j # -e /\ At(u, j - 1) >= At(v, j) - 1
        /\ At(v, j) - j > Len(b) => j # e /\ At(u, j + 1) >= At(v, j)
    BY DEF Over
  <2> QED BY <2>1, <2>2, <2>3, <2>4, <2>5
<1>6. CASE k + 1 \in Diagonals(e) /\ s = At(v, k + 1)
  <2>1. /\ At(v, k + 1) \in Nat /\ k + 1 <= e
        /\ At(v, k + 1) > Len(a) => k + 1 # -e /\ At(u, k) >= At(v, k + 1) - 1 
                                    /\ k \in Diagonals(d) /\ At(u, k) \in Nat
    <3>1. (k + 1) - 1 = k
      BY <1>2
    <3> QED BY <1>5, <1>6, <3>1
  <2>2. x > Len(a) => x = s /\ k # -f
    BY <1>2, <1>4, <1>6, <2>1
  <2>3. ASSUME x > Len(a) PROVE At(v, k - 1) >= x - 1
    <3>1. At(u, k) >= x - 1 /\ At(u, k) \in Nat /\ k + 1 # -e
      BY <1>6, <2>1, <2>2, <2>3
    <3>2. k - 1 \in Diagonals(e)
      BY <1>3, <2>2, <2>3
    <3>3. k - 1 # e /\ (k - 1) + 1 = k
      BY <1>2, <2>1
    <3>4. At(v, k - 1) >= At(u, k) /\ At(v, k - 1) \in Nat
      BY <1>5, <3>2, <3>3
    <3> QED BY <1>2, <3>1, <3>4
  <2>4. x - k > Len(b) => x = s /\ k # f
    BY <1>2, <1>4, <2>1
  <2> QED BY <1>2, <1>6, <2>1, <2>2, <2>3, <2>4 DEF x
<1>7. CASE k - 1 \in Diagonals(e) /\ s = At(v, k - 1) + 1
  <2>1. /\ At(v, k - 1) \in Nat /\ -e <= k - 1
        /\ At(v, k - 1) - (k - 1) > Len(b) => k - 1 # e /\ At(u, k) >= At(v, k - 1) 
                                    /\ k \in Diagonals(d) /\ At(u, k) \in Nat
    <3>1. (k - 1) + 1 = k
      BY <1>2
    <3> QED BY <1>5, <1>7, <3>1
  <2>2. x > Len(a) => x = s /\ k # -f
    BY <1>2, <1>4, <1>7, <2>1
  <2>3. x - k > Len(b) => x = s
    BY <1>2, <1>4
  <2>4. ASSUME x - k > Len(b) PROVE k # f /\ At(v, k + 1) >= x
    <3>1. At(v, k - 1) = x - 1
      BY <1>7, <2>1, <2>3, <2>4
    <3>2. At(v, k - 1) - (k - 1) > Len(b)
      <4>1. (x - 1) - (k - 1) = x - k
        BY <1>2
      <4> QED BY <2>4, <3>1, <4>1
    <3>3. k - 1 # e /\ At(u, k) >= x - 1 /\ At(u, k) \in Nat
      BY <2>1, <3>1, <3>2
    <3>4. k # f
      BY <1>2, <3>3
    <3>5. k + 1 \in Diagonals(e)
      BY <1>3, <3>4
    <3>6. k + 1 # -e /\ (k + 1) - 1 = k
      BY <1>2, <2>1
    <3>7. At(v, k + 1) >= At(u, k) + 1 /\ At(v, k + 1) \in Nat
      BY <1>5, <3>5, <3>6
    <3> QED BY <1>2, <3>3, <3>4, <3>7
  <2> QED BY <1>2, <1>7, <2>1, <2>2, <2>3, <2>4 DEF x
<1> QED BY <1>2, <1>6, <1>7

-----------------------------------------------------------------------------
(* Recursive functions exist; the rounds of the diff as one of them. *)

\* A function that is defined by recursion over the naturals is there, when each
\* value leads to a value.
Recursive(f, x0, H) == f = [n \in Nat |-> IF n = 0 THEN x0 ELSE H[n][f[n - 1]]]

LEMMA RecursionExists ==
    ASSUME NEW X, NEW x0 \in X, NEW H \in [Nat -> [X -> X]]
    PROVE  \E f \in [Nat -> X] : Recursive(f, x0, H)
<1> DEFINE Upto(n, g) ==
             /\ g \in [0..n -> X]
             /\ \A i \in 0..n : g[i] = IF i = 0 THEN x0 ELSE H[i][g[i - 1]]
           Told == {n \in Nat : \E g : Upto(n, g)}
           The(n) == CHOOSE g : Upto(n, g)
           f == [n \in Nat |-> The(n)[n]]
<1>1. 0 \in Told
  <2>1. Upto(0, [i \in 0..0 |-> x0])
    OBVIOUS
  <2> QED BY <2>1
<1>2. ASSUME NEW n \in Nat, n \in Told PROVE n + 1 \in Told
  <2>1. PICK g : Upto(n, g)
    BY <1>2
  <2> DEFINE h == [i \in 0..(n + 1) |-> IF i = n + 1 THEN H[n + 1][g[n]] ELSE g[i]]
  <2>2. ASSUME NEW i \in 0..(n + 1)
        PROVE  h[i] \in X /\ h[i] = IF i = 0 THEN x0 ELSE H[i][h[i - 1]]
    <3>1. CASE i = n + 1
      <4>1. H[n + 1] \in [X -> X] /\ g[n] \in X
        BY <2>1
      <4> QED BY <3>1, <4>1
    <3>2. CASE i # n + 1
      <4>1. i \in 0..n /\ (i # 0 => i - 1 \in 0..(n + 1) /\ i - 1 # n + 1) /\ h[i] = g[i]
        BY <3>2
      <4>2. i # 0 => h[i - 1] = g[i - 1]
        BY <4>1
      <4>3. g[i] \in X /\ g[i] = IF i = 0 THEN x0 ELSE H[i][g[i - 1]]
        BY <2>1, <4>1
      <4> QED BY <4>1, <4>2, <4>3
    <3> QED BY <3>1, <3>2
  <2>3. h \in [0..(n + 1) -> X]
    BY <2>2
  <2>4. Upto(n + 1, h)
    <3> HIDE DEF h
    <3> QED BY <2>2, <2>3
  <2> HIDE DEF Upto
  <2> QED BY <2>4
<1>3. \A n \in Nat : n \in Told
  <2> HIDE DEF Told
  <2> QED BY <1>1, <1>2, InductionOverNat
<1>4. \A n \in Nat : Upto(n, The(n))
  <2> HIDE DEF Upto
  <2> QED BY <1>3
<1>5. ASSUME NEW n \in Nat, NEW m \in Nat, NEW g, NEW h, Upto(n, g), Upto(m, h)
      PROVE  \A k \in Nat : k <= n /\ k <= m => g[k] = h[k]
  <2> DEFINE Same == {k \in Nat : k <= n /\ k <= m => g[k] = h[k]}
  <2>1. 0 \in Same
    <3>1. g[0] = x0 /\ h[0] = x0
      BY <1>5
    <3> QED BY <3>1
  <2>2. ASSUME NEW k \in Nat, k \in Same PROVE k + 1 \in Same
    <3> SUFFICES ASSUME k + 1 <= n, k + 1 <= m PROVE g[k + 1] = h[k + 1]
      OBVIOUS
    <3>1. g[k] = h[k] /\ (k + 1) - 1 = k /\ k + 1 # 0 /\ k + 1 \in 0..n /\ k + 1 \in 0..m
      BY <2>2
    <3>2. g[k + 1] = H[k + 1][g[(k + 1) - 1]] /\ h[k + 1] = H[k + 1][h[(k + 1) - 1]]
      BY <1>5, <3>1
    <3> QED BY <3>1, <3>2
  <2>3. \A k \in Nat : k \in Same
    <3> HIDE DEF Same
    <3> QED BY <2>1, <2>2, InductionOverNat
  <2> QED BY <2>3
<1>6. ASSUME NEW n \in Nat PROVE f[n] = IF n = 0 THEN x0 ELSE H[n][f[n - 1]]
  <2>1. f[n] = The(n)[n] /\ (n # 0 => n - 1 \in Nat /\ f[n - 1] = The(n - 1)[n - 1])
    <3>1. n # 0 => n - 1 \in Nat
      OBVIOUS
    <3> HIDE DEF The
    <3>2. \A k \in Nat : f[k] = The(k)[k]
      OBVIOUS
    <3> HIDE DEF f
    <3> QED BY <3>1, <3>2
  <2> HIDE DEF f, The
  <2>2. The(n)[n] = IF n = 0 THEN x0 ELSE H[n][The(n)[n - 1]]
    BY <1>4
  <2>3. ASSUME n # 0 PROVE The(n)[n - 1] = The(n - 1)[n - 1]
    <3>1. n - 1 \in Nat /\ n - 1 <= n /\ n - 1 <= n - 1
      BY <2>3
    <3>2. Upto(n, The(n)) /\ Upto(n - 1, The(n - 1))
      BY <1>4, <3>1
    <3> HIDE DEF Upto
    <3> QED BY <1>5, <3>1, <3>2
  <2> QED BY <2>1, <2>2, <2>3
<1>7. ASSUME NEW n \in Nat PROVE f[n] \in X
  <2>1. Upto(n, The(n)) /\ f[n] = The(n)[n]
    BY <1>4
  <2> HIDE DEF f, The
  <2> QED BY <2>1
<1>8. f = [n \in Nat |-> The(n)[n]]
  OBVIOUS
<1> HIDE DEF The, f
<1>9. f \in [Nat -> X]
  <2>1. \A n \in Nat : The(n)[n] \in X
    BY <1>7, <1>8
  <2> QED BY <1>8, <2>1
<1>10. f = [n \in Nat |-> IF n = 0 THEN x0 ELSE H[n][f[n - 1]]]
  <2>1. \A n \in Nat : The(n)[n] = IF n = 0 THEN x0 ELSE H[n][f[n - 1]]
    BY <1>6, <1>8
  <2> QED BY <1>8, <2>1
<1> QED BY <1>9, <1>10 DEF Recursive

\* The points after each number of edits, up to the first that reach both ends.
Points == SUBSET (Int \X Int)

IsTrace(a, b, trace) ==
    /\ trace \in Seq(Points) /\ Len(trace) >= 1 /\ trace[1] = {<<1, 0>>}
    /\ \A i \in 1..(Len(trace) - 1) :
          trace[i + 1] = StepDepth(a, b, trace[i], i - 1) /\ ~Arrives(a, b, trace[i])

\* What holds of the points after d edits, v, those before and those behind them.
Traced(a, b, trace, d) ==
    LET v == trace[d + 2]
    IN  /\ Frontier(v, d) /\ Deep(v, d)
        /\ d = 0 => /\ v = StepDepth(a, b, {<<1, 0>>}, 0)
                    /\ SnakeTo(a, b, 0, 0, At(v, 0))
        /\ d # 0 => /\ Frontier(trace[d + 1], d - 1)
                    /\ v = StepDepth(a, b, trace[d + 1], d)
                    /\ Over(a, b, trace[d + 1], v, d)

LEMMA TraceIs ==
    ASSUME NEW S, NEW a \in Seq(S), NEW b \in Seq(S), NEW trace, IsTrace(a, b, trace)
    PROVE  \A d \in Nat : d + 2 <= Len(trace) => Traced(a, b, trace, d)
<1> DEFINE Holds == {d \in Nat : d + 2 <= Len(trace) => Traced(a, b, trace, d)}
<1>0. Len(trace) \in Nat
  BY DEF IsTrace
<1>1. 0 \in Holds
  <2> SUFFICES ASSUME 0 + 2 <= Len(trace) PROVE Traced(a, b, trace, 0)
    OBVIOUS
  <2> DEFINE v == trace[2]
  <2>1. v = StepDepth(a, b, {<<1, 0>>}, 0)
    <3>1. 1 \in 1..(Len(trace) - 1) /\ 1 + 1 = 2 /\ 1 - 1 = 0
      BY <1>0
    <3>2. trace[1 + 1] = StepDepth(a, b, trace[1], 1 - 1)
      BY <3>1 DEF IsTrace
    <3>3. trace[1] = {<<1, 0>>}
      BY DEF IsTrace
    <3> QED BY <3>1, <3>2, <3>3
  <2> HIDE DEF v
  <2>2. Frontier(v, 0) /\ Diagonals(0) = {0} /\ At(v, 0) = EndOfSnake(a, b, 0, 0)
    BY <2>1, FirstFront
  <2>3. SnakeTo(a, b, 0, 0, At(v, 0))
    BY <2>2, SnakeIs
  <2>4. Deep(v, 0)
    <3>1. At(v, 0) \in Nat
      BY <2>3 DEF SnakeTo
    <3>2. 2 * At(v, 0) - 0 >= 0
      BY <3>1
    <3> QED BY <2>2, <3>2 DEF Deep
  <2>5. v = trace[0 + 2]
    BY DEF v
  <2> QED BY <2>1, <2>2, <2>3, <2>4, <2>5 DEF Traced
<1>2. ASSUME NEW d \in Nat, d \in Holds PROVE d + 1 \in Holds
  <2> SUFFICES ASSUME (d + 1) + 2 <= Len(trace) PROVE Traced(a, b, trace, d + 1)
    OBVIOUS
  <2> DEFINE v == trace[d + 2]
             w == trace[d + 3]
             e == d + 1
  <2>1. Traced(a, b, trace, d)
    BY <1>0, <1>2
  <2>2. w = StepDepth(a, b, v, e)
    <3>1. d + 2 \in 1..(Len(trace) - 1) /\ (d + 2) + 1 = d + 3 /\ (d + 2) - 1 = d + 1
      BY <1>0
    <3>2. trace[(d + 2) + 1] = StepDepth(a, b, trace[d + 2], (d + 2) - 1)
      BY <3>1 DEF IsTrace
    <3> QED BY <3>1, <3>2
  <2>3. w = trace[e + 2] /\ v = trace[e + 1] /\ e # 0
    <3>1. (d + 1) + 2 = d + 3 /\ (d + 1) + 1 = d + 2
      OBVIOUS
    <3> QED BY <3>1
  <2>4. e \in Nat /\ e = d + 1
    OBVIOUS
  <2>5. Frontier(v, d) /\ Deep(v, d)
    BY <2>1 DEF Traced
  <2> HIDE DEF e
  <2>6. Frontier(w, e) /\ Deep(w, e)
    <3> HIDE DEF v, w
    <3>1. Frontier(w, e)
      BY <2>2, <2>4, <2>5, NextFront
    <3>2. Deep(w, e)
      BY <2>2, <2>4, <2>5, DeepStep
    <3> QED BY <3>1, <3>2
  <2>7. Over(a, b, v, w, e)
    <3>1. CASE d = 0
      <4>1. SnakeTo(a, b, 0, 0, At(v, 0)) /\ Frontier(v, 0)
        BY <2>1, <3>1 DEF Traced
      <4> HIDE DEF v, w
      <4>2. At(v, 0) <= Len(a) /\ At(v, 0) <= Len(b)
        <5>1. Len(a) \in Nat /\ Len(b) \in Nat
          OBVIOUS
        <5> QED BY <4>1, <5>1 DEF SnakeTo
      <4>3. e = 1
        BY <2>4, <3>1
      <4>4. Over(a, b, v, w, 1)
        BY <2>2, <4>1, <4>2, <4>3, FirstOver
      <4> QED BY <4>3, <4>4
    <3>2. CASE d # 0
      <4> DEFINE u == trace[d + 1]
                 c == d - 1
      <4>1. v = StepDepth(a, b, u, d) /\ Over(a, b, u, v, d)
        BY <2>1, <3>2 DEF Traced
      <4>2. c \in Nat /\ d = c + 1
        BY <3>2
      <4>3. Frontier(u, c)
        BY <2>1, <3>2 DEF Traced
      <4> HIDE DEF u, v, w, c
      <4> QED BY <2>2, <2>4, <4>1, <4>2, <4>3, NextOver
    <3> QED BY <3>1, <3>2
  <2>8. Frontier(trace[e + 1], e - 1)
    <3>1. e - 1 = d
      BY <2>4
    <3> QED BY <2>3, <2>5, <3>1
  <2>9. Traced(a, b, trace, e)
    BY <2>2, <2>3, <2>6, <2>7, <2>8 DEF Traced
  <2> QED BY <2>9 DEF e
<1>3. \A d \in Nat : d \in Holds
  <2> HIDE DEF Holds
  <2> QED BY <1>1, <1>2, InductionOverNat
<1> QED BY <1>3

-----------------------------------------------------------------------------
(* The diff: its rounds arrive at the end, and first at a point of theirs. *)

TraceStep(a, b, trace) ==
    IF Arrives(a, b, Last(trace)) THEN trace
    ELSE Append(trace, StepDepth(a, b, Last(trace), Len(trace) - 1))

\* One more depth makes a trace of a trace.
LEMMA TraceGrows ==
    ASSUME NEW S, NEW a \in Seq(S), NEW b \in Seq(S), NEW trace, IsTrace(a, b, trace)
    PROVE  IsTrace(a, b, TraceStep(a, b, trace))
<1>0. trace \in Seq(Points) /\ Len(trace) \in Nat /\ Len(trace) >= 1
  BY DEF IsTrace
<1>1. CASE Arrives(a, b, Last(trace))
  BY <1>1 DEF TraceStep
<1>2. CASE ~Arrives(a, b, Last(trace))
  <2> DEFINE n == Len(trace)
             v == trace[n]
             w == StepDepth(a, b, v, n - 1)
  <2>1. Last(trace) = v
    BY DEF Last
  <2>2. Frontier(w, n - 1)
    <3>1. CASE n = 1
      <4>1. v = {<<1, 0>>} /\ n - 1 = 0
        BY <3>1 DEF IsTrace
      <4>2. w = StepDepth(a, b, {<<1, 0>>}, 0)
        BY <4>1
      <4> HIDE DEF w, n
      <4> QED BY <4>1, <4>2, FirstFront
    <3>2. CASE n # 1
      <4> DEFINE d == n - 2
                 e == n - 1
      <4>1. d \in Nat /\ e = d + 1 /\ d + 2 = n
        <5>1. \A m \in Nat : m >= 1 /\ m # 1 => m - 2 \in Nat /\ m - 1 = (m - 2) + 1 /\ (m - 2) + 2 = m
          OBVIOUS
        <5> QED BY <1>0, <3>2, <5>1
      <4>2. Traced(a, b, trace, d)
        BY <1>0, <4>1, TraceIs
      <4>3. Frontier(v, d)
        BY <4>1, <4>2 DEF Traced
      <4>4. w = StepDepth(a, b, v, e)
        OBVIOUS
      <4> HIDE DEF v, w, d, e
      <4>5. Frontier(w, e)
        BY <4>1, <4>3, <4>4, NextFront
      <4> QED BY <4>5 DEF e
    <3> QED BY <3>1, <3>2
  <2>3. w \in Points
    <3> HIDE DEF w, v
    <3>1. \A k \in Diagonals(n - 1) : k \in Int
      BY DEF Diagonals
    <3>2. ASSUME NEW p \in w PROVE p \in Int \X Int
      <4>1. p[1] \in Diagonals(n - 1) /\ p = <<p[1], At(w, p[1])>>
        BY <2>2, <3>2 DEF Frontier
      <4>2. At(w, p[1]) \in Nat
        BY <2>2, <4>1 DEF Frontier
      <4> QED BY <3>1, <4>1, <4>2
    <3> QED BY <3>2 DEF Points
  <2> DEFINE more == Append(trace, w)
  <2>4. TraceStep(a, b, trace) = more
    BY <1>2, <2>1 DEF TraceStep
  <2> HIDE DEF w
  <2>5. /\ more \in Seq(Points) /\ Len(more) = n + 1 /\ more[n + 1] = w
        /\ \A i \in 1..n : more[i] = trace[i]
    BY <1>0, <2>3
  <2> HIDE DEF more
  <2>6. ASSUME NEW i \in 1..n
        PROVE  more[i + 1] = StepDepth(a, b, more[i], i - 1) /\ ~Arrives(a, b, more[i])
    <3>1. CASE i = n
      <4>1. more[i + 1] = w /\ more[i] = v
        BY <1>0, <2>5, <3>1
      <4>2. w = StepDepth(a, b, v, i - 1)
        BY <3>1 DEF w
      <4>3. ~Arrives(a, b, v)
        BY <1>2, <2>1
      <4> HIDE DEF v
      <4> QED BY <4>1, <4>2, <4>3
    <3>2. CASE i # n
      <4>1. i \in 1..(n - 1) /\ i + 1 \in 1..n
        BY <1>0, <3>2
      <4>2. more[i] = trace[i] /\ more[i + 1] = trace[i + 1]
        BY <2>5, <4>1
      <4> QED BY <4>1, <4>2 DEF IsTrace
    <3> QED BY <3>1, <3>2
  <2>7. more[1] = {<<1, 0>>}
    <3>1. 1 \in 1..n
      BY <1>0
    <3> QED BY <2>5, <3>1 DEF IsTrace
  <2>8. Len(more) - 1 = n /\ Len(more) >= 1
    BY <1>0, <2>5
  <2> QED BY <2>4, <2>5, <2>6, <2>7, <2>8 DEF IsTrace
<1> QED BY <1>1, <1>2

Tracing(a, b, f) ==
    f = [n \in Nat |-> IF n = 0 THEN <<{<<1, 0>>}>> ELSE TraceStep(a, b, f[n - 1])]

LEMMA TracingExists ==
    ASSUME NEW S, NEW a \in Seq(S), NEW b \in Seq(S)
    PROVE  \E f : Tracing(a, b, f)
<1> DEFINE X == {t \in Seq(Points) : IsTrace(a, b, t)}
           x0 == <<{<<1, 0>>}>>
           H == [n \in Nat |-> [t \in X |-> TraceStep(a, b, t)]]
<1>1. x0 \in X
  <2>1. {<<1, 0>>} \in Points
    BY DEF Points
  <2>2. x0 \in Seq(Points) /\ Len(x0) = 1 /\ x0[1] = {<<1, 0>>}
    BY <2>1
  <2> HIDE DEF x0
  <2>3. 1..(Len(x0) - 1) = {}
    BY <2>2
  <2>4. IsTrace(a, b, x0)
    BY <2>2, <2>3 DEF IsTrace
  <2> QED BY <2>2, <2>4
<1>2. \A t \in X : TraceStep(a, b, t) \in X
  <2> TAKE t \in X
  <2>1. IsTrace(a, b, TraceStep(a, b, t))
    BY TraceGrows
  <2> QED BY <2>1 DEF IsTrace
<1> HIDE DEF X, x0
<1>3. H \in [Nat -> [X -> X]]
  BY <1>2
<1>4. \A n \in Nat : \A t \in X : H[n][t] = TraceStep(a, b, t)
  OBVIOUS
<1> HIDE DEF H
<1>5. PICK f \in [Nat -> X] : Recursive(f, x0, H)
  BY <1>1, <1>3, RecursionExists
<1>6. \A n \in Nat : n # 0 => H[n][f[n - 1]] = TraceStep(a, b, f[n - 1])
  <2> TAKE n \in Nat
  <2> HAVE n # 0
  <2>1. n - 1 \in Nat
    OBVIOUS
  <2>2. f[n - 1] \in X
    BY <1>5, <2>1
  <2> QED BY <1>4, <2>2
<1>7. \A n \in Nat : f[n] = IF n = 0 THEN x0 ELSE TraceStep(a, b, f[n - 1])
  <2> TAKE n \in Nat
  <2>1. f[n] = IF n = 0 THEN x0 ELSE H[n][f[n - 1]]
    BY <1>5 DEF Recursive
  <2> QED BY <1>6, <2>1
<1>8. f = [n \in Nat |-> IF n = 0 THEN x0 ELSE TraceStep(a, b, f[n - 1])]
  BY <1>5, <1>7 DEF Recursive
<1> QED BY <1>8 DEF Tracing, x0

\* After as many edits as there are items the ends are reached.
LEMMA DeepArrives ==
    ASSUME NEW S, NEW a \in Seq(S), NEW b \in Seq(S), NEW d, d = Len(a) + Len(b), NEW v,
           Frontier(v, d), Deep(v, d)
    PROVE  Arrives(a, b, v)
<1>0. Len(a) \in Nat /\ Len(b) \in Nat
  OBVIOUS
<1> DEFINE k == Len(a) - Len(b)
<1>1. k \in Diagonals(d)
  BY <1>0, LastDiagonal
<1>2. /\ At(v, k) \in Nat /\ <<k, At(v, k)>> \in v
      /\ 2 * At(v, k) - k >= d
  BY <1>1 DEF Frontier, Deep
<1>3. At(v, k) >= Len(a) /\ At(v, k) - k >= Len(b)
  BY <1>0, <1>2
<1> HIDE DEF k
<1> QED BY <1>2, <1>3 DEF Arrives

\* findMyersEditTrace: the front that arrives comes, and is the last.
LEMMA EditTraceIs ==
    ASSUME NEW S, NEW a \in Seq(S), NEW b \in Seq(S), NEW trace, trace = EditTrace(a, b)
    PROVE  IsTrace(a, b, trace) /\ Arrives(a, b, trace[Len(trace)]) /\ Len(trace) >= 2
<1> DEFINE after == CHOOSE f : Tracing(a, b, f)
           max == Len(a) + Len(b) + 1
<1>0. Len(a) \in Nat /\ Len(b) \in Nat /\ max \in Nat
  OBVIOUS
<1>1. Tracing(a, b, after)
  BY TracingExists
<1>2. trace = after[max]
  BY DEF EditTrace, Tracing, TraceStep
<1>3. \A n \in Nat : after[n] = IF n = 0 THEN <<{<<1, 0>>}>> ELSE TraceStep(a, b, after[n - 1])
  <2> HIDE DEF after
  <2> QED BY <1>1 DEF Tracing
<1> HIDE DEF after, max
<1> DEFINE Good(n) == /\ IsTrace(a, b, after[n])
                      /\ Arrives(a, b, Last(after[n])) \/ Len(after[n]) = n + 1
           Held == {n \in Nat : Good(n)}
<1>4. 0 \in Held
  <2> DEFINE x0 == <<{<<1, 0>>}>>
  <2>1. {<<1, 0>>} \in Points
    BY DEF Points
  <2>2. x0 \in Seq(Points) /\ Len(x0) = 1 /\ x0[1] = {<<1, 0>>} /\ x0 = after[0]
    BY <1>3, <2>1
  <2> HIDE DEF x0
  <2>3. 1..(Len(x0) - 1) = {}
    BY <2>2
  <2>4. IsTrace(a, b, x0)
    BY <2>2, <2>3 DEF IsTrace
  <2> QED BY <2>2, <2>4
<1>5. ASSUME NEW n \in Nat, n \in Held PROVE n + 1 \in Held
  <2>1. after[n + 1] = TraceStep(a, b, after[n])
    BY <1>3
  <2>2. IsTrace(a, b, after[n + 1])
    BY <1>5, <2>1, TraceGrows
  <2>3. CASE Arrives(a, b, Last(after[n]))
    <3>1. after[n + 1] = after[n]
      BY <2>1, <2>3 DEF TraceStep
    <3> QED BY <2>2, <2>3, <3>1
  <2>4. CASE ~Arrives(a, b, Last(after[n]))
    <3>1. after[n + 1] = Append(after[n], StepDepth(a, b, Last(after[n]), Len(after[n]) - 1))
      BY <2>1, <2>4 DEF TraceStep
    <3>2. Len(after[n]) = n + 1 /\ after[n] \in Seq(Points)
      BY <1>5, <2>4 DEF IsTrace
    <3>3. Len(after[n + 1]) = (n + 1) + 1
      BY <3>1, <3>2, <2>2 DEF IsTrace
    <3> QED BY <2>2, <3>3
  <2> QED BY <2>3, <2>4
<1>6. Good(max)
  <2>1. \A n \in Nat : n \in Held
    <3> HIDE DEF Held
    <3> QED BY <1>4, <1>5, InductionOverNat
  <2> QED BY <1>0, <2>1
<1>7. IsTrace(a, b, trace) /\ trace \in Seq(Points) /\ Len(trace) \in Nat /\ Len(trace) >= 1
  BY <1>2, <1>6 DEF IsTrace
<1>8. Last(trace) = trace[Len(trace)]
  BY DEF Last
<1>9. Arrives(a, b, trace[Len(trace)])
  <2>1. CASE Len(trace) # max + 1
    BY <1>2, <1>6, <1>8, <2>1
  <2>2. CASE Len(trace) = max + 1
    <3> DEFINE d == Len(a) + Len(b)
    <3>1. d \in Nat /\ d + 2 = Len(trace)
      BY <1>0, <2>2 DEF max
    <3>2. Traced(a, b, trace, d)
      BY <1>7, <3>1, TraceIs
    <3>3. Frontier(trace[Len(trace)], d) /\ Deep(trace[Len(trace)], d)
      BY <3>1, <3>2 DEF Traced
    <3> QED BY <3>3, DeepArrives
  <2> QED BY <2>1, <2>2
<1>10. Len(trace) # 1
  <2> SUFFICES ASSUME Len(trace) = 1 PROVE FALSE
    OBVIOUS
  <2>1. Arrives(a, b, {<<1, 0>>})
    BY <1>7, <1>9 DEF IsTrace
  <2>2. PICK p \in {<<1, 0>>} : p[2] >= Len(a) /\ p[2] - p[1] >= Len(b)
    BY <2>1 DEF Arrives
  <2> QED BY <1>0, <2>2
<1>11. \A m \in Nat : m >= 1 /\ m # 1 => m >= 2
  OBVIOUS
<1>12. Len(trace) >= 2
  BY <1>7, <1>10, <1>11
<1> QED BY <1>7, <1>9, <1>12

\* And it arrives at both ends, behind neither.
LEMMA ArrivalIsExact ==
    ASSUME NEW S, NEW a \in Seq(S), NEW b \in Seq(S), NEW trace, IsTrace(a, b, trace),
           NEW d \in Nat, d + 2 = Len(trace), Arrives(a, b, trace[d + 2])
    PROVE  /\ Len(a) - Len(b) \in Diagonals(d)
           /\ At(trace[d + 2], Len(a) - Len(b)) = Len(a)
<1>0. Len(a) \in Nat /\ Len(b) \in Nat /\ Len(trace) \in Nat
  BY DEF IsTrace
<1> DEFINE v == trace[d + 2]
           u == trace[d + 1]
<1>1. Traced(a, b, trace, d)
  BY <1>0, TraceIs
<1>2. PICK p \in v : p[2] >= Len(a) /\ p[2] - p[1] >= Len(b)
  BY DEF Arrives
<1> DEFINE k == p[1]
           x == At(v, k)
<1>3. k \in Diagonals(d) /\ x \in Nat /\ x = p[2]
  <2>1. Frontier(v, d)
    BY <1>1 DEF Traced
  <2> HIDE DEF v
  <2>2. p[1] \in Diagonals(d) /\ p = <<p[1], At(v, p[1])>>
    BY <1>2, <2>1 DEF Frontier
  <2> QED BY <2>1, <2>2 DEF Frontier
<1>4. k \in Int
  BY <1>3 DEF Diagonals
<1>5. x >= Len(a) /\ x - k >= Len(b)
  BY <1>2, <1>3
<1>6. x = Len(a) /\ x - k = Len(b)
  <2>1. CASE d = 0
    <3>1. SnakeTo(a, b, 0, 0, At(v, 0))
      BY <1>1, <2>1 DEF Traced
    <3>2. k = 0
      <4>1. Diagonals(0) = {0}
        BY DEF Diagonals
      <4> QED BY <1>3, <2>1, <4>1
    <3>3. SnakeTo(a, b, 0, 0, x)
      BY <3>1, <3>2
    <3> HIDE DEF x, v, k
    <3>4. 0 < x => x <= Len(a) /\ 0 + (x - 0) <= Len(b)
      BY <3>3 DEF SnakeTo
    <3> QED BY <1>0, <1>3, <1>5, <3>2, <3>4
  <2>2. CASE d # 0
    <3>1. Frontier(u, d - 1) /\ Over(a, b, u, v, d)
      BY <1>1, <2>2 DEF Traced
    <3>2. ~Arrives(a, b, u)
      <4>1. d + 1 \in 1..(Len(trace) - 1)
        BY <1>0
      <4> QED BY <4>1 DEF IsTrace
    <3>3. /\ k <= d /\ -d <= k
          /\ k # d => k + 1 \in Diagonals(d - 1)
          /\ k # -d => k - 1 \in Diagonals(d - 1)
      <4> DEFINE c == d - 1
      <4>1. c \in Nat /\ d = c + 1
        BY <2>2
      <4> HIDE DEF c, k
      <4>2. /\ k <= d /\ -d <= k
            /\ k # d => k + 1 \in Diagonals(c)
            /\ k # -d => k - 1 \in Diagonals(c)
        BY <1>3, <4>1, DiagonalMoves
      <4> QED BY <4>2 DEF c
    <3>4. /\ x > Len(a) => k # -d /\ At(u, k - 1) >= x - 1
          /\ x - k > Len(b) => k # d /\ At(u, k + 1) >= x
      BY <1>3, <3>1 DEF Over
    <3> HIDE DEF u, v, x, k
    <3>5. ASSUME NEW j \in Diagonals(d - 1), j \in Int, At(u, j) >= Len(a), At(u, j) - j >= Len(b)
          PROVE  FALSE
      <4>1. <<j, At(u, j)>> \in u
        BY <3>1 DEF Frontier
      <4>2. Arrives(a, b, u)
        BY <3>5, <4>1 DEF Arrives
      <4> QED BY <3>2, <4>2
    <3>6. \A j \in Diagonals(d - 1) : At(u, j) \in Nat
      BY <3>1 DEF Frontier
    <3>7. ~(x > Len(a))
      <4> SUFFICES ASSUME x > Len(a) PROVE FALSE
        OBVIOUS
      <4>1. k - 1 \in Diagonals(d - 1) /\ At(u, k - 1) >= x - 1
        BY <3>3, <3>4
      <4>2. At(u, k - 1) \in Nat
        BY <3>6, <4>1
      <4>3. At(u, k - 1) >= Len(a) /\ At(u, k - 1) - (k - 1) >= Len(b) /\ k - 1 \in Int
        BY SMTT(30), <1>0, <1>3, <1>4, <1>5, <4>1, <4>2
      <4> QED BY <3>5, <4>1, <4>3
    <3>8. ~(x - k > Len(b))
      <4> SUFFICES ASSUME x - k > Len(b) PROVE FALSE
        OBVIOUS
      <4>1. k + 1 \in Diagonals(d - 1) /\ At(u, k + 1) >= x
        BY <3>3, <3>4
      <4>2. At(u, k + 1) \in Nat
        BY <3>6, <4>1
      <4>3. At(u, k + 1) >= Len(a) /\ At(u, k + 1) - (k + 1) >= Len(b) /\ k + 1 \in Int
        BY <1>0, <1>3, <1>4, <1>5, <4>1, <4>2
      <4> QED BY <3>5, <4>1, <4>3
    <3> QED BY <1>0, <1>3, <1>4, <1>5, <3>7, <3>8
  <2> QED BY <2>1, <2>2
<1> HIDE DEF x, k
<1>7. k = Len(a) - Len(b)
  BY <1>0, <1>3, <1>4, <1>6
<1> QED BY <1>3, <1>6, <1>7 DEF x

-----------------------------------------------------------------------------
(* The diff: the way back from the end, leg by leg. *)

\* A point of the front after d edits.
OnFront(trace, d, p) ==
    LET k == p[1] - p[2]
    IN  /\ p \in Nat \X Nat
        /\ k \in Diagonals(d) /\ p[1] = At(trace[d + 2], k)

\* What lies between a point and the one an edit less leads to: that edit, and a snake.
Leg(a, b, from, to) ==
    LET n == Lesser(from[1] - to[1], from[2] - to[2])
    IN  /\ n \in Nat /\ to[1] + n <= from[1] /\ to[2] + n <= from[2]
        /\ n # 0 => from[1] <= Len(a) /\ from[2] <= Len(b)
        /\ \A i \in 0..(n - 1) : a[from[1] - i] = b[from[2] - i]

\* Each step back is one.
LEMMA StepBack ==
    ASSUME NEW S, NEW a \in Seq(S), NEW b \in Seq(S), NEW trace, IsTrace(a, b, trace),
           NEW d \in Nat, NEW e, e = d + 1, e + 2 <= Len(trace), NEW p, OnFront(trace, e, p),
           NEW q, q = PointBefore(trace[e + 1], e, p)
    PROVE  OnFront(trace, d, q) /\ Leg(a, b, p, q)
<1> DEFINE v == trace[e + 1]
           w == trace[e + 2]
           k == p[1] - p[2]
           j == IF CameFromAbove(v, k, e) THEN k + 1 ELSE k - 1
           x == At(w, k)
           s == StartX(v, k, e)
<1>0. e \in Nat /\ e # 0 /\ e - 1 = d /\ d + 2 = e + 1
  OBVIOUS
<1>1. Frontier(v, d) /\ w = StepDepth(a, b, v, e)
  <2>1. Traced(a, b, trace, e)
    BY <1>0, TraceIs
  <2> QED BY <1>0, <2>1 DEF Traced
<1>2. p \in Nat \X Nat /\ k \in Diagonals(e) /\ p[1] = x
  BY DEF OnFront
<1>3. Stepped(a, b, v, w, k, d, e)
  <2> HIDE DEF v, w, k
  <2> QED BY <1>1, <1>2, StepIs
<1>4. q = <<At(v, j), At(v, j) - j>>
  BY DEF PointBefore
<1> HIDE DEF v, w
<1>5. /\ x \in Nat /\ x - k \in Nat /\ k \in Int /\ s \in Nat /\ s - k \in Nat /\ s <= x
      /\ s < x => x <= Len(a) /\ x - k <= Len(b)
      /\ \A i \in 1..(x - s) : a[s + i] = b[s - k + i]
      /\ \/ j = k + 1 /\ j \in Diagonals(d) /\ s = At(v, j)
         \/ j = k - 1 /\ j \in Diagonals(d) /\ s = At(v, j) + 1
  <2> HIDE DEF k, x, s
  <2> QED BY <1>3 DEF Stepped, x, s
<1>6. At(v, j) \in Nat /\ At(v, j) - j \in Nat
  <2> HIDE DEF j
  <2> QED BY <1>1, <1>5 DEF Frontier
<1>7. p[2] = x - k /\ p[1] \in Nat /\ p[2] \in Nat
  BY <1>2
<1> HIDE DEF x, k, s, j
<1>20. x \in Nat /\ k \in Int /\ s \in Nat /\ s <= x
  BY <1>5
<1>13. x - s \in Nat
  BY <1>20
<1>8. q[1] - q[2] = j
  <2>1. j \in Int
    BY <1>5
  <2> QED BY <1>4, <1>6, <2>1
<1>9. OnFront(trace, d, q)
  <2>1. trace[d + 2] = v
    BY <1>0 DEF v
  <2> QED BY <1>4, <1>5, <1>6, <1>8, <2>1 DEF OnFront
<1>10. /\ Lesser(p[1] - q[1], p[2] - q[2]) = x - s
       /\ q[1] + (x - s) <= p[1] /\ q[2] + (x - s) <= p[2]
  <2>1. CASE j = k + 1 /\ s = At(v, j)
    <3>1. q[1] = s /\ q[2] = s - (k + 1)
      BY <1>4, <2>1
    <3>2. /\ p[1] - q[1] = x - s /\ p[2] - q[2] = (x - s) + 1
          /\ q[1] + (x - s) = p[1] /\ q[2] + (x - s) + 1 = p[2]
      BY SMTT(30), <1>2, <1>20, <1>7, <3>1
    <3>3. x - s < (x - s) + 1 /\ q[2] \in Int /\ p[2] \in Int
      BY <1>2, <1>20, <1>7, <3>1
    <3> QED BY <1>2, <1>13, <1>7, <3>2, <3>3, SMTT(30) DEF Lesser
  <2>2. CASE j = k - 1 /\ s = At(v, j) + 1
    <3>1. q[1] = s - 1 /\ q[2] = (s - 1) - (k - 1)
      BY <1>4, <1>6, <2>2, SMTT(30)
    <3>5. /\ x - (s - 1) = (x - s) + 1 /\ (x - k) - ((s - 1) - (k - 1)) = x - s
          /\ (s - 1) + (x - s) + 1 = x /\ ((s - 1) - (k - 1)) + (x - s) = x - k
      BY <1>20
    <3>2. /\ p[1] - q[1] = (x - s) + 1 /\ p[2] - q[2] = x - s
          /\ q[1] + (x - s) + 1 = p[1] /\ q[2] + (x - s) = p[2]
      BY <1>2, <1>7, <3>1, <3>5
    <3>3. ~((x - s) + 1 < x - s)
      BY <1>13
    <3>4. q[1] \in Int /\ p[1] \in Int
      BY <1>20, <1>7, <3>1
    <3> QED BY SMTT(30), <1>13, <1>7, <3>2, <3>3, <3>4 DEF Lesser
  <2> QED BY <1>5, <2>1, <2>2
<1>11. ASSUME NEW i \in 0..((x - s) - 1) PROVE a[p[1] - i] = b[p[2] - i]
  <2>1. (x - s) - i \in 1..(x - s)
    BY <1>5
  <2>2. a[s + ((x - s) - i)] = b[s - k + ((x - s) - i)]
    BY <1>5, <2>1
  <2>3. s + ((x - s) - i) = x - i /\ s - k + ((x - s) - i) = (x - k) - i
    BY <1>5
  <2> QED BY <1>2, <1>7, <2>2, <2>3
<1>12. x - s # 0 => p[1] <= Len(a) /\ p[2] <= Len(b)
  BY <1>2, <1>5, <1>7
<1>14. Leg(a, b, p, q)
  BY <1>10, <1>11, <1>12, <1>13 DEF Leg
<1> QED BY <1>9, <1>14

\* The last leg: the snake from both starts.
LEMMA LastLeg ==
    ASSUME NEW S, NEW a \in Seq(S), NEW b \in Seq(S), NEW trace, IsTrace(a, b, trace),
           2 <= Len(trace), NEW p, OnFront(trace, 0, p)
    PROVE  Leg(a, b, p, <<0, 0>>)
<1> DEFINE x == At(trace[2], 0)
<1>1. SnakeTo(a, b, 0, 0, x)
  <2>1. 0 + 2 = 2 /\ 0 + 2 <= Len(trace) /\ 0 \in Nat
    OBVIOUS
  <2>2. Traced(a, b, trace, 0)
    BY <2>1, TraceIs
  <2> QED BY <2>1, <2>2 DEF Traced
<1>2. p \in Nat \X Nat /\ p[1] - p[2] = 0 /\ p[1] = x
  <2>1. Diagonals(0) = {0} /\ 0 + 2 = 2
    BY DEF Diagonals
  <2> QED BY <2>1 DEF OnFront
<1> HIDE DEF x
<1>3. x \in Nat /\ p[1] = x /\ p[2] = x
  BY <1>2
<1>4. /\ 0 < x => x <= Len(a) /\ 0 + (x - 0) <= Len(b)
      /\ \A i \in 1..(x - 0) : a[0 + i] = b[0 + i]
  BY <1>1 DEF SnakeTo
<1> DEFINE o == <<0, 0>>
<1>5. o[1] = 0 /\ o[2] = 0
  OBVIOUS
<1> HIDE DEF o
<1>6. Lesser(p[1] - o[1], p[2] - o[2]) = x
  BY <1>3, <1>5 DEF Lesser
<1>7. \A i \in 0..(x - 1) : a[p[1] - i] = b[p[2] - i]
  <2> TAKE i \in 0..(x - 1)
  <2>1. x - i \in 1..(x - 0) /\ 0 + (x - i) = x - i
    BY <1>3
  <2> QED BY <1>3, <1>4, <2>1
<1>8. x # 0 => p[1] <= Len(a) /\ p[2] <= Len(b)
  BY <1>3, <1>4
<1>9. o[1] + x <= p[1] /\ o[2] + x <= p[2]
  BY <1>3, <1>5
<1>10. Leg(a, b, p, o)
  BY <1>3, <1>6, <1>7, <1>8, <1>9 DEF Leg
<1> QED BY <1>10 DEF o

\* The way back, from both ends to the first front.
WayBack(trace, a, b, found, at) ==
    at = [d \in 0..found |-> IF d = found THEN <<Len(a), Len(b)>>
                             ELSE PointBefore(trace[d + 2], d + 1, at[d + 1])]

LEMMA WayBackExists ==
    ASSUME NEW trace, NEW a, NEW b, NEW found \in Nat
    PROVE  \E at : WayBack(trace, a, b, found, at)
<1> DEFINE Down(n, g) ==
             /\ DOMAIN g = (found - n)..found
             /\ \A d \in (found - n)..found :
                   g[d] = IF d = found THEN <<Len(a), Len(b)>>
                          ELSE PointBefore(trace[d + 2], d + 1, g[d + 1])
           Told == {n \in Nat : n <= found => \E g : Down(n, g)}
<1>1. 0 \in Told
  <2> DEFINE g == [d \in (found - 0)..found |-> <<Len(a), Len(b)>>]
  <2>1. Down(0, g)
    OBVIOUS
  <2> QED BY <2>1
<1>2. ASSUME NEW n \in Nat, n \in Told PROVE n + 1 \in Told
  <2> SUFFICES ASSUME n + 1 <= found PROVE \E g : Down(n + 1, g)
    OBVIOUS
  <2>1. PICK g : Down(n, g)
    BY <1>2, SMTT(30)
  <2> DEFINE low == found - (n + 1)
             h == [d \in low..found |-> IF d = low THEN PointBefore(trace[low + 2], low + 1, g[low + 1])
                                        ELSE g[d]]
  <2>2. ASSUME NEW d \in low..found
        PROVE  h[d] = IF d = found THEN <<Len(a), Len(b)>>
                      ELSE PointBefore(trace[d + 2], d + 1, h[d + 1])
    <3>1. CASE d = low
      <4>1. d # found /\ d + 1 \in low..found /\ d + 1 # low
        BY <3>1
      <4>2. h[d + 1] = g[d + 1]
        BY <4>1
      <4> QED BY <3>1, <4>1, <4>2
    <3>2. CASE d # low
      <4>1. d \in (found - n)..found /\ (d # found => d + 1 \in low..found /\ d + 1 # low)
        BY <3>2
      <4>2. d # found => h[d + 1] = g[d + 1]
        BY <4>1
      <4>3. h[d] = g[d]
        BY <3>2
      <4>4. g[d] = IF d = found THEN <<Len(a), Len(b)>> ELSE PointBefore(trace[d + 2], d + 1, g[d + 1])
        BY <2>1, <4>1
      <4> QED BY <4>1, <4>2, <4>3, <4>4
    <3> QED BY <3>1, <3>2
  <2>3. DOMAIN h = low..found
    OBVIOUS
  <2> HIDE DEF h
  <2>4. Down(n + 1, h)
    BY <2>2, <2>3
  <2> QED BY <2>4
<1>3. \E g : Down(found, g)
  <2>1. \A n \in Nat : n \in Told
    <3> HIDE DEF Told
    <3> QED BY <1>1, <1>2, InductionOverNat
  <2>2. found <= found /\ found \in Told
    <3> HIDE DEF Told
    <3> QED BY <2>1
  <2> HIDE DEF Down
  <2> QED BY <2>2
<1>4. PICK g : Down(found, g)
  BY <1>3
<1>5. found - found = 0
  OBVIOUS
<1> DEFINE at == [d \in 0..found |-> g[d]]
<1>6. \A d \in 0..found : at[d] = IF d = found THEN <<Len(a), Len(b)>>
                                   ELSE PointBefore(trace[d + 2], d + 1, at[d + 1])
  <2> TAKE d \in 0..found
  <2>1. d # found => d + 1 \in 0..found
    OBVIOUS
  <2>2. g[d] = IF d = found THEN <<Len(a), Len(b)>> ELSE PointBefore(trace[d + 2], d + 1, g[d + 1])
    BY <1>4, <1>5
  <2>3. at[d] = g[d] /\ (d # found => at[d + 1] = g[d + 1])
    BY <2>1
  <2> HIDE DEF at
  <2> QED BY <2>2, <2>3
<1>7. WayBack(trace, a, b, found, at)
  <2>1. at = [d \in 0..found |-> at[d]]
    OBVIOUS
  <2> HIDE DEF at
  <2> QED BY <1>6, <2>1 DEF WayBack
<1> QED BY <1>7

-----------------------------------------------------------------------------
(* The diff: the pairs matched on a leg, and on the way back. *)

\* Pairs of places of a and b that hold the same, in the same order in both.
Common(a, b, pairs) ==
    /\ pairs \subseteq (1..Len(a)) \X (1..Len(b))
    /\ \A m \in pairs : a[m[1]] = b[m[2]]
    /\ \A m, n \in pairs : m[1] < n[1] <=> m[2] < n[2]

\* A pair of the snake of a leg.
OnLeg(a, b, p, q, m) ==
    /\ m \in (1..Len(a)) \X (1..Len(b)) /\ a[m[1]] = b[m[2]]
    /\ q[1] < m[1] /\ m[1] <= p[1] /\ q[2] < m[2] /\ m[2] <= p[2]
    /\ m[1] - m[2] = p[1] - p[2]

LEMMA LegPairs ==
    ASSUME NEW S, NEW a \in Seq(S), NEW b \in Seq(S), NEW p \in Nat \X Nat, NEW q \in Nat \X Nat,
           Leg(a, b, p, q), NEW m \in Snake(p[1], p[2], Lesser(p[1] - q[1], p[2] - q[2]))
    PROVE  OnLeg(a, b, p, q, m)
<1> DEFINE n == Lesser(p[1] - q[1], p[2] - q[2])
<1>0. Len(a) \in Nat /\ Len(b) \in Nat
  OBVIOUS
<1>1. PICK i \in 0..(n - 1) : m = <<p[1] - i, p[2] - i>>
  BY DEF Snake
<1>2. /\ n \in Nat /\ q[1] + n <= p[1] /\ q[2] + n <= p[2]
      /\ n # 0 => p[1] <= Len(a) /\ p[2] <= Len(b)
      /\ \A j \in 0..(n - 1) : a[p[1] - j] = b[p[2] - j]
  BY DEF Leg
<1> HIDE DEF n
<1> DEFINE x == p[1]
           y == p[2]
           u == q[1]
           w == q[2]
<1>3. x \in Nat /\ y \in Nat /\ u \in Nat /\ w \in Nat
  OBVIOUS
<1>4. i \in Nat /\ i < n /\ u + n <= x /\ w + n <= y /\ x <= Len(a) /\ y <= Len(b)
  BY <1>1, <1>2
<1>5. a[x - i] = b[y - i] /\ m = <<x - i, y - i>>
  BY <1>1, <1>2
<1> HIDE DEF x, y, u, w
<1>6. /\ x - i \in 1..Len(a) /\ y - i \in 1..Len(b) /\ u < x - i /\ w < y - i
      /\ x - i <= x /\ y - i <= y /\ (x - i) - (y - i) = x - y
  BY <1>0, <1>2, <1>3, <1>4
<1>7. m[1] = x - i /\ m[2] = y - i
  BY <1>5
<1> QED BY <1>5, <1>6, <1>7 DEF OnLeg, x, y, u, w

\* The points of the way back.
LEMMA WayBackIs ==
    ASSUME NEW S, NEW a \in Seq(S), NEW b \in Seq(S), NEW trace, IsTrace(a, b, trace),
           NEW found \in Nat, found + 2 = Len(trace), Arrives(a, b, trace[found + 2]),
           NEW at, WayBack(trace, a, b, found, at)
    PROVE  /\ \A d \in 0..found : OnFront(trace, d, at[d])
           /\ \A d \in 1..found : Leg(a, b, at[d], at[d - 1])
           /\ Leg(a, b, at[0], <<0, 0>>)
<1>0. Len(a) \in Nat /\ Len(b) \in Nat /\ Len(trace) \in Nat
  BY DEF IsTrace
<1>1. \A d \in 0..found : at[d] = IF d = found THEN <<Len(a), Len(b)>>
                                   ELSE PointBefore(trace[d + 2], d + 1, at[d + 1])
  BY DEF WayBack
<1> DEFINE Down == {n \in Nat : n <= found => OnFront(trace, found - n, at[found - n])}
<1>2. 0 \in Down
  <2>1. /\ Len(a) - Len(b) \in Diagonals(found)
        /\ At(trace[found + 2], Len(a) - Len(b)) = Len(a)
    BY ArrivalIsExact
  <2>2. at[found] = <<Len(a), Len(b)>>
    BY <1>1
  <2>3. OnFront(trace, found, at[found])
    BY <1>0, <2>1, <2>2 DEF OnFront
  <2>4. found - 0 = found
    OBVIOUS
  <2> QED BY <2>3, <2>4
<1>3. ASSUME NEW d \in Nat, NEW e, e = d + 1, e <= found, OnFront(trace, e, at[e])
      PROVE  OnFront(trace, d, at[d]) /\ Leg(a, b, at[e], at[d])
  <2>1. d \in 0..found /\ d # found /\ d + 2 = e + 1 /\ e + 2 <= Len(trace)
    BY <1>0, <1>3
  <2>2. at[d] = PointBefore(trace[e + 1], e, at[e])
    BY <1>1, <1>3, <2>1
  <2> QED BY <1>3, <2>1, <2>2, StepBack
<1>4. ASSUME NEW n \in Nat, n \in Down PROVE n + 1 \in Down
  <2> SUFFICES ASSUME n + 1 <= found PROVE OnFront(trace, found - (n + 1), at[found - (n + 1)])
    OBVIOUS
  <2> DEFINE e == found - n
             d == found - (n + 1)
  <2>1. d \in Nat /\ e = d + 1 /\ e <= found
    OBVIOUS
  <2>2. OnFront(trace, e, at[e])
    BY <1>4
  <2> HIDE DEF d, e
  <2>3. OnFront(trace, d, at[d])
    BY <1>3, <2>1, <2>2
  <2> QED BY <2>3 DEF d
<1>5. \A n \in Nat : n \in Down
  <2> HIDE DEF Down
  <2> QED BY <1>2, <1>4, InductionOverNat
<1>6. ASSUME NEW d \in 0..found PROVE OnFront(trace, d, at[d])
  <2>1. found - d \in Nat /\ found - d <= found /\ found - (found - d) = d
    OBVIOUS
  <2>2. found - d \in Down
    BY <1>5, <2>1
  <2> QED BY <2>1, <2>2
<1>7. ASSUME NEW d \in 1..found PROVE Leg(a, b, at[d], at[d - 1])
  <2>1. d - 1 \in Nat /\ d = (d - 1) + 1 /\ d <= found /\ d \in 0..found
    OBVIOUS
  <2> QED BY <1>3, <1>6, <2>1
<1>8. Leg(a, b, at[0], <<0, 0>>)
  <2>1. 0 \in 0..found /\ 2 <= Len(trace)
    BY <1>0
  <2> QED BY <1>6, <2>1, LastLeg
<1> QED BY <1>6, <1>7, <1>8

\* backtrackMyersMatches.
LEMMA BacktrackIs ==
    ASSUME NEW S, NEW a \in Seq(S), NEW b \in Seq(S), NEW trace, IsTrace(a, b, trace),
           Len(trace) >= 2, Arrives(a, b, trace[Len(trace)])
    PROVE  Common(a, b, Backtrack(trace, a, b))
<1> DEFINE found == Len(trace) - 2
           at == CHOOSE f : WayBack(trace, a, b, found, f)
           To(d) == IF d = 0 THEN <<0, 0>> ELSE at[d - 1]
           Run(d) == Snake(at[d][1], at[d][2], Lesser(at[d][1] - To(d)[1], at[d][2] - To(d)[2]))
<1>0. found \in Nat /\ found + 2 = Len(trace)
  BY DEF IsTrace
<1>1. WayBack(trace, a, b, found, at)
  <2> HIDE DEF found
  <2> QED BY <1>0, WayBackExists
<1>2. Backtrack(trace, a, b) = UNION {Run(d) : d \in 0..found}
  BY DEF Backtrack, WayBack
<1> HIDE DEF at
<1>3. /\ \A d \in 0..found : OnFront(trace, d, at[d])
      /\ \A d \in 1..found : Leg(a, b, at[d], at[d - 1])
      /\ Leg(a, b, at[0], <<0, 0>>)
  <2>1. Arrives(a, b, trace[found + 2])
    BY <1>0
  <2> HIDE DEF found
  <2> QED BY <1>0, <1>1, <2>1, WayBackIs
<1> HIDE DEF found
<1>4. \A d \in 0..found : at[d] \in Nat \X Nat /\ To(d) \in Nat \X Nat /\ Leg(a, b, at[d], To(d))
  <2> TAKE d \in 0..found
  <2>1. \A c \in 0..found : at[c] \in Nat \X Nat
    BY <1>3 DEF OnFront
  <2>2. d # 0 => d - 1 \in 0..found /\ d \in 1..found
    BY <1>0
  <2> QED BY <1>3, <2>1, <2>2
<1>5. ASSUME NEW d \in 0..found, NEW m \in Run(d) PROVE OnLeg(a, b, at[d], To(d), m)
  <2> DEFINE q == To(d)
  <2>1. at[d] \in Nat \X Nat /\ q \in Nat \X Nat /\ Leg(a, b, at[d], q)
    BY <1>4
  <2>2. m \in Snake(at[d][1], at[d][2], Lesser(at[d][1] - q[1], at[d][2] - q[2]))
    BY <1>5
  <2> HIDE DEF q
  <2>3. OnLeg(a, b, at[d], q, m)
    BY <2>1, <2>2, LegPairs
  <2> QED BY <2>3 DEF q
<1>6. ASSUME NEW d \in 1..found
      PROVE  at[d - 1][1] <= at[d][1] /\ at[d - 1][2] <= at[d][2]
  <2>1. d \in 0..found /\ d - 1 \in 0..found
    BY <1>0
  <2>2. at[d] \in Nat \X Nat /\ at[d - 1] \in Nat \X Nat /\ Leg(a, b, at[d], at[d - 1])
    BY <1>3, <1>4, <2>1
  <2> DEFINE p == at[d]
             q == at[d - 1]
  <2>3. p[1] \in Nat /\ p[2] \in Nat /\ q[1] \in Nat /\ q[2] \in Nat
    BY <2>2
  <2>4. \E n \in Nat : q[1] + n <= p[1] /\ q[2] + n <= p[2]
    BY <2>2 DEF Leg
  <2> HIDE DEF p, q
  <2>5. q[1] <= p[1] /\ q[2] <= p[2]
    BY SMTT(30), <2>3, <2>4
  <2> QED BY <2>5 DEF p, q
<1>7. ASSUME NEW c \in 0..found, NEW d \in 0..found, c <= d
      PROVE  at[c][1] <= at[d][1] /\ at[c][2] <= at[d][2]
  <2>0. \A e \in 0..found : at[e][1] \in Nat /\ at[e][2] \in Nat
    BY <1>4
  <2> DEFINE Up == {n \in Nat : c + n <= found => at[c][1] <= at[c + n][1] /\ at[c][2] <= at[c + n][2]}
  <2>1. 0 \in Up
    <3>1. c + 0 = c
      OBVIOUS
    <3>2. at[c][1] <= at[c][1] /\ at[c][2] <= at[c][2]
      BY <2>0
    <3> QED BY <3>1, <3>2
  <2>2. ASSUME NEW n \in Nat, n \in Up PROVE n + 1 \in Up
    <3> SUFFICES ASSUME c + (n + 1) <= found
                 PROVE  at[c][1] <= at[c + (n + 1)][1] /\ at[c][2] <= at[c + (n + 1)][2]
      OBVIOUS
    <3> DEFINE e == c + (n + 1)
    <3>1. e \in 1..found /\ e - 1 = c + n /\ c + n \in 0..found /\ e \in 0..found /\ c + n <= found
      BY <1>0
    <3>2. at[c + n][1] <= at[e][1] /\ at[c + n][2] <= at[e][2]
      <4> HIDE DEF e
      <4> QED BY <1>6, <3>1
    <3>3. at[c][1] <= at[c + n][1] /\ at[c][2] <= at[c + n][2]
      BY <2>2, <3>1
    <3> HIDE DEF e
    <3>5. /\ at[c][1] \in Int /\ at[c][2] \in Int /\ at[e][1] \in Int /\ at[e][2] \in Int
          /\ at[c + n][1] \in Int /\ at[c + n][2] \in Int
      <4>1. \A i \in 0..found : at[i][1] \in Int /\ at[i][2] \in Int
        BY <2>0
      <4>2. c \in 0..found /\ e \in 0..found /\ c + n \in 0..found
        BY <3>1
      <4> QED BY <4>1, <4>2
    <3>6. \A x, y, z \in Int : x <= y /\ y <= z => x <= z
      OBVIOUS
    <3>4. at[c][1] <= at[e][1] /\ at[c][2] <= at[e][2]
      BY <3>2, <3>3, <3>5, <3>6
    <3> QED BY <3>4 DEF e
  <2>3. \A n \in Nat : n \in Up
    <3> HIDE DEF Up
    <3> QED BY <2>1, <2>2, InductionOverNat
  <2>4. d - c \in Nat /\ c + (d - c) = d
    BY <1>7
  <2>5. d - c \in Up
    BY <2>3, <2>4
  <2> QED BY <2>4, <2>5
<1>8. ASSUME NEW c \in 0..found, NEW d \in 0..found, c < d, NEW m \in Run(c), NEW n \in Run(d)
      PROVE  m[1] < n[1] /\ m[2] < n[2]
  <2>1. OnLeg(a, b, at[c], To(c), m) /\ OnLeg(a, b, at[d], To(d), n)
    BY <1>5
  <2>2. d - 1 \in 0..found /\ c <= d - 1 /\ To(d) = at[d - 1]
    BY <1>0, <1>8
  <2>3. at[c][1] <= at[d - 1][1] /\ at[c][2] <= at[d - 1][2]
    BY <1>7, <2>2
  <2> DEFINE q == at[d - 1]
             p == at[c]
  <2>4. p \in Nat \X Nat /\ q \in Nat \X Nat
    BY <1>4, <2>2
  <2>5. p[1] <= q[1] /\ p[2] <= q[2]
    BY <2>3
  <2>6. /\ m[1] \in Int /\ m[2] \in Int /\ m[1] <= p[1] /\ m[2] <= p[2]
        /\ n[1] \in Int /\ n[2] \in Int /\ q[1] < n[1] /\ q[2] < n[2]
    BY <2>1, <2>2 DEF OnLeg
  <2> HIDE DEF p, q, Run, To
  <2>7. p[1] \in Int /\ p[2] \in Int /\ q[1] \in Int /\ q[2] \in Int
    BY <2>4
  <2>8. \A w, x, y, z \in Int : w <= x /\ x <= y /\ y < z => w < z
    OBVIOUS
  <2> QED BY <2>5, <2>6, <2>7, <2>8
<1>9. ASSUME NEW d \in 0..found, NEW m \in Run(d), NEW n \in Run(d)
      PROVE  m[1] < n[1] <=> m[2] < n[2]
  <2>1. OnLeg(a, b, at[d], To(d), m) /\ OnLeg(a, b, at[d], To(d), n)
    BY <1>5
  <2> DEFINE k == at[d][1] - at[d][2]
  <2>2. /\ m[1] \in Int /\ m[2] \in Int /\ n[1] \in Int /\ n[2] \in Int
        /\ m[1] - m[2] = k /\ n[1] - n[2] = k
    BY <2>1 DEF OnLeg
  <2>3. k \in Int
    BY <2>2
  <2> HIDE DEF k
  <2> QED BY <2>2, <2>3
<1> DEFINE pairs == UNION {Run(d) : d \in 0..found}
<1>10. \A m \in pairs : \E d \in 0..found : m \in Run(d)
  OBVIOUS
<1>11. \A d \in 0..found : \A m \in Run(d) : m \in (1..Len(a)) \X (1..Len(b)) /\ a[m[1]] = b[m[2]]
  BY <1>5 DEF OnLeg
<1> HIDE DEF Run, pairs
<1>12. ASSUME NEW m \in pairs, NEW n \in pairs PROVE m[1] < n[1] <=> m[2] < n[2]
  <2>1. PICK c \in 0..found : m \in Run(c)
    BY <1>10
  <2>2. PICK d \in 0..found : n \in Run(d)
    BY <1>10
  <2>3. CASE c = d
    BY <1>9, <2>1, <2>2, <2>3
  <2>4. CASE c < d
    BY <1>8, <2>1, <2>2, <2>4
  <2>5. CASE d < c
    <3>1. n[1] < m[1] /\ n[2] < m[2]
      BY <1>8, <2>1, <2>2, <2>5
    <3>2. m[1] \in Int /\ m[2] \in Int /\ n[1] \in Int /\ n[2] \in Int
      BY <1>11, <2>1, <2>2
    <3> QED BY <3>1, <3>2
  <2> QED BY <2>3, <2>4, <2>5
<1>13. Common(a, b, pairs)
  BY <1>10, <1>11, <1>12 DEF Common
<1> QED BY <1>2, <1>13 DEF pairs

-----------------------------------------------------------------------------
(* The diff: with what the sequences begin and end with, and its theorem. *)

\* Pairs put before others that lie behind them on both sides.
LEMMA CommonJoined ==
    ASSUME NEW a, NEW b, NEW P, NEW Q, Len(a) \in Nat, Len(b) \in Nat,
           Common(a, b, P), Common(a, b, Q),
           \A m \in P, n \in Q : m[1] < n[1] /\ m[2] < n[2]
    PROVE  Common(a, b, P \cup Q)
<1> SUFFICES ASSUME NEW m \in P \cup Q, NEW n \in P \cup Q PROVE m[1] < n[1] <=> m[2] < n[2]
  BY DEF Common
<1>1. /\ m[1] \in Int /\ m[2] \in Int /\ n[1] \in Int /\ n[2] \in Int
  BY DEF Common
<1>2. CASE m \in P /\ n \in P
  BY <1>2 DEF Common
<1>3. CASE m \in Q /\ n \in Q
  BY <1>3 DEF Common
<1>4. CASE m \in P /\ n \in Q
  BY <1>4
<1>5. CASE m \in Q /\ n \in P
  <2>1. n[1] < m[1] /\ n[2] < m[2]
    BY <1>5
  <2> QED BY <1>1, <2>1
<1> QED BY <1>2, <1>3, <1>4, <1>5

\* countCommonSuffix: what the ends share, behind the first p.
LEMMA SuffixIs ==
    ASSUME NEW S, NEW a \in Seq(S), NEW b \in Seq(S), NEW p \in Nat, p <= Len(a), p <= Len(b),
           NEW s, s = CommonSuffix(a, b, p)
    PROVE  /\ s \in Nat /\ p + s <= Len(a) /\ p + s <= Len(b)
           /\ \A i \in 0..(s - 1) : a[Len(a) - i] = b[Len(b) - i]
<1>0. Len(a) \in Nat /\ Len(b) \in Nat
  OBVIOUS
<1> DEFINE r == SubSeq(a, p + 1, Len(a))
           t == SubSeq(b, p + 1, Len(b))
<1>1. /\ r \in Seq(S) /\ Len(r) = Len(a) - p
      /\ \A k \in 1..(Len(a) - p) : r[k] = a[p + k]
  <2>1. Len(a) <= Len(a)
    BY <1>0
  <2>2. /\ r \in Seq(S) /\ Len(r) = (IF p < Len(a) THEN Len(a) - p ELSE 0)
        /\ \A k \in 1..(Len(a) - p) : r[k] = a[p + k]
    BY <1>0, <2>1, PartIs
  <2> HIDE DEF r
  <2> QED BY <1>0, <2>2
<1>2. /\ t \in Seq(S) /\ Len(t) = Len(b) - p
      /\ \A k \in 1..(Len(b) - p) : t[k] = b[p + k]
  <2>1. Len(b) <= Len(b)
    BY <1>0
  <2>2. /\ t \in Seq(S) /\ Len(t) = (IF p < Len(b) THEN Len(b) - p ELSE 0)
        /\ \A k \in 1..(Len(b) - p) : t[k] = b[p + k]
    BY <1>0, <2>1, PartIs
  <2> HIDE DEF t
  <2> QED BY <1>0, <2>2
<1> HIDE DEF r, t
<1>3. ASSUME NEW q \in Seq(S)
      PROVE  /\ Reverse(q) \in Seq(S) /\ Len(Reverse(q)) = Len(q)
             /\ \A i \in 1..Len(q) : Reverse(q)[i] = q[(Len(q) - i) + 1]
  <2>1. \A i \in 1..Len(q) : q[(Len(q) - i) + 1] \in S
    OBVIOUS
  <2>2. Reverse(q) = [i \in 1..Len(q) |-> q[(Len(q) - i) + 1]]
    BY DEF Reverse
  <2>3. Reverse(q) \in [1..Len(q) -> S] /\ Len(q) \in Nat
    BY <2>1, <2>2
  <2> QED BY <2>2, <2>3
<1> DEFINE x == Reverse(r)
           y == Reverse(t)
<1>4. /\ x \in Seq(S) /\ Len(x) = Len(a) - p
      /\ \A i \in 1..(Len(a) - p) : x[i] = r[(Len(a) - p - i) + 1]
  <2>1. /\ x \in Seq(S) /\ Len(x) = Len(r)
        /\ \A i \in 1..Len(r) : x[i] = r[(Len(r) - i) + 1]
    BY <1>1, <1>3
  <2> HIDE DEF x
  <2> QED BY <1>1, <2>1
<1>5. /\ y \in Seq(S) /\ Len(y) = Len(b) - p
      /\ \A i \in 1..(Len(b) - p) : y[i] = t[(Len(b) - p - i) + 1]
  <2>1. /\ y \in Seq(S) /\ Len(y) = Len(t)
        /\ \A i \in 1..Len(t) : y[i] = t[(Len(t) - i) + 1]
    BY <1>2, <1>3
  <2> HIDE DEF y
  <2> QED BY <1>2, <2>1
<1>6. s = CommonPrefix(x, y)
  BY DEF CommonSuffix, r, t
<1> HIDE DEF x, y
<1>7. s \in Nat /\ s <= Len(x) /\ s <= Len(y) /\ \A i \in 1..s : x[i] = y[i]
  <2>1. x \in Seq(S) /\ y \in Seq(S)
    BY <1>4, <1>5
  <2> QED BY <1>6, <2>1, PrefixIs
<1>8. p + s <= Len(a) /\ p + s <= Len(b)
  BY <1>0, <1>4, <1>5, <1>7
<1>9. ASSUME NEW i \in 0..(s - 1) PROVE a[Len(a) - i] = b[Len(b) - i]
  <2> DEFINE j == i + 1
  <2>1. j \in 1..s /\ j \in 1..(Len(a) - p) /\ j \in 1..(Len(b) - p)
    BY <1>0, <1>7, <1>8
  <2>2. /\ (Len(a) - p - j) + 1 \in 1..(Len(a) - p) /\ p + ((Len(a) - p - j) + 1) = Len(a) - i
        /\ (Len(b) - p - j) + 1 \in 1..(Len(b) - p) /\ p + ((Len(b) - p - j) + 1) = Len(b) - i
    BY <1>0, <2>1
  <2> HIDE DEF j
  <2>3. x[j] = r[(Len(a) - p - j) + 1] /\ y[j] = t[(Len(b) - p - j) + 1] /\ x[j] = y[j]
    BY <1>4, <1>5, <1>7, <2>1
  <2>4. r[(Len(a) - p - j) + 1] = a[Len(a) - i] /\ t[(Len(b) - p - j) + 1] = b[Len(b) - i]
    BY <1>1, <1>2, <2>2
  <2> QED BY <2>3, <2>4
<1> QED BY <1>7, <1>8, <1>9

LEMMA MiddleIs ==
    ASSUME NEW S, NEW a \in Seq(S), NEW b \in Seq(S)
    PROVE  Common(a, b, MatchedMiddle(a, b))
<1>1. CASE a = <<>> \/ b = <<>>
  BY <1>1 DEF MatchedMiddle, Common
<1>2. CASE ~(a = <<>> \/ b = <<>>)
  <2> DEFINE trace == EditTrace(a, b)
  <2>1. IsTrace(a, b, trace) /\ Arrives(a, b, trace[Len(trace)]) /\ Len(trace) >= 2
    BY EditTraceIs
  <2>2. MatchedMiddle(a, b) = Backtrack(trace, a, b)
    BY <1>2 DEF MatchedMiddle
  <2> HIDE DEF trace
  <2> QED BY <2>1, <2>2, BacktrackIs
<1> QED BY <1>1, <1>2

\* The pairs of what is left of two sequences, seen as pairs of these.
Moved(a, b, p, u, w) ==
    {<<m[1] + p, m[2] + p>> : m \in MatchedMiddle(SubSeq(a, p + 1, u), SubSeq(b, p + 1, w))}

LEMMA MiddleMoved ==
    ASSUME NEW S, NEW a \in Seq(S), NEW b \in Seq(S), NEW p \in Nat, NEW u \in Nat, NEW w \in Nat,
           p <= u, p <= w, u <= Len(a), w <= Len(b),
           NEW Q, Q = Moved(a, b, p, u, w)
    PROVE  /\ Common(a, b, Q)
           /\ \A m \in Q : p < m[1] /\ p < m[2] /\ m[1] <= u /\ m[2] <= w
<1>0. Len(a) \in Nat /\ Len(b) \in Nat
  OBVIOUS
<1> DEFINE r == SubSeq(a, p + 1, u)
           t == SubSeq(b, p + 1, w)
           M == MatchedMiddle(r, t)
<1>1. /\ r \in Seq(S) /\ Len(r) = u - p
      /\ \A k \in 1..(u - p) : r[k] = a[p + k]
  <2>2. /\ r \in Seq(S) /\ Len(r) = (IF p < u THEN u - p ELSE 0)
        /\ \A k \in 1..(u - p) : r[k] = a[p + k]
    BY <1>0, PartIs, SMTT(30)
  <2> HIDE DEF r
  <2> QED BY <1>0, <2>2
<1>2. /\ t \in Seq(S) /\ Len(t) = w - p
      /\ \A k \in 1..(w - p) : t[k] = b[p + k]
  <2>2. /\ t \in Seq(S) /\ Len(t) = (IF p < w THEN w - p ELSE 0)
        /\ \A k \in 1..(w - p) : t[k] = b[p + k]
    BY <1>0, PartIs
  <2> HIDE DEF t
  <2> QED BY <1>0, <2>2
<1> HIDE DEF r, t
<1>3. Common(r, t, M)
  BY <1>1, <1>2, MiddleIs
<1>4. Q = {<<m[1] + p, m[2] + p>> : m \in M}
  BY DEF r, t, Moved
<1> HIDE DEF M
<1>5. ASSUME NEW m \in M
      PROVE  /\ m[1] \in 1..(u - p) /\ m[2] \in 1..(w - p) /\ a[m[1] + p] = b[m[2] + p]
             /\ m[1] + p \in 1..Len(a) /\ m[2] + p \in 1..Len(b)
             /\ p < m[1] + p /\ p < m[2] + p /\ m[1] + p <= u /\ m[2] + p <= w
  <2>1. m[1] \in 1..(u - p) /\ m[2] \in 1..(w - p) /\ r[m[1]] = t[m[2]]
    BY <1>1, <1>2, <1>3 DEF Common
  <2>2. a[p + m[1]] = b[p + m[2]]
    BY <1>1, <1>2, <2>1
  <2>3. /\ p + m[1] = m[1] + p /\ p + m[2] = m[2] + p
        /\ m[1] + p \in 1..Len(a) /\ m[2] + p \in 1..Len(b)
        /\ p < m[1] + p /\ p < m[2] + p /\ m[1] + p <= u /\ m[2] + p <= w
    <3>1. \A x \in 1..(u - p) : /\ p + x = x + p /\ x + p \in 1..Len(a) /\ p < x + p /\ x + p <= u
      BY <1>0
    <3>2. \A x \in 1..(w - p) : /\ p + x = x + p /\ x + p \in 1..Len(b) /\ p < x + p /\ x + p <= w
      BY <1>0
    <3> QED BY <2>1, <3>1, <3>2
  <2> QED BY <2>1, <2>2, <2>3
<1>6. \A q \in Q : \E m \in M : q = <<m[1] + p, m[2] + p>>
  BY <1>4
<1>7. ASSUME NEW q \in Q
      PROVE  /\ q \in (1..Len(a)) \X (1..Len(b)) /\ a[q[1]] = b[q[2]]
             /\ p < q[1] /\ p < q[2] /\ q[1] <= u /\ q[2] <= w
  <2>1. PICK m \in M : q = <<m[1] + p, m[2] + p>>
    BY <1>6
  <2>2. q[1] = m[1] + p /\ q[2] = m[2] + p
    BY <2>1
  <2> QED BY <1>5, <2>1, <2>2
<1>8. ASSUME NEW q \in Q, NEW z \in Q PROVE q[1] < z[1] <=> q[2] < z[2]
  <2>1. PICK m \in M : q = <<m[1] + p, m[2] + p>>
    BY <1>6
  <2>2. PICK n \in M : z = <<n[1] + p, n[2] + p>>
    BY <1>6
  <2>3. m[1] < n[1] <=> m[2] < n[2]
    BY <1>3 DEF Common
  <2>4. m[1] \in Int /\ m[2] \in Int /\ n[1] \in Int /\ n[2] \in Int
    BY <1>3 DEF Common
  <2>5. (m[1] + p < n[1] + p <=> m[1] < n[1]) /\ (m[2] + p < n[2] + p <=> m[2] < n[2])
    <3>1. \A x, y \in Int : x + p < y + p <=> x < y
      OBVIOUS
    <3> QED BY <2>4, <3>1
  <2> QED BY <2>1, <2>2, <2>3, <2>5
<1> QED BY <1>7, <1>8 DEF Common

\* computeMatchedPairs.
LEMMA MatchesAre ==
    ASSUME NEW S, NEW a \in Seq(S), NEW b \in Seq(S)
    PROVE  Common(a, b, MatchedPairs(a, b))
<1>0. Len(a) \in Nat /\ Len(b) \in Nat
  OBVIOUS
<1> DEFINE p == CommonPrefix(a, b)
           s == CommonSuffix(a, b, p)
           P == {<<i, i>> : i \in 1..p}
           Q == {<<m[1] + p, m[2] + p>> :
                    m \in MatchedMiddle(SubSeq(a, p + 1, Len(a) - s), SubSeq(b, p + 1, Len(b) - s))}
           R == Snake(Len(a), Len(b), s)
<1>1. MatchedPairs(a, b) = (P \cup Q) \cup R
  BY DEF MatchedPairs, PairsAround
<1>2. p \in Nat /\ p <= Len(a) /\ p <= Len(b) /\ \A i \in 1..p : a[i] = b[i]
  BY PrefixIs
<1>3. /\ s \in Nat /\ p + s <= Len(a) /\ p + s <= Len(b)
      /\ \A i \in 0..(s - 1) : a[Len(a) - i] = b[Len(b) - i]
  <2> HIDE DEF p
  <2> QED BY <1>2, SuffixIs
<1> HIDE DEF p, s
<1>4. Common(a, b, P)
  <2>1. \A m \in P : \E i \in 1..p : m = <<i, i>>
    OBVIOUS
  <2>2. \A i \in 1..p : i \in 1..Len(a) /\ i \in 1..Len(b)
    BY <1>0, <1>2
  <2> HIDE DEF P
  <2> QED BY <1>2, <2>1, <2>2 DEF Common
<1>5. /\ Common(a, b, Q)
      /\ \A m \in Q : p < m[1] /\ p < m[2] /\ m[1] <= Len(a) - s /\ m[2] <= Len(b) - s
  <2> DEFINE u == Len(a) - s
             w == Len(b) - s
  <2>1. u \in Nat /\ w \in Nat /\ p <= u /\ p <= w /\ u <= Len(a) /\ w <= Len(b)
    BY <1>0, <1>2, <1>3
  <2>2. Q = Moved(a, b, p, u, w)
    BY DEF Moved
  <2> HIDE DEF Q, u, w
  <2>3. /\ Common(a, b, Q)
        /\ \A m \in Q : p < m[1] /\ p < m[2] /\ m[1] <= u /\ m[2] <= w
    BY <1>2, <2>1, <2>2, MiddleMoved
  <2> QED BY <2>3 DEF u, w
<1>6. \A m \in R : \E i \in 0..(s - 1) : m = <<Len(a) - i, Len(b) - i>>
  BY DEF Snake
<1>7. \A i \in 0..(s - 1) : /\ Len(a) - i \in 1..Len(a) /\ Len(b) - i \in 1..Len(b)
                            /\ Len(a) - s < Len(a) - i /\ Len(b) - s < Len(b) - i
                            /\ p < Len(a) - i /\ p < Len(b) - i
  BY <1>0, <1>2, <1>3
<1>8. \A i, j \in 0..(s - 1) : Len(a) - i < Len(a) - j <=> Len(b) - i < Len(b) - j
  BY <1>0
<1> HIDE DEF R
<1>9. Common(a, b, R)
  <2>1. ASSUME NEW m \in R PROVE m \in (1..Len(a)) \X (1..Len(b)) /\ a[m[1]] = b[m[2]]
    <3>1. PICK i \in 0..(s - 1) : m = <<Len(a) - i, Len(b) - i>>
      BY <1>6
    <3>2. Len(a) - i \in 1..Len(a) /\ Len(b) - i \in 1..Len(b)
      BY <1>7
    <3>3. a[Len(a) - i] = b[Len(b) - i]
      BY <1>3
    <3> QED BY <3>1, <3>2, <3>3
  <2>2. \A m, n \in R : m[1] < n[1] <=> m[2] < n[2]
    BY <1>6, <1>8
  <2> QED BY <2>1, <2>2 DEF Common
<1>10. Common(a, b, P \cup Q)
  <2>1. \A m \in P : m[1] \in 1..p /\ m[2] \in 1..p
    OBVIOUS
  <2>2. \A n \in Q : n[1] \in Int /\ n[2] \in Int /\ p < n[1] /\ p < n[2]
    BY <1>0, <1>5 DEF Common
  <2> HIDE DEF P, Q
  <2>3. \A m \in P, n \in Q : m[1] < n[1] /\ m[2] < n[2]
    BY <1>2, <2>1, <2>2
  <2> QED BY <1>0, <1>4, <1>5, <2>3, CommonJoined
<1>11. Common(a, b, (P \cup Q) \cup R)
  <2>1. \A m \in P : m[1] \in 1..p /\ m[2] \in 1..p
    OBVIOUS
  <2>2. \A n \in Q : /\ n[1] \in Int /\ n[2] \in Int /\ n[1] <= Len(a) - s /\ n[2] <= Len(b) - s
    BY <1>0, <1>5 DEF Common
  <2>3. \A m \in R : /\ m[1] \in Int /\ m[2] \in Int /\ p < m[1] /\ p < m[2]
                     /\ Len(a) - s < m[1] /\ Len(b) - s < m[2]
    BY <1>0, <1>6, <1>7
  <2> HIDE DEF P, Q
  <2>4. \A m \in P, n \in R : m[1] < n[1] /\ m[2] < n[2]
    BY <1>2, <2>1, <2>3
  <2>5. \A m \in Q, n \in R : m[1] < n[1] /\ m[2] < n[2]
    BY <1>0, <1>3, <2>2, <2>3
  <2>6. \A m \in P \cup Q, n \in R : m[1] < n[1] /\ m[2] < n[2]
    BY <2>4, <2>5
  <2> QED BY <1>0, <1>9, <1>10, <2>6, CommonJoined
<1> QED BY <1>1, <1>11

(* The pairs that the diff of the merge editor matches (myersDiff) lie     *)
(* within both sequences, pair equal items and come in the same order in   *)
(* both: what it keeps is a common subsequence, whatever the texts are.    *)
THEOREM MatchesAreCommon == \A S : \A a, b \in Seq(S) : Common(a, b, MatchedPairs(a, b))
  BY MatchesAre

-----------------------------------------------------------------------------
(* The edits: the matches in their order are the anchors. *)

\* Of pieces joined one after the other, one more.
LEMMA FlattenGrows ==
    ASSUME NEW S, NEW n \in Nat, NEW pieces, \A i \in 1..(n + 1) : pieces[i] \in Seq(S)
    PROVE  /\ FlattenSeq([i \in 1..n |-> pieces[i]]) \in Seq(S)
           /\ FlattenSeq([i \in 1..(n + 1) |-> pieces[i]])
                = FlattenSeq([i \in 1..n |-> pieces[i]]) \o pieces[n + 1]
<1> DEFINE few == [i \in 1..n |-> pieces[i]]
           more == [i \in 1..(n + 1) |-> pieces[i]]
<1>1. few \in Seq(Seq(S)) /\ Len(few) = n /\ DOMAIN few = 1..n
  OBVIOUS
<1>2. more = Append(few, pieces[n + 1])
  <2>1. more \in Seq(Seq(S)) /\ Len(more) = n + 1
    OBVIOUS
  <2>2. \A i \in 1..(n + 1) : more[i] = Append(few, pieces[n + 1])[i]
    OBVIOUS
  <2> QED BY <2>1, <2>2
<1>3. pieces[n + 1] \in Seq(S)
  OBVIOUS
<1> HIDE DEF few, more
<1>4. FlattenSeq(few) \in Seq(S) /\ FlattenSeq(more) = FlattenSeq(few) \o pieces[n + 1]
  BY <1>1, <1>2, <1>3, FlattenType, FlattenAppend
<1> QED BY <1>4 DEF few, more

LEMMA FlattenNone == ASSUME NEW pieces PROVE FlattenSeq([i \in 1..0 |-> pieces[i]]) = <<>>
<1>1. [i \in 1..0 |-> pieces[i]] = <<>>
  OBVIOUS
<1> QED BY <1>1 DEF FlattenSeq

\* The first of the pairs, in their order: those whose place in a is up to n.
Chain(pairs, n, c) ==
    /\ c \in Seq(Nat \X Nat) /\ Len(c) >= 1 /\ c[1] = <<0, 0>>
    /\ \A i \in 1..(Len(c) - 1) : c[i][1] < c[i + 1][1] /\ c[i][2] < c[i + 1][2]
    /\ \A i \in 2..Len(c) : c[i] \in pairs /\ c[i][1] <= n
    /\ \A m \in pairs : m[1] <= n => \E i \in 2..Len(c) : c[i] = m

\* What a step makes of a chain.
LEMMA ChainGrows ==
    ASSUME NEW S, NEW a \in Seq(S), NEW b \in Seq(S), NEW pairs, Common(a, b, pairs),
           NEW n \in Nat, NEW c, Chain(pairs, n, c), NEW piece,
           piece = IF {m \in pairs : m[1] = n + 1} = {} THEN <<>>
                   ELSE <<CHOOSE m \in {m \in pairs : m[1] = n + 1} : TRUE>>
    PROVE  Chain(pairs, n + 1, c \o piece)
<1> DEFINE T == {m \in pairs : m[1] = n + 1}
           k == Len(c)
<1>0. k \in Nat /\ k >= 1 /\ c \in Seq(Nat \X Nat)
  BY DEF Chain
<1>1. \A m \in pairs : m[1] \in Nat /\ m[2] \in Nat /\ m \in Nat \X Nat /\ 1 <= m[1] /\ 1 <= m[2]
  BY DEF Common
<1>2. CASE T = {}
  <2>1. c \o piece = c
    BY <1>0, <1>2
  <2>2. \A m \in pairs : m[1] <= n + 1 => m[1] <= n
    <3>1. \A m \in pairs : m[1] # n + 1
      BY <1>2
    <3> QED BY <1>1, <3>1
  <2>3. \A i \in 2..Len(c) : c[i] \in pairs /\ c[i][1] <= n + 1
    BY SMTT(30), <1>1 DEF Chain
  <2> QED BY <2>1, <2>2, <2>3 DEF Chain
<1>3. CASE T # {}
  <2> DEFINE m == CHOOSE m \in T : TRUE
             d == c \o <<m>>
  <2>1. m \in pairs /\ m[1] = n + 1
    <3>1. m \in T
      BY <1>3
    <3> QED BY <3>1
  <2>2. c \o piece = d
    BY <1>3
  <2>3. m \in Nat \X Nat /\ 1 <= m[1] /\ 1 <= m[2] /\ m[2] \in Nat
    BY <1>1, <2>1
  <2> HIDE DEF m
  <2>4. /\ d \in Seq(Nat \X Nat) /\ Len(d) = k + 1 /\ d[k + 1] = m
        /\ \A i \in 1..k : d[i] = c[i]
    BY <1>0, <2>3
  <2> HIDE DEF d, T
  <2>5. c[k][1] < m[1] /\ c[k][2] < m[2]
    <3>1. CASE k = 1
      BY <2>3, <3>1 DEF Chain
    <3>2. CASE k # 1
      <4>1. k \in 2..k
        <5>1. \A x \in Nat : x >= 1 /\ x # 1 => x \in 2..x
          OBVIOUS
        <5> HIDE DEF k
        <5> QED BY <1>0, <3>2, <5>1
      <4>2. c[k] \in pairs /\ c[k][1] <= n
        BY <4>1 DEF Chain
      <4>3. c[k][1] < m[1]
        <5>1. c[k][1] \in Nat
          BY <1>1, <4>2
        <5> QED BY <2>1, <4>2, <5>1
      <4> QED BY <2>1, <4>2, <4>3 DEF Common
    <3> QED BY <3>1, <3>2
  <2>6. ASSUME NEW i \in 1..(Len(d) - 1) PROVE d[i][1] < d[i + 1][1] /\ d[i][2] < d[i + 1][2]
    <3>1. CASE i = k
      BY <1>0, <2>4, <2>5, <3>1, SMTT(30)
    <3>2. CASE i # k
      <4>1. i \in 1..(Len(c) - 1) /\ i \in 1..k /\ i + 1 \in 1..k
        <5>1. k \in Nat /\ i \in 1..((k + 1) - 1)
          BY <1>0, <2>4
        <5>2. \A x \in Nat : \A y \in 1..((x + 1) - 1) :
                 y # x => y \in 1..(x - 1) /\ y \in 1..x /\ y + 1 \in 1..x
          OBVIOUS
        <5>3. i \in 1..(k - 1) /\ i \in 1..k /\ i + 1 \in 1..k
          <6> HIDE DEF k
          <6> QED BY <3>2, <5>1, <5>2
        <5> QED BY <5>3
      <4>2. c[i][1] < c[i + 1][1] /\ c[i][2] < c[i + 1][2]
        BY <4>1 DEF Chain
      <4> QED BY <2>4, <4>1, <4>2
    <3> QED BY <3>1, <3>2
  <2>7. ASSUME NEW i \in 2..Len(d) PROVE d[i] \in pairs /\ d[i][1] <= n + 1
    <3>1. CASE i = k + 1
      BY <2>1, <2>4, <3>1
    <3>2. CASE i # k + 1
      <4>1. i \in 2..Len(c) /\ i \in 1..k
        BY <1>0, <2>4, <3>2
      <4>2. c[i] \in pairs /\ c[i][1] <= n
        BY <4>1 DEF Chain
      <4>3. \A x \in Nat : x <= n => x <= n + 1
        OBVIOUS
      <4>4. c[i][1] <= n + 1
        BY <1>1, <4>2, <4>3
      <4>5. d[i] = c[i]
        BY <2>4, <4>1
      <4> QED BY <4>2, <4>4, <4>5
    <3> QED BY <3>1, <3>2
  <2>8. ASSUME NEW z \in pairs, z[1] <= n + 1 PROVE \E i \in 2..Len(d) : d[i] = z
    <3>1. CASE z[1] = n + 1
      <4>1. z[2] = m[2]
        <5>1. ~(z[1] < m[1]) /\ ~(m[1] < z[1])
          BY <1>1, <2>1, <3>1
        <5>2. ~(z[2] < m[2]) /\ ~(m[2] < z[2])
          BY <2>1, <5>1 DEF Common
        <5> QED BY <1>1, <2>1, <5>2
      <4>2. z = m
        <5>1. z \in Nat \X Nat /\ z[1] = m[1]
          BY <1>1, <2>1, <3>1
        <5> QED BY <2>3, <4>1, <5>1
      <4>3. k + 1 \in 2..Len(d)
        BY <1>0, <2>4
      <4> QED BY <2>4, <4>2, <4>3
    <3>2. CASE z[1] # n + 1
      <4>1. z[1] <= n
        BY <1>1, <2>8, <3>2
      <4>2. PICK i \in 2..Len(c) : c[i] = z
        BY <4>1 DEF Chain
      <4>3. i \in 1..k /\ i \in 2..Len(d)
        BY <1>0, <2>4
      <4> QED BY <2>4, <4>2, <4>3
    <3> QED BY <3>1, <3>2
  <2>9. d[1] = <<0, 0>> /\ Len(d) >= 1
    <3>1. 1 \in 1..k
      BY <1>0
    <3> QED BY SMTT(30), <1>0, <2>4, <3>1 DEF Chain
  <2>10. Chain(pairs, n + 1, d)
    BY <2>4, <2>6, <2>7, <2>8, <2>9 DEF Chain
  <2> QED BY <2>2, <2>10
<1> QED BY <1>2, <1>3

\* The anchors: the pairs in their order, between both starts and both ends.
AnchorsFor(a, b, anchors) ==
    /\ anchors \in Seq(Nat \X Nat) /\ Len(anchors) >= 2 /\ anchors[1] = <<0, 0>>
    /\ anchors[Len(anchors)] = <<Len(a) + 1, Len(b) + 1>>
    /\ \A i \in 1..(Len(anchors) - 1) :
          anchors[i][1] < anchors[i + 1][1] /\ anchors[i][2] < anchors[i + 1][2]
    /\ \A i \in 2..(Len(anchors) - 1) : anchors[i] \in MatchedPairs(a, b)
    /\ \A m \in MatchedPairs(a, b) : \E i \in 2..(Len(anchors) - 1) : anchors[i] = m

LEMMA AnchorsAre ==
    ASSUME NEW S, NEW a \in Seq(S), NEW b \in Seq(S)
    PROVE  AnchorsFor(a, b, Anchors(a, b))
<1> DEFINE pairs == MatchedPairs(a, b)
           piece == [i \in 1..Len(a) |-> IF {m \in pairs : m[1] = i} = {} THEN <<>>
                                        ELSE <<CHOOSE m \in {m \in pairs : m[1] = i} : TRUE>>]
           F(n) == FlattenSeq([i \in 1..n |-> piece[i]])
           end == <<Len(a) + 1, Len(b) + 1>>
<1>0. Len(a) \in Nat /\ Len(b) \in Nat
  OBVIOUS
<1>1. Common(a, b, pairs)
  BY MatchesAre
<1>2. Anchors(a, b) = <<<<0, 0>>>> \o F(Len(a)) \o <<end>>
  <2>1. [i \in 1..Len(a) |-> piece[i]] = piece
    OBVIOUS
  <2>2. Anchors(a, b) = <<<<0, 0>>>> \o FlattenSeq(piece) \o <<end>>
    BY DEF Anchors
  <2> HIDE DEF piece
  <2> QED BY <2>1, <2>2
<1>3. \A i \in 1..Len(a) : piece[i] = IF {m \in pairs : m[1] = i} = {} THEN <<>>
                                     ELSE <<CHOOSE m \in {m \in pairs : m[1] = i} : TRUE>>
  OBVIOUS
<1>4. \A i \in 1..Len(a) : piece[i] \in Seq(Nat \X Nat)
  <2> TAKE i \in 1..Len(a)
  <2> DEFINE T == {m \in pairs : m[1] = i}
  <2>1. T \subseteq Nat \X Nat
    BY <1>1 DEF Common
  <2>2. CASE T = {}
    BY <1>3, <2>2
  <2>3. CASE T # {}
    <3> DEFINE m == CHOOSE m \in T : TRUE
    <3>1. m \in Nat \X Nat
      BY <2>1, <2>3
    <3>2. piece[i] = <<m>>
      BY <1>3, <2>3
    <3> HIDE DEF m, piece
    <3>3. <<m>> \in Seq(Nat \X Nat)
      BY <3>1
    <3> QED BY <3>2, <3>3
  <2> QED BY <2>2, <2>3
<1> HIDE DEF pairs, piece
<1> DEFINE Good(n) == F(n) \in Seq(Nat \X Nat) /\ Chain(pairs, n, <<<<0, 0>>>> \o F(n))
           Held == {n \in Nat : n <= Len(a) => Good(n)}
<1>5. 0 \in Held
  <2>1. F(0) = <<>>
    BY FlattenNone
  <2> DEFINE c == <<<<0, 0>>>>
  <2>2. c \o <<>> = c /\ c \in Seq(Nat \X Nat) /\ Len(c) = 1 /\ c[1] = <<0, 0>>
    OBVIOUS
  <2>3. \A m \in pairs : ~(m[1] <= 0)
    BY <1>0, <1>1 DEF Common
  <2> HIDE DEF c
  <2>4. Chain(pairs, 0, c)
    <3>1. 1..(Len(c) - 1) = {} /\ 2..Len(c) = {}
      BY <2>2
    <3> QED BY <2>2, <2>3, <3>1 DEF Chain
  <2>5. F(0) \in Seq(Nat \X Nat)
    <3>1. <<>> \in Seq(Nat \X Nat)
      OBVIOUS
    <3> HIDE DEF F
    <3> QED BY <2>1, <3>1
  <2>6. <<<<0, 0>>>> \o F(0) = c
    BY <2>1, <2>2 DEF c
  <2> HIDE DEF F
  <2> QED BY <2>4, <2>5, <2>6
<1>6. ASSUME NEW n \in Nat, n \in Held PROVE n + 1 \in Held
  <2> SUFFICES ASSUME n + 1 <= Len(a) PROVE Good(n + 1)
    OBVIOUS
  <2>1. \A i \in 1..(n + 1) : i \in 1..Len(a)
    BY <1>0
  <2>2. F(n + 1) = F(n) \o piece[n + 1]
    <3>1. \A i \in 1..(n + 1) : piece[i] \in Seq(Nat \X Nat)
      BY <1>4, <2>1
    <3> QED BY <3>1, FlattenGrows
  <2>3. piece[n + 1] = IF {m \in pairs : m[1] = n + 1} = {} THEN <<>>
                       ELSE <<CHOOSE m \in {m \in pairs : m[1] = n + 1} : TRUE>>
    BY <1>3, <2>1
  <2>4. piece[n + 1] \in Seq(Nat \X Nat)
    BY <1>4, <2>1
  <2>5. Good(n)
    BY <1>0, <1>6
  <2> HIDE DEF F
  <2> DEFINE c == <<<<0, 0>>>> \o F(n)
  <2>6. Chain(pairs, n, c)
    BY <2>5
  <2> HIDE DEF c
  <2>7. Chain(pairs, n + 1, c \o piece[n + 1])
    BY <1>1, <2>3, <2>6, ChainGrows
  <2>8. <<<<0, 0>>>> \o F(n + 1) = c \o piece[n + 1]
    <3>1. <<<<0, 0>>>> \in Seq(Nat \X Nat)
      OBVIOUS
    <3>2. F(n) \in Seq(Nat \X Nat)
      BY <2>5
    <3>3. (<<<<0, 0>>>> \o F(n)) \o piece[n + 1] = <<<<0, 0>>>> \o (F(n) \o piece[n + 1])
      <4> DEFINE h == <<<<0, 0>>>>
                 f == F(n)
                 q == piece[n + 1]
                 T == Nat \X Nat
      <4>1. h \in Seq(T) /\ f \in Seq(T) /\ q \in Seq(T)
        BY <2>4, <3>1, <3>2
      <4> HIDE DEF h, f, q, T
      <4>2. (h \o f) \o q = h \o (f \o q)
        BY SMTT(30), <4>1, ConcatAssociative
      <4> QED BY <4>2 DEF h, f, q
    <3> QED BY <2>2, <3>3 DEF c
  <2>9. F(n + 1) \in Seq(Nat \X Nat)
    <3>1. F(n) \in Seq(Nat \X Nat)
      BY <2>5
    <3>2. \A q, r \in Seq(Nat \X Nat) : q \o r \in Seq(Nat \X Nat)
      OBVIOUS
    <3> QED BY <2>2, <2>4, <3>1, <3>2
  <2> QED BY <2>7, <2>8, <2>9
<1>7. Good(Len(a))
  <2>1. \A n \in Nat : n \in Held
    <3> HIDE DEF Held
    <3> QED BY <1>5, <1>6, InductionOverNat
  <2>2. Len(a) <= Len(a)
    BY <1>0
  <2> HIDE DEF Good
  <2> QED BY <1>0, <2>1, <2>2
<1> HIDE DEF F
<1> DEFINE c == <<<<0, 0>>>> \o F(Len(a))
           d == c \o <<end>>
           k == Len(c)
<1>8. Chain(pairs, Len(a), c) /\ Anchors(a, b) = d
  BY <1>2, <1>7
<1> HIDE DEF c
<1>9. c \in Seq(Nat \X Nat) /\ k \in Nat /\ k >= 1
  BY <1>8 DEF Chain
<1>10. end \in Nat \X Nat
  BY <1>0
<1>11. /\ d \in Seq(Nat \X Nat) /\ Len(d) = k + 1 /\ d[k + 1] = end
       /\ \A i \in 1..k : d[i] = c[i]
  <2> HIDE DEF end
  <2> QED BY <1>9, <1>10
<1>12. end[1] = Len(a) + 1 /\ end[2] = Len(b) + 1
  OBVIOUS
<1> HIDE DEF d, end
<1>13. c[k][1] < end[1] /\ c[k][2] < end[2]
  <2>1. CASE k = 1
    BY <1>0, <1>8, <1>12, <2>1 DEF Chain
  <2>2. CASE k # 1
    <3>1. k \in 2..k
      <4>1. \A x \in Nat : x >= 1 /\ x # 1 => x \in 2..x
        OBVIOUS
      <4> HIDE DEF k
      <4> QED BY <1>9, <2>2, <4>1
    <3>2. c[k] \in pairs
      BY <1>8, <3>1 DEF Chain
    <3>3. c[k][1] \in 1..Len(a) /\ c[k][2] \in 1..Len(b)
      BY <1>1, <3>2 DEF Common
    <3> QED BY <1>0, <1>12, <3>3
  <2> QED BY <2>1, <2>2
<1>14. ASSUME NEW i \in 1..(Len(d) - 1) PROVE d[i][1] < d[i + 1][1] /\ d[i][2] < d[i + 1][2]
  <2>1. CASE i = k
    BY <1>9, <1>11, <1>13, <2>1, SMTT(30)
  <2>2. CASE i # k
    <3>1. i \in 1..(Len(c) - 1) /\ i \in 1..k /\ i + 1 \in 1..k
      <4>1. k \in Nat /\ i \in 1..((k + 1) - 1)
        BY <1>9, <1>11
      <4>2. \A x \in Nat : \A y \in 1..((x + 1) - 1) :
               y # x => y \in 1..(x - 1) /\ y \in 1..x /\ y + 1 \in 1..x
        OBVIOUS
      <4>3. i \in 1..(k - 1) /\ i \in 1..k /\ i + 1 \in 1..k
        <5> HIDE DEF k
        <5> QED BY <2>2, <4>1, <4>2
      <4> QED BY <4>3
    <3>2. c[i][1] < c[i + 1][1] /\ c[i][2] < c[i + 1][2]
      BY <1>8, <3>1 DEF Chain
    <3> QED BY <1>11, <3>1, <3>2
  <2> QED BY <2>1, <2>2
<1>15. ASSUME NEW i \in 2..(Len(d) - 1) PROVE d[i] \in pairs
  <2>1. i \in 2..Len(c) /\ i \in 1..k
    BY <1>9, <1>11
  <2> QED BY <1>8, <1>11, <2>1 DEF Chain
<1>16. ASSUME NEW m \in pairs PROVE \E i \in 2..(Len(d) - 1) : d[i] = m
  <2>1. m[1] <= Len(a)
    BY <1>0, <1>1 DEF Common
  <2>2. PICK i \in 2..Len(c) : c[i] = m
    BY <1>8, <2>1 DEF Chain
  <2>3. i \in 1..k /\ i \in 2..(Len(d) - 1)
    BY <1>9, <1>11
  <2> QED BY <1>11, <2>2, <2>3
<1>17. d[1] = <<0, 0>> /\ Len(d) >= 2 /\ d[Len(d)] = end
  <2>1. 1 \in 1..k
    BY <1>9
  <2> QED BY SMTT(30), <1>8, <1>9, <1>11, <2>1 DEF Chain
<1>18. AnchorsFor(a, b, d)
  BY <1>11, <1>14, <1>15, <1>16, <1>17 DEF AnchorsFor, pairs, end
<1> QED BY <1>8, <1>18

-----------------------------------------------------------------------------
(* The edits: what applying the ones so far has made. *)

Associate(s, t, u) == (s \o t) \o u = s \o (t \o u)

LEMMA JoinsAssociate == ASSUME NEW S, NEW s \in Seq(S), NEW t \in Seq(S), NEW u \in Seq(S)
                        PROVE  Associate(s, t, u)
BY ConcatAssociative DEF Associate

\* A slice, and the item that follows it.
LEMMA SliceGrows ==
    ASSUME NEW S, NEW a \in Seq(S), NEW i \in Nat, NEW x \in Nat, i <= x, x + 1 <= Len(a)
    PROVE  SubSeq(a, i + 1, x + 1) = SubSeq(a, i + 1, x) \o <<a[x + 1]>>
<1>1. i + 1 \in 1..Len(a) /\ x + 1 \in (i + 1)..Len(a) /\ (x + 1) - 1 = x
  OBVIOUS
<1>2. SubSeq(a, i + 1, x + 1) = SubSeq(a, i + 1, (x + 1) - 1) \o <<a[x + 1]>>
  BY <1>1, SubSeqRecursiveSecond
<1> QED BY <1>1, <1>2

\* A slice from the start, and the slice that follows it.
LEMMA SlicesJoin ==
    ASSUME NEW S, NEW b \in Seq(S), NEW y \in Nat, NEW w \in Nat, y <= w, w <= Len(b)
    PROVE  SubSeq(b, 1, y) \o SubSeq(b, y + 1, w) = SubSeq(b, 1, w)
<1> DEFINE p == SubSeq(b, 1, y)
           q == SubSeq(b, y + 1, w)
           r == SubSeq(b, 1, w)
<1>0. Len(b) \in Nat /\ \A n \in Nat : n - 0 = n /\ 0 + 1 = 1 /\ (n > 0 <=> n # 0)
  OBVIOUS
<1>1. p \in Seq(S) /\ Len(p) = y /\ \A k \in 1..y : p[k] = b[k]
  <2>1. y \in Int /\ y <= Len(b) /\ 0 \in Nat
    BY <1>0
  <2>2. /\ SubSeq(b, 0 + 1, y) \in Seq(S)
        /\ Len(SubSeq(b, 0 + 1, y)) = IF 0 < y THEN y - 0 ELSE 0
        /\ \A k \in 1..(y - 0) : SubSeq(b, 0 + 1, y)[k] = b[0 + k]
    BY <2>1, PartIs
  <2>3. \A k \in 1..y : 0 + k = k
    OBVIOUS
  <2>4. 0 + 1 = 1 /\ y - 0 = y /\ (IF 0 < y THEN y - 0 ELSE 0) = y
    OBVIOUS
  <2> QED BY <2>2, <2>3, <2>4
<1>2. r \in Seq(S) /\ Len(r) = w /\ \A k \in 1..w : r[k] = b[k]
  <2>1. w \in Int /\ w <= Len(b) /\ 0 \in Nat
    BY <1>0
  <2>2. /\ SubSeq(b, 0 + 1, w) \in Seq(S)
        /\ Len(SubSeq(b, 0 + 1, w)) = IF 0 < w THEN w - 0 ELSE 0
        /\ \A k \in 1..(w - 0) : SubSeq(b, 0 + 1, w)[k] = b[0 + k]
    BY <2>1, PartIs
  <2>3. \A k \in 1..w : 0 + k = k
    OBVIOUS
  <2>4. 0 + 1 = 1 /\ w - 0 = w /\ (IF 0 < w THEN w - 0 ELSE 0) = w
    OBVIOUS
  <2> QED BY <2>2, <2>3, <2>4
<1>3. q \in Seq(S) /\ Len(q) = w - y /\ \A k \in 1..(w - y) : q[k] = b[y + k]
  <2>1. /\ q \in Seq(S) /\ Len(q) = IF y < w THEN w - y ELSE 0
        /\ \A k \in 1..(w - y) : q[k] = b[y + k]
    BY PartIs
  <2>2. (IF y < w THEN w - y ELSE 0) = w - y
    OBVIOUS
  <2> HIDE DEF q
  <2> QED BY <2>1, <2>2
<1> HIDE DEF p, q, r
<1>4. p \o q \in Seq(S) /\ Len(p \o q) = Len(r)
  <2>1. Len(p \o q) = Len(p) + Len(q) /\ p \o q \in Seq(S)
    BY <1>1, <1>3, ConcatProperties, ZenonT(30)
  <2>2. y + (w - y) = w
    OBVIOUS
  <2> QED BY <1>1, <1>2, <1>3, <2>1, <2>2
<1>5. ASSUME NEW i \in 1..Len(r) PROVE (p \o q)[i] = r[i]
  <2>1. (p \o q)[i] = IF i <= Len(p) THEN p[i] ELSE q[i - Len(p)]
    BY <1>1, <1>2, <1>3
  <2>2. CASE i <= y
    <3>1. i \in 1..y /\ i \in 1..w
      BY <1>2, <2>2
    <3> QED BY <1>1, <1>2, <2>1, <2>2, <3>1
  <2>3. CASE ~(i <= y)
    <3>1. i - y \in 1..(w - y) /\ i \in 1..w /\ y + (i - y) = i
      BY <1>2, <2>3
    <3>2. q[i - y] = b[i]
      BY <1>3, <3>1
    <3> QED BY <1>1, <1>2, <2>1, <2>3, <3>1, <3>2
  <2> QED BY <2>2, <2>3
<1>6. p \o q = r
  BY <1>2, <1>4, <1>5
<1> QED BY <1>6 DEF p, q, r

\* Up to where the first i edits have gone, what edit i adds, and what all add.
DoneBy(es, i) == IF i = 0 THEN 0 ELSE es[i].baseEnd
Addition(tokens, es, i) == SubSeq(tokens, DoneBy(es, i - 1) + 1, es[i].baseStart) \o es[i].items
Rebuilt(tokens, es) == FlattenSeq([i \in 1..Len(es) |-> Addition(tokens, es, i)])

LEMMA ApplyIs ==
    ASSUME NEW a, NEW es, \A i \in 1..Len(es) : ~(es[i].baseStart < DoneBy(es, i - 1))
    PROVE  Apply(a, es) = {Rebuilt(a, es) \o SubSeq(a, DoneBy(es, Len(es)) + 1, Len(a))}
BY DEF Apply, DoneBy, Rebuilt, Addition

EditsOf(S) == [baseStart : Nat, baseEnd : Nat, sideStart : Nat, sideEnd : Nat, items : Seq(S)]

\* The edits so far, and x more items of a, make the first y items of b.
Redone(S, a, b, es, x, y) ==
    /\ es \in Seq(EditsOf(S))
    /\ \A i \in 1..Len(es) : DoneBy(es, i - 1) <= es[i].baseStart /\ es[i].baseStart <= Len(a)
    /\ DoneBy(es, Len(es)) <= x
    /\ Rebuilt(a, es) \in Seq(S)
    /\ Rebuilt(a, es) \o SubSeq(a, DoneBy(es, Len(es)) + 1, x) = SubSeq(b, 1, y)

LEMMA RedoneAtFirst ==
    ASSUME NEW S, NEW a \in Seq(S), NEW b \in Seq(S)
    PROVE  Redone(S, a, b, <<>>, 0, 0)
<1>1. <<>> \in Seq(EditsOf(S)) /\ Len(<<>>) = 0 /\ 1..Len(<<>>) = {} /\ DoneBy(<<>>, 0) = 0
  BY DEF DoneBy
<1>2. Rebuilt(a, <<>>) = <<>>
  <2>1. [i \in 1..0 |-> Addition(a, <<>>, i)] = <<>>
    OBVIOUS
  <2> QED BY <1>1, <2>1 DEF Rebuilt, FlattenSeq
<1>3. SubSeq(a, 0 + 1, 0) = <<>> /\ SubSeq(b, 1, 0) = <<>>
  OBVIOUS
<1>4. <<>> \in Seq(S) /\ <<>> \o <<>> = <<>> /\ 0 <= 0
  OBVIOUS
<1> QED BY <1>1, <1>2, <1>3, <1>4 DEF Redone

LEMMA RedoneType ==
    ASSUME NEW S, NEW a, NEW b, NEW es, NEW x \in Nat, NEW y, Redone(S, a, b, es, x, y)
    PROVE  Len(es) \in Nat /\ DoneBy(es, Len(es)) \in Nat
<1>1. es \in Seq(EditsOf(S))
  BY DEF Redone
<1>2. Len(es) \in Nat /\ \A i \in 1..Len(es) : es[i] \in EditsOf(S)
  BY <1>1
<1>3. ASSUME Len(es) # 0 PROVE es[Len(es)].baseEnd \in Nat
  <2>1. Len(es) \in 1..Len(es)
    <3>1. \A n \in Nat : n # 0 => n \in 1..n
      OBVIOUS
    <3> QED BY <1>2, <1>3, <3>1
  <2>2. es[Len(es)] \in EditsOf(S)
    BY <1>2, <2>1
  <2> QED BY <2>2 DEF EditsOf
<1> QED BY <1>2, <1>3 DEF DoneBy

\* A matched pair goes on in both.
LEMMA RedoneMatch ==
    ASSUME NEW S, NEW a \in Seq(S), NEW b \in Seq(S), NEW es, NEW x \in Nat, NEW y \in Nat,
           Redone(S, a, b, es, x, y), x + 1 <= Len(a), y + 1 <= Len(b), a[x + 1] = b[y + 1]
    PROVE  Redone(S, a, b, es, x + 1, y + 1)
<1> DEFINE d == DoneBy(es, Len(es))
           r == Rebuilt(a, es)
           s == SubSeq(a, d + 1, x)
<1>1. d \in Nat /\ d <= x /\ d <= x + 1
  <2>1. d \in Nat /\ d <= x
    BY RedoneType DEF Redone
  <2>2. \A n \in Nat : n <= x => n <= x + 1
    OBVIOUS
  <2> HIDE DEF d
  <2> QED BY <2>1, <2>2
<1>2. r \in Seq(S) /\ r \o s = SubSeq(b, 1, y)
  BY DEF Redone
<1> HIDE DEF d, r
<1>3. SubSeq(a, d + 1, x + 1) = s \o <<a[x + 1]>>
  BY <1>1, SliceGrows
<1>4. SubSeq(b, 1, y + 1) = SubSeq(b, 1, y) \o <<b[y + 1]>>
  <2>1. 0 \in Nat /\ 0 <= y /\ 0 + 1 = 1
    OBVIOUS
  <2>2. SubSeq(b, 0 + 1, y + 1) = SubSeq(b, 0 + 1, y) \o <<b[y + 1]>>
    BY <2>1, SliceGrows
  <2> QED BY <2>1, <2>2
<1>5. s \in Seq(S)
  <2>1. x \in Int /\ x <= Len(a)
    OBVIOUS
  <2> QED BY <1>1, <2>1, PartIs
<1>6. <<a[x + 1]>> \in Seq(S)
  <2>1. x + 1 \in 1..Len(a)
    OBVIOUS
  <2> QED BY <2>1
<1> HIDE DEF s
<1>7. r \o (s \o <<a[x + 1]>>) = (r \o s) \o <<a[x + 1]>>
  <2> DEFINE z == <<a[x + 1]>>
  <2>1. z \in Seq(S)
    BY <1>6
  <2> HIDE DEF z
  <2>2. (r \o s) \o z = r \o (s \o z)
    <3>1. r \in Seq(S) /\ s \in Seq(S)
      BY <1>2, <1>5
    <3>2. Associate(r, s, z)
      BY <2>1, <3>1, JoinsAssociate
    <3> QED BY <3>2 DEF Associate
  <2> QED BY <2>2 DEF z
<1>8. r \o SubSeq(a, d + 1, x + 1) = SubSeq(b, 1, y + 1)
  BY <1>2, <1>3, <1>4, <1>7
<1> QED BY <1>1, <1>8 DEF Redone, d, r

\* What lies between two points becomes an edit, unless nothing does.
EditUpTo(b, x, y, u, w) ==
    [baseStart |-> x, baseEnd |-> u, sideStart |-> y, sideEnd |-> w, items |-> SubSeq(b, y + 1, w)]

LEMMA RebuiltGrows ==
    ASSUME NEW S, NEW a \in Seq(S), NEW es \in Seq(EditsOf(S)), NEW e \in EditsOf(S),
           \A i \in 1..Len(es) : es[i].baseStart <= Len(a), e.baseStart <= Len(a)
    PROVE  /\ Rebuilt(a, es \o <<e>>)
                = Rebuilt(a, es) \o (SubSeq(a, DoneBy(es, Len(es)) + 1, e.baseStart) \o e.items)
           /\ \A i \in 1..Len(es) : DoneBy(es \o <<e>>, i - 1) = DoneBy(es, i - 1)
           /\ DoneBy(es \o <<e>>, Len(es)) = DoneBy(es, Len(es))
           /\ DoneBy(es \o <<e>>, Len(es) + 1) = e.baseEnd
           /\ \A i \in 1..Len(es) : (es \o <<e>>)[i] = es[i]
           /\ (es \o <<e>>)[Len(es) + 1] = e
           /\ Len(es \o <<e>>) = Len(es) + 1
           /\ es \o <<e>> \in Seq(EditsOf(S))
<1> DEFINE n == Len(es)
           fs == es \o <<e>>
           pieces == [i \in 1..(n + 1) |-> Addition(a, fs, i)]
<1>0. n \in Nat /\ \A i \in 1..n : es[i] \in EditsOf(S)
  OBVIOUS
<1>1. /\ fs \in Seq(EditsOf(S)) /\ Len(fs) = n + 1 /\ fs[n + 1] = e
      /\ \A i \in 1..n : fs[i] = es[i]
  <2> DEFINE T == EditsOf(S)
  <2>1. es \in Seq(T) /\ e \in T
    OBVIOUS
  <2> HIDE DEF T
  <2>2. /\ fs \in Seq(T) /\ Len(fs) = n + 1 /\ fs[n + 1] = e
        /\ \A i \in 1..n : fs[i] = es[i]
    BY <2>1
  <2> QED BY <2>2 DEF T
<1> HIDE DEF fs, n
<1>2. \A i \in 1..n : i - 1 # 0 => i - 1 \in 1..n
  BY <1>0
<1>3. \A i \in 1..n : DoneBy(fs, i - 1) = DoneBy(es, i - 1)
  BY <1>1, <1>2 DEF DoneBy
<1>4. DoneBy(fs, n) = DoneBy(es, n)
  <2>1. n # 0 => n \in 1..n
    BY <1>0
  <2> QED BY <1>1, <2>1 DEF DoneBy
<1>5. DoneBy(fs, n + 1) = e.baseEnd
  <2>1. n + 1 # 0
    BY <1>0
  <2> QED BY <1>1, <2>1 DEF DoneBy
<1>6. \A i \in 1..n : Addition(a, fs, i) = Addition(a, es, i)
  BY <1>1, <1>3 DEF Addition
<1>7. Addition(a, fs, n + 1) = SubSeq(a, DoneBy(es, n) + 1, e.baseStart) \o e.items
  <2>1. (n + 1) - 1 = n
    BY <1>0
  <2> QED BY <1>1, <1>4, <2>1 DEF Addition
<1>8. ASSUME NEW i \in 1..(n + 1) PROVE pieces[i] \in Seq(S)
  <2>1. fs[i] \in EditsOf(S) /\ fs[i].baseStart <= Len(a)
    <3>1. CASE i = n + 1
      BY <1>1, <3>1
    <3>2. CASE i # n + 1
      <4>1. i \in 1..n
        BY <1>0, <3>2
      <4> QED BY <1>0, <1>1, <4>1 DEF n
    <3> QED BY <3>1, <3>2
  <2>2. fs[i].baseStart \in Int /\ fs[i].items \in Seq(S)
    BY <2>1 DEF EditsOf
  <2>3. DoneBy(fs, i - 1) \in Nat
    <3>1. CASE i = 1
      BY <3>1 DEF DoneBy
    <3>2. CASE i # 1
      <4>1. i - 1 \in 1..n
        BY <1>0, <3>2
      <4>2. fs[i - 1].baseEnd \in Nat
        BY <1>0, <1>1, <4>1 DEF EditsOf
      <4> QED BY <4>2 DEF DoneBy
    <3> QED BY <3>1, <3>2
  <2>4. SubSeq(a, DoneBy(fs, i - 1) + 1, fs[i].baseStart) \in Seq(S)
    BY <2>1, <2>2, <2>3, PartIs
  <2>5. Addition(a, fs, i) \in Seq(S)
    BY <2>2, <2>4, ConcatProperties DEF Addition
  <2> QED BY <2>5
<1>9. Rebuilt(a, fs) = Rebuilt(a, es) \o Addition(a, fs, n + 1)
  <2>1. Rebuilt(a, fs) = FlattenSeq([i \in 1..(n + 1) |-> pieces[i]])
    BY <1>1 DEF Rebuilt
  <2>2. Rebuilt(a, es) = FlattenSeq([i \in 1..n |-> pieces[i]])
    <3>1. \A i \in 1..n : pieces[i] = Addition(a, es, i)
      <4>1. \A i \in 1..n : i \in 1..(n + 1)
        BY <1>0
      <4> QED BY <1>6, <4>1
    <3> HIDE DEF pieces
    <3> QED BY <3>1 DEF Rebuilt, n
  <2>3. pieces[n + 1] = Addition(a, fs, n + 1)
    <3>1. n + 1 \in 1..(n + 1)
      BY <1>0
    <3> QED BY <3>1
  <2>4. \A i \in 1..(n + 1) : pieces[i] \in Seq(S)
    BY <1>8
  <2> HIDE DEF pieces
  <2> QED BY <1>0, <2>1, <2>2, <2>3, <2>4, FlattenGrows
<1> QED BY <1>1, <1>3, <1>4, <1>5, <1>7, <1>9 DEF fs, n

LEMMA RedoneEdit ==
    ASSUME NEW S, NEW a \in Seq(S), NEW b \in Seq(S), NEW es, NEW x \in Nat, NEW y \in Nat,
           Redone(S, a, b, es, x, y), NEW u \in Nat, NEW w \in Nat,
           x <= u, y <= w, u <= Len(a), w <= Len(b)
    PROVE  Redone(S, a, b, es \o <<EditUpTo(b, x, y, u, w)>>, u, w)
<1> DEFINE e == EditUpTo(b, x, y, u, w)
           fs == es \o <<e>>
           n == Len(es)
           d == DoneBy(es, n)
           s == SubSeq(a, d + 1, x)
           q == SubSeq(b, y + 1, w)
           r == Rebuilt(a, es)
<1>0. n \in Nat /\ d \in Nat /\ d <= x /\ Len(a) \in Nat /\ Len(b) \in Nat /\ x <= Len(a)
  <2>1. n \in Nat /\ d \in Nat
    BY RedoneType
  <2>2. d <= x
    BY DEF Redone
  <2>3. \A i, j, k \in Nat : i <= j /\ j <= k => i <= k
    OBVIOUS
  <2>4. Len(a) \in Nat /\ Len(b) \in Nat
    OBVIOUS
  <2>5. x <= Len(a)
    BY <2>3, <2>4
  <2> QED BY <2>1, <2>2, <2>4, <2>5
<1>1. q \in Seq(S)
  <2>1. w \in Int
    OBVIOUS
  <2> QED BY <2>1, PartIs
<1>2. s \in Seq(S)
  <2>1. x \in Int
    OBVIOUS
  <2> HIDE DEF d
  <2> QED BY <1>0, <2>1, PartIs
<1>3. /\ e \in EditsOf(S) /\ e.baseStart = x /\ e.baseEnd = u /\ e.items = q
  BY <1>1 DEF EditUpTo, EditsOf
<1>4. /\ es \in Seq(EditsOf(S)) /\ r \in Seq(S) /\ r \o s = SubSeq(b, 1, y)
      /\ \A i \in 1..n : DoneBy(es, i - 1) <= es[i].baseStart /\ es[i].baseStart <= Len(a)
  BY DEF Redone
<1> HIDE DEF e, q
<1>5. /\ Rebuilt(a, fs) = r \o (SubSeq(a, d + 1, e.baseStart) \o e.items)
      /\ \A i \in 1..n : DoneBy(fs, i - 1) = DoneBy(es, i - 1)
      /\ DoneBy(fs, n) = d
      /\ DoneBy(fs, n + 1) = e.baseEnd
      /\ \A i \in 1..n : fs[i] = es[i]
      /\ fs[n + 1] = e /\ Len(fs) = n + 1 /\ fs \in Seq(EditsOf(S))
  <2>1. /\ \A i \in 1..Len(es) : es[i].baseStart <= Len(a)
        /\ e.baseStart <= Len(a)
    BY <1>0, <1>3, <1>4
  <2>2. /\ Rebuilt(a, es \o <<e>>)
             = Rebuilt(a, es) \o (SubSeq(a, DoneBy(es, Len(es)) + 1, e.baseStart) \o e.items)
        /\ \A i \in 1..Len(es) : DoneBy(es \o <<e>>, i - 1) = DoneBy(es, i - 1)
        /\ DoneBy(es \o <<e>>, Len(es)) = DoneBy(es, Len(es))
        /\ DoneBy(es \o <<e>>, Len(es) + 1) = e.baseEnd
        /\ \A i \in 1..Len(es) : (es \o <<e>>)[i] = es[i]
        /\ (es \o <<e>>)[Len(es) + 1] = e
        /\ Len(es \o <<e>>) = Len(es) + 1
        /\ es \o <<e>> \in Seq(EditsOf(S))
    <3>1. es \in Seq(EditsOf(S)) /\ e \in EditsOf(S)
      BY <1>3, <1>4
    <3> HIDE <1>3, <1>4
    <3> QED BY <2>1, <3>1, RebuiltGrows, Zenon
  <2> QED BY <2>2, Zenon
<1> HIDE DEF d, s, r, n, fs
<1>6. Rebuilt(a, fs) = SubSeq(b, 1, w)
  <2>1. (r \o s) \o q = r \o (s \o q)
    <3>1. r \in Seq(S)
      BY <1>4
    <3>2. Associate(r, s, q)
      BY <1>1, <1>2, <3>1, JoinsAssociate
    <3> QED BY <3>2 DEF Associate
  <2>2. Rebuilt(a, fs) = r \o (s \o q)
    BY <1>3, <1>5 DEF s
  <2>3. SubSeq(b, 1, y) \o q = SubSeq(b, 1, w)
    BY SlicesJoin DEF q
  <2> QED BY <1>4, <2>1, <2>2, <2>3
<1>7. SubSeq(b, 1, w) \in Seq(S)
  <2>1. 0 \in Nat /\ w \in Int /\ 0 + 1 = 1
    OBVIOUS
  <2>2. SubSeq(b, 0 + 1, w) \in Seq(S)
    BY <2>1, PartIs
  <2> QED BY <2>1, <2>2
<1>8. SubSeq(a, u + 1, u) = <<>> /\ SubSeq(b, 1, w) \o <<>> = SubSeq(b, 1, w)
  <2>1. SubSeq(a, u + 1, u) = <<>>
    BY SubSeqEmpty
  <2>2. SubSeq(b, 1, w) \o <<>> = SubSeq(b, 1, w)
    BY <1>7, ConcatEmptySeq
  <2> QED BY <2>1, <2>2
<1>9. ASSUME NEW i \in 1..Len(fs)
      PROVE  DoneBy(fs, i - 1) <= fs[i].baseStart /\ fs[i].baseStart <= Len(a)
  <2>1. CASE i = n + 1
    <3>1. i - 1 = n
      BY <1>0, <2>1
    <3> QED BY <1>0, <1>3, <1>5, <2>1, <3>1
  <2>2. CASE i # n + 1
    <3>1. i \in 1..n
      BY <1>0, <1>5, <2>2
    <3> QED BY <1>4, <1>5, <3>1
  <2> QED BY <2>1, <2>2
<1>10. DoneBy(fs, Len(fs)) = u /\ u <= u
  BY <1>3, <1>5
<1>11. Rebuilt(a, fs) \o SubSeq(a, DoneBy(fs, Len(fs)) + 1, u) = SubSeq(b, 1, w)
  BY <1>6, <1>8, <1>10
<1>12. fs \in Seq(EditsOf(S)) /\ Rebuilt(a, fs) \in Seq(S)
  BY <1>5, <1>6, <1>7
<1>13. Redone(S, a, b, fs, u, w)
  BY <1>9, <1>10, <1>11, <1>12 DEF Redone
<1> QED BY <1>13 DEF fs, e

LEMMA RedoneAtLast ==
    ASSUME NEW S, NEW a \in Seq(S), NEW b \in Seq(S), NEW es, Redone(S, a, b, es, Len(a), Len(b))
    PROVE  Apply(a, es) = {b}
<1>1. es \in Seq(EditsOf(S)) /\ Len(es) \in Nat
  <2>1. es \in Seq(EditsOf(S))
    BY DEF Redone
  <2> QED BY <2>1
<1>2. ASSUME NEW i \in 1..Len(es) PROVE ~(es[i].baseStart < DoneBy(es, i - 1))
  <2>1. DoneBy(es, i - 1) <= es[i].baseStart
    BY DEF Redone
  <2>2. es[i].baseStart \in Nat
    <3>1. es[i] \in EditsOf(S)
      BY <1>1
    <3> QED BY <3>1 DEF EditsOf
  <2>3. DoneBy(es, i - 1) \in Nat
    <3>1. CASE i = 1
      BY <3>1 DEF DoneBy
    <3>2. CASE i # 1
      <4>1. i - 1 \in 1..Len(es) /\ i - 1 # 0
        BY <1>1, <3>2
      <4>2. es[i - 1] \in EditsOf(S)
        BY <1>1, <4>1
      <4>3. es[i - 1].baseEnd \in Nat
        BY <4>2 DEF EditsOf
      <4> QED BY <4>1, <4>3 DEF DoneBy
    <3> QED BY <3>1, <3>2
  <2>4. \A m, n \in Nat : m <= n => ~(n < m)
    OBVIOUS
  <2> QED BY <2>1, <2>2, <2>3, <2>4
<1>3. Rebuilt(a, es) \o SubSeq(a, DoneBy(es, Len(es)) + 1, Len(a)) = b
  <2>1. SubSeq(b, 1, Len(b)) = b
    BY SubSeqFull
  <2> QED BY <2>1 DEF Redone
<1> QED BY <1>2, <1>3, ApplyIs

-----------------------------------------------------------------------------
(* The edits: from anchor to anchor, and their theorem. *)

\* What the edits hold for two anchors in a row.
Gap(b, m, n) ==
    IF n = <<m[1] + 1, m[2] + 1>> THEN <<>>
    ELSE <<EditUpTo(b, m[1], m[2], n[1] - 1, n[2] - 1)>>

LEMMA EditsBetweenIs ==
    ASSUME NEW b, NEW anchors
    PROVE  EditsBetween(b, anchors)
             = FlattenSeq([i \in 1..(Len(anchors) - 1) |-> Gap(b, anchors[i], anchors[i + 1])])
BY DEF EditsBetween, Gap, EditUpTo

\* From one anchor to just before the next.
LEMMA RedoneGap ==
    ASSUME NEW S, NEW a \in Seq(S), NEW b \in Seq(S), NEW m \in Nat \X Nat, NEW n \in Nat \X Nat,
           m[1] < n[1], m[2] < n[2], n[1] - 1 <= Len(a), n[2] - 1 <= Len(b),
           NEW es, Redone(S, a, b, es, m[1], m[2])
    PROVE  /\ Gap(b, m, n) \in Seq(EditsOf(S))
           /\ Redone(S, a, b, es \o Gap(b, m, n), n[1] - 1, n[2] - 1)
<1> DEFINE x == m[1]
           y == m[2]
           u == n[1] - 1
           w == n[2] - 1
<1>1. x \in Nat /\ y \in Nat /\ u \in Nat /\ w \in Nat /\ x <= u /\ y <= w
  <2>1. m[1] \in Nat /\ m[2] \in Nat /\ n[1] \in Nat /\ n[2] \in Nat
    OBVIOUS
  <2>2. \A i, j \in Nat : i < j => j - 1 \in Nat /\ i <= j - 1
    OBVIOUS
  <2> QED BY <2>1, <2>2
<1>2. CASE n = <<m[1] + 1, m[2] + 1>>
  <2>1. Gap(b, m, n) = <<>> /\ u = x /\ w = y
    BY <1>2 DEF Gap
  <2>2. es \in Seq(EditsOf(S)) /\ <<>> \in Seq(EditsOf(S))
    BY DEF Redone
  <2>3. es \o <<>> = es
    BY <2>2, ConcatEmptySeq
  <2> QED BY <2>1, <2>2, <2>3
<1>3. CASE n # <<m[1] + 1, m[2] + 1>>
  <2>1. Gap(b, m, n) = <<EditUpTo(b, x, y, u, w)>>
    BY <1>3 DEF Gap
  <2>2. Redone(S, a, b, es, x, y) /\ u <= Len(a) /\ w <= Len(b)
    OBVIOUS
  <2> HIDE DEF x, y, u, w
  <2>3. Redone(S, a, b, es \o <<EditUpTo(b, x, y, u, w)>>, u, w)
    BY <1>1, <2>2, RedoneEdit
  <2>4. EditUpTo(b, x, y, u, w) \in EditsOf(S)
    <3>1. SubSeq(b, y + 1, w) \in Seq(S)
      <4>1. w \in Int
        BY <1>1
      <4> QED BY <1>1, <2>2, <4>1, PartIs
    <3> QED BY <1>1, <3>1 DEF EditUpTo, EditsOf
  <2>5. <<EditUpTo(b, x, y, u, w)>> \in Seq(EditsOf(S))
    <3> DEFINE e == EditUpTo(b, x, y, u, w)
               T == EditsOf(S)
    <3>1. e \in T
      BY <2>4
    <3> HIDE DEF e, T
    <3>2. <<e>> \in Seq(T)
      BY <3>1
    <3> QED BY <3>2 DEF e, T
  <2> QED BY <2>1, <2>3, <2>5 DEF u, w
<1> QED BY <1>2, <1>3

LEMMA EditsRedo ==
    ASSUME NEW S, NEW a \in Seq(S), NEW b \in Seq(S)
    PROVE  Redone(S, a, b, SequenceEdits(a, b), Len(a), Len(b))
<1> DEFINE anchors == Anchors(a, b)
           l == Len(anchors)
           piece == [i \in 1..(l - 1) |-> Gap(b, anchors[i], anchors[i + 1])]
           E(k) == FlattenSeq([i \in 1..k |-> piece[i]])
<1>0. Len(a) \in Nat /\ Len(b) \in Nat
  OBVIOUS
<1>1. AnchorsFor(a, b, anchors)
  BY AnchorsAre
<1>2. Common(a, b, MatchedPairs(a, b))
  BY MatchesAre
<1>3. SequenceEdits(a, b) = E(l - 1)
  <2>1. [i \in 1..(l - 1) |-> piece[i]] = piece
    OBVIOUS
  <2> QED BY <2>1, EditsBetweenIs DEF SequenceEdits
<1> HIDE DEF anchors
<1>4. /\ anchors \in Seq(Nat \X Nat) /\ l \in Nat /\ l >= 2
      /\ anchors[1] = <<0, 0>> /\ anchors[l] = <<Len(a) + 1, Len(b) + 1>>
      /\ \A i \in 1..(l - 1) : anchors[i][1] < anchors[i + 1][1] /\ anchors[i][2] < anchors[i + 1][2]
      /\ \A i \in 2..(l - 1) : anchors[i] \in MatchedPairs(a, b)
  <2>1. anchors \in Seq(Nat \X Nat)
    BY <1>1 DEF AnchorsFor
  <2>2. l \in Nat
    BY <2>1
  <2> QED BY <1>1, <2>1, <2>2 DEF AnchorsFor
<1>5. \A i \in 1..l : anchors[i] \in Nat \X Nat
  BY <1>4
<1>6. \A i \in 1..(l - 1) : piece[i] = Gap(b, anchors[i], anchors[i + 1])
  OBVIOUS
<1> HIDE DEF piece, l
<1> DEFINE T == EditsOf(S)
           Good(k) == /\ \A i \in 1..k : piece[i] \in Seq(T)
                      /\ Redone(S, a, b, E(k), anchors[k + 1][1], anchors[k + 1][2])
           Held == {k \in Nat : k + 2 <= l => Good(k)}
\* From one anchor to the next, up to where the gap ends.
<1>7. ASSUME NEW k \in Nat, k + 2 <= l, Good(k)
      PROVE  LET n == anchors[k + 2]
             IN  /\ n \in Nat \X Nat
                 /\ \A i \in 1..(k + 1) : piece[i] \in Seq(T)
                 /\ Redone(S, a, b, E(k + 1), n[1] - 1, n[2] - 1)
  <2> DEFINE m == anchors[k + 1]
             n == anchors[k + 2]
  <2>1. k + 1 \in 1..(l - 1) /\ k + 1 \in 1..l /\ k + 2 \in 1..l /\ (k + 1) + 1 = k + 2
    BY <1>4, <1>7
  <2>2. /\ m \in Nat \X Nat /\ n \in Nat \X Nat /\ m[1] < n[1] /\ m[2] < n[2]
        /\ piece[k + 1] = Gap(b, m, n)
    <3>1. m \in Nat \X Nat /\ n \in Nat \X Nat
      BY <1>5, <2>1
    <3>2. m[1] < n[1] /\ m[2] < n[2]
      BY <1>4, <2>1
    <3>3. piece[k + 1] = Gap(b, m, n)
      BY <1>6, <2>1
    <3> QED BY <3>1, <3>2, <3>3
  <2>3. n[1] - 1 <= Len(a) /\ n[2] - 1 <= Len(b)
    <3>1. CASE k + 2 = l
      <4>1. n[1] = Len(a) + 1 /\ n[2] = Len(b) + 1
        BY <1>4, <3>1, SMTT(30)
      <4> HIDE DEF n
      <4> QED BY <1>0, <4>1
    <3>2. CASE k + 2 # l
      <4>1. k + 2 \in 2..(l - 1)
        BY <1>4, <1>7, <3>2
      <4>2. n \in MatchedPairs(a, b)
        BY <1>4, <4>1
      <4>3. n[1] \in 1..Len(a) /\ n[2] \in 1..Len(b)
        BY <1>2, <4>2 DEF Common
      <4> HIDE DEF n
      <4> QED BY <1>0, <4>3
    <3> QED BY <3>1, <3>2
  <2> HIDE DEF E, T
  <2>4. Redone(S, a, b, E(k), m[1], m[2])
    BY <1>7
  <2> HIDE DEF m, n
  <2>5. piece[k + 1] \in Seq(T) /\ Redone(S, a, b, E(k) \o piece[k + 1], n[1] - 1, n[2] - 1)
    BY <2>2, <2>3, <2>4, RedoneGap DEF T
  <2>6. \A i \in 1..(k + 1) : piece[i] \in Seq(T)
    <3> TAKE i \in 1..(k + 1)
    <3>1. i = k + 1 \/ i \in 1..k
      OBVIOUS
    <3>2. \A j \in 1..k : piece[j] \in Seq(T)
      BY <1>7
    <3> QED BY <2>5, <3>1, <3>2
  <2>7. E(k + 1) = E(k) \o piece[k + 1]
    <3>1. /\ FlattenSeq([i \in 1..(k + 1) |-> piece[i]])
              = FlattenSeq([i \in 1..k |-> piece[i]]) \o piece[k + 1]
      BY <2>6, FlattenGrows
    <3> QED BY <3>1 DEF E
  <2>8. Redone(S, a, b, E(k + 1), n[1] - 1, n[2] - 1)
    BY <2>5, <2>7
  <2> QED BY <2>2, <2>6, <2>8 DEF n
<1>8. 0 \in Held
  <2>1. E(0) = <<>>
    BY FlattenNone
  <2> HIDE DEF E
  <2>2. anchors[0 + 1][1] = 0 /\ anchors[0 + 1][2] = 0
    BY <1>4
  <2>3. Redone(S, a, b, E(0), anchors[0 + 1][1], anchors[0 + 1][2])
    BY <2>1, <2>2, RedoneAtFirst
  <2>4. \A i \in 1..0 : piece[i] \in Seq(T)
    OBVIOUS
  <2>5. Good(0)
    BY <2>3, <2>4
  <2> QED BY <2>5
<1>9. ASSUME NEW k \in Nat, k \in Held PROVE k + 1 \in Held
  <2> SUFFICES ASSUME (k + 1) + 2 <= l PROVE Good(k + 1)
    OBVIOUS
  <2> DEFINE n == anchors[k + 2]
  <2>1. k + 2 <= l /\ k + 2 \in 2..(l - 1) /\ (k + 1) + 1 = k + 2
    BY <1>4
  <2>2. Good(k)
    BY <1>9, <2>1
  <2> HIDE DEF Good
  <2>3. /\ n \in Nat \X Nat
        /\ \A i \in 1..(k + 1) : piece[i] \in Seq(T)
        /\ Redone(S, a, b, E(k + 1), n[1] - 1, n[2] - 1)
    BY <1>7, <2>1, <2>2
  <2> HIDE DEF E
  <2>4. n \in MatchedPairs(a, b)
    BY <1>4, <2>1
  <2>5. n[1] \in 1..Len(a) /\ n[2] \in 1..Len(b) /\ a[n[1]] = b[n[2]]
    BY <1>2, <2>4 DEF Common
  <2> DEFINE x == n[1] - 1
             y == n[2] - 1
  <2>6. x \in Nat /\ y \in Nat /\ x + 1 = n[1] /\ y + 1 = n[2] /\ n[1] <= Len(a) /\ n[2] <= Len(b)
    <3> HIDE DEF n
    <3> QED BY <1>0, <2>5
  <2>7. Redone(S, a, b, E(k + 1), x, y)
    BY <2>3
  <2> HIDE DEF x, y, n
  <2>8. Redone(S, a, b, E(k + 1), x + 1, y + 1)
    BY <2>5, <2>6, <2>7, RedoneMatch
  <2>9. Redone(S, a, b, E(k + 1), n[1], n[2])
    BY <2>6, <2>8
  <2> QED BY <2>1, <2>3, <2>9 DEF Good, n
<1>10. ASSUME NEW k \in Nat, k + 2 = l PROVE Good(k)
  <2>1. \A i \in Nat : i \in Held
    <3> HIDE DEF Held
    <3> QED BY <1>8, <1>9, InductionOverNat
  <2>2. k \in Held /\ k + 2 <= l
    BY SMTT(30), <1>4, <1>10, <2>1
  <2> HIDE DEF Good
  <2> QED BY <2>2
<1>11. PICK k \in Nat : k + 2 = l
  <2>1. l - 2 \in Nat /\ (l - 2) + 2 = l
    BY <1>4
  <2> QED BY <2>1
<1> HIDE DEF Good, Held
<1>12. Redone(S, a, b, E(k + 1), anchors[k + 2][1] - 1, anchors[k + 2][2] - 1)
  <2>1. k + 2 <= l
    BY <1>11
  <2> QED BY <1>7, <1>10, <1>11, <2>1
<1> HIDE DEF E
<1>13. /\ anchors[k + 2][1] - 1 = Len(a) /\ anchors[k + 2][2] - 1 = Len(b)
       /\ k + 1 = l - 1
  <2>1. anchors[k + 2][1] = Len(a) + 1 /\ anchors[k + 2][2] = Len(b) + 1
    BY <1>4, <1>11
  <2>2. k + 1 = l - 1
    BY <1>4, <1>11
  <2> QED BY <1>0, <2>1, <2>2
<1> QED BY <1>3, <1>12, <1>13

(* The edits that the diff of the merge editor finds (computeSequenceEdits) *)
(* are right: applied to the first sequence, in their order, they make the  *)
(* second one, and no edit starts before the one before it has ended.       *)
THEOREM EditsRewrite == \A S : \A a, b \in Seq(S) : Apply(a, SequenceEdits(a, b)) = {b}
<1> TAKE S
<1> TAKE a, b \in Seq(S)
<1>1. Redone(S, a, b, SequenceEdits(a, b), Len(a), Len(b))
  BY EditsRedo
<1> QED BY <1>1, RedoneAtLast

-----------------------------------------------------------------------------
(* The edits: they say all of both sequences. *)

\* Where the first i edits end on the other side.
DoneThere(es, i) == IF i = 0 THEN 0 ELSE es[i].sideEnd

\* From one pair of places to another the two sequences are the same.
Even(a, b, p, q, x, y) ==
    /\ p <= x /\ x - p = y - q
    /\ \A k \in 1..(x - p) : a[p + k] = b[q + k]

ProperEdit(a, b, e) ==
    /\ e.baseStart <= e.baseEnd /\ e.baseEnd <= Len(a)
    /\ e.sideStart <= e.sideEnd /\ e.sideEnd <= Len(b)
    /\ e.items = SubSeq(b, e.sideStart + 1, e.sideEnd)

\* The edits say all of a up to x and of b up to y: what is between them is even,
\* and they do not touch.
Script(S, a, b, es, x, y) ==
    /\ es \in Seq(EditsOf(S))
    /\ \A k \in 1..Len(es) : ProperEdit(a, b, es[k])
    /\ \A k \in 1..Len(es) : Even(a, b, DoneBy(es, k - 1), DoneThere(es, k - 1),
                                  es[k].baseStart, es[k].sideStart)
    /\ \A k \in 2..Len(es) : DoneBy(es, k - 1) < es[k].baseStart
    /\ Even(a, b, DoneBy(es, Len(es)), DoneThere(es, Len(es)), x, y)

\* The pairs up to x are where nothing is edited, as far into it on both sides.
Placed(pairs, es, x) ==
    \A m \in pairs : m[1] <= x =>
       \E k \in 0..Len(es) :
          /\ DoneBy(es, k) < m[1] /\ (k < Len(es) => m[1] <= es[k + 1].baseStart)
          /\ m[2] - m[1] = DoneThere(es, k) - DoneBy(es, k)

LEMMA ScriptType ==
    ASSUME NEW S, NEW a, NEW b, NEW es, NEW x, NEW y, Script(S, a, b, es, x, y)
    PROVE  /\ es \in Seq(EditsOf(S)) /\ Len(es) \in Nat
           /\ \A k \in 1..Len(es) : /\ es[k] \in EditsOf(S)
                                    /\ es[k].baseStart \in Nat /\ es[k].baseEnd \in Nat
                                    /\ es[k].sideStart \in Nat /\ es[k].sideEnd \in Nat
                                    /\ es[k].items \in Seq(S)
           /\ \A k \in 0..Len(es) : DoneBy(es, k) \in Nat /\ DoneThere(es, k) \in Nat
<1>1. es \in Seq(EditsOf(S))
  BY DEF Script
<1>2. Len(es) \in Nat /\ \A k \in 1..Len(es) : es[k] \in EditsOf(S)
  BY <1>1
<1>3. \A e \in EditsOf(S) : /\ e.baseStart \in Nat /\ e.baseEnd \in Nat
                            /\ e.sideStart \in Nat /\ e.sideEnd \in Nat /\ e.items \in Seq(S)
  BY DEF EditsOf
<1>4. \A k \in 1..Len(es) : /\ es[k].baseStart \in Nat /\ es[k].baseEnd \in Nat
                            /\ es[k].sideStart \in Nat /\ es[k].sideEnd \in Nat
                            /\ es[k].items \in Seq(S)
  BY <1>2, <1>3
<1>5. ASSUME NEW k \in 0..Len(es) PROVE DoneBy(es, k) \in Nat /\ DoneThere(es, k) \in Nat
  <2>1. CASE k = 0
    BY <2>1 DEF DoneBy, DoneThere
  <2>2. CASE k # 0
    <3>1. k \in 1..Len(es)
      BY <1>2, <2>2
    <3> QED BY <1>4, <2>2, <3>1 DEF DoneBy, DoneThere
  <2> QED BY <2>1, <2>2
<1> QED BY <1>1, <1>2, <1>4, <1>5

LEMMA ScriptAtFirst ==
    ASSUME NEW S, NEW a, NEW b, NEW pairs, \A m \in pairs : m[1] \in Nat /\ m[1] >= 1
    PROVE  Script(S, a, b, <<>>, 0, 0) /\ Placed(pairs, <<>>, 0)
<1>1. /\ <<>> \in Seq(EditsOf(S)) /\ Len(<<>>) = 0 /\ 1..Len(<<>>) = {} /\ 2..Len(<<>>) = {}
      /\ DoneBy(<<>>, 0) = 0 /\ DoneThere(<<>>, 0) = 0
  BY DEF DoneBy, DoneThere
<1>2. Even(a, b, 0, 0, 0, 0)
  <2>1. 0 - 0 = 0 /\ 1..(0 - 0) = {} /\ 0 <= 0
    OBVIOUS
  <2> QED BY <2>1 DEF Even
<1>3. \A m \in pairs : ~(m[1] <= 0)
  OBVIOUS
<1> QED BY <1>1, <1>2, <1>3 DEF Script, Placed

Numbered(pairs) == \A m \in pairs : m[1] \in Nat /\ m[2] \in Nat

Matching(a, b, pairs, x, y) ==
    a[x + 1] = b[y + 1] /\ \A m \in pairs : m[1] = x + 1 => m[2] = y + 1

Reaches(S, a, b, pairs, es, x, y) ==
    /\ Script(S, a, b, es, x, y) /\ Placed(pairs, es, x)
    /\ es # <<>> => DoneBy(es, Len(es)) < x

\* A matched pair goes on in both.
LEMMA ScriptMatch ==
    ASSUME NEW S, NEW a, NEW b, NEW es, NEW x \in Nat, NEW y \in Nat, Script(S, a, b, es, x, y),
           NEW pairs, Numbered(pairs), Placed(pairs, es, x), Matching(a, b, pairs, x, y)
    PROVE  Reaches(S, a, b, pairs, es, x + 1, y + 1)
<1> DEFINE n == Len(es)
           d == DoneBy(es, n)
           t == DoneThere(es, n)
<1>1. n \in Nat /\ d \in Nat /\ t \in Nat
  <2>1. Len(es) \in Nat /\ \A k \in 0..Len(es) : DoneBy(es, k) \in Nat /\ DoneThere(es, k) \in Nat
    BY ScriptType
  <2>2. n \in 0..n
    BY <2>1
  <2> QED BY <2>1, <2>2
<1>2. Even(a, b, d, t, x, y)
  BY DEF Script
<1> HIDE DEF d, t
<1>3. d <= x /\ x - d = y - t /\ \A k \in 1..(x - d) : a[d + k] = b[t + k]
  BY <1>2 DEF Even
<1>4. /\ d <= x + 1 /\ d < x + 1 /\ (x + 1) - d = (y + 1) - t
      /\ \A k \in 1..((x + 1) - d) : k \in 1..(x - d) \/ (d + k = x + 1 /\ t + k = y + 1)
  BY <1>1, <1>3
<1>5. Even(a, b, d, t, x + 1, y + 1)
  BY <1>3, <1>4 DEF Even, Matching
<1>6. Script(S, a, b, es, x + 1, y + 1)
  BY <1>5 DEF Script, d, t
<1>7. ASSUME NEW m \in pairs, m[1] <= x + 1
      PROVE  \E k \in 0..Len(es) :
                /\ DoneBy(es, k) < m[1] /\ (k < Len(es) => m[1] <= es[k + 1].baseStart)
                /\ m[2] - m[1] = DoneThere(es, k) - DoneBy(es, k)
  <2>1. CASE m[1] = x + 1
    <3>1. m[2] = y + 1
      BY <2>1 DEF Matching
    <3>2. (y + 1) - (x + 1) = t - d
      BY <1>1, <1>3
    <3>3. n \in 0..n /\ ~(n < n)
      BY <1>1
    <3> QED BY <1>4, <2>1, <3>1, <3>2, <3>3 DEF d, t
  <2>2. CASE m[1] # x + 1
    <3>1. m[1] <= x
      BY <1>7, <2>2 DEF Numbered
    <3> QED BY <3>1 DEF Placed
  <2> QED BY <2>1, <2>2
<1>8. Placed(pairs, es, x + 1)
  BY <1>7 DEF Placed
<1> QED BY <1>4, <1>6, <1>8 DEF Reaches, d

-----------------------------------------------------------------------------
(* The edits: one more of them. *)

\* A sequence, and one more item.
OneMore(s, z, t) ==
    /\ Len(t) = Len(s) + 1 /\ t[Len(s) + 1] = z
    /\ \A i \in 1..Len(s) : t[i] = s[i]

LEMMA OneMoreIs ==
    ASSUME NEW T, NEW s \in Seq(T), NEW z \in T
    PROVE  s \o <<z>> \in Seq(T) /\ OneMore(s, z, s \o <<z>>)
BY DEF OneMore

LEMMA EditsGrow ==
    ASSUME NEW es, Len(es) \in Nat, NEW e, NEW fs, OneMore(es, e, fs)
    PROVE  /\ \A k \in 0..Len(es) : DoneBy(fs, k) = DoneBy(es, k) /\ DoneThere(fs, k) = DoneThere(es, k)
           /\ DoneBy(fs, Len(fs)) = e.baseEnd /\ DoneThere(fs, Len(fs)) = e.sideEnd
<1>1. Len(fs) = Len(es) + 1 /\ fs[Len(fs)] = e /\ Len(fs) # 0
  BY DEF OneMore
<1>2. ASSUME NEW k \in 0..Len(es)
      PROVE  DoneBy(fs, k) = DoneBy(es, k) /\ DoneThere(fs, k) = DoneThere(es, k)
  <2>1. CASE k = 0
    BY <2>1 DEF DoneBy, DoneThere
  <2>2. CASE k # 0
    <3>1. k \in 1..Len(es)
      BY <2>2
    <3>2. fs[k] = es[k]
      BY <3>1 DEF OneMore
    <3> QED BY <2>2, <3>2 DEF DoneBy, DoneThere
  <2> QED BY <2>1, <2>2
<1> QED BY <1>1, <1>2 DEF DoneBy, DoneThere

\* What lies between two points becomes an edit.
LEMMA ScriptEdit ==
    ASSUME NEW S, NEW a \in Seq(S), NEW b \in Seq(S), NEW es, NEW x \in Nat, NEW y \in Nat,
           Script(S, a, b, es, x, y), es # <<>> => DoneBy(es, Len(es)) < x,
           NEW pairs, \A m \in pairs : m[1] \in Nat /\ m[2] \in Nat, Placed(pairs, es, x),
           NEW u \in Nat, NEW w \in Nat, x <= u, y <= w, u <= Len(a), w <= Len(b),
           \A m \in pairs : ~(x < m[1] /\ m[1] <= u),
           NEW fs, fs = es \o <<EditUpTo(b, x, y, u, w)>>
    PROVE  Script(S, a, b, fs, u, w) /\ Placed(pairs, fs, u)
<1> DEFINE e == EditUpTo(b, x, y, u, w)
           n == Len(es)
<1>1. /\ es \in Seq(EditsOf(S)) /\ n \in Nat
      /\ \A k \in 0..n : DoneBy(es, k) \in Nat /\ DoneThere(es, k) \in Nat
  BY ScriptType
<1>2. /\ e \in EditsOf(S) /\ ProperEdit(a, b, e)
      /\ e.baseStart = x /\ e.baseEnd = u /\ e.sideStart = y /\ e.sideEnd = w
  <2>1. SubSeq(b, y + 1, w) \in Seq(S)
    <3>1. w \in Int
      OBVIOUS
    <3> QED BY <3>1, PartIs
  <2> QED BY <2>1 DEF EditUpTo, EditsOf, ProperEdit
<1>3. fs \in Seq(EditsOf(S)) /\ OneMore(es, e, fs)
  <2> DEFINE T == EditsOf(S)
  <2>1. es \in Seq(T) /\ e \in T
    BY <1>1, <1>2
  <2> HIDE DEF T, e
  <2>2. es \o <<e>> \in Seq(T) /\ OneMore(es, e, es \o <<e>>)
    BY <2>1, OneMoreIs
  <2> QED BY <2>2 DEF T, e
<1> HIDE DEF e, n
<1>4. /\ \A k \in 0..n : DoneBy(fs, k) = DoneBy(es, k) /\ DoneThere(fs, k) = DoneThere(es, k)
      /\ DoneBy(fs, Len(fs)) = u /\ DoneThere(fs, Len(fs)) = w
  <2>1. Len(es) \in Nat /\ OneMore(es, e, fs)
    BY <1>1, <1>3 DEF n
  <2>2. /\ \A k \in 0..Len(es) : DoneBy(fs, k) = DoneBy(es, k) /\ DoneThere(fs, k) = DoneThere(es, k)
        /\ DoneBy(fs, Len(fs)) = e.baseEnd /\ DoneThere(fs, Len(fs)) = e.sideEnd
    BY <2>1, EditsGrow, ZenonT(30)
  <2> QED BY <1>2, <2>2 DEF n
<1>5. Len(fs) = n + 1 /\ fs[n + 1] = e /\ \A k \in 1..n : fs[k] = es[k]
  BY <1>3 DEF OneMore, n
<1>6. ASSUME NEW k \in 1..Len(fs)
      PROVE  /\ ProperEdit(a, b, fs[k])
             /\ Even(a, b, DoneBy(fs, k - 1), DoneThere(fs, k - 1), fs[k].baseStart, fs[k].sideStart)
             /\ k \in 2..Len(fs) => DoneBy(fs, k - 1) < fs[k].baseStart
  <2>1. k - 1 \in 0..n
    BY <1>1, <1>5
  <2>2. DoneBy(fs, k - 1) = DoneBy(es, k - 1) /\ DoneThere(fs, k - 1) = DoneThere(es, k - 1)
    BY <1>4, <2>1
  <2>3. CASE k = n + 1
    <3>1. k - 1 = n
      BY <1>1, <2>3
    <3>2. Even(a, b, DoneBy(es, n), DoneThere(es, n), x, y)
      BY DEF Script, n
    <3>3. k \in 2..Len(fs) => es # <<>>
      <4>1. k \in 2..Len(fs) => n # 0
        BY <1>1, <2>3
      <4> QED BY <4>1 DEF n
    <3> QED BY <1>2, <1>5, <2>2, <2>3, <3>1, <3>2, <3>3 DEF n
  <2>4. CASE k # n + 1
    <3>1. k \in 1..n
      BY <1>1, <1>5, <2>4
    <3>2. ProperEdit(a, b, es[k]) /\ Even(a, b, DoneBy(es, k - 1), DoneThere(es, k - 1),
                                         es[k].baseStart, es[k].sideStart)
      BY <3>1 DEF Script, n
    <3>3. k \in 2..Len(fs) => DoneBy(es, k - 1) < es[k].baseStart
      <4>1. k \in 2..Len(fs) => k \in 2..n
        BY <1>1, <3>1
      <4> QED BY <4>1 DEF Script, n
    <3> QED BY <1>5, <2>2, <3>1, <3>2, <3>3
  <2> QED BY <2>3, <2>4
<1>7. Even(a, b, u, w, u, w)
  <2>1. u - u = 0 /\ w - w = 0 /\ 1..0 = {} /\ u <= u
    OBVIOUS
  <2> QED BY <2>1 DEF Even
<1>8. \A k \in 2..Len(fs) : k \in 1..Len(fs)
  BY <1>1, <1>5
<1>9. Script(S, a, b, fs, u, w)
  BY <1>3, <1>4, <1>6, <1>7, <1>8 DEF Script
<1>10. ASSUME NEW m \in pairs, m[1] <= u
       PROVE  \E k \in 0..Len(fs) :
                /\ DoneBy(fs, k) < m[1] /\ (k < Len(fs) => m[1] <= fs[k + 1].baseStart)
                /\ m[2] - m[1] = DoneThere(fs, k) - DoneBy(fs, k)
  <2>1. m[1] <= x
    BY <1>10
  <2>2. PICK k \in 0..n :
                /\ DoneBy(es, k) < m[1] /\ (k < n => m[1] <= es[k + 1].baseStart)
                /\ m[2] - m[1] = DoneThere(es, k) - DoneBy(es, k)
    BY <2>1 DEF Placed, n
  <2>3. k \in 0..Len(fs)
    BY <1>1, <1>5
  <2>4. m[1] <= fs[k + 1].baseStart
    <3>1. CASE k = n
      BY <1>2, <1>5, <2>1, <3>1
    <3>2. CASE k # n
      <4>1. k < n /\ k + 1 \in 1..n
        BY <1>1, <3>2
      <4> QED BY <1>5, <2>2, <4>1
    <3> QED BY <3>1, <3>2
  <2>5. DoneBy(fs, k) = DoneBy(es, k) /\ DoneThere(fs, k) = DoneThere(es, k)
    BY <1>4
  <2> QED BY <2>2, <2>3, <2>4, <2>5
<1> QED BY <1>9, <1>10 DEF Placed

\* From one anchor to just before the next.
LEMMA ScriptGap ==
    ASSUME NEW S, NEW a \in Seq(S), NEW b \in Seq(S), NEW m \in Nat \X Nat, NEW n \in Nat \X Nat,
           m[1] < n[1], m[2] < n[2], n[1] - 1 <= Len(a), n[2] - 1 <= Len(b),
           NEW es, Script(S, a, b, es, m[1], m[2]), es # <<>> => DoneBy(es, Len(es)) < m[1],
           NEW pairs, \A z \in pairs : z[1] \in Nat /\ z[2] \in Nat, Placed(pairs, es, m[1]),
           \A z \in pairs : ~(m[1] < z[1] /\ z[1] < n[1])
    PROVE  /\ Script(S, a, b, es \o Gap(b, m, n), n[1] - 1, n[2] - 1)
           /\ Placed(pairs, es \o Gap(b, m, n), n[1] - 1)
<1> DEFINE x == m[1]
           y == m[2]
           u == n[1] - 1
           w == n[2] - 1
<1>1. /\ x \in Nat /\ y \in Nat /\ u \in Nat /\ w \in Nat /\ x <= u /\ y <= w
      /\ \A k \in Nat : k <= u => k < n[1]
  <2>1. m[1] \in Nat /\ m[2] \in Nat /\ n[1] \in Nat /\ n[2] \in Nat
    OBVIOUS
  <2>2. \A i, j \in Nat : i < j => j - 1 \in Nat /\ i <= j - 1 /\ \A k \in Nat : k <= j - 1 => k < j
    OBVIOUS
  <2> QED BY <2>1, <2>2
<1>2. CASE n = <<m[1] + 1, m[2] + 1>>
  <2>1. Gap(b, m, n) = <<>> /\ u = x /\ w = y
    BY <1>2 DEF Gap
  <2>2. es \in Seq(EditsOf(S))
    BY DEF Script
  <2>3. es \o <<>> = es
    BY <2>2, ConcatEmptySeq
  <2> QED BY <2>1, <2>3
<1>3. CASE n # <<m[1] + 1, m[2] + 1>>
  <2>1. Gap(b, m, n) = <<EditUpTo(b, x, y, u, w)>>
    BY <1>3 DEF Gap
  <2>2. /\ Script(S, a, b, es, x, y) /\ u <= Len(a) /\ w <= Len(b) /\ Placed(pairs, es, x)
        /\ es # <<>> => DoneBy(es, Len(es)) < x
    OBVIOUS
  <2>3. \A z \in pairs : ~(x < z[1] /\ z[1] <= u)
    BY <1>1
  <2> DEFINE fs == es \o <<EditUpTo(b, x, y, u, w)>>
  <2>4. fs = es \o Gap(b, m, n)
    BY <2>1
  <2> HIDE DEF x, y, u, w
  <2>5. Script(S, a, b, fs, u, w) /\ Placed(pairs, fs, u)
    BY <1>1, <2>2, <2>3, ScriptEdit
  <2> QED BY <2>4, <2>5 DEF u, w
<1> QED BY <1>2, <1>3

-----------------------------------------------------------------------------
(* The edits: they are a script, with the matches where nothing is edited. *)

\* No pair is between an anchor and the next.
LEMMA NothingBetween ==
    ASSUME NEW a, NEW b, NEW anchors, AnchorsFor(a, b, anchors)
    PROVE  \A i \in 1..(Len(anchors) - 1) : \A m \in MatchedPairs(a, b) :
              ~(anchors[i][1] < m[1] /\ m[1] < anchors[i + 1][1])
<1> DEFINE l == Len(anchors)
           Up == {n \in Nat : \A i \in 1..l : i + n <= l => anchors[i][1] <= anchors[i + n][1]}
<1>1. anchors \in Seq(Nat \X Nat) /\ l \in Nat
  <2>1. anchors \in Seq(Nat \X Nat)
    BY DEF AnchorsFor
  <2> QED BY <2>1
<1>2. \A i \in 1..l : anchors[i][1] \in Nat
  BY <1>1
<1>3. \A i \in 1..(l - 1) : anchors[i][1] < anchors[i + 1][1]
  BY DEF AnchorsFor
<1> HIDE DEF l
<1>4. 0 \in Up
  <2>1. \A i \in 1..l : i + 0 = i /\ anchors[i][1] <= anchors[i][1]
    BY <1>2
  <2> QED BY <2>1
<1>5. ASSUME NEW n \in Nat, n \in Up PROVE n + 1 \in Up
  <2> SUFFICES ASSUME NEW i \in 1..l, i + (n + 1) <= l PROVE anchors[i][1] <= anchors[i + (n + 1)][1]
    OBVIOUS
  <2>1. /\ i + n \in 1..(l - 1) /\ i + n \in 1..l /\ i + (n + 1) \in 1..l
        /\ i + n <= l /\ (i + n) + 1 = i + (n + 1)
    BY <1>1
  <2>2. anchors[i][1] <= anchors[i + n][1]
    BY <1>5, <2>1
  <2>3. anchors[i + n][1] < anchors[i + (n + 1)][1]
    BY <1>3, <2>1
  <2>4. anchors[i][1] \in Nat /\ anchors[i + n][1] \in Nat /\ anchors[i + (n + 1)][1] \in Nat
    BY <1>2, <2>1
  <2>5. \A p, q, r \in Nat : p <= q /\ q < r => p <= r
    OBVIOUS
  <2> QED BY <2>2, <2>3, <2>4, <2>5
<1>6. ASSUME NEW i \in 1..l, NEW j \in 1..l, i <= j PROVE anchors[i][1] <= anchors[j][1]
  <2>1. \A n \in Nat : n \in Up
    <3> HIDE DEF Up
    <3> QED BY <1>4, <1>5, InductionOverNat
  <2>2. j - i \in Nat /\ i + (j - i) = j
    BY <1>1, <1>6
  <2>3. j - i \in Up
    BY <2>1, <2>2
  <2> QED BY <1>1, <2>2, <2>3
<1>7. ASSUME NEW i \in 1..(l - 1), NEW m \in MatchedPairs(a, b)
      PROVE  ~(anchors[i][1] < m[1] /\ m[1] < anchors[i + 1][1])
  <2>1. PICK j \in 2..(l - 1) : anchors[j] = m
    BY DEF AnchorsFor, l
  <2>2. i \in 1..l /\ i + 1 \in 1..l /\ j \in 1..l /\ (j <= i \/ i + 1 <= j)
    BY <1>1
  <2>3. m[1] <= anchors[i][1] \/ anchors[i + 1][1] <= m[1]
    BY <1>6, <2>1, <2>2
  <2>4. m[1] \in Nat /\ anchors[i][1] \in Nat /\ anchors[i + 1][1] \in Nat
    BY <1>2, <2>1, <2>2
  <2> QED BY <2>3, <2>4
<1> QED BY <1>7 DEF l

\* The edits of the diff say all of both sequences, with every match where
\* nothing is edited.
LEMMA EditsSay ==
    ASSUME NEW S, NEW a \in Seq(S), NEW b \in Seq(S)
    PROVE  /\ Script(S, a, b, SequenceEdits(a, b), Len(a), Len(b))
           /\ Placed(MatchedPairs(a, b), SequenceEdits(a, b), Len(a))
<1> DEFINE pairs == MatchedPairs(a, b)
           anchors == Anchors(a, b)
           l == Len(anchors)
           piece == [i \in 1..(l - 1) |-> Gap(b, anchors[i], anchors[i + 1])]
           E(k) == FlattenSeq([i \in 1..k |-> piece[i]])
<1>0. Len(a) \in Nat /\ Len(b) \in Nat
  OBVIOUS
<1>1. AnchorsFor(a, b, anchors)
  BY AnchorsAre
<1>2. Common(a, b, pairs)
  BY MatchesAre
<1>3. SequenceEdits(a, b) = E(l - 1)
  <2>1. [i \in 1..(l - 1) |-> piece[i]] = piece
    OBVIOUS
  <2> QED BY <2>1, EditsBetweenIs DEF SequenceEdits
<1> HIDE DEF anchors, pairs
<1>4. /\ anchors \in Seq(Nat \X Nat) /\ l \in Nat /\ l >= 2
      /\ anchors[1] = <<0, 0>> /\ anchors[l] = <<Len(a) + 1, Len(b) + 1>>
      /\ \A i \in 1..(l - 1) : anchors[i][1] < anchors[i + 1][1] /\ anchors[i][2] < anchors[i + 1][2]
      /\ \A i \in 2..(l - 1) : anchors[i] \in pairs
  <2>1. anchors \in Seq(Nat \X Nat)
    BY <1>1 DEF AnchorsFor
  <2>2. l \in Nat
    BY <2>1
  <2> QED BY <1>1, <2>1, <2>2 DEF AnchorsFor, pairs
<1>5. \A i \in 1..l : anchors[i] \in Nat \X Nat
  BY <1>4
<1>6. \A i \in 1..(l - 1) : /\ piece[i] = Gap(b, anchors[i], anchors[i + 1])
                            /\ \A m \in pairs : ~(anchors[i][1] < m[1] /\ m[1] < anchors[i + 1][1])
  BY <1>1, NothingBetween DEF pairs
<1>p. /\ \A m \in pairs : /\ m[1] \in Nat /\ m[2] \in Nat /\ m[1] >= 1
                          /\ m[1] \in 1..Len(a) /\ m[2] \in 1..Len(b) /\ a[m[1]] = b[m[2]]
      /\ \A m, n \in pairs : m[1] = n[1] => m[2] = n[2]
  <2>1. \A m \in pairs : m[1] \in 1..Len(a) /\ m[2] \in 1..Len(b) /\ a[m[1]] = b[m[2]]
    BY <1>2 DEF Common
  <2>2. \A m \in pairs : m[1] \in Nat /\ m[2] \in Nat /\ m[1] >= 1
    BY <1>0, <2>1
  <2>3. ASSUME NEW m \in pairs, NEW n \in pairs, m[1] = n[1] PROVE m[2] = n[2]
    <3>1. ~(m[1] < n[1]) /\ ~(n[1] < m[1])
      BY <2>2, <2>3
    <3>2. ~(m[2] < n[2]) /\ ~(n[2] < m[2])
      BY <1>2, <3>1 DEF Common
    <3> QED BY <2>2, <3>2
  <2> QED BY <2>1, <2>2, <2>3
<1> HIDE DEF piece, l
<1> DEFINE T == EditsOf(S)
           Said(es, x, y) == Script(S, a, b, es, x, y) /\ Placed(pairs, es, x)
           Good(k) == LET m == anchors[k + 1]
                      IN  /\ \A i \in 1..k : piece[i] \in Seq(T)
                          /\ Said(E(k), m[1], m[2])
                          /\ E(k) # <<>> => DoneBy(E(k), Len(E(k))) < m[1]
           Held == {k \in Nat : k + 2 <= l => Good(k)}
\* From one anchor to the next, up to where the gap ends.
<1>7. ASSUME NEW k \in Nat, k + 2 <= l, Good(k)
      PROVE  LET n == anchors[k + 2]
             IN  /\ n \in Nat \X Nat
                 /\ \A i \in 1..(k + 1) : piece[i] \in Seq(T)
                 /\ Said(E(k + 1), n[1] - 1, n[2] - 1)
  <2> DEFINE m == anchors[k + 1]
             n == anchors[k + 2]
  <2>0. k + 2 <= l
    BY <1>7
  <2>1. k + 1 \in 1..(l - 1) /\ k + 1 \in 1..l /\ k + 2 \in 1..l /\ (k + 1) + 1 = k + 2
    <3>1. l \in Nat
      BY <1>4
    <3> QED BY <2>0, <3>1
  <2>2. /\ m \in Nat \X Nat /\ n \in Nat \X Nat /\ m[1] < n[1] /\ m[2] < n[2]
        /\ piece[k + 1] = Gap(b, m, n) /\ \A z \in pairs : ~(m[1] < z[1] /\ z[1] < n[1])
    <3>1. m \in Nat \X Nat /\ n \in Nat \X Nat
      BY <1>5, <2>1
    <3>2. m[1] < n[1] /\ m[2] < n[2]
      BY <1>4, <2>1
    <3>3. piece[k + 1] = Gap(b, m, n) /\ \A z \in pairs : ~(m[1] < z[1] /\ z[1] < n[1])
      BY <1>6, <2>1
    <3> QED BY <3>1, <3>2, <3>3
  <2>3. n[1] - 1 <= Len(a) /\ n[2] - 1 <= Len(b)
    <3>1. CASE k + 2 = l
      <4>1. n[1] = Len(a) + 1 /\ n[2] = Len(b) + 1
        BY <1>4, <3>1, SMTT(30)
      <4> HIDE DEF n
      <4> QED BY <1>0, <4>1
    <3>2. CASE k + 2 # l
      <4>1. k + 2 \in 2..(l - 1)
        <5>1. l \in Nat
          BY <1>4
        <5> QED BY <2>0, <3>2, <5>1
      <4>2. n[1] \in 1..Len(a) /\ n[2] \in 1..Len(b)
        BY <1>4, <1>p, <4>1
      <4> HIDE DEF n
      <4> QED BY <1>0, <4>2
    <3> QED BY <3>1, <3>2
  <2> HIDE DEF E
  <2>4. /\ Script(S, a, b, E(k), m[1], m[2]) /\ Placed(pairs, E(k), m[1])
        /\ E(k) # <<>> => DoneBy(E(k), Len(E(k))) < m[1]
        /\ \A i \in 1..k : piece[i] \in Seq(T)
    BY <1>7
  <2> DEFINE fs == E(k) \o Gap(b, m, n)
  <2> HIDE DEF m, n, T
  <2>5. Script(S, a, b, fs, n[1] - 1, n[2] - 1) /\ Placed(pairs, fs, n[1] - 1)
    <3>1. \A z \in pairs : z[1] \in Nat /\ z[2] \in Nat
      BY <1>p
    <3> QED BY <2>2, <2>3, <2>4, <3>1, ScriptGap
  <2>6. piece[k + 1] \in Seq(T)
    <3>1. CASE n = <<m[1] + 1, m[2] + 1>>
      <4>1. Gap(b, m, n) = <<>>
        BY <3>1 DEF Gap
      <4> QED BY <2>2, <4>1
    <3>2. CASE n # <<m[1] + 1, m[2] + 1>>
      <4> DEFINE e == EditUpTo(b, m[1], m[2], n[1] - 1, n[2] - 1)
      <4>1. e \in T
        <5>1. \A i, j \in Nat : i < j => j - 1 \in Nat
          OBVIOUS
        <5>2. m[1] \in Nat /\ m[2] \in Nat /\ n[1] \in Nat /\ n[2] \in Nat
          BY <2>2
        <5>3. n[1] - 1 \in Nat /\ n[2] - 1 \in Nat
          BY <2>2, <5>1, <5>2
        <5>4. SubSeq(b, m[2] + 1, n[2] - 1) \in Seq(S)
          <6>1. n[2] - 1 \in Int
            BY <5>3
          <6> QED BY <2>3, <5>2, <6>1, PartIs
        <5> QED BY <5>2, <5>3, <5>4 DEF EditUpTo, EditsOf, T
      <4>2. Gap(b, m, n) = <<e>>
        BY <3>2 DEF Gap
      <4> HIDE DEF e
      <4>3. <<e>> \in Seq(T)
        BY <4>1
      <4> QED BY <2>2, <4>2, <4>3
    <3> QED BY <3>1, <3>2
  <2>7. \A i \in 1..(k + 1) : piece[i] \in Seq(T)
    <3> TAKE i \in 1..(k + 1)
    <3>1. i = k + 1 \/ i \in 1..k
      OBVIOUS
    <3> QED BY <2>4, <2>6, <3>1
  <2>8. E(k + 1) = E(k) \o piece[k + 1]
    <3>1. /\ FlattenSeq([i \in 1..(k + 1) |-> piece[i]])
              = FlattenSeq([i \in 1..k |-> piece[i]]) \o piece[k + 1]
      BY <2>7, FlattenGrows
    <3> QED BY <3>1 DEF E
  <2>9. E(k + 1) = fs
    BY <2>2, <2>8
  <2>10. Said(E(k + 1), n[1] - 1, n[2] - 1)
    BY <2>5, <2>9
  <2> QED BY <2>2, <2>7, <2>10 DEF n
<1>8. 0 \in Held
  <2>1. E(0) = <<>>
    BY FlattenNone
  <2> HIDE DEF E
  <2>2. anchors[0 + 1][1] = 0 /\ anchors[0 + 1][2] = 0
    BY <1>4
  <2>3. Said(<<>>, 0, 0)
    BY <1>p, ScriptAtFirst
  <2>4. \A i \in 1..0 : piece[i] \in Seq(T)
    OBVIOUS
  <2> HIDE DEF Said
  <2>5. Good(0)
    BY <2>1, <2>2, <2>3, <2>4
  <2> QED BY <2>5
<1>9. ASSUME NEW k \in Nat, k \in Held PROVE k + 1 \in Held
  <2> SUFFICES ASSUME (k + 1) + 2 <= l PROVE Good(k + 1)
    OBVIOUS
  <2> DEFINE n == anchors[k + 2]
  <2>1. k + 2 <= l /\ k + 2 \in 2..(l - 1) /\ (k + 1) + 1 = k + 2
    BY SMTT(30), <1>4
  <2>2. Good(k)
    BY <1>9, <2>1
  <2> HIDE DEF Good
  <2>3. /\ n \in Nat \X Nat
        /\ \A i \in 1..(k + 1) : piece[i] \in Seq(T)
        /\ Said(E(k + 1), n[1] - 1, n[2] - 1)
    BY <1>7, <2>1, <2>2
  <2> HIDE DEF E
  <2>4. n \in pairs
    BY <1>4, <2>1
  <2>5. /\ n[1] \in 1..Len(a) /\ n[2] \in 1..Len(b) /\ a[n[1]] = b[n[2]]
        /\ \A m \in pairs : m[1] = n[1] => m[2] = n[2]
    BY <1>p, <2>4
  <2> DEFINE x == n[1] - 1
             y == n[2] - 1
  <2>6. x \in Nat /\ y \in Nat /\ x + 1 = n[1] /\ y + 1 = n[2]
    <3> HIDE DEF n
    <3> QED BY <1>0, <2>5
  <2>7. Script(S, a, b, E(k + 1), x, y) /\ Placed(pairs, E(k + 1), x)
    BY <2>3
  <2> HIDE DEF x, y, n
  <2>8. Reaches(S, a, b, pairs, E(k + 1), x + 1, y + 1)
    <3>1. Numbered(pairs)
      BY <1>p DEF Numbered
    <3>2. Matching(a, b, pairs, x, y) /\ x \in Nat /\ y \in Nat
      BY <2>5, <2>6 DEF Matching
    <3> DEFINE es == E(k + 1)
    <3>3. Script(S, a, b, es, x, y) /\ Placed(pairs, es, x)
      BY <2>7
    <3> HIDE DEF es
    <3>4. Reaches(S, a, b, pairs, es, x + 1, y + 1)
      BY <3>1, <3>2, <3>3, ScriptMatch
    <3> QED BY <3>4 DEF es
  <2>9. Said(E(k + 1), n[1], n[2]) /\ (E(k + 1) # <<>> => DoneBy(E(k + 1), Len(E(k + 1))) < n[1])
    BY <2>6, <2>8 DEF Reaches
  <2> HIDE DEF Said
  <2> QED BY <2>1, <2>3, <2>9 DEF Good, n
<1>10. ASSUME NEW k \in Nat, k + 2 = l PROVE Good(k)
  <2>1. \A i \in Nat : i \in Held
    <3> HIDE DEF Held
    <3> QED BY <1>8, <1>9, InductionOverNat
  <2>2. k \in Held /\ k + 2 <= l
    <3>1. k \in Held
      BY <2>1
    <3>2. l <= l
      BY <1>4
    <3> HIDE DEF Held
    <3> QED BY <1>10, <3>1, <3>2
  <2> HIDE DEF Good
  <2> QED BY <2>2
<1>11. PICK k \in Nat : k + 2 = l
  <2>1. l - 2 \in Nat /\ (l - 2) + 2 = l
    BY <1>4
  <2> QED BY <2>1
<1> HIDE DEF Good, Held
<1>12. Said(E(k + 1), anchors[k + 2][1] - 1, anchors[k + 2][2] - 1)
  <2>1. k + 2 <= l
    BY <1>11
  <2> QED BY <1>7, <1>10, <1>11, <2>1
<1> HIDE DEF E
<1>13. /\ anchors[k + 2][1] - 1 = Len(a) /\ anchors[k + 2][2] - 1 = Len(b)
       /\ k + 1 = l - 1
  <2>1. anchors[k + 2][1] = Len(a) + 1 /\ anchors[k + 2][2] = Len(b) + 1
    BY <1>4, <1>11, SMTT(30)
  <2>2. k + 1 = l - 1
    BY <1>4, <1>11
  <2> QED BY <1>0, <2>1, <2>2
<1> QED BY <1>3, <1>12, <1>13 DEF pairs

-----------------------------------------------------------------------------
(* The edits between a sequence and itself: there are none. *)

LEMMA NothingJoined ==
    ASSUME NEW l \in Nat, NEW pieces, \A i \in 1..l : pieces[i] = <<>>
    PROVE  FlattenSeq([i \in 1..l |-> pieces[i]]) = <<>>
<1> DEFINE F(n) == FlattenSeq([i \in 1..n |-> pieces[i]])
           Held == {n \in Nat : n <= l => F(n) = <<>>}
<1>1. 0 \in Held
  BY FlattenNone
<1>2. ASSUME NEW n \in Nat, n \in Held PROVE n + 1 \in Held
  <2> SUFFICES ASSUME n + 1 <= l PROVE F(n + 1) = <<>>
    OBVIOUS
  <2>1. \A i \in 1..(n + 1) : pieces[i] = <<>>
    <3>1. \A i \in 1..(n + 1) : i \in 1..l
      OBVIOUS
    <3> QED BY <3>1
  <2>2. n + 1 \in 1..(n + 1) /\ n <= l
    OBVIOUS
  <2>3. \A i \in 1..(n + 1) : pieces[i] \in Seq({})
    <3>1. <<>> \in Seq({})
      OBVIOUS
    <3> QED BY <2>1, <3>1
  <2>4. F(n + 1) = F(n) \o pieces[n + 1]
    BY <2>3, FlattenGrows
  <2>5. F(n) = <<>>
    BY <1>2, <2>2
  <2> HIDE DEF F
  <2> QED BY <2>1, <2>2, <2>4, <2>5
<1>3. \A n \in Nat : n \in Held
  <2> HIDE DEF Held
  <2> QED BY <1>1, <1>2, InductionOverNat
<1>4. l \in Held
  BY <1>3
<1> QED BY <1>4

\* Between equal sequences every item is matched with itself.
LEMMA SameMatched ==
    ASSUME NEW S, NEW a \in Seq(S)
    PROVE  /\ \A i \in 1..Len(a) : <<i, i>> \in MatchedPairs(a, a)
           /\ \A m \in MatchedPairs(a, a) : m[1] \in 1..Len(a) /\ m[2] = m[1]
<1> DEFINE pairs == MatchedPairs(a, a)
<1>0. Len(a) \in Nat
  OBVIOUS
<1>1. CommonPrefix(a, a) = Len(a)
  <2>1. CommonPrefix(a, a) \in Nat /\ CommonPrefix(a, a) <= Len(a) /\ Len(a) <= CommonPrefix(a, a)
    BY <1>0, PrefixIs
  <2> QED BY <1>0, <2>1
<1>2. \A i \in 1..Len(a) : <<i, i>> \in pairs
  BY <1>1 DEF MatchedPairs, PairsAround
<1>3. Common(a, a, pairs)
  BY MatchesAre
<1> HIDE DEF pairs
<1>4. ASSUME NEW m \in pairs PROVE m[1] \in 1..Len(a) /\ m[2] = m[1]
  <2>1. m[1] \in 1..Len(a) /\ m[2] \in 1..Len(a)
    BY <1>3 DEF Common
  <2> DEFINE n == <<m[1], m[1]>>
  <2>2. n \in pairs /\ n[1] = m[1] /\ n[2] = m[1]
    BY <1>2, <2>1
  <2> HIDE DEF n
  <2>3. ~(m[1] < n[1]) /\ ~(n[1] < m[1])
    BY <1>0, <2>1, <2>2
  <2>4. ~(m[2] < n[2]) /\ ~(n[2] < m[2])
    BY <1>3, <2>2, <2>3 DEF Common
  <2> QED BY <1>0, <2>1, <2>2, <2>4
<1> QED BY <1>2, <1>4 DEF pairs

LEMMA NoEdits ==
    ASSUME NEW S, NEW a \in Seq(S)
    PROVE  SequenceEdits(a, a) = <<>>
<1> DEFINE pairs == MatchedPairs(a, a)
           anchors == Anchors(a, a)
           l == Len(anchors)
           piece == [i \in 1..(l - 1) |-> Gap(a, anchors[i], anchors[i + 1])]
<1>0. Len(a) \in Nat
  OBVIOUS
<1>1. AnchorsFor(a, a, anchors)
  BY AnchorsAre
<1>2. SequenceEdits(a, a) = FlattenSeq([i \in 1..(l - 1) |-> piece[i]])
  <2>1. [i \in 1..(l - 1) |-> piece[i]] = piece
    OBVIOUS
  <2> QED BY <2>1, EditsBetweenIs DEF SequenceEdits
<1> HIDE DEF anchors, pairs
<1>3. /\ anchors \in Seq(Nat \X Nat) /\ l \in Nat /\ l >= 2
      /\ anchors[1] = <<0, 0>> /\ anchors[l] = <<Len(a) + 1, Len(a) + 1>>
      /\ \A i \in 1..(l - 1) : anchors[i][1] < anchors[i + 1][1]
      /\ \A i \in 2..(l - 1) : anchors[i] \in pairs
      /\ \A i \in 1..(l - 1) : \A m \in pairs : ~(anchors[i][1] < m[1] /\ m[1] < anchors[i + 1][1])
  <2>1. anchors \in Seq(Nat \X Nat)
    BY <1>1 DEF AnchorsFor
  <2>2. l \in Nat
    BY <2>1
  <2>3. \A i \in 1..(l - 1) : \A m \in pairs : ~(anchors[i][1] < m[1] /\ m[1] < anchors[i + 1][1])
    BY <1>1, NothingBetween DEF pairs
  <2> QED BY <1>1, <2>1, <2>2, <2>3 DEF AnchorsFor, pairs
<1>4. /\ \A i \in 1..Len(a) : <<i, i>> \in pairs
      /\ \A m \in pairs : m[1] \in 1..Len(a) /\ m[2] = m[1]
  BY SameMatched DEF pairs
<1>5. \A i \in 1..(l - 1) : piece[i] = Gap(a, anchors[i], anchors[i + 1])
  OBVIOUS
<1> HIDE DEF l, piece
<1>6. ASSUME NEW i \in 1..l
      PROVE  anchors[i] \in Nat \X Nat /\ anchors[i][1] = anchors[i][2] /\ anchors[i][1] <= Len(a) + 1
  <2>1. anchors[i] \in Nat \X Nat
    <3>1. anchors \in Seq(Nat \X Nat) /\ i \in 1..Len(anchors)
      BY <1>3 DEF l
    <3> QED BY <3>1
  <2>2. i = 1 \/ i = l \/ i \in 2..(l - 1)
    <3>1. l \in Nat
      BY <1>3
    <3> QED BY <3>1
  <2>3. CASE i = 1
    BY <1>0, <1>3, <2>1, <2>3
  <2>4. CASE i = l
    BY <1>0, <1>3, <2>1, <2>4
  <2>5. CASE i \in 2..(l - 1)
    <3>1. anchors[i] \in pairs
      BY <1>3, <2>5
    <3>2. anchors[i][1] \in 1..Len(a) /\ anchors[i][2] = anchors[i][1]
      BY <1>4, <3>1
    <3> QED BY <1>0, <2>1, <3>2
  <2> QED BY <2>2, <2>3, <2>4, <2>5
<1>7. ASSUME NEW i \in 1..(l - 1) PROVE piece[i] = <<>>
  <2> DEFINE m == anchors[i]
             n == anchors[i + 1]
  <2>1. i \in 1..l /\ i + 1 \in 1..l
    BY <1>3
  <2>2. /\ m \in Nat \X Nat /\ m[1] = m[2] /\ n \in Nat \X Nat /\ n[1] = n[2] /\ n[1] <= Len(a) + 1
    BY <1>6, <2>1
  <2>3. m[1] < n[1] /\ \A z \in pairs : ~(m[1] < z[1] /\ z[1] < n[1])
    BY <1>3
  <2>4. piece[i] = Gap(a, m, n)
    BY <1>5
  <2> HIDE DEF m, n
  <2>5. n[1] = m[1] + 1
    <3> SUFFICES ASSUME n[1] # m[1] + 1 PROVE FALSE
      OBVIOUS
    <3> DEFINE k == m[1] + 1
    <3>1. k \in 1..Len(a) /\ m[1] < k /\ k < n[1]
      <4>1. \A x, y, z \in Nat : x < y /\ y # x + 1 /\ y <= z + 1
               => x + 1 \in 1..z /\ x < x + 1 /\ x + 1 < y
        OBVIOUS
      <4>2. m[1] \in Nat /\ n[1] \in Nat
        BY <2>2
      <4> QED BY <1>0, <2>2, <2>3, <4>1, <4>2
    <3> HIDE DEF k
    <3>2. <<k, k>> \in pairs /\ <<k, k>>[1] = k
      BY <1>4, <3>1
    <3> QED BY <2>3, <3>1, <3>2
  <2>6. n = <<m[1] + 1, m[2] + 1>>
    <3>1. n[1] = m[1] + 1 /\ n[2] = m[2] + 1
      BY <2>2, <2>5
    <3>2. n = <<n[1], n[2]>>
      BY <2>2
    <3> QED BY <3>1, <3>2
  <2> QED BY <2>4, <2>6 DEF Gap
<1>8. l - 1 \in Nat
  BY <1>3
<1>9. FlattenSeq([i \in 1..(l - 1) |-> piece[i]]) = <<>>
  BY <1>7, <1>8, NothingJoined
<1> QED BY <1>2, <1>9

-----------------------------------------------------------------------------
(* The edits: what is left of them, and where the next begins. *)

\* The edits behind the first k.
EditsFrom(es, k) == SubSeq(es, k + 1, Len(es))

\* Where the next edit begins on each side, or the end when there is none.
NextBase(es, a, k) == IF k = Len(es) THEN Len(a) ELSE es[k + 1].baseStart
NextThere(es, b, k) == IF k = Len(es) THEN Len(b) ELSE es[k + 1].sideStart

\* With the first k edits gone both sides are even from p and q to the next one.
Ahead(a, b, es, k, p, q) ==
    /\ k \in 0..Len(es) /\ p \in Nat /\ q \in Nat
    /\ Even(a, b, p, q, NextBase(es, a, k), NextThere(es, b, k))

LEMMA RestIs ==
    ASSUME NEW T, NEW es \in Seq(T), NEW k \in 0..Len(es)
    PROVE  /\ EditsFrom(es, k) \in Seq(T) /\ Len(EditsFrom(es, k)) = Len(es) - k
           /\ EditsFrom(es, k) = <<>> <=> k = Len(es)
           /\ k # Len(es) => /\ EditsFrom(es, k)[1] = es[k + 1]
                             /\ Tail(EditsFrom(es, k)) = EditsFrom(es, k + 1)
                             /\ k + 1 \in 1..Len(es) /\ k + 1 \in 0..Len(es)
<1> DEFINE r == EditsFrom(es, k)
<1>0. Len(es) \in Nat /\ k \in Nat /\ k <= Len(es)
  OBVIOUS
<1>1. /\ r \in Seq(T) /\ Len(r) = Len(es) - k
      /\ \A i \in 1..(Len(es) - k) : r[i] = es[k + i]
  <2>1. /\ r \in Seq(T) /\ Len(r) = (IF k < Len(es) THEN Len(es) - k ELSE 0)
        /\ \A i \in 1..(Len(es) - k) : r[i] = es[k + i]
    BY <1>0, PartIs DEF EditsFrom
  <2>2. (IF k < Len(es) THEN Len(es) - k ELSE 0) = Len(es) - k
    BY <1>0
  <2> QED BY <2>1, <2>2
<1> HIDE DEF r
<1>2. r = <<>> <=> k = Len(es)
  <2>1. r = <<>> <=> Len(r) = 0
    BY <1>1
  <2>2. Len(es) - k = 0 <=> k = Len(es)
    BY <1>0
  <2> QED BY <1>1, <2>1, <2>2
<1>3. ASSUME k # Len(es)
      PROVE  r[1] = es[k + 1] /\ Tail(r) = EditsFrom(es, k + 1) /\ k + 1 \in 1..Len(es) /\ k + 1 \in 0..Len(es)
  <2>1. k + 1 \in 1..Len(es) /\ k + 1 \in 0..Len(es) /\ 1 \in 1..(Len(es) - k) /\ k + 1 <= Len(es) /\ k + 1 \in Nat
    BY <1>0, <1>3
  <2>2. r[1] = es[k + 1]
    BY <1>1, <2>1
  <2> DEFINE s == EditsFrom(es, k + 1)
             t == Tail(r)
             n == Len(es) - (k + 1)
  <2>3. /\ s \in Seq(T) /\ Len(s) = n
        /\ \A i \in 1..n : s[i] = es[(k + 1) + i]
    <3>1. /\ s \in Seq(T) /\ Len(s) = (IF k + 1 < Len(es) THEN Len(es) - (k + 1) ELSE 0)
          /\ \A i \in 1..(Len(es) - (k + 1)) : s[i] = es[(k + 1) + i]
      BY <1>0, <2>1, PartIs DEF EditsFrom
    <3>2. (IF k + 1 < Len(es) THEN Len(es) - (k + 1) ELSE 0) = n
      BY <1>0, <2>1
    <3> QED BY <3>1, <3>2
  <2>4. t \in Seq(T) /\ Len(t) = n /\ \A i \in 1..n : t[i] = r[i + 1]
    <3>1. r # <<>>
      BY <1>2, <1>3
    <3>2. (Len(es) - k) - 1 = n
      BY <1>0
    <3>3. t \in Seq(T) /\ Len(t) = Len(r) - 1 /\ \A i \in 1..(Len(r) - 1) : t[i] = r[i + 1]
      BY <1>1, <3>1, HeadTailProperties
    <3> QED BY <1>1, <3>2, <3>3
  <2>5. \A i \in 1..n : i + 1 \in 1..(Len(es) - k) /\ k + (i + 1) = (k + 1) + i
    BY <1>0
  <2> HIDE DEF n, s, t
  <2>6. ASSUME NEW i \in 1..n PROVE t[i] = s[i]
    <3>1. t[i] = r[i + 1]
      BY <2>4
    <3>2. i + 1 \in 1..(Len(es) - k) /\ k + (i + 1) = (k + 1) + i
      BY <2>5
    <3>3. r[i + 1] = es[k + (i + 1)]
      BY <1>1, <3>2
    <3>4. s[i] = es[(k + 1) + i]
      BY <2>3
    <3> QED BY <3>1, <3>2, <3>3, <3>4
  <2>7. t = s
    BY <2>3, <2>4, <2>6
  <2> QED BY <2>1, <2>2, <2>7 DEF s, t
<1> QED BY <1>1, <1>2, <1>3 DEF r

LEMMA RestLength ==
    \A T, es, k : es \in Seq(T) /\ k \in 0..Len(es) => Len(EditsFrom(es, k)) = Len(es) - k
<1> SUFFICES ASSUME NEW T, NEW es, NEW k, es \in Seq(T), k \in 0..Len(es)
             PROVE  Len(EditsFrom(es, k)) = Len(es) - k
  OBVIOUS
<1> QED BY RestIs

LEMMA NextIs ==
    ASSUME NEW S, NEW a \in Seq(S), NEW b \in Seq(S), NEW es, Script(S, a, b, es, Len(a), Len(b)),
           NEW k \in 0..Len(es)
    PROVE  /\ NextBase(es, a, k) \in Nat /\ NextBase(es, a, k) <= Len(a)
           /\ NextThere(es, b, k) \in Nat /\ NextThere(es, b, k) <= Len(b)
           /\ k # Len(es) => /\ k + 1 \in 1..Len(es)
                             /\ NextBase(es, a, k) = es[k + 1].baseStart
                             /\ NextThere(es, b, k) = es[k + 1].sideStart
                             /\ es[k + 1].baseStart <= es[k + 1].baseEnd
                             /\ es[k + 1].baseEnd <= Len(a)
                             /\ es[k + 1].sideStart <= es[k + 1].sideEnd
                             /\ es[k + 1].sideEnd <= Len(b)
                             /\ es[k + 1].baseEnd \in Nat /\ es[k + 1].sideEnd \in Nat
                             /\ es[k + 1].items = SubSeq(b, es[k + 1].sideStart + 1, es[k + 1].sideEnd)
                             /\ es[k + 1].items \in Seq(S)
<1>0. Len(a) \in Nat /\ Len(b) \in Nat
  OBVIOUS
<1>1. CASE k = Len(es)
  BY <1>0, <1>1 DEF NextBase, NextThere
<1>2. CASE k # Len(es)
  <2>1. Len(es) \in Nat
    BY ScriptType
  <2>2. k + 1 \in 1..Len(es)
    BY <1>2, <2>1
  <2> DEFINE e == es[k + 1]
  <2>3. /\ e.baseStart \in Nat /\ e.baseEnd \in Nat /\ e.sideStart \in Nat /\ e.sideEnd \in Nat
        /\ e.items \in Seq(S)
    BY <2>2, ScriptType
  <2>4. ProperEdit(a, b, e)
    BY <2>2 DEF Script
  <2> HIDE DEF e
  <2>5. /\ e.baseStart <= e.baseEnd /\ e.baseEnd <= Len(a)
        /\ e.sideStart <= e.sideEnd /\ e.sideEnd <= Len(b)
        /\ e.items = SubSeq(b, e.sideStart + 1, e.sideEnd)
    BY <2>4 DEF ProperEdit
  <2>6. e.baseStart <= Len(a) /\ e.sideStart <= Len(b)
    BY <1>0, <2>3, <2>5
  <2>7. NextBase(es, a, k) = e.baseStart /\ NextThere(es, b, k) = e.sideStart
    BY <1>2 DEF NextBase, NextThere, e
  <2> QED BY <2>2, <2>3, <2>5, <2>6, <2>7 DEF e
<1> QED BY <1>1, <1>2

LEMMA AheadAtFirst ==
    ASSUME NEW S, NEW a, NEW b, NEW es, Script(S, a, b, es, Len(a), Len(b))
    PROVE  Ahead(a, b, es, 0, 0, 0)
<1>1. Len(es) \in Nat /\ 0 \in 0..Len(es)
  BY ScriptType
<1>2. DoneBy(es, 0) = 0 /\ DoneThere(es, 0) = 0
  BY DEF DoneBy, DoneThere
<1>3. CASE Len(es) = 0
  BY <1>1, <1>2, <1>3 DEF Ahead, Script, NextBase, NextThere
<1>4. CASE Len(es) # 0
  <2>1. 1 \in 1..Len(es) /\ 1 - 1 = 0 /\ 0 + 1 = 1
    BY <1>1, <1>4
  <2>2. Even(a, b, 0, 0, es[1].baseStart, es[1].sideStart)
    BY <1>2, <2>1 DEF Script
  <2> QED BY <1>1, <1>4, <2>1, <2>2 DEF Ahead, NextBase, NextThere
<1> QED BY <1>3, <1>4

\* What is ahead of an edit that has just gone.
LEMMA AheadNext ==
    ASSUME NEW S, NEW a, NEW b, NEW es, Script(S, a, b, es, Len(a), Len(b)), NEW k \in 1..Len(es)
    PROVE  Ahead(a, b, es, k, es[k].baseEnd, es[k].sideEnd)
<1>1. /\ Len(es) \in Nat /\ k \in 0..Len(es) /\ k # 0
      /\ es[k].baseEnd \in Nat /\ es[k].sideEnd \in Nat
  BY ScriptType
<1>2. DoneBy(es, k) = es[k].baseEnd /\ DoneThere(es, k) = es[k].sideEnd
  BY <1>1 DEF DoneBy, DoneThere
<1>3. CASE k = Len(es)
  <2>1. Even(a, b, DoneBy(es, k), DoneThere(es, k), Len(a), Len(b))
    BY <1>3 DEF Script
  <2> QED BY <1>1, <1>2, <1>3, <2>1 DEF Ahead, NextBase, NextThere
<1>4. CASE k # Len(es)
  <2>1. k + 1 \in 1..Len(es) /\ (k + 1) - 1 = k
    BY <1>1, <1>4
  <2>2. Even(a, b, DoneBy(es, k), DoneThere(es, k), es[k + 1].baseStart, es[k + 1].sideStart)
    BY <2>1 DEF Script
  <2> QED BY <1>1, <1>2, <1>4, <2>2 DEF Ahead, NextBase, NextThere
<1> QED BY <1>3, <1>4

-----------------------------------------------------------------------------
(* The edits: going on where nothing is edited. *)

\* The edits es make b of a.
Makes(S, a, b, es) == a \in Seq(S) /\ b \in Seq(S) /\ Script(S, a, b, es, Len(a), Len(b))

\* From p and q to x and y nothing is edited, with the first k edits gone.
Reach(a, es, k, p, q, x, y) == x \in Nat /\ p <= x /\ x <= NextBase(es, a, k) /\ y = q + (x - p)

Reached(a, b, es, k, p, q, x, y) ==
    /\ Ahead(a, b, es, k, x, y) /\ q <= y /\ y <= Len(b)
    /\ SubSeq(a, p + 1, x) = SubSeq(b, q + 1, y)

\* Going on where nothing is edited.
LEMMA ReachedSo ==
    \A S, a, b, es, k, p, q, x, y :
       Makes(S, a, b, es) /\ Ahead(a, b, es, k, p, q) /\ Reach(a, es, k, p, q, x, y)
          => Reached(a, b, es, k, p, q, x, y)
<1> SUFFICES ASSUME NEW S, NEW a, NEW b, NEW es, NEW k, NEW p, NEW q, NEW x, NEW y,
                    Makes(S, a, b, es), Ahead(a, b, es, k, p, q), Reach(a, es, k, p, q, x, y)
             PROVE  Reached(a, b, es, k, p, q, x, y)
  OBVIOUS
<1>13. a \in Seq(S) /\ b \in Seq(S) /\ Script(S, a, b, es, Len(a), Len(b))
  BY DEF Makes
<1>14. x \in Nat /\ p <= x /\ x <= NextBase(es, a, k) /\ y = q + (x - p)
  BY DEF Reach
<1> USE <1>13, <1>14
<1> DEFINE u == NextBase(es, a, k)
           w == NextThere(es, b, k)
<1>0. k \in 0..Len(es) /\ p \in Nat /\ q \in Nat /\ Len(a) \in Nat /\ Len(b) \in Nat
  BY DEF Ahead
<1>1. u \in Nat /\ u <= Len(a) /\ w \in Nat /\ w <= Len(b)
  BY <1>0, NextIs
<1>2. p <= u /\ u - p = w - q /\ \A i \in 1..(u - p) : a[p + i] = b[q + i]
  BY DEF Ahead, Even
<1>3. p <= x /\ x <= u
  OBVIOUS
<1> HIDE DEF u, w
<1>4. y \in Nat /\ q <= y /\ y <= w /\ u - x = w - y /\ y - q = x - p
  <2>1. \A p1, q1, u1, w1, x1, y1 \in Int :
           p1 <= x1 /\ x1 <= u1 /\ u1 - p1 = w1 - q1 /\ y1 = q1 + (x1 - p1) /\ q1 >= 0
             => y1 >= 0 /\ q1 <= y1 /\ y1 <= w1 /\ u1 - x1 = w1 - y1 /\ y1 - q1 = x1 - p1
    OBVIOUS
  <2>2. y = q + (x - p)
    OBVIOUS
  <2>3. p \in Int /\ q \in Int /\ u \in Int /\ w \in Int /\ x \in Int /\ y \in Int /\ q >= 0
    BY <1>0, <1>1, <2>2
  <2>4. u - p = w - q
    BY <1>2
  <2>5. y >= 0 /\ q <= y /\ y <= w /\ u - x = w - y /\ y - q = x - p
    BY <1>3, <2>1, <2>2, <2>3, <2>4
  <2> QED BY <2>3, <2>5
<1>5. y <= Len(b) /\ x <= Len(a)
  BY <1>0, <1>1, <1>3, <1>4
<1>6. \A i \in 1..(u - x) : a[x + i] = b[y + i]
  <2> TAKE i \in 1..(u - x)
  <2>1. (x - p) + i \in 1..(u - p) /\ p + ((x - p) + i) = x + i /\ q + ((x - p) + i) = y + i
    BY <1>0, <1>1, <1>3, <1>4
  <2>2. a[p + ((x - p) + i)] = b[q + ((x - p) + i)]
    BY <1>2, <2>1
  <2> QED BY <2>1, <2>2
<1>7. Ahead(a, b, es, k, x, y)
  BY <1>0, <1>3, <1>4, <1>6 DEF Ahead, Even, u, w
<1> DEFINE s == SubSeq(a, p + 1, x)
           t == SubSeq(b, q + 1, y)
           n == x - p
<1>8. s \in Seq(S) /\ Len(s) = n /\ \A i \in 1..n : s[i] = a[p + i]
  <2>1. /\ s \in Seq(S) /\ Len(s) = (IF p < x THEN x - p ELSE 0)
        /\ \A i \in 1..(x - p) : s[i] = a[p + i]
    <3>1. x \in Int
      OBVIOUS
    <3> QED BY <1>0, <1>5, <3>1, PartIs
  <2>2. (IF p < x THEN x - p ELSE 0) = n
    BY <1>0, <1>3
  <2> HIDE DEF s
  <2> QED BY <2>1, <2>2
<1>9. t \in Seq(S) /\ Len(t) = n /\ \A i \in 1..n : t[i] = b[q + i]
  <2>1. /\ t \in Seq(S) /\ Len(t) = (IF q < y THEN y - q ELSE 0)
        /\ \A i \in 1..(y - q) : t[i] = b[q + i]
    <3>1. y \in Int
      BY <1>4
    <3> QED BY <1>0, <1>5, <3>1, PartIs
  <2>2. (IF q < y THEN y - q ELSE 0) = n
    BY <1>0, <1>4
  <2> HIDE DEF t
  <2> QED BY <1>4, <2>1, <2>2
<1>10. \A i \in 1..n : i \in 1..(u - p)
  BY <1>0, <1>1, <1>3
<1>11. n \in Nat
  BY <1>0, <1>3
<1> HIDE DEF s, t, n
<1>12. s = t
  BY <1>2, <1>8, <1>9, <1>10, <1>11
<1> QED BY <1>4, <1>5, <1>7, <1>12 DEF s, t, Reached

\* Later edits end later.
LEMMA EditsInOrder ==
    ASSUME NEW S, NEW a, NEW b, NEW es, Script(S, a, b, es, Len(a), Len(b)),
           NEW k \in 1..Len(es), NEW l \in 1..Len(es), k <= l
    PROVE  es[k].baseEnd <= es[l].baseEnd
<1>0. Len(es) \in Nat /\ \A i \in 1..Len(es) : es[i].baseStart \in Nat /\ es[i].baseEnd \in Nat
  BY ScriptType
<1> DEFINE Up == {n \in Nat : k + n <= Len(es) => es[k].baseEnd <= es[k + n].baseEnd}
<1>1. 0 \in Up
  <2>1. k + 0 = k /\ es[k].baseEnd <= es[k].baseEnd
    BY <1>0
  <2> QED BY <2>1
<1>2. ASSUME NEW n \in Nat, n \in Up PROVE n + 1 \in Up
  <2> SUFFICES ASSUME k + (n + 1) <= Len(es) PROVE es[k].baseEnd <= es[k + (n + 1)].baseEnd
    OBVIOUS
  <2> DEFINE i == k + n
             j == k + (n + 1)
  <2>1. i \in 1..Len(es) /\ j \in 2..Len(es) /\ j \in 1..Len(es) /\ i <= Len(es) /\ j - 1 = i /\ j - 1 # 0
    BY <1>0
  <2>2. es[k].baseEnd <= es[i].baseEnd
    BY <1>2, <2>1
  <2> HIDE DEF i, j
  <2>3. DoneBy(es, j - 1) < es[j].baseStart
    BY <2>1 DEF Script
  <2>4. DoneBy(es, j - 1) = es[i].baseEnd
    BY <2>1 DEF DoneBy
  <2>5. es[j].baseStart <= es[j].baseEnd
    BY <2>1 DEF Script, ProperEdit
  <2>6. /\ es[k].baseEnd \in Nat /\ es[i].baseEnd \in Nat
        /\ es[j].baseStart \in Nat /\ es[j].baseEnd \in Nat
    BY <1>0, <2>1
  <2>7. \A w, x, y, z \in Nat : w <= x /\ x < y /\ y <= z => w <= z
    OBVIOUS
  <2>8. es[k].baseEnd <= es[j].baseEnd
    BY <2>2, <2>3, <2>4, <2>5, <2>6, <2>7
  <2> QED BY <2>8 DEF j
<1>3. \A n \in Nat : n \in Up
  <2> HIDE DEF Up
  <2> QED BY <1>1, <1>2, InductionOverNat
<1>4. l - k \in Nat /\ k + (l - k) = l /\ l <= Len(es)
  BY <1>0
<1>5. l - k \in Up
  BY <1>3, <1>4
<1> QED BY <1>4, <1>5

-----------------------------------------------------------------------------
(* The drift of lines: what the function over the hunks is. *)

HunkType == [oldStart : Nat, oldCount : Nat, newStart : Nat, newCount : Nat]

\* What one hunk makes of a line, with what is said of the line behind the hunk.
Decided(line, hunk, delta, skip) ==
    IF hunk.oldCount = 0
    THEN IF line <= hunk.oldStart THEN AtLeastOne(line + delta) ELSE skip
    ELSE IF line < hunk.oldStart THEN AtLeastOne(line + delta)
    ELSE IF line - hunk.oldStart >= hunk.oldCount THEN skip
    ELSE IF hunk.newCount = 0 THEN AtLeastOne(hunk.newStart)
    ELSE AtLeastOne(hunk.newStart + Lesser(line - hunk.oldStart, hunk.newCount - 1))

OffsetAfter(hunk, delta) == delta + hunk.newCount - hunk.oldCount

Drifting(line, hunks, f) ==
    f = [i \in 1..(Len(hunks) + 1) |->
            [delta \in Int |-> IF i > Len(hunks) THEN AtLeastOne(line + delta)
                               ELSE Decided(line, hunks[i], delta, f[i + 1][OffsetAfter(hunks[i], delta)])]]

LEMMA DecidedType ==
    ASSUME NEW line \in Int, NEW hunk \in HunkType, NEW delta \in Int, NEW skip \in Int
    PROVE  Decided(line, hunk, delta, skip) \in Int /\ OffsetAfter(hunk, delta) \in Int
<1>1. /\ hunk.oldStart \in Nat /\ hunk.oldCount \in Nat
      /\ hunk.newStart \in Nat /\ hunk.newCount \in Nat
  BY DEF HunkType
<1>2. \A i \in Int : AtLeastOne(i) \in Int
  BY DEF AtLeastOne
<1>3. Lesser(line - hunk.oldStart, hunk.newCount - 1) \in Int
  BY <1>1 DEF Lesser
<1>4. /\ AtLeastOne(line + delta) \in Int /\ AtLeastOne(hunk.newStart) \in Int
      /\ AtLeastOne(hunk.newStart + Lesser(line - hunk.oldStart, hunk.newCount - 1)) \in Int
  <2>1. /\ line + delta \in Int /\ hunk.newStart \in Int
        /\ hunk.newStart + Lesser(line - hunk.oldStart, hunk.newCount - 1) \in Int
    BY <1>1, <1>3
  <2> QED BY <1>2, <2>1
<1>5. OffsetAfter(hunk, delta) \in Int
  BY <1>1 DEF OffsetAfter
<1> QED BY <1>4, <1>5 DEF Decided

\* The function that the code's loop over the hunks is written as is there.
LEMMA DriftingExists ==
    ASSUME NEW line \in Int, NEW hunks \in Seq(HunkType)
    PROVE  \E f : Drifting(line, hunks, f)
<1> DEFINE l == Len(hunks)
           X == [Int -> Int]
           x0 == [delta \in Int |-> AtLeastOne(line + delta)]
           Back(n, g) == [delta \in Int |-> Decided(line, hunks[(l + 1) - n], delta,
                                                   g[OffsetAfter(hunks[(l + 1) - n], delta)])]
           H == [n \in Nat |-> [g \in X |-> IF n \in 1..l THEN Back(n, g) ELSE g]]
<1>1. l \in Nat /\ \A i \in 1..l : hunks[i] \in HunkType
  OBVIOUS
<1> HIDE DEF l
<1>2. x0 \in X
  BY DEF AtLeastOne
<1>3. ASSUME NEW n \in 1..l, NEW g \in X PROVE Back(n, g) \in X
  <2>1. (l + 1) - n \in 1..l
    BY <1>1
  <2>2. hunks[(l + 1) - n] \in HunkType
    BY <1>1, <2>1
  <2> DEFINE hunk == hunks[(l + 1) - n]
  <2> HIDE DEF hunk
  <2>3. ASSUME NEW delta \in Int PROVE Decided(line, hunk, delta, g[OffsetAfter(hunk, delta)]) \in Int
    <3>1. OffsetAfter(hunk, delta) \in Int
      BY <2>2, DecidedType DEF hunk
    <3>2. g[OffsetAfter(hunk, delta)] \in Int
      BY <3>1
    <3> QED BY <2>2, <3>2, DecidedType DEF hunk
  <2>4. [delta \in Int |-> Decided(line, hunk, delta, g[OffsetAfter(hunk, delta)])] \in [Int -> Int]
    BY <2>3
  <2> QED BY <2>4 DEF hunk
<1> HIDE DEF Back, X
<1>4. H \in [Nat -> [X -> X]]
  BY <1>3
<1> HIDE DEF x0
<1>5. PICK g \in [Nat -> X] : Recursive(g, x0, H)
  BY <1>2, <1>4, RecursionExists
<1>6. g[0] = x0 /\ \A n \in 1..l : g[n] = Back(n, g[n - 1]) /\ g[n - 1] \in X
  <2>1. g = [n \in Nat |-> IF n = 0 THEN x0 ELSE H[n][g[n - 1]]]
    BY <1>5 DEF Recursive
  <2> HIDE DEF H
  <2>2. g[0] = x0
    BY <2>1
  <2>3. ASSUME NEW n \in 1..l PROVE g[n] = Back(n, g[n - 1]) /\ g[n - 1] \in X
    <3>1. n \in Nat /\ n # 0 /\ n - 1 \in Nat
      BY <1>1
    <3>2. g[n] = H[n][g[n - 1]] /\ g[n - 1] \in X
      BY <1>5, <2>1, <3>1
    <3> QED BY <3>1, <3>2 DEF H
  <2> QED BY <2>2, <2>3
<1> DEFINE f == [i \in 1..(l + 1) |-> g[(l + 1) - i]]
           At2(i, delta) == IF i > l THEN AtLeastOne(line + delta)
                            ELSE Decided(line, hunks[i], delta, f[i + 1][OffsetAfter(hunks[i], delta)])
<1>7. ASSUME NEW i \in 1..(l + 1) PROVE f[i] = [delta \in Int |-> At2(i, delta)]
  <2>1. f[i] = g[(l + 1) - i]
    OBVIOUS
  <2>2. CASE i > l
    <3>1. (l + 1) - i = 0
      BY <1>1, <2>2
    <3> QED BY <1>6, <2>1, <2>2, <3>1 DEF x0
  <2>3. CASE ~(i > l)
    <3>1. /\ (l + 1) - i \in 1..l /\ i \in 1..l /\ i + 1 \in 1..(l + 1)
          /\ (l + 1) - ((l + 1) - i) = i /\ ((l + 1) - i) - 1 = (l + 1) - (i + 1)
      BY <1>1, <2>3
    <3>2. g[(l + 1) - i] = Back((l + 1) - i, g[(l + 1) - (i + 1)])
      BY <1>6, <3>1
    <3>3. f[i + 1] = g[(l + 1) - (i + 1)]
      BY <3>1
    <3> HIDE DEF f
    <3>4. f[i] = Back((l + 1) - i, f[i + 1])
      BY <2>1, <3>2, <3>3
    <3> QED BY <2>3, <3>1, <3>4 DEF Back
  <2> QED BY <2>2, <2>3
<1> DEFINE F == [i \in 1..(l + 1) |-> [delta \in Int |-> At2(i, delta)]]
<1>8. f = F
  <2>1. \A i \in 1..(l + 1) : f[i] = F[i]
    <3> HIDE DEF At2
    <3> HIDE DEF f
    <3> QED BY <1>7
  <2> HIDE DEF At2
  <2> QED BY <2>1
<1>9. Drifting(line, hunks, f)
  <2> HIDE DEF f
  <2> QED BY <1>8 DEF Drifting, l
<1> HIDE DEF f
<1> QED BY <1>9

-----------------------------------------------------------------------------
(* The drift of lines: what a hunk makes of a line. *)

LEMMA DriftAfterIs ==
    ASSUME NEW line \in Int, NEW hunks \in Seq(HunkType)
    PROVE  \E f : Drifting(line, hunks, f) /\ DriftAfter(line, hunks) = f[1][0]
<1>1. DriftAfter(line, hunks) = (CHOOSE f : Drifting(line, hunks, f))[1][0]
  BY DEF DriftAfter, Drifting, Decided, OffsetAfter
<1>2. \E f : Drifting(line, hunks, f)
  BY DriftingExists
<1> QED BY <1>1, <1>2

\* What an edit goes from and to.
Spans(e) == /\ e.baseStart \in Nat /\ e.baseEnd \in Nat /\ e.sideStart \in Nat /\ e.sideEnd \in Nat
            /\ e.baseStart <= e.baseEnd /\ e.sideStart <= e.sideEnd

\* Where a line goes that an edit removes.
Within(e, n) == IF e.sideStart = e.sideEnd THEN AtLeastOne(e.sideStart)
                ELSE e.sideStart + Lesser(n - e.baseStart, e.sideEnd - e.sideStart)

LEMMA HunkIs ==
    ASSUME NEW e, Spans(e)
    PROVE  /\ HunkOf(e) \in HunkType
           /\ OffsetAfter(HunkOf(e), e.sideStart - e.baseStart) = e.sideEnd - e.baseEnd
<1> DEFINE h == HunkOf(e)
<1>1. /\ h = [oldStart |-> h.oldStart, oldCount |-> h.oldCount,
             newStart |-> h.newStart, newCount |-> h.newCount]
      /\ h.oldStart = (IF e.baseStart = e.baseEnd THEN e.baseStart ELSE e.baseStart + 1)
      /\ h.newStart = (IF e.sideStart = e.sideEnd THEN e.sideStart ELSE e.sideStart + 1)
      /\ h.oldCount = e.baseEnd - e.baseStart /\ h.newCount = e.sideEnd - e.sideStart
  BY DEF HunkOf
<1> HIDE DEF h
<1>2. h.oldStart \in Nat /\ h.oldCount \in Nat /\ h.newStart \in Nat /\ h.newCount \in Nat
  BY <1>1 DEF Spans
<1>3. h \in HunkType
  BY <1>1, <1>2 DEF HunkType
<1>4. OffsetAfter(h, e.sideStart - e.baseStart) = e.sideEnd - e.baseEnd
  BY <1>1 DEF Spans, OffsetAfter
<1> QED BY <1>3, <1>4 DEF h

\* What a hunk makes of a line before it, in it and behind it.
LEMMA DecidedIs ==
    ASSUME NEW e, Spans(e), NEW n \in Nat, n >= 1, NEW skip
    PROVE  LET delta == e.sideStart - e.baseStart
               to    == Decided(n, HunkOf(e), delta, skip)
           IN  /\ n > e.baseEnd => to = skip
               /\ n <= e.baseStart /\ n + delta >= 1 => to = n + delta
               /\ e.baseStart < n /\ n <= e.baseEnd => to = Within(e, n)
<1> DEFINE h == HunkOf(e)
           delta == e.sideStart - e.baseStart
           to == Decided(n, h, delta, skip)
<1>1. /\ h.oldStart = (IF e.baseStart = e.baseEnd THEN e.baseStart ELSE e.baseStart + 1)
      /\ h.newStart = (IF e.sideStart = e.sideEnd THEN e.sideStart ELSE e.sideStart + 1)
      /\ h.oldCount = e.baseEnd - e.baseStart /\ h.newCount = e.sideEnd - e.sideStart
  BY DEF HunkOf
<1>2. /\ e.baseStart \in Nat /\ e.baseEnd \in Nat /\ e.sideStart \in Nat /\ e.sideEnd \in Nat
      /\ e.baseStart <= e.baseEnd /\ e.sideStart <= e.sideEnd
  BY DEF Spans
<1> HIDE DEF h
<1>3. ASSUME n > e.baseEnd PROVE to = skip
  <2>1. CASE e.baseStart = e.baseEnd
    BY <1>1, <1>2, <1>3, <2>1 DEF Decided
  <2>2. CASE e.baseStart # e.baseEnd
    <3>1. /\ h.oldCount # 0 /\ ~(n < h.oldStart) /\ n - h.oldStart >= h.oldCount
      BY <1>1, <1>2, <1>3, <2>2
    <3> QED BY <3>1 DEF Decided
  <2> QED BY <2>1, <2>2
<1>4. ASSUME n <= e.baseStart, n + delta >= 1 PROVE to = n + delta
  <2>1. AtLeastOne(n + delta) = n + delta
    BY <1>2, <1>4 DEF AtLeastOne
  <2>2. n <= h.oldStart /\ (h.oldCount # 0 => n < h.oldStart)
    BY <1>1, <1>2, <1>4
  <2> QED BY <2>1, <2>2 DEF Decided
<1>5. ASSUME e.baseStart < n, n <= e.baseEnd PROVE to = Within(e, n)
  <2>1. /\ h.oldCount # 0 /\ h.oldStart = e.baseStart + 1 /\ ~(n < h.oldStart)
        /\ ~(n - h.oldStart >= h.oldCount)
    BY <1>1, <1>2, <1>5
  <2>2. to = IF h.newCount = 0 THEN AtLeastOne(h.newStart)
             ELSE AtLeastOne(h.newStart + Lesser(n - h.oldStart, h.newCount - 1))
    BY <2>1 DEF Decided
  <2>3. CASE e.sideStart = e.sideEnd
    <3>1. h.newCount = 0 /\ h.newStart = e.sideStart
      BY <1>1, <1>2, <2>3
    <3> QED BY <2>2, <2>3, <3>1 DEF Within
  <2>4. CASE e.sideStart # e.sideEnd
    <3>1. h.newCount # 0 /\ h.newStart = e.sideStart + 1 /\ h.newCount = e.sideEnd - e.sideStart
      BY <1>1, <1>2, <2>4
    <3>2. n - h.oldStart = (n - e.baseStart) - 1
      BY <1>2, <2>1
    <3>3. /\ h.newStart + Lesser(n - h.oldStart, h.newCount - 1)
                 = e.sideStart + Lesser(n - e.baseStart, e.sideEnd - e.sideStart)
          /\ e.sideStart + Lesser(n - e.baseStart, e.sideEnd - e.sideStart) >= 1
          /\ e.sideStart + Lesser(n - e.baseStart, e.sideEnd - e.sideStart) \in Int
      BY <1>2, <1>5, <2>4, <3>1, <3>2 DEF Lesser
    <3> QED BY <2>2, <2>4, <3>1, <3>3 DEF Within, AtLeastOne
  <2> QED BY <2>3, <2>4
<1> QED BY <1>3, <1>4, <1>5 DEF h

-----------------------------------------------------------------------------
(* The drift of lines: the place of a line among the edits. *)

\* Behind the first k edits, and not behind the next.
AtPlace(es, k, n) ==
    /\ k \in 0..Len(es) /\ DoneBy(es, k) < n
    /\ k < Len(es) => n <= DoneBy(es, k + 1)

LineTo(es, k, n) ==
    IF k = Len(es) \/ n <= es[k + 1].baseStart THEN n + (DoneThere(es, k) - DoneBy(es, k))
    ELSE Within(es[k + 1], n)

\* The edits of a script as the drift of lines knows them.
Steps(es, x, y) ==
    /\ Len(es) \in Nat
    /\ \A k \in 0..Len(es) : DoneBy(es, k) \in Nat /\ DoneThere(es, k) \in Nat
    /\ \A k \in 1..Len(es) :
          /\ Spans(es[k])
          /\ DoneBy(es, k) = es[k].baseEnd /\ DoneThere(es, k) = es[k].sideEnd
          /\ DoneBy(es, k - 1) <= es[k].baseStart
          /\ es[k].sideStart - es[k].baseStart = DoneThere(es, k - 1) - DoneBy(es, k - 1)
          /\ k > 1 => DoneBy(es, k - 1) < es[k].baseStart
    /\ DoneBy(es, Len(es)) <= x
    /\ y - x = DoneThere(es, Len(es)) - DoneBy(es, Len(es))

LEMMA StepsAre ==
    ASSUME NEW S, NEW a, NEW b, NEW es, NEW x \in Nat, NEW y \in Nat, Script(S, a, b, es, x, y)
    PROVE  Steps(es, x, y)
<1>1. /\ Len(es) \in Nat
      /\ \A k \in 1..Len(es) : /\ es[k].baseStart \in Nat /\ es[k].baseEnd \in Nat
                               /\ es[k].sideStart \in Nat /\ es[k].sideEnd \in Nat
      /\ \A k \in 0..Len(es) : DoneBy(es, k) \in Nat /\ DoneThere(es, k) \in Nat
  BY ScriptType
<1> DEFINE l == Len(es)
<1> HIDE DEF l
<1>2. ASSUME NEW k \in 1..l
      PROVE  /\ Spans(es[k])
             /\ DoneBy(es, k) = es[k].baseEnd /\ DoneThere(es, k) = es[k].sideEnd
             /\ DoneBy(es, k - 1) <= es[k].baseStart
             /\ es[k].sideStart - es[k].baseStart = DoneThere(es, k - 1) - DoneBy(es, k - 1)
             /\ k > 1 => DoneBy(es, k - 1) < es[k].baseStart
  <2>1. l \in Nat /\ k # 0 /\ k - 1 \in 0..l
    BY <1>1 DEF l
  <2>2. ProperEdit(a, b, es[k])
    BY DEF Script, l
  <2>3. Spans(es[k])
    BY <1>1, <2>2 DEF Spans, ProperEdit, l
  <2>4. DoneBy(es, k) = es[k].baseEnd /\ DoneThere(es, k) = es[k].sideEnd
    BY <2>1 DEF DoneBy, DoneThere
  <2>5. Even(a, b, DoneBy(es, k - 1), DoneThere(es, k - 1), es[k].baseStart, es[k].sideStart)
    BY DEF Script, l
  <2>6. /\ DoneBy(es, k - 1) \in Nat /\ DoneThere(es, k - 1) \in Nat
        /\ es[k].baseStart \in Nat /\ es[k].sideStart \in Nat
    BY <1>1, <2>1 DEF l
  <2>7. /\ DoneBy(es, k - 1) <= es[k].baseStart
        /\ es[k].baseStart - DoneBy(es, k - 1) = es[k].sideStart - DoneThere(es, k - 1)
    BY <2>5 DEF Even
  <2>8. \A d, t, p, q \in Nat : p - d = q - t => q - p = t - d
    OBVIOUS
  <2>9. es[k].sideStart - es[k].baseStart = DoneThere(es, k - 1) - DoneBy(es, k - 1)
    BY <2>6, <2>7, <2>8
  <2>10. ASSUME k > 1 PROVE DoneBy(es, k - 1) < es[k].baseStart
    <3>1. k \in 2..l
      BY <2>1, <2>10
    <3> QED BY <3>1 DEF Script, l
  <2> QED BY <2>3, <2>4, <2>7, <2>9, <2>10
<1>3. /\ DoneBy(es, l) <= x /\ y - x = DoneThere(es, l) - DoneBy(es, l)
  <2>1. Even(a, b, DoneBy(es, l), DoneThere(es, l), x, y)
    BY DEF Script, l
  <2>2. DoneBy(es, l) <= x /\ x - DoneBy(es, l) = y - DoneThere(es, l)
    BY <2>1 DEF Even
  <2>3. DoneBy(es, l) \in Nat /\ DoneThere(es, l) \in Nat
    <3>1. l \in 0..l
      BY <1>1 DEF l
    <3> QED BY <1>1, <3>1 DEF l
  <2>8. \A d, t, p, q \in Nat : p - d = q - t => q - p = t - d
    OBVIOUS
  <2> QED BY <2>2, <2>3, <2>8, ZenonT(30)
<1> QED BY <1>1, <1>2, <1>3 DEF Steps, l

\* A line is behind some of the edits, and not behind the next.
LEMMA PlaceExists ==
    ASSUME NEW es, NEW x, NEW y, Steps(es, x, y), NEW n \in Nat, n >= 1
    PROVE  \E k \in 0..Len(es) : AtPlace(es, k, n)
<1> DEFINE l == Len(es)
           T == {k \in 0..l : DoneBy(es, k) < n}
<1>1. l \in Nat /\ \A k \in 0..l : DoneBy(es, k) \in Nat
  BY DEF Steps
<1> HIDE DEF l
<1>2. 0 \in T
  <2>1. DoneBy(es, 0) = 0
    BY DEF DoneBy
  <2> QED BY <1>1, <2>1
<1>3. PICK k \in T : \A i \in T : i <= k
  <2>1. \A i \in T : i \in Int /\ 0 <= i /\ i <= l
    BY <1>1
  <2>2. T # {} /\ 0 \in Int /\ l \in Int
    BY <1>1, <1>2
  <2> HIDE DEF T
  <2>3. T \in SUBSET Int
    BY <2>1
  <2> QED BY <2>1, <2>2, <2>3, GreatestOf
<1>4. ASSUME k < l PROVE n <= DoneBy(es, k + 1)
  <2>1. k + 1 \in 0..l /\ ~(k + 1 <= k)
    BY <1>1, <1>4
  <2>2. ~(DoneBy(es, k + 1) < n) /\ DoneBy(es, k + 1) \in Nat
    BY <1>1, <1>3, <2>1
  <2> QED BY <2>2
<1> QED BY <1>3, <1>4 DEF AtPlace, l

\* The places are in order.
LEMMA PlacesRise ==
    ASSUME NEW es, NEW x, NEW y, Steps(es, x, y), NEW k \in 1..Len(es)
    PROVE  /\ DoneBy(es, k - 1) <= DoneBy(es, k) /\ DoneThere(es, k - 1) <= DoneThere(es, k)
           /\ k > 1 => DoneBy(es, k - 1) < DoneBy(es, k)
<1> DEFINE d == DoneBy(es, k - 1)
           t == DoneThere(es, k - 1)
           e == es[k]
<1>1. k - 1 \in 0..Len(es)
  BY DEF Steps
<1>2. d \in Nat /\ t \in Nat
  BY <1>1 DEF Steps
<1>3. /\ Spans(e) /\ DoneBy(es, k) = e.baseEnd /\ DoneThere(es, k) = e.sideEnd
      /\ d <= e.baseStart /\ e.sideStart - e.baseStart = t - d
      /\ k > 1 => d < e.baseStart
  BY DEF Steps
<1> HIDE DEF d, t, e
<1>4. /\ e.baseStart \in Nat /\ e.baseEnd \in Nat /\ e.sideStart \in Nat /\ e.sideEnd \in Nat
      /\ e.baseStart <= e.baseEnd /\ e.sideStart <= e.sideEnd
  BY <1>3 DEF Spans
<1>5. /\ d <= e.baseEnd /\ t <= e.sideEnd
      /\ k > 1 => d < e.baseEnd
  BY <1>2, <1>3, <1>4
<1> QED BY <1>3, <1>5 DEF d, t, e

-----------------------------------------------------------------------------
(* The drift of lines: at its place a line goes where the edits say. *)

\* Where the lines go: as the hunks of the edits say it.
LEMMA LineGoes ==
    ASSUME NEW es, NEW x, NEW y, Steps(es, x, y),
           NEW n \in Nat, n >= 1, NEW k \in 0..Len(es), AtPlace(es, k, n)
    PROVE  MapLineAcrossHunks(n, HunksOf(es)) = LineTo(es, k, n)
<1> DEFINE l == Len(es)
           hunks == HunksOf(es)
           d(i) == DoneBy(es, i)
           t(i) == DoneThere(es, i)
<1>1. l \in Nat /\ hunks = [i \in 1..l |-> HunkOf(es[i])]
  BY DEF Steps, HunksOf
<1>2. \A i \in 1..l : hunks[i] = HunkOf(es[i]) /\ HunkOf(es[i]) \in HunkType
  <2>1. \A i \in 1..l : Spans(es[i])
    BY DEF Steps
  <2>2. \A i \in 1..l : hunks[i] = HunkOf(es[i])
    BY <1>1
  <2> HIDE DEF hunks
  <2> QED BY <2>1, <2>2, HunkIs
<1>3. hunks \in Seq(HunkType) /\ Len(hunks) = l
  BY <1>1, <1>2
<1>4. /\ k \in 0..l /\ d(k) < n /\ (k < l => n <= d(k + 1))
      /\ \A i \in 0..l : d(i) \in Nat /\ t(i) \in Nat
      /\ d(0) = 0 /\ t(0) = 0
  BY DEF AtPlace, Steps, DoneBy, DoneThere
<1>5. \A i \in 1..l : /\ Spans(es[i]) /\ d(i) = es[i].baseEnd /\ t(i) = es[i].sideEnd
                      /\ es[i].sideStart - es[i].baseStart = t(i - 1) - d(i - 1)
                      /\ d(i - 1) <= d(i)
  BY PlacesRise DEF Steps
<1> HIDE DEF hunks, l, d, t
<1>6. CASE hunks = <<>>
  <2>1. l = 0
    BY <1>3, <1>6
  <2>2. k = 0
    BY <1>4, <2>1
  <2>3. MapLineAcrossHunks(n, hunks) = n
    BY <1>6 DEF MapLineAcrossHunks
  <2>4. LineTo(es, k, n) = n + (t(k) - d(k))
    BY <2>1, <2>2 DEF LineTo, l, t, d
  <2> QED BY <1>4, <2>2, <2>3, <2>4 DEF hunks
<1>7. CASE hunks # <<>>
  <2>1. PICK f : Drifting(n, hunks, f) /\ DriftAfter(n, hunks) = f[1][0]
    <3>1. n \in Int /\ hunks \in Seq(HunkType)
      BY <1>3
    <3>2. \E f : Drifting(n, hunks, f) /\ DriftAfter(n, hunks) = f[1][0]
      BY <3>1, DriftAfterIs
    <3> QED BY <3>2
  <2>2. MapLineAcrossHunks(n, hunks) = f[1][0]
    BY <1>7, <2>1 DEF MapLineAcrossHunks
  <2>3. ASSUME NEW i \in 1..(l + 1), NEW delta \in Int
        PROVE  f[i][delta] = IF i > l THEN AtLeastOne(n + delta)
                             ELSE Decided(n, hunks[i], delta, f[i + 1][OffsetAfter(hunks[i], delta)])
    <3> DEFINE said(j, m) == IF j > l THEN AtLeastOne(n + m)
                             ELSE Decided(n, hunks[j], m, f[j + 1][OffsetAfter(hunks[j], m)])
               F == [j \in 1..(l + 1) |-> [m \in Int |-> said(j, m)]]
    <3>1. f = F
      BY <1>3, <2>1 DEF Drifting
    <3>2. F[i][delta] = said(i, delta)
      <4> HIDE DEF said
      <4> QED OBVIOUS
    <3> HIDE DEF F
    <3> QED BY <3>1, <3>2
  <2> DEFINE Behind(i) == f[1][0] = f[i + 1][t(i) - d(i)]
             Held == {i \in Nat : i <= k => Behind(i)}
  \* Hunk i, of which the lines before are moved by what is counted.
  <2>4. ASSUME NEW i \in 1..l
        PROVE  /\ t(i - 1) - d(i - 1) \in Int /\ i - 1 \in 0..l /\ i \in 1..(l + 1) /\ ~(i > l)
               /\ Spans(es[i])
               /\ \E skip : /\ f[i][t(i - 1) - d(i - 1)]
                                  = Decided(n, HunkOf(es[i]), es[i].sideStart - es[i].baseStart, skip)
                            /\ skip = f[i + 1][t(i) - d(i)]
    <3>1. i - 1 \in 0..l /\ i \in 1..(l + 1) /\ ~(i > l) /\ i \in 0..l
      BY <1>1
    <3>2. d(i - 1) \in Nat /\ t(i - 1) \in Nat
      BY <1>4, <3>1
    <3>3. t(i - 1) - d(i - 1) \in Int
      BY <3>2
    <3>4. OffsetAfter(HunkOf(es[i]), es[i].sideStart - es[i].baseStart) = t(i) - d(i)
      BY <1>5, HunkIs
    <3>5. f[i][t(i - 1) - d(i - 1)]
             = Decided(n, hunks[i], t(i - 1) - d(i - 1), f[i + 1][OffsetAfter(hunks[i], t(i - 1) - d(i - 1))])
      BY <2>3, <3>1, <3>3
    <3> QED BY <1>2, <1>5, <3>1, <3>3, <3>4, <3>5
  <2>5. 0 \in Held
    <3>1. t(0) - d(0) = 0 /\ 0 + 1 = 1
      BY <1>4
    <3> QED BY <3>1
  <2>6. ASSUME NEW i \in Nat, i \in Held PROVE i + 1 \in Held
    <3> SUFFICES ASSUME i + 1 <= k PROVE Behind(i + 1)
      OBVIOUS
    <3> DEFINE j == i + 1
    <3>1. j \in 1..l /\ j - 1 = i /\ i <= k
      BY <1>1, <1>4
    <3>2. Behind(i)
      BY <2>6, <3>1
    <3>3. n > es[j].baseEnd
      <4>1. d(j) < n
        <5> DEFINE Low == {m \in Nat : j + m <= k /\ d(j + m) < n => d(j) < n}
        <5>1. 0 \in Low
          BY <3>1
        <5>2. ASSUME NEW m \in Nat, m \in Low PROVE m + 1 \in Low
          <6> SUFFICES ASSUME j + (m + 1) <= k, d(j + (m + 1)) < n PROVE d(j) < n
            OBVIOUS
          <6>1. /\ j + m <= k /\ j + (m + 1) \in 1..l /\ (j + (m + 1)) - 1 = j + m
                /\ j + m \in 0..l /\ j + (m + 1) \in 0..l
            BY <1>1, <1>4, <3>1
          <6>2. d(j + m) <= d(j + (m + 1)) /\ d(j + m) \in Nat /\ d(j + (m + 1)) \in Nat
            BY <1>4, <1>5, <6>1
          <6>3. d(j + m) < n
            <7>1. \A p, q \in Nat : p <= q /\ q < n => p < n
              OBVIOUS
            <7> QED BY <6>2, <7>1
          <6> QED BY <5>2, <6>1, <6>3
        <5>3. k - j \in Nat /\ j + (k - j) = k
          BY <1>1, <1>4, <3>1
        <5>4. k - j \in Low
          <6> HIDE DEF Low
          <6>1. \A m \in Nat : m \in Low
            BY <5>1, <5>2, InductionOverNat
          <6> QED BY <5>3, <6>1
        <5>5. k <= k
          BY <1>4
        <5> QED BY <1>4, <5>3, <5>4, <5>5
      <4>2. d(j) = es[j].baseEnd /\ es[j].baseEnd \in Nat
        BY <1>5, <3>1 DEF Spans
      <4> HIDE DEF j
      <4> QED BY <4>1, <4>2
    <3> HIDE DEF j
    <3>4. PICK skip : /\ f[j][t(j - 1) - d(j - 1)]
                             = Decided(n, HunkOf(es[j]), es[j].sideStart - es[j].baseStart, skip)
                      /\ skip = f[j + 1][t(j) - d(j)]
      BY <2>4, <3>1
    <3>5. f[j][t(j - 1) - d(j - 1)] = skip
      BY <1>5, <3>1, <3>3, <3>4, DecidedIs
    <3>6. f[j][t(j - 1) - d(j - 1)] = f[i + 1][t(i) - d(i)]
      BY <3>1 DEF j
    <3>7. f[1][0] = f[j + 1][t(j) - d(j)]
      BY <3>2, <3>4, <3>5, <3>6
    <3> QED BY <3>7 DEF j
  <2>7. Behind(k)
    <3>1. \A i \in Nat : i \in Held
      <4> HIDE DEF Held
      <4> QED BY <2>5, <2>6, InductionOverNat
    <3>2. k \in Nat /\ k <= k
      BY <1>1, <1>4
    <3> HIDE DEF Behind
    <3> QED BY <3>1, <3>2
  <2>8. CASE k = l
    <3>1. l + 1 \in 1..(l + 1) /\ l + 1 > l /\ t(k) - d(k) \in Int /\ n + (t(k) - d(k)) >= 1
      BY <1>1, <1>4, <2>8
    <3>2. f[k + 1][t(k) - d(k)] = AtLeastOne(n + (t(k) - d(k)))
      BY <2>3, <2>8, <3>1
    <3>3. AtLeastOne(n + (t(k) - d(k))) = n + (t(k) - d(k))
      BY <3>1 DEF AtLeastOne
    <3> QED BY <2>2, <2>7, <2>8, <3>2, <3>3 DEF LineTo, l, t, d, hunks
  <2>9. CASE k # l
    <3> DEFINE i == k + 1
               e == es[i]
    <3>1. i \in 1..l /\ i - 1 = k /\ k < l
      BY <1>1, <1>4, <2>9
    <3> HIDE DEF i
    <3>2. PICK skip : /\ f[i][t(i - 1) - d(i - 1)]
                             = Decided(n, HunkOf(e), e.sideStart - e.baseStart, skip)
                      /\ skip = f[i + 1][t(i) - d(i)]
      BY <2>4, <3>1
    <3>3. Spans(e) /\ d(i) = e.baseEnd /\ e.sideStart - e.baseStart = t(k) - d(k) /\ n <= e.baseEnd
      <4>1. n <= d(i)
        BY <1>4, <3>1 DEF i
      <4> QED BY <1>5, <3>1, <4>1
    <3>4. f[1][0] = Decided(n, HunkOf(e), e.sideStart - e.baseStart, skip)
      BY <2>7, <3>1, <3>2 DEF i
    <3> HIDE DEF e
    <3>5. CASE n <= e.baseStart
      <4>1. n + (t(k) - d(k)) >= 1
        BY <1>4
      <4>2. f[1][0] = n + (t(k) - d(k))
        BY <3>3, <3>4, <3>5, <4>1, DecidedIs
      <4> QED BY <2>2, <3>5, <4>2 DEF LineTo, i, e, t, d, hunks
    <3>6. CASE ~(n <= e.baseStart)
      <4>1. e.baseStart < n
        BY <3>3, <3>6 DEF Spans
      <4>2. f[1][0] = Within(e, n)
        BY <3>3, <3>4, <4>1, DecidedIs
      <4> QED BY <2>2, <2>9, <3>6, <4>2 DEF LineTo, i, e, l, hunks
    <3> QED BY <3>5, <3>6
  <2> QED BY <2>8, <2>9
<1> QED BY <1>6, <1>7

-----------------------------------------------------------------------------
(* The drift of lines: where that is. *)

\* Where a line goes: behind what the edits before it end with, and not behind
\* what the next ends with.
LEMMA LineLands ==
    ASSUME NEW es, NEW x \in Nat, NEW y \in Nat, Steps(es, x, y), NEW n \in 1..x,
           NEW k \in 0..Len(es), AtPlace(es, k, n)
    PROVE  LET to == LineTo(es, k, n)
           IN  /\ to \in Nat /\ to >= 1 /\ DoneThere(es, k) < to
               /\ k < Len(es) => to <= Greater(1, DoneThere(es, k + 1))
               /\ k = Len(es) => to <= y
<1> DEFINE l == Len(es)
           d == DoneBy(es, k)
           t == DoneThere(es, k)
           e == es[k + 1]
           to == LineTo(es, k, n)
<1>1. l \in Nat /\ d \in Nat /\ t \in Nat /\ n \in Nat /\ n <= x /\ k \in 0..l /\ d < n
  BY DEF Steps, AtPlace
<1>2. k = 0 => t = 0
  BY DEF DoneThere
<1>3. CASE k = l
  <2>1. to = n + (t - d)
    BY <1>3 DEF LineTo
  <2>2. y - x = t - d
    BY <1>3 DEF Steps
  <2> HIDE DEF to, t, d, l
  <2>3. to \in Nat /\ to >= 1 /\ t < to /\ to <= y /\ ~(k < l)
    BY <1>1, <1>3, <2>1, <2>2
  <2> QED BY <2>3 DEF to, t, d, l
<1>4. CASE k # l
  <2>1. k + 1 \in 1..l /\ (k + 1) - 1 = k /\ k < l
    BY <1>1, <1>4
  <2>2. /\ Spans(e) /\ DoneBy(es, k + 1) = e.baseEnd /\ DoneThere(es, k + 1) = e.sideEnd
        /\ d <= e.baseStart /\ e.sideStart - e.baseStart = t - d
        /\ k + 1 > 1 => d < e.baseStart
    BY <2>1 DEF Steps
  <2>3. n <= e.baseEnd
    BY <2>1, <2>2 DEF AtPlace
  <2>4. to = IF n <= e.baseStart THEN n + (t - d) ELSE Within(e, n)
    BY <1>4 DEF LineTo
  <2> HIDE DEF to, t, d, l, e
  <2>5. /\ e.baseStart \in Nat /\ e.baseEnd \in Nat /\ e.sideStart \in Nat /\ e.sideEnd \in Nat
        /\ e.baseStart <= e.baseEnd /\ e.sideStart <= e.sideEnd
    BY <2>2 DEF Spans
  <2>6. to \in Nat /\ to >= 1 /\ t < to /\ to <= Greater(1, e.sideEnd)
    <3>1. CASE n <= e.baseStart
      <4>1. to \in Nat /\ to >= 1 /\ t < to /\ to <= e.sideEnd
        BY SMTT(30), <1>1, <2>2, <2>4, <2>5, <3>1
      <4> QED BY <2>5, <4>1 DEF Greater
    <3>2. CASE ~(n <= e.baseStart) /\ e.sideStart = e.sideEnd
      <4>1. to = AtLeastOne(e.sideStart)
        BY <2>4, <3>2 DEF Within
      <4>2. t <= e.sideStart /\ (k # 0 => t < e.sideStart)
        BY SMTT(30), <1>1, <2>1, <2>2, <2>5
      <4> QED BY <1>1, <1>2, <2>5, <3>2, <4>1, <4>2 DEF AtLeastOne, Greater
    <3>3. CASE ~(n <= e.baseStart) /\ e.sideStart # e.sideEnd
      <4>1. to = e.sideStart + Lesser(n - e.baseStart, e.sideEnd - e.sideStart)
        BY <2>4, <3>3 DEF Within
      <4>2. t <= e.sideStart
        BY <1>1, <2>2, <2>5, SMTT(30)
      <4>3. /\ Lesser(n - e.baseStart, e.sideEnd - e.sideStart) \in Nat
            /\ Lesser(n - e.baseStart, e.sideEnd - e.sideStart) >= 1
            /\ Lesser(n - e.baseStart, e.sideEnd - e.sideStart) <= e.sideEnd - e.sideStart
        BY SMTT(30), <1>1, <2>5, <3>3 DEF Lesser
      <4>4. to \in Nat /\ to >= 1 /\ t < to /\ to <= e.sideEnd
        BY SMTT(30), <1>1, <2>5, <4>1, <4>2, <4>3
      <4> QED BY <2>5, <4>4 DEF Greater
    <3> QED BY <3>1, <3>2, <3>3
  <2> QED BY <1>4, <2>2, <2>6 DEF to, t, l
<1> QED BY <1>3, <1>4

\* Within one place a line goes no further than the next does.
LEMMA LinesKeepOrder ==
    ASSUME NEW es, NEW x \in Nat, NEW y \in Nat, Steps(es, x, y), NEW n \in Nat,
           NEW k \in 0..Len(es), AtPlace(es, k, n), AtPlace(es, k, n + 1), n >= 1, n + 1 <= x
    PROVE  LineTo(es, k, n) <= LineTo(es, k, n + 1)
<1> DEFINE l == Len(es)
           d == DoneBy(es, k)
           t == DoneThere(es, k)
           e == es[k + 1]
<1>1. l \in Nat /\ d \in Nat /\ t \in Nat /\ k \in 0..l /\ d < n
  BY DEF Steps, AtPlace
<1>2. CASE k = l
  <2>1. LineTo(es, k, n) = n + (t - d) /\ LineTo(es, k, n + 1) = (n + 1) + (t - d)
    BY <1>2 DEF LineTo
  <2> HIDE DEF d, t
  <2> QED BY <1>1, <2>1
<1>3. CASE k # l
  <2>1. k + 1 \in 1..l /\ (k + 1) - 1 = k /\ k < l
    BY <1>1, <1>3
  <2>2. /\ Spans(e) /\ e.sideStart - e.baseStart = t - d /\ DoneBy(es, k + 1) = e.baseEnd
    BY <2>1 DEF Steps
  <2>3. n + 1 <= e.baseEnd
    BY <2>1, <2>2 DEF AtPlace
  <2>4. /\ LineTo(es, k, n) = (IF n <= e.baseStart THEN n + (t - d) ELSE Within(e, n))
        /\ LineTo(es, k, n + 1) = (IF n + 1 <= e.baseStart THEN (n + 1) + (t - d) ELSE Within(e, n + 1))
    BY <1>3 DEF LineTo
  <2> HIDE DEF t, d, l, e
  <2>5. /\ e.baseStart \in Nat /\ e.baseEnd \in Nat /\ e.sideStart \in Nat /\ e.sideEnd \in Nat
        /\ e.baseStart <= e.baseEnd /\ e.sideStart <= e.sideEnd
    BY <2>2 DEF Spans
  <2>6. CASE n + 1 <= e.baseStart
    BY <1>1, <2>4, <2>5, <2>6
  <2>7. CASE ~(n + 1 <= e.baseStart) /\ n <= e.baseStart
    <3>1. n + (t - d) = e.sideStart
      BY SMTT(30), <1>1, <2>2, <2>5, <2>7
    <3>2. e.sideStart <= Within(e, n + 1)
      BY <2>5, <2>7 DEF Within, AtLeastOne, Lesser
    <3> QED BY <2>4, <2>7, <3>1, <3>2
  <2>8. CASE ~(n <= e.baseStart)
    <3>1. ~(n + 1 <= e.baseStart)
      BY <2>5, <2>8
    <3>2. Within(e, n) <= Within(e, n + 1)
      <4>1. CASE e.sideStart = e.sideEnd
        <5>1. Within(e, n) = AtLeastOne(e.sideStart) /\ Within(e, n + 1) = AtLeastOne(e.sideStart)
          BY <4>1 DEF Within
        <5> QED BY <2>5, <5>1 DEF AtLeastOne
      <4>2. CASE e.sideStart # e.sideEnd
        <5>1. /\ Within(e, n) = e.sideStart + Lesser(n - e.baseStart, e.sideEnd - e.sideStart)
              /\ Within(e, n + 1) = e.sideStart + Lesser((n + 1) - e.baseStart, e.sideEnd - e.sideStart)
          BY <4>2 DEF Within
        <5>2. \A p, q, m \in Int : p <= q => /\ Lesser(p, m) <= Lesser(q, m)
                                            /\ Lesser(p, m) \in Int /\ Lesser(q, m) \in Int
          BY DEF Lesser
        <5>3. /\ n - e.baseStart \in Int /\ (n + 1) - e.baseStart \in Int
              /\ e.sideEnd - e.sideStart \in Int /\ n - e.baseStart <= (n + 1) - e.baseStart
          BY <2>5
        <5> DEFINE p == Lesser(n - e.baseStart, e.sideEnd - e.sideStart)
                   q == Lesser((n + 1) - e.baseStart, e.sideEnd - e.sideStart)
        <5>4. p <= q /\ p \in Int /\ q \in Int
          BY <5>2, <5>3
        <5> HIDE DEF p, q
        <5>5. e.sideStart + p <= e.sideStart + q
          BY <2>5, <5>4
        <5> QED BY <5>1, <5>5 DEF p, q
      <4> QED BY <4>1, <4>2
    <3> QED BY <2>4, <2>8, <3>1, <3>2
  <2> QED BY <2>6, <2>7, <2>8
<1> QED BY <1>2, <1>3

-----------------------------------------------------------------------------
(* The drift of lines: its theorem. *)

\* A line is found no later than the one behind it.
LEMMA NextGoesOn ==
    ASSUME NEW es, NEW x \in Nat, NEW y \in Nat, Steps(es, x, y), NEW n \in 1..x, n + 1 <= x,
           NEW k \in 0..Len(es), AtPlace(es, k, n), NEW i \in 0..Len(es), AtPlace(es, i, n + 1)
    PROVE  LineTo(es, k, n) <= LineTo(es, i, n + 1)
<1> DEFINE l == Len(es)
           d(j) == DoneBy(es, j)
           t(j) == DoneThere(es, j)
<1>1. l \in Nat /\ n \in Nat /\ n >= 1 /\ \A j \in 0..l : d(j) \in Nat /\ t(j) \in Nat
  BY DEF Steps
<1>2. \A j \in 1..l : d(j - 1) <= d(j) /\ t(j - 1) <= t(j) /\ (j > 1 => d(j - 1) < d(j))
  BY PlacesRise
<1>3. /\ d(k) < n /\ (k < l => n <= d(k + 1))
      /\ d(i) < n + 1 /\ (i < l => n + 1 <= d(i + 1))
  BY DEF AtPlace
<1> HIDE DEF l, d, t
<1>4. CASE i = k
  BY <1>1, <1>4, LinesKeepOrder
<1>5. CASE i = k + 1
  <2>1. k < l
    BY <1>1, <1>5 DEF l
  <2>2. LineTo(es, k, n) \in Nat /\ LineTo(es, k, n) <= Greater(1, t(k + 1))
    BY <2>1, LineLands DEF l, t
  <2>3. /\ LineTo(es, i, n + 1) \in Nat /\ LineTo(es, i, n + 1) >= 1 /\ t(i) < LineTo(es, i, n + 1)
    <3>1. n + 1 \in 1..x
      BY <1>1
    <3> QED BY <3>1, LineLands DEF t
  <2>4. t(k + 1) \in Nat
    BY <1>1, <1>5 DEF l
  <2> HIDE DEF LineTo
  <2> QED BY <1>5, <2>2, <2>3, <2>4 DEF Greater
<1>6. CASE i # k /\ i # k + 1
  <2>1. k \in 0..l /\ i \in 0..l
    BY DEF l
  <2>2. CASE i < k
    <3> DEFINE Low == {m \in Nat : (i + 1) + m <= l => d(i + 1) <= d((i + 1) + m)}
    <3>1. 0 \in Low
      BY <1>1, <2>1, <2>2
    <3>2. ASSUME NEW m \in Nat, m \in Low PROVE m + 1 \in Low
      <4> SUFFICES ASSUME (i + 1) + (m + 1) <= l PROVE d(i + 1) <= d((i + 1) + (m + 1))
        OBVIOUS
      <4> DEFINE j == (i + 1) + (m + 1)
      <4>1. j \in 1..l /\ j \in 0..l /\ j - 1 = (i + 1) + m /\ j - 1 \in 0..l /\ (i + 1) + m <= l /\ i + 1 \in 0..l
        BY <1>1, <2>1
      <4> HIDE DEF j
      <4>2. d(i + 1) <= d(j - 1) /\ d(j - 1) <= d(j)
        BY <1>2, <3>2, <4>1
      <4>3. d(i + 1) \in Nat /\ d(j - 1) \in Nat /\ d(j) \in Nat
        BY <1>1, <4>1
      <4>4. d(i + 1) <= d(j)
        BY <4>2, <4>3
      <4> QED BY <4>4 DEF j
    <3>3. k - (i + 1) \in Nat /\ (i + 1) + (k - (i + 1)) = k /\ k <= l /\ i < l /\ i + 1 \in 0..l
      BY <1>1, <2>1, <2>2
    <3>4. k - (i + 1) \in Low
      <4>1. \A m \in Nat : m \in Low
        <5> HIDE DEF Low
        <5> QED BY <3>1, <3>2, InductionOverNat
      <4> QED BY <3>3, <4>1
    <3>5. d(i + 1) <= d(k)
      BY <3>3, <3>4
    <3>6. d(i + 1) \in Nat /\ d(k) \in Nat
      BY <1>1, <2>1, <3>3
    <3> QED BY <1>1, <1>3, <3>3, <3>5, <3>6
  <2>3. CASE i > k + 1
    <3>1. /\ k + 2 \in 1..l /\ (k + 2) - 1 = k + 1 /\ k + 2 > 1 /\ k + 1 \in 0..l /\ k + 2 \in 0..l
          /\ k < l
      BY <1>1, <2>1, <2>3
    <3>2. d(k + 1) < d(k + 2) /\ n <= d(k + 1)
      <4>1. d((k + 2) - 1) < d(k + 2)
        BY <1>2, <3>1
      <4> QED BY <1>3, <3>1, <4>1
    <3> DEFINE Low == {m \in Nat : (k + 2) + m <= l => d(k + 2) <= d((k + 2) + m)}
    <3>3. 0 \in Low
      BY <1>1, <3>1
    <3>4. ASSUME NEW m \in Nat, m \in Low PROVE m + 1 \in Low
      <4> SUFFICES ASSUME (k + 2) + (m + 1) <= l PROVE d(k + 2) <= d((k + 2) + (m + 1))
        OBVIOUS
      <4> DEFINE j == (k + 2) + (m + 1)
      <4>1. j \in 1..l /\ j \in 0..l /\ j - 1 = (k + 2) + m /\ j - 1 \in 0..l /\ (k + 2) + m <= l
        BY <1>1, <2>1
      <4> HIDE DEF j
      <4>2. d(k + 2) <= d(j - 1) /\ d(j - 1) <= d(j)
        BY <1>2, <3>4, <4>1
      <4>3. d(k + 2) \in Nat /\ d(j - 1) \in Nat /\ d(j) \in Nat
        BY <1>1, <3>1, <4>1
      <4>4. d(k + 2) <= d(j)
        BY <4>2, <4>3
      <4> QED BY <4>4 DEF j
    <3>5. i - (k + 2) \in Nat /\ (k + 2) + (i - (k + 2)) = i /\ i <= l
      BY <1>1, <2>1, <2>3
    <3>6. i - (k + 2) \in Low
      <4>1. \A m \in Nat : m \in Low
        <5> HIDE DEF Low
        <5> QED BY <3>3, <3>4, InductionOverNat
      <4> QED BY <3>5, <4>1
    <3>7. d(k + 2) <= d(i)
      BY <3>5, <3>6
    <3>8. d(k + 1) \in Nat /\ d(k + 2) \in Nat /\ d(i) \in Nat
      BY <1>1, <2>1, <3>1
    <3>9. \A p, q, r \in Nat : n <= p /\ p < q /\ q <= r => ~(r < n + 1)
      BY <1>1
    <3> QED BY <1>3, <3>2, <3>7, <3>8, <3>9
  <2> QED BY <1>6, <2>1, <2>2, <2>3
<1> QED BY <1>4, <1>5, <1>6

\* The drift of lines follows the diff that it is made from.
LEMMA LinesFollow ==
    ASSUME NEW S, NEW a \in Seq(S), NEW b \in Seq(S)
    PROVE  LET to(n) == MapLineAcrossHunks(n, DiffHunks(a, b))
           IN  /\ \A m \in MatchedPairs(a, b) : to(m[1]) = m[2]
               /\ \A n \in 1..Len(a) : to(n) \in 1..Greater(1, Len(b))
               /\ \A n \in 1..(Len(a) - 1) : to(n) <= to(n + 1)
<1> DEFINE es == SequenceEdits(a, b)
           pairs == MatchedPairs(a, b)
           x == Len(a)
           y == Len(b)
           l == Len(es)
           to(n) == MapLineAcrossHunks(n, HunksOf(es))
<1>1. Script(S, a, b, es, x, y) /\ Placed(pairs, es, x) /\ x \in Nat /\ y \in Nat
  BY EditsSay
<1>2. Common(a, b, pairs)
  BY MatchesAre
<1>3. \A n : MapLineAcrossHunks(n, DiffHunks(a, b)) = to(n)
  BY DEF DiffHunks
<1> HIDE DEF es, pairs
<1>4. Steps(es, x, y)
  BY <1>1, StepsAre
<1>5. \A k \in 1..l : DoneThere(es, k) \in Nat /\ DoneThere(es, k) <= y
  <2> TAKE k \in 1..l
  <2>1. DoneThere(es, k) = es[k].sideEnd /\ k \in 0..l
    BY <1>4 DEF Steps
  <2>2. es[k].sideEnd <= y
    BY <1>1 DEF Script, ProperEdit
  <2> QED BY <1>4, <2>1, <2>2 DEF Steps
<1>6. l \in Nat
  BY <1>4 DEF Steps
<1> HIDE DEF x, y
<1>7. ASSUME NEW n \in 1..x
      PROVE  \E k \in 0..l : AtPlace(es, k, n) /\ to(n) = LineTo(es, k, n)
  <2>1. n \in Nat /\ n >= 1
    BY <1>1
  <2>2. PICK k \in 0..l : AtPlace(es, k, n)
    BY <1>4, <2>1, PlaceExists
  <2> QED BY <1>4, <2>1, <2>2, LineGoes
<1> HIDE DEF to
<1>8. ASSUME NEW m \in pairs PROVE to(m[1]) = m[2]
  <2>1. m[1] \in 1..x /\ m[2] \in 1..y
    BY <1>2 DEF Common, x, y
  <2>2. m[1] \in Nat /\ m[1] >= 1 /\ m[1] <= x /\ m[2] \in Nat
    BY <1>1, <2>1
  <2>3. PICK k \in 0..l :
           /\ DoneBy(es, k) < m[1] /\ (k < l => m[1] <= es[k + 1].baseStart)
           /\ m[2] - m[1] = DoneThere(es, k) - DoneBy(es, k)
    BY <1>1, <2>2 DEF Placed
  <2>4. ASSUME k < l PROVE m[1] <= DoneBy(es, k + 1)
    <3>1. k + 1 \in 1..l
      BY <1>6, <2>4
    <3>2. /\ DoneBy(es, k + 1) = es[k + 1].baseEnd /\ Spans(es[k + 1])
      BY <1>4, <3>1 DEF Steps
    <3> QED BY <2>2, <2>3, <2>4, <3>2 DEF Spans
  <2>5. AtPlace(es, k, m[1])
    BY <2>3, <2>4 DEF AtPlace
  <2>6. k = l \/ m[1] <= es[k + 1].baseStart
    BY <1>6, <2>3
  <2>7. LineTo(es, k, m[1]) = m[1] + (DoneThere(es, k) - DoneBy(es, k))
    BY <2>6 DEF LineTo
  <2>8. DoneThere(es, k) \in Nat /\ DoneBy(es, k) \in Nat
    BY <1>4 DEF Steps
  <2>9. LineTo(es, k, m[1]) = m[2]
    BY <2>2, <2>3, <2>7, <2>8
  <2>10. to(m[1]) = LineTo(es, k, m[1])
    BY <1>4, <2>2, <2>5, LineGoes DEF to
  <2> QED BY <2>9, <2>10
<1>9. ASSUME NEW n \in 1..x PROVE to(n) \in 1..Greater(1, y)
  <2>1. PICK k \in 0..l : AtPlace(es, k, n) /\ to(n) = LineTo(es, k, n)
    BY <1>7
  <2>2. /\ to(n) \in Nat /\ to(n) >= 1
        /\ k < l => to(n) <= Greater(1, DoneThere(es, k + 1))
        /\ k = l => to(n) <= y
    BY <1>1, <1>4, <2>1, LineLands
  <2>3. CASE k = l
    BY <1>1, <2>2, <2>3 DEF Greater
  <2>4. CASE k # l
    <3>1. k + 1 \in 1..l /\ k < l
      BY <1>6, <2>4
    <3>2. DoneThere(es, k + 1) \in Nat /\ DoneThere(es, k + 1) <= y
      BY <1>5, <3>1
    <3> QED BY <1>1, <2>2, <3>1, <3>2 DEF Greater
  <2> QED BY <2>3, <2>4
<1>10. ASSUME NEW n \in 1..(x - 1) PROVE to(n) <= to(n + 1)
  <2>1. n \in 1..x /\ n + 1 \in 1..x /\ n + 1 <= x
    BY <1>1
  <2>2. PICK k \in 0..l : AtPlace(es, k, n) /\ to(n) = LineTo(es, k, n)
    BY <1>7, <2>1
  <2>3. PICK i \in 0..l : AtPlace(es, i, n + 1) /\ to(n + 1) = LineTo(es, i, n + 1)
    BY <1>7, <2>1
  <2> QED BY <1>1, <1>4, <2>1, <2>2, <2>3, NextGoesOn
<1> QED BY <1>3, <1>8, <1>9, <1>10 DEF pairs, x, y

\* The three texts of a merge stay what they are.
TextsKept == texts \in [base : Texts, left : Texts, right : Texts]

LEMMA TextsStay == TextsKept /\ [EditorNext]_editorVars => TextsKept'
BY DEF TextsKept, EditorNext, editorVars, Resolve, CustomInput, IgnoreSide, ToggleHandled, ToggleAccepted,
       ResolveAll, Sync, Step

\* For any two texts: a line that the diff matches is found where it is, every
\* line is found within the text, and none before the one it follows
\* (mapLineAcrossHunks, which says where a comment goes).
THEOREM DriftAlwaysFollows == EditorSpec => []DriftFollowsText
<1>1. EditorInit => TextsKept
  BY DEF EditorInit, TextsKept
<1>2. TextsKept => DriftFollowsText
  <2> SUFFICES ASSUME TextsKept PROVE DriftFollowsText
    OBVIOUS
  <2>1. texts.base \in Texts /\ texts.left \in Texts
    BY DEF TextsKept
  <2>2. texts.base.lines \in Seq(Seq(STRING)) /\ texts.left.lines \in Seq(Seq(STRING))
    BY <2>1, MergeAssumption
  <2> QED BY <2>2, LinesFollow DEF DriftFollowsText
<1> QED BY <1>1, <1>2, TextsStay, PTL DEF EditorSpec
=============================================================================
