-------------------------- MODULE AuditTrailProofs ---------------------------
(***************************************************************************)
(* Theorems about AuditTrail, and proofs that TLAPS checks: the properties *)
(* of the Merkle trees of AuditTrees.  First the recursions and the tree   *)
(* for any leaves, then the order of the rows, then the state machine.     *)
(***************************************************************************)
EXTENDS AuditTrail, FiniteSetTheorems, SequenceTheorems, WellFoundedInduction, TLAPS

\* Every set of natural numbers that has an element has a least one.
LEMMA Least ==
    ASSUME NEW T, T \subseteq Nat, T # {}
    PROVE  \E n \in T : \A m \in T : n <= m
<1> DEFINE R == OpToRel(<, Nat)
<1>1. IsWellFoundedOn(R, Nat)
  BY NatLessThanWellFounded, Zenon
<1>2. R = {ss \in Nat \X Nat : ss[1] < ss[2]}
  BY DEF OpToRel
<1> HIDE DEF R
<1>3. PICK n \in T : \A m \in T : ~(<<m, n>> \in R)
  BY <1>1, WFMin
<1>4. \A m \in T : ~(m < n)
  BY <1>2, <1>3
<1> QED
  BY <1>4

\* Induction over the natural numbers, for a set of them.
LEMMA Inductive ==
    ASSUME NEW T, T \subseteq Nat, 0 \in T, \A n \in T : n + 1 \in T
    PROVE  T = Nat
<1> DEFINE Rest == Nat \ T
<1>1. SUFFICES ASSUME Rest # {} PROVE FALSE
  OBVIOUS
<1> HIDE DEF Rest
<1>2. Rest \subseteq Nat
  BY DEF Rest
<1>3. PICK n \in Rest : \A m \in Rest : n <= m
  BY <1>1, <1>2, Least
<1>4. n \in Nat \ {0} /\ n - 1 \in Nat /\ n \notin T
  BY <1>2 DEF Rest
<1>5. n - 1 \notin Rest
  BY <1>3, <1>4
<1>6. n - 1 \in T
  BY <1>4, <1>5 DEF Rest
<1>7. (n - 1) + 1 \in T /\ (n - 1) + 1 = n
  BY <1>4, <1>6
<1> QED
  BY <1>4, <1>7

-----------------------------------------------------------------------------
(* The three recursions have solutions *)

\* One step of the levels of a tree, of a leaf's ancestors, and of a proof p.
Step(c, n, x) ==
    CASE c[1] = "level" -> Trees!Parents(x)
      [] c[1] = "at" -> (x + 1) \div 2
      [] c[1] = "digest" -> Trees!Hashed(x, c[2][n])

Runs(c, x, N, g) == g = [n \in N |-> IF n = 0 THEN x ELSE Step(c, n, g[n - 1])]

\* Two solutions up to different heights agree where both are defined.
LEMMA RunsAgree ==
    ASSUME NEW c, NEW x, NEW m \in Nat, NEW n \in Nat, m <= n,
           NEW f, NEW g, Runs(c, x, 0 .. m, f), Runs(c, x, 0 .. n, g)
    PROVE  \A k \in 0 .. m : f[k] = g[k]
<1> DEFINE Agree == {k \in Nat : k <= m => f[k] = g[k]}
<1>1. \A k \in 0 .. m : f[k] = IF k = 0 THEN x ELSE Step(c, k, f[k - 1])
  BY DEF Runs
<1>2. \A k \in 0 .. m : g[k] = IF k = 0 THEN x ELSE Step(c, k, g[k - 1])
  BY DEF Runs
<1>3. 0 \in Agree
  BY <1>1, <1>2
<1>4. ASSUME NEW k \in Agree PROVE k + 1 \in Agree
  <2>1. k \in Nat /\ (k + 1) - 1 = k /\ k + 1 # 0 /\ k + 1 \in Nat
    OBVIOUS
  <2>2. ASSUME k + 1 <= m PROVE f[k + 1] = g[k + 1]
    <3>1. k + 1 \in 0 .. m /\ f[k] = g[k]
      BY <2>1, <2>2
    <3> QED
      BY <1>1, <1>2, <2>1, <3>1
  <2> QED
    BY <2>1, <2>2
<1>5. Agree = Nat
  <2>1. Agree \subseteq Nat
    OBVIOUS
  <2> HIDE DEF Agree
  <2> QED
    BY <1>3, <1>4, <2>1, Inductive
<1> QED
  BY <1>5

\* A recursion along the natural numbers has a solution.
LEMMA RunsExist ==
    ASSUME NEW c, NEW x
    PROVE  \E g : Runs(c, x, Nat, g)
<1> DEFINE Solved == {n \in Nat : \E g : Runs(c, x, 0 .. n, g)}
           Sol(n) == CHOOSE g : Runs(c, x, 0 .. n, g)
           whole == [n \in Nat |-> Sol(n)[n]]
<1>1. 0 \in Solved
  <2>1. Runs(c, x, 0 .. 0, [n \in 0 .. 0 |-> x])
    BY DEF Runs
  <2> QED
    BY <2>1
<1>2. ASSUME NEW n \in Solved PROVE n + 1 \in Solved
  <2>1. PICK g : Runs(c, x, 0 .. n, g)
    OBVIOUS
  <2> DEFINE longer == [k \in 0 .. (n + 1) |-> IF k = 0 THEN x ELSE Step(c, k, g[k - 1])]
  <2>2. ASSUME NEW k \in 0 .. (n + 1), k # 0 PROVE g[k - 1] = longer[k - 1]
    <3>1. k - 1 \in 0 .. n /\ k - 1 \in 0 .. (n + 1)
      BY <2>2
    <3>2. g[k - 1] = IF k - 1 = 0 THEN x ELSE Step(c, k - 1, g[(k - 1) - 1])
      BY <2>1, <3>1 DEF Runs
    <3> QED
      BY <3>1, <3>2
  <2>3. Runs(c, x, 0 .. (n + 1), longer)
    <3>1. longer = [k \in 0 .. (n + 1) |-> IF k = 0 THEN x ELSE Step(c, k, longer[k - 1])]
      BY <2>2, Zenon
    <3> QED
      BY <3>1 DEF Runs
  <2>4. n + 1 \in Nat
    OBVIOUS
  <2> QED
    BY <2>3, <2>4
<1>3. Solved = Nat
  <2>1. Solved \subseteq Nat
    OBVIOUS
  <2> HIDE DEF Solved
  <2> QED
    BY <1>1, <1>2, <2>1, Inductive
<1>4. \A n \in Nat : Runs(c, x, 0 .. n, Sol(n))
  BY <1>3
<1> HIDE DEF Sol
<1>5. ASSUME NEW n \in Nat
      PROVE  whole[n] = IF n = 0 THEN x ELSE Step(c, n, whole[n - 1])
  <2>1. Sol(n)[n] = IF n = 0 THEN x ELSE Step(c, n, Sol(n)[n - 1])
    BY <1>4 DEF Runs
  <2>2. ASSUME n # 0 PROVE Sol(n)[n - 1] = Sol(n - 1)[n - 1]
    <3>1. n - 1 \in Nat /\ n - 1 <= n /\ n - 1 \in 0 .. (n - 1)
      BY <2>2
    <3>2. Runs(c, x, 0 .. (n - 1), Sol(n - 1)) /\ Runs(c, x, 0 .. n, Sol(n))
      BY <1>4, <3>1
    <3> QED
      BY <3>1, <3>2, RunsAgree
  <2>3. n # 0 => n - 1 \in Nat
    OBVIOUS
  <2> QED
    BY <2>1, <2>2, <2>3
<1>6. Runs(c, x, Nat, whole)
  <2>1. whole = [n \in Nat |-> IF n = 0 THEN x ELSE Step(c, n, whole[n - 1])]
    BY <1>5, Zenon
  <2> QED
    BY <2>1 DEF Runs
<1> QED
  BY <1>6

LEMMA LevelsAre ==
    ASSUME NEW leaves
    PROVE  /\ Trees!Levels(leaves)[0] = leaves
           /\ \A h \in Nat : Trees!Levels(leaves)[h + 1] = Trees!Parents(Trees!Levels(leaves)[h])
<1> DEFINE c == <<"level", 0>>
           L == Trees!Levels(leaves)
<1>1. \A n, x : Step(c, n, x) = Trees!Parents(x)
  BY DEF Step
<1>2. L = CHOOSE g : g = [h \in Nat |-> IF h = 0 THEN leaves ELSE Trees!Parents(g[h - 1])]
  BY DEF Trees!Levels
<1>3. PICK f : Runs(c, leaves, Nat, f)
  BY RunsExist
<1>4. f = [h \in Nat |-> IF h = 0 THEN leaves ELSE Trees!Parents(f[h - 1])]
  BY <1>1, <1>3, Zenon DEF Runs
<1>5. L = [h \in Nat |-> IF h = 0 THEN leaves ELSE Trees!Parents(L[h - 1])]
  BY <1>2, <1>4
<1> HIDE DEF L
<1>6. L[0] = leaves
  BY <1>5
<1>7. ASSUME NEW h \in Nat PROVE L[h + 1] = Trees!Parents(L[h])
  <2>1. h + 1 \in Nat /\ h + 1 # 0 /\ (h + 1) - 1 = h
    OBVIOUS
  <2> QED
    BY <1>5, <2>1
<1> QED
  BY <1>6, <1>7 DEF L
LEMMA AncestorsAre ==
    ASSUME NEW i
    PROVE  /\ Trees!Ancestors(i)[0] = i
           /\ \A h \in Nat : Trees!Ancestors(i)[h + 1] = (Trees!Ancestors(i)[h] + 1) \div 2
<1> DEFINE c == <<"at", 0>>
           L == Trees!Ancestors(i)
<1>1. \A n, x : Step(c, n, x) = (x + 1) \div 2
  BY DEF Step
<1>2. L = CHOOSE g : g = [h \in Nat |-> IF h = 0 THEN i ELSE (g[h - 1] + 1) \div 2]
  BY DEF Trees!Ancestors
<1>3. PICK f : Runs(c, i, Nat, f)
  BY RunsExist
<1>4. f = [h \in Nat |-> IF h = 0 THEN i ELSE (f[h - 1] + 1) \div 2]
  BY <1>1, <1>3, Zenon DEF Runs
<1>5. L = [h \in Nat |-> IF h = 0 THEN i ELSE (L[h - 1] + 1) \div 2]
  BY <1>2, <1>4
<1> HIDE DEF L
<1>6. L[0] = i
  BY <1>5
<1>7. ASSUME NEW h \in Nat PROVE L[h + 1] = (L[h] + 1) \div 2
  <2>1. h + 1 \in Nat /\ h + 1 # 0 /\ (h + 1) - 1 = h
    OBVIOUS
  <2> QED
    BY <1>5, <2>1
<1> QED
  BY <1>6, <1>7 DEF L

\* The digests of a proof, the leaf first.
Digests(leaf, p) ==
    CHOOSE g : g = [k \in Nat |-> IF k = 0 THEN leaf ELSE Trees!Hashed(g[k - 1], p[k])]

LEMMA DigestsAre ==
    ASSUME NEW leaf, NEW p
    PROVE  /\ Trees!Recomputed(leaf, p) = Digests(leaf, p)[Len(p)]
           /\ Digests(leaf, p)[0] = leaf
           /\ \A k \in Nat : Digests(leaf, p)[k + 1] = Trees!Hashed(Digests(leaf, p)[k], p[k + 1])
<1> DEFINE c == <<"digest", p>>
           L == Digests(leaf, p)
<1>1. \A n, x : Step(c, n, x) = Trees!Hashed(x, p[n])
  BY DEF Step
<1>2. L = CHOOSE g : g = [k \in Nat |-> IF k = 0 THEN leaf ELSE Trees!Hashed(g[k - 1], p[k])]
  BY DEF Digests
<1>3. PICK f : Runs(c, leaf, Nat, f)
  BY RunsExist
<1>4. f = [k \in Nat |-> IF k = 0 THEN leaf ELSE Trees!Hashed(f[k - 1], p[k])]
  BY <1>1, <1>3, Zenon DEF Runs
<1>5. L = [k \in Nat |-> IF k = 0 THEN leaf ELSE Trees!Hashed(L[k - 1], p[k])]
  BY <1>2, <1>4
<1>6. Trees!Recomputed(leaf, p) = L[Len(p)]
  BY DEF Trees!Recomputed, Digests
<1> HIDE DEF L
<1>7. L[0] = leaf
  BY <1>5
<1>8. ASSUME NEW k \in Nat PROVE L[k + 1] = Trees!Hashed(L[k], p[k + 1])
  <2>1. k + 1 \in Nat /\ k + 1 # 0 /\ (k + 1) - 1 = k
    OBVIOUS
  <2> QED
    BY <1>5, <2>1
<1> QED
  BY <1>6, <1>7, <1>8 DEF L

-----------------------------------------------------------------------------
(* The tree over any leaves *)

\* A sequence of anything, as the levels are.
IsSeq(s) == \E D : s \in Seq(D)

\* A function on an initial segment is a sequence.
LEMMA SegmentIsSeq ==
    ASSUME NEW n \in Nat, NEW s, s = [i \in 1 .. n |-> s[i]]
    PROVE  IsSeq(s) /\ Len(s) = n
<1> DEFINE D == {s[i] : i \in 1 .. n}
<1>1. s \in [1 .. n -> D]
  <2>1. \A i \in 1 .. n : s[i] \in D
    OBVIOUS
  <2> QED
    BY <2>1, Zenon
<1>2. s \in Seq(D)
  BY <1>1
<1>3. Len(s) = n
  BY <1>1, <1>2
<1> QED
  BY <1>2, <1>3 DEF IsSeq

\* A level padded to an even length, and the level above.
LEMMA PadIs ==
    ASSUME NEW s, IsSeq(s), Len(s) >= 1
    PROVE  /\ Len(s) \in Nat
           /\ IsSeq(Trees!Pad(s))
           /\ Len(Trees!Pad(s)) = 2 * ((Len(s) + 1) \div 2)
           /\ \A i \in 1 .. Len(s) : Trees!Pad(s)[i] = s[i]
<1>1. PICK D : s \in Seq(D)
  BY DEF IsSeq
<1>2. Len(s) \in Nat
  BY <1>1
<1>3. CASE Len(s) % 2 = 1
  <2>1. Trees!Pad(s) = Append(s, s[Len(s)])
    BY <1>3 DEF Trees!Pad, Trees!Last
  <2>2. s[Len(s)] \in D
    BY <1>1, <1>2
  <2>3. Append(s, s[Len(s)]) \in Seq(D) /\ Len(Append(s, s[Len(s)])) = Len(s) + 1
    BY <1>1, <2>2
  <2>4. \A i \in 1 .. Len(s) : Append(s, s[Len(s)])[i] = s[i]
    BY <1>1, <2>2
  <2>5. Len(s) + 1 = 2 * ((Len(s) + 1) \div 2)
    BY <1>2, <1>3
  <2> QED
    BY <1>2, <2>1, <2>3, <2>4, <2>5 DEF IsSeq
<1>4. CASE Len(s) % 2 # 1
  <2>1. Trees!Pad(s) = s
    BY <1>4 DEF Trees!Pad
  <2>2. Len(s) = 2 * ((Len(s) + 1) \div 2)
    BY <1>2, <1>4
  <2> QED
    BY <1>2, <2>1, <2>2 DEF IsSeq
<1> QED
  BY <1>3, <1>4

LEMMA ParentsAre ==
    ASSUME NEW s, IsSeq(s), Len(s) >= 1
    PROVE  /\ IsSeq(Trees!Parents(s))
           /\ Len(Trees!Parents(s)) = (Len(s) + 1) \div 2
           /\ \A i \in 1 .. (Len(s) + 1) \div 2 :
                Trees!Parents(s)[i] = <<Trees!Pad(s)[2 * i - 1], Trees!Pad(s)[2 * i]>>
<1> DEFINE n == (Len(s) + 1) \div 2
           P == Trees!Parents(s)
<1>1. Len(s) \in Nat /\ Len(Trees!Pad(s)) = 2 * n
  BY PadIs
<1>2. n \in Nat /\ (2 * n) \div 2 = n
  BY <1>1
<1>3. P = [i \in 1 .. n |-> <<Trees!Pad(s)[2 * i - 1], Trees!Pad(s)[2 * i]>>]
  BY <1>1, <1>2 DEF Trees!Parents
<1> HIDE DEF P, n
<1>4. P = [i \in 1 .. n |-> P[i]]
  BY <1>3
<1>5. IsSeq(P) /\ Len(P) = n
  BY <1>2, <1>4, SegmentIsSeq
<1>6. \A i \in 1 .. n : P[i] = <<Trees!Pad(s)[2 * i - 1], Trees!Pad(s)[2 * i]>>
  BY <1>3
<1> QED
  BY <1>5, <1>6 DEF P, n
\* Every level is a sequence, half as long as the one below.
LEMMA LevelLengths ==
    ASSUME NEW leaves, IsSeq(leaves), Len(leaves) >= 1
    PROVE  \A h \in Nat : /\ IsSeq(Trees!Levels(leaves)[h])
                          /\ Len(Trees!Levels(leaves)[h]) \in Nat \ {0}
                          /\ Len(Trees!Levels(leaves)[h + 1])
                                = (Len(Trees!Levels(leaves)[h]) + 1) \div 2
<1> DEFINE L == Trees!Levels(leaves)
           Fine == {h \in Nat : IsSeq(L[h]) /\ Len(L[h]) \in Nat \ {0}}
<1>1. L[0] = leaves /\ \A h \in Nat : L[h + 1] = Trees!Parents(L[h])
  BY LevelsAre
<1> HIDE DEF L
<1>2. 0 \in Fine
  <2>1. Len(leaves) \in Nat
    BY PadIs
  <2> QED
    BY <1>1, <2>1
<1>3. ASSUME NEW h \in Nat, IsSeq(L[h]), Len(L[h]) \in Nat \ {0}
      PROVE  /\ IsSeq(L[h + 1]) /\ Len(L[h + 1]) = (Len(L[h]) + 1) \div 2
             /\ Len(L[h + 1]) \in Nat \ {0}
  <2>1. PICK n \in Nat \ {0} : n = Len(L[h])
    BY <1>3, Zenon
  <2>2. n >= 1 /\ (n + 1) \div 2 \in Nat \ {0}
    OBVIOUS
  <2>3. Len(L[h]) >= 1
    BY <2>1, <2>2, Zenon
  <2>4. IsSeq(Trees!Parents(L[h])) /\ Len(Trees!Parents(L[h])) = (Len(L[h]) + 1) \div 2
    BY <1>3, <2>3, ParentsAre, Zenon
  <2>5. L[h + 1] = Trees!Parents(L[h])
    BY <1>1, <1>3, Zenon
  <2> QED
    BY <2>1, <2>2, <2>4, <2>5, Zenon
<1>4. ASSUME NEW h \in Fine PROVE h + 1 \in Fine
  <2>1. h \in Nat /\ IsSeq(L[h]) /\ Len(L[h]) \in Nat \ {0}
    BY <1>4, Zenon
  <2>2. h + 1 \in Nat
    BY <2>1
  <2> QED
    BY <1>3, <2>1, <2>2, Zenon
<1>5. Fine = Nat
  <2>1. Fine \subseteq Nat
    OBVIOUS
  <2> HIDE DEF Fine
  <2> QED
    BY <1>2, <1>4, <2>1, Inductive
<1>6. \A h \in Nat : IsSeq(L[h]) /\ Len(L[h]) \in Nat \ {0}
  BY <1>5, Zenon
<1> QED
  BY <1>3, <1>6, Zenon DEF L

\* The tree has a root, on a level no higher than there are leaves.
LEMMA HeightIs ==
    ASSUME NEW leaves, IsSeq(leaves), Len(leaves) >= 1
    PROVE  /\ Trees!Height(leaves) \in Nat
           /\ Len(Trees!Levels(leaves)[Trees!Height(leaves)]) = 1
<1> DEFINE L == Trees!Levels(leaves)
           n == Len(leaves)
           Short == {h \in Nat : Len(L[h]) = 1 \/ Len(L[h]) + h <= n}
           Ends == {h \in 0 .. n : Len(L[h]) = 1}
<1>1. \A h \in Nat : /\ Len(L[h]) \in Nat \ {0}
                     /\ Len(L[h + 1]) = (Len(L[h]) + 1) \div 2
  BY LevelLengths
<1>2. L[0] = leaves
  BY LevelsAre
<1>3. Trees!Height(leaves) = CHOOSE h \in Ends : \A k \in Ends : h <= k
  BY Zenon DEF Trees!Height, Trees!Min
<1> HIDE DEF L
<1>4. n \in Nat
  BY <1>1, <1>2
<1>5. 0 \in Short
  BY <1>2, <1>4
<1>6. ASSUME NEW h \in Short PROVE h + 1 \in Short
  <2>1. PICK k \in Nat \ {0} : k = Len(L[h])
    BY <1>1
  <2>2. PICK m : m = n
    OBVIOUS
  <2>3. h \in Nat /\ m \in Nat /\ (k = 1 \/ k + h <= m)
    BY <1>4, <2>1, <2>2, Zenon
  <2>4. (k + 1) \div 2 = 1 \/ (k + 1) \div 2 + (h + 1) <= m
    BY <2>3
  <2>5. Len(L[h + 1]) = (k + 1) \div 2
    BY <1>1, <2>1, <2>3, Zenon
  <2>6. h + 1 \in Nat
    BY <2>3
  <2> QED
    BY <2>2, <2>4, <2>5, <2>6, Zenon
<1>7. Short = Nat
  <2>1. Short \subseteq Nat
    OBVIOUS
  <2> HIDE DEF Short
  <2> QED
    BY <1>5, <1>6, <2>1, Inductive
<1>8. n \in Ends
  <2>1. n \in Short
    BY <1>4, <1>7
  <2>2. PICK k \in Nat \ {0}, m \in Nat : k = Len(L[n]) /\ m = n
    BY <1>1, <1>4, Zenon
  <2>3. k = 1 \/ k + m <= m
    BY <2>1, <2>2, Zenon
  <2>4. k = 1 /\ m \in 0 .. m
    BY <2>3
  <2> QED
    BY <2>2, <2>4, Zenon
<1>9. PICK h \in Ends : \A k \in Ends : h <= k
  <2>1. Ends \subseteq Nat
    BY <1>4
  <2> HIDE DEF Ends
  <2> QED
    BY <1>8, <2>1, Least
<1>10. Trees!Height(leaves) \in Ends
  <2> HIDE DEF Ends
  <2> QED
    BY <1>3, <1>9, Zenon
<1> QED
  BY <1>4, <1>10 DEF L

\* A leaf's ancestor is a node of its level.
LEMMA AncestorInLevel ==
    ASSUME NEW leaves, IsSeq(leaves), Len(leaves) >= 1, NEW i \in 1 .. Len(leaves)
    PROVE  \A h \in Nat : Trees!Ancestors(i)[h] \in 1 .. Len(Trees!Levels(leaves)[h])
<1> DEFINE L == Trees!Levels(leaves)
           A == Trees!Ancestors(i)
           Inside == {h \in Nat : A[h] \in 1 .. Len(L[h])}
<1>1. \A h \in Nat : /\ Len(L[h]) \in Nat \ {0}
                     /\ Len(L[h + 1]) = (Len(L[h]) + 1) \div 2
  BY LevelLengths
<1>2. L[0] = leaves
  BY LevelsAre
<1>3. A[0] = i /\ \A h \in Nat : A[h + 1] = (A[h] + 1) \div 2
  BY AncestorsAre
<1> HIDE DEF L, A
<1>4. 0 \in Inside
  BY <1>2, <1>3
<1>5. ASSUME NEW h \in Inside PROVE h + 1 \in Inside
  <2>1. PICK k \in Nat \ {0} : k = Len(L[h])
    BY <1>1
  <2>2. h \in Nat /\ A[h] \in 1 .. k
    BY <2>1, Zenon
  <2>3. PICK a \in 1 .. k : a = A[h]
    BY <2>2
  <2>4. (a + 1) \div 2 \in 1 .. ((k + 1) \div 2) /\ h + 1 \in Nat
    BY <2>2
  <2>5. A[h + 1] = (a + 1) \div 2 /\ Len(L[h + 1]) = (k + 1) \div 2
    BY <1>1, <1>3, <2>1, <2>2, <2>3, Zenon
  <2> QED
    BY <2>4, <2>5, Zenon
<1>6. Inside = Nat
  <2>1. Inside \subseteq Nat
    OBVIOUS
  <2> HIDE DEF Inside
  <2> QED
    BY <1>4, <1>5, <2>1, Inductive
<1> QED
  BY <1>6 DEF L, A

\* A node hashed with its sibling is its parent.
LEMMA ParentOf ==
    ASSUME NEW s, IsSeq(s), Len(s) \in Nat \ {0}, NEW a \in 1 .. Len(s)
    PROVE  Trees!Hashed(s[a], Trees!Sibling(s, a)) = Trees!Parents(s)[(a + 1) \div 2]
<1> DEFINE P == Trees!Pad(s)
           b == (a + 1) \div 2
<1>1. P[a] = s[a]
  BY PadIs
<1>2. PICK n \in Nat \ {0} : n = Len(s)
  OBVIOUS
<1>3. b \in 1 .. (Len(s) + 1) \div 2
  <2>1. a \in 1 .. n
    BY <1>2
  <2>2. b \in 1 .. (n + 1) \div 2
    BY <2>1
  <2> QED
    BY <1>2, <2>2
<1>4. Trees!Parents(s)[b] = <<P[2 * b - 1], P[2 * b]>>
  BY <1>3, ParentsAre
<1> HIDE DEF P
<1>5. CASE a % 2 = 1
  <2>1. 2 * b - 1 = a /\ 2 * b = a + 1
    BY <1>5
  <2>2. Trees!Hashed(s[a], Trees!Sibling(s, a)) = <<s[a], P[a + 1]>>
    BY <1>5 DEF Trees!Hashed, Trees!Sibling, P
  <2> QED
    BY <1>1, <1>4, <2>1, <2>2
<1>6. CASE a % 2 # 1
  <2>1. 2 * b - 1 = a - 1 /\ 2 * b = a
    BY <1>6
  <2>2. Trees!Hashed(s[a], Trees!Sibling(s, a)) = <<P[a - 1], s[a]>>
    BY <1>6 DEF Trees!Hashed, Trees!Sibling, P
  <2> QED
    BY <1>1, <1>4, <2>1, <2>2
<1> QED
  BY <1>5, <1>6

\* A proof of any leaf of any tree recomputes its root (merkle.py, verify_proof).
THEOREM ProofRecomputesRoot ==
    ASSUME NEW leaves, IsSeq(leaves), Len(leaves) >= 1, NEW i \in 1 .. Len(leaves)
    PROVE  Trees!Recomputed(leaves[i], Trees!MerkleProof(leaves, i)) = Trees!MerkleRoot(leaves)
<1> DEFINE L == Trees!Levels(leaves)
           A == Trees!Ancestors(i)
           p == Trees!MerkleProof(leaves, i)
           H == Trees!Height(leaves)
           D == Digests(leaves[i], p)
           Right == {k \in Nat : k <= H => D[k] = L[k][A[k]]}
<1>1. H \in Nat /\ Len(L[H]) = 1
  BY HeightIs
<1>2. p = [h \in 1 .. H |-> Trees!Sibling(L[h - 1], A[h - 1])]
  BY DEF Trees!MerkleProof
<1>3. Trees!Recomputed(leaves[i], p) = D[Len(p)]
  BY DigestsAre, Zenon
<1>4. D[0] = leaves[i] /\ \A k \in Nat : D[k + 1] = Trees!Hashed(D[k], p[k + 1])
  <2> HIDE DEF p
  <2>1. PICK leaf : leaf = leaves[i]
    OBVIOUS
  <2>2. /\ Digests(leaf, p)[0] = leaf
        /\ \A k \in Nat : Digests(leaf, p)[k + 1] = Trees!Hashed(Digests(leaf, p)[k], p[k + 1])
    BY DigestsAre
  <2> QED
    BY <2>1, <2>2
<1>5. L[0] = leaves /\ \A h \in Nat : L[h + 1] = Trees!Parents(L[h])
  BY LevelsAre
<1>6. A[0] = i /\ \A h \in Nat : A[h + 1] = (A[h] + 1) \div 2
  BY AncestorsAre
<1>7. \A h \in Nat : IsSeq(L[h]) /\ Len(L[h]) \in Nat \ {0} /\ A[h] \in 1 .. Len(L[h])
  BY LevelLengths, AncestorInLevel
<1>8. Trees!MerkleRoot(leaves) = L[H][1]
  BY DEF Trees!MerkleRoot
<1> HIDE DEF L, A, p, H, D
<1>9. Len(p) = H
  BY <1>1, <1>2
<1>10. 0 \in Right
  BY <1>4, <1>5, <1>6
<1>11. ASSUME NEW k \in Right PROVE k + 1 \in Right
  <2>1. SUFFICES ASSUME k + 1 <= H PROVE D[k + 1] = L[k + 1][A[k + 1]]
    OBVIOUS
  <2>2. k \in Nat /\ k + 1 \in 1 .. H /\ (k + 1) - 1 = k
    BY <1>1, <2>1
  <2>3. D[k] = L[k][A[k]]
    BY <1>1, <2>1
  <2>4. p[k + 1] = Trees!Sibling(L[k], A[k])
    BY <1>2, <2>2
  <2>5. PICK s, a : s = L[k] /\ a = A[k]
    OBVIOUS
  <2>6. Trees!Hashed(s[a], Trees!Sibling(s, a)) = Trees!Parents(s)[(a + 1) \div 2]
    BY <1>7, <2>2, <2>5, ParentOf
  <2> QED
    BY <1>4, <1>5, <1>6, <2>2, <2>3, <2>4, <2>5, <2>6
<1>12. Right = Nat
  <2>1. Right \subseteq Nat
    OBVIOUS
  <2> HIDE DEF Right
  <2> QED
    BY <1>10, <1>11, <2>1, Inductive
<1>13. D[H] = L[H][A[H]] /\ A[H] = 1
  BY <1>1, <1>7, <1>12
<1> QED
  BY <1>3, <1>8, <1>9, <1>13 DEF p
\* Two sequences with the same length and elements are one.
LEMMA SameElements ==
    ASSUME NEW s, NEW t, IsSeq(s), IsSeq(t), Len(s) = Len(t),
           \A i \in 1 .. Len(s) : s[i] = t[i]
    PROVE  s = t
<1>1. PICK D : s \in Seq(D)
  BY DEF IsSeq
<1>2. PICK E : t \in Seq(E)
  BY DEF IsSeq
<1>3. s \in Seq(D \cup E) /\ t \in Seq(D \cup E)
  BY <1>1, <1>2
<1> QED
  BY <1>3, SeqEqual

\* Two levels as long as each other with the same level above are one.
LEMMA ParentsTellLevel ==
    ASSUME NEW s, NEW t, IsSeq(s), IsSeq(t), Len(s) = Len(t), Len(s) \in Nat \ {0},
           Trees!Parents(s) = Trees!Parents(t)
    PROVE  s = t
<1>1. PICK n \in Nat \ {0} : n = Len(s)
  OBVIOUS
<1>2. n >= 1 /\ Len(s) >= 1 /\ Len(t) >= 1
  BY <1>1
<1> DEFINE P == Trees!Pad(s)
           Q == Trees!Pad(t)
<1>3. \A i \in 1 .. n : P[i] = s[i] /\ Q[i] = t[i]
  BY <1>1, <1>2, PadIs, Zenon
<1>4. \A b \in 1 .. (n + 1) \div 2 : P[2 * b - 1] = Q[2 * b - 1] /\ P[2 * b] = Q[2 * b]
  <2>1. \A b \in 1 .. (n + 1) \div 2 : Trees!Parents(s)[b] = <<P[2 * b - 1], P[2 * b]>>
    BY <1>1, <1>2, ParentsAre, Zenon
  <2>2. \A b \in 1 .. (n + 1) \div 2 : Trees!Parents(t)[b] = <<Q[2 * b - 1], Q[2 * b]>>
    BY <1>1, <1>2, ParentsAre, Zenon
  <2>3. \A x, y, u, v : <<x, y>> = <<u, v>> => x = u /\ y = v
    OBVIOUS
  <2>4. ASSUME NEW c \in 1 .. (n + 1) \div 2
        PROVE  P[2 * c - 1] = Q[2 * c - 1] /\ P[2 * c] = Q[2 * c]
    <3>1. <<P[2 * c - 1], P[2 * c]>> = <<Q[2 * c - 1], Q[2 * c]>>
      BY <2>1, <2>2, Zenon
    <3> HIDE DEF P, Q
    <3> QED
      BY <2>3, <3>1, Zenon
  <2> QED
    BY <2>4, Zenon
<1> HIDE DEF P, Q
<1>5. ASSUME NEW i \in 1 .. n PROVE P[i] = Q[i]
  <2> DEFINE b == (i + 1) \div 2
  <2>1. i \in Nat /\ i >= 1 /\ i <= n
    BY <1>5
  <2>2. i = 2 * b - 1 \/ i = 2 * b
    BY <2>1
  <2>3. b \in 1 .. (n + 1) \div 2
    BY <2>1
  <2> HIDE DEF b
  <2> QED
    BY <1>4, <2>2, <2>3, Zenon
<1>6. \A i \in 1 .. Len(s) : s[i] = t[i]
  BY <1>1, <1>3, <1>5
<1> QED
  BY <1>6, SameElements, Zenon

\* The root tells the leaves, given their number: two trees with as many
\* leaves and the same root have the same leaves (keccak256 has no collision).
THEOREM RootTellsLeaves ==
    ASSUME NEW a, NEW b, IsSeq(a), IsSeq(b), Len(a) = Len(b), Len(a) >= 1,
           Trees!MerkleRoot(a) = Trees!MerkleRoot(b)
    PROVE  a = b
<1> DEFINE A == Trees!Levels(a)
           B == Trees!Levels(b)
           H == Trees!Height(a)
           Equal == {h \in Nat : Len(A[h]) = Len(B[h])}
           Down == {k \in Nat : k <= H => A[H - k] = B[H - k]}
<1>1. A[0] = a /\ \A h \in Nat : A[h + 1] = Trees!Parents(A[h])
  BY LevelsAre
<1>2. B[0] = b /\ \A h \in Nat : B[h + 1] = Trees!Parents(B[h])
  BY LevelsAre
<1>3. \A h \in Nat : /\ IsSeq(A[h]) /\ Len(A[h]) \in Nat \ {0}
                     /\ Len(A[h + 1]) = (Len(A[h]) + 1) \div 2
  BY LevelLengths, Zenon
<1>4. \A h \in Nat : /\ IsSeq(B[h]) /\ Len(B[h]) \in Nat \ {0}
                     /\ Len(B[h + 1]) = (Len(B[h]) + 1) \div 2
  <2>1. Len(b) >= 1
    OBVIOUS
  <2> QED
    BY <2>1, LevelLengths, Zenon
<1>5. H \in Nat /\ Len(A[H]) = 1
  BY HeightIs, Zenon
<1>6. Trees!MerkleRoot(a) = A[H][1] /\ Trees!MerkleRoot(b) = B[Trees!Height(b)][1]
  BY DEF Trees!MerkleRoot
<1>7. Trees!Height(a) = Trees!Min({h \in 0 .. Len(a) : Len(A[h]) = 1})
  BY DEF Trees!Height
<1>8. Trees!Height(b) = Trees!Min({h \in 0 .. Len(b) : Len(B[h]) = 1})
  BY DEF Trees!Height
<1> HIDE DEF A, B, H
<1>9. Equal = Nat
  <2>1. 0 \in Equal
    BY <1>1, <1>2
  <2>2. ASSUME NEW h \in Equal PROVE h + 1 \in Equal
    <3>1. h \in Nat /\ Len(A[h]) = Len(B[h])
      BY <2>2, Zenon
    <3>2. Len(A[h + 1]) = Len(B[h + 1])
      BY <1>3, <1>4, <3>1, Zenon
    <3>3. h + 1 \in Nat
      BY <3>1
    <3> QED
      BY <3>2, <3>3, Zenon
  <2>3. Equal \subseteq Nat
    OBVIOUS
  <2> HIDE DEF Equal
  <2> QED
    BY <2>1, <2>2, <2>3, Inductive
<1>10. \A h \in Nat : Len(A[h]) = Len(B[h])
  BY <1>9, Zenon
<1>11. Trees!Height(b) = H
  <2>1. Len(a) \in Nat
    BY <1>1, <1>3
  <2>2. \A h \in 0 .. Len(a) : h \in Nat
    BY <2>1
  <2>3. {h \in 0 .. Len(a) : Len(A[h]) = 1} = {h \in 0 .. Len(b) : Len(B[h]) = 1}
    BY <1>10, <2>2, Zenon
  <2> QED
    BY <1>7, <1>8, <2>3, Zenon DEF H
<1>12. A[H] = B[H]
  <2>1. A[H][1] = B[H][1]
    BY <1>6, <1>11, Zenon
  <2>2. \A i \in 1 .. 1 : i = 1
    OBVIOUS
  <2>3. \A i \in 1 .. Len(A[H]) : A[H][i] = B[H][i]
    BY <1>5, <2>1, <2>2, Zenon
  <2> QED
    BY <1>3, <1>4, <1>5, <1>10, <2>3, SameElements, Zenon
<1>13. 0 \in Down
  BY <1>5, <1>12
<1>14. ASSUME NEW k \in Down PROVE k + 1 \in Down
  <2>1. SUFFICES ASSUME k + 1 <= H PROVE A[H - (k + 1)] = B[H - (k + 1)]
    OBVIOUS
  <2>2. PICK h \in Nat : h = H - (k + 1) /\ h + 1 = H - k
    BY <1>5, <2>1
  <2>3. A[h + 1] = B[h + 1]
    BY <1>5, <2>1, <2>2
  <2>4. Trees!Parents(A[h]) = Trees!Parents(B[h])
    BY <1>1, <1>2, <2>3, Zenon
  <2> QED
    BY <1>3, <1>4, <1>10, <2>2, <2>4, ParentsTellLevel, Zenon
<1>15. Down = Nat
  <2>1. Down \subseteq Nat
    OBVIOUS
  <2> HIDE DEF Down
  <2> QED
    BY <1>13, <1>14, <2>1, Inductive
<1>16. A[H - H] = B[H - H]
  <2>1. \A k \in Nat : k <= H => A[H - k] = B[H - k]
    BY <1>15, Zenon
  <2>2. H <= H
    BY <1>5
  <2> QED
    BY <1>5, <2>1, <2>2, Zenon
<1>17. H - H = 0
  BY <1>5
<1> QED
  BY <1>1, <1>2, <1>16, <1>17, Zenon
-----------------------------------------------------------------------------
(* The order of the rows: created_at, then the id *)

Sortable(table, S) ==
    S \subseteq Nat /\ IsFiniteSet(S) /\ \A r \in S : table[r].at \in Nat

Rank(table, S, r) == Cardinality(Trees!Earlier(table, S, r))

\* The instance has a Cardinality of its own.
LEMMA SameCardinality == \A S : Trees!Cardinality(S) = Cardinality(S)
  BY DEF Trees!Cardinality, Cardinality

LEMMA BeforeIsOrder ==
    ASSUME NEW table, NEW S, Sortable(table, S), NEW r \in S, NEW s \in S, NEW t \in S
    PROVE  /\ ~Trees!Before(table, r, r)
           /\ Trees!Before(table, r, s) /\ Trees!Before(table, s, t) => Trees!Before(table, r, t)
           /\ r # s => Trees!Before(table, r, s) \/ Trees!Before(table, s, r)
<1>1. PICK a \in Nat, b \in Nat, c \in Nat :
        a = table[r].at /\ b = table[s].at /\ c = table[t].at
  BY DEF Sortable
<1>2. r \in Nat /\ s \in Nat /\ t \in Nat
  BY DEF Sortable
<1> QED
  BY <1>1, <1>2 DEF Trees!Before

LEMMA RankIs ==
    ASSUME NEW table, NEW S, Sortable(table, S), NEW r \in S
    PROVE  /\ IsFiniteSet(Trees!Earlier(table, S, r))
           /\ Cardinality(S) \in Nat
           /\ Rank(table, S, r) \in 0 .. (Cardinality(S) - 1)
<1> DEFINE E == Trees!Earlier(table, S, r)
<1>1. IsFiniteSet(S) /\ Cardinality(S) \in Nat
  BY FS_CardinalityType DEF Sortable
<1>2. IsFiniteSet(S \ {r}) /\ Cardinality(S \ {r}) = Cardinality(S) - 1
  BY <1>1, FS_RemoveElement
<1>3. ~Trees!Before(table, r, r)
  BY BeforeIsOrder
<1>4. E \in SUBSET (S \ {r})
  BY <1>3 DEF Trees!Earlier
<1> HIDE DEF E
<1>5. IsFiniteSet(E) /\ Cardinality(E) <= Cardinality(S) - 1
  BY <1>2, <1>4, FS_Subset
<1>6. Cardinality(E) \in Nat
  BY <1>5, FS_CardinalityType
<1>7. Rank(table, S, r) = Cardinality(E)
  BY DEF Rank, E
<1> QED
  BY <1>1, <1>5, <1>6, <1>7 DEF E

\* Of two rows the earlier has the lower rank.
LEMMA RankGrows ==
    ASSUME NEW table, NEW S, Sortable(table, S), NEW r \in S, NEW s \in S,
           Trees!Before(table, r, s)
    PROVE  Rank(table, S, r) < Rank(table, S, s)
<1> DEFINE E == Trees!Earlier(table, S, r)
           F == Trees!Earlier(table, S, s)
<1>1. IsFiniteSet(E) /\ IsFiniteSet(F)
  BY RankIs
<1>2. r \notin E
  BY BeforeIsOrder DEF Trees!Earlier
<1>3. E \cup {r} \in SUBSET F
  BY BeforeIsOrder DEF Trees!Earlier
<1>4. Rank(table, S, r) = Cardinality(E) /\ Rank(table, S, s) = Cardinality(F)
  BY DEF Rank
<1> HIDE DEF E, F
<1>5. Cardinality(E) \in Nat /\ Cardinality(F) \in Nat
  BY <1>1, FS_CardinalityType
<1>6. Cardinality(E \cup {r}) = Cardinality(E) + 1
  BY <1>1, <1>2, FS_AddElement
<1>7. Cardinality(E \cup {r}) <= Cardinality(F)
  BY <1>1, <1>3, FS_Subset
<1> QED
  BY <1>4, <1>5, <1>6, <1>7

LEMMA RanksDiffer ==
    ASSUME NEW table, NEW S, Sortable(table, S), NEW r \in S, NEW s \in S,
           Rank(table, S, r) = Rank(table, S, s)
    PROVE  r = s
<1>1. Rank(table, S, r) \in Int
  BY RankIs
<1>2. ASSUME r # s PROVE FALSE
  <2>1. Trees!Before(table, r, s) \/ Trees!Before(table, s, r)
    BY <1>2, BeforeIsOrder
  <2>2. Rank(table, S, r) < Rank(table, S, s) \/ Rank(table, S, s) < Rank(table, S, r)
    BY <2>1, RankGrows
  <2> QED
    BY <1>1, <2>2
<1> QED
  BY <1>2

\* The rows in their order: every row once, at the place its rank says.
LEMMA InOrderIs ==
    ASSUME NEW table, NEW S, Sortable(table, S)
    PROVE  LET order == Trees!InOrder(table, S)
           IN  /\ order \in [1 .. Cardinality(S) -> S]
               /\ \A i \in 1 .. Cardinality(S) : Rank(table, S, order[i]) = i - 1
               /\ \A r \in S : order[Rank(table, S, r) + 1] = r
<1> DEFINE n == Cardinality(S)
           place == [r \in S |-> Rank(table, S, r) + 1]
           order == Trees!InOrder(table, S)
<1>1. IsFiniteSet(S) /\ n \in Nat
  BY FS_CardinalityType DEF Sortable
<1>2. \A r \in S : Rank(table, S, r) \in 0 .. (n - 1)
  BY RankIs
<1> HIDE DEF n
<1>3. place \in [S -> 1 .. n]
  BY <1>1, <1>2
<1>4. place \in Injection(S, 1 .. n)
  <2>1. \A r, s \in S : place[r] = place[s] => r = s
    BY <1>2, RanksDiffer
  <2> QED
    BY <1>3, <2>1 DEF Injection, IsInjective
<1>5. IsFiniteSet(1 .. n) /\ Cardinality(1 .. n) = n
  BY <1>1, FS_Interval
<1>6. place \in Surjection(S, 1 .. n)
  <2>1. Cardinality(S) = Cardinality(1 .. n)
    BY <1>5 DEF n
  <2> QED
    BY <1>4, <1>5, <2>1, FS_Injection
<1>7. ASSUME NEW i \in 1 .. n PROVE \E r \in S : Rank(table, S, r) = i - 1
  <2>1. PICK r \in S : place[r] = i
    BY <1>6 DEF Surjection
  <2> QED
    BY <1>2, <2>1
<1> DEFINE size(r) == Trees!Cardinality(Trees!Earlier(table, S, r))
<1>8. order = [i \in 1 .. n |-> CHOOSE r \in S : size(r) = i - 1]
  <2>1. order = [i \in 1 .. Trees!Cardinality(S) |-> CHOOSE r \in S : size(r) = i - 1]
    BY DEF Trees!InOrder
  <2>2. Trees!Cardinality(S) = n
    BY SameCardinality DEF n
  <2> QED
    BY <2>1, <2>2, Zenon
<1>12. \A r : size(r) = Rank(table, S, r)
  BY SameCardinality DEF Rank
<1> HIDE DEF order, size
<1>9. \A i \in 1 .. n : order[i] \in S /\ Rank(table, S, order[i]) = i - 1
  BY <1>7, <1>8, <1>12
<1>10. order \in [1 .. n -> S]
  <2>1. order = [i \in 1 .. n |-> order[i]]
    BY <1>8
  <2> QED
    BY <1>9, <2>1
<1>11. ASSUME NEW r \in S PROVE order[Rank(table, S, r) + 1] = r
  <2>1. PICK k \in 0 .. (n - 1) : k = Rank(table, S, r)
    BY <1>2
  <2>2. k + 1 \in 1 .. n /\ (k + 1) - 1 = k
    BY <1>1, <2>1
  <2>3. order[k + 1] \in S /\ Rank(table, S, order[k + 1]) = k
    BY <1>9, <2>2
  <2> QED
    BY <2>1, <2>3, RanksDiffer
<1> QED
  BY <1>9, <1>10, <1>11 DEF order, n
\* The first k rows of an order are the rows, in order, of the set of them.
LEMMA PrefixInOrder ==
    ASSUME NEW table, NEW S, Sortable(table, S), NEW k \in 0 .. Cardinality(S)
    PROVE  LET first == SubSeq(Trees!InOrder(table, S), 1, k)
               B == Trees!ToSet(first)
           IN  /\ B \subseteq S
               /\ Sortable(table, B)
               /\ Cardinality(B) = k
               /\ Trees!InOrder(table, B) = first
<1> DEFINE n == Cardinality(S)
           order == Trees!InOrder(table, S)
           first == SubSeq(order, 1, k)
           B == Trees!ToSet(first)
<1>1. n \in Nat
  BY FS_CardinalityType DEF Sortable
<1>2. /\ order \in [1 .. n -> S]
      /\ \A i \in 1 .. n : Rank(table, S, order[i]) = i - 1
      /\ \A r \in S : order[Rank(table, S, r) + 1] = r
  BY InOrderIs
<1>3. \A r \in S : Rank(table, S, r) \in 0 .. (n - 1)
  BY RankIs
<1> HIDE DEF n, order
<1>4. k \in Nat /\ k <= n
  BY <1>1 DEF n
<1>5. first = [i \in 1 .. k |-> order[i]]
  BY <1>1, <1>2, <1>4
<1>6. B = {order[i] : i \in 1 .. k}
  BY <1>5 DEF Trees!ToSet
<1> HIDE DEF first, B
<1>7. B \subseteq S
  BY <1>1, <1>2, <1>4, <1>6
<1>8. Sortable(table, B)
  BY <1>7, FS_Subset DEF Sortable
<1>9. Cardinality(B) = k
  <2>1. first \in [1 .. k -> B]
    BY <1>5, <1>6
  <2>2. first \in Surjection(1 .. k, B)
    BY <1>5, <1>6, <2>1 DEF Surjection
  <2>3. \A i, j \in 1 .. k : first[i] = first[j] => i = j
    <3>1. SUFFICES ASSUME NEW i \in 1 .. k, NEW j \in 1 .. k, order[i] = order[j]
                   PROVE  i = j
      BY <1>5
    <3>2. i \in 1 .. n /\ j \in 1 .. n
      BY <1>1, <1>4
    <3>3. i - 1 = j - 1
      BY <1>2, <3>1, <3>2
    <3> QED
      BY <3>3
  <2>4. first \in Injection(1 .. k, B)
    BY <2>1, <2>3 DEF Injection, IsInjective
  <2>5. ExistsBijection(1 .. k, B)
    BY <2>2, <2>4 DEF ExistsBijection, Bijection
  <2> QED
    BY <1>4, <2>5, FS_CountingElements
<1>10. ASSUME NEW i \in 1 .. k PROVE Rank(table, B, order[i]) = i - 1
  <2>1. i \in 1 .. n /\ order[i] \in S
    BY <1>1, <1>2, <1>4
  <2>2. ASSUME NEW s \in S, Trees!Before(table, s, order[i]) PROVE s \in B
    <3>1. PICK j \in 0 .. (n - 1) : j = Rank(table, S, s)
      BY <1>3
    <3>2. j < i - 1
      BY <1>2, <2>1, <2>2, <3>1, RankGrows
    <3>3. j + 1 \in 1 .. k /\ order[j + 1] = s
      BY <1>1, <1>2, <1>4, <3>1, <3>2
    <3> QED
      BY <1>6, <3>3
  <2>3. Trees!Earlier(table, B, order[i]) = Trees!Earlier(table, S, order[i])
    BY <1>7, <2>2 DEF Trees!Earlier
  <2> QED
    BY <1>2, <2>1, <2>3 DEF Rank
<1>11. Trees!InOrder(table, B) = first
  <2> DEFINE own == Trees!InOrder(table, B)
  <2>1. /\ own \in [1 .. k -> B]
        /\ \A r \in B : own[Rank(table, B, r) + 1] = r
    BY <1>8, <1>9, InOrderIs
  <2> HIDE DEF own
  <2>2. ASSUME NEW i \in 1 .. k PROVE own[i] = order[i]
    <3>1. order[i] \in B
      BY <1>6
    <3>2. own[(i - 1) + 1] = order[i]
      BY <1>10, <2>1, <3>1
    <3>3. (i - 1) + 1 = i
      OBVIOUS
    <3> QED
      BY <3>2, <3>3
  <2>3. own = first
    BY <1>5, <2>1, <2>2
  <2> QED
    BY <2>3 DEF own
<1> QED
  BY <1>7, <1>8, <1>9, <1>11 DEF first, B, order
\* The order looks at created_at alone.
LEMMA SameOrder ==
    ASSUME NEW table, NEW other, NEW S, Sortable(table, S),
           \A r \in S : other[r].at = table[r].at
    PROVE  Sortable(other, S) /\ Trees!InOrder(other, S) = Trees!InOrder(table, S)
<1> DEFINE n == Cardinality(S)
           order == Trees!InOrder(table, S)
           own == Trees!InOrder(other, S)
<1>1. n \in Nat
  BY FS_CardinalityType DEF Sortable
<1>2. Sortable(other, S)
  BY DEF Sortable
<1>3. \A r \in S : Rank(other, S, r) = Rank(table, S, r)
  <2>1. ASSUME NEW r \in S, NEW s \in S
        PROVE  Trees!Before(other, s, r) <=> Trees!Before(table, s, r)
    BY DEF Trees!Before
  <2>2. \A r \in S : Trees!Earlier(other, S, r) = Trees!Earlier(table, S, r)
    BY <2>1 DEF Trees!Earlier
  <2> QED
    BY <2>2 DEF Rank
<1>4. /\ order \in [1 .. n -> S]
      /\ \A i \in 1 .. n : Rank(table, S, order[i]) = i - 1
  BY InOrderIs
<1>5. own \in [1 .. n -> S] /\ \A r \in S : own[Rank(other, S, r) + 1] = r
  BY <1>2, InOrderIs
<1> HIDE DEF n, order, own
<1>6. ASSUME NEW i \in 1 .. n PROVE own[i] = order[i]
  <2>1. order[i] \in S
    BY <1>4
  <2>2. own[Rank(table, S, order[i]) + 1] = order[i]
    BY <1>3, <1>5, <2>1
  <2>3. Rank(table, S, order[i]) = i - 1
    BY <1>4
  <2>4. (i - 1) + 1 = i
    BY <1>1
  <2> QED
    BY <2>2, <2>3, <2>4
<1>7. own = order
  <2>1. order = [i \in 1 .. n |-> order[i]]
    BY <1>4
  <2>2. own = [i \in 1 .. n |-> own[i]]
    BY <1>5
  <2> QED
    BY <1>6, <2>1, <2>2, Zenon
<1> QED
  BY <1>2, <1>7 DEF own, order

\* The leaves of a set of rows, and where a row's leaf is.
LEMMA LeavesAre ==
    ASSUME NEW table, NEW S, Sortable(table, S),
           NEW order, order = Trees!InOrder(table, S),
           NEW leaves, leaves = Trees!Leaves(table, order)
    PROVE  /\ IsSeq(leaves) /\ Len(leaves) = Cardinality(S)
           /\ DOMAIN leaves = 1 .. Cardinality(S)
           /\ \A i \in 1 .. Cardinality(S) : leaves[i] = table[order[i]].hash
           /\ \A r \in S : \E i \in 1 .. Cardinality(S) : order[i] = r
<1> DEFINE n == Cardinality(S)
<1>1. n \in Nat
  BY FS_CardinalityType DEF Sortable
<1>2. order \in [1 .. n -> S] /\ \A r \in S : order[Rank(table, S, r) + 1] = r
  BY InOrderIs
<1>3. \A r \in S : Rank(table, S, r) \in 0 .. (n - 1)
  BY RankIs
<1> HIDE DEF n
<1>4. leaves = [i \in 1 .. n |-> table[order[i]].hash]
  BY <1>2 DEF Trees!Leaves
<1>5. leaves = [i \in 1 .. n |-> leaves[i]]
  BY <1>4
<1>6. IsSeq(leaves) /\ Len(leaves) = n
  BY <1>1, <1>5, SegmentIsSeq
<1>7. DOMAIN leaves = 1 .. n /\ \A i \in 1 .. n : leaves[i] = table[order[i]].hash
  BY <1>4
<1>8. ASSUME NEW r \in S PROVE \E i \in 1 .. n : order[i] = r
  <2>1. Rank(table, S, r) + 1 \in 1 .. n
    BY <1>1, <1>3
  <2> QED
    BY <1>2, <2>1
<1> QED
  BY <1>6, <1>7, <1>8 DEF n

-----------------------------------------------------------------------------
(* The rows, their batches and the recorded roots *)

Row == [at : Times, hash : Hashes]
Batch(marks, b) == {r \in LeafIds : marks[r] = b}
RootOf(table, S) == Trees!MerkleRoot(Trees!Leaves(table, Trees!InOrder(table, S)))

TreesType ==
    /\ treeRows \in [LeafIds -> Row \cup {Null}]
    /\ IsFiniteSet(Trees!Written)
    /\ IsSeq(treeRoots)
    /\ treeBatch \in [LeafIds -> 0 .. Len(treeRoots)]
    /\ \A r \in LeafIds : treeBatch[r] # 0 => r \in Trees!Written

\* The root recorded for a batch is that of the rows that carry its id, in the
\* order in which the gateway reads them.
RootsOfTheirRows ==
    \A r \in LeafIds : treeBatch[r] # 0 =>
        treeRoots[treeBatch[r]] = RootOf(treeRows, Batch(treeBatch, treeBatch[r]))

TreesInv == TreesType /\ RootsOfTheirRows

\* A step of the trail is, seen through the variables of the trees, one of theirs.
LEMMA TreesStep == [TrailNext]_trailVars => [Trees!Next]_trees
  BY DEF TrailNext, trailVars, trees

LEMMA WrittenSortable ==
    ASSUME TreesType, NEW S, S \subseteq Trees!Written
    PROVE  Sortable(treeRows, S) /\ \A r \in S : r \in LeafIds /\ treeRows[r] \in Row
<1>1. \A r \in S : r \in LeafIds /\ treeRows[r] \in Row
  BY DEF TreesType, Trees!Written
<1>2. LeafIds \subseteq Nat /\ Times \subseteq Nat
  BY TreeConstants DEF Trees!TreeConstants
<1>3. \A r \in S : treeRows[r].at \in Nat
  BY <1>1, <1>2 DEF Row
<1>4. IsFiniteSet(S)
  BY FS_Subset DEF TreesType
<1> QED
  BY <1>1, <1>2, <1>3, <1>4 DEF Sortable

LEMMA TreesInit == Trees!Init => TreesInv
<1> SUFFICES ASSUME Trees!Init PROVE TreesInv
  OBVIOUS
<1>1. treeRows = [r \in LeafIds |-> Null] /\ treeBatch = [r \in LeafIds |-> 0] /\ treeRoots = <<>>
  BY DEF Trees!Init
<1>2. Trees!Written = {}
  BY <1>1 DEF Trees!Written
<1>3. IsSeq(treeRoots) /\ Len(treeRoots) = 0
  <2>1. treeRoots \in Seq({}) /\ Len(treeRoots) = 0
    BY <1>1
  <2> QED
    BY <2>1 DEF IsSeq
<1>4. TreesType
  BY <1>1, <1>2, <1>3, FS_EmptySet DEF TreesType
<1>5. RootsOfTheirRows
  BY <1>1 DEF RootsOfTheirRows
<1> QED
  BY <1>4, <1>5 DEF TreesInv
\* The root looks at the rows of the set alone.
LEMMA SameRoot ==
    ASSUME NEW table, NEW other, NEW S, Sortable(table, S), \A r \in S : other[r] = table[r]
    PROVE  RootOf(other, S) = RootOf(table, S)
<1>1. PICK order : order = Trees!InOrder(table, S)
  OBVIOUS
<1>2. Trees!InOrder(other, S) = order
  BY <1>1, SameOrder
<1>3. order \in [1 .. Cardinality(S) -> S]
  BY <1>1, InOrderIs
<1>4. \A i \in DOMAIN order : other[order[i]] = table[order[i]]
  BY <1>3
<1>5. Trees!Leaves(other, order) = Trees!Leaves(table, order)
  BY <1>4 DEF Trees!Leaves
<1> QED
  BY <1>1, <1>2, <1>5 DEF RootOf

\* A row is written: no batch has it, and none is touched.
LEMMA WriteKeepsTrees ==
    ASSUME TreesInv, NEW w \in LeafIds, NEW at \in Times, NEW hash \in Hashes,
           Trees!Write(w, at, hash)
    PROVE  TreesInv'
<1>1. /\ treeRows[w] = Null
      /\ treeRows' = [treeRows EXCEPT ![w] = [at |-> at, hash |-> hash]]
      /\ treeBatch' = treeBatch /\ treeRoots' = treeRoots
  BY DEF Trees!Write
<1>2. TreesType /\ RootsOfTheirRows
  BY DEF TreesInv
<1>3. TreesType'
  <2>1. treeRows' \in [LeafIds -> Row \cup {Null}]
    BY <1>1, <1>2 DEF TreesType, Row
  <2>2. Trees!Written' \in SUBSET (Trees!Written \cup {w})
    BY <1>1, <1>2 DEF TreesType, Trees!Written
  <2>3. IsFiniteSet(Trees!Written \cup {w})
    BY <1>2, FS_AddElement DEF TreesType
  <2>4. IsFiniteSet(Trees!Written')
    BY <2>2, <2>3, FS_Subset
  <2>5. \A r \in LeafIds : treeBatch'[r] # 0 => r \in Trees!Written'
    BY <1>1, <1>2 DEF TreesType, Trees!Written
  <2> QED
    BY <1>1, <1>2, <2>1, <2>4, <2>5 DEF TreesType
<1>4. ASSUME NEW r \in LeafIds, treeBatch[r] # 0
      PROVE  treeRoots[treeBatch[r]] = RootOf(treeRows', Batch(treeBatch, treeBatch[r]))
  <2> DEFINE S == Batch(treeBatch, treeBatch[r])
  <2>1. S \subseteq Trees!Written /\ w \notin S
    BY <1>1, <1>2, <1>4 DEF TreesType, Trees!Written, Batch
  <2>2. \A q \in S : treeRows'[q] = treeRows[q]
    BY <1>1, <1>2, <2>1 DEF TreesType, Batch
  <2>3. Sortable(treeRows, S)
    BY <1>2, <2>1, WrittenSortable
  <2>4. treeRoots[treeBatch[r]] = RootOf(treeRows, S)
    BY <1>2, <1>4 DEF RootsOfTheirRows
  <2> HIDE DEF S
  <2>5. RootOf(treeRows', S) = RootOf(treeRows, S)
    BY <2>2, <2>3, SameRoot
  <2> QED
    BY <2>4, <2>5 DEF S
<1>5. RootsOfTheirRows'
  BY <1>1, <1>4 DEF RootsOfTheirRows
<1> QED
  BY <1>3, <1>5 DEF TreesInv
\* The oldest rows that are pending make the next batch.
LEMMA LoadedIs ==
    ASSUME TreesType, Trees!Pending # {}
    PROVE  LET B == Trees!ToSet(Trees!LoadPending)
           IN  /\ B \subseteq Trees!Pending
               /\ Trees!InOrder(treeRows, B) = Trees!LoadPending
<1> DEFINE S == Trees!Pending
           order == Trees!InOrder(treeRows, S)
           n == Cardinality(S)
           k == IF n < TreeSize THEN n ELSE TreeSize
<1>1. S \subseteq Trees!Written
  BY DEF Trees!Pending
<1>2. Sortable(treeRows, S)
  BY <1>1, WrittenSortable
<1>3. n \in Nat
  BY <1>2, FS_CardinalityType DEF Sortable
<1>4. order \in [1 .. n -> S]
  BY <1>2, InOrderIs
<1>5. Len(order) = n
  <2> HIDE DEF order, n, S
  <2> QED
    BY <1>3, <1>4
<1>6. TreeSize \in Nat
  BY TreeConstants DEF Trees!TreeConstants
<1>7. k \in 0 .. n
  <2> HIDE DEF n
  <2> QED
    BY <1>3, <1>6
<1>8. Trees!LoadPending = SubSeq(order, 1, k)
  <2>1. Trees!LoadPending
          = SubSeq(order, 1, IF Len(order) < TreeSize THEN Len(order) ELSE TreeSize)
    BY DEF Trees!LoadPending
  <2> HIDE DEF order, n
  <2> QED
    BY <1>5, <2>1, Zenon
<1> HIDE DEF S, k
<1> QED
  BY <1>2, <1>7, <1>8, PrefixInOrder, Zenon DEF S

\* A batch is anchored: its rows are those its root is of, and the others keep theirs.
LEMMA AnchorKeepsTrees ==
    ASSUME TreesInv, Trees!Anchor
    PROVE  TreesInv'
<1> DEFINE order == Trees!LoadPending
           B == Trees!ToSet(order)
           id == Len(treeRoots) + 1
           root == Trees!MerkleRoot(Trees!Leaves(treeRows, order))
<1>1. TreesType /\ RootsOfTheirRows
  BY DEF TreesInv
<1>2. /\ Trees!Pending # {}
      /\ treeRoots' = Append(treeRoots, root)
      /\ treeBatch' = [r \in LeafIds |-> IF r \in B THEN Len(treeRoots') ELSE treeBatch[r]]
      /\ treeRows' = treeRows
  BY DEF Trees!Anchor
<1>3. B \subseteq Trees!Pending /\ Trees!InOrder(treeRows, B) = order
  BY <1>1, <1>2, LoadedIs, Zenon
<1>4. root = RootOf(treeRows, B)
  BY <1>3, Zenon DEF RootOf
<1> HIDE DEF order, root
<1>5. /\ IsSeq(treeRoots') /\ Len(treeRoots) \in Nat
      /\ Len(treeRoots') = id /\ treeRoots'[id] = root
      /\ \A b \in 1 .. Len(treeRoots) : treeRoots'[b] = treeRoots[b]
  <2>1. PICK D : treeRoots \in Seq(D)
    BY <1>1 DEF TreesType, IsSeq
  <2>2. treeRoots \in Seq(D \cup {root}) /\ root \in D \cup {root}
    BY <2>1
  <2>3. treeRoots' \in Seq(D \cup {root})
    BY <1>2, <2>2
  <2> QED
    BY <1>2, <2>2, <2>3 DEF IsSeq
<1>6. \A r \in B : r \in Trees!Written /\ r \in LeafIds /\ treeBatch[r] = 0
  BY <1>3 DEF Trees!Pending, Trees!Written
<1> HIDE DEF B
<1>7. treeBatch' = [r \in LeafIds |-> IF r \in B THEN id ELSE treeBatch[r]]
  BY <1>2, <1>5
<1>8. Trees!Written' = Trees!Written
  BY <1>2 DEF Trees!Written
<1>9. \A r \in LeafIds : treeBatch[r] \in 0 .. Len(treeRoots)
  BY <1>1 DEF TreesType
<1>10. TreesType'
  <2>1. treeBatch' \in [LeafIds -> 0 .. Len(treeRoots')]
    BY <1>5, <1>7, <1>9
  <2>2. \A r \in LeafIds : treeBatch'[r] # 0 => r \in Trees!Written'
    BY <1>1, <1>6, <1>7, <1>8 DEF TreesType
  <2> QED
    BY <1>1, <1>2, <1>5, <1>8, <2>1, <2>2 DEF TreesType
<1>11. ASSUME NEW r \in LeafIds, treeBatch'[r] # 0
       PROVE  treeRoots'[treeBatch'[r]] = RootOf(treeRows, Batch(treeBatch', treeBatch'[r]))
  <2>1. CASE r \in B
    <3>1. treeBatch'[r] = id
      BY <1>7, <2>1
    <3>2. Batch(treeBatch', id) = B
      BY <1>5, <1>6, <1>7, <1>9 DEF Batch
    <3> QED
      BY <1>4, <1>5, <3>1, <3>2, Zenon
  <2>2. CASE r \notin B
    <3>1. treeBatch'[r] = treeBatch[r] /\ treeBatch[r] \in 1 .. Len(treeRoots)
      BY <1>5, <1>7, <1>9, <1>11, <2>2
    <3>2. Batch(treeBatch', treeBatch[r]) = Batch(treeBatch, treeBatch[r])
      BY <1>5, <1>6, <1>7, <3>1 DEF Batch
    <3>3. treeRoots[treeBatch[r]] = RootOf(treeRows, Batch(treeBatch, treeBatch[r]))
      BY <1>1, <1>11, <3>1 DEF RootsOfTheirRows
    <3> QED
      BY <1>5, <3>1, <3>2, <3>3, Zenon
  <2> QED
    BY <2>1, <2>2
<1>12. RootsOfTheirRows'
  BY <1>2, <1>11 DEF RootsOfTheirRows
<1> QED
  BY <1>10, <1>12 DEF TreesInv

\* In every reachable state the root of a batch is that of the rows marked with it.
THEOREM TreesInvariant == TrailSpec => []TreesInv
<1>1. TrailInit => TreesInv
  BY TreesInit DEF TrailInit
<1>2. TreesInv /\ [Trees!Next]_trees => TreesInv'
  <2> SUFFICES ASSUME TreesInv, [Trees!Next]_trees PROVE TreesInv'
    OBVIOUS
  <2>1. CASE UNCHANGED trees
    <3>1. treeRows' = treeRows /\ treeBatch' = treeBatch /\ treeRoots' = treeRoots
      BY <2>1 DEF trees
    <3> QED
      BY <3>1 DEF TreesInv, TreesType, RootsOfTheirRows, Trees!Written
  <2>2. CASE \E r \in LeafIds, at \in Times, hash \in Hashes : Trees!Write(r, at, hash)
    BY <2>2, WriteKeepsTrees
  <2>3. CASE Trees!Anchor
    BY <2>3, AnchorKeepsTrees
  <2> QED
    BY <2>1, <2>2, <2>3 DEF Trees!Next
<1> QED
  BY <1>1, <1>2, TreesStep, PTL DEF TrailSpec

-----------------------------------------------------------------------------
(* What the gateway answers *)

\* From any table with the rows' dates, the proof of a row recomputes the root of
\* that table's rows of the batch.
LEMMA ProofOfAnyTable ==
    ASSUME TreesInv, NEW r \in Trees!Anchored, NEW table,
           \A q \in Batch(treeBatch, treeBatch[r]) : table[q].at = treeRows[q].at
    PROVE  /\ Sortable(treeRows, Batch(treeBatch, treeBatch[r]))
           /\ Trees!Recomputed(table[r].hash, Trees!ProofOf(table, r))
                = RootOf(table, Batch(treeBatch, treeBatch[r]))
<1> DEFINE S == Batch(treeBatch, treeBatch[r])
           order == Trees!InOrder(table, S)
           leaves == Trees!Leaves(table, order)
           Own == {i \in DOMAIN leaves : leaves[i] = table[r].hash}
<1>1. r \in LeafIds /\ treeBatch[r] # 0 /\ r \in S
  BY DEF Trees!Anchored, Batch
<1>2. S \subseteq Trees!Written
  BY <1>1 DEF TreesInv, TreesType, Batch
<1>3. Sortable(treeRows, S)
  BY <1>2, WrittenSortable DEF TreesInv
<1>4. Sortable(table, S)
  <2> HIDE DEF S
  <2>1. \A q \in S : table[q].at = treeRows[q].at
    BY DEF S
  <2> QED
    BY <1>3, <2>1, SameOrder
<1>5. Trees!Siblings(table, treeBatch[r]) = order
  BY DEF Trees!Siblings, Batch
<1>6. Trees!ProofOf(table, r) = Trees!MerkleProof(leaves, Trees!Min(Own))
  BY <1>5, Zenon DEF Trees!ProofOf
<1>7. RootOf(table, S) = Trees!MerkleRoot(leaves)
  BY DEF RootOf
<1> HIDE DEF S
<1>8. /\ IsSeq(leaves) /\ Len(leaves) = Cardinality(S)
      /\ DOMAIN leaves = 1 .. Cardinality(S)
      /\ \A i \in 1 .. Cardinality(S) : leaves[i] = table[order[i]].hash
      /\ \A q \in S : \E i \in 1 .. Cardinality(S) : order[i] = q
  BY <1>4, LeavesAre
<1> HIDE DEF order, leaves
<1>9. Cardinality(S) \in Nat
  BY <1>4, FS_CardinalityType DEF Sortable
<1>10. Own # {} /\ Own \subseteq Nat
  <2>1. PICK i \in 1 .. Cardinality(S) : order[i] = r
    BY <1>1, <1>8
  <2>2. i \in Own
    BY <1>8, <2>1
  <2> QED
    BY <1>8, <1>9, <2>2
<1>11. Trees!Min(Own) \in Own
  <2> HIDE DEF Own
  <2>1. PICK i \in Own : \A j \in Own : i <= j
    BY <1>10, Least
  <2> QED
    BY <2>1, Zenon DEF Trees!Min
<1>12. PICK i \in 1 .. Len(leaves) : i = Trees!Min(Own) /\ leaves[i] = table[r].hash
  BY <1>8, <1>11
<1>13. Len(leaves) >= 1
  BY <1>8, <1>9, <1>12
<1>14. Trees!Recomputed(leaves[i], Trees!MerkleProof(leaves, i)) = Trees!MerkleRoot(leaves)
  BY <1>8, <1>13, ProofRecomputesRoot
<1> QED
  BY <1>3, <1>6, <1>7, <1>12, <1>14 DEF S

\* The proof of every anchored record verifies (audit.py, record_proof).
THEOREM EveryProofVerifiesHolds == TrailSpec => []EveryProofVerifies
<1>1. TreesInv => EveryProofVerifies
  <2> SUFFICES ASSUME TreesInv, NEW r \in Trees!Anchored PROVE Trees!Verified(treeRows, r)
    BY DEF EveryProofVerifies, Trees!EveryProofVerifies
  <2>1. Trees!Recomputed(treeRows[r].hash, Trees!ProofOf(treeRows, r))
          = RootOf(treeRows, Batch(treeBatch, treeBatch[r]))
    BY ProofOfAnyTable
  <2>2. r \in LeafIds /\ treeBatch[r] # 0
    BY DEF Trees!Anchored
  <2>3. treeRoots[treeBatch[r]] = RootOf(treeRows, Batch(treeBatch, treeBatch[r]))
    BY <2>2 DEF TreesInv, RootsOfTheirRows
  <2> QED
    BY <2>1, <2>3 DEF Trees!Verified
<1> QED
  BY <1>1, TreesInvariant, PTL

\* No anchored hash can be changed without every proof of its batch failing
\* (FR-AUDIT-01 tamper detection).
THEOREM TamperEvidentHolds == TrailSpec => []TamperEvident
<1>1. TreesInv => TamperEvident
  <2> SUFFICES ASSUME TreesInv, NEW r \in Trees!Anchored,
                      NEW hash \in Hashes \ {treeRows[r].hash},
                      NEW s \in Trees!Anchored, treeBatch[s] = treeBatch[r],
                      Trees!Verified([treeRows EXCEPT ![r].hash = hash], s)
               PROVE  FALSE
    BY DEF TamperEvident, Trees!TamperEvident
  <2> DEFINE table == [treeRows EXCEPT ![r].hash = hash]
             S == Batch(treeBatch, treeBatch[s])
             order == Trees!InOrder(treeRows, S)
             old == Trees!Leaves(treeRows, order)
             new == Trees!Leaves(table, order)
  <2>1. r \in LeafIds /\ s \in LeafIds /\ r \in S /\ treeBatch[s] # 0
    BY DEF Trees!Anchored, Batch
  <2>2. S \subseteq Trees!Written /\ \A q \in S : q \in LeafIds
    BY <2>1 DEF TreesInv, TreesType, Batch
  <2>3. \A q \in S : treeRows[q] \in Row
    BY <2>2, WrittenSortable DEF TreesInv
  <2>4. table[r].hash = hash /\ \A q \in S : table[q].at = treeRows[q].at
    <3>1. table = [treeRows EXCEPT ![r] = [treeRows[r] EXCEPT !.hash = hash]]
      OBVIOUS
    <3>2. treeRows \in [LeafIds -> Row \cup {Null}]
      BY DEF TreesInv, TreesType
    <3> QED
      BY <2>1, <2>2, <2>3, <3>1, <3>2 DEF Row
  <2> HIDE DEF table
  <2>5. /\ Sortable(treeRows, S)
        /\ Trees!Recomputed(table[s].hash, Trees!ProofOf(table, s)) = RootOf(table, S)
    BY <2>4, ProofOfAnyTable, Zenon
  <2>6. RootOf(table, S) = RootOf(treeRows, S)
    <3>1. treeRoots[treeBatch[s]] = RootOf(treeRows, S)
      BY <2>1 DEF TreesInv, RootsOfTheirRows
    <3>2. Trees!Recomputed(table[s].hash, Trees!ProofOf(table, s)) = treeRoots[treeBatch[s]]
      BY DEF Trees!Verified, table
    <3> QED
      BY <2>5, <3>1, <3>2
  <2> HIDE DEF S
  <2>7. Sortable(table, S) /\ Trees!InOrder(table, S) = order
    BY <2>4, <2>5, SameOrder
  <2>8. Trees!MerkleRoot(new) = Trees!MerkleRoot(old)
    BY <2>6, <2>7, Zenon DEF RootOf
  <2>9. /\ IsSeq(old) /\ Len(old) = Cardinality(S)
        /\ \A i \in 1 .. Cardinality(S) : old[i] = treeRows[order[i]].hash
        /\ \A q \in S : \E i \in 1 .. Cardinality(S) : order[i] = q
    BY <2>5, LeavesAre
  <2>10. /\ IsSeq(new) /\ Len(new) = Cardinality(S)
         /\ \A i \in 1 .. Cardinality(S) : new[i] = table[order[i]].hash
    BY <2>7, LeavesAre
  <2> HIDE DEF old, new, order
  <2>11. PICK i \in 1 .. Cardinality(S) : order[i] = r
    BY <2>1, <2>9
  <2>12. Cardinality(S) \in Nat /\ Cardinality(S) >= 1
    BY <2>5, <2>11, FS_CardinalityType DEF Sortable
  <2>13. new = old
    BY <2>8, <2>9, <2>10, <2>12, RootTellsLeaves
  <2> QED
    BY <2>4, <2>9, <2>10, <2>11, <2>13
<1> QED
  BY <1>1, TreesInvariant, PTL
=============================================================================
