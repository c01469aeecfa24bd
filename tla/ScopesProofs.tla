---------------------------- MODULE ScopesProofs ----------------------------
(***************************************************************************)
(* The overlap test is conservative for globs and paths of any length and  *)
(* of any mix of wildcards.                                                *)
(***************************************************************************)
EXTENDS Scopes, WellFoundedInduction, SequenceTheorems, TLAPS

(* What stands in for induction on the length of a prefix: a least           *)
(* counterexample, and the greatest of bounded numbers.                      *)
LEMMA Least ==
  ASSUME NEW T \in SUBSET Nat, T # {}
  PROVE  \E n \in T : \A m \in T : n <= m
<1> DEFINE R == {ss \in Nat \X Nat : ss[1] < ss[2]}
<1>1. IsWellFoundedOn(R, Nat)
  BY NatLessThanWellFounded DEF OpToRel
<1>2. PICK n \in T : \A m \in T : ~ (<<m, n>> \in R)
  BY <1>1, WFMin
<1>3. \A m \in T : ~ (m < n)
  BY <1>2
<1>4. \A m \in T : n <= m
  BY <1>3
<1> QED
  BY <1>4

LEMMA Greatest ==
  ASSUME NEW bound \in Nat, NEW T \in SUBSET (0..bound), T # {}
  PROVE  \E n \in T : \A m \in T : m <= n
<1> DEFINE D == {d \in Nat : bound - d \in T}
<1>1. PICK t \in T : TRUE
  OBVIOUS
<1>2. bound - t \in D
  BY <1>1
<1>3. PICK d \in D : \A e \in D : d <= e
  BY <1>2, Least
<1>4. ASSUME NEW m \in T  PROVE m <= bound - d
  <2>1. bound - m \in D
    BY <1>4
  <2>2. d <= bound - m
    BY <1>3, <2>1
  <2> QED
    BY <1>3, <2>2
<1> QED
  BY <1>3, <1>4

(* The literal prefix of a glob, by its length *)
LEMMA PrefixIsLiteral ==
  ASSUME NEW glob \in Seq(Symbols)
  PROVE  \E m \in 0..Len(glob) :
           /\ GlobPrefix(glob) = SubSeq(glob, 1, m)
           /\ \A j \in 1..m : glob[j] \in PathSymbols
<1> DEFINE literal == {i \in 0..Len(glob) : \A j \in 1..i : glob[j] \notin Wildcards}
           m == CHOOSE i \in literal : \A j \in literal : j <= i
<1>1. Len(glob) \in Nat /\ glob \in [1..Len(glob) -> Symbols]
  BY LenProperties
<1>2. 0 \in literal
  BY <1>1
<1>3. \E i \in literal : \A j \in literal : j <= i
  BY <1>1, <1>2, Greatest
<1>4. m \in literal
  BY <1>3
<1>5. GlobPrefix(glob) = SubSeq(glob, 1, m)
  BY DEF GlobPrefix
<1>6. \A j \in 1..m : glob[j] \in PathSymbols
  <2>1. m \in 0..Len(glob) /\ \A j \in 1..m : glob[j] \notin Wildcards
    BY <1>4
  <2> HIDE DEF m
  <2> QED
    BY <1>1, <2>1 DEF Symbols
<1> QED
  BY <1>4, <1>5, <1>6

(* A path that a glob covers starts with the glob's literal prefix: no      *)
(* wildcard has had a piece to stretch before it.                           *)
LEMMA CoveredStartsWithPrefix ==
  ASSUME NEW glob \in Seq(Symbols), NEW path \in Seq(PathSymbols), Matches(glob, path),
         NEW m \in 0..Len(glob), \A j \in 1..m : glob[j] \in PathSymbols
  PROVE  \A i \in 1..m : i <= Len(path) /\ path[i] = glob[i]
<1>1. PICK ends \in [DOMAIN glob -> 0..Len(path)] :
        \A i \in DOMAIN glob : Takes(glob, path, ends, i)
  BY DEF Matches
<1>2. Len(glob) \in Nat /\ DOMAIN glob = 1..Len(glob) /\ Len(path) \in Nat
  BY LenProperties
<1>3. ASSUME NEW i \in 1..m
      PROVE  ends[i] = Start(ends, i) + 1 /\ path[ends[i]] = glob[i]
  <2>1. i \in DOMAIN glob /\ glob[i] \notin Wildcards /\ (i > 1 => glob[i - 1] \notin Wildcards)
    <3>1. \A j \in 1..m : glob[j] \notin Wildcards
      BY DEF PathSymbols, Wildcards
    <3> QED
      BY <1>2, <3>1
  <2>2. Takes(glob, path, ends, i)
    BY <1>1, <2>1
  <2>3. ends[i] = Start(ends, i) + 1 /\ path[ends[i]] \in Class(glob[i])
    BY <2>1, <2>2 DEF Takes, Wildcards
  <2>4. Class(glob[i]) = {glob[i]}
    BY <2>1 DEF Class, Wildcards
  <2> QED
    BY <2>3, <2>4
<1>4. \A i \in 1..m : ends[i] = i
  <2> DEFINE T == {i \in 1..m : ends[i] # i}
  <2> SUFFICES ASSUME T # {} PROVE FALSE
    OBVIOUS
  <2>1. T \in SUBSET Nat
    OBVIOUS
  <2>2. PICK i \in T : \A j \in T : i <= j
    BY <2>1, Least
  <2>3. CASE i = 1
    BY <1>3, <2>2, <2>3 DEF Start
  <2>4. CASE i # 1
    <3>1. i - 1 \in 1..m /\ i - 1 \notin T
      BY <2>2, <2>4
    <3>2. ends[i - 1] = i - 1
      BY <3>1
    <3> QED
      BY <1>3, <2>2, <2>4, <3>2 DEF Start
  <2> QED
    BY <2>3, <2>4
<1>5. ASSUME NEW i \in 1..m
      PROVE  i <= Len(path) /\ path[i] = glob[i]
  <2>1. ends[i] \in 0..Len(path)
    BY <1>1, <1>2
  <2> QED
    BY <1>2, <1>3, <1>4, <2>1
<1> QED
  BY <1>5

LEMMA CasefoldIs ==
  ASSUME NEW s \in Seq(Symbols)
  PROVE  /\ Casefold(s) \in Seq(Symbols) /\ Len(Casefold(s)) = Len(s) /\ Len(s) \in Nat
         /\ \A i \in 1..Len(s) : Casefold(s)[i] = IF s[i] = "A" THEN "a" ELSE s[i]
<1>1. Len(s) \in Nat /\ DOMAIN s = 1..Len(s) /\ s \in [1..Len(s) -> Symbols]
  BY LenProperties
<1>2. Casefold(s) \in [1..Len(s) -> Symbols]
  BY <1>1 DEF Casefold, Symbols, PathSymbols
<1>3. Casefold(s) \in Seq(Symbols) /\ Len(Casefold(s)) = Len(s)
  BY <1>1, <1>2
<1> QED
  BY <1>1, <1>3 DEF Casefold

(* Two literal prefixes that agree, but for case, lie one in the other. *)
LEMMA PrefixesNest ==
  ASSUME NEW s \in Seq(Symbols), NEW t \in Seq(Symbols), Len(s) <= Len(t),
         \A i \in 1..Len(s) : Casefold(s)[i] = Casefold(t)[i]
  PROVE  IsPrefix(Casefold(s), Casefold(t))
<1> DEFINE cs == Casefold(s)
           ct == Casefold(t)
           n == Len(s)
<1>1. /\ cs \in Seq(Symbols) /\ ct \in Seq(Symbols) /\ n \in Nat /\ Len(t) \in Nat
      /\ Len(cs) = n /\ Len(ct) = Len(t)
  BY CasefoldIs
<1>2. \A i \in 1..n : cs[i] = ct[i]
  OBVIOUS
<1> HIDE DEF cs, ct
<1>3. \A i \in 1..n : cs[i] \in Symbols /\ ct[i] \in Symbols
  BY <1>1, <1>2, LenProperties
<1> HIDE DEF n
<1>4. /\ SubSeq(cs, 1, n) \in Seq(Symbols) /\ Len(SubSeq(cs, 1, n)) = n
      /\ \A i \in 1..n : SubSeq(cs, 1, n)[i] = cs[i]
  BY <1>1, <1>3, SubSeqProperties
<1>5. /\ SubSeq(ct, 1, n) \in Seq(Symbols) /\ Len(SubSeq(ct, 1, n)) = n
      /\ \A i \in 1..n : SubSeq(ct, 1, n)[i] = ct[i]
  BY <1>1, <1>3, SubSeqProperties
<1>6. SubSeq(cs, 1, n) = SubSeq(ct, 1, n)
  BY <1>2, <1>4, <1>5, SeqEqual
<1>7. Len(cs) <= Len(ct)
  BY <1>1 DEF n
<1> QED
  BY <1>1, <1>6, <1>7 DEF IsPrefix, cs, ct

(* Scopes that cover one file, however long and however a checkout spells it, *)
(* overlap: whatever pair scopes_overlap() lets pass can meet on no file.     *)
THEOREM OverlapsNeverMissed ==
  ASSUME NEW a \in Seq(Symbols), NEW b \in Seq(Symbols),
         NEW p \in Seq(PathSymbols), NEW q \in Seq(PathSymbols),
         Casefold(p) = Casefold(q), Matches(a, p), Matches(b, q)
  PROVE  ScopesOverlap(a, b)
<1>1. PICK m \in 0..Len(a) :
        /\ GlobPrefix(a) = SubSeq(a, 1, m)
        /\ \A j \in 1..m : a[j] \in PathSymbols
  BY PrefixIsLiteral
<1>2. PICK n \in 0..Len(b) :
        /\ GlobPrefix(b) = SubSeq(b, 1, n)
        /\ \A j \in 1..n : b[j] \in PathSymbols
  BY PrefixIsLiteral
<1>3. Len(a) \in Nat /\ Len(b) \in Nat
      /\ (\A i \in 1..Len(a) : a[i] \in Symbols) /\ (\A i \in 1..Len(b) : b[i] \in Symbols)
  BY LenProperties
<1> DEFINE s == SubSeq(a, 1, m)
           t == SubSeq(b, 1, n)
<1>4. s \in Seq(Symbols) /\ Len(s) = m /\ \A i \in 1..m : s[i] = a[i]
  BY <1>1, <1>3, SubSeqProperties
<1>5. t \in Seq(Symbols) /\ Len(t) = n /\ \A i \in 1..n : t[i] = b[i]
  BY <1>2, <1>3, SubSeqProperties
<1>6. p \in Seq(Symbols) /\ q \in Seq(Symbols)
  BY DEF Symbols
<1>7. \A i \in 1..m : i <= Len(p) /\ p[i] = a[i]
  BY <1>1, CoveredStartsWithPrefix
<1>8. \A i \in 1..n : i <= Len(q) /\ q[i] = b[i]
  BY <1>2, CoveredStartsWithPrefix
<1> HIDE DEF s, t
<1>9. \A i \in 1..m : i <= n => Casefold(s)[i] = Casefold(t)[i]
  <2> SUFFICES ASSUME NEW i \in 1..m, i <= n
               PROVE  Casefold(s)[i] = Casefold(t)[i]
    OBVIOUS
  <2>1. i \in 1..n /\ i \in 1..Len(p) /\ i \in 1..Len(q)
    BY <1>6, <1>7, <1>8, CasefoldIs
  <2>2. Casefold(s)[i] = Casefold(p)[i]
    BY <1>4, <1>6, <1>7, <2>1, CasefoldIs
  <2>3. Casefold(t)[i] = Casefold(q)[i]
    BY <1>5, <1>6, <1>8, <2>1, CasefoldIs
  <2> QED
    BY <2>2, <2>3
<1>10. CASE m <= n
  <2>1. \A i \in 1..Len(s) : Casefold(s)[i] = Casefold(t)[i]
    BY <1>4, <1>9, <1>10
  <2> QED
    BY <1>1, <1>2, <1>4, <1>5, <1>10, <2>1, PrefixesNest DEF ScopesOverlap, s, t
<1>11. CASE n <= m
  <2>1. \A i \in 1..Len(t) : Casefold(t)[i] = Casefold(s)[i]
    BY <1>5, <1>9, <1>11
  <2> QED
    BY <1>1, <1>2, <1>4, <1>5, <1>11, <2>1, PrefixesNest DEF ScopesOverlap, s, t
<1> QED
  BY <1>10, <1>11

(* In particular for the globs and paths of any bound *)
THEOREM OverlapConservative == OverlapIsConservative
<1> SUFFICES ASSUME NEW c \in Covering, NEW d \in Covering, c[2] = d[2]
             PROVE  ScopesOverlap(c[1], d[1])
  BY DEF OverlapIsConservative
<1>1. BoundedGlobs \subseteq Seq(Symbols) /\ BoundedPaths \subseteq Seq(PathSymbols)
  BY DEF BoundedGlobs, BoundedPaths, BoundedSeq, SeqOf
<1>2. \A e \in Covering : e[1] \in Seq(Symbols)
        /\ \E p \in Seq(PathSymbols) : e[2] = Casefold(p) /\ Matches(e[1], p)
  BY <1>1 DEF Covering
<1> QED
  BY <1>2, OverlapsNeverMissed
=============================================================================
