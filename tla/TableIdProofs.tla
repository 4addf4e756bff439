---------------------------- MODULE TableIdProofs ----------------------------
(***************************************************************************)
(* The parser of table identifiers and the grammar of TableIds agree, for  *)
(* texts of every length: lemmas for ClientCallsProofs.  The grammar is    *)
(* first restated in positions: the text s is cut at its dots a and b.     *)
(***************************************************************************)
EXTENDS TableIds, SequenceTheorems, NaturalsInduction, WellFoundedInduction, TLAPS

-----------------------------------------------------------------------------
(* Least and greatest positions.                                           *)

\* A set of naturals has a least element.
LEMMA LeastNatural ==
    ASSUME NEW T \in SUBSET Nat, T # {}
    PROVE  \E x \in T : \A y \in T : x <= y
<1> DEFINE R == OpToRel(<, Nat)
<1>1. IsWellFoundedOn(R, Nat)
  BY NatLessThanWellFounded
<1>2. \A x, y \in Nat : <<y, x>> \in R <=> y < x
  BY DEF OpToRel
<1> HIDE DEF R
<1>3. PICK x \in T : \A y \in T : ~(<<y, x>> \in R)
  BY <1>1, WFMin
<1>4. x \in Nat /\ \A y \in T : y \in Nat /\ ~(y < x)
  BY <1>2, <1>3
<1> QED
  BY <1>3, <1>4

LEMMA MinIs ==
    ASSUME NEW T \in SUBSET Nat, T # {}
    PROVE  Min(T) \in T /\ \A y \in T : Min(T) <= y
<1>1. \E x \in T : \A y \in T : x <= y
  BY LeastNatural
<1> QED
  BY <1>1 DEF Min

LEMMA MaxIs ==
    ASSUME NEW n \in Nat, NEW T \in SUBSET (1 .. n), T # {}
    PROVE  Max(T) \in T /\ \A y \in T : Max(T) >= y
<1> DEFINE U == {i \in 0 .. n : n - i \in T}
<1>1. U \in SUBSET Nat
  OBVIOUS
<1>2. U # {}
  <2>1. PICK y \in T : TRUE
    OBVIOUS
  <2>2. n - y \in U
    BY <2>1
  <2> QED
    BY <2>2
<1>3. PICK x \in U : \A y \in U : x <= y
  BY <1>1, <1>2, LeastNatural
<1>4. n - x \in T /\ \A y \in T : n - x >= y
  <2>1. n - x \in T /\ x \in 0 .. n
    OBVIOUS
  <2>2. ASSUME NEW y \in T PROVE n - x >= y
    <3>1. n - y \in U
      OBVIOUS
    <3>2. x <= n - y
      BY <1>3, <3>1
    <3> QED
      BY <2>1, <3>2
  <2> QED
    BY <2>1, <2>2
<1> QED
  BY <1>4 DEF Max

\* What EndOf returns, and that nothing else is like it.
EndsAt(s, from, stop, e) ==
    /\ e \in from .. Len(s) + 1
    /\ e <= Len(s) => s[e] \in stop
    /\ \A i \in from .. e - 1 : s[i] \notin stop

LEMMA EndOfIs ==
    ASSUME NEW s \in Seq(Chars), NEW from \in 1 .. Len(s) + 1, NEW stop
    PROVE  EndsAt(s, from, stop, EndOf(s, from, stop))
<1> DEFINE T == {i \in from .. Len(s) : s[i] \in stop} \cup {Len(s) + 1}
<1>0. Len(s) \in Nat
  BY LenProperties
<1>1. T \in SUBSET Nat /\ T # {}
  BY <1>0
<1>2. Min(T) \in T /\ \A y \in T : Min(T) <= y
  BY <1>1, MinIs
<1>3. PICK e : e = Min(T)
  OBVIOUS
<1>4. e \in T /\ \A y \in T : e <= y
  BY <1>2, <1>3
<1>5. e \in from .. Len(s) + 1 /\ (e <= Len(s) => s[e] \in stop)
  BY <1>0, <1>4
<1>6. \A i \in from .. e - 1 : s[i] \notin stop
  BY <1>0, <1>4, <1>5
<1> QED
  BY <1>3, <1>5, <1>6 DEF EndsAt, EndOf

LEMMA EndIsUnique ==
    ASSUME NEW s \in Seq(Chars), NEW from \in 1 .. Len(s) + 1, NEW stop,
           NEW e, EndsAt(s, from, stop, e), NEW d, EndsAt(s, from, stop, d)
    PROVE  e = d
<1>0. Len(s) \in Nat /\ e \in Int /\ d \in Int
  BY LenProperties DEF EndsAt
<1>1. ~(e < d) /\ ~(d < e)
  BY <1>0 DEF EndsAt
<1> QED
  BY <1>0, <1>1

-----------------------------------------------------------------------------
(* The grammar in positions.                                               *)

\* The parts of s around positions a and b.
Pieces(s, a, b) ==
    NewTableId(SubSeq(s, 1, a - 1), SubSeq(s, a + 1, b - 1), SubSeq(s, b + 1, Len(s)))

ProjectCut(s, a) ==
    \E k \in 0 .. a - 2 :
        /\ k > 0 => k > 1 /\ s[k] = ":" /\ \A i \in 1 .. k - 1 : s[i] # ":"
        /\ \A i \in k + 1 .. a - 1 : s[i] # ":" /\ s[i] # "."

DatasetCut(s, a, b) ==
    /\ a + 2 <= b /\ s[a + 1] # "." /\ s[b - 1] # "."
    /\ \A i \in a + 1 .. b - 2 : ~(s[i] = "." /\ s[i + 1] = ".")

TableCut(s, b) == b < Len(s) /\ \A i \in b + 1 .. Len(s) : s[i] # "."

\* No tick, no slash, and colons only with one in the project.
PlainCut(s, a) ==
    /\ \A i \in 1 .. Len(s) : s[i] # "tick" /\ s[i] # "/"
    /\ (\E i \in 1 .. Len(s) : s[i] = ":") => \E i \in 1 .. a - 1 : s[i] = ":"

Cut(s, a, b) ==
    /\ a \in 1 .. Len(s) /\ b \in 1 .. Len(s) /\ s[a] = "." /\ s[b] = "."
    /\ ProjectCut(s, a) /\ DatasetCut(s, a, b) /\ TableCut(s, b) /\ PlainCut(s, a)

\* A part of a text.
LEMMA PartOf ==
    ASSUME NEW s \in Seq(Chars), NEW m \in 1 .. Len(s) + 1, NEW n \in 0 .. Len(s)
    PROVE  /\ SubSeq(s, m, n) \in Seq(Chars)
           /\ Len(SubSeq(s, m, n)) = IF m <= n THEN n - m + 1 ELSE 0
           /\ \A i \in 1 .. n - m + 1 : SubSeq(s, m, n)[i] = s[m + i - 1]
           /\ SubSeq(s, m, n) = <<>> <=> n < m
           /\ \A c : Contains(SubSeq(s, m, n), c) <=> \E i \in m .. n : s[i] = c
<1>0. Len(s) \in Nat /\ m \in Int /\ n \in Int
  BY LenProperties
<1>1. \A i \in m .. n : s[i] \in Chars
  BY <1>0, ElementOfSeq
<1>2. /\ SubSeq(s, m, n) \in Seq(Chars)
      /\ Len(SubSeq(s, m, n)) = IF m <= n THEN n - m + 1 ELSE 0
      /\ \A i \in 1 .. n - m + 1 : SubSeq(s, m, n)[i] = s[m + i - 1]
  BY <1>0, <1>1, SubSeqProperties
<1>3. SubSeq(s, m, n) = <<>> <=> n < m
  <2>1. n < m => SubSeq(s, m, n) = <<>>
    BY <1>0, SubSeqEmpty
  <2>2. SubSeq(s, m, n) = <<>> => Len(SubSeq(s, m, n)) = 0
    BY EmptySeq
  <2> QED
    BY <1>0, <1>2, <2>1, <2>2
<1>4. PICK t : t = SubSeq(s, m, n)
  OBVIOUS
<1>5. ASSUME NEW c PROVE Contains(t, c) <=> \E i \in m .. n : s[i] = c
  <2>1. ASSUME NEW i \in 1 .. Len(t), t[i] = c PROVE \E k \in m .. n : s[k] = c
    <3>1. m <= n /\ i \in 1 .. n - m + 1
      BY <1>0, <1>2, <1>4
    <3>2. m + i - 1 \in m .. n /\ s[m + i - 1] = c
      BY <1>0, <1>2, <1>4, <2>1, <3>1
    <3> QED
      BY <3>2
  <2>2. ASSUME NEW k \in m .. n, s[k] = c PROVE \E i \in 1 .. Len(t) : t[i] = c
    <3>1. k - m + 1 \in 1 .. n - m + 1 /\ Len(t) = n - m + 1 /\ m + (k - m + 1) - 1 = k
      BY <1>0, <1>2, <1>4
    <3>2. t[k - m + 1] = s[k]
      BY <1>2, <1>4, <3>1
    <3> QED
      BY <2>2, <3>1, <3>2
  <2> QED
    BY <2>1, <2>2 DEF Contains
<1> QED
  BY <1>2, <1>3, <1>4, <1>5

LEMMA ProjectIs ==
    ASSUME NEW s \in Seq(Chars), NEW a \in 1 .. Len(s)
    PROVE  IsProject(SubSeq(s, 1, a - 1)) <=> ProjectCut(s, a)
<1>0. Len(s) \in Nat /\ a \in Nat /\ a - 1 \in 0 .. Len(s)
  BY LenProperties
<1>1. PICK p : p = SubSeq(s, 1, a - 1)
  OBVIOUS
<1>2. p \in Seq(Chars) /\ Len(p) = a - 1 /\ \A i \in 1 .. a - 1 : p[i] = s[i]
  <2>1. /\ SubSeq(s, 1, a - 1) \in Seq(Chars)
        /\ Len(SubSeq(s, 1, a - 1)) = IF 1 <= a - 1 THEN (a - 1) - 1 + 1 ELSE 0
        /\ \A i \in 1 .. (a - 1) - 1 + 1 : SubSeq(s, 1, a - 1)[i] = s[1 + i - 1]
    BY <1>0, PartOf
  <2>2. \A i \in 1 .. a - 1 : 1 + i - 1 = i /\ i \in 1 .. (a - 1) - 1 + 1
    BY <1>0
  <2> QED
    BY <1>0, <1>1, <2>1, <2>2
<1>3. ASSUME NEW k \in 0 .. a - 1
      PROVE  /\ Contains(SubSeq(p, 1, k - 1), ":") <=> \E i \in 1 .. k - 1 : s[i] = ":"
             /\ SubSeq(p, k + 1, Len(p)) # <<>> <=> k <= a - 2
             /\ \A c : Contains(SubSeq(p, k + 1, Len(p)), c) <=> \E i \in k + 1 .. a - 1 : s[i] = c
  <2>1. ASSUME k > 0 PROVE Contains(SubSeq(p, 1, k - 1), ":") <=> \E i \in 1 .. k - 1 : p[i] = ":"
    <3>1. 1 \in 1 .. Len(p) + 1 /\ k - 1 \in 0 .. Len(p)
      BY <1>0, <1>2, <2>1
    <3> QED
      BY <1>2, <3>1, PartOf
  <2>2. k = 0 => ~Contains(SubSeq(p, 1, k - 1), ":")
    <3>1. k = 0 => SubSeq(p, 1, k - 1) = <<>>
      BY <1>0, SubSeqEmpty
    <3>2. ~Contains(<<>>, ":")
      BY EmptySeq DEF Contains
    <3> QED
      BY <3>1, <3>2
  <2>3. /\ SubSeq(p, k + 1, Len(p)) = <<>> <=> Len(p) < k + 1
        /\ \A c : Contains(SubSeq(p, k + 1, Len(p)), c) <=> \E i \in k + 1 .. Len(p) : p[i] = c
    <3>1. k + 1 \in 1 .. Len(p) + 1 /\ Len(p) \in 0 .. Len(p)
      BY <1>0, <1>2
    <3> QED
      BY <1>2, <3>1, PartOf
  <2>4. \A i \in 1 .. k - 1 : p[i] = s[i]
    BY <1>0, <1>2
  <2>5. \A i \in k + 1 .. a - 1 : p[i] = s[i]
    BY <1>0, <1>2
  <2>6. k = 0 => ~\E i \in 1 .. k - 1 : s[i] = ":"
    OBVIOUS
  <2>7. Contains(SubSeq(p, 1, k - 1), ":") <=> \E i \in 1 .. k - 1 : s[i] = ":"
    <3>1. k = 0 \/ k > 0
      BY <1>0
    <3> QED
      BY <2>1, <2>2, <2>4, <2>6, <3>1
  <2>8. SubSeq(p, k + 1, Len(p)) # <<>> <=> k <= a - 2
    BY <1>0, <1>2, <2>3
  <2>9. \A c : Contains(SubSeq(p, k + 1, Len(p)), c) <=> \E i \in k + 1 .. a - 1 : s[i] = c
    BY <1>2, <2>3, <2>5
  <2> QED
    BY <2>7, <2>8, <2>9
<1>4. ASSUME IsProject(p) PROVE ProjectCut(s, a)
  <2>1. PICK k \in 0 .. a - 1 :
            /\ k > 0 => k > 1 /\ p[k] = ":" /\ ~Contains(SubSeq(p, 1, k - 1), ":")
            /\ SubSeq(p, k + 1, Len(p)) # <<>>
            /\ ~Contains(SubSeq(p, k + 1, Len(p)), ":") /\ ~Contains(SubSeq(p, k + 1, Len(p)), ".")
    BY <1>2, <1>4 DEF IsProject
  <2>2. k \in 0 .. a - 2 /\ (k > 0 => p[k] = s[k])
    BY <1>0, <1>2, <1>3, <2>1
  <2>3. k > 0 => k > 1 /\ s[k] = ":" /\ \A i \in 1 .. k - 1 : s[i] # ":"
    BY <1>3, <2>1, <2>2
  <2>4. \A i \in k + 1 .. a - 1 : s[i] # ":" /\ s[i] # "."
    BY <1>3, <2>1
  <2> QED
    BY <2>2, <2>3, <2>4 DEF ProjectCut
<1>5. ASSUME ProjectCut(s, a) PROVE IsProject(p)
  <2>1. PICK k \in 0 .. a - 2 :
            /\ k > 0 => k > 1 /\ s[k] = ":" /\ \A i \in 1 .. k - 1 : s[i] # ":"
            /\ \A i \in k + 1 .. a - 1 : s[i] # ":" /\ s[i] # "."
    BY <1>5 DEF ProjectCut
  <2>2. k \in 0 .. Len(p) /\ k \in 0 .. a - 1 /\ (k > 0 => p[k] = s[k])
    BY <1>0, <1>2, <2>1
  <2>3. k > 0 => k > 1 /\ p[k] = ":" /\ ~Contains(SubSeq(p, 1, k - 1), ":")
    BY <1>3, <2>1, <2>2
  <2>4. /\ SubSeq(p, k + 1, Len(p)) # <<>>
        /\ ~Contains(SubSeq(p, k + 1, Len(p)), ":") /\ ~Contains(SubSeq(p, k + 1, Len(p)), ".")
    BY <1>0, <1>3, <2>1, <2>2
  <2> QED
    BY <2>2, <2>3, <2>4 DEF IsProject
<1> QED
  BY <1>1, <1>4, <1>5

LEMMA DatasetIs ==
    ASSUME NEW s \in Seq(Chars), NEW a \in 1 .. Len(s), NEW b \in 1 .. Len(s), a < b
    PROVE  IsDataset(SubSeq(s, a + 1, b - 1)) <=> DatasetCut(s, a, b)
<1>0. Len(s) \in Nat /\ a \in Nat /\ b \in Nat /\ a + 1 \in 1 .. Len(s) + 1 /\ b - 1 \in 0 .. Len(s)
  BY LenProperties
<1>1. PICK d : d = SubSeq(s, a + 1, b - 1)
  OBVIOUS
<1>2. /\ Len(d) = b - a - 1 /\ (d = <<>> <=> b - 1 < a + 1)
      /\ \A i \in 1 .. b - a - 1 : d[i] = s[a + i]
  <2>1. /\ Len(SubSeq(s, a + 1, b - 1)) = IF a + 1 <= b - 1 THEN (b - 1) - (a + 1) + 1 ELSE 0
        /\ \A i \in 1 .. (b - 1) - (a + 1) + 1 : SubSeq(s, a + 1, b - 1)[i] = s[(a + 1) + i - 1]
        /\ SubSeq(s, a + 1, b - 1) = <<>> <=> b - 1 < a + 1
    BY <1>0, PartOf
  <2>2. \A i \in 1 .. b - a - 1 : (a + 1) + i - 1 = a + i /\ i \in 1 .. (b - 1) - (a + 1) + 1
    BY <1>0
  <2>3. \A i \in 1 .. b - a - 1 : d[i] = s[a + i]
    BY <1>1, <2>1, <2>2
  <2>4. Len(d) = b - a - 1
    BY <1>0, <1>1, <2>1
  <2> QED
    BY <1>1, <2>1, <2>3, <2>4
<1>3. CASE b < a + 2
  BY <1>0, <1>1, <1>2, <1>3 DEF IsDataset, DatasetCut
<1>4. CASE a + 2 <= b
  <2>1. d # <<>> /\ d[1] = s[a + 1] /\ d[Len(d)] = s[b - 1]
    <3>1. 1 \in 1 .. b - a - 1 /\ b - a - 1 \in 1 .. b - a - 1 /\ a + (b - a - 1) = b - 1
      BY <1>0, <1>4
    <3> QED
      BY <1>0, <1>2, <1>4, <3>1
  <2>2. (\A i \in 1 .. Len(d) - 1 : ~(d[i] = "." /\ d[i + 1] = "."))
            <=> \A i \in a + 1 .. b - 2 : ~(s[i] = "." /\ s[i + 1] = ".")
    <3>1. ASSUME \A i \in 1 .. Len(d) - 1 : ~(d[i] = "." /\ d[i + 1] = "."), NEW k \in a + 1 .. b - 2
          PROVE  ~(s[k] = "." /\ s[k + 1] = ".")
      <4>1. /\ k - a \in 1 .. Len(d) - 1 /\ k - a \in 1 .. b - a - 1 /\ (k - a) + 1 \in 1 .. b - a - 1
            /\ a + (k - a) = k /\ a + ((k - a) + 1) = k + 1
        BY <1>0, <1>2
      <4>2. d[k - a] = s[k] /\ d[(k - a) + 1] = s[k + 1]
        BY <1>2, <4>1
      <4> QED
        BY <3>1, <4>1, <4>2
    <3>2. ASSUME \A i \in a + 1 .. b - 2 : ~(s[i] = "." /\ s[i + 1] = "."), NEW k \in 1 .. Len(d) - 1
          PROVE  ~(d[k] = "." /\ d[k + 1] = ".")
      <4>1. a + k \in a + 1 .. b - 2 /\ k \in 1 .. b - a - 1 /\ k + 1 \in 1 .. b - a - 1
            /\ a + (k + 1) = (a + k) + 1
        BY <1>0, <1>2
      <4>2. d[k] = s[a + k] /\ d[k + 1] = s[(a + k) + 1]
        BY <1>2, <4>1
      <4> QED
        BY <3>2, <4>1, <4>2
    <3> QED
      BY <3>1, <3>2
  <2> QED
    BY <1>1, <1>4, <2>1, <2>2 DEF IsDataset, DatasetCut
<1> QED
  BY <1>0, <1>3, <1>4

LEMMA TableIs ==
    ASSUME NEW s \in Seq(Chars), NEW b \in 1 .. Len(s)
    PROVE  IsPart(SubSeq(s, b + 1, Len(s))) <=> TableCut(s, b)
<1>0. Len(s) \in Nat /\ b + 1 \in 1 .. Len(s) + 1 /\ Len(s) \in 0 .. Len(s)
  BY LenProperties
<1>1. /\ SubSeq(s, b + 1, Len(s)) = <<>> <=> Len(s) < b + 1
      /\ Contains(SubSeq(s, b + 1, Len(s)), ".") <=> \E i \in b + 1 .. Len(s) : s[i] = "."
  BY <1>0, PartOf
<1> QED
  BY <1>0, <1>1 DEF IsPart, TableCut

\* x is u followed by v.
IsJoin(u, v, x) ==
    /\ x \in Seq(Chars) /\ Len(x) = Len(u) + Len(v)
    /\ \A i \in 1 .. Len(u) : x[i] = u[i]
    /\ \A i \in 1 .. Len(v) : x[Len(u) + i] = v[i]

LEMMA Joined ==
    ASSUME NEW u \in Seq(Chars), NEW v \in Seq(Chars)
    PROVE  IsJoin(u, v, u \o v)
<1>0. PICK x : x = u \o v
  OBVIOUS
<1>1. PICK m \in Nat, n \in Nat : Len(u) = m /\ Len(v) = n
  BY LenProperties
<1>2. /\ u \o v \in Seq(Chars) /\ Len(u \o v) = Len(u) + Len(v)
      /\ \A i \in 1 .. Len(u) + Len(v) : (u \o v)[i] = IF i <= Len(u) THEN u[i] ELSE v[i - Len(u)]
  BY ConcatProperties
<1>3. /\ x \in Seq(Chars) /\ Len(x) = m + n
      /\ \A i \in 1 .. m + n : x[i] = IF i <= m THEN u[i] ELSE v[i - m]
  BY <1>0, <1>1, <1>2
<1>4. ASSUME NEW i \in 1 .. m PROVE x[i] = u[i]
  <2>1. i \in 1 .. m + n /\ i <= m
    OBVIOUS
  <2> QED
    BY <1>3, <2>1
<1>5. ASSUME NEW i \in 1 .. n PROVE x[m + i] = v[i]
  <2>1. m + i \in 1 .. m + n /\ ~(m + i <= m) /\ (m + i) - m = i
    OBVIOUS
  <2> QED
    BY <1>3, <2>1
<1> QED
  BY <1>0, <1>1, <1>3, <1>4, <1>5 DEF IsJoin

\* w is p, d and t put together with dots at a and b.
DottedAt(p, d, t, a, b, w) ==
    /\ w \in Seq(Chars) /\ Len(w) = b + Len(t)
    /\ 0 < a /\ a < b /\ w[a] = "." /\ w[b] = "."
    /\ \A i \in 1 .. Len(p) : w[i] = p[i]
    /\ \A i \in 1 .. Len(d) : w[a + i] = d[i]
    /\ \A i \in 1 .. Len(t) : w[b + i] = t[i]

LEMMA Dotted ==
    ASSUME NEW p \in Seq(Chars), NEW d \in Seq(Chars), NEW t \in Seq(Chars),
           NEW a \in Nat, Len(p) + 1 = a, NEW b \in Nat, a + Len(d) + 1 = b
    PROVE  DottedAt(p, d, t, a, b, p \o <<".">> \o d \o <<".">> \o t)
<1>0. PICK w : w = p \o <<".">> \o d \o <<".">> \o t
  OBVIOUS
<1>1. PICK lp \in Nat, ld \in Nat, lt \in Nat : Len(p) = lp /\ Len(d) = ld /\ Len(t) = lt
  BY LenProperties
<1>2. a = lp + 1 /\ b = a + ld + 1
  BY <1>1
<1>3. PICK e : e = <<".">>
  OBVIOUS
<1>30. e \in Seq(Chars) /\ Len(e) = 1 /\ e[1] = "." /\ 1 \in Nat
  BY <1>3 DEF Chars
<1>4. PICK x : x = p \o e
  OBVIOUS
<1>5. x \in Seq(Chars) /\ Len(x) = a /\ x[a] = "." /\ \A i \in 1 .. lp : x[i] = p[i]
  <2>1. /\ x \in Seq(Chars) /\ Len(x) = lp + 1
        /\ \A i \in 1 .. lp : x[i] = p[i]
        /\ \A i \in 1 .. 1 : x[lp + i] = e[i]
    <3>1. IsJoin(p, e, x)
      BY <1>30, <1>4, Joined
    <3> QED
      BY <1>1, <1>30, <3>1 DEF IsJoin
  <2> QED
    BY <1>2, <1>30, <2>1
<1>6. PICK y : y = x \o d
  OBVIOUS
<1>7. /\ y \in Seq(Chars) /\ Len(y) = a + ld
      /\ \A i \in 1 .. a : y[i] = x[i]
      /\ \A i \in 1 .. ld : y[a + i] = d[i]
  <2>1. IsJoin(x, d, y)
    BY <1>5, <1>6, Joined
  <2> QED
    BY <1>1, <1>5, <2>1 DEF IsJoin
<1>8. PICK z : z = y \o e
  OBVIOUS
<1>9. z \in Seq(Chars) /\ Len(z) = b /\ z[b] = "." /\ \A i \in 1 .. a + ld : z[i] = y[i]
  <2>1. a + ld \in Nat
    OBVIOUS
  <2>2. /\ z \in Seq(Chars) /\ Len(z) = (a + ld) + 1
        /\ \A i \in 1 .. a + ld : z[i] = y[i]
        /\ \A i \in 1 .. 1 : z[(a + ld) + i] = e[i]
    <3>1. IsJoin(y, e, z)
      BY <1>30, <1>7, <1>8, Joined
    <3> QED
      BY <1>7, <1>30, <2>1, <3>1 DEF IsJoin
  <2> QED
    BY <1>2, <1>30, <2>2
<1>11. w = z \o t
  BY <1>0, <1>3, <1>4, <1>6, <1>8
<1>10. /\ w \in Seq(Chars) /\ Len(w) = b + lt
       /\ \A i \in 1 .. b : w[i] = z[i]
       /\ \A i \in 1 .. lt : w[b + i] = t[i]
  <2>1. IsJoin(z, t, w)
    BY <1>9, <1>11, Joined
  <2> QED
    BY <1>1, <1>9, <2>1 DEF IsJoin
<1>12. 0 < a /\ a < b /\ \A i \in 1 .. a : i \in 1 .. a + ld /\ i \in 1 .. b
  BY <1>2
<1>13. \A i \in 1 .. a : w[i] = x[i]
  BY <1>7, <1>9, <1>10, <1>12
<1>14. w[a] = "." /\ \A i \in 1 .. lp : w[i] = p[i]
  <2>1. a \in 1 .. a /\ \A i \in 1 .. lp : i \in 1 .. a
    BY <1>2
  <2> QED
    BY <1>5, <1>13, <2>1
<1>15. \A i \in 1 .. ld : w[a + i] = d[i]
  <2>1. \A i \in 1 .. ld : a + i \in 1 .. a + ld /\ a + i \in 1 .. b
    BY <1>2
  <2> QED
    BY <1>7, <1>9, <1>10, <2>1
<1>16. w[b] = "."
  <2>1. b \in 1 .. b
    BY <1>2
  <2> QED
    BY <1>9, <1>10, <2>1
<1> QED
  BY <1>0, <1>1, <1>10, <1>12, <1>14, <1>15, <1>16 DEF DottedAt

\* The parts of a text at two of its dots make the text.
LEMMA ShownAgain ==
    ASSUME NEW s \in Seq(Chars), NEW a \in 1 .. Len(s), NEW b \in 1 .. Len(s),
           a < b, s[a] = ".", s[b] = "."
    PROVE  Display(Pieces(s, a, b)) = s
<1>0. /\ Len(s) \in Nat /\ a \in Nat /\ b \in Nat
      /\ a - 1 \in 0 .. Len(s) /\ a + 1 \in 1 .. Len(s) + 1 /\ b - 1 \in 0 .. Len(s)
      /\ b + 1 \in 1 .. Len(s) + 1 /\ Len(s) \in 0 .. Len(s) /\ 1 \in 1 .. Len(s) + 1
  BY LenProperties
<1>1. PICK p, d, t : p = SubSeq(s, 1, a - 1) /\ d = SubSeq(s, a + 1, b - 1) /\ t = SubSeq(s, b + 1, Len(s))
  OBVIOUS
<1>2. p \in Seq(Chars) /\ Len(p) = a - 1 /\ \A i \in 1 .. a - 1 : p[i] = s[i]
  <2>1. /\ p \in Seq(Chars) /\ Len(p) = IF 1 <= a - 1 THEN (a - 1) - 1 + 1 ELSE 0
        /\ \A i \in 1 .. (a - 1) - 1 + 1 : p[i] = s[1 + i - 1]
    BY <1>0, <1>1, PartOf
  <2>2. \A i \in 1 .. a - 1 : 1 + i - 1 = i /\ i \in 1 .. (a - 1) - 1 + 1
    BY <1>0
  <2> QED
    BY <1>0, <2>1, <2>2
<1>3. d \in Seq(Chars) /\ Len(d) = b - a - 1 /\ \A i \in 1 .. b - a - 1 : d[i] = s[a + i]
  <2>1. /\ d \in Seq(Chars) /\ Len(d) = IF a + 1 <= b - 1 THEN (b - 1) - (a + 1) + 1 ELSE 0
        /\ \A i \in 1 .. (b - 1) - (a + 1) + 1 : d[i] = s[(a + 1) + i - 1]
    BY <1>0, <1>1, PartOf
  <2>2. \A i \in 1 .. b - a - 1 : (a + 1) + i - 1 = a + i /\ i \in 1 .. (b - 1) - (a + 1) + 1
    BY <1>0
  <2> QED
    BY <1>0, <2>1, <2>2
<1>4. t \in Seq(Chars) /\ Len(t) = Len(s) - b /\ \A i \in 1 .. Len(s) - b : t[i] = s[b + i]
  <2>1. /\ t \in Seq(Chars) /\ Len(t) = IF b + 1 <= Len(s) THEN Len(s) - (b + 1) + 1 ELSE 0
        /\ \A i \in 1 .. Len(s) - (b + 1) + 1 : t[i] = s[(b + 1) + i - 1]
    BY <1>0, <1>1, PartOf
  <2>2. \A i \in 1 .. Len(s) - b : (b + 1) + i - 1 = b + i /\ i \in 1 .. Len(s) - (b + 1) + 1
    BY <1>0
  <2> QED
    BY <1>0, <2>1, <2>2
<1>5. PICK w : w = p \o <<".">> \o d \o <<".">> \o t
  OBVIOUS
<1>6. /\ w \in Seq(Chars) /\ Len(w) = b + Len(t) /\ w[a] = "." /\ w[b] = "."
      /\ \A i \in 1 .. Len(p) : w[i] = p[i]
      /\ \A i \in 1 .. Len(d) : w[a + i] = d[i]
      /\ \A i \in 1 .. Len(t) : w[b + i] = t[i]
  <2>1. Len(p) + 1 = a /\ a + Len(d) + 1 = b
    BY <1>0, <1>2, <1>3
  <2>2. DottedAt(p, d, t, a, b, w)
    BY <1>0, <1>2, <1>3, <1>4, <1>5, <2>1, Dotted
  <2> QED
    BY <2>2 DEF DottedAt
<1>7. Len(w) = Len(s)
  BY <1>0, <1>4, <1>6
<1>8. ASSUME NEW i \in 1 .. Len(s) PROVE w[i] = s[i]
  <2>1. CASE i < a
    <3>1. i \in 1 .. a - 1
      BY <1>0, <2>1
    <3> QED
      BY <1>2, <1>6, <3>1
  <2>2. CASE i = a \/ i = b
    BY <1>6, <2>2
  <2>3. CASE a < i /\ i < b
    <3>1. i - a \in 1 .. b - a - 1 /\ a + (i - a) = i
      BY <1>0, <2>3
    <3> QED
      BY <1>3, <1>6, <3>1
  <2>4. CASE b < i
    <3>1. i - b \in 1 .. Len(s) - b /\ b + (i - b) = i
      BY <1>0, <2>4
    <3> QED
      BY <1>4, <1>6, <3>1
  <2> QED
    BY <1>0, <2>1, <2>2, <2>3, <2>4
<1>9. w = s
  BY <1>6, <1>7, <1>8, SeqEqual
<1> QED
  BY <1>1, <1>5, <1>9 DEF Display, Pieces, NewTableId

\* The readings of a text are its cuts.
LEMMA ReadingIsCut ==
    ASSUME NEW s \in Seq(Chars), NEW a \in 1 .. Len(s), NEW b \in 1 .. Len(s),
           s[a] = ".", s[b] = "."
    PROVE  Display(Pieces(s, a, b)) = s /\ WellFormed(Pieces(s, a, b)) <=> Cut(s, a, b)
<1>0. /\ Len(s) \in Nat /\ a \in Nat /\ b \in Nat /\ a - 1 \in 0 .. Len(s) /\ 1 \in 1 .. Len(s) + 1
      /\ a + 1 \in 1 .. Len(s) + 1 /\ b - 1 \in 0 .. Len(s)
  BY LenProperties
<1>1. PICK id : id = Pieces(s, a, b)
  OBVIOUS
<1>2. /\ id.project = SubSeq(s, 1, a - 1) /\ id.dataset = SubSeq(s, a + 1, b - 1)
      /\ id.table = SubSeq(s, b + 1, Len(s))
  BY <1>1 DEF Pieces, NewTableId
<1>3. CASE a < b
  <2>1. Display(id) = s
    BY <1>1, <1>3, ShownAgain
  <2>2. IsProject(id.project) <=> ProjectCut(s, a)
    BY <1>2, ProjectIs
  <2>3. IsDataset(id.dataset) <=> DatasetCut(s, a, b)
    BY <1>2, <1>3, DatasetIs
  <2>4. IsPart(id.table) <=> TableCut(s, b)
    BY <1>2, TableIs
  <2>5. Contains(id.project, ":") <=> \E i \in 1 .. a - 1 : s[i] = ":"
    BY <1>0, <1>2, PartOf
  <2>6. \A c : Contains(s, c) <=> \E i \in 1 .. Len(s) : s[i] = c
    BY DEF Contains
  <2>7. /\ \A c \in {"tick", "/"} : ~Contains(s, c)
        /\ Contains(s, ":") => Contains(id.project, ":")
        <=> PlainCut(s, a)
    BY <2>5, <2>6 DEF PlainCut
  <2> QED
    BY <1>1, <2>1, <2>2, <2>3, <2>4, <2>7 DEF WellFormed, Cut
<1>4. CASE b <= a
  <2>1. id.dataset = <<>>
    <3>1. b - 1 < a + 1
      BY <1>0, <1>4
    <3> QED
      BY <1>0, <1>2, <3>1, PartOf
  <2>2. ~WellFormed(id)
    BY <2>1 DEF WellFormed, IsDataset
  <2>3. ~Cut(s, a, b)
    BY <1>0, <1>4 DEF Cut, DatasetCut
  <2> QED
    BY <1>1, <2>2, <2>3
<1> QED
  BY <1>0, <1>3, <1>4

-----------------------------------------------------------------------------
(* The parser finds the cut.                                               *)

\* A text that can be cut is parsed into its parts.
LEMMA CutIsParsed ==
    ASSUME NEW s \in Seq(Chars), NEW a, NEW b, Cut(s, a, b)
    PROVE  FromStr(s) = Pieces(s, a, b) /\ Pieces(s, a, b) # Invalid
<1>0. /\ Len(s) \in Nat /\ a \in 1 .. Len(s) /\ b \in 1 .. Len(s) /\ s[a] = "." /\ s[b] = "."
      /\ DatasetCut(s, a, b) /\ TableCut(s, b) /\ PlainCut(s, a)
  BY LenProperties DEF Cut
<1>1. PICK k \in 0 .. a - 2 :
          /\ k > 0 => k > 1 /\ s[k] = ":" /\ \A i \in 1 .. k - 1 : s[i] # ":"
          /\ \A i \in k + 1 .. a - 1 : s[i] # ":" /\ s[i] # "."
  BY DEF Cut, ProjectCut
<1>2. a \in Nat /\ b \in Nat /\ k \in Nat /\ k + 2 <= a /\ a + 2 <= b /\ b < Len(s)
  BY <1>0, <1>1 DEF DatasetCut, TableCut
<1>3. PICK colon : colon = EndOf(s, 1, {":"})
  OBVIOUS
<1>4. EndsAt(s, 1, {":"}, colon)
  <2>1. 1 \in 1 .. Len(s) + 1
    BY <1>0
  <2> QED
    BY <1>3, <2>1, EndOfIs
<1>5. (IF colon \in 2 .. Len(s) THEN colon + 1 ELSE 1) = k + 1
  <2>1. CASE k > 0
    <3>1. EndsAt(s, 1, {":"}, k)
      BY <1>0, <1>1, <1>2, <2>1 DEF EndsAt
    <3>2. 1 \in 1 .. Len(s) + 1
      BY <1>0
    <3>3. colon = k
      BY <1>4, <3>1, <3>2, EndIsUnique
    <3> QED
      BY <1>0, <1>1, <1>2, <2>1, <3>3
  <2>2. CASE k = 0
    <3>1. \A i \in 1 .. Len(s) : s[i] # ":"
      BY <1>0, <1>1, <1>2, <2>2 DEF PlainCut
    <3>2. colon \in 1 .. Len(s) + 1 /\ ~(colon <= Len(s))
      BY <1>0, <1>4, <3>1 DEF EndsAt
    <3> QED
      BY <1>0, <2>2, <3>2
  <2> QED
    BY <1>2, <2>1, <2>2
<1>6. EndOf(s, k + 1, {".", ":"}) = a
  <2>1. k + 1 \in 1 .. Len(s) + 1
    BY <1>0, <1>2
  <2>2. EndsAt(s, k + 1, {".", ":"}, EndOf(s, k + 1, {".", ":"}))
    BY <2>1, EndOfIs
  <2>3. EndsAt(s, k + 1, {".", ":"}, a)
    BY <1>0, <1>1, <1>2 DEF EndsAt
  <2> QED
    BY <2>1, <2>2, <2>3, EndIsUnique
<1>7. PICK dots : dots = {i \in a + 1 .. Len(s) : s[i] = "."}
  OBVIOUS
<1>8. b \in dots /\ \A i \in dots : i \in a + 1 .. b
  BY <1>0, <1>2, <1>7 DEF TableCut
<1>9. Max(dots) = b
  <2>1. dots \in SUBSET (1 .. Len(s)) /\ dots # {}
    BY <1>0, <1>2, <1>7, <1>8
  <2>2. Max(dots) \in dots /\ \A y \in dots : Max(dots) >= y
    BY <1>0, <2>1, MaxIs
  <2>3. PICK m : m = Max(dots)
    OBVIOUS
  <2>4. m \in a + 1 .. b /\ m >= b
    BY <1>8, <2>2, <2>3
  <2> QED
    BY <1>2, <2>3, <2>4
<1>10. \A i \in dots \cup {a} : i + 1 \notin dots \cup {Len(s) + 1}
  <2>1. ASSUME NEW i \in dots \cup {a}, i + 1 \in dots PROVE FALSE
    <3>1. i \in a .. b /\ i + 1 \in a + 1 .. b /\ s[i] = "." /\ s[i + 1] = "."
      BY <1>0, <1>2, <1>7, <1>8, <2>1
    <3>2. i = a \/ i = b - 1 \/ i \in a + 1 .. b - 2
      BY <1>2, <3>1
    <3> QED
      BY <1>0, <3>1, <3>2 DEF DatasetCut
  <2>2. ASSUME NEW i \in dots \cup {a} PROVE i + 1 # Len(s) + 1
    <3>1. i \in a .. b
      BY <1>2, <1>8
    <3> QED
      BY <1>0, <1>2, <3>1
  <2> QED
    BY <2>1, <2>2
<1>11. a \in (k + 1) + 1 .. Len(s) /\ dots # {}
  BY <1>0, <1>2, <1>8
<1>12. ParseTableId(s) = Pieces(s, a, b)
  BY <1>0, <1>3, <1>5, <1>6, <1>7, <1>9, <1>10, <1>11 DEF ParseTableId, Pieces
<1>13. ~Contains(s, "tick") /\ ~Contains(s, "/")
  BY <1>0 DEF PlainCut, Contains
<1>14. Pieces(s, a, b) # Invalid
  <2>1. a - 1 \in 0 .. Len(s) /\ 1 \in 1 .. Len(s) + 1 /\ ~(a - 1 < 1)
    BY <1>0, <1>2
  <2>2. SubSeq(s, 1, a - 1) # <<>>
    BY <2>1, PartOf
  <2> QED
    BY <2>2 DEF Pieces, Invalid, NewTableId
<1> QED
  BY <1>12, <1>13, <1>14 DEF FromStr

\* What the parser accepts can be cut.
LEMMA ParsedIsCut ==
    ASSUME NEW s \in Seq(Chars), FromStr(s) # Invalid
    PROVE  \E a, b : Cut(s, a, b)
<1>0. Len(s) \in Nat /\ 1 \in 1 .. Len(s) + 1
  BY LenProperties
<1>1. PICK colon : colon = EndOf(s, 1, {":"})
  OBVIOUS
<1>2. PICK start : start = IF colon \in 2 .. Len(s) THEN colon + 1 ELSE 1
  OBVIOUS
<1>3. PICK dot : dot = EndOf(s, start, {".", ":"})
  OBVIOUS
<1>4. PICK dots : dots = {i \in dot + 1 .. Len(s) : s[i] = "."}
  OBVIOUS
<1>5. /\ dot \in start + 1 .. Len(s) /\ s[dot] = "." /\ dots # {}
      /\ \A i \in dots \cup {dot} : i + 1 \notin dots \cup {Len(s) + 1}
      /\ ~Contains(s, "tick") /\ ~Contains(s, "/")
  BY <1>1, <1>2, <1>3, <1>4 DEF FromStr, ParseTableId
<1>6. EndsAt(s, 1, {":"}, colon)
  BY <1>0, <1>1, EndOfIs
<1>7. colon \in 1 .. Len(s) + 1 /\ start \in 1 .. Len(s) + 1
  BY <1>0, <1>2, <1>6 DEF EndsAt
<1>8. EndsAt(s, start, {".", ":"}, dot)
  BY <1>3, <1>7, EndOfIs
<1>9. dot \in 1 .. Len(s) /\ start \in Nat /\ start < dot /\ \A i \in start .. dot - 1 : s[i] # "." /\ s[i] # ":"
  BY <1>0, <1>5, <1>7, <1>8 DEF EndsAt
<1>10. PICK b : b = Max(dots)
  OBVIOUS
<1>11. b \in dots /\ \A y \in dots : b >= y
  <2>1. dots \in SUBSET (1 .. Len(s))
    BY <1>0, <1>4, <1>9
  <2> QED
    BY <1>0, <1>5, <1>10, <2>1, MaxIs
<1>12. b \in dot + 1 .. Len(s) /\ s[b] = "." /\ b \in 1 .. Len(s)
  BY <1>0, <1>4, <1>9, <1>11
<1>13. ProjectCut(s, dot)
  <2>1. start - 1 \in 0 .. dot - 2 /\ (start - 1) + 1 = start
    BY <1>7, <1>9
  <2>2. start - 1 > 0 => /\ start - 1 > 1 /\ s[start - 1] = ":"
                         /\ \A i \in 1 .. (start - 1) - 1 : s[i] # ":"
    <3>1. CASE colon \in 2 .. Len(s)
      <4>1. start - 1 = colon
        BY <1>2, <3>1
      <4> QED
        BY <1>6, <3>1, <4>1 DEF EndsAt
    <3>2. CASE colon \notin 2 .. Len(s)
      BY <1>2, <3>2
    <3> QED
      BY <3>1, <3>2
  <2> QED
    BY <1>9, <2>1, <2>2 DEF ProjectCut
<1>14. DatasetCut(s, dot, b)
  <2>1. dot + 1 \notin dots /\ \A i \in dots : i + 1 \notin dots
    BY <1>5
  <2>2. s[dot + 1] # "." /\ dot + 2 <= b
    BY <1>0, <1>4, <1>9, <1>11, <1>12, <2>1
  <2>3. s[b - 1] # "."
    <3>1. b - 1 \in dot + 1 .. Len(s) /\ (b - 1) + 1 = b
      BY <1>0, <1>9, <1>12, <2>2
    <3> QED
      BY <1>4, <1>11, <2>1, <3>1
  <2>4. ASSUME NEW i \in dot + 1 .. b - 2 PROVE ~(s[i] = "." /\ s[i + 1] = ".")
    <3>1. i \in dot + 1 .. Len(s) /\ i + 1 \in dot + 1 .. Len(s)
      BY <1>0, <1>9, <1>12
    <3> QED
      BY <1>4, <2>1, <3>1
  <2> QED
    BY <2>2, <2>3, <2>4 DEF DatasetCut
<1>15. TableCut(s, b)
  <2>1. b < Len(s)
    <3>1. b + 1 # Len(s) + 1
      BY <1>5, <1>11
    <3> QED
      BY <1>0, <1>12, <3>1
  <2>2. ASSUME NEW i \in b + 1 .. Len(s) PROVE s[i] # "."
    <3>1. i \in dot + 1 .. Len(s) /\ ~(b >= i)
      BY <1>0, <1>9, <1>12
    <3> QED
      BY <1>4, <1>11, <3>1
  <2> QED
    BY <2>1, <2>2 DEF TableCut
<1>16. PlainCut(s, dot)
  <2>1. \A i \in 1 .. Len(s) : s[i] # "tick" /\ s[i] # "/"
    BY <1>5 DEF Contains
  <2>2. ASSUME NEW i \in 1 .. Len(s), s[i] = ":" PROVE \E j \in 1 .. dot - 1 : s[j] = ":"
    <3>1. colon <= Len(s) /\ s[colon] = ":"
      BY <1>0, <1>6, <2>2 DEF EndsAt
    <3>2. CASE colon \in 2 .. Len(s)
      <4>1. colon \in 1 .. dot - 1
        BY <1>2, <1>9, <3>2
      <4> QED
        BY <3>1, <4>1
    <3>3. CASE colon \notin 2 .. Len(s)
      <4>1. colon = 1 /\ start = 1
        BY <1>0, <1>2, <1>7, <3>1, <3>3
      <4> QED
        BY <1>9, <3>1, <4>1
    <3> QED
      BY <3>2, <3>3
  <2> QED
    BY <2>1, <2>2 DEF PlainCut
<1>17. Cut(s, dot, b)
  BY <1>5, <1>9, <1>12, <1>13, <1>14, <1>15, <1>16 DEF Cut
<1> QED
  BY <1>17

-----------------------------------------------------------------------------
(* What ClientCallsProofs needs.                                           *)

\* Every text has at most one reading, and it is the one that FromStr finds.
LEMMA OneReading ==
    ASSUME NEW s \in Seq(Chars)
    PROVE  Readings(s) = IF FromStr(s) = Invalid THEN {} ELSE {FromStr(s)}
<1>1. DOMAIN s = 1 .. Len(s)
  BY LenProperties
<1>2. ASSUME NEW id \in Readings(s) PROVE FromStr(s) # Invalid /\ id = FromStr(s)
  <2>1. PICK a \in 1 .. Len(s), b \in 1 .. Len(s) :
            /\ s[a] = "." /\ s[b] = "." /\ id = Pieces(s, a, b)
            /\ Display(id) = s /\ WellFormed(id)
    BY <1>1, <1>2 DEF Readings, Pieces
  <2>2. Cut(s, a, b)
    BY <2>1, ReadingIsCut
  <2> QED
    BY <2>1, <2>2, CutIsParsed
<1>3. ASSUME FromStr(s) # Invalid PROVE FromStr(s) \in Readings(s)
  <2>1. PICK a, b : Cut(s, a, b)
    BY <1>3, ParsedIsCut
  <2>2. a \in 1 .. Len(s) /\ b \in 1 .. Len(s) /\ s[a] = "." /\ s[b] = "."
    BY <2>1 DEF Cut
  <2>3. Display(Pieces(s, a, b)) = s /\ WellFormed(Pieces(s, a, b))
    BY <2>1, <2>2, ReadingIsCut
  <2>4. FromStr(s) = Pieces(s, a, b)
    BY <2>1, CutIsParsed
  <2> QED
    BY <1>1, <2>2, <2>3, <2>4 DEF Readings, Pieces
<1> QED
  BY <1>2, <1>3

\* An identifier whose parts are texts survives Display and FromStr exactly if
\* they are well formed.
LEMMA RoundTrip ==
    ASSUME NEW p \in Seq(Chars), NEW d \in Seq(Chars), NEW t \in Seq(Chars),
           NEW id, id = NewTableId(p, d, t)
    PROVE  FromStr(Display(id)) = id <=> WellFormed(id)
<1>1. PICK lp \in Nat, ld \in Nat, lt \in Nat : Len(p) = lp /\ Len(d) = ld /\ Len(t) = lt
  BY LenProperties
<1>2. PICK a \in Nat, b \in Nat : a = lp + 1 /\ b = a + ld + 1
  OBVIOUS
<1>3. PICK s : s = Display(id)
  OBVIOUS
<1>4. DottedAt(p, d, t, a, b, s)
  <2>1. Len(p) + 1 = a /\ a + Len(d) + 1 = b
    BY <1>1, <1>2
  <2>2. s = p \o <<".">> \o d \o <<".">> \o t
    BY <1>3 DEF Display, NewTableId
  <2> QED
    BY <2>1, <2>2, Dotted
<1>5. /\ s \in Seq(Chars) /\ Len(s) = b + lt /\ s[a] = "." /\ s[b] = "."
      /\ \A i \in 1 .. lp : s[i] = p[i]
      /\ \A i \in 1 .. ld : s[a + i] = d[i]
      /\ \A i \in 1 .. lt : s[b + i] = t[i]
  BY <1>1, <1>4 DEF DottedAt
<1>6. a \in 1 .. Len(s) /\ b \in 1 .. Len(s)
  BY <1>2, <1>5
<1>7. SubSeq(s, 1, a - 1) = p
  <2>1. 1 \in 1 .. Len(s) + 1 /\ a - 1 \in 0 .. Len(s) /\ a - 1 = lp
    BY <1>2, <1>5
  <2>2. PICK u : u = SubSeq(s, 1, a - 1)
    OBVIOUS
  <2>3. /\ u \in Seq(Chars) /\ Len(u) = IF 1 <= a - 1 THEN (a - 1) - 1 + 1 ELSE 0
        /\ \A i \in 1 .. (a - 1) - 1 + 1 : u[i] = s[1 + i - 1]
    BY <1>5, <2>1, <2>2, PartOf
  <2>4. \A i \in 1 .. lp : 1 + i - 1 = i /\ i \in 1 .. (a - 1) - 1 + 1
    BY <2>1
  <2>5. Len(u) = lp /\ \A i \in 1 .. lp : u[i] = p[i]
    BY <1>5, <2>1, <2>3, <2>4
  <2> QED
    BY <1>1, <2>2, <2>3, <2>5, SeqEqual
<1>8. SubSeq(s, a + 1, b - 1) = d
  <2>1. a + 1 \in 1 .. Len(s) + 1 /\ b - 1 \in 0 .. Len(s) /\ b - 1 = a + ld
    BY <1>2, <1>5
  <2>2. PICK u : u = SubSeq(s, a + 1, b - 1)
    OBVIOUS
  <2>3. /\ u \in Seq(Chars) /\ Len(u) = IF a + 1 <= b - 1 THEN (b - 1) - (a + 1) + 1 ELSE 0
        /\ \A i \in 1 .. (b - 1) - (a + 1) + 1 : u[i] = s[(a + 1) + i - 1]
    BY <1>5, <2>1, <2>2, PartOf
  <2>4. \A i \in 1 .. ld : (a + 1) + i - 1 = a + i /\ i \in 1 .. (b - 1) - (a + 1) + 1
    BY <2>1
  <2>5. Len(u) = ld /\ \A i \in 1 .. ld : u[i] = d[i]
    BY <1>5, <2>1, <2>3, <2>4
  <2> QED
    BY <1>1, <2>2, <2>3, <2>5, SeqEqual
<1>9. SubSeq(s, b + 1, Len(s)) = t
  <2>1. b + 1 \in 1 .. Len(s) + 1 /\ Len(s) \in 0 .. Len(s)
    BY <1>2, <1>5
  <2>2. PICK u : u = SubSeq(s, b + 1, Len(s))
    OBVIOUS
  <2>3. /\ u \in Seq(Chars) /\ Len(u) = IF b + 1 <= Len(s) THEN Len(s) - (b + 1) + 1 ELSE 0
        /\ \A i \in 1 .. Len(s) - (b + 1) + 1 : u[i] = s[(b + 1) + i - 1]
    BY <1>5, <2>1, <2>2, PartOf
  <2>4. \A i \in 1 .. lt : (b + 1) + i - 1 = b + i /\ i \in 1 .. Len(s) - (b + 1) + 1
    BY <1>5
  <2>5. Len(u) = lt /\ \A i \in 1 .. lt : u[i] = t[i]
    BY <1>5, <2>3, <2>4
  <2> QED
    BY <1>1, <2>2, <2>3, <2>5, SeqEqual
<1>10. Pieces(s, a, b) = id
  BY <1>7, <1>8, <1>9 DEF Pieces
<1>11. ASSUME WellFormed(id) PROVE FromStr(s) = id
  <2>1. Cut(s, a, b)
    BY <1>3, <1>5, <1>6, <1>10, <1>11, ReadingIsCut
  <2> QED
    BY <1>5, <1>10, <2>1, CutIsParsed
<1>12. ASSUME FromStr(s) = id PROVE WellFormed(id)
  <2>1. id # Invalid
    <3>1. t # <<"invalid">>
      <4>1. t[1] \in Chars \/ lt = 0
        <5>1. lt # 0 => 1 \in 1 .. Len(t)
          BY <1>1
        <5> QED
          BY <5>1, ElementOfSeq
      <4>2. "invalid" \notin Chars /\ Len(<<"invalid">>) = 1 /\ <<"invalid">>[1] = "invalid"
        BY DEF Chars
      <4> QED
        BY <1>1, <4>1, <4>2
    <3>2. id.table = t /\ Invalid.table = <<"invalid">>
      BY DEF NewTableId, Invalid
    <3> QED
      BY <3>1, <3>2
  <2>2. PICK c, e : Cut(s, c, e)
    BY <1>5, <1>12, <2>1, ParsedIsCut
  <2>3. c \in 1 .. Len(s) /\ e \in 1 .. Len(s) /\ s[c] = "." /\ s[e] = "."
    BY <2>2 DEF Cut
  <2>4. WellFormed(Pieces(s, c, e))
    BY <1>5, <2>2, <2>3, ReadingIsCut
  <2> QED
    BY <1>5, <1>12, <2>2, <2>4, CutIsParsed
<1> QED
  BY <1>3, <1>11, <1>12
=============================================================================
