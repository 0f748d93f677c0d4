--------------------------- MODULE ReportsProofs ---------------------------
(***************************************************************************)
(* Proofs about Reports for any rows, any page and page_size, and any      *)
(* number of changes between the queries: what a walk through the pages    *)
(* can miss or repeat, and how long a page is.                             *)
(***************************************************************************)
EXTENDS Reports, TLAPS, FiniteSetTheorems, SequenceTheorems, WellFoundedInduction

(* A nonempty set of numbers has a smallest one.                           *)
LEMMA SmallestMember ==
    ASSUME NEW S \in SUBSET Nat, S # {}
    PROVE  \E m \in S : \A n \in S : m <= n
<1> DEFINE Smaller == {ss \in Nat \X Nat : ss[1] < ss[2]}
<1>1. IsWellFoundedOn(Smaller, Nat)
  BY NatLessThanWellFounded DEF OpToRel
<1>2. PICK m \in S : \A n \in S : ~(<<n, m>> \in Smaller)
  <2> HIDE DEF Smaller
  <2> QED BY <1>1, WFMin
<1>3. \A n \in S : ~(n < m)
  <2>1. \A n \in S : n < m => <<n, m>> \in Smaller
    OBVIOUS
  <2> QED BY <1>2, <2>1
<1> QED BY <1>3

AtMostOne(S) == \A v, w \in S : v = w

(* A set that grows by at most one element.                                *)
LEMMA OneMore ==
    ASSUME NEW S, IsFiniteSet(S), NEW D, AtMostOne(D), NEW T, T \subseteq S \cup D
    PROVE  /\ IsFiniteSet(T) /\ Cardinality(T) \in Nat
           /\ Cardinality(T) <= Cardinality(S) + 1
           /\ D = {} => Cardinality(T) <= Cardinality(S)
<1>1. Cardinality(S) \in Nat
  BY FS_CardinalityType
<1>2. CASE T \subseteq S
  BY <1>1, <1>2, FS_Subset, FS_CardinalityType
<1>3. CASE ~(T \subseteq S)
  <2>1. PICK d \in T : d \notin S
    BY <1>3
  <2>2. T \in SUBSET (S \cup {d}) /\ D # {}
    BY <2>1 DEF AtMostOne
  <2>3. IsFiniteSet(S \cup {d}) /\ Cardinality(S \cup {d}) = Cardinality(S) + 1
    BY <2>1, FS_AddElement
  <2>4. IsFiniteSet(T) /\ Cardinality(T) <= Cardinality(S) + 1
    BY <2>2, <2>3, FS_Subset
  <2> QED BY <2>2, <2>4, FS_CardinalityType
<1> QED BY <1>2, <1>3

-----------------------------------------------------------------------------
(* Lines and their order.                                                  *)

LEMMA OneLine ==
    ASSUME NEW list, NEW p, NEW x \in LineOf(list, p), NEW y \in LineOf(list, p)
    PROVE  x = y
BY DEF LineOf

LEMMA RowsOfLine ==
    ASSUME NEW t \in Seq(Packages), NEW list, NEW x
    PROVE  /\ Rows(t, list, x) \subseteq 1..Len(t)
           /\ x \in Lines(t, list) <=> Rows(t, list, x) # {}
BY DEF Rows, Lines

(* A list of any table has no more lines than there are packages.          *)
LEMMA ListsAreFinite ==
    ASSUME NEW t \in Seq(Packages), NEW list
    PROVE  /\ IsFiniteSet(Lines(t, list))
           /\ Cardinality(Lines(t, list)) \in 0..IntMax
           /\ Lines(t, list) \subseteq AllLines(list)
           /\ IsFiniteSet(AllLines(list))
<1>1. Lines(t, list) \subseteq AllLines(list)
  <2>1. \A i \in DOMAIN t : t[i] \in Packages
    OBVIOUS
  <2> QED BY <2>1 DEF Lines, AllLines
<1>2. IsFiniteSet(AllLines(list)) /\ Cardinality(AllLines(list)) <= Cardinality(Packages)
  <2>1. CASE list = Summaries
    <3> DEFINE f == [p \in Packages |-> p.name]
    <3>1. AllLines(list) = Names
      BY <2>1 DEF AllLines, LineOf, Names
    <3>2. f \in Surjection(Packages, Names)
      BY DEF Surjection, Names
    <3> QED BY <3>1, <3>2, FS_Surjection, PackagesAssumption
  <2>2. CASE list # Summaries
    <3>1. AllLines(list) \in SUBSET Packages
      BY <2>2 DEF AllLines, LineOf
    <3> QED BY <3>1, FS_Subset, PackagesAssumption
  <2> QED BY <2>1, <2>2
<1>3. /\ IsFiniteSet(Lines(t, list))
      /\ Cardinality(Lines(t, list)) <= Cardinality(AllLines(list))
  BY <1>1, <1>2, FS_Subset
<1>4. /\ Cardinality(Lines(t, list)) \in Nat
      /\ Cardinality(AllLines(list)) \in Nat /\ Cardinality(Packages) \in Nat
  BY <1>2, <1>3, FS_CardinalityType, PackagesAssumption
<1> QED BY <1>1, <1>2, <1>3, <1>4, PackagesAssumption, SizesAssumption

(* The order by the newest row is a strict total order of the lines.       *)
LEMMA LinesAreOrdered ==
    ASSUME NEW t \in Seq(Packages), NEW list,
           NEW x \in Lines(t, list), NEW y \in Lines(t, list), NEW z \in Lines(t, list)
    PROVE  /\ ~Before(t, list, x, x)
           /\ Before(t, list, x, y) /\ Before(t, list, y, z) => Before(t, list, x, z)
           /\ x # y => Before(t, list, x, y) \/ Before(t, list, y, x)
<1> DEFINE R(v) == Rows(t, list, v)
<1>1. \A v \in Lines(t, list) : R(v) \subseteq Nat /\ R(v) # {}
  BY RowsOfLine
<1> HIDE DEF R
<1>2. \A v, w : Before(t, list, v, w) <=> \E i \in R(v) : \A j \in R(w) : i < j
  BY DEF Before, R
<1>3. ~Before(t, list, x, x)
  BY <1>1, <1>2
<1>4. Before(t, list, x, y) /\ Before(t, list, y, z) => Before(t, list, x, z)
  <2>1. SUFFICES ASSUME NEW i \in R(x), \A j \in R(y) : i < j,
                        NEW k \in R(y), \A j \in R(z) : k < j
                 PROVE  \A j \in R(z) : i < j
    BY <1>2
  <2>2. i \in Nat /\ k \in Nat /\ i < k /\ R(z) \subseteq Nat
    BY <1>1, <2>1
  <2> QED BY <2>1, <2>2
<1>5. ASSUME x # y PROVE Before(t, list, x, y) \/ Before(t, list, y, x)
  <2>1. PICK i \in R(x) : \A k \in R(x) : i <= k
    BY <1>1, SmallestMember
  <2>2. PICK j \in R(y) : \A k \in R(y) : j <= k
    BY <1>1, SmallestMember
  <2>3. i # j
    BY <1>5, OneLine DEF R, Rows
  <2>4. i \in Nat /\ j \in Nat /\ R(x) \subseteq Nat /\ R(y) \subseteq Nat
    BY <1>1
  <2>5. i < j => \A k \in R(y) : i < k
    BY <2>2, <2>4
  <2>6. j < i => \A k \in R(x) : j < k
    BY <2>1, <2>4
  <2>7. i < j => Before(t, list, x, y)
    BY <1>2, <2>5
  <2>8. j < i => Before(t, list, y, x)
    BY <1>2, <2>6
  <2>9. i < j \/ j < i
    BY <2>3, <2>4
  <2> QED BY <2>7, <2>8, <2>9
<1> QED BY <1>3, <1>4, <1>5

(* What stands before a line is counted by its place.                      *)
LEMMA UpToFinite ==
    ASSUME NEW t \in Seq(Packages), NEW list, NEW x
    PROVE  /\ IsFiniteSet(UpTo(t, list, x)) /\ Place(t, list, x) \in Nat
           /\ Place(t, list, x) <= Cardinality(Lines(t, list))
           /\ x \in Lines(t, list) => Place(t, list, x) > 0
<1>1. UpTo(t, list, x) \in SUBSET Lines(t, list)
  BY DEF UpTo
<1>2. /\ IsFiniteSet(UpTo(t, list, x)) /\ Place(t, list, x) \in Nat
      /\ Place(t, list, x) <= Cardinality(Lines(t, list))
  BY <1>1, ListsAreFinite, FS_Subset, FS_CardinalityType DEF Place
<1>3. x \in Lines(t, list) => x \in UpTo(t, list, x)
  BY DEF UpTo
<1>4. x \in Lines(t, list) => Place(t, list, x) # 0
  BY <1>2, <1>3, FS_EmptySet DEF Place
<1> QED BY <1>2, <1>4

LEMMA PlacesFollowOrder ==
    ASSUME NEW t \in Seq(Packages), NEW list,
           NEW x \in Lines(t, list), NEW y \in Lines(t, list)
    PROVE  /\ Before(t, list, x, y) => Place(t, list, x) < Place(t, list, y)
           /\ x # y => Place(t, list, x) # Place(t, list, y)
<1>1. ASSUME NEW v \in Lines(t, list), NEW w \in Lines(t, list), Before(t, list, v, w)
      PROVE  Place(t, list, v) < Place(t, list, w)
  <2>1. UpTo(t, list, v) \in SUBSET UpTo(t, list, w)
    BY <1>1, LinesAreOrdered DEF UpTo
  <2>2. w \in UpTo(t, list, w) /\ w \notin UpTo(t, list, v)
    BY <1>1, LinesAreOrdered DEF UpTo
  <2>3. /\ Place(t, list, v) <= Place(t, list, w)
        /\ Place(t, list, v) # Place(t, list, w)
    BY <2>1, <2>2, UpToFinite, FS_Subset DEF Place
  <2>4. Place(t, list, v) \in Nat /\ Place(t, list, w) \in Nat
    BY UpToFinite
  <2> QED BY <2>3, <2>4
<1>2. Place(t, list, x) \in Nat /\ Place(t, list, y) \in Nat
  BY UpToFinite
<1> QED BY <1>1, <1>2, LinesAreOrdered

(* The places of a list of n lines are 1 to n, one each.                   *)
LEMMA PlacesAreANumbering ==
    ASSUME NEW t \in Seq(Packages), NEW list
    PROVE  LET n == Cardinality(Lines(t, list))
           IN  [x \in Lines(t, list) |-> Place(t, list, x)] \in Bijection(Lines(t, list), 1..n)
<1> DEFINE L == Lines(t, list)
           n == Cardinality(L)
           place == [x \in L |-> Place(t, list, x)]
<1>1. n \in Nat /\ IsFiniteSet(1..n) /\ Cardinality(1..n) = n
  BY ListsAreFinite, FS_Interval
<1>2. place \in Injection(L, 1..n)
  <2>1. \A x \in L : place[x] \in 1..n
    BY <1>1, UpToFinite
  <2>2. \A x, y \in L : place[x] = place[y] => x = y
    BY PlacesFollowOrder
  <2>3. place \in [L -> 1..n]
    BY <2>1
  <2> HIDE DEF place
  <2> QED BY <2>2, <2>3 DEF Injection, IsInjective
<1>3. place \in Surjection(L, 1..n)
  <2> HIDE DEF place
  <2> QED BY <1>1, <1>2, FS_Injection
<1> QED BY <1>2, <1>3 DEF Bijection

\* The lines after place a, up to place b, ...
Between(t, list, a, b) == {x \in Lines(t, list) : Place(t, list, x) \in (a + 1)..b}

(* ... are so many.                                                        *)
LEMMA LinesInRange ==
    ASSUME NEW t \in Seq(Packages), NEW list, NEW a \in Nat, NEW b \in Nat,
           b <= Cardinality(Lines(t, list))
    PROVE  /\ IsFiniteSet(Between(t, list, a, b))
           /\ Cardinality(Between(t, list, a, b)) = IF a < b THEN b - a ELSE 0
<1> DEFINE L == Lines(t, list)
           n == Cardinality(L)
           place == [x \in L |-> Place(t, list, x)]
           range == Between(t, list, a, b)
           part == [x \in range |-> place[x]]
<1>1. place \in Bijection(L, 1..n)
  BY PlacesAreANumbering
<1>2. range \subseteq L /\ \A x \in range : part[x] = place[x] /\ part[x] \in (a + 1)..b
  BY DEF Between
<1>3. \A x, y \in range : part[x] = part[y] => x = y
  <2>1. \A x, y \in L : place[x] = place[y] => x = y
    BY <1>1 DEF Bijection, Injection, IsInjective
  <2> HIDE DEF part, place, range
  <2> QED BY <1>2, <2>1
<1>4. \A i \in (a + 1)..b : \E x \in range : part[x] = i
  <2>1. TAKE i \in (a + 1)..b
  <2>2. i \in 1..n
    BY ListsAreFinite
  <2>3. PICK x \in L : place[x] = i
    BY <1>1, <2>2 DEF Bijection, Surjection
  <2>4. x \in range
    BY <2>1, <2>3 DEF Between
  <2> QED BY <2>3, <2>4
<1>5. part \in Bijection(range, (a + 1)..b)
  <2>1. part \in [range -> (a + 1)..b]
    BY <1>2
  <2> HIDE DEF part, range
  <2> QED BY <1>3, <1>4, <2>1 DEF Bijection, Injection, IsInjective, Surjection
<1>6. IsFiniteSet(range)
  BY <1>2, ListsAreFinite, FS_Subset
<1>7. Cardinality((a + 1)..b) = IF a + 1 > b THEN 0 ELSE b - (a + 1) + 1
  BY FS_Interval
<1>8. Cardinality(range) = Cardinality((a + 1)..b)
  <2> HIDE DEF part, range
  <2>1. ExistsBijection(range, (a + 1)..b)
    BY <1>5 DEF ExistsBijection
  <2> QED BY <1>6, <2>1, FS_Bijection
<1> QED BY <1>6, <1>7, <1>8

-----------------------------------------------------------------------------
(* What one change of the table does to a list.                            *)

\* The lists of t and u differ by lines of Z only.
Alike(t, u, list, Z) ==
    /\ Lines(t, list) \ Z = Lines(u, list) \ Z
    /\ \A x, y \in Lines(t, list) \ Z : Before(t, list, x, y) <=> Before(u, list, x, y)

\* One line is put in, taken out, or moved to another place.
OneMoves(t, u, list) == \E Z : AtMostOne(Z) /\ Alike(t, u, list, Z)

LEMMA OneMovesBack ==
    ASSUME NEW t, NEW u, NEW list, OneMoves(t, u, list)
    PROVE  OneMoves(u, t, list)
BY DEF OneMoves, Alike

(* Taking out one row moves the line of that row only.                     *)
LEMMA RemovedRow ==
    ASSUME NEW t \in Seq(Packages), NEW i \in DOMAIN t, NEW list
    PROVE  /\ RemoveAt(t, i) \in Seq(Packages)
           /\ OneMoves(t, RemoveAt(t, i), list)
<1> DEFINE u == RemoveAt(t, i)
           n == Len(t)
           up(j) == IF j < i THEN j ELSE j + 1
           down(j) == IF j < i THEN j ELSE j - 1
           Z == LineOf(list, t[i])
<1>1. n \in Nat /\ i \in 1..n /\ DOMAIN t = 1..n
  OBVIOUS
<1>2. u \in Seq(Packages) /\ Len(u) = n - 1 /\ \A j \in 1..(n - 1) : u[j] = t[up(j)]
  <2>1. /\ SubSeq(t, 1, i - 1) \in Seq(Packages) /\ Len(SubSeq(t, 1, i - 1)) = i - 1
        /\ \A j \in 1..(i - 1) : SubSeq(t, 1, i - 1)[j] = t[j]
    BY <1>1, SubSeqProperties
  <2>2. /\ SubSeq(t, i + 1, n) \in Seq(Packages) /\ Len(SubSeq(t, i + 1, n)) = n - i
        /\ \A j \in 1..(n - i) : SubSeq(t, i + 1, n)[j] = t[i + j]
    BY <1>1, SubSeqProperties
  <2>3. u = SubSeq(t, 1, i - 1) \o SubSeq(t, i + 1, n)
    BY DEF RemoveAt
  <2>4. u \in Seq(Packages) /\ Len(u) = n - 1
    BY <1>1, <2>1, <2>2, <2>3, ConcatProperties
  <2>5. ASSUME NEW j \in 1..(n - 1) PROVE u[j] = t[up(j)]
    <3>1. CASE j < i
      <4>1. j \in 1..(i - 1)
        BY <1>1, <3>1
      <4> QED BY <2>1, <2>2, <2>3, <3>1, <4>1, ConcatProperties
    <3>2. CASE ~(j < i)
      <4>1. j - (i - 1) \in 1..(n - i) /\ i + (j - (i - 1)) = j + 1 /\ j > i - 1
        BY <1>1, <3>2
      <4>2. j \in 1..((i - 1) + (n - i)) /\ ~(j <= i - 1)
        BY <1>1, <4>1
      <4>3. u[j] = SubSeq(t, i + 1, n)[j - (i - 1)]
        <5> DEFINE front == SubSeq(t, 1, i - 1)
                   back == SubSeq(t, i + 1, n)
        <5>1. /\ front \in Seq(Packages) /\ Len(front) = i - 1
              /\ back \in Seq(Packages) /\ Len(back) = n - i
              /\ u = front \o back
          BY <2>1, <2>2, <2>3
        <5> HIDE DEF front, back, up
        <5>2. u[j] = back[j - (i - 1)]
          BY <4>2, <5>1, ConcatProperties
        <5> QED BY <5>2 DEF back
      <4> QED BY <2>2, <3>2, <4>1, <4>3
    <3> QED BY <3>1, <3>2
  <2> QED BY <2>4, <2>5
<1> HIDE DEF u
<1>3. DOMAIN u = 1..(n - 1)
  BY <1>2
<1>4. ASSUME NEW x, x \notin Z
      PROVE  /\ \A j \in Rows(t, list, x) : down(j) \in Rows(u, list, x)
             /\ \A j \in Rows(u, list, x) : up(j) \in Rows(t, list, x)
  <2>1. ASSUME NEW j \in Rows(t, list, x) PROVE down(j) \in Rows(u, list, x)
    <3>1. j \in 1..n /\ x \in LineOf(list, t[j]) /\ j # i
      BY <1>1, <1>4 DEF Rows
    <3>2. down(j) \in 1..(n - 1) /\ up(down(j)) = j
      BY <1>1, <3>1
    <3>3. u[down(j)] = t[j]
      BY <1>2, <3>2
    <3> HIDE DEF down
    <3> QED BY <1>3, <3>1, <3>2, <3>3 DEF Rows
  <2>2. ASSUME NEW j \in Rows(u, list, x) PROVE up(j) \in Rows(t, list, x)
    <3>1. j \in 1..(n - 1) /\ x \in LineOf(list, u[j])
      BY <1>3 DEF Rows
    <3>2. up(j) \in 1..n
      BY <1>1, <3>1
    <3>3. u[j] = t[up(j)]
      BY <1>2, <3>1
    <3> HIDE DEF up
    <3> QED BY <1>1, <3>1, <3>2, <3>3 DEF Rows
  <2> QED BY <2>1, <2>2
<1>5. Lines(t, list) \ Z = Lines(u, list) \ Z
  <2> HIDE DEF up, down, Z
  <2>1. \A x : x \notin Z => (Rows(t, list, x) # {} <=> Rows(u, list, x) # {})
    BY <1>4
  <2> QED BY <1>2, <2>1, RowsOfLine
<1>6. ASSUME NEW x \in Lines(t, list) \ Z, NEW y \in Lines(t, list) \ Z
      PROVE  Before(t, list, x, y) <=> Before(u, list, x, y)
  <2>1. ASSUME NEW j \in Rows(t, list, x), \A k \in Rows(t, list, y) : j < k
        PROVE  \A k \in Rows(u, list, y) : down(j) < k
    <3>1. TAKE k \in Rows(u, list, y)
    <3>2. j < up(k)
      BY <1>4, <2>1
    <3>3. j \in 1..n /\ k \in 1..(n - 1) /\ j # i
      BY <1>1, <1>3 DEF Rows
    <3> QED BY <1>1, <3>2, <3>3
  <2>2. ASSUME NEW j \in Rows(u, list, x), \A k \in Rows(u, list, y) : j < k
        PROVE  \A k \in Rows(t, list, y) : up(j) < k
    <3>1. TAKE k \in Rows(t, list, y)
    <3>2. j < down(k)
      BY <1>4, <2>2
    <3>3. j \in 1..(n - 1) /\ k \in 1..n /\ k # i
      BY <1>1, <1>3 DEF Rows
    <3> QED BY <1>1, <3>2, <3>3
  <2> HIDE DEF up, down
  <2> QED BY <1>4, <2>1, <2>2 DEF Before
<1>7. AtMostOne(Z)
  BY OneLine DEF AtMostOne
<1>8. Alike(t, u, list, Z)
  BY <1>5, <1>6 DEF Alike
<1> QED BY <1>2, <1>7, <1>8 DEF OneMoves, u

(* So does putting one in on top: it undoes taking out the first row.      *)
LEMMA AddedRow ==
    ASSUME NEW t \in Seq(Packages), NEW p \in Packages, NEW list
    PROVE  /\ <<p>> \o t \in Seq(Packages)
           /\ OneMoves(t, <<p>> \o t, list)
<1> DEFINE u == <<p>> \o t
<1>1. /\ u \in Seq(Packages) /\ Len(u) = Len(t) + 1
      /\ \A j \in 1..Len(t) : u[j + 1] = t[j]
  OBVIOUS
<1>2. 1 \in DOMAIN u
  BY <1>1
<1> HIDE DEF u
<1>3. RemoveAt(u, 1) = t
  <2>1. SubSeq(u, 1, 0) = <<>>
    BY <1>1, SubSeqProperties
  <2>2. /\ SubSeq(u, 2, Len(u)) \in Seq(Packages)
        /\ Len(SubSeq(u, 2, Len(u))) = Len(t)
        /\ \A j \in 1..Len(t) : SubSeq(u, 2, Len(u))[j] = u[j + 1]
    BY <1>1, SubSeqProperties
  <2>3. SubSeq(u, 2, Len(u)) = t
    BY <1>1, <2>2, SeqEqual
  <2>4. RemoveAt(u, 1) = <<>> \o SubSeq(u, 2, Len(u))
    BY <2>1 DEF RemoveAt
  <2> QED BY <2>2, <2>3, <2>4
<1>4. OneMoves(u, t, list)
  BY <1>1, <1>2, <1>3, RemovedRow
<1> QED BY <1>1, <1>4, OneMovesBack DEF u

\* The lines beyond place c, and those that a change brings there.
Beyond(t, list, c) == {x \in Lines(t, list) : Place(t, list, x) > c}
Crossing(t, u, list, c) == Beyond(u, list, c) \ Beyond(t, list, c)

LEMMA LinesBeyond ==
    ASSUME NEW t \in Seq(Packages), NEW list, NEW c \in Nat
    PROVE  LET n == Cardinality(Lines(t, list))
           IN  /\ IsFiniteSet(Beyond(t, list, c))
               /\ Cardinality(Beyond(t, list, c)) = IF c < n THEN n - c ELSE 0
<1> DEFINE n == Cardinality(Lines(t, list))
<1>1. n \in Nat
  BY ListsAreFinite
<1>2. Beyond(t, list, c) = Between(t, list, c, n)
  BY <1>1, UpToFinite DEF Beyond, Between
<1> HIDE DEF n
<1>3. n <= Cardinality(Lines(t, list))
  BY <1>1 DEF n
<1> QED BY <1>1, <1>2, <1>3, LinesInRange DEF n

(* A change that moves one line pushes at most one line beyond any place,  *)
(* and none if no line was put anywhere.                                   *)
LEMMA FewCross ==
    ASSUME NEW t \in Seq(Packages), NEW u \in Seq(Packages), NEW list, NEW c \in Nat,
           OneMoves(t, u, list)
    PROVE  /\ AtMostOne(Crossing(t, u, list, c))
           /\ Within(u, t, list) => Crossing(t, u, list, c) = {}
<1>1. PICK Z : AtMostOne(Z) /\ Alike(t, u, list, Z)
  BY DEF OneMoves
<1>2. \A x : Place(t, list, x) \in Nat /\ Place(u, list, x) \in Nat
  BY UpToFinite
\* Two of the others cannot cross together, ...
<1>3. ASSUME NEW x \in Crossing(t, u, list, c), NEW y \in Crossing(t, u, list, c),
             x \notin Z, y \notin Z, Before(u, list, x, y)
      PROVE  FALSE
  <2>1. /\ x \in Lines(u, list) /\ x \in Lines(t, list)
        /\ y \in Lines(u, list) /\ y \in Lines(t, list)
        /\ Place(u, list, x) > c /\ Place(t, list, y) <= c
    BY <1>1, <1>2, <1>3 DEF Crossing, Beyond, Alike
  <2>2. Place(u, list, y) > Place(u, list, x)
    BY <1>3, <2>1, PlacesFollowOrder
  <2>3. UpTo(u, list, y) \subseteq UpTo(t, list, y) \cup Z
    BY <1>1, <1>3, <2>1 DEF UpTo, Alike
  <2>4. Place(u, list, y) <= Place(t, list, y) + 1
    BY <1>1, <2>3, UpToFinite, OneMore DEF Place
  <2> QED BY <1>2, <2>1, <2>2, <2>4
\* ... and who crosses has the one that moves before it, which stays.
<1>4. ASSUME NEW x \in Crossing(t, u, list, c), x \notin Z,
             NEW z \in Crossing(t, u, list, c), z \in Z
      PROVE  FALSE
  <2>1. /\ x \in Lines(u, list) /\ x \in Lines(t, list) /\ z \in Lines(u, list)
        /\ Place(u, list, x) > c /\ Place(u, list, z) > c /\ Place(t, list, x) <= c
    BY <1>1, <1>2, <1>4 DEF Crossing, Beyond, Alike
  <2>2. UpTo(u, list, x) \subseteq UpTo(t, list, x) \cup Z
    BY <1>1, <1>4, <2>1 DEF UpTo, Alike
  <2>3. Place(u, list, x) <= Place(t, list, x) + 1
    BY <1>1, <2>2, UpToFinite, OneMore DEF Place
  <2>4. ASSUME ~Before(u, list, z, x) PROVE FALSE
    <3>1. z \notin UpTo(u, list, x)
      BY <1>4, <2>4 DEF UpTo
    <3>2. UpTo(u, list, x) \subseteq UpTo(t, list, x)
      BY <1>1, <1>4, <2>2, <3>1 DEF AtMostOne
    <3>3. Place(u, list, x) <= Place(t, list, x)
      BY <3>2, UpToFinite, FS_Subset DEF Place
    <3> QED BY <1>2, <2>1, <3>3
  <2>5. Place(u, list, z) < Place(u, list, x)
    BY <2>1, <2>4, PlacesFollowOrder
  <2> QED BY <1>2, <2>1, <2>3, <2>5
<1>5. ASSUME NEW x \in Crossing(t, u, list, c), NEW y \in Crossing(t, u, list, c), x # y
      PROVE  FALSE
  <2>1. Before(u, list, x, y) \/ Before(u, list, y, x)
    BY <1>5, LinesAreOrdered DEF Crossing, Beyond
  <2>2. x \notin Z \/ y \notin Z
    BY <1>1, <1>5 DEF AtMostOne
  <2> QED BY <1>3, <1>4, <2>1, <2>2
<1>6. ASSUME Within(u, t, list), NEW x \in Crossing(t, u, list, c)
      PROVE  FALSE
  <2>1. /\ x \in Lines(u, list) /\ x \in Lines(t, list)
        /\ Place(u, list, x) > c /\ Place(t, list, x) <= c
    BY <1>2, <1>6 DEF Crossing, Beyond, Within
  <2>2. UpTo(u, list, x) \subseteq UpTo(t, list, x)
    BY <1>6, <2>1 DEF UpTo, Within
  <2>3. Place(u, list, x) <= Place(t, list, x)
    BY <2>2, UpToFinite, FS_Subset DEF Place
  <2> QED BY <1>2, <2>1, <2>3
<1> QED BY <1>5, <1>6 DEF AtMostOne

(* It makes the list at most one line longer.                              *)
LEMMA FewCome ==
    ASSUME NEW t \in Seq(Packages), NEW u \in Seq(Packages), NEW list, OneMoves(t, u, list)
    PROVE  Cardinality(Lines(u, list)) <=
              Cardinality(Lines(t, list)) + IF Within(u, t, list) THEN 0 ELSE 1
<1> DEFINE D == Crossing(t, u, list, 0)
<1>1. Lines(u, list) \subseteq Lines(t, list) \cup D
  <2>1. \A x \in Lines(u, list) : Place(u, list, x) > 0
    BY UpToFinite
  <2> QED BY <2>1 DEF Crossing, Beyond
<1>2. AtMostOne(D) /\ (Within(u, t, list) => D = {})
  BY FewCross
<1> HIDE DEF D
<1> QED BY <1>1, <1>2, ListsAreFinite, OneMore

-----------------------------------------------------------------------------
(* The invariant.                                                          *)

(* The offset is what the page and its size say, if that is an int.        *)
LEMMA OffsetsOfInts ==
    ASSUME NEW p \in 1..IntMax, NEW s \in 1..MaxSize, NEW a, a.page = p, a.size = s
    PROVE  /\ (p - 1) * s \in Nat /\ p * s = (p - 1) * s + s /\ (p + 1 - 1) * s = p * s
           /\ p <= p * s
           /\ (p - 1) * s <= IntMax => Offset(a) = (p - 1) * s
<1>1. p \in Nat /\ s \in Nat /\ p >= 1 /\ s >= 1 /\ IntMax \in Nat
  BY SizesAssumption
<1>2. (p - 1) * s \in Nat /\ p * s = (p - 1) * s + s /\ (p + 1 - 1) * s = p * s
  BY <1>1
<1>3. p <= p * s
  BY <1>1
<1>4. (p - 1) * s <= IntMax => Wrap((p - 1) * s) = (p - 1) * s
  <2> DEFINE n == (p - 1) * s
  <2>1. n \in Nat
    BY <1>2
  <2> HIDE DEF n
  <2>2. n <= IntMax => ((n + IntMax + 1) % (2 * (IntMax + 1))) - (IntMax + 1) = n
    BY <1>1, <2>1
  <2> QED BY <2>2 DEF Wrap, n
<1> QED BY <1>2, <1>3, <1>4 DEF Offset

(* What the parts of the invariant speak of.                               *)
LEMMA WalkTypes ==
    ASSUME TypeOK, pc # "idle"
    PROVE  /\ ask \in [list : Names \cup {Summaries}, page : 1..IntMax, size : 1..MaxSize]
           /\ ask.page \in 1..IntMax /\ ask.size \in 1..MaxSize
           /\ IsFiniteSet(Lines(table, ask.list)) /\ Size \in 0..IntMax
           /\ IsFiniteSet(items) /\ IsFiniteSet(seen) /\ IsFiniteSet(stayed)
           /\ Cardinality(items) \in Nat /\ Cardinality(seen) \in Nat
           /\ Cardinality(stayed) \in Nat
           /\ \A x : Place(table, ask.list, x) \in 0..Size
<1>1. /\ ask \in [list : Names \cup {Summaries}, page : 1..IntMax, size : 1..MaxSize]
      /\ items \cup seen \cup stayed \subseteq AllLines(ask.list)
      /\ table \in Seq(Packages)
  BY DEF TypeOK
<1>2. IsFiniteSet(Lines(table, ask.list)) /\ Size \in 0..IntMax /\ IsFiniteSet(AllLines(ask.list))
  BY <1>1, ListsAreFinite DEF Size
<1>3. IsFiniteSet(items) /\ IsFiniteSet(seen) /\ IsFiniteSet(stayed)
  BY <1>1, <1>2, FS_Subset
<1>4. \A x : Place(table, ask.list, x) \in 0..Size
  BY <1>1, <1>2, UpToFinite DEF Size
<1> QED BY <1>1, <1>2, <1>3, <1>4, FS_CardinalityType

LEMMA InitInv ==
    ASSUME Init
    PROVE  ReportsInv
<1>1. TypeOK
  <2>1. 0 \in 0..IntMax
    BY SizesAssumption
  <2>2. <<>> \in Seq(Packages)
    OBVIOUS
  <2> QED BY <2>1, <2>2 DEF Init, TypeOK
<1>2. RepeatsHaveCause
  BY FS_EmptySet DEF Init, RepeatsHaveCause, Twice
<1> QED BY <1>1, <1>2 DEF Init, ReportsInv, WalkInv, Walking, MissesHaveCause, PageFitsTotal

LEMMA AskInv ==
    ASSUME ReportsInv, NEW list \in Names \cup {Summaries},
           NEW page \in Params, NEW size \in Params, Ask(list, page, size)
    PROVE  ReportsInv'
<1>1. /\ pc = "idle" /\ pc' = "asked" /\ ask' = ParsePage(list, page, size)
      /\ stayed' = IF ask'.page = 1 THEN Lines(table, list) ELSE {}
      /\ UNCHANGED <<table, total, items, seen, shown, gone, came, torn>>
  BY DEF Ask
<1>2. items = {} /\ seen = {} /\ shown = 0 /\ TypeOK
  BY <1>1 DEF ReportsInv, TypeOK
<1>3. /\ ask' \in [list : Names \cup {Summaries}, page : 1..IntMax, size : 1..MaxSize]
      /\ ask'.list = list
  <2>1. Positive(page, 1) \in 1..IntMax
    BY SizesAssumption, ParamsAssumption DEF Positive
  <2>2. Least(Positive(size, DefaultSize), MaxSize) \in 1..MaxSize
    BY SizesAssumption, ParamsAssumption DEF Positive, Least
  <2> QED BY <1>1, <2>1, <2>2 DEF ParsePage
<1>4. TypeOK'
  <2>1. Lines(table, list) \subseteq AllLines(list)
    BY <1>2, ListsAreFinite DEF TypeOK
  <2> QED BY <1>1, <1>2, <1>3, <2>1 DEF TypeOK
<1>5. /\ ask'.page \in 1..IntMax /\ ask'.size \in 1..MaxSize /\ IntMax \in Nat
      /\ gone \in Nat /\ came \in Nat
  BY <1>2, <1>3, SizesAssumption DEF TypeOK
<1>6. stayed' \subseteq Lines(table, list)'
  BY <1>1
<1>7. FirstOrInt'
  BY <1>1, <1>2, <1>5 DEF FirstOrInt
<1>8. PassedUnseen'
  <2>1. {x \in (stayed \ Known)' : PlaceNow(x)' <= Passed'} = {}
    <3>1. ASSUME NEW x \in stayed', PlaceNow(x)' <= Passed' PROVE FALSE
      <4>1. ask'.page = 1 /\ x \in Lines(table, list)
        BY <1>1, <3>1
      <4>2. Passed' = 0
        BY <1>1, <1>5, <4>1 DEF Passed
      <4>3. PlaceNow(x)' = Place(table, list, x)
        BY <1>1, <1>3 DEF PlaceNow
      <4>4. Place(table, list, x) > 0 /\ Place(table, list, x) \in Nat
        BY <1>2, <4>1, UpToFinite DEF TypeOK
      <4> QED BY <3>1, <4>2, <4>3, <4>4
    <3> QED BY <3>1
  <2> QED BY <1>1, <1>5, <2>1, FS_EmptySet DEF PassedUnseen
<1>9. SeenAhead'
  <2>1. Known' = {} /\ Repeated' = 0
    BY <1>1, <1>2, FS_EmptySet DEF Known, Repeated
  <2>2. {x \in Known' \cap Lines(table, ask.list)' : PlaceNow(x)' > Passed'} = {}
    BY <2>1
  <2> QED BY <1>1, <1>5, <2>1, <2>2, FS_EmptySet DEF SeenAhead
<1>10. MissesHaveCause' /\ RepeatsHaveCause' /\ PageFitsTotal'
  BY <1>1 DEF ReportsInv, MissesHaveCause, RepeatsHaveCause, Twice, PageFitsTotal
<1> QED BY <1>1, <1>3, <1>4, <1>6, <1>7, <1>8, <1>9, <1>10
        DEF ReportsInv, WalkInv, CountIsNear, LastPage

LEMMA CountInv ==
    ASSUME ReportsInv, Count
    PROVE  ReportsInv'
<1> DEFINE L == Lines(table, ask.list)
           prev == (ask.page - 1) * ask.size
<1>1. /\ pc = "asked" /\ total' = Size /\ torn' = 0
      /\ UNCHANGED <<table, ask, seen, shown, stayed, gone, came>>
      /\ Offset(ask) >= total' => pc' = "page" /\ items' = {}
      /\ ~(Offset(ask) >= total') => pc' = "counted" /\ UNCHANGED items
  BY DEF Count, Size
<1>2. /\ TypeOK /\ RepeatsHaveCause /\ stayed \subseteq L
      /\ FirstOrInt /\ PassedUnseen /\ SeenAhead
  BY <1>1 DEF ReportsInv, WalkInv, Walking
<1>3. /\ ask.page \in 1..IntMax /\ ask.size \in 1..MaxSize
      /\ Size \in 0..IntMax /\ IntMax \in Nat /\ MaxSize \in Nat
      /\ IsFiniteSet(L) /\ IsFiniteSet(seen) /\ IsFiniteSet(stayed)
      /\ Cardinality(seen) \in Nat /\ \A x : PlaceNow(x) \in 0..Size
      /\ {shown, gone, came} \subseteq Nat
  BY <1>1, <1>2, WalkTypes, SizesAssumption DEF TypeOK, PlaceNow
<1>4. /\ prev \in Nat /\ ask.page * ask.size = prev + ask.size
      /\ prev <= IntMax => Offset(ask) = prev
  BY <1>3, OffsetsOfInts
<1>5. Known = seen /\ Repeated = shown - Cardinality(seen) /\ Passed = prev
  BY <1>1, <1>3 DEF Known, Repeated, Passed
<1> DEFINE R == {x \in seen \cap L : PlaceNow(x) > prev}
           M == {x \in stayed \ seen : PlaceNow(x) <= prev}
<1>6. /\ shown - Cardinality(seen) + Cardinality(R) <= came
      /\ Cardinality(M) <= gone /\ IsFiniteSet(R) /\ IsFiniteSet(M)
      /\ Cardinality(R) \in Nat /\ Cardinality(M) \in Nat
  <2>1. IsFiniteSet(R) /\ IsFiniteSet(M)
    BY <1>3, FS_Subset
  <2> QED BY <1>2, <1>5, <2>1, FS_CardinalityType DEF SeenAhead, PassedUnseen
<1>7. TypeOK'
  BY <1>1, <1>2, <1>3 DEF TypeOK
<1>8. Size' = Size /\ \A x : PlaceNow(x)' = PlaceNow(x)
  BY <1>1 DEF Size, PlaceNow
<1>9. stayed' \subseteq Lines(table, ask.list)' /\ FirstOrInt'
  BY <1>1, <1>2 DEF FirstOrInt
<1>10. MissesHaveCause' /\ RepeatsHaveCause'
  BY <1>1, <1>2 DEF MissesHaveCause, RepeatsHaveCause, Twice
<1>11. CASE pc' = "counted"
  <2>1. Known' = seen /\ Repeated' = shown - Cardinality(seen) /\ Passed' = prev
    BY <1>1, <1>3, <1>11 DEF Known, Repeated, Passed
  <2>2. PassedUnseen'
    <3>1. {x \in (stayed \ Known)' : PlaceNow(x)' <= Passed'} = M
      BY <1>1, <1>8, <2>1
    <3> QED BY <1>1, <1>6, <3>1 DEF PassedUnseen
  <2>3. SeenAhead'
    <3>1. {x \in Known' \cap Lines(table, ask.list)' : PlaceNow(x)' > Passed'} = R
      BY <1>1, <1>8, <2>1
    <3> QED BY <1>1, <1>6, <2>1, <3>1 DEF SeenAhead
  <2>4. CountIsNear'
    BY <1>1, <1>3, <1>8 DEF CountIsNear
  <2> QED BY <1>7, <1>9, <1>10, <1>11, <2>2, <2>3, <2>4
          DEF ReportsInv, WalkInv, LastPage, PageFitsTotal
<1>12. CASE pc' = "page"
  <2>1. items' = {} /\ Offset(ask) >= Size
    BY <1>1, <1>12
  <2>2. /\ Known' = seen /\ Repeated' = shown - Cardinality(seen)
        /\ Passed' = prev + ask.size
    BY <1>1, <1>3, <1>4, <1>12, <2>1, FS_EmptySet DEF Known, Repeated, Passed
  \* There is nothing beyond the offset.
  <2>3. stayed \ seen \subseteq M
    <3>1. CASE prev <= IntMax
      BY <1>2, <1>3, <1>4, <2>1, <3>1
    <3>2. CASE stayed = {}
      BY <3>2
    <3> QED BY <1>2, <3>1, <3>2 DEF FirstOrInt
  <2>4. /\ IsFiniteSet(stayed \ seen) /\ Cardinality(stayed \ seen) \in Nat
        /\ Cardinality(stayed \ seen) <= gone
    BY <1>3, <1>6, <2>3, FS_Subset, FS_CardinalityType
  <2>5. PassedUnseen'
    <3>1. {x \in (stayed \ Known)' : PlaceNow(x)' <= Passed'} \in SUBSET (stayed \ seen)
      BY <1>1, <2>2
    <3>2. /\ Cardinality({x \in (stayed \ Known)' : PlaceNow(x)' <= Passed'})
                <= Cardinality(stayed \ seen)
          /\ IsFiniteSet({x \in (stayed \ Known)' : PlaceNow(x)' <= Passed'})
      BY <2>4, <3>1, FS_Subset
    <3> QED BY <1>1, <1>3, <2>4, <3>2, FS_CardinalityType DEF PassedUnseen
  <2>6. SeenAhead'
    <3> DEFINE Rn == {x \in Known' \cap Lines(table, ask.list)' : PlaceNow(x)' > Passed'}
    <3>1. Rn \in SUBSET R
      BY <1>1, <1>3, <1>4, <1>8, <2>2
    <3>2. Cardinality(Rn) <= Cardinality(R) /\ Cardinality(Rn) \in Nat
      BY <1>6, <3>1, FS_Subset, FS_CardinalityType
    <3> HIDE DEF Rn, R
    <3>3. Repeated' + Cardinality(Rn) <= came'
      BY <1>1, <1>3, <1>6, <2>2, <3>2
    <3> QED BY <3>3 DEF SeenAhead, Rn
  <2>7. LastPage'
    <3>1. Cardinality((stayed \ Known)') <= gone' + torn'
      BY <1>1, <1>3, <2>2, <2>4
    <3> QED BY <3>1 DEF LastPage
  <2>8. PageFitsTotal'
    <3>1. prev <= IntMax => ~(total' > prev)
      BY <1>1, <1>3, <1>4, <2>1
    <3>2. Cardinality(items') = 0
      BY <2>1, FS_EmptySet
    <3>3. Least(0, Least(ask.size, MaxSize)) = 0
      BY <1>3 DEF Least
    <3> HIDE DEF prev
    <3>4. ((ask.page - 1) * ask.size)' = prev /\ ask' = ask
      BY <1>1 DEF prev
    <3> QED BY <3>1, <3>2, <3>3, <3>4 DEF PageFitsTotal
  <2> QED BY <1>7, <1>9, <1>10, <1>12, <2>5, <2>6, <2>7, <2>8
          DEF ReportsInv, WalkInv, CountIsNear
<1> QED BY <1>1, <1>11, <1>12

LEMMA ListInv ==
    ASSUME ReportsInv, List
    PROVE  ReportsInv'
<1> DEFINE L == Lines(table, ask.list)
           prev == (ask.page - 1) * ask.size
<1>1. /\ pc = "counted" /\ UNCHANGED <<table, ask, total, walk>>
      /\ \/ pc' = "failed" /\ UNCHANGED items
         \/ pc' = "page" /\ items' = Page(table, ask)
  BY DEF List
<1>2. /\ TypeOK /\ RepeatsHaveCause /\ stayed \subseteq L
      /\ FirstOrInt /\ PassedUnseen /\ SeenAhead
      /\ Size <= total + torn /\ (gone = 0 /\ came = 0 => Size = total)
  BY <1>1 DEF ReportsInv, WalkInv, Walking, CountIsNear
<1>3. /\ ask.page \in 1..IntMax /\ ask.size \in 1..MaxSize
      /\ Size \in 0..IntMax /\ IntMax \in Nat /\ MaxSize \in Nat /\ total \in Nat
      /\ IsFiniteSet(L) /\ IsFiniteSet(seen) /\ IsFiniteSet(stayed)
      /\ Cardinality(seen) \in Nat /\ \A x : PlaceNow(x) \in 0..Size
      /\ {shown, gone, came, torn} \subseteq Nat /\ table \in Seq(Packages)
      /\ items \cup seen \cup stayed \subseteq AllLines(ask.list)
  BY <1>1, <1>2, WalkTypes, SizesAssumption DEF TypeOK, PlaceNow
<1>4. /\ prev \in Nat /\ ask.page * ask.size = prev + ask.size
      /\ prev <= IntMax => Offset(ask) = prev
  BY <1>3, OffsetsOfInts
<1>5. Known = seen /\ Repeated = shown - Cardinality(seen) /\ Passed = prev
  BY <1>1, <1>3 DEF Known, Repeated, Passed
<1> DEFINE R == {x \in seen \cap L : PlaceNow(x) > prev}
           M == {x \in stayed \ seen : PlaceNow(x) <= prev}
<1>6. /\ shown - Cardinality(seen) + Cardinality(R) <= came
      /\ Cardinality(M) <= gone /\ IsFiniteSet(R) /\ IsFiniteSet(M)
      /\ Cardinality(R) \in Nat /\ Cardinality(M) \in Nat
  <2>1. IsFiniteSet(R) /\ IsFiniteSet(M)
    BY <1>3, FS_Subset
  <2> QED BY <1>2, <1>5, <2>1, FS_CardinalityType DEF SeenAhead, PassedUnseen
<1>7. Page(table, ask) \subseteq L /\ Page(table, ask) \subseteq AllLines(ask.list)
  BY <1>3, ListsAreFinite DEF Page
<1>8. TypeOK'
  BY <1>1, <1>2, <1>3, <1>7 DEF TypeOK, walk
<1>9. /\ Size' = Size /\ \A x : PlaceNow(x)' = PlaceNow(x)
      /\ UNCHANGED <<table, ask, total, seen, shown, stayed, gone, came, torn>>
  BY <1>1 DEF Size, PlaceNow, walk
<1>10. MissesHaveCause' /\ RepeatsHaveCause'
  BY <1>1, <1>2, <1>9 DEF MissesHaveCause, RepeatsHaveCause, Twice
<1>11. CASE pc' = "failed"
  BY <1>8, <1>10, <1>11 DEF ReportsInv, WalkInv, Walking, PageFitsTotal
<1>12. CASE pc' = "page"
  <2>1. /\ items' = Page(table, ask) /\ items' \subseteq L
        /\ IsFiniteSet(items') /\ Cardinality(items') \in Nat
    BY <1>1, <1>3, <1>7, <1>12, FS_Subset, FS_CardinalityType
  <2>2. /\ Known' = seen \cup items' /\ Passed' = prev + ask.size
        /\ Repeated' = shown + Cardinality(items') - Cardinality(seen \cup items')
    BY <1>4, <1>9, <1>12 DEF Known, Repeated, Passed
  <2> DEFINE Rn == {x \in (seen \cup items') \cap L : PlaceNow(x) > prev + ask.size}
             Mn == {x \in stayed \ (seen \cup items') : PlaceNow(x) <= prev + ask.size}
             Ln == {x \in L : PlaceNow(x) > prev + ask.size}
  <2>3. ASSUME IsFiniteSet(Mn), Cardinality(Mn) <= gone PROVE PassedUnseen'
    <3>1. {x \in (stayed \ Known)' : PlaceNow(x)' <= Passed'} = Mn
      BY <1>9, <2>2
    <3> QED BY <1>9, <2>3, <3>1 DEF PassedUnseen
  <2>4. ASSUME Repeated' + Cardinality(Rn) <= came PROVE SeenAhead'
    <3>1. {x \in Known' \cap Lines(table, ask.list)' : PlaceNow(x)' > Passed'} = Rn
      BY <1>9, <2>2
    <3> QED BY <1>9, <2>4, <3>1 DEF SeenAhead
  <2>5. FirstOrInt' /\ stayed' \subseteq Lines(table, ask.list)'
    BY <1>2, <1>9 DEF FirstOrInt
  <2>6. CASE prev <= IntMax
    <3>1. items' = {x \in L : PlaceNow(x) \in (prev + 1)..(prev + ask.size)}
      BY <1>4, <2>1, <2>6 DEF Page, PlaceNow
    <3>2. Mn \in SUBSET M
      BY <1>2, <1>3, <1>4, <3>1
    <3>3. IsFiniteSet(Mn) /\ Cardinality(Mn) <= Cardinality(M) /\ Cardinality(Mn) \in Nat
      BY <1>6, <3>2, FS_Subset, FS_CardinalityType
    <3>4. PassedUnseen'
      <4> HIDE DEF Mn, M
      <4> QED BY <1>3, <1>6, <2>3, <3>3
    \* A line on the page that was seen had gone beyond the last one.
    <3>5. Repeated' + Cardinality(Rn) <= came
      <4> DEFINE Again == seen \cap items'
      <4>1. Again \cup Rn \in SUBSET R /\ Again \cap Rn = {}
        <5> HIDE DEF prev, L
        <5>1. ASSUME NEW x \in Again
              PROVE  x \in R /\ ~(PlaceNow(x) > prev + ask.size)
          BY <1>3, <1>4, <3>1
        <5>2. ASSUME NEW x \in Rn PROVE x \in R
          <6>1. PlaceNow(x) \in Int /\ PlaceNow(x) > prev + ask.size /\ x \in L
            BY <1>3
          <6>2. x \notin items' /\ PlaceNow(x) > prev
            BY <1>3, <1>4, <3>1, <6>1
          <6> QED BY <6>1, <6>2
        <5> QED BY <5>1, <5>2
      <4>2. /\ IsFiniteSet(Again \cup Rn) /\ IsFiniteSet(Again) /\ IsFiniteSet(Rn)
            /\ Cardinality(Again \cup Rn) <= Cardinality(R)
        <5> HIDE DEF Again, Rn, R
        <5>1. IsFiniteSet(Again \cup Rn) /\ Cardinality(Again \cup Rn) <= Cardinality(R)
          BY <1>6, <4>1, FS_Subset
        <5> QED BY <5>1, FS_Subset
      <4>3. Cardinality(Again \cup Rn) = Cardinality(Again) + Cardinality(Rn)
        <5> HIDE DEF Again, Rn
        <5>1. Cardinality(Again \cup Rn)
                = Cardinality(Again) + Cardinality(Rn) - Cardinality(Again \cap Rn)
          BY <4>2, FS_Union
        <5>2. /\ Cardinality(Again) \in Nat /\ Cardinality(Rn) \in Nat
              /\ Cardinality(Again \cap Rn) = 0
          BY <4>1, <4>2, FS_CardinalityType, FS_EmptySet
        <5> QED BY <5>1, <5>2
      <4>4. /\ Cardinality(seen \cup items')
                = Cardinality(seen) + Cardinality(items') - Cardinality(Again)
            /\ Cardinality(Again) \in Nat /\ Cardinality(Rn) \in Nat
        BY <1>3, <2>1, <4>2, FS_Union, FS_CardinalityType
      <4> HIDE DEF Again, Rn, R, prev, L
      <4>5. /\ shown \in Nat /\ came \in Nat /\ Cardinality(items') \in Nat
            /\ Cardinality(seen) \in Nat /\ Cardinality(R) \in Nat
        BY <1>3, <1>6, <2>1
      <4> QED BY <1>6, <2>2, <4>2, <4>3, <4>4, <4>5
    <3>6. SeenAhead'
      BY <2>4, <3>5
    \* What is beyond a last page came after the COUNT.
    <3>7. LastPage'
      <4>1. SUFFICES ASSUME ask.page * ask.size >= total
                     PROVE  Cardinality(stayed \ (seen \cup items')) <= gone + torn
        BY <1>9, <2>2 DEF LastPage
      <4>2. /\ IsFiniteSet(Ln)
            /\ Cardinality(Ln) = IF prev + ask.size < Size THEN Size - (prev + ask.size) ELSE 0
        <5> DEFINE a == prev + ask.size
        <5>1. a \in Nat /\ table \in Seq(Packages)
          BY <1>3, <1>4
        <5>2. Ln = Beyond(table, ask.list, a)
          BY DEF Beyond, PlaceNow
        <5> HIDE DEF Ln, a
        <5>3. IsFiniteSet(Ln) /\ Cardinality(Ln) = IF a < Size THEN Size - a ELSE 0
          BY <5>1, <5>2, LinesBeyond DEF Size
        <5> QED BY <5>3 DEF a
      <4>3. Cardinality(Ln) <= torn /\ Cardinality(Ln) \in Nat
        <5>1. Size \in Nat /\ Size <= total + torn /\ total \in Nat /\ torn \in Nat
          BY <1>2, <1>3
        <5> HIDE DEF Ln, prev
        <5>2. prev + ask.size >= total /\ prev + ask.size \in Nat
          <6>1. prev \in Nat /\ ask.size \in Nat
            BY <1>3, <1>4
          <6>2. prev + ask.size >= total
            <7>1. ask.page * ask.size = prev + ask.size
              BY <1>4
            <7> QED BY <4>1, <7>1, Zenon
          <6> QED BY <6>1, <6>2
        <5> QED BY <4>2, <5>1, <5>2
      <4>4. stayed \ (seen \cup items') \in SUBSET (M \cup Ln)
        <5> HIDE DEF prev, L
        <5>1. ASSUME NEW x \in stayed \ (seen \cup items') PROVE x \in M \cup Ln
          <6>1. PlaceNow(x) \in Int /\ prev \in Int /\ ask.size \in Int /\ x \in L
            BY <1>2, <1>3, <1>4
          <6>2. PlaceNow(x) \notin (prev + 1)..(prev + ask.size)
            BY <3>1, <5>1, <6>1
          <6>3. PlaceNow(x) <= prev \/ PlaceNow(x) > prev + ask.size
            BY <6>1, <6>2
          <6> QED BY <5>1, <6>1, <6>3
        <5> QED BY <5>1
      <4> HIDE DEF M, Ln
      <4>5. /\ IsFiniteSet(M \cup Ln)
            /\ Cardinality(M \cup Ln) = Cardinality(M) + Cardinality(Ln) - Cardinality(M \cap Ln)
        BY <1>6, <4>2, FS_Union
      <4>6. IsFiniteSet(M \cap Ln) /\ Cardinality(M \cap Ln) \in Nat
        BY <1>6, FS_Intersection, FS_CardinalityType
      <4>7. /\ IsFiniteSet(stayed \ (seen \cup items'))
            /\ Cardinality(stayed \ (seen \cup items')) <= Cardinality(M \cup Ln)
        BY <4>4, <4>5, FS_Subset
      <4>8. Cardinality(stayed \ (seen \cup items')) \in Nat
        BY <4>7, FS_CardinalityType
      <4> QED BY <1>3, <1>6, <4>3, <4>5, <4>6, <4>7, <4>8
    <3>8. PageFitsTotal'
      <4>1. SUFFICES ASSUME gone = 0, came = 0
                     PROVE  Cardinality(items') = Least(IF total > prev THEN total - prev ELSE 0,
                                                        Least(ask.size, MaxSize))
        <5> HIDE DEF prev
        <5>1. ((ask.page - 1) * ask.size)' = prev
          BY <1>9 DEF prev
        <5> QED BY <1>9, <5>1 DEF PageFitsTotal
      <4> DEFINE b == Least(prev + ask.size, Size)
      <4>2. Size = total /\ b \in Nat /\ b <= Size
        BY <1>2, <1>3, <1>4, <4>1 DEF Least
      <4>3. items' = Between(table, ask.list, prev, b)
        <5> HIDE DEF prev
        <5>1. ASSUME NEW x \in L
              PROVE  PlaceNow(x) \in (prev + 1)..(prev + ask.size) <=> PlaceNow(x) \in (prev + 1)..b
          <6> HIDE DEF PlaceNow
          <6>1. PlaceNow(x) \in Int /\ PlaceNow(x) <= Size /\ Size \in Int
            BY <1>3
          <6> QED BY <1>3, <1>4, <6>1 DEF Least
        <5>2. items' = {x \in L : PlaceNow(x) \in (prev + 1)..b}
          <6> HIDE DEF b, L, PlaceNow
          <6> QED BY <3>1, <5>1, Zenon
        <5> QED BY <5>2 DEF PlaceNow, L, Between
      <4>4. Cardinality(items') = IF prev < b THEN b - prev ELSE 0
        <5>1. b <= Cardinality(Lines(table, ask.list)) /\ table \in Seq(Packages)
          BY <1>3, <4>2 DEF Size
        <5> HIDE DEF b, prev
        <5> QED BY <1>4, <4>2, <4>3, <5>1, LinesInRange
      <4>5. Least(ask.size, MaxSize) = ask.size
        BY <1>3 DEF Least
      <4> HIDE DEF prev
      <4> QED BY <1>3, <1>4, <4>2, <4>4, <4>5 DEF Least
    <3> QED BY <1>8, <1>10, <1>12, <2>5, <3>4, <3>6, <3>7, <3>8
            DEF ReportsInv, WalkInv, CountIsNear
  \* The offset of a first page that is no int leads anywhere.
  <2>7. CASE ~(prev <= IntMax)
    <3>1. seen = {} /\ shown = 0 /\ stayed = {}
      BY <1>2, <2>7 DEF FirstOrInt
    <3>2. Mn = {} /\ Cardinality(Mn) = 0 /\ IsFiniteSet(Mn)
      BY <3>1, FS_EmptySet
    <3>3. Rn = {} /\ Cardinality(Rn) = 0
      <4>1. Rn = {}
        BY <1>3, <1>4, <2>7
      <4> QED BY <4>1, FS_EmptySet
    <3>4. PassedUnseen'
      <4> HIDE DEF Mn
      <4> QED BY <1>3, <2>3, <3>2
    <3>5. SeenAhead'
      <4>1. Repeated' = 0
        BY <2>1, <2>2, <3>1
      <4> HIDE DEF Rn
      <4> QED BY <1>3, <2>4, <3>3, <4>1
    <3>6. LastPage'
      <4>1. Cardinality((stayed \ Known)') = 0
        BY <1>9, <3>1, FS_EmptySet
      <4> QED BY <1>3, <1>9, <4>1 DEF LastPage
    <3>7. PageFitsTotal'
      <4> HIDE DEF prev
      <4>1. ((ask.page - 1) * ask.size)' = prev
        BY <1>9 DEF prev
      <4> QED BY <2>7, <4>1 DEF PageFitsTotal
    <3> QED BY <1>8, <1>10, <1>12, <2>5, <3>4, <3>5, <3>6, <3>7
            DEF ReportsInv, WalkInv, CountIsNear
  <2> QED BY <2>6, <2>7
<1> QED BY <1>1, <1>11, <1>12

LEMMA ShowInv ==
    ASSUME ReportsInv, Show
    PROVE  ReportsInv'
<1>1. /\ pc = "page" /\ seen' = seen \cup items /\ shown' = shown + Cardinality(items)
      /\ UNCHANGED <<table, total, items, stayed, gone, came, torn>>
      /\ ask.page * ask.size < total =>
            pc' = "asked" /\ ask' = [ask EXCEPT !.page = ask.page + 1]
      /\ ~(ask.page * ask.size < total) => pc' = "done" /\ UNCHANGED ask
  BY DEF Show
<1>2. /\ TypeOK /\ stayed \subseteq Lines(table, ask.list)
      /\ FirstOrInt /\ PassedUnseen /\ SeenAhead /\ LastPage
  BY <1>1 DEF ReportsInv, WalkInv, Walking
<1>3. /\ ask \in [list : Names \cup {Summaries}, page : 1..IntMax, size : 1..MaxSize]
      /\ ask.page \in 1..IntMax /\ ask.size \in 1..MaxSize
      /\ total \in 0..IntMax /\ IntMax \in Nat /\ MaxSize \in Nat
      /\ IsFiniteSet(items) /\ IsFiniteSet(seen) /\ IsFiniteSet(Lines(table, ask.list))
      /\ Cardinality(items) \in Nat /\ {shown, gone, came, torn} \subseteq Nat
      /\ items \cup seen \cup stayed \subseteq AllLines(ask.list)
  BY <1>1, <1>2, WalkTypes, SizesAssumption DEF TypeOK
<1>4. /\ ask.page * ask.size \in Nat /\ ask.page <= ask.page * ask.size
      /\ (ask.page + 1 - 1) * ask.size = ask.page * ask.size
  <2>1. /\ (ask.page - 1) * ask.size \in Nat
        /\ ask.page * ask.size = (ask.page - 1) * ask.size + ask.size
        /\ (ask.page + 1 - 1) * ask.size = ask.page * ask.size
        /\ ask.page <= ask.page * ask.size
    BY <1>3, OffsetsOfInts
  <2> QED BY <1>3, <2>1
<1>5. IsFiniteSet(seen') /\ Cardinality(seen') \in Nat
  BY <1>1, <1>3, FS_Union, FS_CardinalityType
<1>6. /\ Known = seen' /\ Passed = ask.page * ask.size
      /\ Repeated = shown' - Cardinality(seen')
  <2>1. Known = seen' /\ Passed = ask.page * ask.size
    BY <1>1 DEF Known, Passed
  <2>2. Repeated = shown + Cardinality(items) - Cardinality(Known)
    BY <1>1 DEF Repeated
  <2>3. shown' = shown + Cardinality(items)
    BY <1>1
  <2>4. Cardinality(Known) = Cardinality(seen')
    BY <2>1, Zenon
  <2>5. {shown, Cardinality(items), Cardinality(seen')} \subseteq Int
    BY <1>3, <1>5
  <2>6. Repeated = shown' - Cardinality(seen')
    BY <2>2, <2>3, <2>4, <2>5
  <2> QED BY <2>1, <2>6
<1> DEFINE R == {x \in seen' \cap Lines(table, ask.list) : PlaceNow(x) > Passed}
<1>7. Repeated + Cardinality(R) <= came /\ Cardinality(R) \in Nat
  <2>1. IsFiniteSet(R)
    BY <1>3, FS_Subset
  <2> QED BY <1>2, <1>6, <2>1, FS_CardinalityType DEF SeenAhead
<1>8. RepeatsHaveCause'
  <2> HIDE DEF R
  <2>1. shown' - Cardinality(seen') <= came
    BY <1>1, <1>3, <1>6, <1>5, <1>7
  <2> QED BY <1>1, <2>1 DEF RepeatsHaveCause, Twice
<1>9. CASE ask.page * ask.size < total
  <2>1. /\ pc' = "asked" /\ ask'.page = ask.page + 1
        /\ ask'.size = ask.size /\ ask'.list = ask.list
        /\ ask' = [ask EXCEPT !.page = ask.page + 1]
    BY <1>1, <1>3, <1>9
  <2>2. ask.page + 1 \in 1..IntMax
    BY <1>3, <1>4, <1>9
  <2>3. ask' \in [list : Names \cup {Summaries}, page : 1..IntMax, size : 1..MaxSize]
    BY <1>3, <2>1, <2>2
  <2>4. TypeOK'
    BY <1>1, <1>2, <1>3, <2>1, <2>3 DEF TypeOK
  <2>5. /\ Known' = Known /\ Passed' = Passed /\ Repeated' = Repeated
        /\ \A x : PlaceNow(x)' = PlaceNow(x)
        /\ Lines(table, ask.list)' = Lines(table, ask.list)
    <3>1. Known' = seen' /\ Repeated' = shown' + 0 - Cardinality(seen')
      BY <2>1 DEF Known, Repeated
    <3>2. Passed' = Passed
      <4>1. Passed' = (ask'.page - 1) * ask'.size
        BY <2>1 DEF Passed
      <4>2. ask'.page - 1 = ask.page /\ ask'.size = ask.size
        BY <1>3, <2>1
      <4> QED BY <1>6, <4>1, <4>2
    <3>3. Repeated' = Repeated
      BY <1>1, <1>3, <1>6, <1>5, <3>1
    <3>4. \A x : PlaceNow(x)' = PlaceNow(x)
      BY <1>1, <2>1 DEF PlaceNow
    <3> QED BY <1>1, <1>6, <2>1, <3>1, <3>2, <3>3, <3>4
  <2>6. FirstOrInt'
    <3>1. ((ask.page - 1) * ask.size)' = ask.page * ask.size
      <4>1. ask'.page - 1 = ask.page /\ ask'.size = ask.size
        BY <1>3, <2>1
      <4> QED BY <4>1
    <3>2. ask.page * ask.size <= IntMax
      BY <1>3, <1>4, <1>9
    <3> QED BY <3>1, <3>2 DEF FirstOrInt
  <2>7. PassedUnseen' /\ SeenAhead'
    BY <1>1, <1>2, <2>5 DEF PassedUnseen, SeenAhead
  <2>8. stayed' \subseteq Lines(table, ask.list)'
    BY <1>1, <1>2, <2>5
  <2> QED BY <1>8, <2>1, <2>4, <2>6, <2>7, <2>8
          DEF ReportsInv, WalkInv, CountIsNear, LastPage, MissesHaveCause, PageFitsTotal
<1>10. CASE ~(ask.page * ask.size < total)
  <2>1. pc' = "done" /\ ask' = ask
    BY <1>1, <1>10
  <2>2. TypeOK'
    BY <1>1, <1>2, <1>3, <2>1 DEF TypeOK
  <2>3. MissesHaveCause'
    <3>1. ask.page * ask.size >= total
      BY <1>3, <1>4, <1>10
    <3>2. Cardinality(stayed \ Known) <= gone + torn
      BY <1>1, <1>2, <3>1 DEF LastPage
    <3> QED BY <1>1, <1>6, <3>2 DEF MissesHaveCause, Missed
  <2> QED BY <1>8, <2>1, <2>2, <2>3 DEF ReportsInv, WalkInv, Walking, PageFitsTotal
<1> QED BY <1>9, <1>10

(* Any change that moves one line in each list, at any time.               *)
LEMMA ChangeInv ==
    ASSUME ReportsInv, NEW u \in Seq(Packages), \A list : OneMoves(table, u, list), Becomes(u)
    PROVE  ReportsInv'
<1> DEFINE left == IF Within(table, u, ask.list) THEN 0 ELSE 1
           put == IF Within(u, table, ask.list) THEN 0 ELSE 1
<1>1. /\ table' = u /\ UNCHANGED <<pc, ask, total, items, seen, shown>>
      /\ Walking => /\ stayed' = stayed \cap Lines(u, ask.list)
                    /\ gone' = gone + left /\ came' = came + put
                    /\ torn' = torn + IF pc = "counted" THEN put ELSE 0
      /\ ~Walking => UNCHANGED <<stayed, gone, came, torn>>
  BY DEF Becomes, request
<1>2. TypeOK /\ MissesHaveCause /\ RepeatsHaveCause /\ PageFitsTotal
  BY DEF ReportsInv
<1>3. {shown, gone, came, torn} \subseteq Nat /\ left \in {0, 1} /\ put \in {0, 1}
  BY <1>2 DEF TypeOK
<1>4. CASE ~Walking
  <2>1. TypeOK' /\ MissesHaveCause' /\ RepeatsHaveCause' /\ PageFitsTotal' /\ ~Walking'
    BY <1>1, <1>2, <1>4 DEF TypeOK, MissesHaveCause, Missed, RepeatsHaveCause, Twice,
                            PageFitsTotal, Walking
  <2> QED BY <2>1 DEF ReportsInv, WalkInv
<1>5. CASE Walking
  <2> DEFINE L == Lines(table, ask.list)
             Ln == Lines(u, ask.list)
  <2>1. /\ stayed' = stayed \cap Ln /\ gone' = gone + left /\ came' = came + put
        /\ torn' = torn + IF pc = "counted" THEN put ELSE 0
        /\ pc # "idle" /\ pc # "done" /\ Walking'
    BY <1>1, <1>5 DEF Walking
  <2>2. /\ stayed \subseteq L /\ FirstOrInt /\ PassedUnseen /\ SeenAhead
        /\ CountIsNear /\ LastPage
    BY <1>5 DEF ReportsInv, WalkInv
  <2>3. /\ ask.page \in 1..IntMax /\ ask.size \in 1..MaxSize /\ table \in Seq(Packages)
        /\ total \in Nat /\ Size \in Nat /\ IsFiniteSet(L) /\ IsFiniteSet(Ln)
        /\ IsFiniteSet(items) /\ IsFiniteSet(seen) /\ IsFiniteSet(stayed)
        /\ Cardinality(items) \in Nat
        /\ OneMoves(table, u, ask.list) /\ OneMoves(u, table, ask.list)
    BY <1>2, <2>1, WalkTypes, ListsAreFinite, OneMovesBack DEF TypeOK
  <2>4. Passed \in Nat /\ Passed' = Passed
    <3>1. (ask.page - 1) * ask.size \in Nat /\ ask.page * ask.size \in Nat
      <4>1. /\ (ask.page - 1) * ask.size \in Nat
            /\ ask.page * ask.size = (ask.page - 1) * ask.size + ask.size
        BY <2>3, OffsetsOfInts
      <4> QED BY <2>3, <4>1
    <3> QED BY <1>1, <3>1 DEF Passed
  <2>5. /\ Known' = Known /\ Repeated' = Repeated /\ Repeated \in Int /\ IsFiniteSet(Known)
        /\ Lines(table, ask.list)' = Ln
        /\ \A x : PlaceNow(x)' = Place(u, ask.list, x)
    <3>1. IsFiniteSet(Known) /\ Cardinality(Known) \in Nat
      BY <2>3, FS_Union, FS_CardinalityType DEF Known
    <3> QED BY <1>1, <1>3, <2>3, <3>1 DEF Known, Repeated, PlaceNow
  <2>6. \A x : Place(u, ask.list, x) \in Nat /\ Place(table, ask.list, x) \in Nat
    BY <2>3, UpToFinite
  <2>7. TypeOK'
    <3> HIDE DEF left, put, L, Ln
    <3>1. {shown, gone, came, torn}' \subseteq Nat
      <4>1. /\ shown \in Nat /\ gone + left \in Nat /\ came + put \in Nat
            /\ torn + (IF pc = "counted" THEN put ELSE 0) \in Nat
        BY <1>3
      <4> QED BY <1>1, <2>1, <4>1
    <3>2. (items \cup seen \cup stayed)' \subseteq AllLines(ask.list)
      BY <1>1, <1>2, <2>1 DEF TypeOK
    <3> QED BY <1>1, <1>2, <2>1, <3>1, <3>2 DEF TypeOK
  <2>8. FirstOrInt'
    BY <1>1, <2>1, <2>2 DEF FirstOrInt
  \* Of what was not seen, what left its place, or moved up, is passed by.
  <2>9. PassedUnseen'
    <3> DEFINE M == {x \in stayed \ Known : PlaceNow(x) <= Passed}
               Mn == {x \in (stayed \cap Ln) \ Known : Place(u, ask.list, x) <= Passed}
               D == Crossing(u, table, ask.list, Passed)
    <3>1. IsFiniteSet(M) /\ Cardinality(M) <= gone /\ Cardinality(M) \in Nat
      <4>1. IsFiniteSet(M)
        BY <2>3, FS_Subset
      <4> QED BY <2>2, <4>1, FS_CardinalityType DEF PassedUnseen
    <3>2. Mn \subseteq M \cup D
      <4>1. ASSUME NEW x \in Mn, x \notin M PROVE x \in D
        <5>1. x \in L /\ x \in Ln /\ Place(u, ask.list, x) <= Passed
              /\ ~(Place(table, ask.list, x) <= Passed)
          BY <2>2, <4>1 DEF PlaceNow
        <5> QED BY <2>4, <2>6, <5>1 DEF Crossing, Beyond
      <4> QED BY <4>1
    <3>3. AtMostOne(D) /\ (left = 0 => D = {})
      BY <2>3, <2>4, FewCross
    <3> HIDE DEF M, D
    <3>4. Cardinality(Mn) <= gone + left
      BY <1>3, <3>1, <3>2, <3>3, OneMore
    <3>5. {x \in (stayed \ Known)' : PlaceNow(x)' <= Passed'} = Mn
      BY <2>1, <2>4, <2>5
    <3> QED BY <2>1, <3>4, <3>5 DEF PassedUnseen
  \* Of what was seen, what came to a place, or moved down, is ahead.
  <2>10. SeenAhead'
    <3> DEFINE R == {x \in Known \cap L : PlaceNow(x) > Passed}
               Rn == {x \in Known \cap Ln : Place(u, ask.list, x) > Passed}
               D == Crossing(table, u, ask.list, Passed)
    <3>1. IsFiniteSet(R) /\ Repeated + Cardinality(R) <= came /\ Cardinality(R) \in Nat
      <4>1. IsFiniteSet(R)
        BY <2>3, FS_Subset
      <4> QED BY <2>2, <4>1, FS_CardinalityType DEF SeenAhead
    <3>2. Rn \subseteq R \cup D
      BY DEF Crossing, Beyond, PlaceNow
    <3>3. AtMostOne(D) /\ (put = 0 => D = {})
      BY <2>3, <2>4, FewCross
    <3> HIDE DEF R, D
    <3>4. Cardinality(Rn) <= Cardinality(R) + put /\ Cardinality(Rn) \in Nat
      BY <1>3, <3>1, <3>2, <3>3, OneMore
    <3>5. {x \in Known' \cap Lines(table, ask.list)' : PlaceNow(x)' > Passed'} = Rn
      BY <2>4, <2>5
    <3> HIDE DEF Rn, put
    <3>6. Repeated' + Cardinality(Rn) <= came'
      BY <1>3, <2>1, <2>5, <3>1, <3>4
    <3> QED BY <3>5, <3>6 DEF SeenAhead
  <2>11. CountIsNear'
    <3>1. SUFFICES ASSUME pc = "counted"
                   PROVE  /\ Size' <= total + torn'
                          /\ gone' = 0 /\ came' = 0 => Size' = total
      BY <1>1 DEF CountIsNear
    <3>2. Size <= total + torn /\ (gone = 0 /\ came = 0 => Size = total)
      BY <2>2, <3>1 DEF CountIsNear
    <3>3. Size' = Cardinality(Ln) /\ Size = Cardinality(L)
      BY <1>1 DEF Size
    <3>4. Size' <= Size + put /\ Size' \in Nat
      BY <2>3, <3>3, FewCome, FS_CardinalityType
    <3>5. torn' = torn + put
      BY <2>1, <3>1
    <3>6. ASSUME gone' = 0, came' = 0 PROVE Size' = total
      <4>1. gone = 0 /\ came = 0 /\ left = 0 /\ put = 0
        BY <1>3, <2>1, <3>6
      <4>2. Within(table, u, ask.list) /\ Within(u, table, ask.list)
        BY <4>1
      <4>3. Ln = L
        BY <4>2 DEF Within
      <4> QED BY <3>2, <3>3, <4>1, <4>3
    <3> HIDE DEF put
    <3>7. Size' <= total + torn'
      BY <1>3, <2>3, <3>2, <3>4, <3>5
    <3> QED BY <3>6, <3>7
  <2>12. LastPage'
    <3>1. SUFFICES ASSUME pc = "page", ask.page * ask.size >= total
                   PROVE  Cardinality(stayed' \ Known) <= gone' + torn'
      BY <1>1, <2>5 DEF LastPage
    <3>2. Cardinality(stayed \ Known) <= gone + torn
      BY <2>2, <3>1 DEF LastPage
    <3>3. stayed' \ Known \in SUBSET (stayed \ Known) /\ IsFiniteSet(stayed \ Known)
      BY <2>1, <2>3, FS_Subset
    <3>4. /\ Cardinality(stayed' \ Known) <= Cardinality(stayed \ Known)
          /\ Cardinality(stayed' \ Known) \in Nat /\ Cardinality(stayed \ Known) \in Nat
      BY <3>3, FS_Subset, FS_CardinalityType
    <3>5. gone' >= gone /\ torn' = torn
      BY <1>3, <2>1, <3>1
    <3>6. {gone, torn, gone'} \subseteq Nat
      BY <1>3, <2>1
    <3> QED BY <3>2, <3>4, <3>5, <3>6
  <2>13. MissesHaveCause' /\ RepeatsHaveCause'
    <3>1. Twice' = Twice /\ came' >= came /\ Twice \in Int
      <4>1. Cardinality(seen) \in Nat
        BY <2>3, FS_CardinalityType
      <4> QED BY <1>1, <1>3, <2>1, <4>1 DEF Twice
    <3>2. came' \in Int /\ came \in Int
      BY <1>3, <2>1
    <3>3. Twice' <= came'
      BY <1>2, <3>1, <3>2 DEF RepeatsHaveCause
    <3> QED BY <1>1, <2>1, <3>3 DEF MissesHaveCause, RepeatsHaveCause
  <2>14. PageFitsTotal'
    <3>1. gone' = 0 /\ came' = 0 => gone = 0 /\ came = 0
      BY <1>3, <2>1
    <3> QED BY <1>1, <1>2, <3>1 DEF PageFitsTotal
  <2>15. stayed' \subseteq Lines(table, ask.list)'
    BY <2>1, <2>5
  <2> QED BY <2>7, <2>8, <2>9, <2>10, <2>11, <2>12, <2>13, <2>14, <2>15 DEF ReportsInv, WalkInv
<1> QED BY <1>4, <1>5

LEMMA EndInv ==
    ASSUME ReportsInv, DatabaseFails \/ Leave
    PROVE  ReportsInv'
<1>1. CASE DatabaseFails
  <2>1. pc # "idle" /\ pc' = "failed" /\ UNCHANGED <<table, ask, total, items, walk>>
    BY <1>1 DEF DatabaseFails
  <2> QED BY <2>1 DEF ReportsInv, TypeOK, WalkInv, Walking, MissesHaveCause,
                      RepeatsHaveCause, Twice, PageFitsTotal, walk
<1>2. CASE Leave
  <2>1. TypeOK'
    BY <1>2, SizesAssumption DEF Leave, ReportsInv, TypeOK
  <2>2. RepeatsHaveCause'
    BY <1>2, FS_EmptySet DEF Leave, RepeatsHaveCause, Twice
  <2> QED BY <1>2, <2>1, <2>2
          DEF Leave, ReportsInv, WalkInv, Walking, MissesHaveCause, PageFitsTotal
<1> QED BY <1>1, <1>2

LEMMA StutterInv ==
    ASSUME ReportsInv, UNCHANGED vars
    PROVE  ReportsInv'
BY DEF ReportsInv, vars, request, walk, TypeOK, WalkInv, Walking, FirstOrInt, PassedUnseen,
       SeenAhead, CountIsNear, LastPage, Known, Repeated, Passed, Size, PlaceNow,
       MissesHaveCause, Missed, RepeatsHaveCause, Twice, PageFitsTotal

(* The inductive invariant of the paged lists.                             *)
THEOREM ReportsInvariant == Spec => []ReportsInv
<1>1. Init => ReportsInv
  BY InitInv
<1>2. ASSUME ReportsInv, [Next]_vars PROVE ReportsInv'
  <2>1. table \in Seq(Packages)
    BY <1>2 DEF ReportsInv, TypeOK
  <2>2. ASSUME NEW p \in Packages, Insert(p) PROVE ReportsInv'
    BY <1>2, <2>1, <2>2, AddedRow, ChangeInv DEF Insert
  <2>3. ASSUME NEW i \in DOMAIN table, Delete(i) PROVE ReportsInv'
    BY <1>2, <2>1, <2>3, RemovedRow, ChangeInv DEF Delete
  <2>4. ASSUME NEW list \in Names \cup {Summaries}, NEW page \in Params, NEW size \in Params,
               Ask(list, page, size)
        PROVE  ReportsInv'
    BY <1>2, <2>4, AskInv
  <2>5. CASE Count
    BY <1>2, <2>5, CountInv
  <2>6. CASE List
    BY <1>2, <2>6, ListInv
  <2>7. CASE Show
    BY <1>2, <2>7, ShowInv
  <2>8. CASE DatabaseFails \/ Leave
    BY <1>2, <2>8, EndInv
  <2>9. CASE UNCHANGED vars
    BY <1>2, <2>9, StutterInv
  <2> QED BY <1>2, <2>2, <2>3, <2>4, <2>5, <2>6, <2>7, <2>8, <2>9 DEF Next
<1> QED BY <1>1, <1>2, PTL DEF Spec

(* Every variable keeps its type.                                          *)
THEOREM TypeCorrect == Spec => []TypeOK
<1>1. ReportsInv => TypeOK
  BY DEF ReportsInv
<1> QED BY <1>1, ReportsInvariant, PTL

(* A walk misses no more lines than changes account for (handler.go:112-128). *)
THEOREM MissesExplained == Spec => []MissesHaveCause
<1>1. ReportsInv => MissesHaveCause
  BY DEF ReportsInv
<1> QED BY <1>1, ReportsInvariant, PTL

(* A walk repeats no more lines than changes account for.                  *)
THEOREM RepeatsExplained == Spec => []RepeatsHaveCause
<1>1. ReportsInv => RepeatsHaveCause
  BY DEF ReportsInv
<1> QED BY <1>1, ReportsInvariant, PTL

(* A page of a table at rest is as long as its total says.                 *)
THEOREM PagesFit == Spec => []PageFitsTotal
<1>1. ReportsInv => PageFitsTotal
  BY DEF ReportsInv
<1> QED BY <1>1, ReportsInvariant, PTL
=============================================================================
