-------------------------- MODULE AddFolderProofs --------------------------
(***************************************************************************)
(* What creating folders keeps, for any requests, paths, servers, batch    *)
(* sizes and numbers of timeouts, crashes and retries.                     *)
(***************************************************************************)
EXTENDS AddFolder, FiniteSetTheorems, SequenceTheorems, WellFoundedInduction, TLAPS

-----------------------------------------------------------------------------
(* Induction over the natural numbers, as a statement about a set of them: *)
(* of a set of intervals one is the least.                                 *)

LEMMA LeastNumber ==
    ASSUME NEW T \in SUBSET Nat, T # {}
    PROVE  \E x \in T : \A y \in T : x <= y
<1> DEFINE F == {0..x : x \in T}
<1>1. IsWellFoundedOn(StrictSubsetOrdering(Nat), FiniteSubsetsOf(Nat))
  BY FS_StrictSubsetOrderingWellFounded
<1>2. F \subseteq FiniteSubsetsOf(Nat) /\ F # {}
  <2>1. \A x \in T : IsFiniteSet(0..x) /\ 0..x \subseteq Nat
    BY FS_Interval
  <2> QED BY <2>1 DEF FiniteSubsetsOf
<1>3. \E X \in F : \A Y \in F : ~(<<Y, X>> \in StrictSubsetOrdering(Nat))
  <2> HIDE DEF F
  <2> QED BY <1>1, <1>2, WFMin
<1>4. PICK x \in T : \A y \in T : ~(<<0..y, 0..x>> \in StrictSubsetOrdering(Nat))
  BY <1>3
<1>5. SUFFICES ASSUME NEW y \in T, y < x PROVE FALSE
  BY <1>4
<1>6. 0..y \in SUBSET Nat /\ 0..x \in SUBSET Nat /\ 0..y \subseteq 0..x /\ 0..y # 0..x
  <2>1. x \in 0..x /\ x \notin 0..y
    BY <1>5
  <2> QED BY <1>5, <2>1
<1>7. <<0..y, 0..x>> \in StrictSubsetOrdering(Nat)
  BY <1>6, Zenon DEF StrictSubsetOrdering
<1> QED BY <1>4, <1>7

LEMMA SetInduction ==
    ASSUME NEW T, 0 \in T, \A n \in Nat : n \in T => n + 1 \in T
    PROVE  Nat \subseteq T
<1> SUFFICES ASSUME Nat \ T # {} PROVE FALSE
  OBVIOUS
<1>1. PICK x \in Nat \ T : \A y \in Nat \ T : x <= y
  BY LeastNumber
<1>2. x # 0 /\ x - 1 \in Nat
  BY <1>1
<1> QED BY <1>1, <1>2

LEMMA MostNumber ==
    ASSUME NEW n \in Nat, NEW T \in SUBSET (0..n), T # {}
    PROVE  \E x \in T : \A y \in T : y <= x
<1> DEFINE D == {n - x : x \in T}
<1>1. D \in SUBSET Nat /\ D # {}
  <2>1. \A x \in T : n - x \in Nat
    OBVIOUS
  <2>2. D \subseteq Nat
    BY <2>1
  <2> QED BY <2>2
<1>2. PICK d \in D : \A c \in D : d <= c
  <2> HIDE DEF D
  <2> QED BY <1>1, LeastNumber
<1>3. PICK x \in T : d = n - x
  OBVIOUS
<1>4. \A y \in T : n - y \in D
  OBVIOUS
<1> HIDE DEF D
<1>5. ASSUME NEW y \in T PROVE y <= x
  <2>1. n - x <= n - y
    BY <1>2, <1>3, <1>4
  <2>2. x \in Nat /\ y \in Nat
    OBVIOUS
  <2> QED BY <2>1, <2>2
<1> QED BY <1>5

-----------------------------------------------------------------------------
(* Sequences: what is removed, and the prefixes of a path. *)

Distinct(q) == \A i, j \in 1..Len(q) : q[i] = q[j] => i = j

LEMMA RangeOf ==
    ASSUME NEW S, NEW q \in Seq(S)
    PROVE  Range(q) = {q[i] : i \in 1..Len(q)} /\ Range(q) \subseteq S
  BY DEF Range

LEMMA RemovedAt ==
    ASSUME NEW S, NEW q \in Seq(S), Distinct(q), NEW i \in 1..Len(q)
    PROVE  /\ RemoveAt(q, i) \in Seq(S)
           /\ Range(RemoveAt(q, i)) = Range(q) \ {q[i]}
           /\ Distinct(RemoveAt(q, i))
<1> DEFINE r == RemoveAt(q, i)
<1>0. Len(q) \in Nat /\ i \in Nat
  OBVIOUS
<1> DEFINE a == SubSeq(q, 1, i - 1)
           b == SubSeq(q, i + 1, Len(q))
<1>1a. a \in Seq(S) /\ b \in Seq(S) /\ Len(a) = i - 1 /\ Len(b) = Len(q) - i
  BY <1>0
<1>1b. \A k \in 1..(i - 1) : a[k] = q[k]
  BY <1>0
<1>1c. \A k \in 1..(Len(q) - i) : b[k] = q[i + k]
  <2> SUFFICES ASSUME NEW k \in 1..(Len(q) - i) PROVE b[k] = q[i + k]
    OBVIOUS
  <2>1. b[k] = q[(i + 1) + k - 1] /\ (i + 1) + k - 1 = i + k
    BY <1>0
  <2> QED BY <2>1
<1>1d. r = a \o b
  BY DEF RemoveAt
<1> HIDE DEF a, b, r
<1>1. r \in Seq(S) /\ Len(r) = Len(q) - 1
  <2>1. r \in Seq(S) /\ Len(r) = Len(a) + Len(b)
    BY <1>1a, <1>1d, ConcatProperties
  <2> QED BY <1>0, <1>1a, <2>1
<1>1e. \A k \in 1..Len(r) : r[k] = IF k <= Len(a) THEN a[k] ELSE b[k - Len(a)]
  <2>1. \A k \in 1..(Len(a) + Len(b)) : r[k] = IF k <= Len(a) THEN a[k] ELSE b[k - Len(a)]
    BY <1>1a, <1>1d, ConcatProperties
  <2>2. Len(a) + Len(b) = Len(r)
    BY <1>0, <1>1, <1>1a
  <2> QED BY <2>1, <2>2
<1>2. \A k \in 1..Len(r) : r[k] = IF k < i THEN q[k] ELSE q[k + 1]
  <2> SUFFICES ASSUME NEW k \in 1..Len(r) PROVE r[k] = IF k < i THEN q[k] ELSE q[k + 1]
    OBVIOUS
  <2>1. CASE k < i
    <3>1. k \in 1..(i - 1) /\ k \in 1..Len(a)
      BY <1>0, <1>1, <1>1a, <2>1
    <3>2. r[k] = a[k]
      BY <1>0, <1>1, <1>1a, <1>1e, <2>1, <3>1
    <3> QED BY <1>1b, <2>1, <3>1, <3>2
  <2>2. CASE ~(k < i)
    <3>1. k - (i - 1) \in 1..(Len(q) - i) /\ i + (k - (i - 1)) = k + 1
      BY <1>0, <1>1, <2>2
    <3>2. r[k] = b[k - (i - 1)]
      BY <1>0, <1>1, <1>1a, <1>1e, <2>2
    <3>3. b[k - (i - 1)] = q[i + (k - (i - 1))]
      BY <1>1c, <3>1
    <3> QED BY <2>2, <3>1, <3>2, <3>3
  <2> QED BY <2>1, <2>2
<1>3. Distinct(r)
  <2> SUFFICES ASSUME NEW k \in 1..Len(r), NEW l \in 1..Len(r), r[k] = r[l] PROVE k = l
    BY DEF Distinct
  <2> DEFINE up(n) == IF n < i THEN n ELSE n + 1
  <2>0. ASSUME NEW n \in 1..Len(r) PROVE up(n) \in 1..Len(q) /\ r[n] = q[up(n)]
    <3>1. n \in Nat /\ n >= 1 /\ n <= Len(q) - 1
      BY <1>0, <1>1
    <3>2. up(n) \in 1..Len(q)
      BY <1>0, <3>1
    <3>3. r[n] = q[up(n)]
      BY <1>2
    <3> QED BY <3>2, <3>3
  <2>1. up(k) \in 1..Len(q) /\ up(l) \in 1..Len(q) /\ q[up(k)] = q[up(l)]
    <3> HIDE DEF up
    <3> QED BY <2>0
  <2>2. up(k) = up(l)
    <3> HIDE DEF up
    <3> QED BY <2>1 DEF Distinct
  <2> QED BY <1>0, <1>1, <2>2
<1>4. Range(r) = Range(q) \ {q[i]}
  <2>1. ASSUME NEW x \in Range(r) PROVE x \in Range(q) \ {q[i]}
    <3>1. PICK k \in 1..Len(r) : x = r[k]
      BY <1>1, RangeOf
    <3> DEFINE up == IF k < i THEN k ELSE k + 1
    <3>2. up \in 1..Len(q) /\ up # i /\ x = q[up]
      BY <1>0, <1>1, <1>2, <3>1
    <3> QED BY <3>2, RangeOf DEF Distinct
  <2>2. ASSUME NEW x \in Range(q), x # q[i] PROVE x \in Range(r)
    <3>1. PICK k \in 1..Len(q) : x = q[k]
      BY RangeOf
    <3> DEFINE down == IF k < i THEN k ELSE k - 1
    <3>2. down \in 1..Len(r) /\ x = r[down]
      BY <1>0, <1>1, <1>2, <2>2, <3>1
    <3> QED BY <1>1, <3>2, RangeOf
  <2> QED BY <2>1, <2>2
<1> QED BY <1>1, <1>3, <1>4 DEF r

\* What is read from the front of a queue, and what stays.
LEMMA Divided ==
    ASSUME NEW S, NEW q \in Seq(S), Distinct(q), NEW n \in 0..Len(q)
    PROVE  LET a == SubSeq(q, 1, n)
               b == SubSeq(q, n + 1, Len(q))
           IN  /\ a \in Seq(S) /\ b \in Seq(S) /\ Len(a) = n
               /\ Range(a) \cup Range(b) = Range(q) /\ Range(a) \cap Range(b) = {}
               /\ Distinct(b)
<1> DEFINE a == SubSeq(q, 1, n)
           b == SubSeq(q, n + 1, Len(q))
<1>0. Len(q) \in Nat /\ n \in Nat
  OBVIOUS
<1>1. a \in Seq(S) /\ b \in Seq(S) /\ Len(a) = n /\ Len(b) = Len(q) - n
  BY <1>0
<1>2. \A k \in 1..n : a[k] = q[k]
  BY <1>0
<1>3. \A k \in 1..(Len(q) - n) : b[k] = q[n + k]
  <2> SUFFICES ASSUME NEW k \in 1..(Len(q) - n) PROVE b[k] = q[n + k]
    OBVIOUS
  <2>1. b[k] = q[(n + 1) + k - 1] /\ (n + 1) + k - 1 = n + k
    BY <1>0
  <2> QED BY <2>1
<1> HIDE DEF a, b
<1>4. Range(a) = {q[k] : k \in 1..n}
  BY <1>0, <1>1, <1>2, RangeOf
<1>5. Range(b) = {q[k] : k \in (n + 1)..Len(q)}
  <2>1. ASSUME NEW x \in Range(b) PROVE \E k \in (n + 1)..Len(q) : x = q[k]
    <3>1. PICK k \in 1..(Len(q) - n) : x = b[k]
      BY <1>1, RangeOf
    <3> QED BY <1>0, <1>3, <3>1
  <2>2. ASSUME NEW k \in (n + 1)..Len(q) PROVE q[k] \in Range(b)
    <3>1. k - n \in 1..(Len(q) - n) /\ n + (k - n) = k
      BY <1>0
    <3>2. b[k - n] = q[k]
      BY <1>3, <3>1
    <3> QED BY <1>1, <3>1, <3>2, RangeOf
  <2> QED BY <2>1, <2>2
<1>6. Distinct(b)
  <2> SUFFICES ASSUME NEW k \in 1..Len(b), NEW l \in 1..Len(b), b[k] = b[l] PROVE k = l
    BY DEF Distinct
  <2>1. n + k \in 1..Len(q) /\ n + l \in 1..Len(q) /\ q[n + k] = q[n + l]
    BY <1>0, <1>1, <1>3
  <2>2. n + k = n + l
    BY <2>1 DEF Distinct
  <2> QED BY <1>0, <1>1, <2>2
<1>7. Range(a) \cap Range(b) = {}
  BY <1>0, <1>4, <1>5 DEF Distinct
<1>8. Range(a) \cup Range(b) = Range(q)
  BY <1>0, <1>4, <1>5, RangeOf
<1> QED BY <1>1, <1>6, <1>7, <1>8 DEF a, b

LEMMA Appended ==
    ASSUME NEW S, NEW q \in Seq(S), Distinct(q), NEW c \in S, c \notin Range(q)
    PROVE  /\ Append(q, c) \in Seq(S) /\ Distinct(Append(q, c))
           /\ Range(Append(q, c)) = Range(q) \cup {c}
<1>0. Len(q) \in Nat
  OBVIOUS
<1>1. /\ Append(q, c) \in Seq(S) /\ Len(Append(q, c)) = Len(q) + 1
      /\ Append(q, c)[Len(q) + 1] = c
      /\ \A k \in 1..Len(q) : Append(q, c)[k] = q[k]
  OBVIOUS
<1>2. 1..(Len(q) + 1) = 1..Len(q) \cup {Len(q) + 1}
  BY <1>0
<1>3. \A k \in 1..Len(q) : q[k] # c
  BY RangeOf
<1>4. Distinct(Append(q, c))
  <2> SUFFICES ASSUME NEW k \in 1..(Len(q) + 1), NEW l \in 1..(Len(q) + 1),
                      Append(q, c)[k] = Append(q, c)[l]
               PROVE  k = l
    BY <1>1 DEF Distinct
  <2>1. CASE k \in 1..Len(q) /\ l \in 1..Len(q)
    BY <1>1, <2>1 DEF Distinct
  <2>2. CASE k = Len(q) + 1 \/ l = Len(q) + 1
    BY <1>1, <1>2, <1>3, <2>2
  <2> QED BY <1>2, <2>1, <2>2
<1>5. Range(Append(q, c)) = Range(q) \cup {c}
  <2>1. Range(Append(q, c)) = {Append(q, c)[k] : k \in 1..Len(q) \cup {Len(q) + 1}}
    BY <1>1, <1>2, RangeOf
  <2>2. Range(q) = {q[k] : k \in 1..Len(q)}
    BY RangeOf
  <2> HIDE <1>2
  <2> QED BY <1>1, <2>1, <2>2
<1> QED BY <1>1, <1>4, <1>5

LEMMA PrefixFacts ==
    ASSUME NEW S, NEW p \in Seq(S)
    PROVE  /\ << >> \in Prefixes(p) /\ p \in Prefixes(p)
           /\ \A q \in Prefixes(p) : /\ q \in Seq(S) /\ Len(q) \in 0..Len(p)
                                     /\ q = SubSeq(p, 1, Len(q))
           /\ \A n \in 0..Len(p) : SubSeq(p, 1, n) \in Prefixes(p) /\ Len(SubSeq(p, 1, n)) = n
<1>0. Len(p) \in Nat
  OBVIOUS
<1>1. \A n \in 0..Len(p) : SubSeq(p, 1, n) \in Prefixes(p) /\ Len(SubSeq(p, 1, n)) = n
  BY DEF Prefixes
<1>2. SubSeq(p, 1, 0) = << >> /\ SubSeq(p, 1, Len(p)) = p /\ 0 \in 0..Len(p) /\ Len(p) \in 0..Len(p)
  BY <1>0
<1>3. ASSUME NEW q \in Prefixes(p)
      PROVE  q \in Seq(S) /\ Len(q) \in 0..Len(p) /\ q = SubSeq(p, 1, Len(q))
  <2>1. PICK l \in 0..Len(p) : q = SubSeq(p, 1, l)
    BY DEF Prefixes
  <2>2. q \in Seq(S) /\ Len(q) = l
    BY <2>1
  <2> QED BY <2>1, <2>2
<1> QED BY <1>1, <1>2, <1>3

\* Prefixes of one path are prefixes of each other.
LEMMA PrefixOrder ==
    ASSUME NEW S, NEW p \in Seq(S), NEW q \in Prefixes(p), NEW r \in Prefixes(p)
    PROVE  /\ Len(q) = Len(r) => q = r
           /\ Len(r) <= Len(q) => r \in Prefixes(q)
<1>0. /\ q \in Seq(S) /\ Len(q) \in 0..Len(p) /\ q = SubSeq(p, 1, Len(q))
      /\ r \in Seq(S) /\ Len(r) \in 0..Len(p) /\ r = SubSeq(p, 1, Len(r))
  BY PrefixFacts
<1>1. Len(q) = Len(r) => q = r
  BY <1>0
<1>2. ASSUME Len(r) <= Len(q) PROVE r \in Prefixes(q)
  <2>1. SubSeq(SubSeq(p, 1, Len(q)), 1, Len(r)) = SubSeq(p, 1, Len(r))
    BY <1>0, <1>2
  <2>2. SubSeq(q, 1, Len(r)) = r
    BY <1>0, <2>1
  <2>3. Len(r) \in 0..Len(q)
    BY <1>0, <1>2
  <2> QED BY <1>0, <2>2, <2>3, PrefixFacts
<1> QED BY <1>1, <1>2

LEMMA PrefixTransitive ==
    ASSUME NEW S, NEW p \in Seq(S), NEW q \in Prefixes(p), NEW r \in Prefixes(q)
    PROVE  r \in Prefixes(p)
<1>0. q \in Seq(S) /\ Len(q) \in 0..Len(p) /\ q = SubSeq(p, 1, Len(q))
  BY PrefixFacts
<1>1. r \in Seq(S) /\ Len(r) \in 0..Len(q) /\ r = SubSeq(q, 1, Len(r))
  BY <1>0, PrefixFacts
<1>2. SubSeq(SubSeq(p, 1, Len(q)), 1, Len(r)) = SubSeq(p, 1, Len(r))
  BY <1>0, <1>1
<1>3. r = SubSeq(p, 1, Len(r)) /\ Len(r) \in 0..Len(p)
  BY <1>0, <1>1, <1>2
<1> QED BY <1>3, PrefixFacts

LEMMA FrontFacts ==
    ASSUME NEW S, NEW p \in Seq(S), NEW q \in Prefixes(p), q # << >>
    PROVE  Front(q) \in Prefixes(p) /\ Len(Front(q)) = Len(q) - 1 /\ Len(q) > 0
<1>0. q \in Seq(S) /\ Len(q) \in 0..Len(p)
  BY PrefixFacts
<1>1. Len(q) > 0 /\ Len(q) - 1 \in 0..Len(q)
  BY <1>0
<1>2. Front(q) \in Prefixes(q) /\ Len(Front(q)) = Len(q) - 1
  BY <1>0, <1>1, PrefixFacts DEF Front
<1> QED BY <1>0, <1>1, <1>2, PrefixTransitive

-----------------------------------------------------------------------------
(***************************************************************************)
(* What a batch makes.  The argument: the folders of an input's path below *)
(* the closest that is there are missing, each is made once and in the one *)
(* above it, and what an earlier input made is there for a later one.      *)
(***************************************************************************)

LEMMA PathFacts ==
    ASSUME NEW p \in Paths
    PROVE  p \in Seq(STRING) /\ p # Root /\ Prefixes(p) \subseteq Paths \cup {Root}
  BY AddFolderAssumption

LEMMA ClosestFacts ==
    ASSUME NEW known, NEW p \in Paths
    PROVE  /\ Closest(known, p) \in Prefixes(p)
           /\ Closest(known, p) = Root \/ At(known, Closest(known, p)) # {}
           /\ \A r \in Prefixes(p) : r = Root \/ At(known, r) # {} => Len(r) <= Len(Closest(known, p))
<1> DEFINE there == {r \in Prefixes(p) : r = Root \/ At(known, r) # {}}
           lengths == {Len(r) : r \in there}
<1>1. Len(p) \in Nat /\ Root \in there /\ \A r \in Prefixes(p) : Len(r) \in 0..Len(p)
  BY PathFacts, PrefixFacts DEF Root
<1>2. lengths \in SUBSET (0..Len(p)) /\ lengths # {}
  BY <1>1
<1>3. PICK n \in lengths : \A m \in lengths : m <= n
  <2> HIDE DEF lengths
  <2> QED BY <1>1, <1>2, MostNumber
<1>4. PICK q \in there : \A r \in there : Len(r) <= Len(q)
  BY <1>3
<1>5. \E q_ \in Prefixes(p) :
         /\ q_ = Root \/ At(known, q_) # {}
         /\ \A r \in Prefixes(p) : r = Root \/ At(known, r) # {} => Len(r) <= Len(q_)
  BY <1>4
<1> QED BY <1>5, Zenon DEF Closest

\* A folder that is missing is not there, and is in one that is or is missing too.
LEMMA MissingFacts ==
    ASSUME NEW known \in SUBSET Folder, NEW p \in Paths, NEW number \in Nat
    PROVE  /\ \A f \in Missing(known, p, number) :
                /\ f \in Folder /\ f.made = number
                /\ f.path \in Prefixes(p) /\ At(known, f.path) = {}
                /\ Len(f.path) > 1 =>
                      \E g \in known \cup Missing(known, p, number) :
                         g.path = Front(f.path) /\ g.made = f.parent
           /\ \A f, g \in Missing(known, p, number) : f.path = g.path => f = g
<1> DEFINE top == Closest(known, p)
           paths == {r \in Prefixes(p) : Len(r) > Len(top)}
           folder(q) == [path |-> q, made |-> number,
                         parent |-> IF Front(q) = top THEN MadeBy(known, Front(q)) ELSE number]
<1>0. p \in Seq(STRING) /\ Prefixes(p) \subseteq Paths \cup {Root}
  BY PathFacts
<1>1. /\ top \in Prefixes(p) /\ (top = Root \/ At(known, top) # {})
      /\ \A r \in Prefixes(p) : r = Root \/ At(known, r) # {} => Len(r) <= Len(top)
  BY ClosestFacts
<1>2. Missing(known, p, number) = {folder(q) : q \in paths}
  BY DEF Missing
<1>3. \A q \in Prefixes(p) : Len(q) \in Nat
  BY <1>0, PrefixFacts
<1> HIDE DEF top
<1>4. ASSUME NEW q \in paths
      PROVE  /\ q \in Prefixes(p) /\ q \in Paths /\ q # Root /\ At(known, q) = {}
             /\ Front(q) \in Prefixes(p) /\ Len(Front(q)) = Len(q) - 1
  <2>1. q \in Prefixes(p) /\ Len(q) > Len(top)
    OBVIOUS
  <2>2. q # Root /\ At(known, q) = {}
    BY <1>1, <1>3, <2>1
  <2> QED BY <1>0, <2>1, <2>2, FrontFacts DEF Root
<1>5. ASSUME NEW q \in Prefixes(p), q = Root \/ At(known, q) # {}
      PROVE  /\ MadeBy(known, q) \in Nat
             /\ q # Root => \E g \in known : g.path = q /\ g.made = MadeBy(known, q)
  <2>1. CASE q = Root
    BY <2>1 DEF MadeBy
  <2>2. CASE q # Root
    <3>1. At(known, q) # {}
      BY <1>5, <2>2
    <3>2. (CHOOSE f \in At(known, q) : TRUE) \in At(known, q)
      BY <3>1, Zenon
    <3> QED BY <2>2, <3>2 DEF MadeBy, At, Folder
  <2> QED BY <2>1, <2>2
<1>6. ASSUME NEW q \in paths
      PROVE  /\ folder(q) \in Folder
             /\ Len(q) > 1 => \E g \in known \cup {folder(r) : r \in paths} :
                                 g.path = Front(q) /\ g.made = folder(q).parent
  <2>0. q \in Paths /\ Front(q) \in Prefixes(p) /\ Len(Front(q)) = Len(q) - 1 /\ Len(q) \in Nat
    BY <1>3, <1>4
  <2>1. CASE Front(q) = top
    <3>1. MadeBy(known, Front(q)) \in Nat
      BY <1>1, <1>5, <2>0, <2>1
    <3>2. folder(q) = [path |-> q, made |-> number, parent |-> MadeBy(known, Front(q))]
      BY <2>1
    <3>3. folder(q) \in Folder
      BY <2>0, <3>1, <3>2 DEF Folder
    <3>4. ASSUME Len(q) > 1
          PROVE  \E g \in known : g.path = Front(q) /\ g.made = folder(q).parent
      <4>1. Front(q) # Root
        BY <2>0, <3>4 DEF Root
      <4>2. \E g \in known : g.path = Front(q) /\ g.made = MadeBy(known, Front(q))
        BY <1>1, <1>5, <2>0, <2>1, <4>1
      <4> QED BY <3>2, <4>2
    <3> QED BY <3>3, <3>4
  <2>2. CASE Front(q) # top
    <3>1. folder(q) = [path |-> q, made |-> number, parent |-> number]
      BY <2>2
    <3>2. folder(q) \in Folder
      BY <2>0, <3>1 DEF Folder
    <3>3. Front(q) \in paths
      <4>1. Len(Front(q)) # Len(top)
        BY <1>0, <1>1, <2>0, <2>2, PrefixOrder
      <4> QED BY <1>1, <1>3, <2>0, <4>1
    <3>4. folder(Front(q)).path = Front(q) /\ folder(Front(q)).made = number
      OBVIOUS
    <3>5. folder(q).parent = number
      BY <3>1
    <3> HIDE DEF folder, paths
    <3> QED BY <3>2, <3>3, <3>4, <3>5
  <2> QED BY <2>1, <2>2
<1>7. \A q : folder(q).path = q /\ folder(q).made = number
  OBVIOUS
<1> HIDE DEF folder, paths
<1> QED BY <1>2, <1>4, <1>6, <1>7

\* What the plan of the first n inputs of a batch has.
PlanOK(s, plan, n) ==
    /\ plan.known = seen[s] \cup DOMAIN plan.maker
    /\ \A f \in DOMAIN plan.maker :
          /\ f \in Folder /\ f.made = batches + 1 /\ At(seen[s], f.path) = {}
          /\ f.path \in Prefixes(plan.maker[f])
          /\ \E c \in Range(batch[s]) : Asks[c].path = plan.maker[f]
          /\ Len(f.path) > 1 =>
                \E g \in plan.known : g.path = Front(f.path) /\ g.made = f.parent
    /\ \A f \in DOMAIN plan.maker, g \in plan.known : f.path = g.path => f = g
    /\ \A c \in DOMAIN plan.target :
          /\ plan.target[c] \in Prefixes(Asks[c].path)
          /\ \A q \in Prefixes(Asks[c].path) :
                q = Root \/ At(seen[s], q) # {} => Len(q) <= Len(plan.target[c])
    /\ \A i \in 1..n : batch[s][i] \in DOMAIN plan.target

LEMMA PlanStep ==
    ASSUME TypeOK, NEW s \in Servers, NEW n \in Nat, n + 1 <= Len(batch[s]),
           NEW plan, PlanOK(s, plan, n)
    PROVE  PlanOK(s, Prepare(plan, batch[s][n + 1], batches + 1), n + 1)
<1> DEFINE c == batch[s][n + 1]
           p == Asks[c].path
           new == Missing(plan.known, p, batches + 1)
           next == Prepare(plan, c, batches + 1)
<1>0. batch[s] \in Seq(Clients) /\ seen[s] \in SUBSET Folder /\ batches + 1 \in Nat
  BY DEF TypeOK
<1>1. n + 1 \in 1..Len(batch[s]) /\ c \in Clients /\ c \in Range(batch[s])
  BY <1>0, RangeOf
<1>2. p \in Paths
  BY <1>1, AddFolderAssumption
<1>3. plan.known \in SUBSET Folder /\ plan.known = seen[s] \cup DOMAIN plan.maker
  BY <1>0 DEF PlanOK
<1>4. /\ \A f \in new :
           /\ f \in Folder /\ f.made = batches + 1
           /\ f.path \in Prefixes(p) /\ At(plan.known, f.path) = {}
           /\ Len(f.path) > 1 =>
                 \E g \in plan.known \cup new : g.path = Front(f.path) /\ g.made = f.parent
      /\ \A f, g \in new : f.path = g.path => f = g
  <2> HIDE DEF p
  <2> QED BY <1>0, <1>2, <1>3, MissingFacts
<1>5. /\ Closest(plan.known, p) \in Prefixes(p)
      /\ \A r \in Prefixes(p) : r = Root \/ At(plan.known, r) # {} => Len(r) <= Len(Closest(plan.known, p))
  <2> HIDE DEF p
  <2> QED BY <1>2, ClosestFacts
<1>6. /\ next.known = plan.known \cup new
      /\ DOMAIN next.maker = new \cup DOMAIN plan.maker
      /\ \A f \in new : next.maker[f] = p
      /\ \A f \in DOMAIN plan.maker : f \notin new => next.maker[f] = plan.maker[f]
      /\ DOMAIN next.target = {c} \cup DOMAIN plan.target
      /\ next.target[c] = Closest(plan.known, p)
      /\ \A d \in DOMAIN plan.target : d # c => next.target[d] = plan.target[d]
  BY DEF Prepare
<1>7. \A f \in new, g \in plan.known : f.path # g.path
  BY <1>4 DEF At
<1>8. \A q : At(seen[s], q) \subseteq At(plan.known, q)
  BY <1>3 DEF At
<1> HIDE DEF new, next, c
<1>9. next.known = seen[s] \cup DOMAIN next.maker
  BY <1>3, <1>6
<1>10. ASSUME NEW f \in DOMAIN next.maker
       PROVE  /\ f \in Folder /\ f.made = batches + 1 /\ At(seen[s], f.path) = {}
              /\ f.path \in Prefixes(next.maker[f])
              /\ \E d \in Range(batch[s]) : Asks[d].path = next.maker[f]
              /\ Len(f.path) > 1 =>
                    \E g \in next.known : g.path = Front(f.path) /\ g.made = f.parent
  <2>1. CASE f \in new
    <3>1. At(seen[s], f.path) = {}
      BY <1>4, <1>8, <2>1
    <3>2. \E d \in Range(batch[s]) : Asks[d].path = next.maker[f]
      BY <1>1, <1>6, <2>1
    <3>3. next.maker[f] = p
      BY <1>6, <2>1
    <3> HIDE DEF p
    <3> QED BY <1>4, <1>6, <2>1, <3>1, <3>2, <3>3
  <2>2. CASE f \notin new
    <3>1. f \in DOMAIN plan.maker /\ next.maker[f] = plan.maker[f]
      BY <1>6, <2>2
    <3>2. /\ f \in Folder /\ f.made = batches + 1 /\ At(seen[s], f.path) = {}
          /\ f.path \in Prefixes(plan.maker[f])
          /\ \E d \in Range(batch[s]) : Asks[d].path = plan.maker[f]
          /\ Len(f.path) > 1 =>
                \E g \in plan.known : g.path = Front(f.path) /\ g.made = f.parent
      BY <3>1, Zenon DEF PlanOK
    <3>3. plan.known \subseteq next.known
      BY <1>6
    <3> QED BY <3>1, <3>2, <3>3
  <2> QED BY <2>1, <2>2
<1>11. ASSUME NEW f \in DOMAIN next.maker, NEW g \in next.known, f.path = g.path PROVE f = g
  <2>1. CASE f \in new /\ g \in new
    BY <1>4, <1>11, <2>1
  <2>2. CASE f \notin new /\ g \notin new
    BY <1>6, <1>11, <2>2 DEF PlanOK
  <2>3. CASE (f \in new /\ g \notin new) \/ (f \notin new /\ g \in new)
    BY <1>3, <1>6, <1>7, <1>11, <2>3
  <2> QED BY <2>1, <2>2, <2>3
<1>12. ASSUME NEW d \in DOMAIN next.target
       PROVE  /\ next.target[d] \in Prefixes(Asks[d].path)
              /\ \A q \in Prefixes(Asks[d].path) :
                    q = Root \/ At(seen[s], q) # {} => Len(q) <= Len(next.target[d])
  <2>1. CASE d = c
    BY <1>5, <1>6, <1>8, <2>1
  <2>2. CASE d # c
    <3>1. d \in DOMAIN plan.target /\ next.target[d] = plan.target[d]
      BY <1>6, <2>2
    <3> QED BY <3>1 DEF PlanOK
  <2> QED BY <2>1, <2>2
<1>13. ASSUME NEW i \in 1..(n + 1) PROVE batch[s][i] \in DOMAIN next.target
  <2>1. i \in 1..n \/ i = n + 1
    OBVIOUS
  <2>2. CASE i = n + 1
    BY <1>6, <2>2 DEF c
  <2>3. CASE i \in 1..n
    BY <1>6, <2>3 DEF PlanOK
  <2> QED BY <2>1, <2>2, <2>3
<1>14. PlanOK(s, next, n + 1)
  BY <1>9, <1>10, <1>11, <1>12, <1>13 DEF PlanOK
<1> QED BY <1>14 DEF next, c

\* The plans of the first inputs of a batch, up to n.
IsPlans(s, n, plan) ==
    plan = [i \in 0..n |->
               IF i = 0 THEN [known |-> seen[s], maker |-> << >>, target |-> << >>]
               ELSE Prepare(plan[i - 1], batch[s][i], batches + 1)]

\* There are such plans for every n, so that Plans has them.
LEMMA PlansDef ==
    ASSUME NEW s, Len(batch[s]) \in Nat
    PROVE  IsPlans(s, Len(batch[s]), Plans(s))
<1> DEFINE Have == {n \in Nat : \E plan : IsPlans(s, n, plan)}
           base == [known |-> seen[s], maker |-> << >>, target |-> << >>]
<1>1. 0 \in Have
  <2>1. IsPlans(s, 0, [i \in 0..0 |-> base])
    BY DEF IsPlans
  <2> QED BY <2>1
<1>2. ASSUME NEW n \in Nat, n \in Have PROVE n + 1 \in Have
  <2>1. PICK plan : IsPlans(s, n, plan)
    BY <1>2
  <2> DEFINE more == [i \in 0..(n + 1) |->
                         IF i <= n THEN plan[i] ELSE Prepare(plan[n], batch[s][i], batches + 1)]
  <2>2. IsPlans(s, n + 1, more)
    <3>1. SUFFICES ASSUME NEW i \in 0..(n + 1)
                   PROVE  more[i] = IF i = 0 THEN base
                                    ELSE Prepare(more[i - 1], batch[s][i], batches + 1)
      BY DEF IsPlans
    <3> HIDE DEF base
    <3>2. CASE i = 0
      BY <2>1, <3>2 DEF IsPlans, base
    <3>3. CASE i # 0 /\ i <= n
      <4>1. i \in 0..n /\ i - 1 \in 0..(n + 1) /\ i - 1 <= n
        BY <3>3
      <4>2. more[i] = plan[i] /\ more[i - 1] = plan[i - 1]
        BY <4>1, <3>3
      <4> QED BY <2>1, <3>3, <4>1, <4>2 DEF IsPlans
    <3>4. CASE i = n + 1
      <4>1. more[i] = Prepare(plan[n], batch[s][i], batches + 1) /\ more[i - 1] = plan[n]
        BY <3>4
      <4> QED BY <3>4, <4>1
    <3> QED BY <3>2, <3>3, <3>4
  <2>3. \E l : IsPlans(s, n + 1, l)
    <3> HIDE DEF more
    <3> QED BY <2>2
  <2> QED BY <2>3
<1>3. \E plan : IsPlans(s, Len(batch[s]), plan)
  <2>1. Nat \subseteq Have
    <3> HIDE DEF Have
    <3> QED BY <1>1, <1>2, SetInduction
  <2> QED BY <2>1
<1>4. IsPlans(s, Len(batch[s]), CHOOSE plan : IsPlans(s, Len(batch[s]), plan))
  BY <1>3, Zenon
<1>5. Plans(s) = CHOOSE plan : IsPlans(s, Len(batch[s]), plan)
  BY Zenon DEF Plans, IsPlans
<1> QED BY <1>4, <1>5, Zenon

LEMMA PlanHolds ==
    ASSUME TypeOK, NEW s \in Servers
    PROVE  PlanOK(s, Plan(s), Len(batch[s]))
<1> DEFINE N == Len(batch[s])
           T == {n \in Nat : n <= N => PlanOK(s, Plans(s)[n], n)}
<1>0. batch[s] \in Seq(Clients) /\ N \in Nat /\ seen[s] \in SUBSET Folder
  BY DEF TypeOK
<1>1. /\ Plans(s)[0] = [known |-> seen[s], maker |-> << >>, target |-> << >>]
      /\ \A n \in Nat : n + 1 <= N =>
            Plans(s)[n + 1] = Prepare(Plans(s)[n], batch[s][n + 1], batches + 1)
  <2>1. ASSUME NEW plan, IsPlans(s, N, plan)
        PROVE  /\ plan[0] = [known |-> seen[s], maker |-> << >>, target |-> << >>]
               /\ \A n \in Nat : n + 1 <= N =>
                     plan[n + 1] = Prepare(plan[n], batch[s][n + 1], batches + 1)
    <3>1. plan[0] = [known |-> seen[s], maker |-> << >>, target |-> << >>]
      BY <1>0, <2>1 DEF IsPlans
    <3>2. ASSUME NEW n \in Nat, n + 1 <= N
          PROVE  plan[n + 1] = Prepare(plan[n], batch[s][n + 1], batches + 1)
      <4>1. n + 1 \in 0..N /\ n + 1 # 0 /\ (n + 1) - 1 = n
        BY <1>0, <3>2
      <4> QED BY <2>1, <4>1 DEF IsPlans
    <3> QED BY <3>1, <3>2
  <2>2. IsPlans(s, N, Plans(s))
    BY <1>0, PlansDef
  <2> QED BY <2>1, <2>2
<1>2. 0 \in T
  <2>1. DOMAIN << >> = {}
    OBVIOUS
  <2>2. PlanOK(s, Plans(s)[0], 0)
    BY <1>1, <2>1 DEF PlanOK
  <2> QED BY <2>2
<1>3. ASSUME NEW n \in Nat, n \in T PROVE n + 1 \in T
  <2>1. SUFFICES ASSUME n + 1 <= N PROVE PlanOK(s, Plans(s)[n + 1], n + 1)
    OBVIOUS
  <2>2. PlanOK(s, Plans(s)[n], n)
    BY <1>0, <1>3, <2>1
  <2>3. PlanOK(s, Prepare(Plans(s)[n], batch[s][n + 1], batches + 1), n + 1)
    BY <2>1, <2>2, PlanStep
  <2> QED BY <1>1, <2>1, <2>3
<1>4. N \in T
  <2>1. Nat \subseteq T
    <3> HIDE DEF T
    <3> QED BY <1>2, <1>3, SetInduction
  <2> QED BY <1>0, <2>1
<1> QED BY <1>0, <1>4 DEF Plan

-----------------------------------------------------------------------------
(***************************************************************************)
(* Types, with it that no request is in the queue twice.                   *)
(***************************************************************************)

Queued == TypeOK /\ Distinct(queue)

LEMMA StoredFacts ==
    ASSUME TypeOK, NEW s \in Servers
    PROVE  Stored(Plan(s), s) \subseteq DOMAIN Plan(s).maker /\ Stored(Plan(s), s) \subseteq Folder
<1>1. Stored(Plan(s), s) \subseteq DOMAIN Plan(s).maker
  BY DEF Stored, Inserted
<1>2. DOMAIN Plan(s).maker \subseteq Folder
  BY PlanHolds DEF PlanOK
<1> QED BY <1>1, <1>2

\* What a batch is answered, of whoever it asks.
LEMMA AnswersType ==
    ASSUME NEW plan, NEW s
    PROVE  \A c \in DOMAIN Answers(plan, s) : Answers(plan, s)[c] \in {"added"} \cup Refused
<1>1. \A c : AnswerTo(plan, s, c) \in {"added"} \cup Refused
  BY DEF AnswerTo, Refused
<1>2. CASE {c \in Range(batch[s]) : Asks[c].agent \in Gone} # {}
  BY <1>2 DEF Answers, Refused
<1>3. CASE {c \in Range(batch[s]) : Asks[c].agent \in Gone} = {}
  <2>1. Answers(plan, s) = [c \in Range(batch[s]) |->
                              IF Broken(plan, s) THEN "failed" ELSE AnswerTo(plan, s, c)]
    BY <1>3 DEF Answers
  <2> QED BY <1>1, <2>1 DEF Refused
<1> QED BY <1>2, <1>3

LEMMA TakeType == ASSUME Queued, NEW s \in Servers, Take(s) PROVE Queued'
<1> DEFINE n == IF Len(queue) < ReadCount THEN Len(queue) ELSE ReadCount
           a == SubSeq(queue, 1, n)
           b == SubSeq(queue, n + 1, Len(queue))
<1>0. queue \in Seq(Clients) /\ Len(queue) \in Nat /\ Distinct(queue)
  BY DEF Queued, TypeOK
<1>1. n \in 0..Len(queue)
  BY <1>0, AddFolderAssumption
<1>2. batch' = [batch EXCEPT ![s] = a] /\ queue' = b
  BY DEF Take
<1> HIDE DEF n
<1>3. /\ a \in Seq(Clients) /\ b \in Seq(Clients) /\ Distinct(b)
      /\ Range(a) \cup Range(b) = Range(queue) /\ Range(a) \cap Range(b) = {}
  BY <1>0, <1>1, Divided
<1> HIDE DEF a, b
<1>4. batch'[s] = a /\ batch' \in [Servers -> Seq(Clients)]
  BY <1>2, <1>3 DEF Queued, TypeOK
<1>5. status' = [c \in Clients |-> IF c \in Range(a) THEN "taken" ELSE status[c]]
  BY <1>4 DEF Take
<1>6. Range(queue') = {c \in Clients : status'[c] = "queued"}
  <2>1. Range(queue) = {c \in Clients : status[c] = "queued"}
    BY DEF Queued, TypeOK
  <2> QED BY <1>2, <1>3, <1>5, <2>1
<1>7. status' \in [Clients -> {"new", "added", "gaveUp", "uploaded", "notUploaded"}
                                 \cup Pending \cup Refused]
  BY <1>5 DEF Queued, TypeOK, Pending
<1>8. seen' \in [Servers -> SUBSET Folder] /\ UNCHANGED <<folders, batches, troubles>>
  BY DEF Take, Queued, TypeOK
<1> QED BY <1>2, <1>3, <1>4, <1>6, <1>7, <1>8 DEF Queued, TypeOK

LEMMA HandleType == ASSUME Queued, NEW s \in Servers, Handle(s) PROVE Queued'
<1>1. folders' \subseteq Folder
  BY StoredFacts DEF Handle, Queued, TypeOK
<1>2. \A c \in Clients : status'[c] = status[c]
                          \/ (status[c] = "taken" /\ status'[c] \in {"added"} \cup Refused)
  BY AnswersType DEF Handle
<1>3. status' \in [Clients -> {"new", "added", "gaveUp", "uploaded", "notUploaded"}
                                 \cup Pending \cup Refused]
  <2>1. status' = [c \in Clients |-> status'[c]]
    BY DEF Handle
  <2>2. \A c \in Clients : status'[c] \in {"new", "added", "gaveUp", "uploaded", "notUploaded"}
                                 \cup Pending \cup Refused
    BY <1>2 DEF Queued, TypeOK
  <2> QED BY <2>1, <2>2
<1>4. \A c \in Clients : status'[c] = "queued" <=> status[c] = "queued"
  BY <1>2 DEF Refused
<1>5. queue' = queue /\ troubles' = troubles /\ batches' \in Nat
  BY DEF Handle, Queued, TypeOK
<1>6. batch' \in [Servers -> Seq(Clients)] /\ seen' \in [Servers -> SUBSET Folder]
  BY DEF Handle, Queued, TypeOK
<1> QED BY <1>1, <1>3, <1>4, <1>5, <1>6 DEF Queued, TypeOK

LEMMA QueuedHolds == Spec => []Queued
<1>1. Init => Queued
  <2> SUFFICES ASSUME Init PROVE Queued
    OBVIOUS
  <2>1. folders \subseteq Folder
    <3>1. Existing \subseteq Paths
      BY AddFolderAssumption
    <3>2. \A p \in Existing : [path |-> p, made |-> 0, parent |-> 0] \in Folder
      BY <3>1 DEF Folder
    <3> QED BY <3>2 DEF Init
  <2>2. queue \in Seq(Clients) /\ Range(queue) = {} /\ Distinct(queue)
    <3>1. queue = << >> /\ Len(queue) = 0 /\ queue \in Seq(Clients)
      BY DEF Init
    <3>2. 1..Len(queue) = {}
      BY <3>1
    <3>3. DOMAIN << >> = {}
      OBVIOUS
    <3>4. Range(queue) = {}
      BY <3>1, <3>3 DEF Range
    <3> QED BY <3>1, <3>2, <3>4 DEF Distinct
  <2>3. \A c \in Clients : status[c] # "queued"
    BY DEF Init
  <2> QED BY <2>1, <2>2, <2>3, AddFolderAssumption DEF Init, Queued, TypeOK
<1>2. Queued /\ [Next]_vars => Queued'
  <2> SUFFICES ASSUME Queued, [Next]_vars PROVE Queued'
    OBVIOUS
  <2>0. TypeOK /\ Distinct(queue) /\ queue \in Seq(Clients)
    BY DEF Queued, TypeOK
  <2>1. ASSUME NEW c \in Clients, Send(c) \/ Retry(c) PROVE Queued'
    <3>1. status[c] # "queued" /\ c \notin Range(queue)
      <4>1. status[c] # "queued"
        BY <2>1 DEF Send, Retry
      <4> QED BY <2>0, <4>1 DEF TypeOK
    <3>2. queue' \in Seq(Clients) /\ Distinct(queue') /\ Range(queue') = Range(queue) \cup {c}
      <4>1. queue' = Append(queue, c)
        BY <2>1 DEF Send, Retry
      <4> QED BY <2>0, <3>1, <4>1, Appended
    <3>3. status' = [status EXCEPT ![c] = "queued"] /\ troubles' \in 0..MaxTroubles
      BY <2>0, <2>1, AddFolderAssumption DEF Send, Retry, TypeOK
    <3>4. Range(queue') = {d \in Clients : status'[d] = "queued"}
      BY <2>0, <3>2, <3>3 DEF TypeOK
    <3>5. UNCHANGED <<folders, batch, seen, batches>>
      BY <2>1 DEF Send, Retry
    <3> QED BY <2>0, <3>2, <3>3, <3>4, <3>5 DEF Queued, TypeOK, Pending
  <2>2. ASSUME NEW c \in Clients, GiveUp(c) PROVE Queued'
    <3>1. queue' \in Seq(Clients) /\ Distinct(queue') /\ Range(queue') = Range(queue) \ {c}
      <4>1. CASE c \notin Range(queue) /\ UNCHANGED queue
        BY <2>0, <4>1
      <4>2. CASE \E i \in DOMAIN queue : queue[i] = c /\ queue' = RemoveAt(queue, i)
        <5>1. PICK i \in 1..Len(queue) : queue[i] = c /\ queue' = RemoveAt(queue, i)
          BY <2>0, <4>2
        <5> QED BY <2>0, <5>1, RemovedAt
      <4> QED BY <2>2, <4>1, <4>2 DEF GiveUp
    <3>2. status' = [status EXCEPT ![c] = "gaveUp"] /\ troubles' \in 0..MaxTroubles
      BY <2>0, <2>2, AddFolderAssumption DEF GiveUp, TypeOK
    <3>3. Range(queue') = {d \in Clients : status'[d] = "queued"}
      BY <2>0, <3>1, <3>2 DEF TypeOK
    <3>4. UNCHANGED <<folders, batch, seen, batches>>
      BY <2>2 DEF GiveUp
    <3> QED BY <2>0, <3>1, <3>2, <3>3, <3>4 DEF Queued, TypeOK
  <2>3. ASSUME NEW c \in Clients, Upload(c) PROVE Queued'
    BY <2>0, <2>3 DEF Upload, Queued, TypeOK
  <2>4. ASSUME NEW s \in Servers, Take(s) PROVE Queued'
    BY <2>4, TakeType
  <2>5. ASSUME NEW s \in Servers, Handle(s) PROVE Queued'
    BY <2>5, HandleType
  <2>6. ASSUME NEW s \in Servers, Crash(s) PROVE Queued'
    <3>1. folders' \subseteq Folder
      BY <2>0, <2>6, StoredFacts DEF Crash, TypeOK
    <3>2. troubles' \in 0..MaxTroubles /\ batches' \in Nat
      BY <2>0, <2>6, AddFolderAssumption DEF Crash, TypeOK
    <3>3. batch' \in [Servers -> Seq(Clients)] /\ seen' \in [Servers -> SUBSET Folder]
      BY <2>0, <2>6 DEF Crash, TypeOK
    <3> QED BY <2>0, <2>6, <3>1, <3>2, <3>3 DEF Crash, Queued, TypeOK
  <2>7. ASSUME UNCHANGED vars PROVE Queued'
    BY <2>7 DEF vars, Queued, TypeOK, Distinct
  <2> QED BY <2>1, <2>2, <2>3, <2>4, <2>5, <2>6, <2>7 DEF Next
<1> QED BY <1>1, <1>2, PTL DEF Spec

\* Every variable keeps its type, and the queue holds exactly the requests that
\* wait for a batch.
THEOREM TypeCorrect == Spec => []TypeOK
<1>1. Queued => TypeOK
  BY DEF Queued
<1> QED BY <1>1, QueuedHolds, PTL

-----------------------------------------------------------------------------
(***************************************************************************)
(* One folder of a path, when one server reads the queue.  The argument:   *)
(* while the server handles a batch nobody else inserts, so that what it   *)
(* saw is what is there, and its plan has one folder of a path.            *)
(***************************************************************************)

SeesAll == \A s \in Servers : Idle(s) \/ seen[s] = folders

LEMMA PlanOnePerPath ==
    ASSUME TypeOK, NEW s \in Servers, seen[s] = folders, OnePerPath
    PROVE  \A f, g \in folders \cup Stored(Plan(s), s) : f.path = g.path => f = g
<1>1. PlanOK(s, Plan(s), Len(batch[s])) /\ Stored(Plan(s), s) \subseteq DOMAIN Plan(s).maker
  BY PlanHolds, StoredFacts
<1>2. folders \cup Stored(Plan(s), s) \subseteq Plan(s).known
  BY <1>1 DEF PlanOK
<1>3. \A f \in Stored(Plan(s), s), g \in Plan(s).known : f.path = g.path => f = g
  BY <1>1 DEF PlanOK
<1> QED BY <1>2, <1>3 DEF OnePerPath

\* A path has one folder, however requests, timeouts, crashes and retries
\* interleave, if one server reads the queue.
THEOREM OneFolderPerPath ==
    ASSUME \A s, t \in Servers : s = t
    PROVE  Spec => []OnePerPath
<1> DEFINE IInv == SeesAll /\ OnePerPath
<1>1. Init => IInv
  BY DEF Init, SeesAll, OnePerPath, Idle
<1>2. TypeOK /\ IInv /\ [Next]_vars => IInv'
  <2> SUFFICES ASSUME TypeOK, IInv, [Next]_vars PROVE IInv'
    OBVIOUS
  <2>1. ASSUME UNCHANGED <<folders, batch, seen>> PROVE IInv'
    BY <2>1 DEF SeesAll, OnePerPath, Idle
  <2>2. ASSUME NEW s \in Servers, Take(s) PROVE IInv'
    <3>1. folders' = folders /\ seen'[s] = folders
      BY <2>2 DEF Take, TypeOK
    <3> QED BY <3>1 DEF SeesAll, OnePerPath
  <2>3. ASSUME NEW s \in Servers, Handle(s) \/ Crash(s) PROVE IInv'
    <3>1. folders' = folders \/ folders' = folders \cup Stored(Plan(s), s)
      BY <2>3 DEF Handle, Crash
    <3>2. ~Idle(s) /\ batch'[s] = << >>
      BY <2>3 DEF Handle, Crash, TypeOK
    <3>3. OnePerPath'
      BY <3>1, <3>2, PlanOnePerPath DEF SeesAll, OnePerPath
    <3>4. SeesAll'
      BY <3>2 DEF SeesAll, Idle
    <3> QED BY <3>3, <3>4
  <2>4. CASE \E c \in Clients : Send(c) \/ GiveUp(c) \/ Retry(c) \/ Upload(c)
    BY <2>1, <2>4 DEF Send, GiveUp, Retry, Upload
  <2>5. CASE UNCHANGED vars
    BY <2>1, <2>5 DEF vars
  <2> HIDE DEF IInv
  <2> QED BY <2>2, <2>3, <2>4, <2>5 DEF Next
<1>3. IInv => OnePerPath
  OBVIOUS
<1> QED BY <1>1, <1>2, <1>3, TypeCorrect, PTL DEF Spec

-----------------------------------------------------------------------------
(***************************************************************************)
(* Who is allowed.  Access is given in folders that are there from the     *)
(* start, and the folder an input is checked in is at least as deep as     *)
(* those, so that the decision is the same in every batch: except that an  *)
(* upload and a plain request of one agent for one folder decide for each  *)
(* other.  The theorems are about requests that do not meet that way.      *)
(***************************************************************************)

Allowed(c) == \E q \in Prefixes(Asks[c].path) : <<Asks[c].agent, q>> \in Access

\* An agent's plain request that is not allowed is checked in another folder
\* than its uploads: there is one from the start in the upload's path only.
SeparateKinds ==
    \A c, d \in Clients :
       (Asks[c].agent = Asks[d].agent /\ Asks[d].upload /\ ~Asks[c].upload /\ ~Allowed(c)) =>
          \E q \in Prefixes(Asks[d].path) \cap Existing : q \notin Prefixes(Asks[c].path)

\* What was there is there, and a server sees some of what is there.
Kept ==
    /\ \A p \in Existing : At(folders, p) # {}
    /\ \A s \in Servers : Idle(s) \/ \A p \in Existing : At(seen[s], p) # {}
    /\ \A s \in Servers : seen[s] \subseteq folders

LEMMA KeptHolds == Spec => []Kept
<1>1. Init => Kept
  <2> SUFFICES ASSUME Init PROVE Kept
    OBVIOUS
  <2>1. ASSUME NEW p \in Existing PROVE \E f \in folders : f.path = p
    <3> DEFINE f == [path |-> p, made |-> 0, parent |-> 0]
    <3>1. f \in folders /\ f.path = p
      BY DEF Init
    <3> QED BY <3>1
  <2>2. \A s \in Servers : batch[s] = << >> /\ seen[s] = {}
    BY DEF Init
  <2> QED BY <2>1, <2>2 DEF Kept, At, Idle
<1>2. TypeOK /\ Kept /\ [Next]_vars => Kept'
  <2> SUFFICES ASSUME TypeOK, Kept, [Next]_vars PROVE Kept'
    OBVIOUS
  <2>1. ASSUME UNCHANGED <<folders, batch, seen>> PROVE Kept'
    BY <2>1 DEF Kept, At, Idle
  <2>2. ASSUME NEW s \in Servers, Take(s) PROVE Kept'
    <3>1. folders' = folders /\ seen' = [seen EXCEPT ![s] = folders]
          /\ \A t \in Servers : t # s => batch'[t] = batch[t]
      BY <2>2 DEF Take, TypeOK
    <3>2. \A t \in Servers : seen'[t] = IF t = s THEN folders ELSE seen[t]
      BY <3>1 DEF TypeOK
    <3> QED BY <3>1, <3>2 DEF Kept, At, Idle
  <2>3. ASSUME NEW s \in Servers, Handle(s) \/ Crash(s) PROVE Kept'
    <3>1. folders \subseteq folders'
      BY <2>3 DEF Handle, Crash
    <3>2. batch' = [batch EXCEPT ![s] = << >>] /\ seen' = [seen EXCEPT ![s] = {}]
      BY <2>3 DEF Handle, Crash
    <3>3. /\ \A t \in Servers : t # s => batch'[t] = batch[t] /\ seen'[t] = seen[t]
          /\ batch'[s] = << >> /\ seen'[s] = {}
      BY <3>2 DEF TypeOK
    <3> QED BY <3>1, <3>3 DEF Kept, At, Idle
  <2>4. CASE \E c \in Clients : Send(c) \/ GiveUp(c) \/ Retry(c) \/ Upload(c)
    BY <2>1, <2>4 DEF Send, GiveUp, Retry, Upload
  <2>5. CASE UNCHANGED vars
    BY <2>1, <2>5 DEF vars
  <2> QED BY <2>2, <2>3, <2>4, <2>5 DEF Next
<1> QED BY <1>1, <1>2, TypeCorrect, PTL DEF Spec

\* Where an input is checked: as deep as any folder that was there first.
LEMMA TargetFacts ==
    ASSUME TypeOK, Kept, NEW s \in Servers, ~Idle(s), NEW c \in Range(batch[s])
    PROVE  /\ c \in Clients /\ Asks[c].path \in Paths
           /\ Plan(s).target[c] \in Prefixes(Asks[c].path)
           /\ \A q \in Prefixes(Asks[c].path) \cap (Existing \cup {Root}) :
                 q \in Prefixes(Plan(s).target[c])
<1> DEFINE p == Asks[c].path
           t == Plan(s).target[c]
<1>0. batch[s] \in Seq(Clients)
  BY DEF TypeOK
<1>1. PICK i \in 1..Len(batch[s]) : c = batch[s][i]
  BY <1>0, RangeOf
<1>2. c \in Clients /\ p \in Paths
  BY <1>0, <1>1, AddFolderAssumption
<1>3. /\ t \in Prefixes(p)
      /\ \A q \in Prefixes(p) : q = Root \/ At(seen[s], q) # {} => Len(q) <= Len(t)
  BY <1>1, PlanHolds DEF PlanOK
<1>4. \A q \in Existing : At(seen[s], q) # {}
  BY DEF Kept
<1> HIDE DEF p, t
<1>5. ASSUME NEW q \in Prefixes(p), q \in Existing \cup {Root} PROVE q \in Prefixes(t)
  <2>1. Len(q) <= Len(t)
    BY <1>3, <1>4, <1>5
  <2> QED BY <1>2, <1>3, <2>1, PathFacts, PrefixOrder
<1> QED BY <1>2, <1>3, <1>5 DEF p, t

\* An input has access in a batch exactly if it is an upload or allowed.
LEMMA AccessFacts ==
    ASSUME TypeOK, Kept, SeparateKinds, NEW s \in Servers, ~Idle(s), NEW c \in Range(batch[s])
    PROVE  HasAccess(Plan(s).target, s, c) <=> Asks[c].upload \/ Allowed(c)
<1> DEFINE target == Plan(s).target
           same == {i \in 1..Len(batch[s]) : /\ Asks[batch[s][i]].agent = Asks[c].agent
                                             /\ target[batch[s][i]] = target[c]}
           last == batch[s][CHOOSE i \in same : \A j \in same : j <= i]
           granted == \E q \in Prefixes(target[c]) : <<Asks[last].agent, q>> \in Access
<1>0. batch[s] \in Seq(Clients) /\ Len(batch[s]) \in Nat
  BY DEF TypeOK
<1>1. PICK k \in 1..Len(batch[s]) : c = batch[s][k]
  BY <1>0, RangeOf
<1>2. \E i \in same : \A j \in same : j <= i
  <2>1. same \in SUBSET (0..Len(batch[s])) /\ same # {}
    BY <1>0, <1>1
  <2> HIDE DEF same
  <2> QED BY <1>0, <2>1, MostNumber
<1>3. PICK m \in same : last = batch[s][m]
  BY <1>2, Zenon
<1>4. HasAccess(target, s, c) <=> Asks[last].upload \/ granted
  BY DEF HasAccess
<1>5. /\ last \in Range(batch[s]) /\ last \in Clients
      /\ Asks[last].agent = Asks[c].agent /\ target[last] = target[c]
  BY <1>0, <1>3, RangeOf
<1> HIDE DEF last, same
<1>6. /\ c \in Clients /\ Asks[c].path \in Paths /\ target[c] \in Prefixes(Asks[c].path)
      /\ \A q \in Prefixes(Asks[c].path) \cap (Existing \cup {Root}) : q \in Prefixes(target[c])
      /\ target[last] \in Prefixes(Asks[last].path) /\ Asks[last].path \in Paths
      /\ \A q \in Prefixes(Asks[last].path) \cap (Existing \cup {Root}) : q \in Prefixes(target[last])
  BY <1>5, TargetFacts
<1> HIDE DEF target
<1>7. granted <=> Allowed(c)
  <2>1. \A q : <<Asks[c].agent, q>> \in Access => q \in Existing \cup {Root}
    BY AddFolderAssumption
  <2>2. \A q \in Prefixes(target[c]) : q \in Prefixes(Asks[c].path)
    BY <1>6, PathFacts, PrefixTransitive
  <2> QED BY <1>5, <1>6, <2>1, <2>2 DEF Allowed
<1>8. granted <=> Allowed(last)
  <2>1. \A q : <<Asks[c].agent, q>> \in Access => q \in Existing \cup {Root}
    BY AddFolderAssumption
  <2>2. \A q \in Prefixes(target[c]) : q \in Prefixes(Asks[last].path)
    BY <1>5, <1>6, PathFacts, PrefixTransitive
  <2> QED BY <1>5, <1>6, <2>1, <2>2 DEF Allowed
<1>9. ASSUME NEW a \in Clients, NEW b \in Clients, Asks[a].path \in Paths,
             Asks[a].agent = Asks[b].agent, target[a] = target[b],
             target[a] \in Prefixes(Asks[a].path),
             \A q \in Prefixes(Asks[b].path) \cap (Existing \cup {Root}) : q \in Prefixes(target[b]),
             Asks[b].upload, ~Asks[a].upload
      PROVE  Allowed(a)
  <2> SUFFICES ASSUME ~Allowed(a) PROVE FALSE
    OBVIOUS
  <2>1. PICK q \in Prefixes(Asks[b].path) \cap Existing : q \notin Prefixes(Asks[a].path)
    BY <1>9 DEF SeparateKinds
  <2>2. q \in Prefixes(target[a])
    BY <1>9, <2>1
  <2>3. q \in Prefixes(Asks[a].path)
    BY <1>9, <2>2, PathFacts, PrefixTransitive
  <2> QED BY <2>1, <2>3
<1>10. Asks[last].upload => Asks[c].upload \/ Allowed(c)
  BY <1>5, <1>6, <1>9
<1>11. Asks[c].upload => Asks[last].upload \/ Allowed(last)
  BY <1>5, <1>6, <1>9
<1>12. HasAccess(target, s, c) <=> Asks[c].upload \/ Allowed(c)
  <2> HIDE DEF granted
  <2> QED BY <1>4, <1>7, <1>8, <1>10, <1>11
<1> QED BY <1>12 DEF target

\* What is inserted was asked for by an upload or by who is allowed.
LEMMA StoredAllowed ==
    ASSUME TypeOK, Kept, SeparateKinds, NEW s \in Servers, ~Idle(s),
           NEW f \in Stored(Plan(s), s)
    PROVE  \E c \in Range(batch[s]) :
              /\ c \in Clients /\ Asks[c].path = Plan(s).maker[f]
              /\ f.path \in Prefixes(Asks[c].path)
              /\ Asks[c].upload \/ Allowed(c)
<1>1. f \in DOMAIN Plan(s).maker /\ f.path \in Prefixes(Plan(s).maker[f])
  BY StoredFacts, PlanHolds DEF PlanOK
<1>2. PICK c \in Range(batch[s]) : Asks[c].path = Plan(s).maker[f]
                                   /\ HasAccess(Plan(s).target, s, c)
  BY DEF Stored, Inserted
<1> QED BY <1>1, <1>2, AccessFacts, TargetFacts

\* A folder that was made was asked for by an upload or by somebody who may add
\* it, if no agent's plain request meets an upload of its own.
THEOREM AllowedOnly ==
    ASSUME SeparateKinds
    PROVE  Spec => []OnlyAllowed
<1>1. Init => OnlyAllowed
  BY DEF Init, OnlyAllowed
<1>2. TypeOK /\ Kept /\ OnlyAllowed /\ [Next]_vars => OnlyAllowed'
  <2> SUFFICES ASSUME TypeOK, Kept, OnlyAllowed, [Next]_vars PROVE OnlyAllowed'
    OBVIOUS
  <2>1. ASSUME folders' = folders PROVE OnlyAllowed'
    BY <2>1 DEF OnlyAllowed
  <2>2. ASSUME NEW s \in Servers, Handle(s) \/ Crash(s) PROVE OnlyAllowed'
    <3>1. folders' \subseteq folders \cup Stored(Plan(s), s) /\ ~Idle(s)
      BY <2>2 DEF Handle, Crash
    <3>2. \A f \in Stored(Plan(s), s) : \E c \in Clients :
             /\ f.path \in Prefixes(Asks[c].path)
             /\ Asks[c].upload \/ Allowed(c)
      BY <3>1, StoredAllowed
    <3> QED BY <3>1, <3>2 DEF OnlyAllowed, Allowed
  <2>3. CASE \E c \in Clients : Send(c) \/ GiveUp(c) \/ Retry(c) \/ Upload(c)
    BY <2>1, <2>3 DEF Send, GiveUp, Retry, Upload
  <2>4. CASE UNCHANGED vars
    BY <2>1, <2>4 DEF vars
  <2>5. ASSUME NEW s \in Servers, Take(s) PROVE OnlyAllowed'
    BY <2>1, <2>5 DEF Take
  <2> QED BY <2>2, <2>3, <2>4, <2>5 DEF Next
<1> QED BY <1>1, <1>2, TypeCorrect, KeptHolds, PTL DEF Spec

-----------------------------------------------------------------------------
(***************************************************************************)
(* The folder a folder is in.  The argument: a folder that is made is in   *)
(* one that its batch saw or makes; what is made is inserted if an input   *)
(* of the path that it was made for has access; and that input is allowed  *)
(* because one that shares the folder with it is.                          *)
(***************************************************************************)

Granted(c) == Asks[c].upload \/ Allowed(c)

\* Nobody whose token is there is denied a folder that somebody who may make it
\* needs for its own.
SharedAlike ==
    \A c, d \in Clients :
       (Granted(c) /\ ~Granted(d) /\ Asks[d].agent \notin Gone) =>
          \A q \in Prefixes(Asks[c].path) \cap Prefixes(Asks[d].path) : q \in Existing \cup {Root}

LEMMA ParentsOfStored ==
    ASSUME TypeOK, Kept, SeparateKinds, SharedAlike, NEW s \in Servers, ~Idle(s),
           NEW f \in Stored(Plan(s), s), Len(f.path) > 1
    PROVE  \E g \in folders \cup Stored(Plan(s), s) :
              g.path = Front(f.path) /\ g.made = f.parent
<1> DEFINE plan == Plan(s)
<1>0. /\ f \in DOMAIN plan.maker
      /\ plan.known = seen[s] \cup DOMAIN plan.maker
      /\ seen[s] \subseteq folders
  BY StoredFacts, PlanHolds DEF PlanOK, Kept
<1>1. PICK g \in plan.known : g.path = Front(f.path) /\ g.made = f.parent
  BY <1>0, PlanHolds DEF PlanOK
<1>2. CASE g \in seen[s]
  BY <1>0, <1>1, <1>2
<1>3. CASE g \in DOMAIN plan.maker
  <2>1. PICK c \in Range(batch[s]) : /\ c \in Clients /\ f.path \in Prefixes(Asks[c].path)
                                     /\ Granted(c)
    BY StoredAllowed DEF Granted
  <2>2. /\ At(seen[s], g.path) = {} /\ g.path \in Prefixes(plan.maker[g])
        /\ \E d \in Range(batch[s]) : Asks[d].path = plan.maker[g]
    BY <1>3, PlanHolds DEF PlanOK
  <2>3. PICK d \in Range(batch[s]) : Asks[d].path = plan.maker[g]
    BY <2>2
  <2>4. c \in Clients /\ d \in Clients /\ Asks[c].path \in Paths /\ Asks[d].path \in Paths
    BY <2>1, TargetFacts
  <2>5. Asks[d].agent \notin Gone
    BY DEF Stored
  <2>6. g.path \in Prefixes(Asks[c].path) \cap Prefixes(Asks[d].path)
    <3>1. f.path # << >> /\ f.path \in Paths /\ f \in Folder
      BY StoredFacts, PathFacts DEF Folder, Root
    <3>2. Front(f.path) \in Prefixes(Asks[c].path)
      BY <2>1, <2>4, <3>1, PathFacts, FrontFacts
    <3> QED BY <1>1, <2>2, <2>3, <3>2
  <2>7. g.path \notin Existing
    BY <2>2 DEF Kept
  <2>8. g.path # Root
    <3>1. g \in Folder
      BY <1>3, PlanHolds DEF PlanOK
    <3> QED BY <3>1, PathFacts DEF Folder
  <2>9. Granted(d)
    BY <2>1, <2>4, <2>5, <2>6, <2>7, <2>8 DEF SharedAlike
  <2>10. HasAccess(plan.target, s, d)
    BY <2>9, AccessFacts DEF Granted
  <2>11. g \in Inserted(plan, s)
    BY <1>3, <2>3, <2>10 DEF Inserted
  <2>12. Stored(plan, s) = Inserted(plan, s)
    BY DEF Stored
  <2> QED BY <1>1, <2>11, <2>12
<1> QED BY <1>0, <1>1, <1>2, <1>3

\* Every folder's parent is stored, if no agent's plain request meets an upload
\* of its own and nobody is denied a folder that somebody else needs.
THEOREM ParentsAreStored ==
    ASSUME SeparateKinds, SharedAlike
    PROVE  Spec => []ParentsStored
<1>1. Init => ParentsStored
  <2> SUFFICES ASSUME Init, NEW f \in folders, Len(f.path) > 1
               PROVE  \E g \in folders : g.path = Front(f.path) /\ g.made = f.parent
    BY DEF ParentsStored
  <2>1. PICK p \in Existing : f = [path |-> p, made |-> 0, parent |-> 0]
    BY DEF Init
  <2>2. p \in Paths /\ p \in Seq(STRING) /\ p # << >>
    BY AddFolderAssumption DEF Root
  <2>3. Front(p) \in Prefixes(p) /\ Len(Front(p)) = Len(p) - 1 /\ Len(p) > 1
    BY <2>1, <2>2, PrefixFacts, FrontFacts
  <2>4. Front(p) # Root
    BY <2>3 DEF Root
  <2>5. Front(p) \in Existing
    BY <2>3, <2>4, AddFolderAssumption
  <2> DEFINE g == [path |-> Front(p), made |-> 0, parent |-> 0]
  <2>6. g \in folders /\ g.path = Front(p) /\ g.made = 0
    BY <2>5 DEF Init
  <2>7. f.path = p /\ f.parent = 0
    BY <2>1
  <2> QED BY <2>6, <2>7
<1>2. TypeOK /\ Kept /\ ParentsStored /\ [Next]_vars => ParentsStored'
  <2> SUFFICES ASSUME TypeOK, Kept, ParentsStored, [Next]_vars PROVE ParentsStored'
    OBVIOUS
  <2>1. ASSUME folders' = folders PROVE ParentsStored'
    BY <2>1 DEF ParentsStored
  <2>2. ASSUME NEW s \in Servers, Handle(s) \/ Crash(s) PROVE ParentsStored'
    <3>1. (folders' = folders \/ folders' = folders \cup Stored(Plan(s), s)) /\ ~Idle(s)
      BY <2>2 DEF Handle, Crash
    <3>2. ASSUME folders' = folders \cup Stored(Plan(s), s) PROVE ParentsStored'
      BY <3>1, <3>2, ParentsOfStored DEF ParentsStored
    <3> QED BY <2>1, <3>1, <3>2
  <2>3. CASE \E c \in Clients : Send(c) \/ GiveUp(c) \/ Retry(c) \/ Upload(c)
    BY <2>1, <2>3 DEF Send, GiveUp, Retry, Upload
  <2>4. CASE UNCHANGED vars
    BY <2>1, <2>4 DEF vars
  <2>5. ASSUME NEW s \in Servers, Take(s) PROVE ParentsStored'
    BY <2>1, <2>5 DEF Take
  <2> QED BY <2>2, <2>3, <2>4, <2>5 DEF Next
<1> QED BY <1>1, <1>2, TypeCorrect, KeptHolds, PTL DEF Spec
=============================================================================
