------------------------ MODULE DocumentsAndStores_proofs -----------------------
(* First, of documents of every size and from any producer: what the two scanners *)
(* of JSON accept, by an induction over the text (StrictJSON); that a stored      *)
(* grant is one for the next call (WireDocuments); and that only the gateway's    *)
(* own refusal has a record dropped (ProblemDocuments). Then, of the stores that  *)
(* such records are kept in, for any tabs, calls and modes: the lease a call took *)
(* and one key in its store, its tab and its session (StateStores).               *)
EXTENDS StateStores, StrictJSON, WireDocuments, ProblemDocuments,
        FiniteSetTheorems, SequenceTheorems, WellFoundedInduction, TLAPS

-----------------------------------------------------------------------------
(* The smallest and the largest number of a set.                             *)

NatLess == {ss \in Nat \X Nat : ss[1] < ss[2]}

\* The natural numbers have no endless descent.
LEMMA NatLessDescends == IsWellFoundedOn(NatLess, Nat)
  BY NatLessThanWellFounded DEF NatLess, OpToRel

\* So a set of them that is not empty has a smallest member,
LEMMA SmallestOf ==
    ASSUME NEW S, S \subseteq Nat, S # {}
    PROVE  \E x \in S : \A y \in S : x <= y
<1>1. PICK x \in S : \A y \in S : ~ (<<y, x>> \in NatLess)
  BY NatLessDescends, WFMin
<1>2. ASSUME NEW y \in S PROVE x <= y
  <2>1. <<y, x>> \notin NatLess
    BY <1>1
  <2>2. x \in Nat /\ y \in Nat
    OBVIOUS
  <2>3. y < x => <<y, x>> \in NatLess
    BY <2>2 DEF NatLess
  <2> QED BY <2>1, <2>2, <2>3
<1> QED BY <1>2

\* and one with a bound a largest.
LEMMA LargestOf ==
    ASSUME NEW n \in Nat, NEW S, S \subseteq 0 .. n, S # {}
    PROVE  \E x \in S : \A y \in S : x >= y
<1> DEFINE R == {m \in 0 .. n : n - m \in S}
<1>0. R \subseteq Nat
  OBVIOUS
<1>1. R # {}
  <2>1. PICK x \in S : TRUE
    OBVIOUS
  <2>2. x \in 0 .. n
    OBVIOUS
  <2>3. n - x \in 0 .. n /\ n - (n - x) = x
    BY <2>2
  <2>4. n - x \in R
    BY <2>3
  <2> QED BY <2>4
<1>2. PICK m \in R : \A k \in R : m <= k
  BY <1>0, <1>1, SmallestOf
<1>3. ASSUME NEW y \in S PROVE n - m >= y
  <2>1. n - y \in 0 .. n /\ n - (n - y) = y
    OBVIOUS
  <2>2. m <= n - y
    BY <1>2, <2>1
  <2> QED BY <2>1, <2>2
<1> QED BY <1>2, <1>3

\* Max is that member.
LEMMA MaxIs ==
    ASSUME NEW S, S \subseteq Int, NEW x \in S, \A y \in S : x >= y
    PROVE  Max(S) = x
<1>1. Max(S) \in S /\ \A y \in S : Max(S) >= y
  BY DEF Max
<1>2. Max(S) >= x /\ x >= Max(S) /\ x \in Int /\ Max(S) \in Int
  BY <1>1
<1> QED BY <1>2

-----------------------------------------------------------------------------
(* White space, brackets and neighbours of a text.                           *)

Blank(t, i, j) == \A k \in i .. j - 1 : t[k] = "space"

\* A position of a text holds a token.
LEMMA TokenOf ==
    ASSUME NEW t \in Seq(Tokens), NEW i \in 1 .. Len(t)
    PROVE  t[i] \in Tokens /\ At(t, i) = t[i] /\ Len(t) \in Nat
  BY DEF At

\* Skip stops at the first position that is not white space, or at the end (skipWhitespace).
LEMMA SkipStops ==
    ASSUME NEW t \in Seq(Tokens), NEW i \in 1 .. Len(t) + 1
    PROVE  /\ Skip(t, i) \in i .. Len(t) + 1
           /\ At(t, Skip(t, i)) # "space"
           /\ Blank(t, i, Skip(t, i))
<1>0. Len(t) \in Nat
  OBVIOUS
<1>1. CASE i = Len(t) + 1
  BY <1>0, <1>1 DEF Skip, At, Blank
<1>2. CASE i <= Len(t)
  <2> DEFINE S == {j \in i .. Len(t) + 1 : At(t, j) # "space"}
  <2>1. S \subseteq Nat /\ S # {}
    <3>1. At(t, Len(t) + 1) # "space"
      BY <1>0 DEF At
    <3> QED BY <1>0, <3>1
  <2>2. PICK x \in S : \A y \in S : x <= y
    BY <2>1, SmallestOf
  <2>3. Min(S) \in S /\ \A y \in S : Min(S) <= y
    BY <2>2 DEF Min
  <2>4. Skip(t, i) = Min(S)
    BY <1>0, <1>2 DEF Skip
  <2>5. ASSUME NEW k \in i .. Skip(t, i) - 1 PROVE t[k] = "space"
    <3>1. k \in 1 .. Len(t) /\ k \notin S
      BY <1>0, <2>3, <2>4
    <3> QED BY <1>0, <3>1 DEF At
  <2> QED BY <2>3, <2>4, <2>5 DEF Blank
<1> QED BY <1>0, <1>1, <1>2

BracketsOpened(t, i) == {j \in 1 .. i - 1 : t[j] \in Opening}
BracketsClosed(t, i) == {j \in 1 .. i - 1 : t[j] \in Closing}

\* Depth counts two finite sets.
LEMMA DepthIs ==
    ASSUME NEW t, NEW i \in Nat
    PROVE  /\ IsFiniteSet(BracketsOpened(t, i)) /\ Cardinality(BracketsOpened(t, i)) \in Nat
           /\ IsFiniteSet(BracketsClosed(t, i)) /\ Cardinality(BracketsClosed(t, i)) \in Nat
           /\ Depth(t, i) = Cardinality(BracketsOpened(t, i)) - Cardinality(BracketsClosed(t, i))
           /\ Depth(t, i) \in Int
<1>1. IsFiniteSet(1 .. i - 1)
  BY FS_Interval
<1>2. BracketsOpened(t, i) \in SUBSET (1 .. i - 1) /\ BracketsClosed(t, i) \in SUBSET (1 .. i - 1)
  BY DEF BracketsOpened, BracketsClosed
<1>3. IsFiniteSet(BracketsOpened(t, i)) /\ IsFiniteSet(BracketsClosed(t, i))
  BY <1>1, <1>2, FS_Subset
<1>4. Cardinality(BracketsOpened(t, i)) \in Nat /\ Cardinality(BracketsClosed(t, i)) \in Nat
  BY <1>3, FS_CardinalityType
<1>5. Depth(t, i) = Cardinality(BracketsOpened(t, i)) - Cardinality(BracketsClosed(t, i))
  BY DEF Depth, BracketsOpened, BracketsClosed
<1> QED BY <1>3, <1>4, <1>5

\* Nothing is open before a text.
LEMMA DepthStarts == ASSUME NEW t PROVE Depth(t, 1) = 0
<1>1. BracketsOpened(t, 1) = {} /\ BracketsClosed(t, 1) = {}
  BY DEF BracketsOpened, BracketsClosed
<1>2. Cardinality({}) = 0
  BY FS_EmptySet
<1> QED BY <1>1, <1>2, DepthIs

\* Only a bracket changes the depth, by one.
LEMMA DepthNext ==
    ASSUME NEW t, NEW i \in Nat \ {0}
    PROVE  /\ t[i] \in Opening => Depth(t, i + 1) = Depth(t, i) + 1
           /\ t[i] \in Closing => Depth(t, i + 1) = Depth(t, i) - 1
           /\ t[i] \notin Opening \cup Closing => Depth(t, i + 1) = Depth(t, i)
           /\ Depth(t, i) \in Int /\ Depth(t, i + 1) \in Int
<1>0. i + 1 \in Nat /\ i \in Nat /\ (i + 1) - 1 = i
  OBVIOUS
<1>1. /\ i \notin BracketsOpened(t, i) /\ i \notin BracketsClosed(t, i)
      /\ IF t[i] \in Opening THEN BracketsOpened(t, i + 1) = BracketsOpened(t, i) \cup {i}
                             ELSE BracketsOpened(t, i + 1) = BracketsOpened(t, i)
      /\ IF t[i] \in Closing THEN BracketsClosed(t, i + 1) = BracketsClosed(t, i) \cup {i}
                             ELSE BracketsClosed(t, i + 1) = BracketsClosed(t, i)
  <2>1. \A j : j \in 1 .. (i + 1) - 1 <=> j \in 1 .. i - 1 \/ j = i
    OBVIOUS
  <2> QED BY <2>1 DEF BracketsOpened, BracketsClosed
<1>2. /\ Cardinality(BracketsOpened(t, i) \cup {i}) = Cardinality(BracketsOpened(t, i)) + 1
      /\ Cardinality(BracketsClosed(t, i) \cup {i}) = Cardinality(BracketsClosed(t, i)) + 1
  BY <1>0, <1>1, DepthIs, FS_AddElement
<1>3. ~ (t[i] \in Opening /\ t[i] \in Closing)
  BY DEF Opening, Closing
<1>4. /\ Depth(t, i) = Cardinality(BracketsOpened(t, i)) - Cardinality(BracketsClosed(t, i))
      /\ Depth(t, i + 1) = Cardinality(BracketsOpened(t, i + 1)) - Cardinality(BracketsClosed(t, i + 1))
      /\ Cardinality(BracketsOpened(t, i)) \in Nat /\ Cardinality(BracketsClosed(t, i)) \in Nat
  BY <1>0, DepthIs
<1>5. CASE t[i] \in Opening
  <2>0. BracketsOpened(t, i + 1) = BracketsOpened(t, i) \cup {i} /\ BracketsClosed(t, i + 1) = BracketsClosed(t, i)
    BY <1>1, <1>3, <1>5
  <2>1. Depth(t, i + 1) = Cardinality(BracketsOpened(t, i)) + 1 - Cardinality(BracketsClosed(t, i))
    <3>1. Cardinality(BracketsOpened(t, i + 1)) = Cardinality(BracketsOpened(t, i)) + 1
      BY <1>2, <2>0, Zenon
    <3>2. Cardinality(BracketsClosed(t, i + 1)) = Cardinality(BracketsClosed(t, i))
      BY <2>0, Zenon
    <3> QED BY <1>4, <3>1, <3>2
  <2> QED BY <1>3, <1>4, <1>5, <2>1
<1>6. CASE t[i] \in Closing
  <2>0. BracketsOpened(t, i + 1) = BracketsOpened(t, i) /\ BracketsClosed(t, i + 1) = BracketsClosed(t, i) \cup {i}
    BY <1>1, <1>3, <1>6
  <2>1. Depth(t, i + 1) = Cardinality(BracketsOpened(t, i)) - (Cardinality(BracketsClosed(t, i)) + 1)
    <3>1. Cardinality(BracketsClosed(t, i + 1)) = Cardinality(BracketsClosed(t, i)) + 1
      BY <1>2, <2>0, Zenon
    <3>2. Cardinality(BracketsOpened(t, i + 1)) = Cardinality(BracketsOpened(t, i))
      BY <2>0, Zenon
    <3> QED BY <1>4, <3>1, <3>2
  <2> QED BY <1>3, <1>4, <1>6, <2>1
<1>7. CASE t[i] \notin Opening \cup Closing
  <2>1. Depth(t, i + 1) = Depth(t, i)
    BY <1>1, <1>4, <1>7
  <2> QED BY <1>4, <1>7, <2>1
<1> QED BY <1>5, <1>6, <1>7

\* White space does not change it.
LEMMA DepthOverBlanks ==
    ASSUME NEW t, NEW i \in Nat \ {0}, NEW j \in Nat, i <= j, Blank(t, i, j)
    PROVE  \A k \in i .. j : Depth(t, k) = Depth(t, i)
<1> SUFFICES ASSUME NEW k \in i .. j PROVE Depth(t, k) = Depth(t, i)
  OBVIOUS
<1>1. "space" \notin Opening \cup Closing
  BY DEF Opening, Closing
<1>2. BracketsOpened(t, k) = BracketsOpened(t, i) /\ BracketsClosed(t, k) = BracketsClosed(t, i)
  <2>1. \A m : m \in 1 .. k - 1 <=> m \in 1 .. i - 1 \/ m \in i .. k - 1
    OBVIOUS
  <2>2. \A m \in i .. k - 1 : t[m] = "space"
    BY DEF Blank
  <2> QED BY <1>1, <2>1, <2>2 DEF BracketsOpened, BracketsClosed
<1> QED BY <1>2, DepthIs

\* No token is before the first position.
LEMMA BeforeStarts == ASSUME NEW t PROVE Before(t, 1) = 0
  BY DEF Before

\* The token just passed is the one before.
LEMMA BeforeNext ==
    ASSUME NEW t, NEW i \in Nat \ {0}, t[i] # "space"
    PROVE  Before(t, i + 1) = i
<1> DEFINE S == {j \in 1 .. (i + 1) - 1 : t[j] # "space"}
<1>1. S \subseteq Int /\ i \in S /\ \A j \in S : i >= j
  OBVIOUS
<1>2. Max(S) = i
  BY <1>1, MaxIs
<1> QED BY <1>1, <1>2 DEF Before

\* White space does not change it.
LEMMA BeforeOverBlanks ==
    ASSUME NEW t, NEW i \in Nat \ {0}, NEW j \in Nat, i <= j, Blank(t, i, j)
    PROVE  Before(t, j) = Before(t, i)
<1>1. {k \in 1 .. j - 1 : t[k] # "space"} = {k \in 1 .. i - 1 : t[k] # "space"}
  <2>1. \A m : m \in 1 .. j - 1 <=> m \in 1 .. i - 1 \/ m \in i .. j - 1
    OBVIOUS
  <2> QED BY <2>1 DEF Blank
<1> QED BY <1>1 DEF Before

\* It is before the position.
LEMMA BeforeBounds ==
    ASSUME NEW t, NEW i \in Nat \ {0}
    PROVE  Before(t, i) \in 0 .. i - 1
<1> DEFINE S == {j \in 1 .. i - 1 : t[j] # "space"}
<1>1. CASE S = {}
  BY <1>1 DEF Before
<1>2. CASE S # {}
  <2>1. S \subseteq 0 .. i
    OBVIOUS
  <2>2. PICK x \in S : \A y \in S : x >= y
    BY <1>2, <2>1, LargestOf
  <2>3. Max(S) = x
    BY <2>1, <2>2, MaxIs
  <2> QED BY <1>2, <2>3 DEF Before
<1> QED BY <1>1, <1>2

\* The brackets that are still open at a position; Around is the last one.
Pending(t, i) == {j \in 1 .. i - 1 : t[j] \in Opening /\ \A k \in j + 1 .. i : Depth(t, k) > Depth(t, j)}

\* Around is the last of the pending brackets.
LEMMA AroundOf == ASSUME NEW t, NEW i \in Nat \ {0}
                  PROVE  /\ Around(t, i) = IF Pending(t, i) = {} THEN 0 ELSE Max(Pending(t, i))
                         /\ Pending(t, i) \subseteq 1 .. i - 1
                         /\ Pending(t, i) \subseteq Int
  BY DEF Around, Pending

\* It is before the position.
LEMMA AroundBounds ==
    ASSUME NEW t, NEW i \in Nat \ {0}
    PROVE  Around(t, i) \in 0 .. i - 1
<1>1. CASE Pending(t, i) = {}
  BY <1>1, AroundOf
<1>2. CASE Pending(t, i) # {}
  <2>1. Pending(t, i) \subseteq 0 .. i /\ Pending(t, i) \subseteq Int
    BY AroundOf
  <2>2. PICK x \in Pending(t, i) : \A y \in Pending(t, i) : x >= y
    BY <1>2, <2>1, LargestOf
  <2>3. Max(Pending(t, i)) = x
    BY <2>1, <2>2, MaxIs
  <2> QED BY <1>2, <2>3, AroundOf
<1> QED BY <1>1, <1>2

\* A bracket one level below a position, which nothing between returns to, is around it.
LEMMA AroundIs ==
    ASSUME NEW t, NEW i \in Nat \ {0}, NEW a \in 1 .. i - 1, t[a] \in Opening,
           Depth(t, i) = Depth(t, a) + 1,
           \A k \in a + 1 .. i : Depth(t, k) > Depth(t, a)
    PROVE  Around(t, i) = a
<1>1. a \in Pending(t, i)
  BY DEF Pending
<1>2. ASSUME NEW b \in Pending(t, i), b > a PROVE FALSE
  <2>1. b \in a + 1 .. i /\ i \in b + 1 .. i /\ b \in Nat /\ a \in Nat
    BY <1>2, AroundOf
  <2>2. Depth(t, b) > Depth(t, a)
    BY <2>1
  <2>3. Depth(t, i) > Depth(t, b)
    BY <2>1 DEF Pending
  <2>4. Depth(t, a) \in Int /\ Depth(t, b) \in Int
    BY <2>1, DepthIs
  <2> QED BY <2>2, <2>3, <2>4
<1>3. \A b \in Pending(t, i) : a >= b
  BY <1>2, AroundOf
<1>4. Max(Pending(t, i)) = a
  BY <1>1, <1>3, AroundOf, MaxIs
<1> QED BY <1>1, <1>4, AroundOf

\* At depth zero no bracket is around.
LEMMA AroundNone ==
    ASSUME NEW t, NEW i \in Nat \ {0}, Depth(t, i) = 0, \A k \in 1 .. i : Depth(t, k) >= 0
    PROVE  Around(t, i) = 0
<1>1. ASSUME NEW b \in Pending(t, i) PROVE FALSE
  <2>1. b \in 1 .. i /\ i \in b + 1 .. i /\ b \in Nat
    BY AroundOf
  <2>2. Depth(t, b) >= 0 /\ Depth(t, b) \in Int
    BY <2>1, DepthIs
  <2>3. Depth(t, i) > Depth(t, b)
    BY <2>1 DEF Pending
  <2> QED BY <2>2, <2>3
<1> QED BY <1>1, AroundOf

-----------------------------------------------------------------------------
(* The stack of calls and the brackets that are open.                        *)

Frame == [from : Nat \ {0}, names : SUBSET Strings]

\* Call n is inside its bracket, which is not closed before position i.
Encloses(t, s, i, n) ==
  /\ s[n].from \in 1 .. i - 1
  /\ t[s[n].from] \in Opening
  /\ Depth(t, s[n].from) = n - 1
  /\ \A k \in s[n].from + 1 .. i : Depth(t, k) >= n

Nested(t, s, i) ==
  /\ s \in Seq(Frame)
  /\ Depth(t, i) = Len(s)
  /\ \A k \in 1 .. i : Depth(t, k) >= 0
  /\ \A n \in 1 .. Len(s) : Encloses(t, s, i, n)

\* The innermost call of a stack.
LEMMA LastFrame ==
    ASSUME NEW s \in Seq(Frame), s # <<>>
    PROVE  /\ Len(s) \in Nat \ {0} /\ Len(s) \in 1 .. Len(s)
           /\ Last(s) = s[Len(s)] /\ Last(s) \in Frame
<1>1. Len(s) \in Nat \ {0}
  BY EmptySeq
<1>2. Len(s) \in 1 .. Len(s)
  BY <1>1
<1>3. s[Len(s)] \in Frame
  BY <1>2, ElementOfSeq
<1> QED BY <1>1, <1>2, <1>3 DEF Last

\* The calls that are left when it returns.
LEMMA FrontFrames ==
    ASSUME NEW s \in Seq(Frame), s # <<>>
    PROVE  /\ Front(s) \in Seq(Frame) /\ Len(Front(s)) = Len(s) - 1
           /\ \A n \in 1 .. Len(s) - 1 : Front(s)[n] = s[n]
<1>1. Len(s) \in Nat \ {0}
  BY EmptySeq
<1>2. \A n \in 1 .. Len(s) - 1 : s[n] \in Frame
  BY <1>1, ElementOfSeq
<1>3. Front(s) = SubSeq(s, 1, Len(s) - 1)
  BY DEF Front
<1>4. /\ Front(s) \in Seq(Frame)
      /\ Len(Front(s)) = IF 1 <= Len(s) - 1 THEN (Len(s) - 1) - 1 + 1 ELSE 0
      /\ \A n \in 1 .. (Len(s) - 1) - 1 + 1 : Front(s)[n] = s[1 + n - 1]
  BY <1>1, <1>2, <1>3, SubSeqProperties
<1>5. \A n \in 1 .. Len(s) - 1 : n \in 1 .. (Len(s) - 1) - 1 + 1 /\ 1 + n - 1 = n
  BY <1>1
<1>6. ASSUME NEW n \in 1 .. Len(s) - 1 PROVE Front(s)[n] = s[n]
  <2>1. Front(s)[n] = s[1 + n - 1]
    BY <1>4, <1>5
  <2>2. 1 + n - 1 = n
    OBVIOUS
  <2> QED BY <2>1, <2>2
<1>7. Len(Front(s)) = Len(s) - 1
  <2>1. CASE Len(s) = 1
    BY <1>4, <2>1
  <2>2. CASE Len(s) > 1
    <3>1. Len(Front(s)) = (Len(s) - 1) - 1 + 1
      BY <1>1, <1>4, <2>2
    <3> QED BY <1>1, <3>1
  <2>3. Len(s) = 1 \/ Len(s) > 1
    BY <1>1
  <2> QED BY <2>1, <2>2, <2>3
<1> QED BY <1>4, <1>6, <1>7

\* The innermost call is inside the bracket around the position.
LEMMA InnermostAround ==
    ASSUME NEW t, NEW i \in Nat \ {0}, NEW s, Nested(t, s, i)
    PROVE  Around(t, i) = IF s = <<>> THEN 0 ELSE Last(s).from
<1>1. CASE s = <<>>
  <2>1. Depth(t, i) = 0
    BY <1>1, EmptySeq DEF Nested
  <2> QED BY <1>1, <2>1, AroundNone DEF Nested
<1>2. CASE s # <<>>
  <2> DEFINE a == Last(s).from
  <2>1. Len(s) \in Nat \ {0} /\ Last(s) = s[Len(s)] /\ Len(s) \in 1 .. Len(s)
    BY <1>2, LastFrame DEF Nested
  <2>2. Encloses(t, s, i, Len(s))
    BY <2>1 DEF Nested
  <2>3. a \in 1 .. i - 1 /\ t[a] \in Opening /\ Depth(t, a) = Len(s) - 1
    BY <2>1, <2>2 DEF Encloses
  <2>4. Depth(t, i) = Len(s)
    BY DEF Nested
  <2>5. \A k \in a + 1 .. i : Depth(t, k) > Depth(t, a)
    <3>1. \A k \in a + 1 .. i : Depth(t, k) >= Len(s) /\ Depth(t, k) \in Int
      BY <2>1, <2>2, <2>3, DepthIs DEF Encloses
    <3> QED BY <2>1, <2>3, <3>1
  <2>6. Depth(t, i) = Depth(t, a) + 1
    BY <2>1, <2>3, <2>4
  <2> QED BY <1>2, <2>3, <2>5, <2>6, AroundIs
<1> QED BY <1>1, <1>2

\* Neither white space nor any other token changes what is open.
LEMMA NestedOver ==
    ASSUME NEW t, NEW i \in Nat \ {0}, NEW j \in Nat, i <= j, NEW s, Nested(t, s, i),
           \A k \in i .. j : Depth(t, k) = Depth(t, i)
    PROVE  Nested(t, s, j)
<1>1. j \in i .. j /\ \A k : k \in 1 .. j => k \in 1 .. i \/ k \in i .. j
  OBVIOUS
<1>2. Depth(t, j) = Len(s) /\ Len(s) \in Nat
  BY <1>1 DEF Nested
<1>3. \A k \in 1 .. j : Depth(t, k) >= 0
  BY <1>1 DEF Nested
<1>4. ASSUME NEW n \in 1 .. Len(s) PROVE Encloses(t, s, j, n)
  <2>1. Encloses(t, s, i, n)
    BY DEF Nested
  <2>2. \A k \in i .. j : Depth(t, k) >= n
    BY <1>2 DEF Nested
  <2>3. s[n].from \in 1 .. j - 1
    BY <2>1 DEF Encloses
  <2>4. ASSUME NEW k \in s[n].from + 1 .. j PROVE Depth(t, k) >= n
    <3>1. k \in s[n].from + 1 .. i \/ k \in i .. j
      BY <2>3
    <3> QED BY <2>1, <2>2, <3>1 DEF Encloses
  <2> QED BY <2>1, <2>3, <2>4 DEF Encloses
<1> QED BY <1>2, <1>3, <1>4 DEF Nested

\* A token that is no bracket keeps the stack and what is open in step.
LEMMA NestedOn ==
    ASSUME NEW t, NEW i \in Nat \ {0}, NEW s, Nested(t, s, i), t[i] \notin Opening \cup Closing
    PROVE  Nested(t, s, i + 1)
<1>1. Depth(t, i + 1) = Depth(t, i)
  BY DepthNext
<1>2. \A k \in i .. i + 1 : k = i \/ k = i + 1
  OBVIOUS
<1>3. i + 1 \in Nat /\ i <= i + 1
  OBVIOUS
<1> QED BY <1>1, <1>2, <1>3, NestedOver

\* An opening bracket calls.
LEMMA NestedIn ==
    ASSUME NEW t, NEW i \in Nat \ {0}, NEW s, Nested(t, s, i), t[i] \in Opening
    PROVE  Nested(t, Append(s, [from |-> i, names |-> {}]), i + 1)
<1> DEFINE f == [from |-> i, names |-> {}]
           r == Append(s, f)
<1>1. s \in Seq(Frame) /\ Len(s) \in Nat /\ f \in Frame
  BY DEF Nested, Frame
<1>2. r \in Seq(Frame) /\ Len(r) = Len(s) + 1 /\ r[Len(s) + 1] = f /\ \A n \in 1 .. Len(s) : r[n] = s[n]
  BY <1>1, AppendProperties
<1>3. Depth(t, i + 1) = Len(s) + 1 /\ Depth(t, i) = Len(s)
  BY DepthNext DEF Nested
<1>4. ASSUME NEW k \in 1 .. i + 1 PROVE Depth(t, k) >= 0
  <2>1. k \in 1 .. i \/ k = i + 1
    OBVIOUS
  <2> QED BY <1>1, <1>3, <2>1 DEF Nested
<1>5. ASSUME NEW n \in 1 .. Len(s) PROVE Encloses(t, r, i + 1, n)
  <2>1. Encloses(t, s, i, n) /\ r[n] = s[n]
    BY <1>2 DEF Nested
  <2>2. s[n].from \in 1 .. (i + 1) - 1
    BY <2>1 DEF Encloses
  <2>3. ASSUME NEW k \in s[n].from + 1 .. i + 1 PROVE Depth(t, k) >= n
    <3>1. k \in s[n].from + 1 .. i \/ k = i + 1
      BY <2>2
    <3> QED BY <1>1, <1>3, <2>1, <3>1 DEF Encloses
  <2> QED BY <2>1, <2>2, <2>3 DEF Encloses
<1>6. Encloses(t, r, i + 1, Len(s) + 1)
  <2>1. r[Len(s) + 1].from = i
    BY <1>2
  <2>2. i \in 1 .. (i + 1) - 1 /\ \A k \in i + 1 .. i + 1 : k = i + 1
    OBVIOUS
  <2>3. Depth(t, i) = (Len(s) + 1) - 1 /\ Depth(t, i + 1) >= Len(s) + 1
    BY <1>1, <1>3
  <2> QED BY <2>1, <2>2, <2>3 DEF Encloses
<1>7. \A n \in 1 .. Len(r) : n \in 1 .. Len(s) \/ n = Len(s) + 1
  BY <1>1, <1>2
<1>8. \A n \in 1 .. Len(r) : Encloses(t, r, i + 1, n)
  BY <1>5, <1>6, <1>7
<1> HIDE DEF r
<1>9. Nested(t, r, i + 1)
  BY <1>2, <1>3, <1>4, <1>8 DEF Nested
<1> QED BY <1>9 DEF r

\* A closing bracket returns.
LEMMA NestedOut ==
    ASSUME NEW t, NEW i \in Nat \ {0}, NEW s, Nested(t, s, i), s # <<>>, t[i] \in Closing
    PROVE  Nested(t, Front(s), i + 1)
<1>1. s \in Seq(Frame) /\ Len(s) \in Nat \ {0}
  BY EmptySeq DEF Nested
<1>2. /\ Front(s) \in Seq(Frame) /\ Len(Front(s)) = Len(s) - 1
      /\ \A n \in 1 .. Len(s) - 1 : Front(s)[n] = s[n]
  BY <1>1, FrontFrames
<1>3. Depth(t, i + 1) = Len(s) - 1 /\ Depth(t, i) = Len(s)
  BY DepthNext DEF Nested
<1>4. ASSUME NEW k \in 1 .. i + 1 PROVE Depth(t, k) >= 0
  <2>1. k \in 1 .. i \/ k = i + 1
    OBVIOUS
  <2> QED BY <1>1, <1>3, <2>1 DEF Nested
<1>5. ASSUME NEW n \in 1 .. Len(s) - 1 PROVE Encloses(t, Front(s), i + 1, n)
  <2>1. Encloses(t, s, i, n) /\ Front(s)[n] = s[n]
    BY <1>1, <1>2 DEF Nested
  <2>2. s[n].from \in 1 .. (i + 1) - 1
    BY <2>1 DEF Encloses
  <2>3. ASSUME NEW k \in s[n].from + 1 .. i + 1 PROVE Depth(t, k) >= n
    <3>1. k \in s[n].from + 1 .. i \/ k = i + 1
      BY <2>2
    <3> QED BY <1>1, <1>3, <2>1, <3>1 DEF Encloses
  <2> QED BY <2>1, <2>2, <2>3 DEF Encloses
<1> QED BY <1>2, <1>3, <1>4, <1>5 DEF Nested

\* The innermost call notes a name.
Noting(s, N) == [s EXCEPT ![Len(s)].names = N]

\* That leaves its bracket, and what is open.
LEMMA NestedNoting ==
    ASSUME NEW t, NEW i, NEW s, Nested(t, s, i), s # <<>>, NEW N \in SUBSET Strings,
           NEW r, r = Noting(s, N)
    PROVE  /\ Nested(t, r, i) /\ Len(r) = Len(s)
           /\ \A n \in 1 .. Len(s) : r[n].from = s[n].from
           /\ \A n \in 1 .. Len(s) : r[n].names = IF n = Len(s) THEN N ELSE s[n].names
<1> DEFINE f == [s[Len(s)] EXCEPT !.names = N]
<1>1. s \in Seq(Frame) /\ Len(s) \in 1 .. Len(s)
  BY EmptySeq DEF Nested
<1>2. s[Len(s)] \in Frame
  BY <1>1, ElementOfSeq
<1>3. f \in Frame /\ f.from = s[Len(s)].from /\ f.names = N
  BY <1>2 DEF Frame
<1>9. r = [s EXCEPT ![Len(s)] = f]
  BY DEF f, Noting
<1> HIDE DEF f
<1>4. /\ r \in Seq(Frame) /\ Len(r) = Len(s)
      /\ \A n \in 1 .. Len(s) : r[n] = IF n = Len(s) THEN f ELSE s[n]
  BY <1>1, <1>3, <1>9, ExceptSeq
<1>5. \A n \in 1 .. Len(s) : r[n].from = s[n].from
  BY <1>3, <1>4
<1>6. \A n \in 1 .. Len(s) : r[n].names = IF n = Len(s) THEN N ELSE s[n].names
  BY <1>3, <1>4
<1>7. \A n \in 1 .. Len(s) : Encloses(t, s, i, n) => Encloses(t, r, i, n)
  BY <1>5 DEF Encloses
<1>8. Nested(t, r, i)
  BY <1>4, <1>7 DEF Nested
<1> QED BY <1>4, <1>5, <1>6, <1>8

\* What a call at bracket a has noted of the names before position i.
NamesOf(t, a, i) == {Decoded(t[j]) : j \in {k \in 1 .. i - 1 : IsName(t, k) /\ Around(t, k) = a}}
Named(t, s, i) == \A n \in 1 .. Len(s) : s[n].names = NamesOf(t, s[n].from, i)

\* What is no name of an object adds none to its names.
LEMMA NamesOver ==
    ASSUME NEW t, NEW a, NEW i \in Nat \ {0}, NEW j \in Nat, i <= j,
           \A k \in i .. j - 1 : ~ (IsName(t, k) /\ Around(t, k) = a)
    PROVE  NamesOf(t, a, j) = NamesOf(t, a, i)
<1>1. \A k : k \in 1 .. j - 1 <=> k \in 1 .. i - 1 \/ k \in i .. j - 1
  OBVIOUS
<1>2. {k \in 1 .. j - 1 : IsName(t, k) /\ Around(t, k) = a} = {k \in 1 .. i - 1 : IsName(t, k) /\ Around(t, k) = a}
  BY <1>1
<1> QED BY <1>2 DEF NamesOf

\* A name adds itself.
LEMMA NamesNext ==
    ASSUME NEW t, NEW i \in Nat \ {0}, IsName(t, i)
    PROVE  NamesOf(t, Around(t, i), i + 1) = NamesOf(t, Around(t, i), i) \cup {Decoded(t[i])}
<1>1. \A k : k \in 1 .. (i + 1) - 1 <=> k \in 1 .. i - 1 \/ k = i
  OBVIOUS
<1> QED BY <1>1 DEF NamesOf

\* An object that has just begun has no names.
LEMMA NamesNone ==
    ASSUME NEW t, NEW i \in Nat \ {0}
    PROVE  NamesOf(t, i, i + 1) = {}
<1>1. ASSUME NEW k \in 1 .. (i + 1) - 1 PROVE Around(t, k) # i
  <2>1. Around(t, k) \in 0 .. k - 1
    BY AroundBounds
  <2> QED BY <2>1
<1> QED BY <1>1 DEF NamesOf

\* What is no name leaves all calls with their names.
LEMMA NamedOver ==
    ASSUME NEW t, NEW s, NEW i \in Nat \ {0}, NEW j \in Nat, i <= j, Named(t, s, i),
           \A k \in i .. j - 1 : ~ IsName(t, k)
    PROVE  Named(t, s, j)
<1>1. ASSUME NEW n \in 1 .. Len(s) PROVE NamesOf(t, s[n].from, j) = NamesOf(t, s[n].from, i)
  BY NamesOver
<1> QED BY <1>1 DEF Named

-----------------------------------------------------------------------------
(* A scan that has reached position i in the calls s, and what it awaits.    *)

Fit(t, i) == \A k \in 1 .. i - 1 : t[k] # "space" => Fits(t, k)

Reached(t, i, s) ==
  /\ i \in 1 .. Len(t) + 1
  /\ Len(s) <= MaxDepth
  /\ Nested(t, s, i)
  /\ Named(t, s, i)
  /\ Fit(t, i)

\* The token before, and the bracket of the innermost call.
Token(t, i) == IF Before(t, i) = 0 THEN "none" ELSE t[Before(t, i)]
Called(t, s) == IF s = <<>> THEN "none" ELSE t[Last(s).from]
CommaOf(t, i, s) == Token(t, i) = "comma" => Around(t, Before(t, i)) = Last(s).from

ValueDue(t, i, s) ==
  \/ s = <<>> /\ Before(t, i) = 0
  \/ s # <<>> /\ Token(t, i) = "colon"
  \/ /\ Called(t, s) = "lbracket" /\ Token(t, i) \in {"lbracket", "comma"}
     /\ CommaOf(t, i, s) /\ At(t, i) # "space"
     /\ Token(t, i) = "lbracket" => At(t, i) # "rbracket"
NameDue(t, i, s) ==
  /\ Called(t, s) = "lbrace" /\ Token(t, i) \in {"lbrace", "comma"}
  /\ CommaOf(t, i, s) /\ At(t, i) # "space"
  /\ Token(t, i) = "lbrace" => At(t, i) # "rbrace"
FirstDue(t, i, s) == s # <<>> /\ Before(t, i) = Last(s).from /\ At(t, i) # "space"
ColonDue(t, i, s) == s # <<>> /\ Before(t, i) # 0 /\ IsName(t, Before(t, i)) /\ At(t, i) # "space"
AfterDue(t, i, s) == Before(t, i) # 0 /\ Completes(t, Before(t, i))

\* The scan goes on over white space.
LEMMA ReachedOver ==
    ASSUME NEW t \in Seq(Tokens), NEW i, NEW s, Reached(t, i, s)
    PROVE  /\ Reached(t, Skip(t, i), s) /\ Before(t, Skip(t, i)) = Before(t, i)
           /\ At(t, Skip(t, i)) # "space"
<1> DEFINE j == Skip(t, i)
<1>1. i \in 1 .. Len(t) + 1 /\ Len(t) \in Nat /\ i \in Nat \ {0}
  BY DEF Reached
<1>2. j \in i .. Len(t) + 1 /\ At(t, j) # "space" /\ Blank(t, i, j)
  BY <1>1, SkipStops
<1>3. j \in Nat /\ i <= j /\ j \in 1 .. Len(t) + 1
  BY <1>1, <1>2
<1> HIDE DEF j
<1>4. Before(t, j) = Before(t, i) /\ \A k \in i .. j : Depth(t, k) = Depth(t, i)
  BY <1>1, <1>2, <1>3, BeforeOverBlanks, DepthOverBlanks
<1>5. Nested(t, s, j)
  BY <1>1, <1>3, <1>4, NestedOver DEF Reached
<1>6. \A k \in i .. j - 1 : ~ IsName(t, k)
  BY <1>2 DEF IsName, Strings, Blank
<1>7. Named(t, s, j)
  BY <1>1, <1>3, <1>6, NamedOver DEF Reached
<1>8. ASSUME NEW k \in 1 .. j - 1, t[k] # "space" PROVE Fits(t, k)
  <2>1. k \in 1 .. i - 1 \/ k \in i .. j - 1
    BY <1>1, <1>3
  <2> QED BY <1>2, <1>8, <2>1 DEF Blank, Reached, Fit
<1>9. Reached(t, j, s)
  BY <1>3, <1>5, <1>7, <1>8 DEF Reached, Fit
<1> QED BY <1>2, <1>4, <1>9 DEF j

\* Where a scan stands before a token.
LEMMA TokenHere ==
    ASSUME NEW t \in Seq(Tokens), NEW i, NEW s, Reached(t, i, s), i <= Len(t)
    PROVE  /\ i \in Nat \ {0} /\ i \in 1 .. Len(t) /\ Len(t) \in Nat
           /\ t[i] \in Tokens /\ At(t, i) = t[i]
           /\ s \in Seq(Frame) /\ Depth(t, i) = Len(s) /\ Len(s) \in Nat /\ Len(s) <= MaxDepth
           /\ Around(t, i) = IF s = <<>> THEN 0 ELSE Last(s).from
           /\ s # <<>> => Last(s).from # 0
<1>1. i \in Nat \ {0} /\ i \in 1 .. Len(t) /\ Len(t) \in Nat
  BY DEF Reached
<1>2. t[i] \in Tokens /\ At(t, i) = t[i]
  BY <1>1, TokenOf
<1>3. s \in Seq(Frame) /\ Depth(t, i) = Len(s) /\ Len(s) <= MaxDepth
  BY DEF Reached, Nested
<1>4. Len(s) \in Nat
  BY <1>3
<1>5. Around(t, i) = IF s = <<>> THEN 0 ELSE Last(s).from
  BY <1>1, InnermostAround DEF Reached
<1>6. s # <<>> => Last(s).from # 0
  BY <1>3, LastFrame DEF Frame
<1> QED BY <1>1, <1>2, <1>3, <1>4, <1>5, <1>6

\* What follows a token that fits, is over when the text is.
LEMMA ReachedNext ==
    ASSUME NEW t \in Seq(Tokens), NEW i, NEW s, Reached(t, i, s), i <= Len(t), t[i] # "space", Fits(t, i)
    PROVE  /\ i + 1 \in 1 .. Len(t) + 1 /\ Fit(t, i + 1) /\ Before(t, i + 1) = i
<1>1. i \in Nat \ {0} /\ i \in 1 .. Len(t) /\ Len(t) \in Nat
  BY TokenHere
<1>2. \A k \in 1 .. (i + 1) - 1 : k \in 1 .. i - 1 \/ k = i
  BY <1>1
<1>3. Fit(t, i + 1)
  BY <1>2 DEF Fit, Reached
<1> QED BY <1>1, <1>3, BeforeNext

\* One token that does not fit makes a text not strict.
LEMMA NotStrict ==
    ASSUME NEW t \in Seq(Tokens), NEW i, NEW s, Reached(t, i, s), i <= Len(t), t[i] # "space", ~ Fits(t, i)
    PROVE  ~ Strict(t)
<1>1. i \in 1 .. Len(t)
  BY TokenHere
<1> QED BY <1>1 DEF Strict

-----------------------------------------------------------------------------
(* What each part of the scan accepts is what fits.                          *)

\* A token keeps the limit on the depth, unless it is a bracket that opens at the limit (assertDepth).
LEMMA DepthFits ==
    ASSUME MaxDepth \in Nat, NEW t \in Seq(Tokens), NEW i, NEW s, Reached(t, i, s), i <= Len(t)
    PROVE  /\ t[i] \in Opening /\ Len(s) < MaxDepth => Depth(t, i + 1) <= MaxDepth
           /\ t[i] \in Opening /\ ~ (Len(s) < MaxDepth) => ~ (Depth(t, i + 1) <= MaxDepth)
           /\ t[i] \notin Opening => Depth(t, i + 1) <= MaxDepth
<1>1. /\ i \in Nat \ {0} /\ Depth(t, i) = Len(s) /\ Len(s) \in Nat /\ Len(s) <= MaxDepth
  BY TokenHere
<1>2. CASE t[i] \in Opening
  <2>1. Depth(t, i + 1) = Len(s) + 1
    BY <1>1, <1>2, DepthNext
  <2> QED BY <1>1, <1>2, <2>1
<1>3. CASE t[i] \notin Opening
  <2>1. Depth(t, i + 1) = Len(s) \/ Depth(t, i + 1) = Len(s) - 1
    <3>1. CASE t[i] \in Closing
      BY <1>1, <3>1, DepthNext
    <3>2. CASE t[i] \notin Closing
      <4>1. t[i] \notin Opening \cup Closing
        BY <1>3, <3>2
      <4> QED BY <1>1, <4>1, DepthNext
    <3> QED BY <3>1, <3>2
  <2> QED BY <1>1, <1>3, <2>1
<1> QED BY <1>2, <1>3

\* What may follow each token.
LEMMA FollowsRules ==
    ASSUME NEW t, NEW p, NEW i
    PROVE  /\ t[p] = "lbrace" => (Follows(t, p, i) <=> t[i] = "rbrace" \/ IsName(t, i))
           /\ t[p] = "lbracket" => (Follows(t, p, i) <=> t[i] = "rbracket" \/ Begins(t, i))
           /\ t[p] = "colon" => (Follows(t, p, i) <=> Begins(t, i))
           /\ t[p] = "comma" /\ Within(t, p, "lbrace") => (Follows(t, p, i) <=> IsName(t, i))
           /\ t[p] = "comma" /\ ~ Within(t, p, "lbrace") => (Follows(t, p, i) <=> Begins(t, i))
           /\ IsName(t, p) => (Follows(t, p, i) <=> t[i] = "colon")
           /\ Completes(t, p) => (Follows(t, p, i) <=> Around(t, i) # 0 /\ t[i] \in Closing \cup {"comma"})
<1>1. t[p] \in {"lbrace", "lbracket", "colon", "comma"} => ~ IsName(t, p) /\ ~ Completes(t, p)
  BY DEF IsName, Completes, IsValue, Strings, Scalars, Closing
<1>2. IsName(t, p) => ~ Completes(t, p)
  BY DEF IsName, Completes, IsValue, Strings, Closing
<1> QED BY <1>1, <1>2 DEF Follows

\* Where a value is due, what scanValue and parseValue take is what fits.
LEMMA ValueFits ==
    ASSUME MaxDepth \in Nat, NEW t \in Seq(Tokens), NEW i, NEW s, Reached(t, i, s), i <= Len(t),
           t[i] # "space", ValueDue(t, i, s)
    PROVE  /\ ~ IsName(t, i)
           /\ Fits(t, i) <=> t[i] \in Scalars \/ (t[i] \in Opening /\ Len(s) < MaxDepth)
<1>1. /\ t[i] \in Tokens /\ At(t, i) = t[i] /\ (s # <<>> => Last(s).from # 0)
      /\ Around(t, i) = IF s = <<>> THEN 0 ELSE Last(s).from
  BY TokenHere
<1>2. ~ IsName(t, i)
  <2>1. CASE s = <<>>
    BY <1>1, <2>1 DEF IsName, Within
  <2>2. CASE s # <<>> /\ Token(t, i) = "colon"
    BY <2>2 DEF IsName, Token
  <2>3. CASE Called(t, s) = "lbracket"
    BY <1>1, <2>3 DEF IsName, Within, Called
  <2> QED BY <2>1, <2>2, <2>3 DEF ValueDue
<1>3. Begins(t, i) <=> t[i] \in Opening \cup Scalars
  BY <1>2 DEF Begins, IsValue
<1>4. t[i] \in Opening \cup Scalars => t[i] # "rbrace" /\ t[i] # "rbracket"
  BY DEF Opening, Scalars, Strings
<1>5. Before(t, i) # 0 => (Follows(t, Before(t, i), i) <=> Begins(t, i))
  <2>1. CASE Before(t, i) = 0
    BY <2>1
  <2>2. CASE Before(t, i) # 0 /\ Token(t, i) = "colon"
    BY <2>2, FollowsRules DEF Token
  <2>3. CASE Before(t, i) # 0 /\ Called(t, s) = "lbracket" /\ Token(t, i) = "lbracket"
    <3>1. t[i] # "rbracket"
      BY <1>1, <2>3 DEF ValueDue
    <3> QED BY <2>3, <3>1, FollowsRules DEF Token
  <2>4. CASE Before(t, i) # 0 /\ Called(t, s) = "lbracket" /\ Token(t, i) = "comma"
    <3>1. Around(t, Before(t, i)) = Last(s).from /\ s # <<>>
      BY <2>4 DEF ValueDue, CommaOf, Called
    <3>2. ~ Within(t, Before(t, i), "lbrace")
      BY <2>4, <3>1 DEF Within, Called
    <3> QED BY <2>4, <3>2, FollowsRules DEF Token
  <2> QED BY <2>1, <2>2, <2>3, <2>4 DEF ValueDue
<1>6. /\ t[i] \in Opening /\ Len(s) < MaxDepth => Depth(t, i + 1) <= MaxDepth
      /\ t[i] \in Opening /\ ~ (Len(s) < MaxDepth) => ~ (Depth(t, i + 1) <= MaxDepth)
      /\ t[i] \notin Opening => Depth(t, i + 1) <= MaxDepth
  BY DepthFits
<1>7. t[i] \in Scalars => t[i] \notin Opening
  BY DEF Opening, Scalars, Strings
<1> QED BY <1>2, <1>3, <1>4, <1>5, <1>6, <1>7 DEF Fits

\* Where a name is due, what scanObject takes is what fits: a string whose decoded form it has not noted.
LEMMA NameFits ==
    ASSUME MaxDepth \in Nat, NEW t \in Seq(Tokens), NEW i, NEW s, Reached(t, i, s), i <= Len(t),
           t[i] # "space", NameDue(t, i, s)
    PROVE  /\ t[i] \in Strings => IsName(t, i)
           /\ Fits(t, i) <=> t[i] \in Strings /\ Decoded(t[i]) \notin Last(s).names
<1>1. /\ t[i] \in Tokens /\ At(t, i) = t[i] /\ s # <<>> /\ Last(s).from # 0
      /\ Around(t, i) = Last(s).from /\ t[Last(s).from] = "lbrace"
  BY TokenHere DEF NameDue, Called
<1>2. Before(t, i) # 0 /\ t[Before(t, i)] \in {"lbrace", "comma"} /\ Token(t, i) = t[Before(t, i)]
  BY DEF NameDue, Token
<1>3. IsName(t, i) <=> t[i] \in Strings
  BY <1>1, <1>2 DEF IsName, Within
<1>4. Follows(t, Before(t, i), i) <=> IsName(t, i)
  <2>1. CASE t[Before(t, i)] = "lbrace"
    <3>1. t[i] # "rbrace"
      BY <1>1, <1>2, <2>1 DEF NameDue
    <3> QED BY <2>1, <3>1, FollowsRules
  <2>2. CASE t[Before(t, i)] = "comma"
    <3>1. Around(t, Before(t, i)) = Last(s).from
      BY <1>2, <2>2 DEF NameDue, CommaOf
    <3>2. Within(t, Before(t, i), "lbrace")
      BY <1>1, <3>1 DEF Within
    <3> QED BY <2>2, <3>2, FollowsRules
  <2> QED BY <1>2, <2>1, <2>2
<1>5. Last(s).names = NamesOf(t, Around(t, i), i)
  <2>1. Last(s) = s[Len(s)] /\ Len(s) \in 1 .. Len(s)
    BY <1>1, TokenHere, LastFrame
  <2> QED BY <1>1, <2>1 DEF Reached, Named
<1>6. Decoded(t[i]) \notin Last(s).names <=>
        \A j \in 1 .. i - 1 : IsName(t, j) /\ Around(t, j) = Around(t, i) => Decoded(t[j]) # Decoded(t[i])
  BY <1>5 DEF NamesOf
<1>7. t[i] \in Strings => t[i] # "rbrace" /\ t[i] # "rbracket" /\ t[i] \notin Opening
  BY DEF Strings, Opening
<1>8. t[i] \notin Opening => Depth(t, i + 1) <= MaxDepth
  BY DepthFits
<1> QED BY <1>2, <1>3, <1>4, <1>6, <1>7, <1>8 DEF Fits

\* After a name only a colon fits.
LEMMA ColonFits ==
    ASSUME MaxDepth \in Nat, NEW t \in Seq(Tokens), NEW i, NEW s, Reached(t, i, s), i <= Len(t),
           t[i] # "space", ColonDue(t, i, s)
    PROVE  /\ Fits(t, i) <=> t[i] = "colon"
           /\ t[i] = "colon" => ~ IsName(t, i) /\ t[i] \notin Opening \cup Closing
<1>1. Before(t, i) # 0 /\ IsName(t, Before(t, i)) /\ t[Before(t, i)] \in Strings
  BY DEF ColonDue, IsName
<1>2. Follows(t, Before(t, i), i) <=> t[i] = "colon"
  BY <1>1, FollowsRules
<1>3. t[i] = "colon" => ~ IsName(t, i) /\ t[i] \notin Opening \cup Closing
  BY DEF IsName, Strings, Opening, Closing
<1>4. t[i] \notin Opening => Depth(t, i + 1) <= MaxDepth
  BY DepthFits
<1> QED BY <1>1, <1>2, <1>3, <1>4 DEF Fits

ClosesOf(t, s) == IF Called(t, s) = "lbrace" THEN "rbrace" ELSE "rbracket"

\* An opening bracket is one of two.
LEMMA CalledIs ==
    ASSUME NEW t, NEW i, NEW s, Nested(t, s, i), s # <<>>
    PROVE  Called(t, s) \in {"lbrace", "lbracket"} /\ Called(t, s) = t[Last(s).from]
<1>1. Last(s) = s[Len(s)] /\ Len(s) \in 1 .. Len(s)
  BY LastFrame DEF Nested
<1>2. t[Last(s).from] \in Opening
  BY <1>1 DEF Nested, Encloses
<1> QED BY <1>2 DEF Called, Opening

\* After a value only a comma or the bracket that closes fits, and nothing after the outermost.
LEMMA AfterFits ==
    ASSUME MaxDepth \in Nat, NEW t \in Seq(Tokens), NEW i, NEW s, Reached(t, i, s), i <= Len(t),
           t[i] # "space", AfterDue(t, i, s)
    PROVE  /\ s = <<>> => ~ Fits(t, i)
           /\ s # <<>> => (Fits(t, i) <=> t[i] \in {ClosesOf(t, s), "comma"})
<1>1. /\ (s # <<>> => Last(s).from # 0)
      /\ Around(t, i) = IF s = <<>> THEN 0 ELSE Last(s).from
  BY TokenHere
<1>2. Before(t, i) # 0 /\ Completes(t, Before(t, i))
  BY DEF AfterDue
<1>3. Follows(t, Before(t, i), i) <=> Around(t, i) # 0 /\ t[i] \in Closing \cup {"comma"}
  BY <1>2, FollowsRules
<1>4. CASE s = <<>>
  BY <1>1, <1>2, <1>3, <1>4 DEF Fits
<1>5. CASE s # <<>>
  <2>1. Called(t, s) \in {"lbrace", "lbracket"} /\ Called(t, s) = t[Last(s).from]
    BY <1>5, CalledIs DEF Reached
  <2>2. \A b : Within(t, i, b) <=> Called(t, s) = b
    BY <1>1, <1>5, <2>1 DEF Within
  <2>3. t[i] \in Closing \cup {"comma"} => t[i] \notin Opening /\ ~ IsName(t, i)
    BY DEF Closing, Opening, IsName, Strings
  <2>4. t[i] \notin Opening => Depth(t, i + 1) <= MaxDepth
    BY DepthFits
  <2>5. t[i] \in Closing \cup {"comma"} <=> t[i] \in {"rbrace", "rbracket", "comma"}
    BY DEF Closing
  <2>6. t[i] \in {ClosesOf(t, s), "comma"} <=>
          /\ t[i] \in {"rbrace", "rbracket", "comma"}
          /\ t[i] = "rbrace" => Called(t, s) = "lbrace"
          /\ t[i] = "rbracket" => Called(t, s) = "lbracket"
    BY <2>1 DEF ClosesOf
  <2> QED BY <1>1, <1>2, <1>3, <1>5, <2>2, <2>3, <2>4, <2>5, <2>6 DEF Fits
<1> QED BY <1>4, <1>5

\* The bracket that closes fits at once.
LEMMA FirstFits ==
    ASSUME MaxDepth \in Nat, NEW t \in Seq(Tokens), NEW i, NEW s, Reached(t, i, s), i <= Len(t),
           FirstDue(t, i, s), t[i] = ClosesOf(t, s)
    PROVE  Fits(t, i)
<1>1. s # <<>> /\ Last(s).from # 0 /\ Around(t, i) = Last(s).from /\ Before(t, i) = Last(s).from
  BY TokenHere DEF FirstDue
<1>2. Called(t, s) \in {"lbrace", "lbracket"} /\ Called(t, s) = t[Last(s).from]
  BY <1>1, CalledIs DEF Reached
<1>3. \A b : Within(t, i, b) <=> Called(t, s) = b
  BY <1>1, <1>2 DEF Within
<1>4. t[i] \notin Opening /\ ~ IsName(t, i)
  BY DEF ClosesOf, Opening, IsName, Strings
<1>5. t[i] \notin Opening => Depth(t, i + 1) <= MaxDepth
  BY DepthFits
<1>6. Follows(t, Before(t, i), i)
  BY <1>1, <1>2, FollowsRules DEF ClosesOf
<1> QED BY <1>1, <1>2, <1>3, <1>4, <1>5, <1>6 DEF Fits, ClosesOf

\* At the end of the text.
LEMMA EndFits ==
    ASSUME NEW t \in Seq(Tokens), NEW s, Reached(t, Len(t) + 1, s)
    PROVE  Strict(t) <=> s = <<>> /\ AfterDue(t, Len(t) + 1, s)
<1>1. Fit(t, Len(t) + 1) /\ Len(t) \in Nat /\ (Len(t) + 1) - 1 = Len(t)
  BY DEF Reached
<1>2. \A i \in 1 .. Len(t) : t[i] # "space" => Fits(t, i)
  BY <1>1 DEF Fit
<1>3. Depth(t, Len(t) + 1) = Len(s) /\ s \in Seq(Frame)
  BY DEF Reached, Nested
<1>4. Len(s) = 0 <=> s = <<>>
  BY <1>3, EmptySeq
<1> QED BY <1>2, <1>3, <1>4 DEF Strict, AfterDue

-----------------------------------------------------------------------------
(* A token that fits is taken.                                               *)

\* A token that is neither bracket nor name.
LEMMA TakesPlain ==
    ASSUME NEW t \in Seq(Tokens), NEW i, NEW s, Reached(t, i, s), i <= Len(t), t[i] # "space", Fits(t, i),
           t[i] \notin Opening \cup Closing, ~ IsName(t, i)
    PROVE  Reached(t, i + 1, s) /\ Before(t, i + 1) = i
<1>1. i \in Nat \ {0} /\ i + 1 \in Nat /\ i <= i + 1 /\ \A k \in i .. (i + 1) - 1 : k = i
  BY TokenHere
<1>2. i + 1 \in 1 .. Len(t) + 1 /\ Fit(t, i + 1) /\ Before(t, i + 1) = i
  BY ReachedNext
<1>3. Nested(t, s, i + 1)
  BY <1>1, NestedOn DEF Reached
<1>4. Named(t, s, i + 1)
  BY <1>1, NamedOver DEF Reached
<1> QED BY <1>2, <1>3, <1>4 DEF Reached

\* A bracket that calls.
LEMMA TakesOpening ==
    ASSUME MaxDepth \in Nat, NEW t \in Seq(Tokens), NEW i, NEW s, Reached(t, i, s), i <= Len(t), Fits(t, i),
           t[i] \in Opening, Len(s) < MaxDepth
    PROVE  LET r == Append(s, [from |-> i, names |-> {}])
           IN  Reached(t, i + 1, r) /\ Before(t, i + 1) = i /\ r # <<>> /\ Last(r).from = i
<1> DEFINE f == [from |-> i, names |-> {}]
           r == Append(s, f)
<1>0. t[i] # "space" /\ ~ IsName(t, i)
  BY DEF Opening, IsName, Strings
<1>1. /\ i \in Nat \ {0} /\ i + 1 \in Nat /\ i <= i + 1 /\ \A k \in i .. (i + 1) - 1 : k = i
      /\ s \in Seq(Frame) /\ Len(s) \in Nat
  BY TokenHere
<1>2. i + 1 \in 1 .. Len(t) + 1 /\ Fit(t, i + 1) /\ Before(t, i + 1) = i
  BY <1>0, ReachedNext
<1>3. Nested(t, r, i + 1)
  BY <1>1, NestedIn DEF Reached
<1>4. Named(t, s, i + 1)
  BY <1>0, <1>1, NamedOver DEF Reached
<1>5. f \in Frame /\ f.from = i /\ f.names = {}
  BY <1>1 DEF Frame
<1>6. Len(r) = Len(s) + 1 /\ r[Len(s) + 1] = f /\ \A n \in 1 .. Len(s) : r[n] = s[n]
  BY <1>1, <1>5, AppendProperties
<1>7. f.names = NamesOf(t, f.from, i + 1)
  BY <1>1, <1>5, NamesNone
<1> HIDE DEF r, f
<1>8. ASSUME NEW n \in 1 .. Len(r) PROVE r[n].names = NamesOf(t, r[n].from, i + 1)
  <2>1. CASE n = Len(s) + 1
    BY <1>6, <1>7, <2>1
  <2>2. CASE n \in 1 .. Len(s)
    BY <1>4, <1>6, <2>2 DEF Named
  <2> QED BY <1>1, <1>6, <2>1, <2>2
<1>9. Len(r) <= MaxDepth
  BY <1>1, <1>6
<1>10. Last(r) = f /\ Len(r) # 0
  BY <1>1, <1>6 DEF Last
<1>11. r # <<>>
  BY <1>10, EmptySeq
<1>12. Reached(t, i + 1, r)
  BY <1>2, <1>3, <1>8, <1>9 DEF Reached, Named
<1> QED BY <1>2, <1>5, <1>10, <1>11, <1>12 DEF r, f

\* A bracket that returns.
LEMMA TakesClosing ==
    ASSUME MaxDepth \in Nat, NEW t \in Seq(Tokens), NEW i, NEW s, Reached(t, i, s), i <= Len(t), Fits(t, i),
           t[i] \in Closing, s # <<>>
    PROVE  Reached(t, i + 1, Front(s)) /\ Before(t, i + 1) = i
<1>0. t[i] # "space" /\ ~ IsName(t, i)
  BY DEF Closing, IsName, Strings
<1>1. /\ i \in Nat \ {0} /\ i + 1 \in Nat /\ i <= i + 1 /\ \A k \in i .. (i + 1) - 1 : k = i
      /\ s \in Seq(Frame) /\ Len(s) \in Nat /\ Len(s) <= MaxDepth
  BY TokenHere
<1>2. i + 1 \in 1 .. Len(t) + 1 /\ Fit(t, i + 1) /\ Before(t, i + 1) = i
  BY <1>0, ReachedNext
<1>3. Nested(t, Front(s), i + 1)
  BY <1>1, NestedOut DEF Reached
<1>4. Named(t, s, i + 1)
  BY <1>0, <1>1, NamedOver DEF Reached
<1>5. Len(Front(s)) = Len(s) - 1 /\ \A n \in 1 .. Len(s) - 1 : Front(s)[n] = s[n]
  BY <1>1, FrontFrames
<1>6. ASSUME NEW n \in 1 .. Len(Front(s)) PROVE Front(s)[n].names = NamesOf(t, Front(s)[n].from, i + 1)
  <2>1. n \in 1 .. Len(s) /\ Front(s)[n] = s[n]
    BY <1>1, <1>5
  <2> QED BY <1>4, <2>1 DEF Named
<1>7. Len(Front(s)) <= MaxDepth
  BY <1>1, <1>5
<1> QED BY <1>2, <1>3, <1>6, <1>7 DEF Reached, Named

\* A name, which its call notes.
LEMMA TakesName ==
    ASSUME MaxDepth \in Nat, NEW t \in Seq(Tokens), NEW i, NEW s, Reached(t, i, s), i <= Len(t), Fits(t, i),
           IsName(t, i), s # <<>>
    PROVE  LET r == [s EXCEPT ![Len(s)].names = @ \cup {Decoded(t[i])}]
           IN  Reached(t, i + 1, r) /\ Before(t, i + 1) = i /\ r # <<>> /\ Last(r).from = Last(s).from
<1> DEFINE N == Last(s).names \cup {Decoded(t[i])}
           r == [s EXCEPT ![Len(s)].names = N]
<1>0. t[i] # "space" /\ t[i] \notin Opening \cup Closing
  BY DEF Opening, Closing, IsName, Strings
<1>1. /\ i \in Nat \ {0} /\ i + 1 \in Nat /\ i <= i + 1
      /\ s \in Seq(Frame) /\ Len(s) \in Nat /\ Len(s) <= MaxDepth /\ Around(t, i) = Last(s).from
  BY TokenHere
<1>2. i + 1 \in 1 .. Len(t) + 1 /\ Fit(t, i + 1) /\ Before(t, i + 1) = i
  BY <1>0, ReachedNext
<1>3. Nested(t, s, i + 1)
  BY <1>0, <1>1, NestedOn DEF Reached
<1>4. Len(s) \in 1 .. Len(s) /\ Last(s) = s[Len(s)] /\ Last(s) \in Frame
  BY <1>1, LastFrame
<1>5. N \in SUBSET Strings
  <2>1. Last(s).names \in SUBSET Strings
    BY <1>4 DEF Frame
  <2>2. Decoded(t[i]) \in Strings
    BY DEF Decoded, IsName, Strings
  <2> QED BY <2>1, <2>2
<1>13. r = [s EXCEPT ![Len(s)].names = @ \cup {Decoded(t[i])}]
  BY <1>4
<1> HIDE DEF N
<1>14. r = Noting(s, N)
  BY DEF Noting
<1> HIDE DEF r
<1>6. /\ Nested(t, r, i + 1) /\ Len(r) = Len(s)
      /\ \A n \in 1 .. Len(s) : r[n].from = s[n].from
      /\ \A n \in 1 .. Len(s) : r[n].names = IF n = Len(s) THEN N ELSE s[n].names
  BY <1>3, <1>5, <1>14, NestedNoting
<1>7. N = NamesOf(t, Last(s).from, i + 1)
  <2>1. Last(s).names = NamesOf(t, Last(s).from, i)
    BY <1>4 DEF Reached, Named
  <2>2. NamesOf(t, Last(s).from, i + 1) = NamesOf(t, Last(s).from, i) \cup {Decoded(t[i])}
    BY <1>1, NamesNext
  <2> QED BY <2>1, <2>2 DEF N
<1>8. ASSUME NEW n \in 1 .. Len(s), n # Len(s) PROVE s[n].names = NamesOf(t, s[n].from, i + 1)
  <2>1. s[n].names = NamesOf(t, s[n].from, i)
    BY DEF Reached, Named
  <2>2. s[n].from # Last(s).from
    <3>1. Encloses(t, s, i, n) /\ Encloses(t, s, i, Len(s))
      BY <1>4 DEF Reached, Nested
    <3>2. Depth(t, s[n].from) = n - 1 /\ Depth(t, s[Len(s)].from) = Len(s) - 1
      BY <3>1 DEF Encloses
    <3>3. n - 1 # Len(s) - 1
      BY <1>1, <1>8
    <3> QED BY <1>4, <3>2, <3>3
  <2>3. \A k \in i .. (i + 1) - 1 : ~ (IsName(t, k) /\ Around(t, k) = s[n].from)
    <3>1. \A k \in i .. (i + 1) - 1 : k = i
      BY <1>1
    <3> QED BY <1>1, <2>2, <3>1
  <2>4. NamesOf(t, s[n].from, i + 1) = NamesOf(t, s[n].from, i)
    BY <1>1, <2>3, NamesOver
  <2> QED BY <2>1, <2>4
<1>9. ASSUME NEW n \in 1 .. Len(r) PROVE r[n].names = NamesOf(t, r[n].from, i + 1)
  <2>1. CASE n = Len(s)
    BY <1>4, <1>6, <1>7, <2>1
  <2>2. CASE n # Len(s)
    BY <1>6, <1>8, <2>2
  <2> QED BY <2>1, <2>2
<1>10. Reached(t, i + 1, r)
  BY <1>1, <1>2, <1>6, <1>9 DEF Reached, Named
<1>11. Last(r).from = Last(s).from
  BY <1>4, <1>6 DEF Last
<1>12. r # <<>>
  <2>1. Len(r) # 0
    BY <1>4, <1>6
  <2> QED BY <2>1, EmptySeq
<1> QED BY <1>2, <1>10, <1>11, <1>12, <1>13

-----------------------------------------------------------------------------
(* Every step of the scan goes on as it stands, or ends with the verdict.    *)

\* Where there is no white space the scan stays.
LEMMA SkipStays ==
    ASSUME NEW t \in Seq(Tokens), NEW i \in 1 .. Len(t) + 1, At(t, i) # "space"
    PROVE  Skip(t, i) = i
<1>1. Skip(t, i) \in i .. Len(t) + 1 /\ Blank(t, i, Skip(t, i)) /\ Len(t) \in Nat
  BY SkipStops
<1>2. ASSUME Skip(t, i) > i PROVE FALSE
  <2>1. i \in i .. Skip(t, i) - 1 /\ i \in 1 .. Len(t)
    BY <1>1, <1>2
  <2> QED BY <1>1, <2>1 DEF Blank, At
<1> QED BY <1>1, <1>2

\* A value that is due is still due after white space.
LEMMA ValueDueOver ==
    ASSUME NEW t \in Seq(Tokens), NEW i, NEW s, Reached(t, i, s), ValueDue(t, i, s)
    PROVE  ValueDue(t, Skip(t, i), s)
<1>1. CASE At(t, i) # "space"
  <2>1. Skip(t, i) = i
    BY <1>1, SkipStays DEF Reached
  <2> QED BY <2>1
<1>2. CASE At(t, i) = "space"
  <2>1. Before(t, Skip(t, i)) = Before(t, i)
    BY ReachedOver
  <2>2. Token(t, Skip(t, i)) = Token(t, i)
    BY <2>1 DEF Token
  <2> QED BY <1>2, <2>1, <2>2 DEF ValueDue
<1> QED BY <1>1, <1>2

\* A text that ends before its value does is not strict.
LEMMA EndUnfinished ==
    ASSUME NEW t \in Seq(Tokens), NEW i, NEW s, Reached(t, i, s), i = Len(t) + 1,
           ValueDue(t, i, s) \/ NameDue(t, i, s) \/ FirstDue(t, i, s) \/ ColonDue(t, i, s)
    PROVE  ~ Strict(t)
<1>1. Strict(t) => s = <<>> /\ AfterDue(t, i, s)
  BY EndFits
<1>2. s = <<>> => Before(t, i) = 0
  BY DEF ValueDue, NameDue, FirstDue, ColonDue, Called
<1> QED BY <1>1, <1>2 DEF AfterDue

\* No number that the release tooling refuses, before a position.
NoBig(t, i) == \A k \in 1 .. i - 1 : t[k] # "big"

\* White space is no such number,
LEMMA NoBigOver ==
    ASSUME NEW t \in Seq(Tokens), NEW i \in 1 .. Len(t) + 1, NoBig(t, i)
    PROVE  NoBig(t, Skip(t, i))
<1>1. Skip(t, i) \in i .. Len(t) + 1 /\ Blank(t, i, Skip(t, i)) /\ Len(t) \in Nat
  BY SkipStops
<1>2. ASSUME NEW k \in 1 .. Skip(t, i) - 1 PROVE t[k] # "big"
  <2>1. k \in 1 .. i - 1 \/ k \in i .. Skip(t, i) - 1
    BY <1>1
  <2> QED BY <1>1, <2>1 DEF Blank, NoBig
<1> QED BY <1>2 DEF NoBig

\* nor is any other token.
LEMMA NoBigNext ==
    ASSUME NEW t, NEW i \in Nat \ {0}, NoBig(t, i), t[i] # "big"
    PROVE  NoBig(t, i + 1)
<1>1. \A k \in 1 .. (i + 1) - 1 : k \in 1 .. i - 1 \/ k = i
  OBVIOUS
<1> QED BY <1>1 DEF NoBig

Due(what, i, s) ==
  \/ what = "value"     /\ ValueDue(bytes, i, s) /\ (reader = "response" => At(bytes, i) # "space")
  \/ what = "first"     /\ FirstDue(bytes, i, s)
  \/ what = "name"      /\ NameDue(bytes, i, s)
  \/ what = "separator" /\ ColonDue(bytes, i, s)
  \/ what = "after"     /\ AfterDue(bytes, i, s)

\* The scan has found everything before its position to fit, and awaits what it should.
StandsAt(what, i, s) ==
  /\ Reached(bytes, i, s)
  /\ reader = "file" => NoBig(bytes, i)
  /\ Due(what, i, s)
ScanStands == StandsAt(awaits, cursor, frames)

IsAccepted == Strict(bytes) /\ (reader = "file" => NoBig(bytes, Len(bytes) + 1))

Proceeds == \E what, i, s : Awaits(what, i, s) /\ StandsAt(what, i, s)
Judged   == (Finish("refused") /\ ~ IsAccepted) \/ (Finish("parsed") /\ IsAccepted)

\* A token that does not fit settles it.
LEMMA Refuses ==
    ASSUME bytes \in Seq(Tokens), NEW i, NEW s, Reached(bytes, i, s), At(bytes, i) # "space",
           \/ i <= Len(bytes) /\ ~ Fits(bytes, i)
           \/ /\ i = Len(bytes) + 1
              /\ ValueDue(bytes, i, s) \/ NameDue(bytes, i, s) \/ FirstDue(bytes, i, s) \/ ColonDue(bytes, i, s)
    PROVE  ~ IsAccepted
<1>1. CASE i <= Len(bytes) /\ ~ Fits(bytes, i)
  <2>1. bytes[i] # "space"
    BY <1>1, TokenHere
  <2> QED BY <1>1, <2>1, NotStrict DEF IsAccepted
<1>2. CASE i = Len(bytes) + 1
  BY <1>1, <1>2, EndUnfinished DEF IsAccepted
<1> QED BY <1>1, <1>2

\* A position of a text is before its end or at it.
LEMMA NoTokenAtEnd ==
    ASSUME bytes \in Seq(Tokens), NEW i, NEW s, Reached(bytes, i, s)
    PROVE  /\ Len(bytes) \in Nat /\ (i <= Len(bytes) \/ i = Len(bytes) + 1)
           /\ i = Len(bytes) + 1 => At(bytes, i) = "end"
<1>1. Len(bytes) \in Nat /\ i \in 1 .. Len(bytes) + 1
  BY DEF Reached
<1> QED BY <1>1 DEF At

\* scanValue and parseValue.
LEMMA ValueScan ==
    ASSUME bytes \in Seq(Tokens), reader \in {"response", "file"}, ScanStands, ScanValue
    PROVE  Proceeds \/ Judged
<1> DEFINE i == IF reader = "file" THEN Skip(bytes, cursor) ELSE cursor
<1>0. MaxDepth \in Nat
  BY LimitsAssumption
<1>1. /\ Reached(bytes, cursor, frames) /\ ValueDue(bytes, cursor, frames)
      /\ cursor \in 1 .. Len(bytes) + 1
      /\ reader = "file" => NoBig(bytes, cursor)
      /\ reader = "response" => At(bytes, cursor) # "space"
  BY DEF ScanStands, StandsAt, Due, ScanValue, Reached
<1>2. /\ Reached(bytes, i, frames) /\ ValueDue(bytes, i, frames) /\ At(bytes, i) # "space"
      /\ reader = "file" => NoBig(bytes, i)
  BY <1>1, ReachedOver, ValueDueOver, NoBigOver
<1>6. At(bytes, i) \in Opening => At(bytes, i) \notin Scalars
  BY DEF Scalars, Opening, Strings
<1>3. /\ At(bytes, i) \in Scalars /\ (At(bytes, i) = "big" => reader = "response") =>
           Awaits("after", i + 1, frames)
      /\ At(bytes, i) \in Opening /\ Len(frames) < MaxDepth =>
           Awaits("first", Skip(bytes, i + 1), Append(frames, [from |-> i, names |-> {}]))
      /\ /\ ~ (At(bytes, i) \in Scalars /\ (At(bytes, i) = "big" => reader = "response"))
         /\ ~ (At(bytes, i) \in Opening /\ Len(frames) < MaxDepth)
         => Finish("refused")
  BY <1>6 DEF ScanValue
<1> HIDE DEF i
<1>4. i <= Len(bytes) => At(bytes, i) = bytes[i] /\ bytes[i] # "space" /\ i \in Nat \ {0}
  BY <1>2, TokenHere
<1>5. At(bytes, i) \in Scalars \cup Opening => i <= Len(bytes)
  BY <1>2, NoTokenAtEnd DEF Scalars, Opening, Strings
<1>7. i <= Len(bytes) =>
        /\ ~ IsName(bytes, i)
        /\ Fits(bytes, i) <=> bytes[i] \in Scalars \/ (bytes[i] \in Opening /\ Len(frames) < MaxDepth)
  BY <1>0, <1>2, <1>4, ValueFits
<1>8. CASE At(bytes, i) \in Scalars /\ (At(bytes, i) = "big" => reader = "response")
  <2>1. Awaits("after", i + 1, frames)
    BY <1>3, <1>8, <1>6
  <2>2. /\ bytes[i] \in Scalars /\ Fits(bytes, i) /\ ~ IsName(bytes, i)
        /\ bytes[i] \notin Opening \cup Closing
    BY <1>4, <1>5, <1>7, <1>8 DEF Scalars, Opening, Closing, Strings
  <2>3. Reached(bytes, i + 1, frames) /\ Before(bytes, i + 1) = i
    BY <1>2, <1>4, <1>5, <1>8, <2>2, TakesPlain
  <2>4. Completes(bytes, i)
    BY <2>2 DEF Completes, IsValue
  <2>5. AfterDue(bytes, i + 1, frames)
    BY <1>4, <1>5, <1>8, <2>3, <2>4 DEF AfterDue
  <2>6. reader = "file" => NoBig(bytes, i + 1)
    BY <1>2, <1>4, <1>5, <1>8, NoBigNext
  <2>7. StandsAt("after", i + 1, frames)
    BY <2>3, <2>5, <2>6 DEF StandsAt, Due
  <2> QED BY <2>1, <2>7 DEF Proceeds
<1>9. CASE At(bytes, i) \in Opening /\ Len(frames) < MaxDepth
  <2> DEFINE r == Append(frames, [from |-> i, names |-> {}])
  <2>1. Awaits("first", Skip(bytes, i + 1), r)
    BY <1>3, <1>6, <1>9
  <2>2. bytes[i] \in Opening /\ Fits(bytes, i) /\ bytes[i] # "big"
    BY <1>4, <1>5, <1>7, <1>9 DEF Opening
  <2>3. Reached(bytes, i + 1, r) /\ Before(bytes, i + 1) = i /\ r # <<>> /\ Last(r).from = i
    BY <1>0, <1>2, <1>5, <1>9, <2>2, TakesOpening
  <2> HIDE DEF r
  <2>4. FirstDue(bytes, Skip(bytes, i + 1), r) /\ Reached(bytes, Skip(bytes, i + 1), r)
    BY <2>3, ReachedOver DEF FirstDue
  <2>5. reader = "file" => NoBig(bytes, i + 1)
    BY <1>2, <1>4, <1>5, <1>9, <2>2, NoBigNext
  <2>6. reader = "file" => NoBig(bytes, Skip(bytes, i + 1))
    BY <2>3, <2>5, NoBigOver DEF Reached
  <2>7. StandsAt("first", Skip(bytes, i + 1), r)
    BY <2>4, <2>6 DEF StandsAt, Due
  <2> QED BY <2>1, <2>7 DEF Proceeds
<1>10. CASE /\ ~ (At(bytes, i) \in Scalars /\ (At(bytes, i) = "big" => reader = "response"))
            /\ ~ (At(bytes, i) \in Opening /\ Len(frames) < MaxDepth)
  <2>1. Finish("refused")
    BY <1>3, <1>10
  <2>2. CASE At(bytes, i) \in Scalars
    <3>1. bytes[i] = "big" /\ reader = "file" /\ i \in 1 .. Len(bytes)
      BY <1>4, <1>5, <1>10, <2>2
    <3>2. i \in 1 .. (Len(bytes) + 1) - 1
      BY <3>1
    <3>3. ~ NoBig(bytes, Len(bytes) + 1)
      BY <3>1, <3>2 DEF NoBig
    <3> QED BY <2>1, <3>1, <3>3 DEF Judged, IsAccepted
  <2>3. CASE At(bytes, i) \notin Scalars
    <3>1. i <= Len(bytes) => ~ Fits(bytes, i)
      BY <1>4, <1>7, <1>10, <2>3
    <3>2. i <= Len(bytes) \/ i = Len(bytes) + 1
      BY <1>2, NoTokenAtEnd
    <3>3. ~ IsAccepted
      BY <1>2, <3>1, <3>2, Refuses
    <3> QED BY <2>1, <3>3 DEF Judged
  <2> QED BY <2>2, <2>3
<1> QED BY <1>8, <1>9, <1>10

\* The bracket of the innermost call, as the machine reads it.
LEMMA BracketIs ==
  /\ Bracket = Called(bytes, frames)
  /\ Closes = ClosesOf(bytes, frames)
  /\ Called(bytes, frames) = "lbrace" => Element = "name"
  /\ Called(bytes, frames) # "lbrace" => Element = "value"
  BY DEF Bracket, Called, Closes, ClosesOf, Element

\* A closing bracket that fits ends the innermost call.
LEMMA ClosingScan ==
    ASSUME bytes \in Seq(Tokens), NEW i, Reached(bytes, i, frames), frames # <<>>, i <= Len(bytes),
           Fits(bytes, i), At(bytes, i) = Closes, reader = "file" => NoBig(bytes, i)
    PROVE  StandsAt("after", i + 1, Front(frames))
<1>0. MaxDepth \in Nat
  BY LimitsAssumption
<1>1. bytes[i] = Closes /\ i \in Nat \ {0}
  BY TokenHere
<1>2. bytes[i] \in Closing /\ bytes[i] # "big"
  BY <1>1 DEF Closes, Closing
<1>3. Reached(bytes, i + 1, Front(frames)) /\ Before(bytes, i + 1) = i
  BY <1>0, <1>2, TakesClosing
<1>4. AfterDue(bytes, i + 1, Front(frames))
  BY <1>1, <1>2, <1>3 DEF AfterDue, Completes
<1>5. reader = "file" => NoBig(bytes, i + 1)
  BY <1>1, <1>2, NoBigNext
<1> QED BY <1>3, <1>4, <1>5 DEF StandsAt, Due

\* The start of scanObject and scanArray.
LEMMA FirstScan ==
    ASSUME bytes \in Seq(Tokens), ScanStands, ScanFirst
    PROVE  Proceeds \/ Judged
<1>0. MaxDepth \in Nat
  BY LimitsAssumption
<1>1. /\ Reached(bytes, cursor, frames) /\ FirstDue(bytes, cursor, frames)
      /\ reader = "file" => NoBig(bytes, cursor)
  BY DEF ScanStands, StandsAt, Due, ScanFirst
<1>2. frames # <<>> /\ Before(bytes, cursor) = Last(frames).from /\ At(bytes, cursor) # "space"
  BY <1>1 DEF FirstDue
<1>3. CASE At(bytes, cursor) = Closes
  <2>1. Awaits("after", cursor + 1, Front(frames))
    BY <1>3 DEF ScanFirst
  <2>2. cursor <= Len(bytes)
    BY <1>1, <1>3, NoTokenAtEnd DEF Closes
  <2>3. bytes[cursor] = ClosesOf(bytes, frames)
    BY <1>1, <1>3, <2>2, TokenHere, BracketIs
  <2>4. Fits(bytes, cursor)
    BY <1>0, <1>1, <2>2, <2>3, FirstFits
  <2>5. StandsAt("after", cursor + 1, Front(frames))
    BY <1>1, <1>2, <1>3, <2>2, <2>4, ClosingScan
  <2> QED BY <2>1, <2>5 DEF Proceeds
<1>4. CASE At(bytes, cursor) # Closes
  <2>1. Awaits(Element, cursor, frames)
    BY <1>4 DEF ScanFirst
  <2>2. Called(bytes, frames) \in {"lbrace", "lbracket"} /\ Called(bytes, frames) = bytes[Last(frames).from]
    BY <1>1, <1>2, CalledIs DEF Reached
  <2>3. Last(frames).from # 0
    BY <1>1, <1>2, LastFrame DEF Reached, Nested, Frame
  <2>4. Token(bytes, cursor) = Called(bytes, frames)
    BY <1>2, <2>2, <2>3 DEF Token
  <2>5. CASE Called(bytes, frames) = "lbrace"
    <3>1. NameDue(bytes, cursor, frames)
      BY <1>2, <1>4, <2>4, <2>5 DEF NameDue, CommaOf, Closes, Bracket, Called
    <3>2. Element = "name"
      BY <2>5, BracketIs
    <3>3. StandsAt(Element, cursor, frames)
      BY <1>1, <3>1, <3>2 DEF StandsAt, Due
    <3> QED BY <2>1, <3>3 DEF Proceeds
  <2>6. CASE Called(bytes, frames) = "lbracket"
    <3>1. ValueDue(bytes, cursor, frames)
      BY <1>2, <1>4, <2>4, <2>6 DEF ValueDue, CommaOf, Closes, Bracket, Called
    <3>2. Element = "value"
      BY <2>6, BracketIs
    <3>3. StandsAt(Element, cursor, frames)
      BY <1>1, <1>2, <3>1, <3>2 DEF StandsAt, Due
    <3> QED BY <2>1, <3>3 DEF Proceeds
  <2> QED BY <2>2, <2>5, <2>6
<1> QED BY <1>3, <1>4

\* A name of scanObject.
LEMMA NameScan ==
    ASSUME bytes \in Seq(Tokens), ScanStands, ScanName
    PROVE  Proceeds \/ Judged
<1> DEFINE name == Decoded(At(bytes, cursor))
           r == [frames EXCEPT ![Len(frames)].names = @ \cup {name}]
<1>0. MaxDepth \in Nat
  BY LimitsAssumption
<1>1. /\ Reached(bytes, cursor, frames) /\ NameDue(bytes, cursor, frames)
      /\ reader = "file" => NoBig(bytes, cursor)
  BY DEF ScanStands, StandsAt, Due, ScanName
<1>2. frames # <<>> /\ At(bytes, cursor) # "space"
  BY <1>1 DEF NameDue, Called
<1>3. CASE At(bytes, cursor) \in Strings /\ name \notin Last(frames).names
  <2>1. Awaits("separator", Skip(bytes, cursor + 1), r)
    BY <1>3 DEF ScanName
  <2>2. cursor <= Len(bytes)
    BY <1>1, <1>3, NoTokenAtEnd DEF Strings
  <2>3. bytes[cursor] = At(bytes, cursor) /\ bytes[cursor] # "big" /\ cursor \in Nat \ {0}
    BY <1>1, <1>3, <2>2, TokenHere DEF Strings
  <2>4. IsName(bytes, cursor) /\ Fits(bytes, cursor)
    BY <1>0, <1>1, <1>2, <1>3, <2>2, <2>3, NameFits
  <2>5. Reached(bytes, cursor + 1, r) /\ Before(bytes, cursor + 1) = cursor /\ r # <<>>
    BY <1>0, <1>1, <1>2, <2>2, <2>3, <2>4, TakesName
  <2> HIDE DEF r
  <2>6. /\ Reached(bytes, Skip(bytes, cursor + 1), r)
        /\ Before(bytes, Skip(bytes, cursor + 1)) = cursor
        /\ At(bytes, Skip(bytes, cursor + 1)) # "space"
    BY <2>5, ReachedOver
  <2>7. ColonDue(bytes, Skip(bytes, cursor + 1), r)
    BY <2>3, <2>4, <2>5, <2>6 DEF ColonDue
  <2>8. reader = "file" => NoBig(bytes, cursor + 1)
    BY <1>1, <2>3, NoBigNext
  <2>9. reader = "file" => NoBig(bytes, Skip(bytes, cursor + 1))
    BY <2>5, <2>8, NoBigOver DEF Reached
  <2>10. StandsAt("separator", Skip(bytes, cursor + 1), r)
    BY <2>6, <2>7, <2>9 DEF StandsAt, Due
  <2> QED BY <2>1, <2>10 DEF Proceeds
<1>4. CASE ~ (At(bytes, cursor) \in Strings /\ name \notin Last(frames).names)
  <2>1. Finish("refused")
    BY <1>4 DEF ScanName
  <2>2. cursor <= Len(bytes) => ~ Fits(bytes, cursor)
    <3> SUFFICES ASSUME cursor <= Len(bytes) PROVE ~ Fits(bytes, cursor)
      OBVIOUS
    <3>1. bytes[cursor] = At(bytes, cursor)
      BY <1>1, TokenHere
    <3> QED BY <1>0, <1>1, <1>2, <1>4, <3>1, NameFits
  <2>3. cursor <= Len(bytes) \/ cursor = Len(bytes) + 1
    BY <1>1, NoTokenAtEnd
  <2>4. ~ IsAccepted
    BY <1>1, <1>2, <2>2, <2>3, Refuses
  <2> QED BY <2>1, <2>4 DEF Judged
<1> QED BY <1>3, <1>4

\* The separator of scanObject.
LEMMA ColonScan ==
    ASSUME bytes \in Seq(Tokens), reader \in {"response", "file"}, ScanStands, ScanColon
    PROVE  Proceeds \/ Judged
<1>0. MaxDepth \in Nat
  BY LimitsAssumption
<1>1. /\ Reached(bytes, cursor, frames) /\ ColonDue(bytes, cursor, frames)
      /\ reader = "file" => NoBig(bytes, cursor)
  BY DEF ScanStands, StandsAt, Due, ScanColon
<1>2. frames # <<>> /\ At(bytes, cursor) # "space"
  BY <1>1 DEF ColonDue
<1>3. CASE At(bytes, cursor) = "colon"
  <2> DEFINE i == IF reader = "file" THEN cursor + 1 ELSE Skip(bytes, cursor + 1)
  <2>1. Awaits("value", i, frames)
    BY <1>3 DEF ScanColon
  <2>2. cursor <= Len(bytes)
    BY <1>1, <1>3, NoTokenAtEnd
  <2>3. bytes[cursor] = "colon" /\ cursor \in Nat \ {0}
    BY <1>1, <1>3, <2>2, TokenHere
  <2>4. Fits(bytes, cursor) /\ ~ IsName(bytes, cursor) /\ bytes[cursor] \notin Opening \cup Closing
    BY <1>0, <1>1, <2>2, <2>3, ColonFits
  <2>5. Reached(bytes, cursor + 1, frames) /\ Before(bytes, cursor + 1) = cursor
    BY <1>1, <2>2, <2>3, <2>4, TakesPlain
  <2>6. ValueDue(bytes, cursor + 1, frames)
    BY <1>2, <2>3, <2>5 DEF ValueDue, Token
  <2>7. reader = "file" => NoBig(bytes, cursor + 1)
    BY <1>1, <2>3, NoBigNext
  <2>8. /\ Reached(bytes, Skip(bytes, cursor + 1), frames) /\ ValueDue(bytes, Skip(bytes, cursor + 1), frames)
        /\ At(bytes, Skip(bytes, cursor + 1)) # "space"
    BY <2>5, <2>6, ReachedOver, ValueDueOver
  <2>9. StandsAt("value", i, frames)
    BY <2>5, <2>6, <2>7, <2>8 DEF StandsAt, Due
  <2> QED BY <2>1, <2>9 DEF Proceeds
<1>4. CASE At(bytes, cursor) # "colon"
  <2>1. Finish("refused")
    BY <1>4 DEF ScanColon
  <2>2. cursor <= Len(bytes) => ~ Fits(bytes, cursor)
    <3> SUFFICES ASSUME cursor <= Len(bytes) PROVE ~ Fits(bytes, cursor)
      OBVIOUS
    <3>1. bytes[cursor] = At(bytes, cursor)
      BY <1>1, TokenHere
    <3> QED BY <1>0, <1>1, <1>2, <1>4, <3>1, ColonFits
  <2>3. cursor <= Len(bytes) \/ cursor = Len(bytes) + 1
    BY <1>1, NoTokenAtEnd
  <2>4. ~ IsAccepted
    BY <1>1, <1>2, <2>2, <2>3, Refuses
  <2> QED BY <2>1, <2>4 DEF Judged
<1> QED BY <1>3, <1>4

\* What follows a value in scanObject and scanArray.
LEMMA EndScan ==
    ASSUME bytes \in Seq(Tokens), ScanStands, ScanEnd
    PROVE  Proceeds \/ Judged
<1> DEFINE i == Skip(bytes, cursor)
<1>0. MaxDepth \in Nat
  BY LimitsAssumption
<1>1. /\ Reached(bytes, cursor, frames) /\ AfterDue(bytes, cursor, frames) /\ frames # <<>>
      /\ cursor \in 1 .. Len(bytes) + 1
      /\ reader = "file" => NoBig(bytes, cursor)
  BY DEF ScanStands, StandsAt, Due, ScanEnd, Reached
<1>2. /\ Reached(bytes, i, frames) /\ AfterDue(bytes, i, frames) /\ At(bytes, i) # "space"
      /\ reader = "file" => NoBig(bytes, i)
  BY <1>1, ReachedOver, NoBigOver DEF AfterDue
<1>3. /\ At(bytes, i) = Closes => Awaits("after", i + 1, Front(frames))
      /\ At(bytes, i) = "comma" => Awaits(Element, Skip(bytes, i + 1), frames)
      /\ At(bytes, i) # Closes /\ At(bytes, i) # "comma" => Finish("refused")
  <2>1. Closes # "comma"
    BY DEF Closes
  <2> QED BY <2>1 DEF ScanEnd
<1> HIDE DEF i
<1>4. i <= Len(bytes) => At(bytes, i) = bytes[i] /\ bytes[i] # "space" /\ i \in Nat \ {0}
                           /\ Around(bytes, i) = Last(frames).from
  BY <1>1, <1>2, TokenHere
<1>5. i <= Len(bytes) \/ (i = Len(bytes) + 1 /\ At(bytes, i) = "end")
  BY <1>2, NoTokenAtEnd
<1>6. i <= Len(bytes) => (Fits(bytes, i) <=> bytes[i] \in {Closes, "comma"})
  BY <1>0, <1>1, <1>2, <1>4, AfterFits, BracketIs
<1>7. CASE At(bytes, i) = Closes
  <2>1. i <= Len(bytes)
    BY <1>5, <1>7 DEF Closes
  <2>2. Fits(bytes, i)
    BY <1>4, <1>6, <1>7, <2>1
  <2>3. StandsAt("after", i + 1, Front(frames))
    BY <1>1, <1>2, <1>7, <2>1, <2>2, ClosingScan
  <2> QED BY <1>3, <1>7, <2>3 DEF Proceeds
<1>8. CASE At(bytes, i) = "comma"
  <2> DEFINE j == Skip(bytes, i + 1)
  <2>1. i <= Len(bytes) /\ bytes[i] = "comma"
    BY <1>4, <1>5, <1>8
  <2>2. Fits(bytes, i) /\ ~ IsName(bytes, i) /\ bytes[i] \notin Opening \cup Closing
    BY <1>6, <2>1 DEF IsName, Strings, Opening, Closing
  <2>3. Reached(bytes, i + 1, frames) /\ Before(bytes, i + 1) = i
    BY <1>2, <1>4, <2>1, <2>2, TakesPlain
  <2>4. Reached(bytes, j, frames) /\ Before(bytes, j) = i /\ At(bytes, j) # "space"
    BY <2>3, ReachedOver
  <2>5. reader = "file" => NoBig(bytes, i + 1)
    BY <1>2, <1>4, <2>1, NoBigNext
  <2>6. reader = "file" => NoBig(bytes, j)
    BY <2>3, <2>5, NoBigOver DEF Reached
  <2> HIDE DEF j
  <2>7. Token(bytes, j) = "comma" /\ CommaOf(bytes, j, frames)
    BY <1>4, <2>1, <2>4 DEF Token, CommaOf
  <2>8. Called(bytes, frames) \in {"lbrace", "lbracket"}
    BY <1>1, CalledIs DEF Reached
  <2>9. StandsAt(Element, j, frames)
    <3>1. CASE Called(bytes, frames) = "lbrace"
      <4>1. NameDue(bytes, j, frames) /\ Element = "name"
        BY <2>4, <2>7, <3>1, BracketIs DEF NameDue
      <4> QED BY <2>4, <2>6, <4>1 DEF StandsAt, Due
    <3>2. CASE Called(bytes, frames) = "lbracket"
      <4>1. ValueDue(bytes, j, frames) /\ Element = "value"
        BY <2>4, <2>7, <3>2, BracketIs DEF ValueDue
      <4> QED BY <2>4, <2>6, <4>1 DEF StandsAt, Due
    <3> QED BY <2>8, <3>1, <3>2
  <2> QED BY <1>3, <1>8, <2>9 DEF Proceeds, j
<1>9. CASE At(bytes, i) # Closes /\ At(bytes, i) # "comma"
  <2>1. CASE i <= Len(bytes)
    <3>1. ~ Fits(bytes, i)
      BY <1>4, <1>6, <1>9, <2>1
    <3> QED BY <1>2, <1>3, <1>9, <2>1, <3>1, Refuses DEF Judged
  <2>2. CASE i = Len(bytes) + 1
    <3>1. ~ Strict(bytes)
      BY <1>1, <1>2, <2>2, EndFits
    <3> QED BY <1>3, <1>9, <3>1 DEF Judged, IsAccepted
  <2> QED BY <1>5, <2>1, <2>2
<1> QED BY <1>7, <1>8, <1>9

\* The end of validate and of scanStrictJSON.
LEMMA EndOfTextScan ==
    ASSUME bytes \in Seq(Tokens), ScanStands, ScanEndOfText
    PROVE  Proceeds \/ Judged
<1> DEFINE i == Skip(bytes, cursor)
<1>0. MaxDepth \in Nat
  BY LimitsAssumption
<1>1. /\ Reached(bytes, cursor, frames) /\ AfterDue(bytes, cursor, frames) /\ frames = <<>>
      /\ cursor \in 1 .. Len(bytes) + 1
      /\ reader = "file" => NoBig(bytes, cursor)
  BY DEF ScanStands, StandsAt, Due, ScanEndOfText, Reached
<1>2. /\ Reached(bytes, i, frames) /\ AfterDue(bytes, i, frames) /\ At(bytes, i) # "space"
      /\ reader = "file" => NoBig(bytes, i)
  BY <1>1, ReachedOver, NoBigOver DEF AfterDue
<1>3. /\ i = Len(bytes) + 1 => Finish("parsed")
      /\ i # Len(bytes) + 1 => Finish("refused")
  BY DEF ScanEndOfText
<1> HIDE DEF i
<1>4. CASE i = Len(bytes) + 1
  <2>1. Strict(bytes)
    BY <1>1, <1>2, <1>4, EndFits
  <2> QED BY <1>2, <1>3, <1>4, <2>1 DEF Judged, IsAccepted
<1>5. CASE i # Len(bytes) + 1
  <2>1. i <= Len(bytes)
    BY <1>2, <1>5, NoTokenAtEnd
  <2>2. bytes[i] # "space"
    BY <1>2, <2>1, TokenHere
  <2>3. ~ Fits(bytes, i)
    BY <1>0, <1>1, <1>2, <2>1, <2>2, AfterFits
  <2> QED BY <1>2, <1>3, <1>5, <2>1, <2>3, Refuses DEF Judged
<1> QED BY <1>4, <1>5

-----------------------------------------------------------------------------
(* The readers: what has been read is what there is, until somebody touches  *)
(* it; then it is scanned.                                                   *)

Prefix == Len(bytes) <= Len(text) /\ \A k \in 1 .. Len(bytes) : bytes[k] = text[k]

ReaderTypes ==
  /\ reader \in {"response", "file"}
  /\ outcome \in {"writing", "reading", "scanning", "parsed", "refused"}
  /\ text \in Seq(Tokens) /\ bytes \in Seq(Tokens)
  /\ declared \in Int /\ disturbed \in BOOLEAN

Fresh ==
  /\ outcome = "writing" => bytes = <<>> /\ ~ disturbed
  /\ outcome \in {"writing", "reading"} => cursor = 1 /\ frames = <<>> /\ awaits = "value"
  /\ outcome = "scanning" => ScanStands

AnswerRead ==
  /\ outcome \in {"reading", "scanning", "parsed"} =>
       declared <= MaxBytes /\ ~ disturbed /\ Len(bytes) <= MaxBytes /\ Prefix
  /\ outcome \in {"scanning", "parsed"} => bytes = text
  /\ outcome = "parsed" => Strict(text)
  /\ outcome = "refused" => disturbed \/ declared > MaxBytes \/ Len(text) > MaxBytes \/ ~ Strict(text)

Safe(t) == Len(t) \in 1 .. MaxBytes /\ Strict(t) /\ NoBig(t, Len(t) + 1)

FileRead ==
  /\ outcome \in {"reading", "scanning", "parsed"} =>
       /\ declared \in 1 .. MaxBytes /\ Len(bytes) <= declared
       /\ ~ disturbed => declared = Len(text) /\ Prefix
  /\ outcome \in {"scanning", "parsed"} => Len(bytes) = declared /\ (~ disturbed => bytes = text)
  /\ outcome = "parsed" => Safe(bytes)
  /\ outcome = "refused" => disturbed \/ ~ Safe(text)

ReaderInv ==
  /\ ReaderTypes /\ Fresh
  /\ reader = "response" => AnswerRead
  /\ reader = "file" => FileRead

\* A part of a text is a text, and so is what an edit makes of one.
LEMMA PartOfText ==
    ASSUME NEW t \in Seq(Tokens), NEW m \in Nat \ {0}, NEW n \in Int, n <= Len(t)
    PROVE  /\ SubSeq(t, m, n) \in Seq(Tokens)
           /\ Len(SubSeq(t, m, n)) = IF m <= n THEN n - m + 1 ELSE 0
           /\ \A i \in 1 .. n - m + 1 : SubSeq(t, m, n)[i] = t[m + i - 1]
<1>1. \A i \in m .. n : t[i] \in Tokens
  <2>1. \A i \in m .. n : i \in 1 .. Len(t)
    OBVIOUS
  <2> QED BY <2>1, ElementOfSeq
<1> QED BY <1>1, SubSeqProperties

\* An edit of a text is a text.
LEMMA EditedText ==
    ASSUME NEW t \in Seq(Tokens), NEW u \in Edited(t)
    PROVE  u \in Seq(Tokens)
<1>0. Len(t) \in Nat
  OBVIOUS
<1>1. ASSUME NEW i \in 1 .. Len(t) PROVE RemoveAt(t, i) \in Seq(Tokens)
  <2>1. SubSeq(t, 1, i - 1) \in Seq(Tokens)
    BY <1>0, PartOfText
  <2>2. SubSeq(t, i + 1, Len(t)) \in Seq(Tokens)
    BY <1>0, PartOfText
  <2> QED BY <2>1, <2>2, ConcatProperties DEF RemoveAt
<1>2. ASSUME NEW i \in 1 .. Len(t) + 1, NEW x \in Tokens PROVE InsertAt(t, i, x) \in Seq(Tokens)
  <2>1. SubSeq(t, 1, i - 1) \in Seq(Tokens)
    BY <1>0, PartOfText
  <2>2. SubSeq(t, i, Len(t)) \in Seq(Tokens)
    BY <1>0, PartOfText
  <2>3. <<x>> \in Seq(Tokens)
    OBVIOUS
  <2>4. SubSeq(t, 1, i - 1) \o <<x>> \in Seq(Tokens)
    BY <2>1, <2>3, ConcatProperties
  <2> QED BY <2>2, <2>4, ConcatProperties DEF InsertAt
<1>3. ASSUME NEW i \in 1 .. Len(t), NEW x \in Tokens PROVE ReplaceAt(t, i, x) \in Seq(Tokens)
  BY ExceptSeq DEF ReplaceAt
<1> QED BY <1>1, <1>2, <1>3 DEF Edited

\* The scan starts as it should.
LEMMA StartStands ==
    ASSUME NEW t \in Seq(Tokens)
    PROVE  Reached(t, 1, <<>>) /\ ValueDue(t, 1, <<>>) /\ NoBig(t, 1)
<1>0. MaxDepth \in Nat /\ Len(t) \in Nat /\ 1 \in 1 .. Len(t) + 1
  BY LimitsAssumption
<1>1. Depth(t, 1) = 0 /\ Before(t, 1) = 0
  BY DepthStarts, BeforeStarts
<1>2. <<>> \in Seq(Frame) /\ Len(<<>>) = 0
  BY EmptySeq
<1>3. \A k \in 1 .. 1 : Depth(t, k) >= 0
  BY <1>1
<1>4. Nested(t, <<>>, 1)
  BY <1>1, <1>2, <1>3 DEF Nested
<1>5. Named(t, <<>>, 1) /\ Fit(t, 1) /\ NoBig(t, 1)
  BY <1>2 DEF Named, Fit, NoBig
<1>6. Reached(t, 1, <<>>)
  BY <1>0, <1>2, <1>4, <1>5 DEF Reached
<1>7. ValueDue(t, 1, <<>>)
  BY <1>1 DEF ValueDue
<1> QED BY <1>5, <1>6, <1>7

\* A text that agrees with another up to its end is that text.
LEMMA WholeIsText ==
    ASSUME text \in Seq(Tokens), bytes \in Seq(Tokens), Prefix, Len(bytes) = Len(text)
    PROVE  bytes = text
  BY SeqEqual DEF Prefix

\* The smaller of two numbers.
LEMMA MinOfTwo ==
    ASSUME NEW a \in Int, NEW b \in Int
    PROVE  Min({a, b}) <= a /\ Min({a, b}) <= b /\ Min({a, b}) \in Int
<1>1. \E x \in {a, b} : \A y \in {a, b} : x <= y
  <2>1. CASE a <= b
    BY <2>1
  <2>2. CASE b <= a
    BY <2>2
  <2> QED BY <2>1, <2>2
<1>2. Min({a, b}) \in {a, b} /\ \A y \in {a, b} : Min({a, b}) <= y
  BY <1>1 DEF Min
<1> QED BY <1>2

\* A scan that goes on, or ends with its verdict, keeps what is known.
LEMMA ScanKeeps ==
    ASSUME ReaderInv, outcome = "scanning", Proceeds \/ Judged
    PROVE  ReaderInv'
<1>0. Len(bytes) \in Nat /\ Len(text) \in Nat /\ MaxBytes \in Nat
  BY LimitsAssumption DEF ReaderInv, ReaderTypes
<1>1. CASE Proceeds
  <2>1. PICK what, i, s : Awaits(what, i, s) /\ StandsAt(what, i, s)
    BY <1>1 DEF Proceeds
  <2>2. UNCHANGED <<reader, text, declared, bytes, outcome, disturbed>>
    BY <2>1 DEF Awaits
  <2>3. ScanStands'
    BY <2>1 DEF Awaits, ScanStands, StandsAt, Due, ValueDue, NameDue, FirstDue, ColonDue, AfterDue
  <2>4. Fresh'
    BY <2>2, <2>3 DEF Fresh
  <2>5. ReaderTypes' /\ (reader' = "response" => AnswerRead') /\ (reader' = "file" => FileRead')
    BY <2>2 DEF ReaderInv, ReaderTypes, AnswerRead, FileRead, Prefix, Safe, NoBig
  <2> QED BY <2>4, <2>5 DEF ReaderInv
<1>2. ASSUME NEW o, Finish(o), o = "parsed" \/ o = "refused", o = "parsed" => IsAccepted, o = "refused" => ~ IsAccepted
      PROVE  ReaderInv'
  <2>1. outcome' = o /\ UNCHANGED <<reader, text, declared, bytes, disturbed>>
    BY <1>2 DEF Finish, Into
  <2>2. ReaderTypes' /\ Fresh'
    BY <1>2, <2>1 DEF ReaderInv, ReaderTypes, Fresh
  <2>3. ASSUME reader = "response" PROVE AnswerRead'
    <3>1. IsAccepted <=> Strict(bytes)
      BY <2>3 DEF IsAccepted
    <3>2. declared <= MaxBytes /\ ~ disturbed /\ Len(bytes) <= MaxBytes /\ Prefix /\ bytes = text
      BY <2>3 DEF ReaderInv, AnswerRead
    <3> QED BY <1>2, <2>1, <3>1, <3>2 DEF AnswerRead, Prefix
  <2>4. ASSUME reader = "file" PROVE FileRead'
    <3>1. /\ declared \in 1 .. MaxBytes /\ Len(bytes) = declared
          /\ ~ disturbed => declared = Len(text) /\ Prefix /\ bytes = text
      BY <2>4 DEF ReaderInv, FileRead
    <3>2. IsAccepted <=> Safe(bytes)
      BY <2>4, <3>1 DEF IsAccepted, Safe
    <3> QED BY <1>0, <1>2, <2>1, <3>1, <3>2 DEF FileRead, Prefix, Safe, NoBig
  <2> QED BY <2>1, <2>2, <2>3, <2>4 DEF ReaderInv
<1> QED BY <1>1, <1>2 DEF Judged

\* Every step of a reader keeps what is known of it.
LEMMA ReaderStep == ReaderInv /\ [jsonNext]_jsonVars => ReaderInv'
<1> SUFFICES ASSUME ReaderInv, [jsonNext]_jsonVars PROVE ReaderInv'
  OBVIOUS
<1>0. /\ Len(bytes) \in Nat /\ Len(text) \in Nat /\ MaxBytes \in Nat \ {0}
      /\ reader \in {"response", "file"}
      /\ text \in Seq(Tokens) /\ bytes \in Seq(Tokens) /\ declared \in Int /\ disturbed \in BOOLEAN
  BY LimitsAssumption DEF ReaderInv, ReaderTypes
<1>1. CASE UNCHANGED jsonVars
  <2>1. UNCHANGED <<reader, text, declared, bytes, outcome, disturbed, cursor, frames, awaits>>
    BY <1>1 DEF jsonVars, scanVars
  <2>2. Fresh'
    BY <2>1 DEF ReaderInv, Fresh, ScanStands, StandsAt, Due, ValueDue, NameDue, FirstDue, ColonDue, AfterDue
  <2> QED BY <2>1, <2>2 DEF ReaderInv, ReaderTypes, AnswerRead, FileRead, Prefix, Safe, NoBig
<1>2. CASE Write
  <2>1. /\ outcome = "writing" \/ (outcome = "reading" /\ reader = "file")
        /\ text' \in Seq(Tokens) /\ disturbed' = (outcome = "reading")
        /\ UNCHANGED <<reader, declared, bytes, outcome, cursor, frames, awaits>>
    BY <1>0, <1>2, EditedText DEF Write, scanVars
  <2>2. ReaderTypes' /\ Fresh'
    BY <2>1 DEF ReaderInv, ReaderTypes, Fresh
  <2> QED BY <2>1, <2>2 DEF ReaderInv, AnswerRead, FileRead
<1>3. CASE Respond
  <2>1. PICK header \in {-1, MaxBytes, MaxBytes + 1} :
          /\ declared' = header
          /\ Into(IF header > MaxBytes THEN "refused" ELSE "reading")
    BY <1>3 DEF Respond
  <2>2. /\ outcome = "writing" /\ reader = "response" /\ outcome' \in {"refused", "reading"}
        /\ outcome' = "refused" <=> declared' > MaxBytes
        /\ declared' \in Int
        /\ UNCHANGED <<reader, text, bytes, disturbed, cursor, frames, awaits>>
    BY <1>0, <1>3, <2>1 DEF Respond, Into, scanVars
  <2>3. bytes = <<>> /\ ~ disturbed /\ Len(bytes) = 0
    BY <2>2, EmptySeq DEF ReaderInv, Fresh
  <2>4. ReaderTypes' /\ Fresh'
    BY <2>2 DEF ReaderInv, ReaderTypes, Fresh
  <2>5. Prefix'
    BY <1>0, <2>2, <2>3 DEF Prefix
  <2>6. AnswerRead'
    BY <1>0, <2>2, <2>3, <2>5 DEF AnswerRead
  <2> QED BY <2>2, <2>4, <2>6 DEF ReaderInv
<1>4. CASE Chunk
  <2>0. /\ outcome = "reading" /\ reader = "response" /\ declared <= MaxBytes /\ ~ disturbed
        /\ Len(bytes) <= MaxBytes /\ Prefix
    BY <1>4 DEF Chunk, ReaderInv, AnswerRead
  <2>1. PICK n \in 1 .. Len(text) - Len(bytes) :
          IF Exceeds(n)
          THEN Into("refused") /\ UNCHANGED bytes
          ELSE Into("reading") /\ bytes' = SubSeq(text, 1, Len(bytes) + n)
    BY <1>4 DEF Chunk
  <2>2. UNCHANGED <<reader, text, declared, disturbed, cursor, frames, awaits>>
    BY <1>4, <2>1 DEF Chunk, Into, scanVars
  <2>3. CASE Exceeds(n)
    <3>1. outcome' = "refused" /\ bytes' = bytes
      BY <2>1, <2>3 DEF Into
    <3>2. Len(text) > MaxBytes
      BY <1>0, <2>3 DEF Exceeds
    <3> QED BY <1>0, <2>0, <2>2, <3>1, <3>2 DEF ReaderInv, ReaderTypes, Fresh, AnswerRead
  <2>4. CASE ~ Exceeds(n)
    <3>1. outcome' = "reading" /\ bytes' = SubSeq(text, 1, Len(bytes) + n)
      BY <2>1, <2>4 DEF Into
    <3>2. Len(bytes) + n \in Nat /\ 1 <= Len(bytes) + n /\ Len(bytes) + n <= Len(text) /\ Len(bytes) + n <= MaxBytes
      BY <1>0, <2>4 DEF Exceeds
    <3>3. /\ bytes' \in Seq(Tokens) /\ Len(bytes') = Len(bytes) + n
          /\ \A k \in 1 .. Len(bytes) + n : bytes'[k] = text[k]
      <4> DEFINE m == Len(bytes) + n
      <4>1. /\ SubSeq(text, 1, m) \in Seq(Tokens)
            /\ Len(SubSeq(text, 1, m)) = IF 1 <= m THEN m - 1 + 1 ELSE 0
            /\ \A k \in 1 .. m - 1 + 1 : SubSeq(text, 1, m)[k] = text[1 + k - 1]
        BY <1>0, <3>2, PartOfText
      <4>2. m - 1 + 1 = m /\ \A k \in 1 .. m : 1 + k - 1 = k
        BY <3>2
      <4> QED BY <3>1, <3>2, <4>1, <4>2
    <3>4. Prefix' /\ Len(bytes') <= MaxBytes
      BY <2>2, <3>2, <3>3 DEF Prefix
    <3> QED BY <1>0, <2>0, <2>2, <3>1, <3>3, <3>4 DEF ReaderInv, ReaderTypes, Fresh, AnswerRead
  <2> QED BY <2>3, <2>4
<1>5. CASE BodyEnds
  <2>1. /\ outcome = "reading" /\ reader = "response" /\ Len(bytes) = Len(text) /\ outcome' = "scanning"
        /\ cursor' = Skip(bytes, 1)
        /\ UNCHANGED <<reader, text, declared, bytes, disturbed, frames, awaits>>
    BY <1>5 DEF BodyEnds, Into
  <2>2. frames = <<>> /\ awaits = "value" /\ bytes = text
    BY <1>0, <2>1, WholeIsText DEF ReaderInv, Fresh, AnswerRead
  <2>3. /\ Reached(bytes, Skip(bytes, 1), <<>>) /\ ValueDue(bytes, Skip(bytes, 1), <<>>)
        /\ At(bytes, Skip(bytes, 1)) # "space"
    BY <1>0, StartStands, ReachedOver, ValueDueOver
  <2>4. StandsAt("value", Skip(bytes, 1), <<>>)
    BY <2>1, <2>3 DEF StandsAt, Due
  <2>5. ScanStands'
    BY <2>1, <2>2, <2>4 DEF ScanStands, StandsAt, Due, ValueDue, NameDue, FirstDue, ColonDue, AfterDue
  <2>6. ReaderTypes' /\ Fresh'
    BY <1>0, <2>1, <2>5 DEF ReaderTypes, Fresh
  <2>7. AnswerRead'
    BY <2>1, <2>2 DEF ReaderInv, AnswerRead, Prefix
  <2> QED BY <2>1, <2>6, <2>7 DEF ReaderInv
<1>6. CASE StreamFails
  <2>1. /\ reader = "response" /\ outcome' = "refused" /\ disturbed' = TRUE
        /\ UNCHANGED <<reader, text, declared, bytes>>
    BY <1>6 DEF StreamFails, Into
  <2> QED BY <1>0, <2>1 DEF ReaderInv, ReaderTypes, Fresh, AnswerRead
<1>7. CASE Open
  <2>1. /\ outcome = "writing" /\ reader = "file" /\ declared' = Len(text)
        /\ outcome' \in {"reading", "refused"}
        /\ outcome' = "reading" <=> Len(text) \in 1 .. MaxBytes
        /\ UNCHANGED <<reader, text, bytes, disturbed, cursor, frames, awaits>>
    BY <1>7 DEF Open, Into, scanVars
  <2>2. bytes = <<>> /\ ~ disturbed /\ Len(bytes) = 0
    BY <2>1, EmptySeq DEF ReaderInv, Fresh
  <2>3. ReaderTypes' /\ Fresh'
    BY <1>0, <2>1 DEF ReaderInv, ReaderTypes, Fresh
  <2>4. Prefix'
    BY <1>0, <2>1, <2>2 DEF Prefix
  <2>5. FileRead'
    BY <1>0, <2>1, <2>2, <2>4 DEF FileRead, Safe
  <2> QED BY <2>1, <2>3, <2>5 DEF ReaderInv
<1>8. CASE ReadSync
  <2>0. /\ outcome = "reading" /\ reader = "file" /\ declared \in 1 .. MaxBytes /\ Len(bytes) < declared
        /\ ~ disturbed => declared = Len(text) /\ Prefix
    BY <1>8 DEF ReadSync, ReaderInv, FileRead
  <2>1. UNCHANGED <<reader, text, declared, disturbed, cursor, frames, awaits>>
    BY <1>8 DEF ReadSync, Into, scanVars
  <2>2. CASE Len(text) <= Len(bytes)
    <3>1. outcome' = "refused" /\ bytes' = bytes
      BY <1>8, <2>2 DEF ReadSync, Into
    <3>2. disturbed
      BY <1>0, <2>0, <2>2
    <3> QED BY <1>0, <2>0, <2>1, <3>1, <3>2 DEF ReaderInv, ReaderTypes, Fresh, FileRead
  <2>3. CASE ~ (Len(text) <= Len(bytes))
    <3>1. PICK end \in Len(bytes) + 1 .. Min({declared, Len(text)}) :
            Into("reading") /\ bytes' = bytes \o SubSeq(text, Len(bytes) + 1, end)
      BY <1>8, <2>3 DEF ReadSync
    <3>2. end \in Nat /\ end <= declared /\ end <= Len(text) /\ Len(bytes) + 1 <= end
      <4>1. declared \in Int /\ Len(text) \in Int
        BY <1>0
      <4>2. /\ Min({declared, Len(text)}) <= declared /\ Min({declared, Len(text)}) <= Len(text)
            /\ Min({declared, Len(text)}) \in Int
        BY <4>1, MinOfTwo
      <4> QED BY <1>0, <4>2
    <3> DEFINE m == Len(bytes) + 1
               part == SubSeq(text, m, end)
    <3>3. /\ part \in Seq(Tokens) /\ Len(part) = end - Len(bytes)
          /\ \A k \in 1 .. end - Len(bytes) : part[k] = text[Len(bytes) + k]
      <4>1. /\ part \in Seq(Tokens)
            /\ Len(part) = IF m <= end THEN end - m + 1 ELSE 0
            /\ \A k \in 1 .. end - m + 1 : part[k] = text[m + k - 1]
        BY <1>0, <3>2, PartOfText
      <4>2. end - m + 1 = end - Len(bytes) /\ \A k \in 1 .. end - m + 1 : m + k - 1 = Len(bytes) + k
        BY <1>0, <3>2
      <4> QED BY <3>2, <4>1, <4>2
    <3> HIDE DEF part
    <3>4. outcome' = "reading" /\ bytes' = bytes \o part
      BY <3>1 DEF Into, part
    <3>5. /\ bytes' \in Seq(Tokens) /\ Len(bytes') = Len(bytes) + Len(part)
          /\ \A k \in 1 .. Len(bytes) + Len(part) : bytes'[k] = IF k <= Len(bytes) THEN bytes[k] ELSE part[k - Len(bytes)]
      BY <1>0, <3>3, <3>4, ConcatProperties
    <3>6. Len(bytes') = end
      BY <1>0, <3>2, <3>3, <3>5
    <3>7. ASSUME Prefix PROVE Prefix'
      <4>1. ASSUME NEW k \in 1 .. end PROVE bytes'[k] = text[k]
        <5>1. CASE k <= Len(bytes)
          <6>1. k \in 1 .. Len(bytes) /\ k \in 1 .. Len(bytes) + Len(part)
            BY <1>0, <3>2, <3>3, <5>1
          <6>2. bytes'[k] = bytes[k]
            BY <3>5, <5>1, <6>1
          <6>3. bytes[k] = text[k]
            BY <3>7, <6>1 DEF Prefix
          <6> QED BY <6>2, <6>3
        <5>2. CASE ~ (k <= Len(bytes))
          <6>1. k - Len(bytes) \in 1 .. end - Len(bytes) /\ Len(bytes) + (k - Len(bytes)) = k
            BY <1>0, <3>2, <5>2
          <6>2. bytes'[k] = part[k - Len(bytes)]
            BY <1>0, <3>2, <3>3, <3>5, <5>2
          <6> QED BY <3>3, <6>1, <6>2
        <5> QED BY <5>1, <5>2
      <4> QED BY <2>1, <3>2, <3>6, <4>1 DEF Prefix
    <3> QED BY <1>0, <2>0, <2>1, <3>2, <3>4, <3>5, <3>6, <3>7 DEF ReaderInv, ReaderTypes, Fresh, FileRead
  <2> QED BY <2>2, <2>3
<1>9. CASE FileEnds
  <2>1. /\ outcome = "reading" /\ reader = "file" /\ Len(bytes) = declared
        /\ outcome' = IF Len(text) <= declared THEN "scanning" ELSE "refused"
        /\ UNCHANGED <<reader, text, declared, bytes, disturbed, cursor, frames, awaits>>
    BY <1>9 DEF FileEnds, Into, scanVars
  <2>2. /\ frames = <<>> /\ awaits = "value" /\ cursor = 1 /\ declared \in 1 .. MaxBytes
        /\ ~ disturbed => declared = Len(text) /\ Prefix
    BY <2>1 DEF ReaderInv, Fresh, FileRead
  <2>3. ~ disturbed => bytes = text
    BY <1>0, <2>1, <2>2, WholeIsText
  <2>4. StandsAt("value", 1, <<>>)
    BY <1>0, <2>1, StartStands DEF StandsAt, Due
  <2>5. ScanStands'
    BY <2>1, <2>2, <2>4 DEF ScanStands, StandsAt, Due, ValueDue, NameDue, FirstDue, ColonDue, AfterDue
  <2>6. ReaderTypes' /\ Fresh'
    BY <1>0, <2>1, <2>5 DEF ReaderTypes, Fresh
  <2>7. Prefix' <=> Prefix
    BY <2>1 DEF Prefix
  <2>8. FileRead'
    BY <1>0, <2>1, <2>2, <2>3, <2>7 DEF FileRead
  <2> QED BY <2>1, <2>6, <2>8 DEF ReaderInv
<1>10. CASE ScanValue
  <2>1. outcome = "scanning" /\ ScanStands
    BY <1>10 DEF ScanValue, ReaderInv, Fresh
  <2> QED BY <1>0, <1>10, <2>1, ValueScan, ScanKeeps
<1>11. CASE ScanFirst
  <2>1. outcome = "scanning" /\ ScanStands
    BY <1>11 DEF ScanFirst, ReaderInv, Fresh
  <2> QED BY <1>0, <1>11, <2>1, FirstScan, ScanKeeps
<1>12. CASE ScanName
  <2>1. outcome = "scanning" /\ ScanStands
    BY <1>12 DEF ScanName, ReaderInv, Fresh
  <2> QED BY <1>0, <1>12, <2>1, NameScan, ScanKeeps
<1>13. CASE ScanColon
  <2>1. outcome = "scanning" /\ ScanStands
    BY <1>13 DEF ScanColon, ReaderInv, Fresh
  <2> QED BY <1>0, <1>13, <2>1, ColonScan, ScanKeeps
<1>14. CASE ScanEnd
  <2>1. outcome = "scanning" /\ ScanStands
    BY <1>14 DEF ScanEnd, ReaderInv, Fresh
  <2> QED BY <1>0, <1>14, <2>1, EndScan, ScanKeeps
<1>15. CASE ScanEndOfText
  <2>1. outcome = "scanning" /\ ScanStands
    BY <1>15 DEF ScanEndOfText, ReaderInv, Fresh
  <2> QED BY <1>0, <1>15, <2>1, EndOfTextScan, ScanKeeps
<1> QED BY <1>1, <1>2, <1>3, <1>4, <1>5, <1>6, <1>7, <1>8, <1>9, <1>10, <1>11, <1>12, <1>13, <1>14, <1>15
        DEF jsonNext

\* The inductive invariant holds where a reader starts.
LEMMA InitReader == jsonInit => ReaderInv
<1> SUFFICES ASSUME jsonInit PROVE ReaderInv
  OBVIOUS
<1>1. text \in Seq(Tokens) /\ bytes \in Seq(Tokens) /\ declared \in Int
  BY SamplesAssumption, EmptySeq DEF jsonInit
<1> QED BY <1>1 DEF jsonInit, ReaderInv, ReaderTypes, Fresh, AnswerRead, FileRead

\* Both readers parse exactly the strict documents within their limits, of every
\* length and depth, however an answer is cut and whatever becomes of a file:
\* readBoundedJSON and StrictJSONScanner (src/json.ts), readBoundedFileSync and
\* scanStrictJSON (npm-release-evidence.mjs).
THEOREM DocumentsReadStrictly == jsonSpec => []ReadsStrictly
<1>1. ReaderInv => ReadsStrictly
  <2> SUFFICES ASSUME ReaderInv PROVE ReadsStrictly
    OBVIOUS
  <2>1. AnswersReadStrictly
    <3> SUFFICES ASSUME reader = "response", outcome \in {"parsed", "refused"}
                 PROVE  /\ outcome = "parsed" =>
                             ~ disturbed /\ declared <= MaxBytes /\ Len(text) <= MaxBytes /\ Strict(text)
                        /\ outcome = "refused" =>
                             ~ (~ disturbed /\ declared <= MaxBytes /\ Len(text) <= MaxBytes /\ Strict(text))
      BY DEF AnswersReadStrictly
    <3>1. AnswerRead /\ declared \in Int /\ Len(text) \in Nat /\ MaxBytes \in Nat
      BY LimitsAssumption DEF ReaderInv, ReaderTypes
    <3> QED BY <3>1 DEF AnswerRead
  <2>2. ASSUME NEW t \in Seq(Tokens)
        PROVE  Safe(t) <=> Len(t) \in 1 .. MaxBytes /\ Strict(t) /\ \A i \in 1 .. Len(t) : t[i] # "big"
    <3>1. (Len(t) + 1) - 1 = Len(t)
      OBVIOUS
    <3> QED BY <3>1 DEF Safe, NoBig
  <2>3. FilesReadStrictly
    BY <2>2 DEF FilesReadStrictly, ReaderInv, ReaderTypes, FileRead
  <2> QED BY <2>1, <2>3 DEF ReadsStrictly
<1> QED BY <1>1, InitReader, ReaderStep, PTL DEF jsonSpec

DescentBounded == outcome = "scanning" => Len(frames) <= MaxDepth

\* The descent is never deeper than the limit, whatever is scanned: assertDepth of
\* src/json.ts and the depth test of scanStrictJSON come before the call.
THEOREM DescentIsBounded == jsonSpec => []DescentBounded
<1>1. ReaderInv => DescentBounded
  BY DEF ReaderInv, Fresh, ScanStands, StandsAt, Reached, DescentBounded
<1> QED BY <1>1, InitReader, ReaderStep, PTL DEF jsonSpec

\* A step ends the scan, takes a token, or chooses what an object or array that does
\* not end at once begins with.
ScanAdvances ==
  outcome = "scanning" =>
    \/ outcome' \in {"parsed", "refused"}
    \/ cursor' > cursor /\ cursor' <= Len(bytes) + 1 /\ bytes' = bytes
    \/ cursor' = cursor /\ awaits = "first" /\ awaits' \in {"name", "value"}

\* Every step of a scan does.
LEMMA StepAdvances == ASSUME ReaderInv, jsonNext PROVE ScanAdvances
<1> SUFFICES ASSUME outcome = "scanning"
             PROVE  \/ outcome' \in {"parsed", "refused"}
                    \/ cursor' > cursor /\ cursor' <= Len(bytes) + 1 /\ bytes' = bytes
                    \/ cursor' = cursor /\ awaits = "first" /\ awaits' \in {"name", "value"}
  BY DEF ScanAdvances
<1>1. /\ bytes \in Seq(Tokens) /\ Len(bytes) \in Nat /\ cursor \in 1 .. Len(bytes) + 1
      /\ Skip(bytes, cursor) \in cursor .. Len(bytes) + 1
  BY SkipStops DEF ReaderInv, ReaderTypes, Fresh, ScanStands, StandsAt, Reached
<1>2. ASSUME NEW i \in 1 .. Len(bytes) + 1, i <= Len(bytes) PROVE Skip(bytes, i + 1) \in i + 1 .. Len(bytes) + 1
  BY <1>1, <1>2, SkipStops
<1>3. \A i \in 1 .. Len(bytes) + 1 : At(bytes, i) # "end" => i <= Len(bytes)
  BY <1>1 DEF At
<1>4. CASE ScanValue
  <2> DEFINE i == IF reader = "file" THEN Skip(bytes, cursor) ELSE cursor
  <2>1. i \in cursor .. Len(bytes) + 1 /\ i \in 1 .. Len(bytes) + 1
    BY <1>1
  <2>2. \/ Awaits("after", i + 1, frames) /\ At(bytes, i) \in Scalars
        \/ /\ At(bytes, i) \in Opening
           /\ Awaits("first", Skip(bytes, i + 1), Append(frames, [from |-> i, names |-> {}]))
        \/ Finish("refused")
    BY <1>4 DEF ScanValue
  <2> HIDE DEF i
  <2>3. At(bytes, i) \in Scalars \cup Opening => At(bytes, i) # "end"
    BY DEF Scalars, Opening, Strings
  <2> QED BY <1>1, <1>2, <1>3, <2>1, <2>2, <2>3 DEF Awaits, Finish, Into
<1>5. CASE ScanFirst
  <2>1. \/ Awaits("after", cursor + 1, Front(frames)) /\ At(bytes, cursor) = Closes
        \/ Awaits(Element, cursor, frames) /\ awaits = "first"
    BY <1>5 DEF ScanFirst
  <2>2. Closes # "end" /\ Element \in {"name", "value"}
    BY DEF Closes, Element
  <2> QED BY <1>1, <1>3, <2>1, <2>2 DEF Awaits
<1>6. CASE ScanName
  <2>1. \/ \E r : Awaits("separator", Skip(bytes, cursor + 1), r) /\ At(bytes, cursor) \in Strings
        \/ Finish("refused")
    BY <1>6 DEF ScanName
  <2>2. At(bytes, cursor) \in Strings => At(bytes, cursor) # "end"
    BY DEF Strings
  <2> QED BY <1>1, <1>2, <1>3, <2>1, <2>2 DEF Awaits, Finish, Into
<1>7. CASE ScanColon
  <2>1. \/ \E i \in {cursor + 1, Skip(bytes, cursor + 1)} : Awaits("value", i, frames) /\ At(bytes, cursor) = "colon"
        \/ Finish("refused")
    BY <1>7 DEF ScanColon
  <2> QED BY <1>1, <1>2, <1>3, <2>1 DEF Awaits, Finish, Into
<1>8. CASE ScanEnd
  <2> DEFINE i == Skip(bytes, cursor)
  <2>1. \/ Awaits("after", i + 1, Front(frames)) /\ At(bytes, i) = Closes
        \/ Awaits(Element, Skip(bytes, i + 1), frames) /\ At(bytes, i) = "comma"
        \/ Finish("refused")
    BY <1>8 DEF ScanEnd
  <2>2. i \in cursor .. Len(bytes) + 1 /\ i \in 1 .. Len(bytes) + 1 /\ Closes # "end"
    BY <1>1 DEF Closes
  <2> HIDE DEF i
  <2> QED BY <1>1, <1>2, <1>3, <2>1, <2>2 DEF Awaits, Finish, Into
<1>9. CASE ScanEndOfText
  BY <1>9 DEF ScanEndOfText, Finish, Into
<1> QED BY <1>4, <1>5, <1>6, <1>7, <1>8, <1>9
        DEF jsonNext, Write, Respond, Chunk, BodyEnds, StreamFails, Open, ReadSync, FileEnds

\* A scan cannot run on: every step takes it on, so a text of n tokens is scanned in
\* at most 2n + 1 steps, and never beyond its end (StrictJSONScanner, scanStrictJSON).
THEOREM ScansAdvance == jsonSpec => [][ScanAdvances]_jsonVars
<1>1. ReaderInv /\ [jsonNext]_jsonVars => [ScanAdvances]_jsonVars
  BY StepAdvances
<1> QED BY <1>1, InitReader, ReaderStep, PTL DEF jsonSpec

-------------------------------------------------------------------------------
(* The grant, from the wire to the next call.                                  *)

KeyRecords ==
    [extractable : BOOLEAN, usages : {"sign_and_verify", "other"}, curve : {"P-256", "other"},
     jwk : {"public", "with_more_members"}, thumbprint : {"of_its_jwk", "other"}]

\* What each stage may rely on: the parser's checks until the record is written, and afterwards
\* that the record is this client's, whatever has become of the key beside it.
GrantInv ==
    /\ keyRecord \in KeyRecords
    /\ offset \in -MaximumSkew .. MaximumSkew
    /\ stage \in {"wire", "parsed", "refused", "stored", "kept", "dropped"}
    /\ stage = "parsed" => ParsesGrant(doc)
    /\ stage = "stored" => \A thumbprint \in {"own", "other"}, platform \in {"web", "node"} :
          IsValidStoredSession(stored, thumbprint, platform) <=> thumbprint = "own" /\ platform = "web"
    /\ StoredIsKept

\* Only the key record that was generated is taken for valid.
LEMMA OnlyTheGenerated ==
    ASSUME NEW k \in KeyRecords
    PROVE  (IsValidStoredKey(k) => k = GeneratedKey) /\ (k = GeneratedKey => IsValidStoredKey(k))
<1>1. k = [extractable |-> k.extractable, usages |-> k.usages, curve |-> k.curve, jwk |-> k.jwk,
           thumbprint |-> k.thumbprint]
  BY DEF KeyRecords
<1>2. IsValidStoredKey(k) => k = GeneratedKey
  BY <1>1 DEF KeyRecords, IsValidStoredKey, GeneratedKey
<1>3. IsValidStoredKey(GeneratedKey)
  BY DEF IsValidStoredKey, GeneratedKey
<1> QED BY <1>2, <1>3

\* The two sets of checks agree: what the parser and the binding let pass, the store's own reader
\* takes for this client's, and for no other's.
LEMMA ChecksAgree ==
    ASSUME NEW d, ParsesGrant(d), BoundToClient(d), offset \in -MaximumSkew .. MaximumSkew,
           NEW thumbprint, NEW platform
    PROVE  IsValidStoredSession(StoredSession(d), thumbprint, platform)
              <=> thumbprint = "own" /\ platform = "web"
<1> SUFFICES ASSUME NEW s, s = StoredSession(d)
             PROVE  IsValidStoredSession(s, thumbprint, platform) <=> thumbprint = "own" /\ platform = "web"
  OBVIOUS
<1>1. /\ s.access = d.access /\ s.refresh = d.refresh /\ s.generation = 1 /\ s.offset = offset
      /\ s.jkt = d.jkt /\ s.platform = d.platform /\ s.status = d.status
      /\ s.family = d.family /\ s.component = d.component
      /\ s.componentJkt = d.componentJkt /\ s.componentPlatform = d.componentPlatform
      /\ s.provider = d.provider
  <2>1. s.access = d.access /\ s.refresh = d.refresh
    BY DEF StoredSession
  <2>2. s.jkt = d.jkt /\ s.platform = d.platform
    BY DEF StoredSession
  <2>3. s.generation = 1 /\ s.offset = offset
    BY DEF StoredSession
  <2>4. s.status = d.status /\ s.family = d.family /\ s.component = d.component
    BY DEF StoredSession
  <2>5. s.componentJkt = d.componentJkt /\ s.componentPlatform = d.componentPlatform
    BY DEF StoredSession
  <2>6. s.provider = d.provider
    BY DEF StoredSession
  <2> QED BY <2>1, <2>2, <2>3, <2>4, <2>5, <2>6
<1>2. d.access \in 64 .. MaximumAccess /\ d.refresh \in 32 .. MaximumRefresh
  <2>1. ParsesTokens(d)
    BY DEF ParsesGrant
  <2> QED BY <2>1 DEF ParsesTokens
<1>3. s.access >= 64 /\ s.refresh >= 32 /\ s.generation >= 1 /\ s.offset \in -MaximumSkew .. MaximumSkew
  <2>1. MaximumAccess \in Nat /\ MaximumRefresh \in Nat
    BY DEF MaximumAccess, MaximumRefresh
  <2>2. s.access >= 64 /\ s.refresh >= 32
    BY <1>1, <1>2, <2>1
  <2>3. s.generation >= 1
    BY <1>1
  <2>4. s.offset \in -MaximumSkew .. MaximumSkew
    BY <1>1
  <2> QED BY <2>2, <2>3, <2>4
<1>4. d.jkt = "own" /\ d.platform = "web" /\ d.status = "active"
  BY DEF BoundToClient
<1>5. (d.family = "absent") <=> (d.component = "absent")
  BY DEF ParsesGrant
<1>6. d.family # "absent" => /\ d.family = "active" /\ d.component = "active"
                            /\ d.componentJkt = "own" /\ d.componentPlatform = "web"
  BY <1>5 DEF BoundToClient
<1>7. d.provider = "known"
  BY DEF ParsesGrant, ParsesTrust
<1> QED BY <1>1, <1>3, <1>4, <1>5, <1>6, <1>7 DEF IsValidStoredSession

\* The machine starts with the generated key and the offset zero.
LEMMA InitGrant == grantInit => GrantInv
<1>1. MaximumSkew \in Nat
  BY DEF MaximumSkew
<1>2. GeneratedKey \in KeyRecords
  BY DEF GeneratedKey, KeyRecords
<1> QED BY <1>1, <1>2 DEF grantInit, GrantInv, StoredIsKept

\* Each step hands on what the next one relies on.
LEMMA NextGrant == GrantInv /\ [grantNext]_grantVars => GrantInv'
<1> SUFFICES ASSUME GrantInv, [grantNext]_grantVars PROVE GrantInv'
  OBVIOUS
<1>1. CASE Deviate
  BY <1>1 DEF Deviate, GrantInv, StoredIsKept
<1>2. CASE ReceiveGrant
  <2>1. stage' \in {"parsed", "refused"} /\ (stage' = "parsed" => ParsesGrant(doc)) /\ UNCHANGED <<doc, keyRecord>>
    BY <1>2 DEF ReceiveGrant
  <2>2. offset' \in -MaximumSkew .. MaximumSkew
    BY <1>2 DEF ReceiveGrant, GrantInv
  <2> QED BY <2>1, <2>2 DEF GrantInv, StoredIsKept
<1>3. CASE PersistGrant
  <2>1. /\ ParsesGrant(doc) /\ UNCHANGED <<doc, skew, offset, keyRecord, caller>>
        /\ \/ stage' = "stored" /\ stored' = StoredSession(doc) /\ BoundToClient(doc)
           \/ stage' = "refused"
    BY <1>3 DEF PersistGrant, GrantInv
  <2>2. CASE stage' = "stored"
    <3>1. \A thumbprint \in {"own", "other"}, platform \in {"web", "node"} :
             IsValidStoredSession(StoredSession(doc), thumbprint, platform) <=> thumbprint = "own" /\ platform = "web"
      BY <2>1, <2>2, ChecksAgree DEF GrantInv
    <3>2. stored' = StoredSession(doc)
      BY <2>1, <2>2
    <3> QED BY <2>1, <2>2, <3>1, <3>2 DEF GrantInv, StoredIsKept
  <2>3. CASE stage' = "refused"
    BY <2>1, <2>3 DEF GrantInv, StoredIsKept
  <2> QED BY <2>1, <2>2, <2>3
<1>4. CASE DamageKey
  <2>1. keyRecord \in KeyRecords /\ stage = "stored" /\ UNCHANGED <<stage, doc, skew, offset, stored, caller>>
    BY <1>4 DEF DamageKey, GrantInv
  <2>2. keyRecord' \in KeyRecords
    <3>1. PICK field \in DOMAIN KeyValues : \E value \in KeyValues[field] :
             keyRecord' = [keyRecord EXCEPT ![field] = value]
      BY <1>4 DEF DamageKey
    <3>2. field \in {"extractable", "usages", "curve", "jwk", "thumbprint"}
      BY <3>1 DEF KeyValues
    <3>3. CASE field = "extractable"
      BY <2>1, <3>1, <3>3 DEF KeyRecords, KeyValues
    <3>4. CASE field = "usages"
      BY <2>1, <3>1, <3>4 DEF KeyRecords, KeyValues
    <3>5. CASE field = "curve"
      BY <2>1, <3>1, <3>5 DEF KeyRecords, KeyValues
    <3>6. CASE field = "jwk"
      BY <2>1, <3>1, <3>6 DEF KeyRecords, KeyValues
    <3>7. CASE field = "thumbprint"
      BY <2>1, <3>1, <3>7 DEF KeyRecords, KeyValues
    <3> QED BY <3>2, <3>3, <3>4, <3>5, <3>6, <3>7
  <2> QED BY <2>1, <2>2 DEF GrantInv, StoredIsKept
<1>5. CASE NextCall
  <2>1. PICK thumbprint \in {"own", "other"}, platform \in {"web", "node"} :
           /\ caller' = [jkt |-> thumbprint, platform |-> platform, sound |-> keyRecord = GeneratedKey]
           /\ IF IsValidStoredKey(keyRecord) /\ IsValidStoredSession(stored, thumbprint, platform)
              THEN stage' = "kept" /\ UNCHANGED stored
              ELSE stage' = "dropped" /\ stored' = NoSession
    BY <1>5 DEF NextCall
  <2>2. stage = "stored" /\ UNCHANGED <<doc, skew, offset, keyRecord>>
    BY <1>5 DEF NextCall
  <2>3. IsValidStoredSession(stored, thumbprint, platform) <=> thumbprint = "own" /\ platform = "web"
    BY <2>2 DEF GrantInv
  <2>4. IsValidStoredKey(keyRecord) <=> keyRecord = GeneratedKey
    BY OnlyTheGenerated DEF GrantInv
  <2>5. stage' \in {"kept", "dropped"} /\ (stage' = "kept" <=> thumbprint = "own" /\ platform = "web" /\ keyRecord = GeneratedKey)
    BY <2>1, <2>3, <2>4
  <2>6. caller' = [jkt |-> "own", platform |-> "web", sound |-> TRUE]
           <=> thumbprint = "own" /\ platform = "web" /\ (keyRecord = GeneratedKey) = TRUE
    BY <2>1
  <2> QED BY <2>2, <2>5, <2>6 DEF GrantInv, StoredIsKept
<1>6. CASE UNCHANGED grantVars
  BY <1>6 DEF grantVars, GrantInv, StoredIsKept
<1> QED BY <1>1, <1>2, <1>3, <1>4, <1>5, <1>6 DEF grantNext

(* A grant that was accepted and stored, whatever it says and whatever the clock    *)
(* offset, is a session for the next call of this client, and for no other          *)
(* (parseSessionGrant, persistGrantUnderLease, isValidStoredSession and isValidStoredKey). *)
THEOREM KeptIfStored == grantSpec => []StoredIsKept
<1>1. GrantInv => StoredIsKept
  BY DEF GrantInv
<1> QED BY <1>1, InitGrant, NextGrant, PTL DEF grantSpec

-------------------------------------------------------------------------------
(* The refusal, and what the SDK does upon it.                                 *)

Answers ==
    [contentType : {"problem", "json"}, body : {"object", "not_read"},
     requestHeader : {"absent", "r1", "r2"}, nonce : {"absent", "usable", "malformed"},
     status : {401, 403, 429, 503, 504}, code : Codes \cup {"unknown"},
     type : Codes, documentation : Codes, title : Codes,
     bodyStatus : {401, 403, 429, 503, 504}, retryable : BOOLEAN, detail : {0, 1, 2048, 2049},
     request : {"r1", "r2", "bad"}, optional : {"well_formed", "bad"},
     operation : {"absent", "arq", "bad"}]

\* No more of the answer is needed than what may be in it: the checks are made when the SDK reacts.
ProblemInv == answer \in Answers /\ attempt \in {"first", "again"} /\ ActsOnCanonicalRefusal

\* What the policy table says of the codes the SDK reacts to.
LEMMA PolicyOf ==
    ASSUME NEW code \in Codes
    PROVE  /\ Policy(code).status \in {401, 403, 429, 503, 504} /\ Policy(code).retryable \in BOOLEAN
           /\ code \in SessionEnding => Policy(code).status \in {401, 403} /\ ~Policy(code).retryable
           /\ code \in {"dpop_nonce_required", "session_expired"} => Policy(code).status = 401 /\ Policy(code).retryable
           /\ code = "dpop_invalid" => Policy(code).status = 401 /\ ~Policy(code).retryable
           /\ code \in SessionEnding => code # "operation_indeterminate"
<1>1. Policy(code).retryable = (code \in {"dpop_nonce_required", "session_expired", "quota_exceeded",
                                         "operation_indeterminate"})
  BY DEF Policy
<1>2. Policy(code).status =
         CASE code \in {"installation_revoked", "installation_family_revoked", "component_revoked"} -> 403
           [] code = "quota_exceeded"          -> 429
           [] code = "operation_indeterminate" -> 503
           [] code = "upstream_timeout"        -> 504
           [] OTHER                            -> 401
  BY DEF Policy
<1>3. Policy(code).status \in {401, 403, 429, 503, 504} /\ Policy(code).retryable \in BOOLEAN
  BY <1>1, <1>2
<1>4. ASSUME code \in SessionEnding
      PROVE  /\ code \notin {"dpop_nonce_required", "session_expired", "quota_exceeded", "upstream_timeout",
                             "operation_indeterminate"}
             /\ Policy(code).status \in {401, 403} /\ ~Policy(code).retryable
  <2>1. code \notin {"dpop_nonce_required", "session_expired", "quota_exceeded", "upstream_timeout",
                     "operation_indeterminate"}
    BY <1>4 DEF SessionEnding
  <2>2. ~Policy(code).retryable
    BY <2>1, <1>1
  <2>3. Policy(code).status \in {401, 403}
    BY <2>1, <1>2
  <2> QED BY <2>1, <2>2, <2>3
<1>5. code \in {"dpop_nonce_required", "session_expired"} => Policy(code).status = 401 /\ Policy(code).retryable
  BY <1>1, <1>2
<1>6. code = "dpop_invalid" => Policy(code).status = 401 /\ ~Policy(code).retryable
  BY <1>1, <1>2
<1> QED BY <1>3, <1>4, <1>5, <1>6

\* The answer with a code, by the members the checks leave open.
Document(code, nonce, header, detail, request) ==
    [contentType |-> "problem", body |-> "object", requestHeader |-> header, nonce |-> nonce,
     status |-> Policy(code).status, code |-> code, type |-> code, documentation |-> code, title |-> code,
     bodyStatus |-> Policy(code).status, retryable |-> Policy(code).retryable,
     detail |-> detail, request |-> request, optional |-> "well_formed",
     operation |-> IF code = "operation_indeterminate" THEN "arq" ELSE "absent"]

\* A document that passes the checks, with a header to its request, is the gateway's own.
LEMMA CanonicalIfRead ==
    ASSUME NEW a \in Answers, NEW code, ErrorCode(a) = code, code # "protocol_response_invalid"
    PROVE  /\ code \in Codes /\ a.status = Policy(code).status /\ a.retryable = Policy(code).retryable
           /\ a = [Canonical(code, a.nonce) EXCEPT
                     !.detail = a.detail, !.request = a.request, !.requestHeader = a.request]
<1>1. /\ a.contentType = "problem" /\ a.body = "object" /\ a.code = code
      /\ IsProblemDocument(a)
  BY DEF ErrorCode
<1>2. /\ code \in Codes /\ a.type = code /\ a.documentation = code /\ a.title = code
      /\ a.status = Policy(code).status /\ a.bodyStatus = Policy(code).status
      /\ a.retryable = Policy(code).retryable /\ a.requestHeader = a.request /\ a.optional = "well_formed"
      /\ a.operation = IF code = "operation_indeterminate" THEN "arq" ELSE "absent"
  BY <1>1 DEF IsProblemDocument
<1>3. [Canonical(code, a.nonce) EXCEPT !.detail = a.detail, !.request = a.request, !.requestHeader = a.request]
        = Document(code, a.nonce, a.request, a.detail, a.request)
  <2>1. \A r, x, y, z : [r EXCEPT !.detail = x, !.request = y, !.requestHeader = z]
                          = [[[r EXCEPT !.detail = x] EXCEPT !.request = y] EXCEPT !.requestHeader = z]
    OBVIOUS
  <2>2. Canonical(code, a.nonce) = Document(code, a.nonce, "r1", 1, "r1")
    BY DEF Canonical, Document
  <2>3. [Document(code, a.nonce, "r1", 1, "r1") EXCEPT !.detail = a.detail]
          = Document(code, a.nonce, "r1", a.detail, "r1")
    BY DEF Document
  <2>4. [Document(code, a.nonce, "r1", a.detail, "r1") EXCEPT !.request = a.request]
          = Document(code, a.nonce, "r1", a.detail, a.request)
    BY DEF Document
  <2>5. [Document(code, a.nonce, "r1", a.detail, a.request) EXCEPT !.requestHeader = a.request]
          = Document(code, a.nonce, a.request, a.detail, a.request)
    BY DEF Document
  <2> QED BY <2>1, <2>2, <2>3, <2>4, <2>5, Zenon
<1>4. a = [contentType |-> a.contentType, body |-> a.body, requestHeader |-> a.requestHeader, nonce |-> a.nonce,
           status |-> a.status, code |-> a.code, type |-> a.type, documentation |-> a.documentation, title |-> a.title,
           bodyStatus |-> a.bodyStatus, retryable |-> a.retryable,
           detail |-> a.detail, request |-> a.request, optional |-> a.optional, operation |-> a.operation]
  BY DEF Answers
<1>5. a = Document(code, a.nonce, a.request, a.detail, a.request)
  BY <1>1, <1>2, <1>4 DEF Document
<1> QED BY <1>2, <1>3, <1>5

\* The gateway's own answers are among those that may be given.
LEMMA InitProblem == problemInit => ProblemInv
<1> SUFFICES ASSUME problemInit PROVE ProblemInv
  OBVIOUS
<1>1. PICK code \in Codes, nonce \in {"absent", "usable"} : answer = Canonical(code, nonce)
  BY DEF problemInit
<1>2. answer \in Answers
  BY <1>1, PolicyOf DEF Canonical, Answers
<1> QED BY <1>2 DEF problemInit, ProblemInv, ActsOnCanonicalRefusal

\* No reaction but handing out without a code the document has been checked for.
LEMMA NextProblem == ProblemInv /\ [problemNext]_problemVars => ProblemInv'
<1> SUFFICES ASSUME ProblemInv, [problemNext]_problemVars PROVE ProblemInv'
  OBVIOUS
<1>1. CASE Deform
  <2>1. reaction' = "none_yet" /\ UNCHANGED attempt
    BY <1>1 DEF Deform
  <2>2. PICK member \in DOMAIN AnswerValues : \E value \in AnswerValues[member] :
           answer' = [answer EXCEPT ![member] = value]
    BY <1>1 DEF Deform
  <2>3. answer \in Answers
    BY DEF ProblemInv
  <2>4. answer' \in Answers
    <3>1. CASE member \in {"contentType", "body"}
      BY <2>2, <2>3, <3>1 DEF Answers, AnswerValues
    <3>2. CASE member \in {"requestHeader", "nonce"}
      BY <2>2, <2>3, <3>2 DEF Answers, AnswerValues
    <3>3. CASE member \in {"status", "code"}
      BY <2>2, <2>3, <3>3 DEF Answers, AnswerValues
    <3>4. CASE member \in {"type", "documentation", "title"}
      BY <2>2, <2>3, <3>4 DEF Answers, AnswerValues
    <3>5. CASE member \in {"bodyStatus", "retryable", "detail"}
      BY <2>2, <2>3, <3>5 DEF Answers, AnswerValues
    <3>6. CASE member \in {"request", "optional", "operation"}
      BY <2>2, <2>3, <3>6 DEF Answers, AnswerValues
    <3>7. member \in {"contentType", "body", "requestHeader", "nonce", "status", "code", "type",
                      "documentation", "title", "bodyStatus", "retryable", "detail", "request",
                      "optional", "operation"}
      BY <2>2 DEF AnswerValues
    <3> QED BY <3>1, <3>2, <3>3, <3>4, <3>5, <3>6, <3>7
  <2> QED BY <2>1, <2>4 DEF ProblemInv, ActsOnCanonicalRefusal
<1>2. CASE React
  <2>1. PICK request \in Requests, clockChanged \in BOOLEAN :
           reaction' = CASE request \in {"fetch", "control"} -> FetchReaction(answer)
                         [] request = "session"              -> SessionReaction(answer, clockChanged)
                         [] request = "refresh"              -> RefreshReaction(answer, clockChanged)
    BY <1>2 DEF React
  <2>2. answer \in Answers /\ attempt \in {"first", "again"} /\ UNCHANGED <<answer, attempt>>
    BY <1>2 DEF React, ProblemInv
  <2>3. FetchReaction(answer) \in {"prove_again", "renew", "hand_out"} /\
        (FetchReaction(answer) \in {"prove_again", "renew"} =>
           attempt = "first" /\ ErrorCode(answer) \in {"dpop_nonce_required", "session_expired"})
    BY DEF FetchReaction
  <2>4. SessionReaction(answer, clockChanged) \in {"prove_again", "prove_later", "hand_out"} /\
        (SessionReaction(answer, clockChanged) = "prove_again" =>
           attempt = "first" /\ ErrorCode(answer) = "dpop_nonce_required") /\
        (SessionReaction(answer, clockChanged) = "prove_later" =>
           attempt = "first" /\ ErrorCode(answer) = "dpop_invalid")
    BY DEF SessionReaction
  <2>5. /\ reaction' \in {"prove_again", "renew", "prove_later", "drop_session", "hand_out"}
        /\ reaction' \in {"prove_again", "renew"} =>
             attempt = "first" /\ ErrorCode(answer) \in {"dpop_nonce_required", "session_expired"}
        /\ reaction' = "prove_later" => attempt = "first" /\ ErrorCode(answer) = "dpop_invalid"
        /\ reaction' = "drop_session" => ErrorCode(answer) \in SessionEnding
    BY <2>1, <2>3, <2>4 DEF RefreshReaction, Requests
  <2>6. ASSUME reaction' \in {"prove_again", "prove_later", "renew", "drop_session"}
        PROVE  /\ \E code \in Codes :
                    answer = [Canonical(code, answer.nonce) EXCEPT
                                !.detail = answer.detail, !.request = answer.request, !.requestHeader = answer.request]
               /\ answer.status \in {401, 403}
               /\ answer.retryable <=> reaction' \in {"prove_again", "renew"}
               /\ attempt = "again" => reaction' = "drop_session"
    <3> DEFINE code == ErrorCode(answer)
    <3>1. code \in {"dpop_nonce_required", "session_expired", "dpop_invalid"} \cup SessionEnding
      BY <2>5, <2>6
    <3>2. code \in Codes /\ code # "protocol_response_invalid"
      BY <3>1 DEF Codes, SessionEnding
    <3> HIDE DEF code
    <3>3. /\ answer.status = Policy(code).status /\ answer.retryable = Policy(code).retryable
          /\ answer = [Canonical(code, answer.nonce) EXCEPT
                         !.detail = answer.detail, !.request = answer.request, !.requestHeader = answer.request]
      BY <2>2, <3>2, CanonicalIfRead DEF code
    <3>4. answer.status \in {401, 403} /\ (answer.retryable <=> code \in {"dpop_nonce_required", "session_expired"})
      <4>1. SessionEnding \cap {"dpop_nonce_required", "session_expired"} = {}
        BY DEF SessionEnding
      <4> QED BY <3>1, <3>2, <3>3, <4>1, PolicyOf
    <3>5. code \in {"dpop_nonce_required", "session_expired"} <=> reaction' \in {"prove_again", "renew"}
      BY <2>5, <2>6 DEF code, SessionEnding
    <3>6. attempt = "again" => reaction' = "drop_session"
      BY <2>5, <2>6
    <3> QED BY <3>2, <3>3, <3>4, <3>5, <3>6
  <2> QED BY <2>2, <2>6 DEF ProblemInv, ActsOnCanonicalRefusal
<1>3. CASE UNCHANGED problemVars
  BY <1>3 DEF problemVars, ProblemInv, ActsOnCanonicalRefusal
<1> QED BY <1>1, <1>2, <1>3 DEF problemNext

(* However many members of an answer deviate, the SDK proves again, renews or drops *)
(* the session only on the gateway's own refusal of the credentials, and never      *)
(* twice (isProblemDocument, errorFromResponse and the callers that react).         *)
THEOREM OnlyCanonicalRefusals == problemSpec => []ActsOnCanonicalRefusal
<1>1. ProblemInv => ActsOnCanonicalRefusal
  BY DEF ProblemInv
<1> QED BY <1>1, InitProblem, NextProblem, PTL DEF problemSpec

-------------------------------------------------------------------------------
(* The stores under the session manager.                                       *)

USE StoresAssumption, DatabaseAssumption

-------------------------------------------------------------------------------
(* The vocabulary of the proofs.                                               *)

Places == Inside \cup Releasing \cup Ended \cup {"idle", "asking"}
Records == [key : Keys \cup {None}, session : Keys \cup {None}, lease : Calls \cup {None}]

\* A step of call c in store s: what it leaves to every other call, tab and store.
ActsIn(c, s) ==
    /\ pc[c] = "asking" \/ Holding(c)
    /\ pc'[c] = pc[c] \/ pc'[c] \in Inside \cup Releasing \cup Ended
    /\ ServedBy(TabOf[c], s)
    /\ \A d \in Calls \ {c} : pc'[d] = pc[d] /\ key'[d] = key[d] /\ got'[d] = got[d]
    /\ \A t \in Tabs \ {TabOf[c]} : cached'[t] = cached[t]
    /\ \A r \in Stores \ {s} : data'[r] = data[r]
    /\ UNCHANGED <<mode, kind>>

\* What it may do to the lease of s.
TakesFairly(c, s) == data'[s].lease = data[s].lease \/ data[s].lease \in {None, c}

\* When it may touch the records of s and the key of its tab.
LeavesRecords(c, s) ==
    /\ data'[s].key = data[s].key /\ data'[s].session = data[s].session
    /\ cached'[TabOf[c]] = cached[TabOf[c]]
MayWrite(c, s) ==
    \/ LeavesRecords(c, s)
    \/ data[s].lease \in {None, c}
    \/ Holding(c)' /\ moved'[c] = "interrupted" /\ ~primary'[TabOf[c]]

\* Each tab's memory is a store, and none is the database.
LEMMA StoreOf == ASSUME NEW t \in Tabs PROVE t \in Stores /\ Database \in Stores /\ t # Database
  BY DEF Stores

\* The three ways to be served.
LEMMA Served ==
    ASSUME TypeOK, NEW t \in Tabs, NEW s, ServedBy(t, s)
    PROVE  \/ /\ primary[t] /\ s = Database /\ handle[t] \in {"none", "open"}
              /\ handle' = [handle EXCEPT ![t] = "open"] /\ primary' = primary /\ moved' = moved
           \/ /\ primary[t] /\ s = t /\ mode[t] = "allow-memory"
              /\ primary' = [primary EXCEPT ![t] = FALSE]
              /\ \E h \in {"none", "open", "closed", "rejected"} : handle' = [handle EXCEPT ![t] = h]
              /\ moved' = Interrupted(t)
           \/ /\ ~primary[t] /\ s = t /\ mode[t] # "required"
              /\ handle' = handle /\ primary' = primary /\ moved' = moved
  BY DEF ServedBy, AfterFailure, TypeOK

\* Being served is a tab's own affair.
LEMMA ServedAlone ==
    ASSUME TypeOK, NEW t \in Tabs, NEW s, ServedBy(t, s), NEW u \in Tabs, u # t
    PROVE  handle'[u] = handle[u] /\ primary'[u] = primary[u]
<1>1. /\ primary' = primary \/ primary' = [primary EXCEPT ![t] = FALSE]
      /\ handle' = handle \/ \E h \in {"none", "open", "closed", "rejected"} : handle' = [handle EXCEPT ![t] = h]
  BY Served
<1>2. primary \in [Tabs -> BOOLEAN] /\ DOMAIN handle = Tabs
  BY DEF TypeOK
<1>3. primary'[u] = primary[u]
  BY <1>1, <1>2
<1>4. handle'[u] = handle[u]
  BY <1>1, <1>2
<1> QED BY <1>3, <1>4

\* A fallback interrupts the tab's holders, and marks those that wait beside one.
LEMMA Interrupts ==
    ASSUME TypeOK, NEW t \in Tabs, moved' = Interrupted(t)
    PROVE  /\ moved' \in [Calls -> {"no", "beside", "interrupted"}]
           /\ \A d \in Calls : TabOf[d] # t => moved'[d] = moved[d]
           /\ \A d \in Calls : TabOf[d] = t /\ Holding(d) => moved'[d] = "interrupted"
           /\ \A d \in Calls : pc[d] = "idle" => moved'[d] = moved[d]
           /\ \A d \in Calls : pc[d] = "asking" => moved'[d] \in {moved[d], "beside"}
           /\ \A d \in Calls : TabOf[d] = t /\ pc[d] = "asking" /\ moved'[d] = "no" =>
                 \A e \in Calls : TabOf[e] = t => ~Holding(e)
<1> DEFINE held == [c \in Calls |-> IF TabOf[c] = t /\ Holding(c) THEN "interrupted" ELSE moved[c]]
<1>1. moved' = [c \in Calls |-> IF TabOf[c] = t /\ pc[c] = "asking" /\ Beside(t, held) THEN "beside" ELSE held[c]]
  BY DEF Interrupted
<1>2. \A d \in Calls : pc[d] \in {"idle", "asking"} => ~Holding(d)
  BY DEF Holding, Inside, Releasing
<1>3. \A e \in Calls : TabOf[e] = t /\ Holding(e) => Beside(t, held)
  BY DEF Beside
<1>4. \A d \in Calls : held[d] = IF TabOf[d] = t /\ Holding(d) THEN "interrupted" ELSE moved[d]
  OBVIOUS
<1>5. held \in [Calls -> {"no", "beside", "interrupted"}]
  BY DEF TypeOK
<1> HIDE DEF held
<1>6. \A d \in Calls : moved'[d] = IF TabOf[d] = t /\ pc[d] = "asking" /\ Beside(t, held) THEN "beside" ELSE held[d]
  BY <1>1
<1>7. \A d \in Calls : held[d] \in {"no", "beside", "interrupted"}
  BY <1>5
<1>8. moved' \in [Calls -> {"no", "beside", "interrupted"}]
  BY <1>1, <1>7
<1>9. \A d \in Calls : TabOf[d] # t \/ ~Holding(d) => held[d] = moved[d]
  BY <1>4
<1>10. \A d \in Calls : TabOf[d] = t /\ Holding(d) => moved'[d] = "interrupted"
  BY <1>2, <1>4, <1>6
<1>11. \A d \in Calls : pc[d] = "asking" => moved'[d] \in {moved[d], "beside"}
  BY <1>2, <1>6, <1>9
<1>12. \A d \in Calls : TabOf[d] # t \/ pc[d] = "idle" => moved'[d] = moved[d]
  BY <1>2, <1>6, <1>9
<1>13. ASSUME NEW d \in Calls, TabOf[d] = t, pc[d] = "asking", moved'[d] = "no"
       PROVE  ~Beside(t, held)
  BY <1>6, <1>13
<1>14. \A d \in Calls : TabOf[d] = t /\ pc[d] = "asking" /\ moved'[d] = "no" =>
          \A e \in Calls : TabOf[e] = t => ~Holding(e)
  BY <1>3, <1>13
<1>15. \A d \in Calls : TabOf[d] # t => moved'[d] = moved[d]
  BY <1>12
<1>16. \A d \in Calls : pc[d] = "idle" => moved'[d] = moved[d]
  BY <1>12
<1> QED BY <1>8, <1>10, <1>11, <1>14, <1>15, <1>16

\* Being served leaves the connections, stores and histories well typed.
LEMMA ServedType ==
    ASSUME TypeOK, NEW t \in Tabs, NEW s, ServedBy(t, s)
    PROVE  /\ handle' \in [Tabs -> {"none", "open", "closed", "rejected"}]
           /\ primary' \in [Tabs -> BOOLEAN]
           /\ moved' \in [Calls -> {"no", "beside", "interrupted"}]
           /\ s \in Stores
<1>1. moved' \in [Calls -> {"no", "beside", "interrupted"}]
  <2>1. CASE moved' = Interrupted(t)
    BY <2>1, Interrupts
  <2>2. CASE moved' = moved
    BY <2>2 DEF TypeOK
  <2> QED BY <2>1, <2>2, Served
<1>2. s \in Stores
  BY Served, StoreOf
<1>3. /\ handle \in [Tabs -> {"none", "open", "closed", "rejected"}]
      /\ primary \in [Tabs -> BOOLEAN]
  BY DEF TypeOK
<1>4. handle' \in [Tabs -> {"none", "open", "closed", "rejected"}] /\ primary' \in [Tabs -> BOOLEAN]
  <2>1. /\ handle' = handle \/ \E h \in {"none", "open", "closed", "rejected"} : handle' = [handle EXCEPT ![t] = h]
        /\ primary' = primary \/ primary' = [primary EXCEPT ![t] = FALSE]
    BY Served
  <2> QED BY <1>3, <2>1
<1> QED BY <1>1, <1>2, <1>4

\* Writing one field of one store changes nothing else.
LEMMA PutType ==
    ASSUME TypeOK, NEW s \in Stores, NEW f \in {"key", "session", "lease"}, NEW v, Put(s, f, v),
           f = "lease" => v \in Calls \cup {None}, f # "lease" => v \in Keys \cup {None}
    PROVE  /\ data' \in [Stores -> Records]
           /\ \A r \in Stores \ {s} : data'[r] = data[r]
           /\ data'[s].lease = IF f = "lease" THEN v ELSE data[s].lease
           /\ data'[s].key = IF f = "key" THEN v ELSE data[s].key
           /\ data'[s].session = IF f = "session" THEN v ELSE data[s].session
  BY DEF Put, TypeOK, Records

\* A call goes to a place, and the others stay.
LEMMA GotoType ==
    ASSUME TypeOK, NEW c \in Calls, NEW where \in Places, Goto(c, where)
    PROVE  /\ pc' \in [Calls -> Places] /\ pc'[c] = where
           /\ \A d \in Calls \ {c} : pc'[d] = pc[d]
  BY DEF Goto, TypeOK, Places

-------------------------------------------------------------------------------
(* What an operation of one call does to the others.                           *)

\* A holder whose store is still the one it had was not disturbed by the operation either.
LEMMA Stands ==
    ASSUME TypeOK, Opened, NEW c \in Calls, NEW s, ActsIn(c, s), NEW d \in Calls, Holding(d)
    PROVE  /\ Undisturbed(d)' => Undisturbed(d) /\ Home(d)' = Home(d)
           /\ ~primary'[TabOf[d]] /\ moved'[d] = "beside" =>
                 ~primary[TabOf[d]] /\ moved[d] = "beside" /\ Home(d)' = Home(d)
           /\ TabOf[d] = TabOf[c] => s = Home(d)'
<1>1. TabOf[c] \in Tabs /\ TabOf[d] \in Tabs
  OBVIOUS
<1>2. ServedBy(TabOf[c], s)
  BY DEF ActsIn
<1>3. CASE /\ primary[TabOf[c]] /\ s = Database /\ handle[TabOf[c]] \in {"none", "open"}
           /\ handle' = [handle EXCEPT ![TabOf[c]] = "open"] /\ primary' = primary /\ moved' = moved
  BY <1>1, <1>3 DEF Undisturbed, Home, Opened, TypeOK
<1>4. CASE /\ primary[TabOf[c]] /\ s = TabOf[c]
           /\ primary' = [primary EXCEPT ![TabOf[c]] = FALSE]
           /\ \E h \in {"none", "open", "closed", "rejected"} : handle' = [handle EXCEPT ![TabOf[c]] = h]
           /\ moved' = Interrupted(TabOf[c])
  <2>1. TabOf[d] # TabOf[c] => moved'[d] = moved[d]
    BY <1>1, <1>4, Interrupts
  <2>2. TabOf[d] = TabOf[c] => moved'[d] = "interrupted"
    BY <1>1, <1>4, Interrupts
  <2>3. primary'[TabOf[d]] = IF TabOf[d] = TabOf[c] THEN FALSE ELSE primary[TabOf[d]]
    BY <1>1, <1>4 DEF TypeOK
  <2>4. TabOf[d] # TabOf[c] => handle'[TabOf[d]] = handle[TabOf[d]]
    BY <1>1, <1>4 DEF TypeOK
  <2>5. s = TabOf[c]
    BY <1>4
  <2> HIDE <1>4
  <2> QED BY <2>1, <2>2, <2>3, <2>4, <2>5 DEF Undisturbed, Home
<1>5. CASE /\ ~primary[TabOf[c]] /\ s = TabOf[c]
           /\ handle' = handle /\ primary' = primary /\ moved' = moved
  BY <1>5 DEF Undisturbed, Home
<1> QED BY <1>1, <1>2, <1>3, <1>4, <1>5, Served

\* A call's step keeps that who holds a lease in the database had a connection.
LEMMA ActsOpened ==
    ASSUME TypeOK, Opened, NEW c \in Calls, NEW s, ActsIn(c, s) PROVE Opened'
<1> SUFFICES ASSUME NEW d \in Calls, Holding(d)', primary'[TabOf[d]]
             PROVE  handle'[TabOf[d]] \in {"open", "closed"}
  BY DEF Opened
<1>1. TabOf[c] \in Tabs /\ TabOf[d] \in Tabs /\ ServedBy(TabOf[c], s)
  BY DEF ActsIn
<1>2. CASE TabOf[d] = TabOf[c]
  BY <1>1, <1>2, Served DEF TypeOK
<1>3. CASE TabOf[d] # TabOf[c]
  <2>1. handle'[TabOf[d]] = handle[TabOf[d]] /\ primary'[TabOf[d]] = primary[TabOf[d]]
    BY <1>1, <1>3, ServedAlone
  <2>2. Holding(d)
    BY <1>3 DEF ActsIn, Holding
  <2> QED BY <2>1, <2>2 DEF Opened
<1> QED BY <1>2, <1>3

\* A call's step keeps which calls count as untouched by a fallback.
LEMMA ActsUntouched ==
    ASSUME TypeOK, Untouched, NEW c \in Calls, NEW s, ActsIn(c, s) PROVE Untouched'
<1>1. TabOf[c] \in Tabs /\ ServedBy(TabOf[c], s)
  BY DEF ActsIn
<1>2. ASSUME NEW d \in Calls
      PROVE  /\ pc'[d] = "idle" => pc[d] = "idle"
             /\ pc'[d] = "asking" => pc[d] = "asking"
             /\ Holding(d)' => Holding(d) \/ pc[d] = "asking"
             /\ Holding(d)' /\ d # c => Holding(d)
  BY DEF ActsIn, Holding, Inside, Releasing, Ended
<1>3. CASE moved' = moved
  <2>1. ASSUME NEW d \in Calls, pc[d] = "asking" PROVE moved[d] # "interrupted"
    BY <2>1 DEF Untouched
  <2>2. ASSUME NEW d \in Calls, NEW e \in Calls, pc'[d] = "asking" \/ Holding(d)',
               TabOf[e] = TabOf[d], Holding(e)', moved[e] = "interrupted"
        PROVE  moved[d] # "no"
    <3>1. Holding(e)
      BY <1>2, <2>1, <2>2
    <3>2. pc[d] = "asking" \/ Holding(d)
      BY <1>2, <2>2
    <3> QED BY <2>2, <3>1, <3>2 DEF Untouched
  <2>3. ASSUME NEW d \in Calls
        PROVE  (pc'[d] = "idle" => moved[d] = "no") /\ (pc'[d] = "asking" => moved[d] # "interrupted")
    BY <1>2 DEF Untouched
  <2> QED BY <1>3, <2>2, <2>3 DEF Untouched
<1>4. CASE moved' = Interrupted(TabOf[c])
  <2> DEFINE t == TabOf[c]
  <2>1. /\ \A d \in Calls : TabOf[d] # t => moved'[d] = moved[d]
        /\ \A d \in Calls : TabOf[d] = t /\ Holding(d) => moved'[d] = "interrupted"
        /\ \A d \in Calls : pc[d] = "idle" => moved'[d] = moved[d]
        /\ \A d \in Calls : pc[d] = "asking" => moved'[d] \in {moved[d], "beside"}
        /\ \A d \in Calls : TabOf[d] = t /\ pc[d] = "asking" /\ moved'[d] = "no" =>
              \A e \in Calls : TabOf[e] = t => ~Holding(e)
    BY <1>1, <1>4, Interrupts
  <2>2. ASSUME NEW d \in Calls
        PROVE  (pc'[d] = "idle" => moved'[d] = "no") /\ (pc'[d] = "asking" => moved'[d] # "interrupted")
    <3>1. pc[d] = "asking" => moved'[d] \in {moved[d], "beside"}
      BY <2>1
    <3>2. pc[d] = "idle" => moved'[d] = moved[d]
      BY <2>1
    <3> QED BY <1>2, <3>1, <3>2 DEF Untouched
  <2>3. ASSUME NEW d \in Calls, NEW e \in Calls, pc'[d] = "asking" \/ Holding(d)',
               TabOf[e] = TabOf[d], Holding(e)', moved'[e] = "interrupted", moved'[d] = "no"
        PROVE  FALSE
    <3>1. pc[d] = "asking" \/ Holding(d)
      BY <1>2, <2>3
    <3>2. CASE TabOf[d] = t
      <4>1. pc[d] = "asking"
        BY <2>1, <2>3, <3>1, <3>2
      <4>2. ~Holding(e)
        BY <2>1, <2>3, <3>2, <4>1
      <4>3. pc[e] = "asking"
        BY <1>2, <2>3, <4>2
      <4>4. moved'[e] \in {moved[e], "beside"}
        BY <2>1, <4>3
      <4> QED BY <2>3, <4>3, <4>4 DEF Untouched
    <3>3. CASE TabOf[d] # t
      <4>1. moved[d] = "no" /\ moved[e] = "interrupted" /\ e # c
        BY <2>1, <2>3, <3>3
      <4>2. Holding(e)
        BY <1>2, <2>3, <4>1
      <4> QED BY <2>3, <3>1, <4>1, <4>2 DEF Untouched
    <3> QED BY <3>2, <3>3
  <2> HIDE DEF t
  <2> QED BY <2>2, <2>3 DEF Untouched
<1> QED BY <1>1, <1>3, <1>4, Served

\* A call at work in a store of its own has the lease; else it is one that a fallback interrupted.
LEMMA Alone ==
    ASSUME TypeOK, Opened, LeaseKept, NEW c \in Calls, NEW s, ServedBy(TabOf[c], s),
           Holding(c), pc[c] \notin {"network", "renewSession", "releaseFailed"}
    PROVE  data[s].lease = c \/ (moved'[c] = "interrupted" /\ ~primary'[TabOf[c]])
<1>1. TabOf[c] \in Tabs /\ moved[c] \in {"no", "beside", "interrupted"}
  BY DEF TypeOK
<1>2. CASE primary[TabOf[c]] /\ s = Database /\ handle[TabOf[c]] \in {"none", "open"}
  <2>1. handle[TabOf[c]] = "open"
    BY <1>2 DEF Opened
  <2> QED BY <1>2, <2>1 DEF LeaseKept, Keeps, Undisturbed, Home
<1>3. CASE /\ primary' = [primary EXCEPT ![TabOf[c]] = FALSE] /\ moved' = Interrupted(TabOf[c])
  BY <1>1, <1>3, Interrupts DEF TypeOK
<1>4. CASE ~primary[TabOf[c]] /\ s = TabOf[c] /\ primary' = primary /\ moved' = moved
  BY <1>1, <1>4 DEF LeaseKept, Keeps, Undisturbed, Home
<1> QED BY <1>1, <1>2, <1>3, <1>4, Served

\* A call's step keeps the leases of the others, if it takes a lease fairly.
LEMMA ActsLeases ==
    ASSUME TypeOK, Opened, LeaseKept, NEW c \in Calls, NEW s, ActsIn(c, s), TakesFairly(c, s),
           Keeps(c)' => data'[Home(c)'].lease = c
    PROVE  LeaseKept'
<1> SUFFICES ASSUME NEW d \in Calls, d # c, Keeps(d)' PROVE data'[Home(d)'].lease = d
  BY DEF LeaseKept
<1>1. pc'[d] = pc[d] /\ Holding(d)
  BY DEF ActsIn, Keeps, Holding
<1>2. Keeps(d) /\ Home(d)' = Home(d)
  BY <1>1, Stands DEF Keeps
<1>3. data[Home(d)].lease = d
  BY <1>2 DEF LeaseKept
<1>4. CASE Home(d) = s
  <2>1. d # None
    OBVIOUS
  <2> QED BY <1>2, <1>3, <1>4, <2>1 DEF TakesFairly
<1>5. CASE Home(d) # s
  <2>1. Home(d) \in Stores
    BY StoreOf DEF Home
  <2> QED BY <1>2, <1>3, <1>5, <2>1 DEF ActsIn
<1> QED BY <1>4, <1>5

\* What a call's own pair must be.
Pair(c) ==
    /\ pc[c] \in GrantWork \ {"key", "renewKey", "putKey"} =>
          data[Home(c)].key = key[c] /\ cached[TabOf[c]] = key[c]
    /\ pc[c] \in {"confirm", "release"} /\ kind[c] = "grant" =>
          data[Home(c)].key = got[c] /\ data[Home(c)].session = got[c] /\ cached[TabOf[c]] = got[c]

\* A call's step keeps the records of the others, if it writes where it may.
LEMMA ActsPairs ==
    ASSUME TypeOK, Opened, LeaseKept, PairKept, Untouched',
           NEW c \in Calls, NEW s, ActsIn(c, s), MayWrite(c, s),
           (Holding(c) /\ Undisturbed(c))' => Pair(c)'
    PROVE  PairKept'
<1> SUFFICES ASSUME NEW d \in Calls, d # c, (Holding(d) /\ Undisturbed(d))' PROVE Pair(d)'
  BY DEF PairKept, Pair
<1>1. pc'[d] = pc[d] /\ key'[d] = key[d] /\ got'[d] = got[d] /\ kind' = kind /\ Holding(d)
  BY DEF ActsIn, Holding
<1>2. Undisturbed(d) /\ Home(d)' = Home(d) /\ (TabOf[d] = TabOf[c] => s = Home(d))
  BY <1>1, Stands
<1>3. Pair(d) /\ data[Home(d)].lease = d
  BY <1>1, <1>2 DEF PairKept, Pair, LeaseKept, Keeps
<1>4. Home(d) \in Stores /\ d # None /\ TabOf[d] \in Tabs
  BY StoreOf DEF Home
<1>5. CASE Home(d) # s
  <2>1. data'[Home(d)] = data[Home(d)] /\ cached'[TabOf[d]] = cached[TabOf[d]]
    BY <1>2, <1>4, <1>5 DEF ActsIn
  <2> QED BY <1>1, <1>2, <1>3, <2>1 DEF Pair
<1>6. CASE Home(d) = s
  <2>1. ~(Holding(c)' /\ moved'[c] = "interrupted" /\ ~primary'[TabOf[c]])
    <3>1. SUFFICES ASSUME Holding(c)', moved'[c] = "interrupted", ~primary'[TabOf[c]] PROVE FALSE
      OBVIOUS
    <3>2. s = Home(c)'
      <4>1. ServedBy(TabOf[c], s) /\ TabOf[c] \in Tabs
        BY DEF ActsIn
      <4> QED BY <3>1, <4>1, Served DEF Home, TypeOK
    <3>3. TabOf[d] = TabOf[c] /\ ~primary'[TabOf[d]]
      BY <1>2, <1>4, <1>6, <3>1, <3>2 DEF Home
    <3>4. moved'[d] = "no"
      BY <3>3 DEF Undisturbed
    <3> QED BY <3>1, <3>3, <3>4 DEF Untouched
  <2>2. LeavesRecords(c, s)
    BY <1>3, <1>4, <1>6, <2>1 DEF MayWrite
  <2>3. cached'[TabOf[d]] = cached[TabOf[d]]
    BY <1>4, <2>2 DEF LeavesRecords, ActsIn
  <2> QED BY <1>1, <1>2, <1>3, <1>6, <2>2, <2>3 DEF Pair, LeavesRecords
<1> QED BY <1>5, <1>6

\* What a call's own work must be.
Work(c) ==
    /\ pc[c] \in GrantWork => kind[c] = "grant"
    /\ pc[c] \in {"renewClear", "clear"} => kind[c] = "clear"
    /\ pc[c] \in GrantWork \ {"key"} => key[c] # None

\* An operation keeps the invariant if it keeps the types, the lease fairly, the records where it
\* may write them, and what concerns its own call.
LEMMA ActsInv ==
    ASSUME StoresInv, NEW c \in Calls, NEW s, ActsIn(c, s), TakesFairly(c, s), MayWrite(c, s),
           TypeOK', Work(c)', Keeps(c)' => data'[Home(c)'].lease = c,
           (Holding(c) /\ Undisturbed(c))' => Pair(c)'
    PROVE  StoresInv'
<1>1. TypeOK /\ KindIsTrue /\ Opened /\ Untouched /\ HasWork /\ LeaseKept /\ PairKept
  BY DEF StoresInv
<1>2. Opened' /\ Untouched' /\ LeaseKept'
  BY <1>1, ActsOpened, ActsUntouched, ActsLeases
<1>3. PairKept'
  BY <1>1, <1>2, ActsPairs
<1>4. HasWork'
  <2> SUFFICES ASSUME NEW d \in Calls, d # c PROVE Work(d)'
    BY DEF HasWork, Work
  <2>1. pc'[d] = pc[d] /\ key'[d] = key[d] /\ kind' = kind
    BY DEF ActsIn
  <2> QED BY <1>1, <2>1 DEF HasWork, Work
<1>5. KindIsTrue'
  <2> SUFFICES ASSUME NEW t \in Tabs, data'[t] # Empty PROVE ~primary'[t] /\ mode'[t] # "required"
    BY DEF KindIsTrue, Empty
  <2>1. TabOf[c] \in Tabs /\ ServedBy(TabOf[c], s) /\ mode' = mode
    BY DEF ActsIn
  <2>2. CASE t = s
    BY <1>1, <2>1, <2>2, Served DEF TypeOK
  <2>3. CASE t # s
    <3>1. data'[t] = data[t]
      BY <2>3, StoreOf DEF ActsIn
    <3>2. ~primary[t] /\ mode[t] # "required"
      BY <1>1, <3>1 DEF KindIsTrue
    <3> QED BY <1>1, <2>1, <3>2, Served DEF TypeOK
  <2> QED BY <2>2, <2>3
<1> QED BY <1>2, <1>3, <1>4, <1>5 DEF StoresInv

\* A holder that ends the operation undisturbed began it so, in the same store and with its pair.
LEMMA OwnPair ==
    ASSUME StoresInv, NEW c \in Calls, NEW s, ActsIn(c, s), Holding(c), Undisturbed(c)'
    PROVE  Undisturbed(c) /\ Home(c) = s /\ Home(c)' = s /\ data[s].lease = c /\ Pair(c)
<1>1. TypeOK /\ Opened /\ LeaseKept /\ PairKept
  BY DEF StoresInv
<1>2. Undisturbed(c) /\ Home(c)' = Home(c) /\ s = Home(c)'
  BY <1>1, Stands
<1> QED BY <1>1, <1>2 DEF LeaseKept, Keeps, PairKept, Pair

\* A call that holds a lease acts in the store where it holds it.
LEMMA OwnLease ==
    ASSUME StoresInv, NEW c \in Calls, NEW s, ActsIn(c, s), Holding(c), Keeps(c)',
           pc[c] \notin {"network", "renewSession", "releaseFailed"}
    PROVE  Home(c)' = s /\ data[s].lease = c
<1>1. TypeOK /\ Opened /\ LeaseKept
  BY DEF StoresInv
<1>2. Home(c)' = s /\ Home(c)' = Home(c) /\ Keeps(c)
  BY <1>1, Stands DEF Keeps
<1> QED BY <1>1, <1>2 DEF LeaseKept

\* Records are written only by a call that has the lease or was interrupted.
LEMMA WritesAlone ==
    ASSUME StoresInv, NEW c \in Calls, NEW s, ActsIn(c, s), Holding(c), Holding(c)',
           pc[c] \notin {"network", "renewSession", "releaseFailed"}
    PROVE  MayWrite(c, s)
  BY Alone DEF StoresInv, ActsIn, MayWrite

-------------------------------------------------------------------------------
(* The operations.                                                             *)

\* The types of what every operation leaves alone.
LEMMA Rest ==
    ASSUME TypeOK, NEW c \in Calls, NEW s, ServedBy(TabOf[c], s),
           UNCHANGED <<mode, kind>>, data' \in [Stores -> Records], pc' \in [Calls -> Places],
           cached' \in [Tabs -> Keys \cup {None}], key' \in [Calls -> Keys \cup {None}],
           got' \in [Calls -> Keys \cup {None}], todo' \in [Calls -> SUBSET {"key", "session"}]
    PROVE  TypeOK'
<1>1. TabOf[c] \in Tabs
  OBVIOUS
<1>2. mode' \in [Tabs -> {"required", "allow-memory", "memory"}] /\ kind' \in [Calls -> {"grant", "clear"}]
  BY DEF TypeOK
<1> QED BY <1>1, <1>2, ServedType DEF TypeOK, Records, Places

\* ask: a lease is granted only when nobody else has it (tryAcquireMutationLease).
LEMMA AskInv == ASSUME StoresInv, NEW c \in Calls, Ask(c) PROVE StoresInv'
<1>1. PICK s \in Stores :
         /\ ServedBy(TabOf[c], s)
         /\ IF Owns(c, s)
            THEN Put(s, "lease", c) /\ Goto(c, IF kind[c] = "grant" THEN "key" ELSE "renewClear")
            ELSE UNCHANGED <<data, pc>>
  BY DEF Ask
<1>2. pc[c] = "asking" /\ UNCHANGED <<mode, kind, cached, key, got, todo>> /\ TypeOK
  BY DEF Ask, StoresInv
<1>3. /\ data \in [Stores -> Records] /\ pc \in [Calls -> Places]
      /\ cached \in [Tabs -> Keys \cup {None}] /\ key \in [Calls -> Keys \cup {None}]
      /\ got \in [Calls -> Keys \cup {None}] /\ todo \in [Calls -> SUBSET {"key", "session"}]
      /\ kind[c] \in {"grant", "clear"}
  BY <1>2 DEF TypeOK, Records, Places
<1>4. CASE Owns(c, s)
  <2> DEFINE where == IF kind[c] = "grant" THEN "key" ELSE "renewClear"
  <2>1. where \in Places /\ where \in Inside /\ Put(s, "lease", c) /\ Goto(c, where)
    BY <1>1, <1>4 DEF Places, Inside
  <2>2. /\ data' \in [Stores -> Records] /\ \A r \in Stores \ {s} : data'[r] = data[r]
        /\ data'[s].lease = c /\ data'[s].key = data[s].key /\ data'[s].session = data[s].session
    BY <1>2, <2>1, PutType
  <2>3. /\ pc' \in [Calls -> Places] /\ pc'[c] = where
        /\ \A d \in Calls \ {c} : pc'[d] = pc[d]
    BY <1>2, <2>1, GotoType
  <2>4. TypeOK'
    BY <1>1, <1>2, <1>3, <2>2, <2>3, Rest
  <2>5. ActsIn(c, s)
    BY <1>1, <1>2, <2>1, <2>2, <2>3 DEF ActsIn
  <2>6. TakesFairly(c, s) /\ MayWrite(c, s)
    BY <1>2, <1>4, <2>2 DEF TakesFairly, MayWrite, LeavesRecords, Owns
  <2>7. Work(c)' /\ Pair(c)'
    BY <1>2, <1>3, <2>3 DEF Work, Pair, GrantWork
  <2>8. Home(c)' = s
    BY <1>1, <1>2, Served DEF Home, TypeOK
  <2> QED BY <2>2, <2>4, <2>5, <2>6, <2>7, <2>8, ActsInv
<1>5. CASE ~Owns(c, s)
  <2>1. UNCHANGED <<data, pc>>
    BY <1>1, <1>5
  <2>2. TypeOK'
    BY <1>1, <1>2, <1>3, <2>1, Rest
  <2>3. ActsIn(c, s) /\ TakesFairly(c, s) /\ MayWrite(c, s)
    BY <1>1, <1>2, <2>1 DEF ActsIn, TakesFairly, MayWrite, LeavesRecords
  <2>4. ~Holding(c)' /\ Work(c)'
    BY <1>2, <2>1 DEF Holding, Inside, Releasing, Work, GrantWork
  <2> QED BY <2>2, <2>3, <2>4, ActsInv DEF Keeps
<1> QED BY <1>4, <1>5

\* renew: it finds the lease its own or fails the call.
LEMMA RenewInv == ASSUME StoresInv, NEW c \in Calls, Renew(c) PROVE StoresInv'
<1>1. PICK s \in Stores :
         /\ ServedBy(TabOf[c], s)
         /\ IF Owns(c, s) THEN Put(s, "lease", c) /\ Goto(c, After(pc[c]))
                          ELSE UNCHANGED data /\ Goto(c, "releaseFailed")
  BY DEF Renew
<1>2. /\ pc[c] \in {"renewKey", "renewDrop", "renewSession", "renewClear", "confirm"}
      /\ UNCHANGED <<mode, kind, cached, key, got>> /\ TypeOK
  BY DEF Renew, StoresInv
<1>3. /\ data \in [Stores -> Records] /\ data' \in [Stores -> Records]
      /\ \A r \in Stores \ {s} : data'[r] = data[r]
      /\ data'[s].key = data[s].key /\ data'[s].session = data[s].session
      /\ IF Owns(c, s) THEN data'[s].lease = c ELSE data' = data
  <2>1. data \in [Stores -> Records]
    BY <1>2 DEF TypeOK, Records
  <2>2. CASE Owns(c, s)
    BY <1>1, <1>2, <2>1, <2>2, PutType
  <2>3. CASE ~Owns(c, s)
    BY <1>1, <2>1, <2>3
  <2> QED BY <2>1, <2>2, <2>3
<1>4. /\ pc' \in [Calls -> Places] /\ \A d \in Calls \ {c} : pc'[d] = pc[d]
      /\ pc'[c] = IF Owns(c, s) THEN After(pc[c]) ELSE "releaseFailed"
  <2>1. After(pc[c]) \in Places /\ "releaseFailed" \in Places
    BY <1>2 DEF After, Places, Inside, Releasing
  <2> QED BY <1>1, <1>2, <2>1, GotoType
<1>5. /\ cached' \in [Tabs -> Keys \cup {None}] /\ key' \in [Calls -> Keys \cup {None}]
      /\ got' \in [Calls -> Keys \cup {None}] /\ todo' \in [Calls -> SUBSET {"key", "session"}]
  BY <1>2 DEF TypeOK, Renew
<1>6. TypeOK'
  BY <1>1, <1>2, <1>3, <1>4, <1>5, Rest
<1>7. Holding(c) /\ Holding(c)' /\ ActsIn(c, s)
  BY <1>1, <1>2, <1>3, <1>4 DEF Holding, ActsIn, After, Inside, Releasing
<1>8. TakesFairly(c, s) /\ MayWrite(c, s)
  BY <1>2, <1>3 DEF TakesFairly, MayWrite, LeavesRecords, Owns
<1>9. Work(c)'
  BY <1>2, <1>4 DEF StoresInv, HasWork, Work, GrantWork, After
<1>10. ASSUME Keeps(c)' PROVE data'[Home(c)'].lease = c
  <2>1. Home(c)' = s
    BY <1>2, <1>7, <1>10, Stands DEF StoresInv
  <2>2. CASE Owns(c, s)
    BY <1>3, <2>1, <2>2
  <2>3. CASE ~Owns(c, s)
    <3>1. Undisturbed(c)'
      BY <1>4, <1>10, <2>3 DEF Keeps
    <3>2. data[s].lease = c
      BY <1>7, <3>1, OwnPair
    <3> QED BY <2>3, <3>2 DEF Owns
  <2> QED BY <2>2, <2>3
<1>11. ASSUME Undisturbed(c)' PROVE Pair(c)'
  <2>1. Home(c) = s /\ Home(c)' = s /\ data[s].lease = c /\ Pair(c)
    BY <1>7, <1>11, OwnPair
  <2>2. pc'[c] = After(pc[c])
    BY <1>4, <2>1 DEF Owns
  <2> QED BY <1>2, <1>3, <2>1, <2>2 DEF Pair, GrantWork, After
<1> QED BY <1>6, <1>7, <1>8, <1>9, <1>10, <1>11, ActsInv

\* The heartbeat renews what it owns and leaves the rest.
LEMMA HeartbeatInv == ASSUME StoresInv, NEW c \in Calls, Heartbeat(c) PROVE StoresInv'
<1>1. PICK s \in Stores :
         ServedBy(TabOf[c], s) /\ IF Owns(c, s) THEN Put(s, "lease", c) ELSE UNCHANGED data
  BY DEF Heartbeat
<1>2. Holding(c) /\ UNCHANGED <<mode, kind, cached, pc, key, got, todo>> /\ TypeOK
  BY DEF Heartbeat, StoresInv, Holding
<1>3. /\ data' \in [Stores -> Records]
      /\ \A r \in Stores \ {s} : data'[r] = data[r]
      /\ data'[s].key = data[s].key /\ data'[s].session = data[s].session
      /\ IF Owns(c, s) THEN data'[s].lease = c ELSE data' = data
  <2>1. data \in [Stores -> Records]
    BY <1>2 DEF TypeOK, Records
  <2>2. CASE Owns(c, s)
    BY <1>1, <1>2, <2>1, <2>2, PutType
  <2>3. CASE ~Owns(c, s)
    BY <1>1, <2>1, <2>3
  <2> QED BY <2>2, <2>3
<1>4. TypeOK'
  <2>1. /\ cached' \in [Tabs -> Keys \cup {None}] /\ key' \in [Calls -> Keys \cup {None}]
        /\ got' \in [Calls -> Keys \cup {None}] /\ todo' \in [Calls -> SUBSET {"key", "session"}]
        /\ pc' \in [Calls -> Places]
    BY <1>2 DEF TypeOK, Places
  <2> QED BY <1>1, <1>2, <1>3, <2>1, Rest
<1>5. ActsIn(c, s)
  BY <1>1, <1>2, <1>3 DEF ActsIn
<1>6. TakesFairly(c, s) /\ MayWrite(c, s)
  BY <1>2, <1>3 DEF TakesFairly, MayWrite, LeavesRecords, Owns
<1>7. Work(c)'
  BY <1>2 DEF StoresInv, HasWork, Work
<1>8. ASSUME Keeps(c)' PROVE data'[Home(c)'].lease = c
  <2>1. Home(c)' = s /\ Home(c)' = Home(c) /\ Keeps(c)
    BY <1>2, <1>5, <1>8, Stands DEF StoresInv, Keeps
  <2>2. data[s].lease = c
    BY <2>1 DEF StoresInv, LeaseKept
  <2> QED BY <1>3, <2>1, <2>2
<1>9. ASSUME Undisturbed(c)' PROVE Pair(c)'
  <2>1. Home(c) = s /\ Home(c)' = s /\ Pair(c)
    BY <1>2, <1>5, <1>9, OwnPair
  <2> QED BY <1>2, <1>3, <2>1 DEF Pair
<1> QED BY <1>4, <1>5, <1>6, <1>7, <1>8, <1>9, ActsInv

\* A holder's operation on records: it leaves the leases alone, and goes on to its next place.
RecordsOnly(c, s) ==
    /\ data' \in [Stores -> Records]
    /\ \A r \in Stores \ {s} : data'[r] = data[r]
    /\ data'[s].lease = data[s].lease

\* A step that only writes records under the lease keeps the invariant.
LEMMA RecordsInv ==
    ASSUME StoresInv, NEW c \in Calls, NEW s, ActsIn(c, s), RecordsOnly(c, s), Holding(c), Holding(c)',
           pc[c] \notin {"network", "renewSession", "releaseFailed"}, TypeOK', Work(c)',
           Undisturbed(c)' /\ Home(c) = s /\ Home(c)' = s /\ Pair(c) => Pair(c)'
    PROVE  StoresInv'
<1>1. TakesFairly(c, s) /\ MayWrite(c, s)
  BY WritesAlone DEF TakesFairly, RecordsOnly
<1>2. Keeps(c)' => data'[Home(c)'].lease = c
  BY OwnLease DEF RecordsOnly
<1>3. Undisturbed(c)' => Pair(c)'
  BY OwnPair
<1> QED BY <1>1, <1>2, <1>3, ActsInv

\* loadInstallation: the key the store has becomes the call's and the tab's, or one is made.
LEMMA LoadKeyInv == ASSUME StoresInv, NEW c \in Calls, LoadKey(c) PROVE StoresInv'
<1>1. PICK s \in Stores :
         /\ ServedBy(TabOf[c], s)
         /\ IF data[s].key # None
            THEN /\ key' = [key EXCEPT ![c] = data[s].key]
                 /\ cached' = [cached EXCEPT ![TabOf[c]] = data[s].key]
                 /\ Goto(c, "load")
            ELSE /\ \E k \in Keys : FreshKey(k) /\ key' = [key EXCEPT ![c] = k]
                 /\ cached' = [cached EXCEPT ![TabOf[c]] = None]
                 /\ Goto(c, "renewKey")
  BY DEF LoadKey
<1>2. pc[c] = "key" /\ UNCHANGED <<data, mode, kind, got, todo>> /\ TypeOK /\ kind[c] = "grant"
  BY DEF LoadKey, StoresInv, HasWork, GrantWork
<1>3. data[s].key \in Keys \cup {None} /\ TabOf[c] \in Tabs /\ None \notin Keys
  BY <1>2 DEF TypeOK, Keys
<1>4. PICK where \in {"load", "renewKey"} : Goto(c, where) /\ (where = "load" <=> data[s].key # None)
  BY <1>1
<1>5. /\ pc' \in [Calls -> Places] /\ pc'[c] = where /\ \A d \in Calls \ {c} : pc'[d] = pc[d]
  <2>1. where \in Places
    BY DEF Places, Inside
  <2> QED BY <1>2, <1>4, <2>1, GotoType
<1>6. \E k \in Keys : key' = [key EXCEPT ![c] = k] /\ (data[s].key # None => k = data[s].key)
  BY <1>1, <1>3
<1>7. /\ key' \in [Calls -> Keys \cup {None}] /\ key'[c] # None
      /\ data[s].key # None => key'[c] = data[s].key
      /\ \A d \in Calls \ {c} : key'[d] = key[d]
  BY <1>2, <1>3, <1>6 DEF TypeOK
<1>8. cached' = [cached EXCEPT ![TabOf[c]] = data[s].key]
  BY <1>1
<1>9. /\ cached' \in [Tabs -> Keys \cup {None}] /\ cached'[TabOf[c]] = data[s].key
      /\ \A t \in Tabs \ {TabOf[c]} : cached'[t] = cached[t]
  BY <1>2, <1>3, <1>8 DEF TypeOK
<1>10. TypeOK'
  <2>1. /\ data' \in [Stores -> Records] /\ got' \in [Calls -> Keys \cup {None}]
        /\ todo' \in [Calls -> SUBSET {"key", "session"}]
    BY <1>2 DEF TypeOK, Records
  <2> QED BY <1>1, <1>2, <1>5, <1>7, <1>9, <2>1, Rest
<1>11. Holding(c) /\ Holding(c)' /\ ActsIn(c, s) /\ RecordsOnly(c, s)
  BY <1>1, <1>2, <1>5, <1>7, <1>9, <1>10 DEF Holding, ActsIn, RecordsOnly, Inside, TypeOK, Records
<1>12. Work(c)'
  BY <1>2, <1>5, <1>7 DEF Work, GrantWork
<1>13. ASSUME Home(c)' = s PROVE Pair(c)'
  BY <1>2, <1>4, <1>5, <1>7, <1>9, <1>13 DEF Pair, GrantWork
<1> QED BY <1>2, <1>10, <1>11, <1>12, <1>13, RecordsInv

\* saveInstallation: the call's key is then the store's and the tab's.
LEMMA SaveKeyInv == ASSUME StoresInv, NEW c \in Calls, SaveKey(c) PROVE StoresInv'
<1>1. PICK s \in Stores : ServedBy(TabOf[c], s) /\ Put(s, "key", key[c])
  BY DEF SaveKey
<1>2. /\ pc[c] = "putKey" /\ cached' = [cached EXCEPT ![TabOf[c]] = key[c]] /\ Goto(c, "load")
      /\ UNCHANGED <<mode, kind, key, got, todo>> /\ TypeOK /\ kind[c] = "grant" /\ key[c] # None
  BY DEF SaveKey, StoresInv, HasWork, GrantWork
<1>3. key[c] \in Keys \cup {None} /\ TabOf[c] \in Tabs
  BY <1>2 DEF TypeOK
<1>4. /\ data' \in [Stores -> Records] /\ \A r \in Stores \ {s} : data'[r] = data[r]
      /\ data'[s].lease = data[s].lease /\ data'[s].key = key[c]
  BY <1>1, <1>2, <1>3, PutType
<1>5. pc' \in [Calls -> Places] /\ pc'[c] = "load" /\ \A d \in Calls \ {c} : pc'[d] = pc[d]
  <2>1. "load" \in Places
    BY DEF Places, Inside
  <2> QED BY <1>2, <2>1, GotoType
<1>6. /\ cached' \in [Tabs -> Keys \cup {None}] /\ cached'[TabOf[c]] = key[c]
      /\ \A t \in Tabs \ {TabOf[c]} : cached'[t] = cached[t]
  BY <1>2, <1>3 DEF TypeOK
<1>7. TypeOK'
  <2>1. /\ key' \in [Calls -> Keys \cup {None}] /\ got' \in [Calls -> Keys \cup {None}]
        /\ todo' \in [Calls -> SUBSET {"key", "session"}]
    BY <1>2 DEF TypeOK
  <2> QED BY <1>1, <1>2, <1>4, <1>5, <1>6, <2>1, Rest
<1>8. Holding(c) /\ Holding(c)' /\ ActsIn(c, s) /\ RecordsOnly(c, s)
  BY <1>1, <1>2, <1>4, <1>5, <1>6 DEF Holding, ActsIn, RecordsOnly, Inside
<1>9. Work(c)'
  BY <1>2, <1>5 DEF Work, GrantWork
<1>10. ASSUME Home(c)' = s PROVE Pair(c)'
  BY <1>2, <1>4, <1>5, <1>6, <1>10 DEF Pair, GrantWork
<1> QED BY <1>2, <1>7, <1>8, <1>9, <1>10, RecordsInv

\* loadSession: what is returned as it is, is bound to the key.
LEMMA LoadSessionInv == ASSUME StoresInv, NEW c \in Calls, LoadSession(c) PROVE StoresInv'
<1>1. PICK s \in Stores :
         /\ ServedBy(TabOf[c], s)
         /\ \/ /\ Accepts(c, data[s].session) /\ Goto(c, "confirm")
               /\ got' = [got EXCEPT ![c] = data[s].session]
            \/ data[s].session \in {None, key[c]} /\ Goto(c, "network") /\ UNCHANGED got
            \/ data[s].session # None /\ Goto(c, "renewDrop") /\ UNCHANGED got
  BY DEF LoadSession
<1>2. /\ pc[c] = "load" /\ UNCHANGED <<data, mode, kind, cached, key, todo>> /\ TypeOK
      /\ kind[c] = "grant" /\ key[c] # None
  BY DEF LoadSession, StoresInv, HasWork, GrantWork
<1>3. data[s].session \in Keys \cup {None} /\ data \in [Stores -> Records]
  BY <1>2 DEF TypeOK, Records
<1>4. PICK where \in {"confirm", "network", "renewDrop"} :
         /\ Goto(c, where)
         /\ \/ /\ where = "confirm" /\ got' = [got EXCEPT ![c] = data[s].session]
               /\ data[s].session = key[c]
            \/ where # "confirm" /\ got' = got
  BY <1>1 DEF Accepts
<1>5. pc' \in [Calls -> Places] /\ pc'[c] = where /\ \A d \in Calls \ {c} : pc'[d] = pc[d]
  <2>1. where \in Places
    BY DEF Places, Inside
  <2> QED BY <1>2, <1>4, <2>1, GotoType
<1>6. /\ got' \in [Calls -> Keys \cup {None}] /\ \A d \in Calls \ {c} : got'[d] = got[d]
      /\ where = "confirm" => got'[c] = key[c] /\ data[s].session = key[c]
  BY <1>2, <1>3, <1>4 DEF TypeOK
<1>7. TypeOK'
  <2>1. /\ cached' \in [Tabs -> Keys \cup {None}] /\ key' \in [Calls -> Keys \cup {None}]
        /\ data' \in [Stores -> Records] /\ todo' \in [Calls -> SUBSET {"key", "session"}]
    BY <1>2, <1>3 DEF TypeOK
  <2> QED BY <1>1, <1>2, <1>5, <1>6, <2>1, Rest
<1>8. Holding(c) /\ Holding(c)' /\ ActsIn(c, s) /\ RecordsOnly(c, s)
  BY <1>1, <1>2, <1>3, <1>5, <1>6 DEF Holding, ActsIn, RecordsOnly, Inside
<1>9. Work(c)'
  BY <1>2, <1>5 DEF Work, GrantWork
<1>10. ASSUME Home(c) = s, Home(c)' = s, Pair(c) PROVE Pair(c)'
  <2>1. data[s].key = key[c] /\ cached[TabOf[c]] = key[c]
    BY <1>2, <1>10 DEF Pair, GrantWork
  <2> QED BY <1>2, <1>5, <1>6, <1>10, <2>1 DEF Pair, GrantWork
<1> QED BY <1>2, <1>7, <1>8, <1>9, <1>10, RecordsInv

\* Deleting the session keeps it.
LEMMA DropSessionInv == ASSUME StoresInv, NEW c \in Calls, DropSession(c) PROVE StoresInv'
<1>1. PICK s \in Stores : ServedBy(TabOf[c], s) /\ Put(s, "session", None)
  BY DEF DropSession
<1>2. /\ pc[c] = "drop" /\ Goto(c, "network") /\ UNCHANGED <<mode, kind, cached, key, got, todo>>
      /\ TypeOK /\ kind[c] = "grant" /\ key[c] # None
  BY DEF DropSession, StoresInv, HasWork, GrantWork
<1>3. /\ data' \in [Stores -> Records] /\ \A r \in Stores \ {s} : data'[r] = data[r]
      /\ data'[s].lease = data[s].lease /\ data'[s].key = data[s].key
  BY <1>1, <1>2, PutType
<1>4. pc' \in [Calls -> Places] /\ pc'[c] = "network" /\ \A d \in Calls \ {c} : pc'[d] = pc[d]
  <2>1. "network" \in Places
    BY DEF Places, Inside
  <2> QED BY <1>2, <2>1, GotoType
<1>5. TypeOK'
  <2>1. /\ cached' \in [Tabs -> Keys \cup {None}] /\ key' \in [Calls -> Keys \cup {None}]
        /\ got' \in [Calls -> Keys \cup {None}] /\ todo' \in [Calls -> SUBSET {"key", "session"}]
    BY <1>2 DEF TypeOK
  <2> QED BY <1>1, <1>2, <1>3, <1>4, <2>1, Rest
<1>6. Holding(c) /\ Holding(c)' /\ ActsIn(c, s) /\ RecordsOnly(c, s)
  BY <1>1, <1>2, <1>3, <1>4 DEF Holding, ActsIn, RecordsOnly, Inside
<1>7. Work(c)'
  BY <1>2, <1>4 DEF Work, GrantWork
<1>8. ASSUME Home(c) = s, Home(c)' = s, Pair(c) PROVE Pair(c)'
  BY <1>2, <1>3, <1>4, <1>8 DEF Pair, GrantWork
<1> QED BY <1>2, <1>5, <1>6, <1>7, <1>8, RecordsInv

\* saveSession: the session is bound to the key the store and the tab have.
LEMMA SaveSessionInv == ASSUME StoresInv, NEW c \in Calls, SaveSession(c) PROVE StoresInv'
<1>1. PICK s \in Stores : ServedBy(TabOf[c], s) /\ Put(s, "session", key[c])
  BY DEF SaveSession
<1>2. /\ pc[c] = "putSession" /\ got' = [got EXCEPT ![c] = key[c]] /\ Goto(c, "confirm")
      /\ UNCHANGED <<mode, kind, cached, key, todo>>
      /\ TypeOK /\ kind[c] = "grant" /\ key[c] # None
  BY DEF SaveSession, StoresInv, HasWork, GrantWork
<1>3. key[c] \in Keys \cup {None}
  BY <1>2 DEF TypeOK
<1>4. /\ data' \in [Stores -> Records] /\ \A r \in Stores \ {s} : data'[r] = data[r]
      /\ data'[s].lease = data[s].lease /\ data'[s].key = data[s].key /\ data'[s].session = key[c]
  BY <1>1, <1>2, <1>3, PutType
<1>5. pc' \in [Calls -> Places] /\ pc'[c] = "confirm" /\ \A d \in Calls \ {c} : pc'[d] = pc[d]
  <2>1. "confirm" \in Places
    BY DEF Places, Inside
  <2> QED BY <1>2, <2>1, GotoType
<1>6. got' \in [Calls -> Keys \cup {None}] /\ got'[c] = key[c] /\ \A d \in Calls \ {c} : got'[d] = got[d]
  BY <1>2, <1>3 DEF TypeOK
<1>7. TypeOK'
  <2>1. /\ cached' \in [Tabs -> Keys \cup {None}] /\ key' \in [Calls -> Keys \cup {None}]
        /\ todo' \in [Calls -> SUBSET {"key", "session"}]
    BY <1>2 DEF TypeOK
  <2> QED BY <1>1, <1>2, <1>4, <1>5, <1>6, <2>1, Rest
<1>8. Holding(c) /\ Holding(c)' /\ ActsIn(c, s) /\ RecordsOnly(c, s)
  BY <1>1, <1>2, <1>4, <1>5, <1>6 DEF Holding, ActsIn, RecordsOnly, Inside
<1>9. Work(c)'
  BY <1>5 DEF Work, GrantWork
<1>10. ASSUME Home(c) = s, Home(c)' = s, Pair(c) PROVE Pair(c)'
  <2>1. data[s].key = key[c] /\ cached[TabOf[c]] = key[c]
    BY <1>2, <1>10 DEF Pair, GrantWork
  <2> QED BY <1>2, <1>4, <1>5, <1>6, <1>10, <2>1 DEF Pair, GrantWork
<1> QED BY <1>2, <1>7, <1>8, <1>9, <1>10, RecordsInv

\* clearInstallation: it deletes what no grant works on.
LEMMA ClearRecordInv == ASSUME StoresInv, NEW c \in Calls, ClearRecord(c) PROVE StoresInv'
<1>1. PICK f \in todo[c], s \in Stores :
         ServedBy(TabOf[c], s) /\ Put(s, f, None) /\ todo' = [todo EXCEPT ![c] = @ \ {f}]
  BY DEF ClearRecord
<1>2. /\ pc[c] = "clear" /\ UNCHANGED <<mode, kind, key, got>> /\ TypeOK /\ kind[c] = "clear"
      /\ \/ cached' = [cached EXCEPT ![TabOf[c]] = None] /\ Goto(c, "confirm")
         \/ UNCHANGED <<cached, pc>>
  BY DEF ClearRecord, StoresInv, HasWork, GrantWork
<1>3. f \in {"key", "session"} /\ todo' \in [Calls -> SUBSET {"key", "session"}]
  BY <1>1, <1>2 DEF TypeOK
<1>4. /\ data' \in [Stores -> Records] /\ \A r \in Stores \ {s} : data'[r] = data[r]
      /\ data'[s].lease = data[s].lease
  BY <1>1, <1>2, <1>3, PutType
<1>5. pc' \in [Calls -> Places] /\ pc'[c] \in {"clear", "confirm"} /\ \A d \in Calls \ {c} : pc'[d] = pc[d]
  <2>1. CASE Goto(c, "confirm")
    <3>1. "confirm" \in Places
      BY DEF Places, Inside
    <3> QED BY <1>2, <2>1, <3>1, GotoType
  <2>2. CASE pc' = pc
    BY <1>2, <2>2 DEF TypeOK, Places
  <2> QED BY <1>2, <2>1, <2>2
<1>6. /\ cached' \in [Tabs -> Keys \cup {None}]
      /\ \A t \in Tabs \ {TabOf[c]} : cached'[t] = cached[t]
  BY <1>2 DEF TypeOK
<1>7. TypeOK'
  <2>1. key' \in [Calls -> Keys \cup {None}] /\ got' \in [Calls -> Keys \cup {None}]
    BY <1>2 DEF TypeOK
  <2> QED BY <1>1, <1>2, <1>3, <1>4, <1>5, <1>6, <2>1, Rest
<1>8. Holding(c) /\ Holding(c)' /\ ActsIn(c, s) /\ RecordsOnly(c, s)
  BY <1>1, <1>2, <1>4, <1>5, <1>6 DEF Holding, ActsIn, RecordsOnly, Inside
<1>9. Work(c)' /\ Pair(c)'
  BY <1>2, <1>5 DEF Work, Pair, GrantWork
<1> QED BY <1>2, <1>7, <1>8, <1>9, RecordsInv

\* key() of proof(): it writes a key where nobody has a lease, and never for an undisturbed call.
LEMMA NestedKeyInv == ASSUME StoresInv, NEW c \in Calls, NestedKey(c) PROVE StoresInv'
<1>1. PICK s \in Stores, k \in Keys :
         /\ ServedBy(TabOf[c], s) /\ data[s].lease = None
         /\ Put(s, "key", k) /\ cached' = [cached EXCEPT ![TabOf[c]] = k]
  BY DEF NestedKey
<1>2. /\ pc[c] = "network" /\ cached[TabOf[c]] = None /\ UNCHANGED <<mode, kind, pc, key, got, todo>>
      /\ TypeOK /\ kind[c] = "grant" /\ key[c] # None
  BY DEF NestedKey, WaitsForKey, StoresInv, HasWork, GrantWork
<1>3. /\ data' \in [Stores -> Records] /\ \A r \in Stores \ {s} : data'[r] = data[r]
      /\ data'[s].lease = data[s].lease
  BY <1>1, <1>2, PutType
<1>4. /\ cached' \in [Tabs -> Keys \cup {None}]
      /\ \A t \in Tabs \ {TabOf[c]} : cached'[t] = cached[t]
  BY <1>1, <1>2 DEF TypeOK
<1>5. TypeOK'
  <2>1. /\ key' \in [Calls -> Keys \cup {None}] /\ got' \in [Calls -> Keys \cup {None}]
        /\ todo' \in [Calls -> SUBSET {"key", "session"}] /\ pc' \in [Calls -> Places]
    BY <1>2 DEF TypeOK, Places
  <2> QED BY <1>1, <1>2, <1>3, <1>4, <2>1, Rest
<1>6. Holding(c) /\ ActsIn(c, s)
  BY <1>1, <1>2, <1>3, <1>4 DEF Holding, ActsIn, Inside
<1>7. TakesFairly(c, s) /\ MayWrite(c, s) /\ Work(c)'
  BY <1>1, <1>2, <1>3 DEF TakesFairly, MayWrite, Work
<1>8. ~Undisturbed(c)'
  <2> SUFFICES ASSUME Undisturbed(c)' PROVE FALSE
    OBVIOUS
  <2>1. Pair(c)
    BY <1>6, OwnPair
  <2> QED BY <1>2, <2>1 DEF Pair, GrantWork
<1>9. ~Keeps(c)'
  BY <1>2, <1>8 DEF Keeps
<1> QED BY <1>5, <1>6, <1>7, <1>8, <1>9, ActsInv

\* releaseMutationLease: it gives up what the call owns and ends it.
LEMMA ReleaseInv == ASSUME StoresInv, NEW c \in Calls, Release(c) PROVE StoresInv'
<1>1. PICK s \in Stores :
         ServedBy(TabOf[c], s) /\ Put(s, "lease", IF data[s].lease = c THEN None ELSE data[s].lease)
  BY DEF Release
<1>2. PICK where \in {"done", "failed"} : Goto(c, where)
  BY DEF Release
<1>3. pc[c] \in Releasing /\ UNCHANGED <<mode, kind, cached, key, got, todo>> /\ TypeOK
  BY DEF Release, StoresInv
<1>4. data[s].lease \in Calls \cup {None}
  BY <1>3 DEF TypeOK
<1>5. /\ data' \in [Stores -> Records] /\ \A r \in Stores \ {s} : data'[r] = data[r]
      /\ data'[s].lease = IF data[s].lease = c THEN None ELSE data[s].lease
      /\ data'[s].key = data[s].key /\ data'[s].session = data[s].session
  BY <1>1, <1>3, <1>4, PutType
<1>6. pc' \in [Calls -> Places] /\ pc'[c] = where /\ \A d \in Calls \ {c} : pc'[d] = pc[d]
  <2>1. where \in Places
    BY DEF Places, Ended
  <2> QED BY <1>2, <1>3, <2>1, GotoType
<1>7. TypeOK'
  <2>1. /\ key' \in [Calls -> Keys \cup {None}] /\ got' \in [Calls -> Keys \cup {None}]
        /\ todo' \in [Calls -> SUBSET {"key", "session"}] /\ cached' \in [Tabs -> Keys \cup {None}]
    BY <1>3 DEF TypeOK
  <2> QED BY <1>1, <1>3, <1>5, <1>6, <2>1, Rest
<1>8. ActsIn(c, s) /\ ~Holding(c)'
  BY <1>1, <1>3, <1>5, <1>6 DEF Holding, ActsIn, Inside, Releasing, Ended
<1>9. TakesFairly(c, s) /\ MayWrite(c, s)
  BY <1>3, <1>5 DEF TakesFairly, MayWrite, LeavesRecords
<1>10. Work(c)' /\ ~Keeps(c)'
  BY <1>6, <1>8 DEF Work, Keeps, GrantWork
<1> QED BY <1>7, <1>8, <1>9, <1>10, ActsInv

\* A step that moves one call on without touching any record, lease or store.
LEMMA PlaceInv ==
    ASSUME StoresInv, NEW c \in Calls, NEW where, Goto(c, where),
           where \in {"releaseFailed", "failed"} \/ (pc[c] = "network" /\ where = "renewSession"),
           where # "failed" => Holding(c),
           handle' \in [Tabs -> {"none", "open", "closed", "rejected"}],
           \A d \in Calls : Holding(d) /\ primary[TabOf[d]] => handle'[TabOf[d]] = handle[TabOf[d]],
           UNCHANGED <<data, mode, kind, primary, cached, key, got, todo, moved>>
    PROVE  StoresInv'
<1>1. TypeOK /\ KindIsTrue /\ Opened /\ Untouched /\ HasWork /\ LeaseKept /\ PairKept
  BY DEF StoresInv
<1>2. pc' \in [Calls -> Places] /\ pc'[c] = where /\ \A d \in Calls \ {c} : pc'[d] = pc[d]
  <2>1. where \in Places
    BY DEF Places, Inside, Releasing, Ended
  <2> QED BY <1>1, <2>1, GotoType
<1>3. TypeOK'
  BY <1>1, <1>2 DEF TypeOK, Places
<1>4. \A d \in Calls : Home(d)' = Home(d) /\ (Holding(d)' => Holding(d))
  BY <1>2 DEF Home, Holding, Inside, Releasing
<1>5. \A d \in Calls : (Holding(d) /\ Undisturbed(d))' => Undisturbed(d)
  BY <1>4 DEF Undisturbed
<1>6. \A d \in Calls : Keeps(d)' => Keeps(d)
  <2> SUFFICES ASSUME NEW d \in Calls, Keeps(d)' PROVE Keeps(d)
    OBVIOUS
  <2>1. CASE Undisturbed(d)'
    BY <1>4, <1>5, <2>1 DEF Keeps
  <2>2. CASE ~Undisturbed(d)'
    <3>1. /\ Holding(d)' /\ ~primary'[TabOf[d]] /\ moved'[d] = "beside"
          /\ pc'[d] \notin {"network", "renewSession", "releaseFailed"}
      BY <2>2 DEF Keeps
    <3>2. d # c
      <4>1. ~Holding(c)' \/ pc'[c] \in {"renewSession", "releaseFailed"}
        BY <1>2 DEF Holding, Inside, Releasing
      <4> QED BY <3>1, <4>1
    <3>3. pc'[d] = pc[d]
      BY <1>2, <3>2
    <3> QED BY <1>4, <3>1, <3>3 DEF Keeps
  <2> QED BY <2>1, <2>2
<1>7. Opened'
  BY <1>1, <1>4 DEF Opened
<1>8. KindIsTrue'
  BY <1>1 DEF KindIsTrue, Empty
<1>9. Untouched'
  <2>1. \A d \in Calls : pc'[d] \in {"idle", "asking"} => pc'[d] = pc[d]
    BY <1>2
  <2> QED BY <1>1, <1>4, <2>1 DEF Untouched
<1>10. HasWork'
  BY <1>1, <1>2 DEF HasWork, GrantWork
<1>11. LeaseKept'
  BY <1>1, <1>4, <1>6 DEF LeaseKept
<1>12. PairKept'
  <2> SUFFICES ASSUME NEW d \in Calls, (Holding(d) /\ Undisturbed(d))' PROVE Pair(d)'
    BY DEF PairKept, Pair
  <2>1. Pair(d)
    BY <1>1, <1>4, <1>5 DEF PairKept, Pair
  <2>2. Home(d)' = Home(d)
    BY <1>4
  <2>3. CASE d = c
    BY <1>2, <2>1, <2>2, <2>3 DEF Pair, GrantWork
  <2>4. CASE d # c
    BY <1>2, <2>1, <2>2, <2>4 DEF Pair
  <2> QED BY <2>3, <2>4
<1> QED BY <1>3, <1>7, <1>8, <1>9, <1>10, <1>11, <1>12 DEF StoresInv

\* A request for the lease that is answered, either way, keeps it.
LEMMA AnsweredInv == ASSUME StoresInv, NEW c \in Calls, Granted(c) \/ NotGranted(c) PROVE StoresInv'
<1>1. PICK where \in {"renewSession", "releaseFailed"} : Goto(c, where)
  BY DEF Granted, NotGranted
<1>2. pc[c] = "network" /\ UNCHANGED <<data, handle, mode, kind, primary, cached, key, got, todo, moved>>
  BY DEF Granted, NotGranted
<1>3. Holding(c)
  BY <1>2 DEF Holding, Inside
<1>4. handle' \in [Tabs -> {"none", "open", "closed", "rejected"}]
  BY <1>2 DEF StoresInv, TypeOK
<1>5. UNCHANGED <<data, mode, kind, primary, cached, key, got, todo, moved>>
  BY <1>2
<1>6. where \in {"releaseFailed", "failed"} \/ (pc[c] = "network" /\ where = "renewSession")
  BY <1>1, <1>2
<1>7. \A d \in Calls : Holding(d) /\ primary[TabOf[d]] => handle'[TabOf[d]] = handle[TabOf[d]]
  BY <1>2
<1>8. Goto(c, where)
  BY <1>1
<1> QED BY <1>3, <1>4, <1>5, <1>6, <1>7, <1>8, PlaceInv

\* run, in mode required: the promise of the connection stays what it is once it is there.
LEMMA ThrowInv == ASSUME StoresInv, NEW c \in Calls, Throw(c) PROVE StoresInv'
<1>1. PICK h \in AfterFailure(handle[TabOf[c]]) : handle' = [handle EXCEPT ![TabOf[c]] = h]
  BY DEF Throw, Rejects
<1>2. PICK where \in {"releaseFailed", "failed"} :
         Goto(c, where) /\ (where = "releaseFailed" => pc[c] \in Inside)
  BY DEF Throw
<1>3. UNCHANGED <<data, mode, kind, primary, cached, key, got, todo, moved>>
  BY DEF Throw, Rejects
<1>4. where # "failed" => Holding(c)
  BY <1>2 DEF Holding
<1>5. TypeOK /\ Opened /\ TabOf[c] \in Tabs
  BY DEF StoresInv
<1>6. handle[TabOf[c]] # "none" => h = handle[TabOf[c]]
  BY <1>1 DEF AfterFailure
<1>7. handle[TabOf[c]] \in {"none", "open", "closed", "rejected"} /\ h \in {"none", "open", "closed", "rejected"}
  BY <1>1, <1>5 DEF AfterFailure, TypeOK
<1>8. handle' \in [Tabs -> {"none", "open", "closed", "rejected"}]
  BY <1>1, <1>5, <1>7 DEF TypeOK
<1>9. ASSUME NEW d \in Calls, Holding(d), primary[TabOf[d]]
      PROVE  handle'[TabOf[d]] = handle[TabOf[d]]
  <2>1. handle[TabOf[d]] # "none" /\ TabOf[d] \in Tabs
    BY <1>5, <1>9 DEF Opened
  <2> QED BY <1>1, <1>5, <1>6, <2>1 DEF TypeOK
<1>10. where \in {"releaseFailed", "failed"} \/ (pc[c] = "network" /\ where = "renewSession")
  BY <1>2
<1>11. \A d \in Calls : Holding(d) /\ primary[TabOf[d]] => handle'[TabOf[d]] = handle[TabOf[d]]
  BY <1>9
<1>12. Goto(c, where)
  BY <1>2
<1> QED BY <1>3, <1>4, <1>8, <1>10, <1>11, <1>12, PlaceInv

\* A call that starts beside an interrupted one is marked so.
LEMMA StartInv == ASSUME StoresInv, NEW c \in Calls, Start(c) PROVE StoresInv'
<1>1. TypeOK /\ KindIsTrue /\ Opened /\ Untouched /\ HasWork /\ LeaseKept /\ PairKept
  BY DEF StoresInv
<1>2. /\ pc[c] = "idle" /\ moved[c] = "no"
      /\ UNCHANGED <<data, handle, mode, kind, primary, cached, key, got, todo>>
      /\ moved' = [moved EXCEPT ![c] = IF Beside(TabOf[c], moved) THEN "beside" ELSE moved[c]]
  BY <1>1 DEF Start, Untouched
<1>3. pc' \in [Calls -> Places] /\ pc'[c] = "asking" /\ \A d \in Calls \ {c} : pc'[d] = pc[d]
  <2>1. "asking" \in Places /\ Goto(c, "asking")
    BY DEF Places, Start
  <2> QED BY <1>1, <2>1, GotoType
<1>4. /\ moved' \in [Calls -> {"no", "beside", "interrupted"}]
      /\ moved'[c] = IF Beside(TabOf[c], moved) THEN "beside" ELSE "no"
      /\ \A d \in Calls \ {c} : moved'[d] = moved[d]
  BY <1>1, <1>2 DEF TypeOK
<1>5. ~Holding(c) /\ ~Holding(c)'
  BY <1>2, <1>3 DEF Holding, Inside, Releasing
<1>6. \A d \in Calls : Holding(d)' <=> Holding(d)
  BY <1>3, <1>5 DEF Holding
<1>7. \A d \in Calls : Holding(d)' => d # c /\ pc'[d] = pc[d] /\ moved'[d] = moved[d]
  BY <1>3, <1>4, <1>5
<1>8. \A d \in Calls : Home(d)' = Home(d)
  BY <1>2 DEF Home
<1>9. \A d \in Calls : Holding(d)' => (Undisturbed(d)' <=> Undisturbed(d))
  BY <1>2, <1>7 DEF Undisturbed
<1>10. TypeOK'
  BY <1>1, <1>2, <1>3, <1>4 DEF TypeOK, Places
<1>11. KindIsTrue' /\ Opened'
  BY <1>1, <1>2, <1>6 DEF KindIsTrue, Empty, Opened
<1>12. Untouched'
  <2>1. ASSUME NEW d \in Calls, NEW e \in Calls, pc'[d] = "asking" \/ Holding(d)',
               TabOf[e] = TabOf[d], Holding(e)', moved'[e] = "interrupted"
        PROVE  moved'[d] # "no"
    <3>1. Holding(e) /\ moved[e] = "interrupted"
      BY <1>6, <1>7, <2>1
    <3>2. CASE d = c
      <4>1. Beside(TabOf[c], moved)
        BY <2>1, <3>1, <3>2 DEF Beside
      <4> QED BY <1>4, <3>2, <4>1
    <3>3. CASE d # c
      BY <1>1, <1>3, <1>4, <1>6, <2>1, <3>1, <3>3 DEF Untouched
    <3> QED BY <3>2, <3>3
  <2>2. ASSUME NEW d \in Calls
        PROVE  (pc'[d] = "idle" => moved'[d] = "no") /\ (pc'[d] = "asking" => moved'[d] # "interrupted")
    BY <1>1, <1>3, <1>4 DEF Untouched
  <2> QED BY <2>1, <2>2 DEF Untouched
<1>13. HasWork'
  BY <1>1, <1>2, <1>3 DEF HasWork, GrantWork
<1>14. LeaseKept'
  <2> SUFFICES ASSUME NEW d \in Calls, Keeps(d)' PROVE data'[Home(d)'].lease = d
    BY DEF LeaseKept
  <2>1. Keeps(d)
    BY <1>2, <1>6, <1>7, <1>9 DEF Keeps
  <2> QED BY <1>1, <1>2, <1>8, <2>1 DEF LeaseKept
<1>15. PairKept'
  <2> SUFFICES ASSUME NEW d \in Calls, (Holding(d) /\ Undisturbed(d))' PROVE Pair(d)'
    BY DEF PairKept, Pair
  <2>1. Pair(d)
    BY <1>1, <1>6, <1>9 DEF PairKept, Pair
  <2> QED BY <1>2, <1>7, <1>8, <2>1 DEF Pair
<1> QED BY <1>10, <1>11, <1>12, <1>13, <1>14, <1>15 DEF StoresInv

\* What moves no call and no tab to another store leaves these parts to their holders.
LEMMA StillInv ==
    ASSUME StoresInv, UNCHANGED <<mode, kind, primary, cached, pc, key, got, todo, moved>>,
           data' \in [Stores -> Records], handle' \in [Tabs -> {"none", "open", "closed", "rejected"}],
           \A t \in Tabs : data'[t] # Empty => data[t] # Empty,
           \A t \in Tabs : handle[t] = "open" => handle'[t] \in {"open", "closed"},
           \A t \in Tabs : handle[t] # "open" => handle'[t] = handle[t],
           \A c \in Calls : Keeps(c)' => data'[Home(c)] = data[Home(c)]
    PROVE  StoresInv'
<1>1. TypeOK /\ KindIsTrue /\ Opened /\ Untouched /\ HasWork /\ LeaseKept /\ PairKept
  BY DEF StoresInv
<1>2. \A c \in Calls : TabOf[c] \in Tabs /\ Home(c)' = Home(c) /\ (Holding(c)' <=> Holding(c))
  BY DEF Home, Holding
<1>3. \A c \in Calls : Undisturbed(c)' => Undisturbed(c)
  BY <1>2 DEF Undisturbed
<1>4. TypeOK'
  BY <1>1 DEF TypeOK, Records
<1>5. KindIsTrue'
  BY <1>1 DEF KindIsTrue, Empty
<1>6. Opened'
  BY <1>1, <1>2 DEF Opened
<1>7. Untouched'
  BY <1>1 DEF Untouched, Holding
<1>8. HasWork'
  BY <1>1 DEF HasWork
<1>9. LeaseKept'
  <2> SUFFICES ASSUME NEW c \in Calls, Keeps(c)' PROVE data'[Home(c)'].lease = c
    BY DEF LeaseKept
  <2>1. Keeps(c)
    BY <1>2, <1>3 DEF Keeps
  <2> QED BY <1>1, <1>2, <2>1 DEF LeaseKept
<1>10. PairKept'
  <2> SUFFICES ASSUME NEW c \in Calls, (Holding(c) /\ Undisturbed(c))' PROVE Pair(c)'
    BY DEF PairKept, Pair
  <2>1. Pair(c)
    BY <1>1, <1>2, <1>3 DEF PairKept, Pair
  <2>2. data'[Home(c)] = data[Home(c)]
    BY DEF Keeps
  <2> QED BY <1>2, <2>1, <2>2 DEF Pair
<1> QED BY <1>4, <1>5, <1>6, <1>7, <1>8, <1>9, <1>10 DEF StoresInv

\* A lease that a call keeps is one that somebody renews.
LEMMA ExpireInv == ASSUME StoresInv, NEW s \in Stores, Expire(s) PROVE StoresInv'
<1>1. TypeOK /\ HasWork /\ LeaseKept /\ PairKept
  BY DEF StoresInv
<1>2. /\ ~Renewed(s) /\ Put(s, "lease", None)
      /\ UNCHANGED <<mode, kind, primary, cached, pc, key, got, todo, moved>> /\ handle' = handle
  BY DEF Expire
<1>3. /\ data' \in [Stores -> Records] /\ \A r \in Stores \ {s} : data'[r] = data[r]
      /\ data'[s] = [data[s] EXCEPT !.lease = None]
  <2>1. data'[s] = [data[s] EXCEPT !.lease = None]
    BY <1>1, <1>2 DEF Put, TypeOK
  <2> QED BY <1>1, <1>2, <2>1, PutType
<1>4. ASSUME NEW t \in Tabs, data'[t] # Empty PROVE data[t] # Empty
  <2>1. CASE t = s
    BY <1>3, <1>4, <2>1 DEF Empty
  <2>2. CASE t # s
    BY <1>3, <1>4, <2>2, StoreOf
  <2> QED BY <2>1, <2>2
<1>5. ASSUME NEW c \in Calls, Keeps(c)' PROVE data'[Home(c)] = data[Home(c)]
  <2>1. Keeps(c)
    BY <1>2, <1>5 DEF Keeps, Undisturbed, Holding
  <2>2. data[Home(c)].lease = c /\ Holding(c) /\ Home(c) \in Stores
    BY <1>1, <2>1, StoreOf DEF LeaseKept, Keeps, Home
  <2>3. ~WaitsForKey(c)
    <3>1. CASE Undisturbed(c)
      BY <1>1, <2>2, <3>1 DEF PairKept, HasWork, WaitsForKey, GrantWork
    <3>2. CASE ~Undisturbed(c)
      BY <2>1, <3>2 DEF Keeps, WaitsForKey
    <3> QED BY <3>1, <3>2
  <2>4. (Home(c) = Database) = primary[TabOf[c]]
    <3>1. TabOf[c] \in Tabs /\ primary[TabOf[c]] \in BOOLEAN
      BY <1>1 DEF TypeOK
    <3> QED BY <3>1 DEF Home
  <2>5. Home(c) # s
    BY <1>2, <2>2, <2>3, <2>4 DEF Renewed
  <2> QED BY <1>3, <2>2, <2>5
<1>6. handle' \in [Tabs -> {"none", "open", "closed", "rejected"}]
  BY <1>1, <1>2 DEF TypeOK
<1>7. /\ \A t \in Tabs : handle[t] = "open" => handle'[t] \in {"open", "closed"}
      /\ \A t \in Tabs : handle[t] # "open" => handle'[t] = handle[t]
  BY <1>2
<1>8. UNCHANGED <<mode, kind, primary, cached, pc, key, got, todo, moved>>
  BY <1>2
<1> QED BY <1>3, <1>4, <1>5, <1>6, <1>7, <1>8, StillInv

\* onversionchange: no connection is left open that could still reach the deleted database.
LEMMA DeleteInv == ASSUME StoresInv, DeleteDatabase PROVE StoresInv'
<1>1. TypeOK
  BY DEF StoresInv
<1>2. /\ data' = [data EXCEPT ![Database] = Empty]
      /\ handle' = [t \in Tabs |-> IF handle[t] = "open" THEN "closed" ELSE handle[t]]
      /\ UNCHANGED <<mode, kind, primary, cached, pc, key, got, todo, moved>>
  BY DEF DeleteDatabase
<1>3. data' \in [Stores -> Records] /\ \A t \in Tabs : data'[t] = data[t]
  <2>1. Empty \in Records
    BY DEF Empty, Records
  <2> QED BY <1>1, <1>2, <2>1, StoreOf DEF TypeOK, Records
<1>4. /\ handle' \in [Tabs -> {"none", "open", "closed", "rejected"}]
      /\ \A t \in Tabs : handle'[t] # "open"
      /\ \A t \in Tabs : handle[t] = "open" => handle'[t] \in {"open", "closed"}
      /\ \A t \in Tabs : handle[t] # "open" => handle'[t] = handle[t]
  BY <1>1, <1>2 DEF TypeOK
<1>5. ASSUME NEW c \in Calls, Keeps(c)' PROVE data'[Home(c)] = data[Home(c)]
  <2>1. TabOf[c] \in Tabs
    OBVIOUS
  <2>2. ~primary[TabOf[c]]
    BY <1>2, <1>4, <1>5, <2>1 DEF Keeps, Undisturbed
  <2> QED BY <1>3, <2>1, <2>2 DEF Home
<1> QED BY <1>2, <1>3, <1>4, <1>5, StillInv

\* A reload ends the calls of its tab and touches no other's.
LEMMA ReloadInv == ASSUME StoresInv, NEW t \in Tabs, Reload(t) PROVE StoresInv'
<1>1. TypeOK /\ KindIsTrue /\ Opened /\ Untouched /\ HasWork /\ LeaseKept /\ PairKept
  BY DEF StoresInv
<1>2. /\ data' = [data EXCEPT ![t] = Empty] /\ handle' = [handle EXCEPT ![t] = "none"]
      /\ primary' = [primary EXCEPT ![t] = mode[t] # "memory"] /\ cached' = [cached EXCEPT ![t] = None]
      /\ pc' = [c \in Calls |-> IF TabOf[c] = t /\ pc[c] # "idle" THEN "failed" ELSE pc[c]]
      /\ UNCHANGED <<mode, kind, key, got, todo, moved>>
  BY DEF Reload
<1>3. /\ data' \in [Stores -> Records] /\ data'[t] = Empty
      /\ \A r \in Stores \ {t} : data'[r] = data[r]
  <2>1. Empty \in Records
    BY DEF Empty, Records
  <2> QED BY <1>1, <1>2, <2>1, StoreOf DEF TypeOK, Records
<1>4. /\ handle' \in [Tabs -> {"none", "open", "closed", "rejected"}]
      /\ primary' \in [Tabs -> BOOLEAN] /\ cached' \in [Tabs -> Keys \cup {None}]
      /\ \A u \in Tabs \ {t} : handle'[u] = handle[u] /\ primary'[u] = primary[u] /\ cached'[u] = cached[u]
  BY <1>1, <1>2 DEF TypeOK
<1>5. /\ pc' \in [Calls -> Places]
      /\ \A c \in Calls : TabOf[c] = t => pc'[c] \in {"idle", "failed"}
      /\ \A c \in Calls : TabOf[c] # t => pc'[c] = pc[c]
      /\ \A c \in Calls : pc'[c] = "idle" => pc[c] = "idle"
  <2>1. "failed" \in Places /\ pc \in [Calls -> Places]
    BY <1>1 DEF Places, Ended, TypeOK
  <2> QED BY <1>2, <2>1
<1>6. \A c \in Calls : (pc'[c] = "asking" \/ Holding(c)') => TabOf[c] # t /\ pc'[c] = pc[c]
  BY <1>5 DEF Holding, Inside, Releasing
<1>7. ASSUME NEW c \in Calls, Holding(c)'
      PROVE  /\ TabOf[c] \in Tabs \ {t} /\ Holding(c) /\ Home(c)' = Home(c) /\ Home(c) \in Stores \ {t}
             /\ Undisturbed(c)' <=> Undisturbed(c)
             /\ Keeps(c)' => Keeps(c)
  <2>1. TabOf[c] \in Tabs \ {t} /\ pc'[c] = pc[c]
    BY <1>6, <1>7
  <2>2. Holding(c) /\ Home(c)' = Home(c) /\ Home(c) \in Stores \ {t}
    BY <1>4, <1>7, <2>1, StoreOf DEF Holding, Home
  <2>3. Undisturbed(c)' <=> Undisturbed(c)
    BY <1>2, <1>4, <2>1 DEF Undisturbed
  <2>4. Keeps(c)' => Keeps(c)
    BY <1>2, <1>4, <2>1, <2>2, <2>3 DEF Keeps
  <2> QED BY <2>1, <2>2, <2>3, <2>4
<1>8. TypeOK'
  BY <1>1, <1>2, <1>3, <1>4, <1>5 DEF TypeOK, Records, Places
<1>9. KindIsTrue'
  <2> SUFFICES ASSUME NEW u \in Tabs, data'[u] # Empty PROVE ~primary'[u] /\ mode'[u] # "required"
    BY DEF KindIsTrue, Empty
  <2>1. u # t
    BY <1>3
  <2> QED BY <1>1, <1>2, <1>3, <1>4, <2>1, StoreOf DEF KindIsTrue
<1>10. Opened'
  BY <1>1, <1>4, <1>7 DEF Opened
<1>11. Untouched'
  BY <1>1, <1>2, <1>5, <1>6, <1>7 DEF Untouched
<1>12. HasWork'
  <2> SUFFICES ASSUME NEW c \in Calls PROVE Work(c)'
    BY DEF HasWork, Work
  <2>1. CASE TabOf[c] = t
    BY <1>5, <2>1 DEF Work, GrantWork
  <2>2. CASE TabOf[c] # t
    BY <1>1, <1>2, <1>5, <2>2 DEF HasWork, Work
  <2> QED BY <2>1, <2>2
<1>13. LeaseKept'
  <2> SUFFICES ASSUME NEW c \in Calls, Keeps(c)' PROVE data'[Home(c)'].lease = c
    BY DEF LeaseKept
  <2>1. Holding(c)'
    BY DEF Keeps
  <2> QED BY <1>1, <1>3, <1>7, <2>1 DEF LeaseKept
<1>14. PairKept'
  <2> SUFFICES ASSUME NEW c \in Calls, (Holding(c) /\ Undisturbed(c))' PROVE Pair(c)'
    BY DEF PairKept, Pair
  <2>1. Pair(c)
    BY <1>1, <1>7 DEF PairKept, Pair
  <2>2. /\ data'[Home(c)] = data[Home(c)] /\ cached'[TabOf[c]] = cached[TabOf[c]] /\ pc'[c] = pc[c]
        /\ Home(c)' = Home(c)
    BY <1>3, <1>4, <1>6, <1>7
  <2> QED BY <1>2, <2>1, <2>2 DEF Pair
<1> QED BY <1>8, <1>9, <1>10, <1>11, <1>12, <1>13, <1>14 DEF StoresInv

\* The invariant holds in the beginning.
LEMMA InitInv == Init => StoresInv
<1> SUFFICES ASSUME Init PROVE StoresInv
  OBVIOUS
<1>1. \A c \in Calls : pc[c] = "idle" /\ moved[c] = "no" /\ ~Holding(c)
  BY DEF Init, Holding, Inside, Releasing
<1>2. TypeOK
  <2>1. Empty \in Records
    BY DEF Empty, Records
  <2> QED BY <2>1 DEF Init, TypeOK, Records
<1>3. KindIsTrue
  BY StoreOf DEF Init, KindIsTrue
<1>4. Opened /\ Untouched /\ HasWork /\ LeaseKept /\ PairKept
  BY <1>1 DEF Opened, Untouched, HasWork, LeaseKept, PairKept, Keeps, GrantWork
<1> QED BY <1>2, <1>3, <1>4 DEF StoresInv

\* The invariant is inductive.
LEMMA NextInv == StoresInv /\ [Next]_vars => StoresInv'
<1> SUFFICES ASSUME StoresInv, [Next]_vars PROVE StoresInv'
  OBVIOUS
<1>1. ASSUME NEW c \in Calls, Progress(c) PROVE StoresInv'
  BY <1>1, AskInv, RenewInv, LoadKeyInv, SaveKeyInv, LoadSessionInv, DropSessionInv, AnsweredInv,
     NestedKeyInv, SaveSessionInv, ClearRecordInv, ReleaseInv DEF Progress
<1>2. ASSUME NEW c \in Calls, Start(c) \/ Throw(c) \/ Heartbeat(c) \/ NotGranted(c) PROVE StoresInv'
  BY <1>2, StartInv, ThrowInv, HeartbeatInv, AnsweredInv
<1>3. CASE UNCHANGED vars
  <2>1. /\ UNCHANGED <<mode, kind, primary, cached, pc, key, got, todo, moved>>
        /\ data' = data /\ handle' = handle
    BY <1>3 DEF vars
  <2>2. data \in [Stores -> Records] /\ handle \in [Tabs -> {"none", "open", "closed", "rejected"}]
    BY DEF StoresInv, TypeOK, Records
  <2> QED BY <2>1, <2>2, StillInv
<1> QED BY <1>1, <1>2, <1>3, ExpireInv, ReloadInv, DeleteInv DEF Next

-------------------------------------------------------------------------------
(* The theorems.                                                               *)

(* Whatever fails, closes, is deleted or reloaded, a call that still reaches the    *)
(* store of its lease owns it and has there, and in its tab, one key (session,      *)
(* refresh and clearInstallation over run of AdaptiveStateStore); and no tab keeps  *)
(* in memory what its persistenceKind denies.                                       *)
THEOREM StoresInvariant == Spec => []StoresInv
  BY InitInv, NextInv, PTL DEF Spec

\* The step in which a grant returns is the release of its lease.
LEMMA ReturnIsRelease ==
    ASSUME StoresInv, [Next]_vars, NEW c \in Calls, pc[c] = "release", pc'[c] = "done"
    PROVE  Release(c)
<1> USE DEF StoresInv, TypeOK
<1>1. pc \in [Calls -> Inside \cup Releasing \cup Ended \cup {"idle", "asking"}]
  OBVIOUS
<1>2. ASSUME NEW d \in Calls, d # c, NEW where, Goto(d, where) PROVE FALSE
  BY <1>1, <1>2 DEF Goto
<1>3. ASSUME NEW where, Goto(c, where) PROVE where = "done"
  BY <1>1, <1>3 DEF Goto
<1> HIDE DEF StoresInv, TypeOK
<1>4. pc' # pc
  OBVIOUS
<1>5. ASSUME NEW d \in Calls, Progress(d) PROVE d = c /\ Release(c)
  <2>1. CASE Ask(d) \/ Renew(d)
    BY <1>2, <1>4, <2>1 DEF Ask, Renew
  <2>2. CASE LoadKey(d) \/ SaveKey(d) \/ LoadSession(d) \/ DropSession(d)
    BY <1>2, <2>2 DEF LoadKey, SaveKey, LoadSession, DropSession
  <2>3. CASE Granted(d) \/ NestedKey(d) \/ SaveSession(d) \/ ClearRecord(d)
    BY <1>2, <1>4, <2>3 DEF Granted, NestedKey, SaveSession, ClearRecord
  <2>4. CASE Release(d)
    BY <1>2, <2>4 DEF Release
  <2> QED BY <1>5, <2>1, <2>2, <2>3, <2>4 DEF Progress
<1>6. ASSUME NEW d \in Calls, Start(d) \/ Throw(d) \/ Heartbeat(d) \/ NotGranted(d) PROVE FALSE
  <2>1. CASE Start(d) \/ Throw(d)
    BY <1>2, <1>3, <2>1 DEF Start, Throw
  <2>2. CASE Heartbeat(d) \/ NotGranted(d)
    BY <1>2, <1>4, <2>2 DEF Heartbeat, NotGranted
  <2> QED BY <1>6, <2>1, <2>2
<1>7. ASSUME NEW t \in Tabs, Reload(t) PROVE FALSE
  BY <1>7 DEF Reload
<1>8. ASSUME NEW s \in Stores, Expire(s) PROVE FALSE
  BY <1>4, <1>8 DEF Expire
<1>9. ~DeleteDatabase /\ ~UNCHANGED vars
  BY <1>4 DEF DeleteDatabase, vars
<1> QED BY <1>5, <1>6, <1>7, <1>8, <1>9 DEF Next

\* An undisturbed grant returns with a pair of one key in its store and its tab.
LEMMA ReturnsPair ==
    ASSUME StoresInv, NEW c \in Calls, pc[c] = "release", kind[c] = "grant", Undisturbed(c)
    PROVE  data[Home(c)].key = got[c] /\ data[Home(c)].session = got[c] /\ cached[TabOf[c]] = got[c]
  BY DEF StoresInv, PairKept, Holding, Releasing

(* A session is returned with the key its tab proves with, or after a fallback of   *)
(* its tab during the call or beside it (proof and persistGrantUnderLease).         *)
THEOREM ReturnsBound == Spec => BoundReturn
<1>1. ASSUME StoresInv, [Next]_vars, NEW c \in Calls, pc[c] = "release", pc'[c] = "done", kind[c] = "grant"
      PROVE  moved'[c] # "no" \/ cached[TabOf[c]] = got[c]
  <2>1. Release(c) /\ TypeOK /\ Opened /\ TabOf[c] \in Tabs /\ Holding(c)
    BY <1>1, ReturnIsRelease DEF StoresInv, Holding, Releasing
  <2>2. PICK s \in Stores : ServedBy(TabOf[c], s)
    BY <2>1 DEF Release
  <2>3. CASE primary[TabOf[c]] /\ s = Database /\ handle[TabOf[c]] \in {"none", "open"}
    <3>1. Undisturbed(c)
      BY <2>1, <2>3 DEF Opened, Undisturbed
    <3> QED BY <1>1, <3>1, ReturnsPair
  <2>4. CASE moved' = Interrupted(TabOf[c])
    BY <2>1, <2>4, Interrupts
  <2>5. CASE ~primary[TabOf[c]] /\ moved' = moved
    BY <1>1, <2>5, ReturnsPair DEF Undisturbed
  <2> QED BY <2>1, <2>2, <2>3, <2>4, <2>5, Served
<1>2. StoresInv /\ [Next]_vars =>
        [\A c \in Calls : pc[c] = "release" /\ pc'[c] = "done" /\ kind[c] = "grant"
            => moved'[c] # "no" \/ cached[TabOf[c]] = got[c]]_vars
  BY <1>1
<1> QED BY <1>2, StoresInvariant, PTL DEF Spec, BoundReturn

(* Where persistence is required, success means that the database has the session   *)
(* and the key it is bound to, although its connection may have been refused or     *)
(* closed and the database deleted at any moment before.                            *)
THEOREM RequiredIsPersisted == Spec => RequiredPersists
<1>1. ASSUME StoresInv, [Next]_vars, NEW c \in Calls, pc[c] = "release", pc'[c] = "done", kind[c] = "grant",
             mode[TabOf[c]] = "required"
      PROVE  data[Database].session = got[c] /\ data[Database].key = got[c]
  <2>1. Release(c) /\ TypeOK /\ Opened /\ TabOf[c] \in Tabs /\ Holding(c)
    BY <1>1, ReturnIsRelease DEF StoresInv, Holding, Releasing
  <2>2. PICK s \in Stores : ServedBy(TabOf[c], s)
    BY <2>1 DEF Release
  <2>3. primary[TabOf[c]] /\ handle[TabOf[c]] \in {"none", "open"}
    BY <1>1, <2>1, <2>2, Served
  <2>4. Undisturbed(c) /\ Home(c) = Database
    BY <2>1, <2>3 DEF Opened, Undisturbed, Home
  <2> QED BY <1>1, <2>4, ReturnsPair
<1>2. StoresInv /\ [Next]_vars =>
        [\A c \in Calls :
            pc[c] = "release" /\ pc'[c] = "done" /\ kind[c] = "grant" /\ mode[TabOf[c]] = "required"
            => data[Database].session = got[c] /\ data[Database].key = got[c]]_vars
  BY <1>1
<1> QED BY <1>2, StoresInvariant, PTL DEF Spec, RequiredPersists
===============================================================================
