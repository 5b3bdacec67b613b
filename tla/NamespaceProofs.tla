-------------------------- MODULE NamespaceProofs --------------------------
(***************************************************************************)
(* Theorems about Namespace, for any pool, losses and command.             *)
(***************************************************************************)
EXTENDS Namespace, FiniteSetTheorems, SequenceTheorems, TLAPS

-----------------------------------------------------------------------------
(* Least and greatest of finite sets.                                      *)

\* A finite set of naturals that has an element has a greatest one.
LEMMA GreatestExists ==
  ASSUME NEW S \in SUBSET Nat, IsFiniteSet(S), S # {}
  PROVE  /\ \E x \in S : \A y \in S : y <= x
         /\ Max(S) \in S /\ \A y \in S : y <= Max(S)
<1> DEFINE top(T) == \E x \in T : \A y \in T : y <= x
           B == {T \in SUBSET Nat : IsFiniteSet(T) /\ T # {} /\ ~top(T)}
<1>1. B = {}
  <2> SUFFICES ASSUME B # {} PROVE FALSE
    OBVIOUS
  <2>1. B \subseteq FiniteSubsetsOf(Nat)
    BY DEF FiniteSubsetsOf
  <2>2. PICK T \in B : \A U \in B : ~(<<U, T>> \in StrictSubsetOrdering(Nat))
    <3> HIDE DEF B
    <3> QED BY <2>1, FS_StrictSubsetOrderingWellFounded, WFMin
  <2>3. PICK x \in T : TRUE
    OBVIOUS
  <2>4. T \ {x} \subseteq Nat /\ T \ {x} \subseteq T /\ T \ {x} # T /\ IsFiniteSet(T \ {x})
    BY <2>3, FS_RemoveElement
  <2>5. T \ {x} \notin B
    BY <2>2, <2>4 DEF StrictSubsetOrdering
  <2>6. CASE T \ {x} = {}
    BY <2>3, <2>6
  <2>7. CASE top(T \ {x})
    <3>1. PICK m \in T \ {x} : \A y \in T \ {x} : y <= m
      BY <2>7
    <3>2. CASE m <= x
      <4>1. \A y \in T : y <= x
        BY <3>1, <3>2, <2>3
      <4> QED BY <4>1, <2>3
    <3>3. CASE x <= m
      <4>1. \A y \in T : y <= m
        BY <3>1, <3>3, <2>3
      <4> QED BY <4>1, <3>1
    <3> QED BY <3>1, <3>2, <3>3, <2>3
  <2> QED BY <2>4, <2>5, <2>6, <2>7
<1>2. PICK x \in S : \A y \in S : y <= x
  BY <1>1
<1>3. \A y \in S : x >= y
  BY <1>2
<1>4. Max(S) \in S /\ \A y \in S : Max(S) >= y
  BY <1>3 DEF Max
<1> QED BY <1>2, <1>4

\* A set of naturals that has an element has a least one.
LEMMA LeastExists ==
  ASSUME NEW S \in SUBSET Nat, S # {}
  PROVE  /\ \E x \in S : \A y \in S : x <= y
         /\ Min(S) \in S /\ \A y \in S : Min(S) <= y
<1> PICK s \in S : TRUE
  OBVIOUS
<1> DEFINE L == {n \in 0 .. s : \A y \in S : n <= y}
<1>1. L \in SUBSET Nat /\ 0 \in L
  OBVIOUS
<1>2. IsFiniteSet(L)
  <2>1. IsFiniteSet(0 .. s)
    BY FS_Interval
  <2> QED BY <2>1, FS_Subset
<1>3. PICK m \in L : \A n \in L : n <= m
  <2> HIDE DEF L
  <2> QED BY <1>1, <1>2, GreatestExists
<1>4. m \in S
  <2> SUFFICES ASSUME m \notin S PROVE FALSE
    OBVIOUS
  <2>1. \A y \in S : m + 1 <= y
    OBVIOUS
  <2>2. m + 1 \in L
    BY <2>1
  <2> QED BY <1>3, <2>2
<1>5. \A y \in S : m <= y
  OBVIOUS
<1> QED BY <1>4, <1>5 DEF Min

-----------------------------------------------------------------------------
(* Sequences made of sets.                                                 *)

\* A function from a set of n elements to n numbers that never repeats one takes
\* them all.
LEMMA InjectionTakesAll ==
  ASSUME NEW S, IsFiniteSet(S), NEW f \in [S -> 1 .. Cardinality(S)], IsInjective(f)
  PROVE  \A k \in 1 .. Cardinality(S) : \E x \in S : f[x] = k
<1> DEFINE n == Cardinality(S)
<1>1. n \in Nat
  BY FS_CardinalityType
<1>2. IsFiniteSet(1 .. n) /\ Cardinality(1 .. n) = n
  BY <1>1, FS_Interval
<1>3. f \in Injection(S, 1 .. n)
  BY DEF Injection
<1>4. f \in Surjection(S, 1 .. n)
  BY <1>2, <1>3, FS_Injection
<1> QED BY <1>4 DEF Surjection

\* How many numbers of a set are before one of them.
Rank(S, x) == Cardinality({y \in S : y < x})

\* That number grows with the element, and is less than how many there are.
LEMMA RankIsIndex ==
  ASSUME NEW S \in SUBSET Nat, IsFiniteSet(S)
  PROVE  /\ \A x \in S : Rank(S, x) \in 0 .. Cardinality(S) - 1
         /\ \A x, y \in S : x < y => Rank(S, x) < Rank(S, y)
<1>0. Cardinality(S) \in Nat
  BY FS_CardinalityType
<1>1. ASSUME NEW x \in S PROVE Rank(S, x) \in 0 .. Cardinality(S) - 1
  <2> DEFINE B == {y \in S : y < x}
  <2>1. B \in SUBSET S /\ x \notin B
    OBVIOUS
  <2> HIDE DEF B
  <2>2. IsFiniteSet(B) /\ Cardinality(B) \in Nat /\ Cardinality(B) <= Cardinality(S)
    BY <2>1, FS_Subset, FS_CardinalityType
  <2>3. Cardinality(B) # Cardinality(S)
    BY <2>1, FS_Subset
  <2> QED BY <1>0, <2>2, <2>3 DEF Rank, B
<1>2. ASSUME NEW x \in S, NEW y \in S, x < y PROVE Rank(S, x) < Rank(S, y)
  <2> DEFINE B == {z \in S : z < x}
             C == {z \in S : z < y}
  <2>1. B \in SUBSET C /\ x \in C /\ x \notin B /\ C \in SUBSET S
    <3>1. x \in Nat /\ y \in Nat /\ ~(x < x)
      OBVIOUS
    <3>2. \A z \in S : z \in Nat /\ (z < x => z < y)
      BY <1>2, <3>1
    <3> QED BY <1>2, <3>1, <3>2
  <2> HIDE DEF B, C
  <2>2. IsFiniteSet(C) /\ Cardinality(C) \in Nat
    BY <2>1, FS_Subset, FS_CardinalityType
  <2>3. IsFiniteSet(B) /\ Cardinality(B) \in Nat /\ Cardinality(B) <= Cardinality(C) /\ Cardinality(B) # Cardinality(C)
    BY <2>1, <2>2, FS_Subset, FS_CardinalityType
  <2> QED BY <2>2, <2>3 DEF Rank, B, C
<1> QED BY <1>1, <1>2

\* The numbers of a set, each once.
LEMMA AscendingTakesAll ==
  ASSUME NEW S \in SUBSET Nat, IsFiniteSet(S)
  PROVE  /\ Ascending(S) \in Seq(S)
         /\ Len(Ascending(S)) = Cardinality(S)
         /\ ToSet(Ascending(S)) = S
         /\ \A j, k \in 1 .. Cardinality(S) : Ascending(S)[j] = Ascending(S)[k] => j = k
<1> DEFINE n == Cardinality(S)
           s == Ascending(S)
           f == [x \in S |-> Rank(S, x) + 1]
<1>1. n \in Nat
  BY FS_CardinalityType
<1>2. f \in [S -> 1 .. n]
  BY <1>1, RankIsIndex
<1>3. IsInjective(f)
  <2> SUFFICES ASSUME NEW a \in S, NEW b \in S, Rank(S, a) + 1 = Rank(S, b) + 1 PROVE a = b
    BY DEF IsInjective
  <2>1. Rank(S, a) \in Nat /\ Rank(S, b) \in Nat
    BY <1>1, RankIsIndex
  <2>2. ~(a < b) /\ ~(b < a)
    BY <2>1, RankIsIndex
  <2> QED BY <2>2
<1>4. \A k \in 1 .. n : \E x \in S : f[x] = k
  <2> HIDE DEF f
  <2> QED BY <1>2, <1>3, InjectionTakesAll
<1>5. \A k \in 1 .. n : s[k] \in S /\ Rank(S, s[k]) = k - 1
  <2> SUFFICES ASSUME NEW k \in 1 .. n PROVE s[k] \in S /\ Rank(S, s[k]) = k - 1
    OBVIOUS
  <2>1. s[k] = CHOOSE x \in S : Rank(S, x) = k - 1
    BY DEF Ascending, Rank
  <2>2. PICK x \in S : f[x] = k
    BY <1>4
  <2>3. Rank(S, x) = k - 1
    BY <2>2, <1>1, RankIsIndex
  <2> QED BY <2>1, <2>3
<1>6. s \in [1 .. n -> S]
  BY <1>5 DEF Ascending
<1>7. s \in Seq(S) /\ Len(s) = n /\ DOMAIN s = 1 .. n
  BY <1>1, <1>6
<1>8. \A x \in S : s[Rank(S, x) + 1] = x
  <2> SUFFICES ASSUME NEW x \in S PROVE s[Rank(S, x) + 1] = x
    OBVIOUS
  <2>1. Rank(S, x) + 1 \in 1 .. n /\ Rank(S, x) \in Nat
    BY <1>1, RankIsIndex
  <2>2. s[Rank(S, x) + 1] \in S /\ Rank(S, s[Rank(S, x) + 1]) = Rank(S, x)
    BY <1>5, <2>1
  <2>3. \A y \in S : ~(Rank(S, y) < Rank(S, y))
    BY <1>1, RankIsIndex
  <2>4. \A y \in S : y < x \/ x < y => Rank(S, y) # Rank(S, x)
    BY <2>3, RankIsIndex
  <2>5. \A a, b \in Nat : a = b \/ a < b \/ b < a
    OBVIOUS
  <2> HIDE DEF s
  <2>6. s[Rank(S, x) + 1] \in Nat /\ x \in Nat
    BY <2>2
  <2> QED BY <2>2, <2>4, <2>5, <2>6
<1>9. ToSet(s) = S
  <2>1. \A x \in S : Rank(S, x) + 1 \in DOMAIN s
    BY <1>1, <1>7, RankIsIndex
  <2>2. \A k \in DOMAIN s : s[k] \in S
    BY <1>5, <1>7
  <2> HIDE DEF s
  <2> QED BY <1>8, <2>1, <2>2 DEF ToSet
<1>10. ASSUME NEW j \in 1 .. n, NEW k \in 1 .. n, s[j] = s[k] PROVE j = k
  <2>1. j - 1 = k - 1
    BY <1>5, <1>10
  <2> QED BY <2>1
<1> QED BY <1>7, <1>9, <1>10

\* SetToSeq() gives each element of a finite set.
LEMMA SetToSeqTakesAll ==
  ASSUME NEW S, IsFiniteSet(S)
  PROVE  SetToSeq(S) \in Seq(S) /\ ToSet(SetToSeq(S)) = S
<1> DEFINE n == Cardinality(S)
           s == SetToSeq(S)
<1>1. n \in Nat /\ ExistsBijection(1 .. n, S)
  BY FS_CardinalityType
<1>2. PICK g : g \in Bijection(1 .. n, S)
  BY <1>1 DEF ExistsBijection
<1>3. g \in [1 .. n -> S] /\ IsInjective(g)
  BY <1>2 DEF Bijection, Injection
<1>4. s \in [1 .. n -> S] /\ IsInjective(s)
  BY <1>3, Zenon DEF SetToSeq
<1>5. s \in Injection(1 .. n, S)
  BY <1>4 DEF Injection
<1>6. IsFiniteSet(1 .. n) /\ Cardinality(1 .. n) = Cardinality(S)
  BY <1>1, FS_Interval
<1>7. s \in Surjection(1 .. n, S)
  BY <1>5, <1>6, FS_Injection
<1>8. \A x \in S : \E k \in 1 .. n : s[k] = x
  BY <1>7 DEF Surjection
<1> HIDE DEF s, n
<1>9. s \in Seq(S) /\ DOMAIN s = 1 .. n
  BY <1>1, <1>4
<1>10. ToSet(s) = S
  BY <1>4, <1>8, <1>9 DEF ToSet
<1> QED BY <1>9, <1>10 DEF s

IsSeq(s) == s \in Seq(ToSet(s))

\* A sequence of elements of some set is one of its own elements.
LEMMA SeqIsSeq ==
  ASSUME NEW T, NEW s \in Seq(T)
  PROVE  IsSeq(s) /\ ToSet(s) \subseteq T
<1>1. Len(s) \in Nat /\ DOMAIN s = 1 .. Len(s) /\ s \in [1 .. Len(s) -> T]
  BY LenProperties
<1>2. s = [k \in 1 .. Len(s) |-> s[k]]
  BY <1>1
<1>3. \A k \in 1 .. Len(s) : s[k] \in ToSet(s)
  BY <1>1 DEF ToSet
<1>4. s \in [1 .. Len(s) -> ToSet(s)]
  BY <1>2, <1>3
<1>5. s \in Seq(ToSet(s))
  BY <1>1, <1>4
<1> QED BY <1>1, <1>5 DEF IsSeq, ToSet

\* The empty sequence has none.
LEMMA EmptyIsSeq == IsSeq(<<>>) /\ ToSet(<<>>) = {}
<1>1. ToSet(<<>>) = {}
  BY DEF ToSet
<1> QED BY <1>1, EmptySeq DEF IsSeq

\* A sequence that is not empty is its head and its tail.
LEMMA HeadAndTail ==
  ASSUME NEW s, IsSeq(s), s # <<>>
  PROVE  /\ IsSeq(Tail(s))
         /\ Head(s) \in ToSet(s)
         /\ ToSet(s) = {Head(s)} \cup ToSet(Tail(s))
         /\ Head(s) = s[1] /\ Len(s) \in Nat \ {0} /\ DOMAIN s = 1 .. Len(s)
         /\ DOMAIN Tail(s) = 1 .. Len(s) - 1 /\ \A k \in DOMAIN Tail(s) : Tail(s)[k] = s[k + 1]
<1>1. Len(s) \in Nat \ {0} /\ DOMAIN s = 1 .. Len(s) /\ Head(s) = s[1]
  BY LenProperties, EmptySeq DEF IsSeq
<1>2. Tail(s) \in Seq(ToSet(s))
  BY HeadTailProperties DEF IsSeq
<1>3. DOMAIN Tail(s) = 1 .. Len(s) - 1 /\ \A k \in DOMAIN Tail(s) : Tail(s)[k] = s[k + 1]
  BY <1>1, <1>2, HeadTailProperties, LenProperties DEF IsSeq
<1>4. IsSeq(Tail(s))
  BY <1>2, SeqIsSeq
<1>5. ASSUME NEW x \in ToSet(s) PROVE x = Head(s) \/ x \in ToSet(Tail(s))
  <2>1. PICK k \in 1 .. Len(s) : x = s[k]
    BY <1>1 DEF ToSet
  <2>2. CASE k = 1
    BY <1>1, <2>1, <2>2
  <2>3. CASE k # 1
    <3>1. k - 1 \in DOMAIN Tail(s) /\ Tail(s)[k - 1] = s[k]
      BY <1>1, <1>3, <2>3
    <3> QED BY <2>1, <3>1 DEF ToSet
  <2> QED BY <2>2, <2>3
<1>6. Head(s) \in ToSet(s)
  BY <1>1 DEF ToSet
<1>7. ToSet(Tail(s)) \subseteq ToSet(s)
  BY <1>2, SeqIsSeq
<1> QED BY <1>1, <1>3, <1>4, <1>5, <1>6, <1>7

\* A sequence with one element more.
LEMMA AppendOne ==
  ASSUME NEW s, IsSeq(s), NEW x
  PROVE  /\ IsSeq(Append(s, x)) /\ ToSet(Append(s, x)) = ToSet(s) \cup {x}
         /\ Len(Append(s, x)) = Len(s) + 1 /\ DOMAIN Append(s, x) = 1 .. Len(s) + 1
         /\ Append(s, x)[Len(s) + 1] = x /\ \A k \in 1 .. Len(s) : Append(s, x)[k] = s[k]
<1>1. Len(s) \in Nat /\ DOMAIN s = 1 .. Len(s) /\ s \in Seq(ToSet(s) \cup {x})
  <2>1. s \in Seq(ToSet(s))
    BY DEF IsSeq
  <2> QED BY <2>1, SeqMonotonic, LenProperties
<1>2. Append(s, x) \in Seq(ToSet(s) \cup {x}) /\ Len(Append(s, x)) = Len(s) + 1
  BY <1>1
<1>3. Append(s, x)[Len(s) + 1] = x /\ \A k \in 1 .. Len(s) : Append(s, x)[k] = s[k]
  BY <1>1
<1>4. DOMAIN Append(s, x) = 1 .. Len(s) + 1
  BY <1>2, LenProperties
<1>5. ToSet(s) \cup {x} \subseteq ToSet(Append(s, x))
  <2>1. \A k \in DOMAIN s : k \in DOMAIN Append(s, x)
    BY <1>1, <1>4
  <2>2. Len(s) + 1 \in DOMAIN Append(s, x)
    BY <1>1, <1>4
  <2> QED BY <1>1, <1>3, <2>1, <2>2 DEF ToSet
<1> QED BY <1>2, <1>3, <1>4, <1>5, SeqIsSeq

\* Two sequences joined have the elements of both.
LEMMA Joined ==
  ASSUME NEW s, NEW t, IsSeq(s), IsSeq(t)
  PROVE  IsSeq(s \o t) /\ ToSet(s \o t) = ToSet(s) \cup ToSet(t) /\ Len(s \o t) = Len(s) + Len(t)
<1> DEFINE T == ToSet(s) \cup ToSet(t)
<1>1. s \in Seq(T) /\ t \in Seq(T) /\ s \in Seq(ToSet(s)) /\ t \in Seq(ToSet(t))
  BY SeqMonotonic DEF IsSeq
<1>2. Len(s) \in Nat /\ Len(t) \in Nat /\ DOMAIN s = 1 .. Len(s) /\ DOMAIN t = 1 .. Len(t)
  BY <1>1, LenProperties
<1>3. s \o t \in Seq(T) /\ Len(s \o t) = Len(s) + Len(t)
  BY <1>1, ConcatProperties
<1>4. \A i \in 1 .. Len(s) + Len(t) : (s \o t)[i] = IF i <= Len(s) THEN s[i] ELSE t[i - Len(s)]
  BY <1>1, ConcatProperties
<1>5. DOMAIN (s \o t) = 1 .. Len(s) + Len(t)
  BY <1>3, LenProperties
<1>6. ASSUME NEW x \in ToSet(s) PROVE x \in ToSet(s \o t)
  <2>1. PICK k \in 1 .. Len(s) : x = s[k]
    BY <1>2 DEF ToSet
  <2>2. k \in DOMAIN (s \o t) /\ (s \o t)[k] = x
    BY <1>2, <1>4, <1>5, <2>1
  <2> QED BY <2>2 DEF ToSet
<1>7. ASSUME NEW x \in ToSet(t) PROVE x \in ToSet(s \o t)
  <2>1. PICK k \in 1 .. Len(t) : x = t[k]
    BY <1>2 DEF ToSet
  <2>2. k + Len(s) \in DOMAIN (s \o t)
    BY <1>2, <1>5
  <2>3. (s \o t)[k + Len(s)] = x
    BY <1>2, <1>4, <1>5, <2>1, <2>2
  <2> QED BY <2>2, <2>3 DEF ToSet
<1> QED BY <1>3, <1>6, <1>7, SeqIsSeq

\* A sequence that is not empty is its front and its last.
LEMMA FrontAndLast ==
  ASSUME NEW s, IsSeq(s), s # <<>>
  PROVE  IsSeq(Front(s)) /\ ToSet(s) = ToSet(Front(s)) \cup {Last(s)}
<1> DEFINE n == Len(s)
<1>1. n \in Nat \ {0} /\ DOMAIN s = 1 .. n /\ s \in Seq(ToSet(s))
  BY LenProperties, EmptySeq DEF IsSeq
<1>2. \A i \in 1 .. n - 1 : s[i] \in ToSet(s)
  BY <1>1 DEF ToSet
<1>3. /\ Front(s) \in Seq(ToSet(s)) /\ Len(Front(s)) = n - 1
      /\ \A i \in 1 .. n - 1 : Front(s)[i] = s[i]
  <2> HIDE DEF n
  <2>1. 1 \in Int /\ n - 1 \in Int /\ (n - 1) - 1 + 1 = n - 1 /\ Front(s) = SubSeq(s, 1, n - 1)
    BY <1>1 DEF Front, n
  <2>2. /\ SubSeq(s, 1, n - 1) \in Seq(ToSet(s))
        /\ Len(SubSeq(s, 1, n - 1)) = IF 1 <= n - 1 THEN (n - 1) - 1 + 1 ELSE 0
        /\ \A i \in 1 .. (n - 1) - 1 + 1 : SubSeq(s, 1, n - 1)[i] = s[1 + i - 1]
    BY <1>2, <2>1, SubSeqProperties
  <2> QED BY <1>1, <2>1, <2>2
<1>4. DOMAIN Front(s) = 1 .. n - 1
  BY <1>3, LenProperties
<1>5. ASSUME NEW x \in ToSet(s) PROVE x \in ToSet(Front(s)) \/ x = Last(s)
  <2>1. PICK k \in 1 .. n : x = s[k]
    BY <1>1 DEF ToSet
  <2>2. CASE k = n
    BY <2>1, <2>2 DEF Last
  <2>3. CASE k # n
    <3>1. k \in 1 .. n - 1
      <4>1. \A m \in Nat : \A j \in 1 .. m : j # m => j \in 1 .. m - 1
        OBVIOUS
      <4> QED BY <1>1, <2>3, <4>1
    <3>2. k \in DOMAIN Front(s) /\ Front(s)[k] = x
      BY <1>3, <1>4, <2>1, <3>1
    <3> QED BY <3>2 DEF ToSet
  <2> QED BY <2>2, <2>3
<1>6. Last(s) \in ToSet(s)
  BY <1>1 DEF Last, ToSet
<1> QED BY <1>3, <1>5, <1>6, SeqIsSeq

-----------------------------------------------------------------------------
(* What is read of a ZAP.                                                  *)

\* The blocks of an object, and the entries in them.
LEMMA BlocksOf ==
  ASSUME NEW os \in DOMAIN Objects, NEW o \in DOMAIN Objects[os]
  PROVE  LET blocks == Objects[os][o].blocks IN
         /\ Len(blocks) \in Nat /\ DOMAIN blocks = 1 .. Len(blocks)
         /\ \A k \in DOMAIN blocks : /\ IsFiniteSet(blocks[k].entries)
                                     /\ blocks[k].entries \subseteq AllEntries(os, o)
         /\ (blocks = <<>>) => DOMAIN blocks = {}
         /\ (blocks # <<>>) => 1 \in DOMAIN blocks
<1> DEFINE blocks == Objects[os][o].blocks
<1>1. blocks \in Seq(ToSet(blocks))
  BY ObjectsAssumption
<1>2. Len(blocks) \in Nat /\ DOMAIN blocks = 1 .. Len(blocks) /\ (blocks # <<>> => Len(blocks) \in Nat \ {0})
  BY <1>1, LenProperties, EmptySeq
<1>3. \A k \in DOMAIN blocks : IsFiniteSet(blocks[k].entries)
  BY ObjectsAssumption
<1>4. \A k \in DOMAIN blocks : blocks[k].entries \subseteq AllEntries(os, o)
  BY DEF AllEntries
<1>5. DOMAIN <<>> = {}
  OBVIOUS
<1> QED BY <1>2, <1>3, <1>4, <1>5

\* What is read of a ZAP, whatever is lost, was written there.
LEMMA ReadsWhatIsThere ==
  ASSUME NEW os \in DOMAIN Objects, NEW o \in DOMAIN Objects[os]
  PROVE  ReadZap(os, o).entries \subseteq AllEntries(os, o)
<1> DEFINE blocks == Objects[os][o].blocks
           lost == Lost(os, o)
<1> SUFFICES Read(blocks, lost).entries \subseteq AllEntries(os, o)
  BY DEF ReadZap
<1>1. Nothing(lost \cap {1}).entries = {} /\ Nothing({}).entries = {}
  BY DEF Nothing
<1>2. CASE blocks = <<>> \/ 1 \in lost
  BY <1>1, <1>2 DEF Read
<1>3. CASE ~(blocks = <<>> \/ 1 \in lost)
  <2>1. CASE blocks[1].kind = "micro"
    <3>1. Read(blocks, lost).entries = blocks[1].entries
      BY <1>3, <2>1 DEF Read
    <3> QED BY <1>3, <3>1, BlocksOf
  <2>2. CASE blocks[1].kind = "header"
    <3>1. Read(blocks, lost) = ReadFat(blocks, lost)
      BY <1>3, <2>2 DEF Read
    <3>2. ASSUME NEW b \in Sound(blocks, lost) PROVE b[2] \in AllEntries(os, o)
      <4>1. PICK k \in DOMAIN blocks : b \in {k} \X blocks[k].entries
        BY DEF Sound, Leaves
      <4> QED BY <4>1, BlocksOf
    <3>3. ReadFat(blocks, lost).entries \subseteq {b[2] : b \in Sound(blocks, lost)}
      BY DEF ReadFat
    <3> QED BY <3>1, <3>2, <3>3
  <2>3. CASE blocks[1].kind # "micro" /\ blocks[1].kind # "header"
    <3>1. Read(blocks, lost) = Nothing({})
      BY <1>3, <2>3 DEF Read
    <3> QED BY <1>1, <3>1
  <2> QED BY <2>1, <2>2, <2>3
<1> QED BY <1>2, <1>3

\* There are finitely many entries, written or read.
LEMMA FiniteEntries ==
  ASSUME NEW os \in DOMAIN Objects, NEW o \in DOMAIN Objects[os]
  PROVE  IsFiniteSet(AllEntries(os, o)) /\ IsFiniteSet(ReadZap(os, o).entries)
<1> DEFINE blocks == Objects[os][o].blocks
           f == [k \in DOMAIN blocks |-> blocks[k].entries]
           S == {blocks[k].entries : k \in DOMAIN blocks}
<1>1. IsFiniteSet(DOMAIN blocks)
  BY BlocksOf, FS_Interval
<1>2. f \in Surjection(DOMAIN blocks, S)
  BY DEF Surjection
<1>3. IsFiniteSet(S)
  <2> HIDE DEF f, S
  <2> QED BY <1>1, <1>2, FS_Surjection
<1>4. \A T \in S : IsFiniteSet(T)
  BY BlocksOf
<1>5. IsFiniteSet(UNION S)
  <2> HIDE DEF S
  <2> QED BY <1>3, <1>4, FS_UNION
<1>6. AllEntries(os, o) = UNION S
  BY DEF AllEntries
<1>7. IsFiniteSet(AllEntries(os, o))
  BY <1>5, <1>6, Zenon
<1> QED BY <1>7, ReadsWhatIsThere, FS_Subset

\* A name has one value.
LEMMA ValueOfEntry ==
  ASSUME NEW os \in DOMAIN Objects, NEW o, NEW e \in AllEntries(os, o)
  PROVE  /\ ValueOf(os, o, e.name) = e.value
         /\ e.value # NoValue => Lookup(os, o, e.name) = e.value[1]
<1>0. o \in DOMAIN Objects[os]
  BY DEF AllEntries
<1> DEFINE f == CHOOSE f \in AllEntries(os, o) : f.name = e.name
<1>1. f \in AllEntries(os, o) /\ f.name = e.name
  OBVIOUS
<1>2. f.value = e.value
  <2> HIDE DEF f
  <2> QED BY <1>0, <1>1, ObjectsAssumption
<1>3. ValueOf(os, o, e.name) = f.value
  BY DEF ValueOf
<1> QED BY <1>2, <1>3 DEF Lookup

\* What Get() finds is the value that ZFS wrote.
LEMMA GetIsTrue ==
  ASSUME NEW os \in DOMAIN Objects, NEW o \in DOMAIN Objects[os], NEW name,
         Get(ReadZap(os, o), name) # NoValue
  PROVE  /\ Get(ReadZap(os, o), name) = ValueOf(os, o, name)
         /\ Get(ReadZap(os, o), name)[1] = Lookup(os, o, name)
<1> DEFINE z == ReadZap(os, o)
           e == CHOOSE e \in z.entries : e.name = name
<1>1. (\E x \in z.entries : x.name = name) /\ Get(z, name) = e.value
  BY DEF Get
<1>2. e \in z.entries /\ e.name = name
  BY <1>1
<1>3. e \in AllEntries(os, o)
  BY <1>2, ReadsWhatIsThere
<1> HIDE DEF e
<1>4. ValueOf(os, o, name) = e.value
  BY <1>2, <1>3, ValueOfEntry
<1> QED BY <1>1, <1>4 DEF Lookup

-----------------------------------------------------------------------------
(* Paths.                                                                  *)

\* Each object on the way is where the one before leads.
LEMMA FollowedIs ==
  ASSUME NEW os, NEW from, NEW path, IsSeq(path)
  PROVE  LET at == Followed(os, from, path) IN
         /\ DOMAIN at = 0 .. Len(path) /\ at[0] = from
         /\ \A k \in 1 .. Len(path) : at[k] = Leads(os, at[k - 1], path[k])
<1> DEFINE n == Len(path)
           Upto(m, f) == f = [k \in 0 .. m |-> IF k = 0 THEN from ELSE Leads(os, f[k - 1], path[k])]
           Never == {m \in 0 .. n : ~\E f : Upto(m, f)}
<1>1. n \in Nat
  BY LenProperties DEF IsSeq
<1>2. Never = {}
  <2> SUFFICES ASSUME Never # {} PROVE FALSE
    OBVIOUS
  <2>1. PICK m \in Never : \A j \in Never : m <= j
    <3>1. Never \in SUBSET Nat
      BY <1>1
    <3> HIDE DEF Never
    <3> QED BY <3>1, LeastExists
  <2>2. CASE m = 0
    <3> DEFINE f == [k \in 0 .. 0 |-> from]
    <3>1. f = [k \in 0 .. 0 |-> IF k = 0 THEN from ELSE Leads(os, f[k - 1], path[k])]
      OBVIOUS
    <3>2. Upto(0, f)
      BY <3>1
    <3> HIDE DEF Upto
    <3> QED BY <2>1, <2>2, <3>2
  <2>3. CASE m # 0
    <3>0. m \in Nat /\ m - 1 \in 0 .. n /\ m \in 0 .. n
      BY <1>1, <2>1, <2>3
    <3>1. m - 1 \notin Never
      <4> HIDE DEF Never
      <4> QED BY <2>1, <3>0
    <3>2. PICK f : Upto(m - 1, f)
      BY <3>0, <3>1
    <3> DEFINE g == [k \in 0 .. m |-> IF k < m THEN f[k] ELSE Leads(os, f[m - 1], path[m])]
    <3>3. ASSUME NEW k \in 0 .. m
          PROVE  g[k] = IF k = 0 THEN from ELSE Leads(os, g[k - 1], path[k])
      <4>1. CASE k = 0
        <5>1. g[0] = f[0] /\ f[0] = from
          BY <2>3, <3>0, <3>2
        <5> QED BY <4>1, <5>1
      <4>2. CASE k # 0 /\ k < m
        <5>1. g[k] = f[k] /\ g[k - 1] = f[k - 1] /\ k \in 0 .. m - 1
          BY <3>0, <4>2
        <5>2. f[k] = Leads(os, f[k - 1], path[k])
          BY <3>2, <4>2, <5>1
        <5> QED BY <4>2, <5>1, <5>2
      <4>3. CASE k = m
        BY <2>3, <3>0, <4>3
      <4> QED BY <3>0, <4>1, <4>2, <4>3
    <3>4. g = [k \in 0 .. m |-> g[k]]
      OBVIOUS
    <3>5. [k \in 0 .. m |-> g[k]] = [k \in 0 .. m |-> IF k = 0 THEN from ELSE Leads(os, g[k - 1], path[k])]
      <4> HIDE DEF g
      <4> QED BY <3>3
    <3>6. Upto(m, g)
      <4> HIDE DEF g
      <4> QED BY <3>4, <3>5, Zenon
    <3> HIDE DEF Upto, g
    <3> QED BY <2>1, <3>6
  <2> QED BY <2>2, <2>3
<1>3. \E f : Upto(n, f)
  BY <1>1, <1>2
<1> DEFINE at == Followed(os, from, path)
<1>4. at = CHOOSE f : Upto(n, f)
  BY DEF Followed
<1>5. Upto(n, at)
  <2> HIDE DEF Upto, at
  <2> QED BY <1>3, <1>4, Zenon
<1> HIDE DEF at
<1>6. DOMAIN at = 0 .. n /\ at[0] = from /\ \A k \in 1 .. n : at[k] = Leads(os, at[k - 1], path[k])
  BY <1>1, <1>5
<1> QED BY <1>6 DEF at

\* Each directory on the way is a child of the one before.
LEMMA DescentIs ==
  ASSUME NEW mos, NEW path, IsSeq(path)
  PROVE  LET at == Descent(mos, path) IN
         /\ DOMAIN at = 0 .. Len(path) /\ at[0] = RootDir(mos)
         /\ \A k \in 1 .. Len(path) : at[k] = Child(mos, at[k - 1], path[k])
<1> DEFINE n == Len(path)
           Upto(m, f) == f = [k \in 0 .. m |-> IF k = 0 THEN RootDir(mos) ELSE Child(mos, f[k - 1], path[k])]
           Never == {m \in 0 .. n : ~\E f : Upto(m, f)}
<1>1. n \in Nat
  BY LenProperties DEF IsSeq
<1>2. Never = {}
  <2> SUFFICES ASSUME Never # {} PROVE FALSE
    OBVIOUS
  <2>1. PICK m \in Never : \A j \in Never : m <= j
    <3>1. Never \in SUBSET Nat
      BY <1>1
    <3> HIDE DEF Never
    <3> QED BY <3>1, LeastExists
  <2>2. CASE m = 0
    <3> DEFINE f == [k \in 0 .. 0 |-> RootDir(mos)]
    <3>1. f = [k \in 0 .. 0 |-> IF k = 0 THEN RootDir(mos) ELSE Child(mos, f[k - 1], path[k])]
      OBVIOUS
    <3>2. Upto(0, f)
      BY <3>1
    <3> HIDE DEF Upto
    <3> QED BY <2>1, <2>2, <3>2
  <2>3. CASE m # 0
    <3>0. m \in Nat /\ m - 1 \in 0 .. n /\ m \in 0 .. n
      BY <1>1, <2>1, <2>3
    <3>1. m - 1 \notin Never
      <4> HIDE DEF Never
      <4> QED BY <2>1, <3>0
    <3>2. PICK f : Upto(m - 1, f)
      BY <3>0, <3>1
    <3> DEFINE g == [k \in 0 .. m |-> IF k < m THEN f[k] ELSE Child(mos, f[m - 1], path[m])]
    <3>3. ASSUME NEW k \in 0 .. m
          PROVE  g[k] = IF k = 0 THEN RootDir(mos) ELSE Child(mos, g[k - 1], path[k])
      <4>1. CASE k = 0
        <5>1. g[0] = f[0] /\ f[0] = RootDir(mos)
          BY <2>3, <3>0, <3>2
        <5> QED BY <4>1, <5>1
      <4>2. CASE k # 0 /\ k < m
        <5>1. g[k] = f[k] /\ g[k - 1] = f[k - 1] /\ k \in 0 .. m - 1
          BY <3>0, <4>2
        <5>2. f[k] = Child(mos, f[k - 1], path[k])
          BY <3>2, <4>2, <5>1
        <5> QED BY <4>2, <5>1, <5>2
      <4>3. CASE k = m
        BY <2>3, <3>0, <4>3
      <4> QED BY <3>0, <4>1, <4>2, <4>3
    <3>4. g = [k \in 0 .. m |-> g[k]]
      OBVIOUS
    <3>5. [k \in 0 .. m |-> g[k]] = [k \in 0 .. m |-> IF k = 0 THEN RootDir(mos) ELSE Child(mos, g[k - 1], path[k])]
      <4> HIDE DEF g
      <4> QED BY <3>3
    <3>6. Upto(m, g)
      <4> HIDE DEF g
      <4> QED BY <3>4, <3>5, Zenon
    <3> HIDE DEF Upto, g
    <3> QED BY <2>1, <3>6
  <2> QED BY <2>2, <2>3
<1>3. \E f : Upto(n, f)
  BY <1>1, <1>2
<1> DEFINE at == Descent(mos, path)
<1>4. at = CHOOSE f : Upto(n, f)
  BY DEF Descent
<1>5. Upto(n, at)
  <2> HIDE DEF Upto, at
  <2> QED BY <1>3, <1>4, Zenon
<1> HIDE DEF at
<1>6. DOMAIN at = 0 .. n /\ at[0] = RootDir(mos) /\ \A k \in 1 .. n : at[k] = Child(mos, at[k - 1], path[k])
  BY <1>1, <1>5
<1> QED BY <1>6 DEF at

\* A name more leads to a child.
LEMMA DescentOn ==
  ASSUME NEW mos, NEW path, IsSeq(path), NEW name
  PROVE  Descent(mos, Append(path, name))[Len(path) + 1] = Child(mos, Descent(mos, path)[Len(path)], name)
<1> DEFINE n == Len(path)
           more == Append(path, name)
           f == Descent(mos, path)
           g == Descent(mos, more)
           Differ == {k \in 0 .. n : f[k] # g[k]}
<1>1. n \in Nat
  BY LenProperties DEF IsSeq
<1>2. IsSeq(more) /\ Len(more) = n + 1 /\ more[n + 1] = name /\ \A k \in 1 .. n : more[k] = path[k]
  BY AppendOne
<1>3. f[0] = RootDir(mos) /\ \A k \in 1 .. n : f[k] = Child(mos, f[k - 1], path[k])
  BY DescentIs
<1>4. g[0] = RootDir(mos) /\ \A k \in 1 .. Len(more) : g[k] = Child(mos, g[k - 1], more[k])
  <2> HIDE DEF more
  <2> QED BY <1>2, DescentIs
<1> HIDE DEF f, g, more
<1>5. Differ = {}
  <2> SUFFICES ASSUME Differ # {} PROVE FALSE
    OBVIOUS
  <2>1. PICK m \in Differ : \A j \in Differ : m <= j
    <3>1. Differ \in SUBSET Nat
      BY <1>1
    <3> HIDE DEF Differ
    <3> QED BY <3>1, LeastExists
  <2>2. m # 0 /\ m \in 1 .. n /\ m \in 1 .. n + 1 /\ m - 1 \in 0 .. n
    BY <1>1, <1>3, <1>4, <2>1
  <2>3. f[m - 1] = g[m - 1]
    BY <2>1, <2>2
  <2>4. f[m] = g[m]
    BY <1>2, <1>3, <1>4, <2>2, <2>3
  <2> QED BY <2>1, <2>4
<1>6. n \in 0 .. n /\ n + 1 \in 1 .. n + 1 /\ n + 1 - 1 = n
  BY <1>1
<1>7. f[n] = g[n]
  BY <1>5, <1>6
<1>8. g[n + 1] = Child(mos, g[n], name)
  BY <1>2, <1>4, <1>6
<1> QED BY <1>7, <1>8 DEF f, g, more

\* A component before a path leads where the path starts.
LEMMA FollowedFrom ==
  ASSUME NEW os, NEW from, NEW path, IsSeq(path), NEW c
  PROVE  /\ IsSeq(<<c>> \o path) /\ Len(<<c>> \o path) = Len(path) + 1
         /\ Followed(os, from, <<c>> \o path)[Len(path) + 1] = Followed(os, Leads(os, from, c), path)[Len(path)]
<1> DEFINE n == Len(path)
           more == <<c>> \o path
           next == Leads(os, from, c)
           f == Followed(os, next, path)
           g == Followed(os, from, more)
           Differ == {k \in 0 .. n : f[k] # g[k + 1]}
<1>1. n \in Nat
  BY LenProperties DEF IsSeq
<1>2. IsSeq(more) /\ Len(more) = n + 1 /\ more[1] = c /\ \A k \in 1 .. n : more[k + 1] = path[k]
  <2>1. <<c>> \in Seq({c} \cup ToSet(path)) /\ Len(<<c>>) = 1 /\ <<c>>[1] = c
    OBVIOUS
  <2>2. path \in Seq({c} \cup ToSet(path))
    BY SeqMonotonic DEF IsSeq
  <2>3. more \in Seq({c} \cup ToSet(path)) /\ Len(more) = 1 + n
    BY <2>1, <2>2, ConcatProperties
  <2>4. \A i \in 1 .. 1 + n : more[i] = IF i <= 1 THEN <<c>>[i] ELSE path[i - 1]
    BY <2>1, <2>2, ConcatProperties
  <2>5. more[1] = c
    BY <1>1, <2>1, <2>4
  <2>6. \A k \in 1 .. n : more[k + 1] = path[k]
    <3> HIDE DEF more
    <3> QED BY <1>1, <2>4
  <2> HIDE DEF more
  <2>7. IsSeq(more)
    BY <2>3, SeqIsSeq
  <2> QED BY <1>1, <2>3, <2>5, <2>6, <2>7
<1>3. f[0] = next /\ \A k \in 1 .. n : f[k] = Leads(os, f[k - 1], path[k])
  BY FollowedIs
<1>4. g[0] = from /\ \A k \in 1 .. Len(more) : g[k] = Leads(os, g[k - 1], more[k])
  <2> HIDE DEF more
  <2> QED BY <1>2, FollowedIs
<1> HIDE DEF f, g, more
<1>5. g[1] = next
  <2>1. 1 \in 1 .. Len(more) /\ 1 - 1 = 0
    BY <1>1, <1>2
  <2> QED BY <1>2, <1>4, <2>1
<1>6. Differ = {}
  <2> SUFFICES ASSUME Differ # {} PROVE FALSE
    OBVIOUS
  <2>1. PICK m \in Differ : \A j \in Differ : m <= j
    <3>1. Differ \in SUBSET Nat
      BY <1>1
    <3> HIDE DEF Differ
    <3> QED BY <3>1, LeastExists
  <2>2. m # 0 /\ m \in 1 .. n /\ m + 1 \in 1 .. Len(more) /\ m - 1 \in 0 .. n /\ m - 1 + 1 = m /\ m + 1 - 1 = m
    BY <1>1, <1>2, <1>3, <1>5, <2>1
  <2>3. f[m - 1] = g[m]
    BY <2>1, <2>2
  <2>4. f[m] = g[m + 1]
    BY <1>2, <1>3, <1>4, <2>2, <2>3
  <2> QED BY <2>1, <2>4
<1>7. f[n] = g[n + 1]
  BY <1>1, <1>6
<1> QED BY <1>2, <1>7 DEF f, g, more

\* A path of one component, or none.
LEMMA NoComponent ==
  ASSUME NEW os, NEW from
  PROVE  Followed(os, from, <<>>)[Len(<<>>)] = from
BY FollowedIs, EmptyIsSeq, EmptySeq

-----------------------------------------------------------------------------
(* The names of datasets.                                                  *)

\* The name of the root directory has no component.
LEMMA RootNamed ==
  ASSUME NEW mos
  PROVE  IsSeq(<<>>) /\ TrueDir(mos, <<>>) = RootDir(mos)
<1>1. Len(<<>>) = 0
  BY EmptySeq
<1> QED BY <1>1, EmptyIsSeq, DescentIs DEF TrueDir

\* The directory that the descent starts from is the root one.
LEMMA RacineIsRoot ==
  ASSUME cmd.mos \in DOMAIN Objects, Racine # NoObject
  PROVE  Racine = RootDir(cmd.mos)
<1> DEFINE z == ReadZap(cmd.mos, ObjectDirectory)
<1>1. /\ Present(cmd.mos, ObjectDirectory) /\ Get(z, "root_dataset") # NoValue
      /\ Racine = Get(z, "root_dataset")[1]
  BY DEF Racine, ReadMosZap
<1>2. ObjectDirectory \in DOMAIN Objects[cmd.mos]
  BY <1>1 DEF Present
<1> HIDE DEF z
<1>3. Get(z, "root_dataset")[1] = Lookup(cmd.mos, ObjectDirectory, "root_dataset")
  BY <1>1, <1>2, GetIsTrue DEF z
<1> QED BY <1>1, <1>3 DEF RootDir

\* A child of a directory is named after it.
LEMMA ChildNamed ==
  ASSUME NEW mos \in DOMAIN Objects, NEW path, IsSeq(path), TrueDir(mos, path) \in DslDirs(mos),
         NEW e \in AllEntries(mos, Objects[mos][TrueDir(mos, path)].children), e.value # NoValue
  PROVE  IsSeq(Append(path, e.name)) /\ TrueDir(mos, Append(path, e.name)) = e.value[1]
<1> DEFINE d == TrueDir(mos, path)
<1>1. IsSeq(Append(path, e.name)) /\ Len(Append(path, e.name)) = Len(path) + 1
  BY AppendOne
<1>2. TrueDir(mos, Append(path, e.name)) = Child(mos, d, e.name)
  BY <1>1, DescentOn DEF TrueDir
<1>3. Child(mos, d, e.name) = Lookup(mos, Objects[mos][d].children, e.name)
  BY DEF Child
<1>4. Lookup(mos, Objects[mos][d].children, e.name) = e.value[1]
  BY ValueOfEntry
<1> QED BY <1>1, <1>2, <1>3, <1>4

\* A directory that waits is under its name.
OnPath(mos, p) == IsSeq(p[2]) /\ TrueDir(mos, p[2]) = p[1]

\* What is read of the children of a directory is under its name.
LEMMA ChildrenOnPath ==
  ASSUME NEW mos \in DOMAIN Objects, NEW d \in DslDirs(mos), NEW path, IsSeq(path), TrueDir(mos, path) = d,
         Objects[mos][d].children \in DOMAIN Objects[mos], NEW depth,
         NEW p \in Children(ReadZap(mos, Objects[mos][d].children), path, depth)
  PROVE  OnPath(mos, p)
<1> DEFINE z == ReadZap(mos, Objects[mos][d].children)
<1>1. PICK e \in Entries(z) : p = <<e.value[1], Append(path, e.name), depth + 1>>
  BY DEF Children
<1>2. e \in z.entries /\ e.value # NoValue
  BY DEF Entries
<1> HIDE DEF z
<1>3. e \in AllEntries(mos, Objects[mos][d].children)
  BY <1>2, ReadsWhatIsThere DEF z
<1>4. IsSeq(Append(path, e.name)) /\ TrueDir(mos, Append(path, e.name)) = e.value[1]
  BY <1>2, <1>3, ChildNamed
<1>5. p[1] = e.value[1] /\ p[2] = Append(path, e.name)
  BY <1>1
<1> QED BY <1>4, <1>5 DEF OnPath

\* A dataset is one, under a name that is its own.
GoodEntry(c, e) ==
  /\ e.oid \in DOMAIN Objects[c.mos] /\ Objects[c.mos][e.oid].bonus = "dsl_dataset"
  /\ e.name.oid = NoObject => IsDatasetName(c.mos, e.name, e.oid)
  /\ e.name.oid # NoObject => e.name.oid = e.oid /\ c.scan

\* Names given by the scan.
NamesGood(mos, names) == \A o \in DOMAIN names : IsSeq(names[o]) /\ TrueDir(mos, names[o]) = o

\* The name of a snapshot is never the one that stands for none.
LEMMA SnapshotHasName ==
  ASSUME NEW mos \in {c.mos : c \in Commands}, NEW ds \in DOMAIN Objects[mos],
         Objects[mos][ds].bonus = "dsl_dataset", NEW e \in AllEntries(mos, Objects[mos][ds].snapnames)
  PROVE  e.name # ""
BY MosAssumption DEF DslDatasets

\* What a name is made of.
LEMMA NameFields ==
  ASSUME NEW p, NEW s, NEW n
  PROVE  /\ n = Named(p, s) => n.path = p /\ n.snap = s /\ n.oid = NoObject
         /\ n = Named(p, "") => n.path = p /\ n.snap = "" /\ n.oid = NoObject
         /\ n = Synthetic(p) => n.oid = p
<1>1. /\ Named(p, s).path = p /\ Named(p, s).snap = s /\ Named(p, s).oid = NoObject
      /\ Named(p, "").path = p /\ Named(p, "").snap = "" /\ Named(p, "").oid = NoObject /\ Synthetic(p).oid = p
  BY DEF Named, Synthetic, DatasetName
<1> QED BY <1>1, Zenon

\* The scan names a dataset after its directory, or after the one that lists it, or
\* by its number.
LEMMA ScanNameGood ==
  ASSUME cmd.mos \in DOMAIN Objects, cmd.mos \in {c.mos : c \in Commands}, cmd.scan,
         NamesGood(cmd.mos, noms), NEW ds \in Found
  PROVE  GoodEntry(cmd, [oid |-> ds, name |-> ScanName(ds)])
<1> DEFINE mos == cmd.mos
           of == {d \in Repertoires \cap DOMAIN noms : \E e \in Snapshots(Mos(d).head) : e.value[1] = ds}
<1>1. ds \in DOMAIN Objects[mos] /\ Objects[mos][ds].bonus = "dsl_dataset" /\ ds # NoObject
  BY ObjectsAssumption DEF Found, ReadBonus, Mos
<1>2. /\ Repertoires \subseteq DOMAIN Objects[mos] /\ Repertoires \subseteq DslDirs(mos)
      /\ DOMAIN Objects[mos] \subseteq Nat \ {NoObject} /\ IsFiniteSet(DOMAIN Objects[mos])
  BY ObjectsAssumption DEF Repertoires, ReadBonus, Mos, DslDirs
<1>3. Heads(ds) \in SUBSET Nat /\ of \in SUBSET Nat /\ IsFiniteSet(Heads(ds))
  <2>1. Heads(ds) \in SUBSET DOMAIN Objects[mos] /\ of \in SUBSET DOMAIN Objects[mos]
    BY <1>2 DEF Heads
  <2> QED BY <1>2, <2>1, FS_Subset
<1>4. ASSUME Heads(ds) # {}
      PROVE  ScanName(ds) = Named(noms[Max(Heads(ds))], "") /\ IsDatasetName(mos, ScanName(ds), ds)
  <2> DEFINE d == Max(Heads(ds))
  <2>1. d \in Heads(ds)
    BY <1>3, <1>4, GreatestExists
  <2>2. d \in Repertoires /\ d \in DOMAIN noms /\ Mos(d).head = ds
    BY <2>1 DEF Heads
  <2>3. ScanName(ds) = Named(noms[d], "")
    BY <1>4 DEF ScanName
  <2>4. ScanName(ds).path = noms[d] /\ ScanName(ds).snap = ""
    <3> DEFINE path == noms[d]
    <3>1. ScanName(ds) = Named(path, "")
      BY <2>3
    <3> HIDE DEF d, path
    <3>2. ScanName(ds).path = path /\ ScanName(ds).snap = ""
      BY <3>1, NameFields
    <3> QED BY <3>2 DEF path
  <2>5. TrueDir(mos, noms[d]) = d /\ d # NoObject
    BY <1>2, <2>2 DEF NamesGood
  <2> QED BY <2>2, <2>3, <2>4, <2>5 DEF IsDatasetName, Mos
<1>5. ASSUME Heads(ds) = {}, of # {}
      PROVE  ScanName(ds).oid = NoObject /\ IsDatasetName(mos, ScanName(ds), ds)
  <2> DEFINE d == Min(of)
             zap == Mos(Mos(d).head).snapnames
             e == CHOOSE e \in Snapshots(Mos(d).head) : e.value[1] = ds
  <2>1. d \in of
    BY <1>3, <1>5, LeastExists
  <2>2. e \in Snapshots(Mos(d).head) /\ e.value[1] = ds
    BY <2>1
  <2>3. ScanName(ds) = Named(noms[d], e.name)
    BY <1>5 DEF ScanName
  <2>4. ScanName(ds).path = noms[d] /\ ScanName(ds).snap = e.name /\ ScanName(ds).oid = NoObject
    <3> DEFINE path == noms[d]
               text == e.name
    <3>1. ScanName(ds) = Named(path, text)
      BY <2>3
    <3> HIDE DEF path, text, d, e
    <3>2. Named(path, text).path = path /\ Named(path, text).snap = text /\ Named(path, text).oid = NoObject
      BY DEF Named, DatasetName
    <3>3. ScanName(ds).path = path /\ ScanName(ds).snap = text /\ ScanName(ds).oid = NoObject
      BY <3>1, <3>2, Zenon
    <3> QED BY <3>3 DEF path, text
  <2>5. /\ Mos(d).head \in Found /\ zap \in DOMAIN Objects[mos]
        /\ e \in ReadZap(mos, zap).entries /\ e.value # NoValue
    <3> HIDE DEF e, d
    <3> QED BY <2>2 DEF Snapshots, Present, Entries, ReadMosZap
  <2>6. e \in AllEntries(mos, zap)
    <3> HIDE DEF e, zap
    <3> QED BY <2>5, ReadsWhatIsThere
  <2>7. Lookup(mos, zap, e.name) = ds
    <3> HIDE DEF e, zap
    <3> QED BY <2>2, <2>5, <2>6, ValueOfEntry
  <2>8. Mos(d).head \in DOMAIN Objects[mos] /\ Mos(Mos(d).head).bonus = "dsl_dataset"
    BY <2>5 DEF Found, ReadBonus
  <2>9. e.name # ""
    <3> HIDE DEF e, d
    <3> QED BY <2>6, <2>8, SnapshotHasName DEF Mos
  <2>10. TrueDir(mos, noms[d]) = d /\ d # NoObject
    BY <1>2, <2>1 DEF NamesGood
  <2> HIDE DEF e, d
  <2> QED BY <2>4, <2>7, <2>9, <2>10 DEF IsDatasetName, Mos
<1>6. ASSUME Heads(ds) = {}, of = {} PROVE ScanName(ds) = Synthetic(ds)
  BY <1>6 DEF ScanName
<1>7. CASE Heads(ds) # {}
  <2>1. ScanName(ds).oid = NoObject
    <3> DEFINE path == noms[Max(Heads(ds))]
    <3>1. ScanName(ds) = Named(path, "")
      BY <1>4, <1>7
    <3> HIDE DEF path
    <3> QED BY <3>1, NameFields
  <2> QED BY <1>1, <1>4, <1>7, <2>1 DEF GoodEntry
<1>8. CASE Heads(ds) = {} /\ of # {}
  BY <1>1, <1>5, <1>8 DEF GoodEntry
<1>9. CASE Heads(ds) = {} /\ of = {}
  <2>1. ScanName(ds).oid = ds
    BY <1>6, <1>9, NameFields
  <2> QED BY <1>1, <2>1 DEF GoodEntry
<1> QED BY <1>7, <1>8, <1>9

\* A directory has finitely many children.
LEMMA FiniteChildren ==
  ASSUME NEW os \in DOMAIN Objects, NEW o \in DOMAIN Objects[os], NEW path, NEW depth
  PROVE  IsFiniteSet(Children(ReadZap(os, o), path, depth)) /\ IsFiniteSet(Children(Nothing({}), path, depth))
<1>1. ASSUME NEW z, IsFiniteSet(z.entries) PROVE IsFiniteSet(Children(z, path, depth))
  <2> DEFINE f == [e \in Entries(z) |-> <<e.value[1], Append(path, e.name), depth + 1>>]
             S == Children(z, path, depth)
  <2>1. f \in Surjection(Entries(z), S)
    BY DEF Surjection, Children
  <2>2. IsFiniteSet(Entries(z))
    BY <1>1, FS_Subset DEF Entries
  <2> HIDE DEF f, S
  <2>3. IsFiniteSet(S)
    BY <2>1, <2>2, FS_Surjection
  <2> QED BY <2>3 DEF S
<1>2. IsFiniteSet(ReadZap(os, o).entries) /\ IsFiniteSet(Nothing({}).entries)
  BY FiniteEntries, FS_EmptySet DEF Nothing
<1> QED BY <1>1, <1>2

-----------------------------------------------------------------------------
(* Finding the datasets.                                                   *)

\* What waits is under its name, on the way down as in the scan, where it has
\* been given one; datasets are under theirs.
OnTheWay ==
  /\ IsSeq(pending) /\ \A p \in ToSet(pending) : OnPath(cmd.mos, p)
  /\ pc = "names" => \A p \in ToSet(pending) : p[1] \in DOMAIN noms
Opened ==
  /\ entries # <<>> /\ fs = Objset(Current)
  /\ Correspond(Current) /\ ~Mos(Current.oid).hole /\ ObjsetReadable(Objset(Current))
AreGood(es) == IsSeq(es) /\ \A e \in ToSet(es) : GoodEntry(cmd, e)
FindInv ==
  /\ cmd \in Commands
  /\ pc = "start" => pending = <<>>
  /\ pc = "names" => cmd.scan
  /\ pc \in {"sweep", "read", "paths"} => Opened
  /\ OnTheWay
  /\ NamesGood(cmd.mos, noms)
  /\ AreGood(nodes)
  /\ AreGood(entries)

\* At first nothing is found.
LEMMA FindStarts == Init => FindInv
<1> SUFFICES ASSUME Init PROVE FindInv
  OBVIOUS
<1>1. cmd \in Commands /\ pc = "start" /\ pending = <<>> /\ nodes = <<>> /\ noms = <<>> /\ entries = <<>>
  BY DEF Init, DslInit
<1>2. AreGood(nodes) /\ AreGood(entries) /\ OnTheWay
  BY <1>1, EmptyIsSeq DEF AreGood, OnTheWay
<1>3. DOMAIN noms = {}
  BY <1>1
<1> QED BY <1>1, <1>2, <1>3 DEF FindInv, NamesGood

\* The pool of a command is there, and its directories are not numbered 0.
LEMMA MosIsThere ==
  ASSUME cmd \in Commands
  PROVE  /\ cmd.mos \in DOMAIN Objects /\ cmd.mos \in {c.mos : c \in Commands}
         /\ DslDirs(cmd.mos) \subseteq DOMAIN Objects[cmd.mos]
         /\ DOMAIN Objects[cmd.mos] \subseteq Nat \ {NoObject} /\ IsFiniteSet(DOMAIN Objects[cmd.mos])
<1>1. cmd.mos \in DOMAIN Objects
  BY MosAssumption
<1> QED BY <1>1, ObjectsAssumption DEF DslDirs

\* The descent starts with the root, under its name.
LEMMA RootWaits ==
  ASSUME FindInv, Racine # NoObject, pending' = <<<<Racine, <<>>, 0>>>>
  PROVE  /\ IsSeq(pending') /\ \A p \in ToSet(pending') : OnPath(cmd.mos, p) /\ p[1] = Racine
         /\ IsSeq(<<>>) /\ TrueDir(cmd.mos, <<>>) = Racine
<1> DEFINE r == <<Racine, <<>>, 0>>
           s == <<r>>
<1>0. pending' = s
  OBVIOUS
<1>1. Racine = RootDir(cmd.mos)
  BY MosIsThere, RacineIsRoot DEF FindInv
<1>2. IsSeq(<<>>) /\ TrueDir(cmd.mos, <<>>) = Racine
  BY <1>1, RootNamed
<1>3. r[1] = Racine /\ r[2] = <<>>
  OBVIOUS
<1> HIDE DEF r
<1>4. OnPath(cmd.mos, r)
  BY <1>2, <1>3 DEF OnPath
<1>5. s \in Seq({r}) /\ ToSet(s) \subseteq {r}
  BY DEF ToSet
<1> HIDE DEF s
<1>6. IsSeq(s)
  BY <1>5, SeqIsSeq
<1> QED BY <1>0, <1>2, <1>3, <1>4, <1>5, <1>6

\* What is left of what waits, or of what was found, is as it was.
LEMMA TailGood ==
  ASSUME NEW es, IsSeq(es), es # <<>>
  PROVE  IsSeq(Tail(es)) /\ \A e \in ToSet(Tail(es)) : e \in ToSet(es)
BY HeadAndTail

\* Starting the descent or the scan.
LEMMA StartKeepsFind ==
  ASSUME FindInv, StartTree \/ StartScan PROVE FindInv'
<1>1. cmd' = cmd /\ nodes' = nodes /\ entries' = entries /\ FindInv
  BY DEF StartTree, StartScan, FindInv
<1>2. CASE StartTree
  <2>1. noms' = noms /\ pc' \in {"raised", "tree"}
    BY <1>2 DEF StartTree, naming
  <2>2. CASE Racine = NoObject
    <3>1. pending' = pending
      BY <1>2, <2>2 DEF StartTree
    <3> QED BY <1>1, <2>1, <3>1 DEF FindInv, OnTheWay, AreGood
  <2>3. CASE Racine # NoObject
    <3>1. pending' = <<<<Racine, <<>>, 0>>>>
      BY <1>2, <2>3 DEF StartTree
    <3>2. OnTheWay'
      BY <1>1, <2>1, <2>3, <3>1, RootWaits DEF OnTheWay
    <3> QED BY <1>1, <2>1, <3>2 DEF FindInv, AreGood
  <2> QED BY <2>2, <2>3
<1>3. CASE StartScan
  <2>1. pc' = "names" /\ cmd.scan /\ pc = "start"
    BY <1>3 DEF StartScan
  <2>2. CASE Racine = NoObject
    <3>1. pending' = pending /\ noms' = noms
      BY <1>3, <2>2 DEF StartScan
    <3>2. pending = <<>> /\ ToSet(<<>>) = {}
      BY <2>1, EmptyIsSeq DEF FindInv
    <3> QED BY <1>1, <2>1, <3>1, <3>2 DEF FindInv, OnTheWay, AreGood
  <2>3. CASE Racine # NoObject
    <3>1. pending' = <<<<Racine, <<>>, 0>>>> /\ noms' = [o \in {Racine} |-> <<>>]
      BY <1>3, <2>3 DEF StartScan
    <3>2. OnTheWay'
      BY <1>1, <2>1, <2>3, <3>1, RootWaits DEF OnTheWay
    <3>3. NamesGood(cmd.mos, noms)'
      BY <1>1, <2>3, <3>1, RootWaits DEF NamesGood
    <3> QED BY <1>1, <2>1, <3>2, <3>3 DEF FindInv, AreGood
  <2> QED BY <2>2, <2>3
<1> QED BY <1>2, <1>3

\* Visiting a directory: its dataset is under its name, its children wait under theirs.
LEMMA VisitKeepsFind ==
  ASSUME FindInv, VisitDir PROVE FindInv'
<1> DEFINE mos == cmd.mos
           p == Head(pending)
           d == Mos(p[1])
           ds == d.head
           name == p[2]
           listed == d.children # NoObject /\ Present(mos, d.children)
           sub == IF listed THEN Children(ReadMosZap(d.children), name, p[3]) ELSE {}
           new == [oid |-> ds, name |-> Named(name, "")]
<1>1. /\ pc = "tree" /\ pc' = pc /\ cmd' = cmd /\ noms' = noms /\ entries' = entries
      /\ pending # <<>> /\ ReadBonus(p[1], "dsl_dir")
      /\ pending' = SetToSeq(sub) \o Tail(pending)
      /\ nodes' = IF ReadBonus(ds, "dsl_dataset") THEN Append(nodes, new) ELSE nodes
  BY DEF VisitDir, naming
<1>2. cmd \in Commands /\ IsSeq(pending) /\ NamesGood(mos, noms) /\ AreGood(nodes) /\ AreGood(entries)
      /\ \A q \in ToSet(pending) : OnPath(mos, q)
  BY DEF FindInv, OnTheWay
<1>3. IsSeq(Tail(pending)) /\ p \in ToSet(pending) /\ ToSet(Tail(pending)) \subseteq ToSet(pending)
  BY <1>1, <1>2, HeadAndTail
<1> HIDE DEF p
<1>4. p[1] \in DslDirs(mos) /\ IsSeq(name) /\ TrueDir(mos, name) = p[1]
  BY <1>1, <1>2, <1>3 DEF ReadBonus, Present, DslDirs, OnPath, Mos
<1> HIDE DEF name
<1>5. mos \in DOMAIN Objects /\ p[1] \in DOMAIN Objects[mos] /\ p[1] # NoObject
  BY <1>2, <1>4, MosIsThere
<1>6. IsFiniteSet(sub) /\ \A q \in sub : OnPath(mos, q)
  <2>1. CASE listed
    <3>1. Mos(p[1]).children \in DOMAIN Objects[mos]
      BY <2>1 DEF Present
    <3>2. d.children = Objects[mos][p[1]].children
      BY DEF Mos
    <3>3. sub = Children(ReadZap(mos, d.children), name, p[3])
      BY <2>1 DEF ReadMosZap
    <3> HIDE DEF sub
    <3> QED BY <1>4, <1>5, <3>1, <3>2, <3>3, FiniteChildren, ChildrenOnPath
  <2>2. CASE ~listed
    BY <2>2, FS_EmptySet
  <2> QED BY <2>1, <2>2
<1> HIDE DEF sub
<1>7. SetToSeq(sub) \in Seq(sub) /\ ToSet(SetToSeq(sub)) = sub
  BY <1>6, SetToSeqTakesAll
<1>8. IsSeq(pending') /\ \A q \in ToSet(pending') : OnPath(mos, q)
  <2>1. IsSeq(SetToSeq(sub))
    BY <1>7, SeqIsSeq
  <2>2. IsSeq(pending') /\ ToSet(pending') = ToSet(SetToSeq(sub)) \cup ToSet(Tail(pending))
    BY <1>1, <1>3, <2>1, Joined
  <2> QED BY <1>2, <1>3, <1>6, <1>7, <2>2
<1>9. AreGood(nodes)'
  <2>1. CASE ReadBonus(ds, "dsl_dataset")
    <3>1. ds \in DOMAIN Objects[mos] /\ Objects[mos][ds].bonus = "dsl_dataset" /\ ds = Objects[mos][p[1]].head
      BY <2>1 DEF ReadBonus, Present, Mos
    <3>2. new.oid = ds /\ new.name = Named(name, "")
      <4> DEFINE n == Named(name, "")
      <4>1. new = [oid |-> ds, name |-> n]
        OBVIOUS
      <4> HIDE DEF n
      <4> QED BY <4>1 DEF n
    <3> HIDE DEF ds, new
    <3>3. new.name.path = name /\ new.name.snap = "" /\ new.name.oid = NoObject
      BY <3>2, NameFields
    <3>4. GoodEntry(cmd, new)
      BY <1>4, <1>5, <3>1, <3>2, <3>3 DEF GoodEntry, IsDatasetName
    <3>5. nodes' = Append(nodes, new)
      BY <1>1, <2>1 DEF ds
    <3>6. IsSeq(nodes') /\ ToSet(nodes') = ToSet(nodes) \cup {new}
      BY <1>2, <3>5, AppendOne DEF AreGood
    <3> QED BY <1>1, <1>2, <3>4, <3>6 DEF AreGood
  <2>2. CASE ~ReadBonus(ds, "dsl_dataset")
    BY <1>1, <1>2, <2>2 DEF AreGood
  <2> QED BY <2>1, <2>2
<1>10. OnTheWay' /\ AreGood(entries)'
  BY <1>1, <1>2, <1>8 DEF OnTheWay, AreGood
<1> QED BY <1>1, <1>2, <1>9, <1>10 DEF FindInv

\* Naming the children of a directory.
LEMMA NameKeepsFind ==
  ASSUME FindInv, NameChildren PROVE FindInv'
<1> DEFINE mos == cmd.mos
           d == Last1
           z == IF d \notin vus /\ d \in Repertoires /\ Mos(d).children # NoObject /\ Present(mos, Mos(d).children)
                THEN ReadMosZap(Mos(d).children) ELSE Nothing({})
           sub == Children(z, noms[d], 0)
           new(o) == (CHOOSE s \in sub : s[1] = o)[2]
<1>1. /\ pc = "names" /\ pc' = pc /\ cmd' = cmd /\ nodes' = nodes /\ entries' = entries /\ pending # <<>>
      /\ noms' = [o \in DOMAIN noms \cup {s[1] : s \in sub} |-> IF \E s \in sub : s[1] = o THEN new(o) ELSE noms[o]]
      /\ pending' = Front(pending) \o SetToSeq(sub)
  BY DEF NameChildren
<1>2. /\ cmd \in Commands /\ cmd.scan /\ IsSeq(pending) /\ NamesGood(mos, noms) /\ AreGood(nodes) /\ AreGood(entries)
      /\ \A q \in ToSet(pending) : OnPath(mos, q) /\ q[1] \in DOMAIN noms
  BY <1>1 DEF FindInv, OnTheWay
<1>3. IsSeq(Front(pending)) /\ ToSet(pending) = ToSet(Front(pending)) \cup {Last(pending)}
  BY <1>1, <1>2, FrontAndLast
<1>4. d \in DOMAIN noms /\ IsSeq(noms[d]) /\ TrueDir(mos, noms[d]) = d
  BY <1>2, <1>3 DEF NamesGood, Last1
<1> HIDE DEF d
<1>5. IsFiniteSet(sub) /\ \A q \in sub : OnPath(mos, q)
  <2> DEFINE children == Mos(d).children
  <2>0. mos \in DOMAIN Objects
    BY <1>2, MosIsThere
  <2>1. CASE d \notin vus /\ d \in Repertoires /\ children # NoObject /\ Present(mos, children)
    <3>1. d \in DslDirs(mos) /\ children = Objects[mos][d].children /\ children \in DOMAIN Objects[mos]
      BY <2>1 DEF Repertoires, ReadBonus, Present, DslDirs, Mos
    <3>2. z = ReadZap(mos, children)
      BY <2>1 DEF ReadMosZap
    <3> HIDE DEF z
    <3> QED BY <1>4, <2>0, <3>1, <3>2, FiniteChildren, ChildrenOnPath
  <2>2. CASE ~(d \notin vus /\ d \in Repertoires /\ children # NoObject /\ Present(mos, children))
    <3>1. z = Nothing({})
      BY <2>2
    <3> HIDE DEF z
    <3>2. sub = {}
      BY <3>1 DEF Children, Entries, Nothing
    <3> QED BY <3>2, FS_EmptySet
  <2> QED BY <2>1, <2>2
<1> HIDE DEF sub
<1>6. SetToSeq(sub) \in Seq(sub) /\ ToSet(SetToSeq(sub)) = sub
  BY <1>5, SetToSeqTakesAll
<1>7. IsSeq(pending') /\ ToSet(pending') = ToSet(Front(pending)) \cup sub
  <2>1. IsSeq(SetToSeq(sub))
    BY <1>6, SeqIsSeq
  <2> QED BY <1>1, <1>3, <1>6, <2>1, Joined
<1>8. DOMAIN noms' = DOMAIN noms \cup {s[1] : s \in sub}
  BY <1>1
<1>9. OnTheWay'
  BY <1>1, <1>2, <1>3, <1>5, <1>7, <1>8 DEF OnTheWay
<1>10. ASSUME NEW o \in DOMAIN noms' PROVE IsSeq(noms'[o]) /\ TrueDir(mos, noms'[o]) = o
  <2>1. CASE \E s \in sub : s[1] = o
    <3> DEFINE s == CHOOSE s \in sub : s[1] = o
    <3>1. s \in sub /\ s[1] = o /\ noms'[o] = s[2]
      BY <1>1, <1>8, <2>1
    <3> HIDE DEF s
    <3> QED BY <1>5, <3>1 DEF OnPath
  <2>2. CASE ~\E s \in sub : s[1] = o
    <3>1. o \in DOMAIN noms /\ noms'[o] = noms[o]
      BY <1>1, <1>8, <2>2
    <3> QED BY <1>2, <3>1 DEF NamesGood
  <2> QED BY <2>1, <2>2
<1>11. NamesGood(cmd.mos, noms)' /\ AreGood(nodes)' /\ AreGood(entries)'
  BY <1>1, <1>2, <1>10 DEF NamesGood, AreGood
<1> QED BY <1>1, <1>2, <1>9, <1>11 DEF FindInv

\* The scan finds finitely many datasets.
LEMMA FoundIsFinite ==
  ASSUME cmd \in Commands
  PROVE  Found \in SUBSET Nat /\ IsFiniteSet(Found)
<1>1. Found \subseteq DOMAIN Objects[cmd.mos]
  BY DEF Found
<1> QED BY <1>1, MosIsThere, FS_Subset

\* The scan gives every dataset found, once.
LEMMA ScanGives ==
  ASSUME FindInv, ScanDone
  PROVE  /\ IsSeq(entries') /\ ToSet(entries') = {[oid |-> ds, name |-> ScanName(ds)] : ds \in Found}
         /\ \A j, k \in DOMAIN entries' : entries'[j].oid = entries'[k].oid => j = k
<1> DEFINE of == Ascending(Found)
           e(ds) == [oid |-> ds, name |-> ScanName(ds)]
<1>1. entries' = [k \in DOMAIN of |-> e(of[k])]
  BY DEF ScanDone
<1>2. /\ of \in Seq(Found) /\ Len(of) = Cardinality(Found) /\ ToSet(of) = Found
      /\ \A j, k \in 1 .. Cardinality(Found) : of[j] = of[k] => j = k
  BY FoundIsFinite, AscendingTakesAll DEF FindInv
<1> HIDE DEF of
<1>3. Len(of) \in Nat /\ DOMAIN of = 1 .. Len(of)
  BY <1>2, LenProperties
<1>4. ToSet(entries') = {e(ds) : ds \in Found}
  <2>1. \A k \in DOMAIN of : of[k] \in Found
    BY <1>2 DEF ToSet
  <2>2. \A ds \in Found : \E k \in DOMAIN of : of[k] = ds
    BY <1>2 DEF ToSet
  <2> HIDE DEF e
  <2> QED BY <1>1, <2>1, <2>2 DEF ToSet
<1>5. IsSeq(entries')
  <2> HIDE DEF e
  <2>1. DOMAIN entries' = 1 .. Len(of) /\ \A k \in 1 .. Len(of) : entries'[k] \in ToSet(entries')
    BY <1>1, <1>3 DEF ToSet
  <2>2. entries' \in [1 .. Len(of) -> ToSet(entries')]
    BY <1>1, <1>3, <2>1
  <2>3. entries' \in Seq(ToSet(entries'))
    BY <1>3, <2>2, SeqDef
  <2> QED BY <2>3 DEF IsSeq
<1>6. \A j, k \in DOMAIN entries' : entries'[j].oid = entries'[k].oid => j = k
  <2>1. \A k \in DOMAIN entries' : entries'[k].oid = of[k]
    <3>1. \A ds : e(ds).oid = ds
      OBVIOUS
    <3>2. \A k \in DOMAIN entries' : k \in DOMAIN of /\ entries'[k] = e(of[k])
      BY <1>1
    <3> HIDE DEF e
    <3> QED BY <3>1, <3>2
  <2>2. DOMAIN entries' = 1 .. Cardinality(Found)
    BY <1>1, <1>2, <1>3
  <2> QED BY <1>2, <2>1, <2>2
<1> QED BY <1>4, <1>5, <1>6

\* What the scan gives is under good names.
LEMMA ScanKeepsFind ==
  ASSUME FindInv, ScanDone PROVE FindInv'
<1>1. /\ pc = "names" /\ pc' = "offer" /\ cmd' = cmd /\ nodes' = nodes /\ noms' = noms /\ pending' = pending
      /\ cmd.scan /\ cmd \in Commands /\ NamesGood(cmd.mos, noms) /\ AreGood(nodes) /\ OnTheWay
  BY DEF ScanDone, walk, naming, FindInv
<1>2. IsSeq(entries') /\ ToSet(entries') = {[oid |-> ds, name |-> ScanName(ds)] : ds \in Found}
  BY ScanGives
<1>3. \A ds \in Found : GoodEntry(cmd, [oid |-> ds, name |-> ScanName(ds)])
  BY <1>1, MosIsThere, ScanNameGood
<1>4. \A e \in ToSet(entries') : GoodEntry(cmd, e)
  BY <1>2, <1>3
<1> QED BY <1>1, <1>2, <1>4 DEF FindInv, OnTheWay, AreGood

\* Every step keeps what was found under its name.
LEMMA FindKept == FindInv /\ [Next]_vars => FindInv'
<1> SUFFICES ASSUME FindInv, [Next]_vars PROVE FindInv'
  OBVIOUS
<1>0. /\ cmd \in Commands /\ OnTheWay /\ NamesGood(cmd.mos, noms) /\ AreGood(nodes) /\ AreGood(entries)
      /\ pc = "names" => cmd.scan
      /\ pc = "start" => pending = <<>>
      /\ pc \in {"sweep", "read", "paths"} => Opened
      /\ IsSeq(pending) /\ IsSeq(nodes) /\ IsSeq(entries)
  BY DEF FindInv, OnTheWay, AreGood
<1>1. CASE StartTree \/ StartScan
  BY <1>1, StartKeepsFind
<1>2. CASE VisitDir
  BY <1>2, VisitKeepsFind
<1>3. CASE NameChildren
  BY <1>3, NameKeepsFind
<1>4. CASE ScanDone
  BY <1>4, ScanKeepsFind
<1>5. CASE VisitTooDeep \/ VisitLostDir
  <2>1. /\ pc = "tree" /\ pc' = pc /\ cmd' = cmd /\ nodes' = nodes /\ noms' = noms /\ entries' = entries
        /\ pending # <<>> /\ pending' = Tail(pending)
    BY <1>5 DEF VisitTooDeep, VisitLostDir, naming
  <2>2. IsSeq(pending') /\ \A p \in ToSet(pending') : p \in ToSet(pending)
    BY <1>0, <2>1, TailGood
  <2> QED BY <1>0, <2>1, <2>2 DEF FindInv, OnTheWay, AreGood
<1>6. CASE TreeDone
  <2>1. /\ pc' = "offer" /\ cmd' = cmd /\ nodes' = nodes /\ noms' = noms /\ entries' = nodes /\ pending' = pending
    BY <1>6 DEF TreeDone, walk, naming
  <2> QED BY <1>0, <2>1 DEF FindInv, OnTheWay, AreGood
<1>7. CASE Skip \/ HandOut
  <2>1. /\ pc' = "offer" /\ cmd' = cmd /\ nodes' = nodes /\ noms' = noms /\ pending' = pending /\ entries' = Tail(entries)
    BY <1>7 DEF Skip, HandOut, walk, naming
  <2>2. IsSeq(entries') /\ \A e \in ToSet(entries') : e \in ToSet(entries)
    <3>1. entries # <<>>
      BY <1>0, <1>7 DEF Skip, HandOut, Opened
    <3> QED BY <1>0, <2>1, <3>1, TailGood
  <2> QED BY <1>0, <2>1, <2>2 DEF FindInv, OnTheWay, AreGood
<1>8. CASE OpenFs
  <2>1. /\ pc' = "sweep" /\ cmd' = cmd /\ damage' = damage /\ walk' = walk /\ naming' = naming /\ entries' = entries
        /\ entries # <<>> /\ Correspond(Current) /\ ~Mos(Current.oid).hole /\ ObjsetReadable(Objset(Current))
        /\ fs' = Objset(Current)
    BY <1>8 DEF OpenFs, Prepare
  <2>2. nodes' = nodes /\ noms' = noms /\ pending' = pending
    BY <2>1 DEF walk, naming
  <2>3. Opened'
    BY <2>1 DEF Opened, Current, Objset, Mos, Correspond, ObjsetReadable
  <2> QED BY <1>0, <2>1, <2>2, <2>3 DEF FindInv, OnTheWay, AreGood
<1>10. CASE SweepFs \/ ReadDir \/ DirsRead \/ PathRoot \/ PathStart \/ PathOn \/ PathEnd
  <2>1. /\ pc \in {"sweep", "read", "paths"} /\ pc' \in {"read", "paths"}
        /\ cmd' = cmd /\ damage' = damage /\ walk' = walk /\ naming' = naming /\ entries' = entries
    BY <1>10 DEF SweepFs, ReadDir, DirsRead, PathRoot, PathStart, PathOn, PathEnd, Step
  <2>2. nodes' = nodes /\ noms' = noms /\ pending' = pending
    BY <2>1 DEF walk, naming
  <2>3. fs' = fs
    BY <1>10 DEF SweepFs, ReadDir, DirsRead, PathRoot, PathStart, PathOn, PathEnd, Sweep, ReadDirectory, StartPaths,
                 PathOfRoot, StartClimb, ClimbOn, ClimbEnds, Give
  <2>4. Opened'
    BY <1>0, <2>1, <2>3 DEF Opened, Current, Objset, Mos, Correspond, ObjsetReadable
  <2> QED BY <1>0, <2>1, <2>2, <2>4 DEF FindInv, OnTheWay, AreGood
<1>11. CASE AllOffered
  <2>1. /\ pc' = "done" /\ cmd' = cmd /\ walk' = walk /\ naming' = naming /\ entries' = entries
    BY <1>11 DEF AllOffered
  <2>2. nodes' = nodes /\ noms' = noms /\ pending' = pending
    BY <2>1 DEF walk, naming
  <2> QED BY <1>0, <2>1, <2>2 DEF FindInv, OnTheWay, AreGood
<1>9. CASE UNCHANGED vars
  <2>1. UNCHANGED <<damage, cmd, pc, walk, naming, entries, index>>
    BY <1>9 DEF vars
  <2>2. nodes' = nodes /\ noms' = noms /\ pending' = pending /\ fs' = fs /\ UNCHANGED <<damage, cmd, pc, entries>>
    BY <2>1 DEF walk, naming, index
  <2>3. Opened' <=> Opened
    BY <2>2 DEF Opened, Current, Objset, Mos, Correspond, ObjsetReadable
  <2> QED BY <1>0, <2>2, <2>3 DEF FindInv, OnTheWay, AreGood
<1> QED BY <1>1, <1>2, <1>3, <1>4, <1>5, <1>6, <1>7, <1>8, <1>9, <1>10, <1>11 DEF Next, FindStep, DslStep, Rest

\* A dataset goes under its name in the pool, or under a synthetic one by a scan.
\* (NamesTrue, of what _datasets_zpl() gives to the commands.)
THEOREM NamespaceNamesTrue == Spec => []NamesTrue
<1>1. FindInv => NamesTrue
  <2> SUFFICES ASSUME FindInv, NEW k \in DOMAIN entries PROVE GoodEntry(cmd, entries[k])
    BY DEF NamesTrue, GoodEntry
  <2> QED BY DEF FindInv, AreGood, ToSet
<1> QED BY <1>1, FindStarts, FindKept, PTL DEF Spec

-----------------------------------------------------------------------------
(* The index of a file system.                                             *)

\* The file system of a dataset is one that ZFS wrote.
LEMMA ObjsetIsThere ==
  ASSUME FindInv, entries # <<>>, ~Mos(Current.oid).hole
  PROVE  /\ Objset(Current) \in FileSystems /\ Objset(Current) \in DOMAIN Objects
         /\ Current \in ToSet(entries) /\ GoodEntry(cmd, Current)
<1>1. Current \in ToSet(entries) /\ GoodEntry(cmd, Current)
  BY HeadAndTail DEF FindInv, AreGood, Current
<1>2. cmd.mos \in {c.mos : c \in Commands}
  BY MosIsThere DEF FindInv
<1>3. Objset(Current) \in FileSystems
  BY <1>1, <1>2, MosAssumption DEF Objset, Mos, GoodEntry, DslDatasets
<1> QED BY <1>1, <1>3 DEF FileSystems

\* The file system opened, once it is.
LEMMA FsIsThere ==
  ASSUME FindInv, Opened
  PROVE  /\ fs \in FileSystems /\ fs \in DOMAIN Objects /\ fs = Mos(Current.oid).objset
         /\ DOMAIN Objects[fs] \subseteq Nat \ {NoObject} /\ IsFiniteSet(DOMAIN Objects[fs])
         /\ Current \in ToSet(entries) /\ GoodEntry(cmd, Current)
BY ObjsetIsThere, ObjectsAssumption DEF Opened, Objset

IsNode(n) == DOMAIN n = {"type", "name", "attrs", "source", "parent"}

Rename(n, name, dir) == [n EXCEPT !.name = name, !.parent = dir, !.source = "repertoire"]
\* A node named from a directory keeps its type and its attributes.
LEMMA Renamed ==
  ASSUME NEW n, IsNode(n), NEW name, NEW dir, NEW m, m = Rename(n, name, dir)
  PROVE  /\ IsNode(m) /\ m.name = name /\ m.parent = dir /\ m.type = n.type /\ m.attrs = n.attrs
BY DEF IsNode, Rename

\* A node that is a directory is one that ZFS wrote, its own parent only if it is
\* the root; a node has a name only from a directory that gives it to its object.
NodesGood ==
  /\ DOMAIN idx \subseteq Nat \ {NoObject} /\ IsFiniteSet(DOMAIN idx)
  /\ \A o \in DOMAIN idx :
       /\ IsNode(idx[o])
       /\ IsDir(o) => o \in DOMAIN Objects[fs] /\ Fs(o).type = "dir"
       /\ IsDir(o) /\ idx[o].parent = o => o = TrueRoot(fs)
       /\ idx[o].name # NoName => IsDir(idx[o].parent) /\ Lookup(fs, idx[o].parent, idx[o].name) = o

Asleep == idx = <<>> /\ todo = <<>> /\ climb = Idle /\ paths = <<>>
Reading ==
  /\ NodesGood
  /\ IsSeq(todo) /\ \A o \in ToSet(todo) : IsDir(o)
  /\ climb = Idle /\ paths = <<>>

\* Every node has its path or waits for it, and what has been climbed leads down to
\* the object that waits.
Climbing ==
  /\ NodesGood
  /\ IsSeq(todo) /\ DOMAIN paths \cup ToSet(todo) = DOMAIN idx
  /\ \A o \in DOMAIN paths : IsSeq(paths[o]) /\ IsPath(fs, paths[o], o)
  /\ climb # Idle =>
       /\ todo # <<>> /\ climb.at \in DOMAIN idx /\ IsSeq(climb.tail)
       /\ Followed(fs, climb.at, climb.tail)[Len(climb.tail)] = Head(todo)

HandedGood ==
  \A h \in handed : /\ h.dataset \in DOMAIN Objects[cmd.mos] /\ Mos(h.dataset).bonus = "dsl_dataset"
                    /\ IsPath(Mos(h.dataset).objset, h.path, h.object)

IndexInv ==
  /\ pc \notin {"read", "paths"} => Asleep
  /\ pc \in {"sweep", "read", "paths"} => root \in {NoRoot, TrueRoot(fs)}
  /\ pc = "read" => Reading
  /\ pc = "paths" => Climbing
  /\ HandedGood

\* Opening a file system: its root is the one ZFS wrote, or not known.
LEMMA OpenKeepsIndex ==
  ASSUME FindInv, IndexInv, OpenFs PROVE IndexInv'
<1>1. /\ pc = "offer" /\ pc' = "sweep" /\ cmd' = cmd /\ damage' = damage /\ handed' = handed
      /\ UNCHANGED <<idx, todo, climb, paths>> /\ fs' = Objset(Current)
      /\ root' = (IF Present(fs', MasterNode) /\ Get(ReadZap(fs', MasterNode), "ROOT") # NoValue
                  THEN Get(ReadZap(fs', MasterNode), "ROOT")[1] ELSE NoRoot)
  BY DEF OpenFs, Prepare
<1>2. fs' \in DOMAIN Objects
  BY <1>1, ObjsetIsThere DEF OpenFs
<1>3. root' \in {NoRoot, TrueRoot(fs)'}
  <2>1. CASE Present(fs', MasterNode) /\ Get(ReadZap(fs', MasterNode), "ROOT") # NoValue
    <3>1. root' = Get(ReadZap(fs', MasterNode), "ROOT")[1] /\ MasterNode \in DOMAIN Objects[fs']
      BY <1>1, <2>1 DEF Present
    <3>2. root' = Lookup(fs', MasterNode, "ROOT")
      BY <1>2, <2>1, <3>1, GetIsTrue
    <3> QED BY <3>2 DEF TrueRoot
  <2> QED BY <1>1, <2>1
<1> QED BY <1>1, <1>3 DEF IndexInv, Asleep, HandedGood, Mos

\* What a node is after the sweep.
LEMMA SweptIs ==
  ASSUME NEW o, NEW attrs
  PROVE  LET n == Swept(o, attrs) IN
         /\ IsNode(n) /\ n.type = Fs(o).type /\ n.name = NoName /\ n.attrs = attrs
         /\ n.parent \in {Fs(o).parent, NoParent}
<1>1. ASSUME NEW t, NEW parent, NEW n,
             n = [type |-> t, name |-> NoName, attrs |-> attrs, source |-> "balayage", parent |-> parent]
      PROVE  IsNode(n) /\ n.type = t /\ n.name = NoName /\ n.attrs = attrs /\ n.parent = parent
  BY <1>1 DEF IsNode
<1> QED BY <1>1 DEF Swept

\* The sweep: nodes without name, and parents that ZFS wrote.
LEMMA SweepKeepsIndex ==
  ASSUME FindInv, IndexInv, SweepFs PROVE IndexInv'
<1> DEFINE present == {o \in DOMAIN Objects[fs] : Present(fs, o)}
           dirs == {o \in present : Fs(o).type = "dir"}
<1>1. /\ pc = "sweep" /\ pc' = "read" /\ cmd' = cmd /\ handed' = handed /\ fs' = fs /\ root' = root
      /\ climb' = climb /\ paths' = paths /\ Sweep
  BY DEF SweepFs, Step, Sweep
<1>2. PICK attrs \in {[o \in present |-> Attributes(o)]} :
        idx' = [o \in DOMAIN attrs |-> Swept(o, attrs[o])] /\ todo' = Ascending({o \in DOMAIN attrs : Fs(o).type = "dir"})
  BY <1>1 DEF Sweep
<1>3. DOMAIN attrs = present /\ todo' = Ascending(dirs)
  BY <1>2
<1>4. Opened /\ Asleep /\ root \in {NoRoot, TrueRoot(fs)} /\ HandedGood
  BY <1>1 DEF FindInv, IndexInv
<1>5. /\ fs \in FileSystems /\ present \subseteq DOMAIN Objects[fs] /\ present \subseteq Nat \ {NoObject}
      /\ IsFiniteSet(present) /\ IsFiniteSet(dirs) /\ dirs \subseteq Nat
  <2>1. present \subseteq DOMAIN Objects[fs] /\ dirs \subseteq DOMAIN Objects[fs]
    OBVIOUS
  <2> HIDE DEF present, dirs
  <2> QED BY <1>4, <2>1, FsIsThere, FS_Subset
<1>6. todo' \in Seq(dirs) /\ ToSet(todo') = dirs
  <2> HIDE DEF dirs
  <2> QED BY <1>3, <1>5, AscendingTakesAll
<1>7. DOMAIN idx' = present /\ \A o \in present : idx'[o] = Swept(o, attrs[o])
  BY <1>2, <1>3
<1>8. \A o \in present : /\ IsNode(idx'[o]) /\ idx'[o].type = Fs(o).type /\ idx'[o].name = NoName
                         /\ idx'[o].parent \in {Fs(o).parent, NoParent}
  <2> HIDE DEF present
  <2> QED BY <1>7, SweptIs
<1>9. \A o : IsDir(o)' <=> o \in dirs
  BY <1>7, <1>8 DEF IsDir
<1>10. NodesGood'
  <2>1. ASSUME NEW o \in present
        PROVE  /\ IsDir(o)' => o \in DOMAIN Objects[fs] /\ Fs(o)'.type = "dir"
               /\ IsDir(o)' /\ idx'[o].parent = o => o = TrueRoot(fs)
    <3>1. IsDir(o)' => o \in DOMAIN Objects[fs] /\ Fs(o).type = "dir" /\ Fs(o)' = Fs(o) /\ o # NoParent
      BY <1>1, <1>5, <1>9 DEF Fs, NoParent, NoObject
    <3>2. IsDir(o)' /\ idx'[o].parent = o => Fs(o).parent = o
      BY <1>8, <3>1
    <3> QED BY <1>5, <3>1, <3>2, DirectoryAssumption DEF Fs
  <2> QED BY <1>1, <1>5, <1>7, <1>8, <2>1 DEF NodesGood
<1>11. Reading'
  <2>1. IsSeq(todo')
    BY <1>6, SeqIsSeq
  <2> QED BY <1>1, <1>4, <1>6, <1>9, <1>10, <2>1 DEF Reading, Asleep
<1> QED BY <1>1, <1>4, <1>11 DEF IndexInv, HandedGood, Mos

\* Reading a directory: each entry names the object it leads to.
LEMMA ReadKeepsIndex ==
  ASSUME FindInv, IndexInv, ReadDir PROVE IndexInv'
<1> DEFINE dir == Head(todo)
           found == Entries(ReadZap(fs, dir))
           of == {e.value[1] : e \in found}
           entry(o) == CHOOSE e \in found : e.value[1] = o
           node(o) == IF o \in DOMAIN idx THEN idx[o] ELSE Absent
           new(o) == [node(o) EXCEPT !.name = entry(o).name, !.parent = dir, !.source = "repertoire"]
<1>1. /\ pc = "read" /\ pc' = "read" /\ cmd' = cmd /\ handed' = handed /\ fs' = fs /\ root' = root
      /\ climb' = climb /\ paths' = paths /\ todo # <<>> /\ todo' = Tail(todo)
      /\ idx' = [o \in DOMAIN idx \cup of |-> IF o \in of THEN new(o) ELSE idx[o]]
  BY DEF ReadDir, Step, ReadDirectory
<1>2. Opened /\ Reading /\ root \in {NoRoot, TrueRoot(fs)} /\ HandedGood /\ NodesGood /\ IsSeq(todo)
  BY <1>1 DEF FindInv, IndexInv, Reading
<1>3. IsSeq(Tail(todo)) /\ dir \in ToSet(todo) /\ ToSet(Tail(todo)) \subseteq ToSet(todo)
  BY <1>1, <1>2, HeadAndTail
<1>4. dir \in DOMAIN Objects[fs] /\ Fs(dir).type = "dir" /\ IsDir(dir) /\ fs \in FileSystems /\ fs \in DOMAIN Objects
  BY <1>2, <1>3, FsIsThere DEF Reading, NodesGood, IsDir
<1> HIDE DEF dir
<1>5. ASSUME NEW e \in found
      PROVE  /\ e.value[1] \in Nat \ {NoObject} /\ (e.value[1] = dir => dir = TrueRoot(fs))
             /\ Lookup(fs, dir, e.name) = e.value[1]
  <2>1. e \in AllEntries(fs, dir) /\ e.value # NoValue
    BY <1>4, ReadsWhatIsThere DEF Entries
  <2> HIDE DEF found
  <2> QED BY <1>4, <2>1, DirectoryAssumption, ValueOfEntry DEF Fs
<1>6. IsFiniteSet(of)
  <2> DEFINE f == [e \in found |-> e.value[1]]
  <2>1. IsFiniteSet(found)
    BY <1>4, FiniteEntries, FS_Subset DEF Entries
  <2>2. f \in Surjection(found, of)
    BY DEF Surjection
  <2> HIDE DEF f, found, of
  <2> QED BY <2>1, <2>2, FS_Surjection
<1>7. ASSUME NEW o \in of
      PROVE  /\ IsNode(idx'[o]) /\ idx'[o].type = node(o).type /\ idx'[o].parent = dir
             /\ Lookup(fs, dir, idx'[o].name) = o /\ o \in Nat \ {NoObject} /\ (o = dir => o = TrueRoot(fs))
  <2> DEFINE e == entry(o)
  <2>1. e \in found /\ e.value[1] = o
    OBVIOUS
  <2>2. idx'[o] = new(o)
    BY <1>1
  <2>3. IsNode(node(o))
    BY <1>2 DEF NodesGood, Absent, IsNode
  <2>4. new(o) = Rename(node(o), e.name, dir)
    BY DEF Rename
  <2> HIDE DEF new, node, e, found
  <2>5. IsNode(new(o)) /\ new(o).type = node(o).type /\ new(o).parent = dir /\ new(o).name = e.name
    BY <2>3, <2>4, Renamed
  <2> QED BY <1>5, <2>1, <2>2, <2>5
<1>8. DOMAIN idx' = DOMAIN idx \cup of /\ \A o \in DOMAIN idx \ of : idx'[o] = idx[o]
  BY <1>1
<1> HIDE DEF of
<1>9. \A o : IsDir(o)' <=> IsDir(o)
  <2>1. \A o \in of : idx'[o].type = "dir" <=> (o \in DOMAIN idx /\ idx[o].type = "dir")
    BY <1>7 DEF Absent
  <2> QED BY <1>8, <2>1 DEF IsDir
<1>10. NodesGood'
  <2>0. DOMAIN idx \subseteq Nat \ {NoObject} /\ IsFiniteSet(DOMAIN idx)
    BY <1>2 DEF NodesGood
  <2>1. IsFiniteSet(DOMAIN idx') /\ DOMAIN idx' \subseteq Nat \ {NoObject}
    <3>1. IsFiniteSet(DOMAIN idx \cup of)
      BY <1>6, <2>0, FS_Union
    <3>2. of \subseteq Nat \ {NoObject}
      BY <1>7
    <3> QED BY <1>8, <2>0, <3>1, <3>2
  <2>2. ASSUME NEW o \in DOMAIN idx'
        PROVE  /\ IsNode(idx'[o])
               /\ IsDir(o) => o \in DOMAIN Objects[fs] /\ Fs(o).type = "dir"
               /\ IsDir(o) /\ idx'[o].parent = o => o = TrueRoot(fs)
               /\ idx'[o].name # NoName => IsDir(idx'[o].parent) /\ Lookup(fs, idx'[o].parent, idx'[o].name) = o
    <3>1. IsDir(o) => o \in DOMAIN idx
      BY DEF IsDir
    <3>2. CASE o \in of
      BY <1>2, <1>4, <1>7, <3>1, <3>2 DEF NodesGood
    <3>3. CASE o \notin of
      BY <1>2, <1>8, <3>3 DEF NodesGood
    <3> QED BY <3>2, <3>3
  <2> QED BY <1>1, <1>9, <2>1, <2>2 DEF NodesGood, Fs
<1>11. Reading'
  BY <1>1, <1>2, <1>3, <1>9, <1>10 DEF Reading
<1> QED BY <1>1, <1>2, <1>11 DEF IndexInv, HandedGood, Mos

\* Once directories are read, every node waits for its path.
LEMMA StartsPaths ==
  ASSUME FindInv, IndexInv, DirsRead PROVE IndexInv'
<1>1. /\ pc = "read" /\ pc' = "paths" /\ cmd' = cmd /\ handed' = handed /\ fs' = fs /\ root' = root
      /\ climb' = climb /\ paths' = paths /\ idx' = idx /\ todo' = Ascending(DOMAIN idx)
  BY DEF DirsRead, Step, StartPaths
<1>2. Reading /\ NodesGood /\ root \in {NoRoot, TrueRoot(fs)} /\ HandedGood /\ paths = <<>> /\ climb = Idle
  BY <1>1 DEF IndexInv, Reading
<1>3. todo' \in Seq(DOMAIN idx) /\ ToSet(todo') = DOMAIN idx
  BY <1>1, <1>2, AscendingTakesAll DEF NodesGood
<1>4. IsSeq(todo') /\ DOMAIN paths = {}
  BY <1>2, <1>3, SeqIsSeq
<1>5. NodesGood'
  BY <1>1, <1>2 DEF NodesGood, IsDir, Fs
<1>6. Climbing'
  BY <1>1, <1>2, <1>3, <1>4, <1>5 DEF Climbing
<1> QED BY <1>1, <1>2, <1>6 DEF IndexInv, HandedGood, Mos

\* A node that passes for the root is the root.
LEMMA RootIsRoot ==
  ASSUME NodesGood, root \in {NoRoot, TrueRoot(fs)}, NEW o \in DOMAIN idx, EstRacine(o)
  PROVE  o = TrueRoot(fs)
<1>1. o # NoRoot
  BY DEF NodesGood, NoRoot, NoObject
<1> QED BY <1>1 DEF NodesGood, EstRacine

\* A component leads to the object it stands for, from its parent if it is a name,
\* from anywhere if it is not.
LEMMA ComponentLeads ==
  ASSUME NodesGood, NEW o \in DOMAIN idx
  PROVE  /\ Leads(fs, idx[o].parent, Component(o)) = o
         /\ ~IsDir(idx[o].parent) => \A from : Leads(fs, from, Component(o)) = o
<1>1. CASE idx[o].name = NoName
  <2>1. Component(o) = Number(o)
    BY <1>1 DEF Component
  <2>2. Component(o).kind = "objet" /\ Component(o).oid = o
    <3>1. Number(o).kind = "objet" /\ Number(o).oid = o
      BY DEF Number
    <3> QED BY <2>1, <3>1, Zenon
  <2> QED BY <2>2 DEF Leads
<1>2. CASE idx[o].name # NoName
  <2>1. Component(o) = Name(idx[o].name) /\ IsDir(idx[o].parent) /\ Lookup(fs, idx[o].parent, idx[o].name) = o
    BY <1>2 DEF Component, NodesGood
  <2>2. Component(o).kind = "name" /\ Component(o).text = idx[o].name
    <3> DEFINE name == idx[o].name
    <3>1. Component(o) = Name(name)
      BY <2>1
    <3> HIDE DEF name
    <3>2. Name(name).kind = "name" /\ Name(name).text = name
      BY DEF Name
    <3>3. Component(o).kind = "name" /\ Component(o).text = name
      BY <3>1, <3>2, Zenon
    <3> QED BY <3>3 DEF name
  <2> QED BY <2>1, <2>2 DEF Leads
<1> QED BY <1>1, <1>2

\* A path given is one that leads to its object.
LEMMA GiveKeepsPaths ==
  ASSUME Climbing, todo # <<>>, NEW path, IsSeq(path), IsPath(fs, path, Head(todo)), Give(path),
         NodesGood', DOMAIN idx' = DOMAIN idx
  PROVE  Climbing' /\ fs' = fs
<1>1. /\ paths' = [o \in DOMAIN paths \cup {Head(todo)} |-> IF o = Head(todo) THEN path ELSE paths[o]]
      /\ todo' = Tail(todo) /\ climb' = Idle /\ fs' = fs
  BY DEF Give
<1>2. IsSeq(todo) /\ DOMAIN paths \cup ToSet(todo) = DOMAIN idx
      /\ \A o \in DOMAIN paths : IsSeq(paths[o]) /\ IsPath(fs, paths[o], o)
  BY DEF Climbing
<1>3. IsSeq(Tail(todo)) /\ ToSet(todo) = {Head(todo)} \cup ToSet(Tail(todo))
  BY <1>2, HeadAndTail
<1>4. DOMAIN paths' \cup ToSet(todo') = DOMAIN idx'
  BY <1>1, <1>2, <1>3
<1>5. \A o \in DOMAIN paths' : IsSeq(paths'[o]) /\ IsPath(fs, paths'[o], o)
  BY <1>1, <1>2
<1> QED BY <1>1, <1>3, <1>4, <1>5 DEF Climbing

\* A sequence with one element before it.
LEMMA OneBefore ==
  ASSUME NEW T, NEW s \in Seq(T), NEW a \in T
  PROVE  LET t == <<a>> \o s IN
         /\ t \in Seq(T) /\ Len(t) = Len(s) + 1
         /\ t[1] = a /\ \A i \in 1 .. Len(s) : t[i + 1] = s[i]
OBVIOUS

\* Two elements before a sequence are one before the other.
LEMMA TwoBefore ==
  ASSUME NEW s, IsSeq(s), NEW a, NEW b
  PROVE  <<a, b>> \o s = <<a>> \o (<<b>> \o s)
<1> DEFINE T == {a, b} \cup ToSet(s)
<1>1. s \in Seq(T)
  BY SeqMonotonic DEF IsSeq
<1>2. a \in T /\ b \in T /\ Len(s) \in Nat
  BY <1>1
<1> HIDE DEF T
<1> DEFINE two == <<a, b>>
           left == two \o s
           inner == <<b>> \o s
           right == <<a>> \o inner
<1>3. two \in Seq(T) /\ Len(two) = 2 /\ two[1] = a /\ two[2] = b
  BY <1>2
<1> HIDE DEF two
<1>4. /\ left \in Seq(T) /\ Len(left) = 2 + Len(s)
      /\ \A i \in 1 .. 2 + Len(s) : left[i] = IF i <= 2 THEN two[i] ELSE s[i - 2]
  <2>1. two \in Seq(T)
    BY <1>3
  <2>2. /\ left \in Seq(T) /\ Len(left) = Len(two) + Len(s)
        /\ \A i \in 1 .. Len(two) + Len(s) : left[i] = IF i <= Len(two) THEN two[i] ELSE s[i - Len(two)]
    BY <1>1, <2>1, ConcatProperties, Zenon
  <2> HIDE DEF left
  <2> QED BY <1>2, <1>3, <2>2
<1>5. /\ inner \in Seq(T) /\ Len(inner) = Len(s) + 1
      /\ inner[1] = b /\ \A i \in 1 .. Len(s) : inner[i + 1] = s[i]
  BY <1>1, <1>2, OneBefore
<1> HIDE DEF inner
<1>6. /\ right \in Seq(T) /\ Len(right) = Len(inner) + 1
      /\ right[1] = a /\ \A i \in 1 .. Len(inner) : right[i + 1] = inner[i]
  BY <1>2, <1>5, OneBefore
<1> HIDE DEF left, right
<1>7. ASSUME NEW i \in 1 .. 2 + Len(s) PROVE left[i] = right[i]
  <2>1. CASE i = 1
    BY <1>2, <1>3, <1>4, <1>6, <2>1
  <2>2. CASE i = 2
    <3>1. right[1 + 1] = inner[1]
      BY <1>2, <1>5, <1>6
    <3> QED BY <1>2, <1>3, <1>4, <1>5, <2>2, <3>1
  <2>3. CASE i > 2
    <3>1. i - 1 \in 1 .. Len(inner) /\ i - 2 \in 1 .. Len(s) /\ i - 1 + 1 = i /\ i - 2 + 1 = i - 1
      BY <1>2, <1>5, <2>3
    <3>2. right[i] = inner[i - 1] /\ inner[i - 1] = s[i - 2]
      BY <1>5, <1>6, <3>1
    <3> QED BY <1>4, <2>3, <3>2
  <2> QED BY <2>1, <2>2, <2>3
<1>8. left = right
  BY <1>2, <1>4, <1>5, <1>6, <1>7, SeqEqual
<1> QED BY <1>8 DEF left, right, inner, two

\* Following the parents: what has been climbed leads down to the node.
LEMMA ClimbKeepsIndex ==
  ASSUME FindInv, IndexInv, PathRoot \/ PathStart \/ PathOn \/ PathEnd PROVE IndexInv'
<1>1. pc = "paths" /\ pc' = "paths" /\ cmd' = cmd /\ handed' = handed
  BY DEF PathRoot, PathStart, PathOn, PathEnd, Step
<1>2. Climbing /\ NodesGood /\ root \in {NoRoot, TrueRoot(fs)} /\ HandedGood
      /\ IsSeq(todo) /\ ToSet(todo) \subseteq DOMAIN idx
  BY <1>1 DEF IndexInv, Climbing
<1>3. HandedGood'
  BY <1>1, <1>2 DEF HandedGood, Mos
<1>4. todo # <<>> => Head(todo) \in DOMAIN idx
  BY <1>2, HeadAndTail
<1>5. CASE PathRoot
  <2>1. /\ todo # <<>> /\ EstRacine(Head(todo)) /\ Give(<<>>)
        /\ root' = IF root = NoRoot THEN Head(todo) ELSE root
        /\ idx' = [idx EXCEPT ![Head(todo)].name = NoName]
    BY <1>5 DEF PathRoot, Step, PathOfRoot
  <2>2. Head(todo) = TrueRoot(fs)
    BY <1>2, <1>4, <2>1, RootIsRoot
  <2>3. IsSeq(<<>>) /\ IsPath(fs, <<>>, Head(todo))
    BY <2>2, EmptyIsSeq, NoComponent DEF IsPath
  <2>4. DOMAIN idx' = DOMAIN idx /\ fs' = fs
    BY <2>1 DEF Give
  <2>5. ASSUME NEW o \in DOMAIN idx
        PROVE  /\ IsNode(idx'[o]) /\ idx'[o].type = idx[o].type /\ idx'[o].parent = idx[o].parent
               /\ idx'[o].name \in {idx[o].name, NoName}
    <3>1. IsNode(idx[o])
      BY <1>2 DEF NodesGood
    <3>2. idx'[o] = IF o = Head(todo) THEN [idx[o] EXCEPT !.name = NoName] ELSE idx[o]
      BY <2>1
    <3> QED BY <3>1, <3>2 DEF IsNode
  <2>6. \A o : IsDir(o)' <=> IsDir(o)
    BY <2>4, <2>5 DEF IsDir
  <2>7. NodesGood'
    BY <1>2, <2>4, <2>5, <2>6 DEF NodesGood, Fs
  <2>8. Climbing'
    BY <1>2, <2>1, <2>3, <2>4, <2>7, GiveKeepsPaths
  <2> QED BY <1>1, <1>2, <1>3, <2>1, <2>2, <2>4, <2>8 DEF IndexInv
<1>6. CASE PathStart
  <2>1. /\ todo # <<>> /\ climb' = [Idle EXCEPT !.at = Head(todo)]
        /\ UNCHANGED <<fs, root, idx, todo, paths>>
    BY <1>6 DEF PathStart, Step, StartClimb
  <2>2. climb'.at = Head(todo) /\ climb'.tail = <<>>
    BY <2>1 DEF Idle
  <2>3. IsSeq(<<>>) /\ Followed(fs, Head(todo), <<>>)[Len(<<>>)] = Head(todo)
    BY EmptyIsSeq, NoComponent
  <2>4. NodesGood'
    BY <1>2, <2>1 DEF NodesGood, IsDir, Fs
  <2>5. Climbing'
    BY <1>2, <1>4, <2>1, <2>2, <2>3, <2>4 DEF Climbing
  <2> QED BY <1>1, <1>2, <1>3, <2>1, <2>5 DEF IndexInv
<1>7. CASE PathOn
  <2> DEFINE parent == idx[climb.at].parent
             c == Component(climb.at)
             tail == <<c>> \o climb.tail
  <2>1. /\ climb # Idle /\ IsDir(parent) /\ UNCHANGED <<fs, root, idx, todo, paths>>
        /\ climb' = [at |-> parent, vus |-> climb.vus \cup {climb.at}, tail |-> tail]
    BY <1>7 DEF PathOn, Step, ClimbOn
  <2>2. /\ climb.at \in DOMAIN idx /\ IsSeq(climb.tail) /\ todo # <<>>
        /\ Followed(fs, climb.at, climb.tail)[Len(climb.tail)] = Head(todo)
    BY <1>2, <2>1 DEF Climbing
  <2>3. Leads(fs, parent, c) = climb.at
    BY <1>2, <2>2, ComponentLeads
  <2> HIDE DEF c, parent
  <2>4. IsSeq(tail) /\ Followed(fs, parent, tail)[Len(tail)] = Head(todo)
    BY <2>2, <2>3, FollowedFrom
  <2> HIDE DEF tail
  <2>5. climb'.at = parent /\ climb'.tail = tail /\ parent \in DOMAIN idx
    BY <2>1 DEF IsDir
  <2>6. NodesGood'
    BY <1>2, <2>1 DEF NodesGood, IsDir, Fs
  <2>7. Climbing'
    BY <1>2, <2>1, <2>2, <2>4, <2>5, <2>6 DEF Climbing
  <2> QED BY <1>1, <1>2, <1>3, <2>1, <2>7 DEF IndexInv
<1>8. CASE PathEnd
  <2> DEFINE at == climb.at
             c == Component(at)
             tail == climb.tail
             loop == Mark("boucle", at)
             lost == Mark("perdu", 0)
  <2>1. climb # Idle /\ UNCHANGED <<root, idx>> /\ ClimbEnds
    BY <1>8 DEF PathEnd, Step, ClimbEnds
  <2>2. /\ at \in DOMAIN idx /\ IsSeq(tail) /\ todo # <<>>
        /\ Followed(fs, at, tail)[Len(tail)] = Head(todo)
    BY <1>2, <2>1 DEF Climbing
  <2>3. ASSUME NEW path, IsSeq(path), IsPath(fs, path, Head(todo)), Give(path) PROVE IndexInv'
    <3>1. fs' = fs
      BY <2>3 DEF Give
    <3>2. NodesGood'
      BY <1>2, <2>1, <3>1 DEF NodesGood, IsDir, Fs
    <3>3. Climbing'
      BY <1>2, <2>1, <2>2, <2>3, <3>2, GiveKeepsPaths
    <3> QED BY <1>1, <1>2, <1>3, <2>1, <3>1, <3>3 DEF IndexInv
  <2>4. CASE EstRacine(at)
    <3>1. Give(tail)
      BY <2>1, <2>4 DEF ClimbEnds
    <3>2. at = TrueRoot(fs)
      BY <1>2, <2>2, <2>4, RootIsRoot
    <3>3. IsPath(fs, tail, Head(todo))
      BY <2>2, <3>2 DEF IsPath
    <3> QED BY <2>2, <2>3, <3>1, <3>3
  <2>5. CASE ~EstRacine(at) /\ at \in climb.vus
    <3>1. Give(<<loop>> \o tail)
      BY <2>1, <2>5 DEF ClimbEnds
    <3>2. Leads(fs, TrueRoot(fs), loop) = at
      BY DEF Leads, Mark
    <3> HIDE DEF loop, tail, at
    <3>3. IsSeq(<<loop>> \o tail) /\ IsPath(fs, <<loop>> \o tail, Head(todo))
      BY <2>2, <3>2, FollowedFrom DEF IsPath
    <3> QED BY <2>3, <3>1, <3>3
  <2>6. CASE ~EstRacine(at) /\ at \notin climb.vus
    <3>1. ~IsDir(idx[at].parent) /\ Give(<<lost, c>> \o tail)
      BY <2>1, <2>6 DEF ClimbEnds
    <3>2. Leads(fs, Leads(fs, TrueRoot(fs), lost), c) = at
      BY <1>2, <2>2, <3>1, ComponentLeads
    <3> HIDE DEF c, lost, tail, at
    <3> DEFINE rest == <<c>> \o tail
               from == Leads(fs, TrueRoot(fs), lost)
    <3>3. IsSeq(rest) /\ <<lost, c>> \o tail = <<lost>> \o rest
      BY <2>2, FollowedFrom, TwoBefore
    <3>4. Followed(fs, from, rest)[Len(rest)] = Followed(fs, Leads(fs, from, c), tail)[Len(tail)]
      <4> HIDE DEF from
      <4> QED BY <2>2, FollowedFrom
    <3>5. Followed(fs, from, rest)[Len(rest)] = Head(todo)
      BY <2>2, <3>2, <3>4
    <3> HIDE DEF rest
    <3>6. IsSeq(<<lost>> \o rest) /\ IsPath(fs, <<lost>> \o rest, Head(todo))
      BY <3>3, <3>5, FollowedFrom DEF IsPath
    <3> QED BY <2>3, <3>1, <3>3, <3>6
  <2> QED BY <2>4, <2>5, <2>6
<1> QED BY <1>5, <1>6, <1>7, <1>8

\* Handing out the files with their paths.
LEMMA HandKeepsIndex ==
  ASSUME FindInv, IndexInv, HandOut PROVE IndexInv'
<1> DEFINE new(o) == [dataset |-> Current.oid, name |-> Current.name, object |-> o, path |-> paths[o]]
<1>1. /\ pc = "paths" /\ todo = <<>> /\ pc' = "offer" /\ cmd' = cmd
      /\ handed' = handed \cup {new(o) : o \in Files}
      /\ idx' = <<>> /\ todo' = <<>> /\ climb' = Idle /\ paths' = <<>>
  BY DEF HandOut
<1>2. Opened /\ Climbing /\ HandedGood
  BY <1>1 DEF FindInv, IndexInv
<1>3. /\ fs = Mos(Current.oid).objset /\ Current.oid \in DOMAIN Objects[cmd.mos]
      /\ Mos(Current.oid).bonus = "dsl_dataset"
  BY <1>2, FsIsThere DEF GoodEntry, Mos
<1>4. ASSUME NEW o \in Files PROVE IsPath(fs, paths[o], o)
  <2>1. DOMAIN paths = DOMAIN idx
    BY <1>1, <1>2, EmptyIsSeq DEF Climbing
  <2> QED BY <1>2, <2>1 DEF Files, Climbing
<1>5. \A o \in Files : new(o).dataset = Current.oid /\ new(o).object = o /\ new(o).path = paths[o]
  OBVIOUS
<1>6. HandedGood'
  <2> SUFFICES ASSUME NEW h \in handed'
               PROVE  /\ h.dataset \in DOMAIN Objects[cmd.mos] /\ Mos(h.dataset).bonus = "dsl_dataset"
                      /\ IsPath(Mos(h.dataset).objset, h.path, h.object)
    BY <1>1 DEF HandedGood, Mos
  <2> HIDE DEF new
  <2> QED BY <1>1, <1>2, <1>3, <1>4, <1>5 DEF HandedGood
<1> QED BY <1>1, <1>6 DEF IndexInv, Asleep

\* Every step keeps nodes and paths true.
LEMMA IndexKept == FindInv /\ IndexInv /\ [Next]_vars => IndexInv'
<1> SUFFICES ASSUME FindInv, IndexInv, [Next]_vars PROVE IndexInv'
  OBVIOUS
<1>1. CASE FindStep
  <2>1. /\ pc \notin {"sweep", "read", "paths"} /\ pc' \notin {"sweep", "read", "paths"} /\ cmd' = cmd
        /\ UNCHANGED <<index, handed>>
    BY <1>1 DEF FindStep, DslStep, StartTree, VisitTooDeep, VisitLostDir, VisitDir, TreeDone, StartScan,
                NameChildren, ScanDone, Skip, AllOffered
  <2> QED BY <2>1 DEF IndexInv, Asleep, HandedGood, Mos, index
<1>2. CASE UNCHANGED vars
  <2>1. UNCHANGED <<cmd, pc, fs, root, idx, todo, climb, paths, handed>>
    BY <1>2 DEF vars, index
  <2> QED BY <2>1 DEF IndexInv, Asleep, Reading, Climbing, NodesGood, IsDir, Fs, HandedGood, Mos
<1> QED BY <1>1, <1>2, OpenKeepsIndex, SweepKeepsIndex, ReadKeepsIndex, StartsPaths, ClimbKeepsIndex, HandKeepsIndex
        DEF Next, Rest

\* At first there is no index.
LEMMA IndexStarts == Init => IndexInv
BY DEF Init, DslInit, IndexInit, IndexInv, Asleep, HandedGood

-----------------------------------------------------------------------------

\* What goes through the commands as datasets are datasets, and paths are given to
\* nodes only.
THEOREM NamespaceTypes == Spec => []TypeOK
<1> DEFINE Steps == {"start", "raised", "tree", "names", "offer", "sweep", "read", "paths", "done"}
           Typed == damage \in Damages /\ pc \in Steps
<1>1. Init => Typed
  BY DEF Init, DslInit
<1>2. Typed /\ [Next]_vars => Typed'
  BY DEF Next, FindStep, DslStep, StartTree, VisitTooDeep, VisitLostDir, VisitDir, TreeDone, StartScan,
         NameChildren, ScanDone, Skip, AllOffered, OpenFs, SweepFs, ReadDir, DirsRead, PathRoot, PathStart,
         PathOn, PathEnd, HandOut, Step, Rest, vars
<1>3. Typed /\ FindInv /\ IndexInv => TypeOK
  <2> SUFFICES ASSUME Typed, FindInv, IndexInv PROVE TypeOK
    OBVIOUS
  <2>1. \A k \in DOMAIN entries : Mos(entries[k].oid).bonus = "dsl_dataset"
    BY DEF FindInv, AreGood, ToSet, GoodEntry, Mos
  <2>2. \A h \in handed : Mos(h.dataset).bonus = "dsl_dataset"
    BY DEF IndexInv, HandedGood
  <2>3. DOMAIN paths \subseteq DOMAIN idx
    BY DEF IndexInv, Asleep, Reading, Climbing
  <2> QED BY <2>1, <2>2, <2>3 DEF TypeOK, FindInv
<1> QED BY <1>1, <1>2, <1>3, FindStarts, FindKept, IndexStarts, IndexKept, PTL DEF Spec

\* A path leads to its object, and no two files get the same. (PathsTell, of what
\* build_index() gives to the extraction.)
THEOREM NamespacePathsTell == Spec => []PathsTell
<1>1. IndexInv => PathsTell
  <2> SUFFICES ASSUME IndexInv PROVE PathsTell
    OBVIOUS
  <2>1. \A h \in handed : IsPath(Mos(h.dataset).objset, h.path, h.object)
    BY DEF IndexInv, HandedGood
  <2>2. \A h, g \in handed : h.dataset = g.dataset /\ h.path = g.path => h.object = g.object
    BY <2>1 DEF IsPath
  <2> QED BY <2>1, <2>2 DEF PathsTell
<1> QED BY <1>1, FindStarts, FindKept, IndexStarts, IndexKept, PTL DEF Spec

-----------------------------------------------------------------------------
(* Attributes.                                                             *)

\* An attribute ends where the one before does and its length, one word if it is
\* one that all files have.
LEMMA EndsIs ==
  ASSUME NEW b, NEW registry, NEW layout, NEW start, Len(layout) \in Nat
  PROVE  LET end == Ends(b, registry, layout, start) IN
         /\ end[0] = start
         /\ \A k \in 1 .. Len(layout) :
              layout[k] \in DOMAIN registry /\ registry[layout[k]] # 0 => end[k] = end[k - 1] + registry[layout[k]]
<1> DEFINE n == Len(layout)
           fixed(a) == a \in DOMAIN registry /\ registry[a] # 0
           variables(k) == Cardinality({j \in 1 .. k : ~fixed(layout[j])})
           length(k) == IF fixed(layout[k]) THEN registry[layout[k]]
                        ELSE IF variables(k) <= Room(b) THEN b.lengths[variables(k)] ELSE b.end
           Upto(m, f) == f = [k \in 0 .. m |-> IF k = 0 THEN start ELSE f[k - 1] + length(k)]
           Never == {m \in 0 .. n : ~\E f : Upto(m, f)}
           end == Ends(b, registry, layout, start)
<1>0. \A k : fixed(layout[k]) => length(k) = registry[layout[k]]
  OBVIOUS
<1>1. end = CHOOSE f : Upto(n, f)
  BY DEF Ends
<1> HIDE DEF length, end
<1>2. Never = {}
  <2> SUFFICES ASSUME Never # {} PROVE FALSE
    OBVIOUS
  <2>1. PICK m \in Never : \A j \in Never : m <= j
    <3>1. Never \in SUBSET Nat
      OBVIOUS
    <3> HIDE DEF Never
    <3> QED BY <3>1, LeastExists
  <2>2. CASE m = 0
    <3> DEFINE f == [k \in 0 .. 0 |-> start]
    <3>1. f = [k \in 0 .. 0 |-> IF k = 0 THEN start ELSE f[k - 1] + length(k)]
      OBVIOUS
    <3>2. Upto(0, f)
      BY <3>1
    <3> HIDE DEF Upto
    <3> QED BY <2>1, <2>2, <3>2
  <2>3. CASE m # 0
    <3>0. m \in Nat /\ m - 1 \in 0 .. n /\ m \in 0 .. n
      BY <2>1, <2>3
    <3>1. m - 1 \notin Never
      <4> HIDE DEF Never
      <4> QED BY <2>1, <3>0
    <3>2. PICK f : Upto(m - 1, f)
      BY <3>0, <3>1
    <3> DEFINE g == [k \in 0 .. m |-> IF k < m THEN f[k] ELSE f[m - 1] + length(m)]
    <3>3. ASSUME NEW k \in 0 .. m
          PROVE  g[k] = IF k = 0 THEN start ELSE g[k - 1] + length(k)
      <4>1. CASE k = 0
        <5>1. g[0] = f[0] /\ f[0] = start
          BY <2>3, <3>0, <3>2
        <5> QED BY <4>1, <5>1
      <4>2. CASE k # 0 /\ k < m
        <5>1. g[k] = f[k] /\ g[k - 1] = f[k - 1] /\ k \in 0 .. m - 1
          BY <3>0, <4>2
        <5>2. f[k] = f[k - 1] + length(k)
          BY <3>2, <4>2, <5>1
        <5> QED BY <4>2, <5>1, <5>2
      <4>3. CASE k = m
        BY <2>3, <3>0, <4>3
      <4> QED BY <3>0, <4>1, <4>2, <4>3
    <3>4. g = [k \in 0 .. m |-> g[k]]
      OBVIOUS
    <3>5. [k \in 0 .. m |-> g[k]] = [k \in 0 .. m |-> IF k = 0 THEN start ELSE g[k - 1] + length(k)]
      <4> HIDE DEF g
      <4> QED BY <3>3
    <3>6. Upto(m, g)
      <4> HIDE DEF g
      <4> QED BY <3>4, <3>5, Zenon
    <3> HIDE DEF Upto, g
    <3> QED BY <2>1, <3>6
  <2> QED BY <2>2, <2>3
<1>3. \E f : Upto(n, f)
  BY <1>2
<1>4. Upto(n, end)
  <2> HIDE DEF Upto
  <2> QED BY <1>1, <1>3, Zenon
<1>5. end[0] = start /\ \A k \in 1 .. n : end[k] = end[k - 1] + length(k)
  BY <1>4
<1>6. \A k \in 1 .. n : fixed(layout[k]) => end[k] = end[k - 1] + registry[layout[k]]
  <2> HIDE DEF fixed
  <2> QED BY <1>0, <1>5
<1> QED BY <1>5, <1>6 DEF end

\* The attributes that all files have are of one word.
OneWord(registry) == \A a \in ToSet(Common) : a \in DOMAIN registry /\ registry[a] = 1

\* The four attributes that all files have.
LEMMA FourCommon ==
  /\ Len(Common) = 4 /\ DOMAIN Common = 1 .. 4 /\ ToSet(Common) = {"MODE", "SIZE", "PARENT", "LINKS"}
  /\ \A k \in 1 .. 4 : Common[k] \in ToSet(Common)
  /\ \A j, k \in 1 .. 4 : Common[j] = Common[k] => j = k
BY DEF Common, ToSet

GoodBonus(b) ==
  /\ b.header \in Nat
  /\ \A k \in DOMAIN Common : \A a \in DOMAIN b.body :
       (b.body[a] = <<b.header + k - 1, b.header + k>>) <=> (a = Common[k])
  /\ ToSet(Common) \subseteq DOMAIN b.body

Told(attrs) == \A a \in DOMAIN attrs \cap ToSet(Common) : attrs[a] = a

\* Attributes read along a layout that begins with the common ones are theirs.
LEMMA ValuesTold ==
  ASSUME NEW b, GoodBonus(b), NEW registry, OneWord(registry), NEW layout, BeginsWithCommon(layout)
  PROVE  Told(Values(b, Parsed(b, registry, layout), layout))
<1> DEFINE end == Parsed(b, registry, layout)
           val == Values(b, end, layout)
<1>1. layout \in Seq(ToSet(layout)) /\ Len(layout) \in Nat /\ DOMAIN layout = 1 .. Len(layout) /\ Len(layout) >= 4
  BY FourCommon, LenProperties DEF BeginsWithCommon
<1>2. \A k \in 1 .. 4 : layout[k] = Common[k] /\ k \in 1 .. Len(layout)
  BY <1>1, FourCommon DEF BeginsWithCommon
<1>3. \A k \in DOMAIN layout : ~(k <= 4) => layout[k] \notin ToSet(Common)
  BY FourCommon DEF BeginsWithCommon
<1>4. end[0] = b.header /\ \A k \in 1 .. 4 : end[k] = end[k - 1] + 1
  <2>1. /\ end[0] = b.header
        /\ \A k \in 1 .. Len(layout) :
              layout[k] \in DOMAIN registry /\ registry[layout[k]] # 0 => end[k] = end[k - 1] + registry[layout[k]]
    BY <1>1, EndsIs DEF Parsed
  <2>2. \A k \in 1 .. 4 : layout[k] \in DOMAIN registry /\ registry[layout[k]] = 1
    BY <1>2, FourCommon DEF OneWord
  <2> HIDE DEF end
  <2> QED BY <1>2, <2>1, <2>2
<1>5. b.header \in Nat
  BY DEF GoodBonus
<1> HIDE DEF end
<1>6. \A k \in 1 .. 4 : end[k - 1] = b.header + k - 1 /\ end[k] = b.header + k
  <2>1. end[1] = b.header + 1
    BY <1>4, <1>5
  <2>2. end[2] = b.header + 2
    BY <1>4, <1>5, <2>1
  <2>3. end[3] = b.header + 3
    BY <1>4, <1>5, <2>2
  <2>4. end[4] = b.header + 4
    BY <1>4, <1>5, <2>3
  <2> QED BY <1>4, <1>5, <2>1, <2>2, <2>3, <2>4
<1>7. ASSUME NEW a \in ToSet(layout) \cap ToSet(Common) PROVE val[a] = a
  <2> DEFINE k == CHOOSE k \in DOMAIN layout : layout[k] = a
  <2>1. k \in DOMAIN layout /\ layout[k] = a
    BY DEF ToSet
  <2>2. val[a] = At(b, end[k - 1], end[k])
    BY DEF Values
  <2> HIDE DEF k, val
  <2>3. k \in 1 .. 4
    BY <1>1, <1>3, <2>1
  <2>4. Common[k] = a /\ val[a] = At(b, b.header + k - 1, b.header + k)
    BY <1>2, <1>6, <2>1, <2>2, <2>3
  <2>5. a \in DOMAIN b.body /\ \A x \in DOMAIN b.body : b.body[x] = <<b.header + k - 1, b.header + k>> <=> x = a
    BY <2>3, <2>4, FourCommon DEF GoodBonus
  <2> QED BY <2>4, <2>5 DEF At
<1>8. DOMAIN val = ToSet(layout)
  BY DEF Values
<1> QED BY <1>7, <1>8 DEF Told, end

\* The layouts of the hypotheses begin with them.
LEMMA CandidatesBegin ==
  OneWord(ZplStandardAttrs) /\ OneWord(ZplLegacyAttrs) /\ \A c \in DispositionsCandidates : BeginsWithCommon(c)
<1>1. OneWord(ZplStandardAttrs) /\ OneWord(ZplLegacyAttrs)
  BY FourCommon DEF OneWord, ZplStandardAttrs, ZplLegacyAttrs
<1>2. ASSUME NEW T, NEW c \in Seq(T), Len(c) >= 4, \A k \in 1 .. 4 : c[k] = Common[k],
             \A k \in 1 .. Len(c) : ~(k <= 4) => c[k] \notin ToSet(Common)
      PROVE  BeginsWithCommon(c)
  <2>1. IsSeq(c) /\ DOMAIN c = 1 .. Len(c) /\ Len(c) \in Nat
    BY <1>2, SeqIsSeq, LenProperties
  <2> QED BY <1>2, <2>1, FourCommon DEF BeginsWithCommon, IsSeq
<1>3. ASSUME NEW tail \in Seq({"PROJID", "COUNT", "SYMLINK", "ACES", "RDEV"})
      PROVE  BeginsWithCommon(Common \o tail)
  <2> DEFINE T == {"MODE", "SIZE", "PARENT", "LINKS", "PROJID", "COUNT", "SYMLINK", "ACES", "RDEV"}
             c == Common \o tail
  <2>1. Common \in Seq(T) /\ tail \in Seq(T) /\ Len(tail) \in Nat /\ Len(Common) = 4
        /\ \A k \in 1 .. Len(tail) : tail[k] \notin ToSet(Common)
    <3>1. Common \in Seq(T)
      BY DEF Common
    <3>2. tail \in Seq(T) /\ Len(tail) \in Nat /\ \A k \in 1 .. Len(tail) : tail[k] \in {"PROJID", "COUNT", "SYMLINK", "ACES", "RDEV"}
      BY SeqMonotonic, LenProperties, ElementOfSeq
    <3> QED BY <3>1, <3>2, FourCommon
  <2> HIDE DEF T
  <2>2. /\ c \in Seq(T) /\ Len(c) = Len(Common) + Len(tail)
        /\ \A k \in 1 .. Len(Common) + Len(tail) : c[k] = IF k <= Len(Common) THEN Common[k] ELSE tail[k - Len(Common)]
    BY <2>1, ConcatProperties
  <2> HIDE DEF c
  <2>3. ASSUME NEW k \in 1 .. 4 PROVE c[k] = Common[k]
    <3>1. k \in 1 .. Len(Common) + Len(tail) /\ k <= Len(Common)
      BY <2>1
    <3> QED BY <2>2, <3>1
  <2>4. ASSUME NEW k \in 1 .. Len(c), ~(k <= 4) PROVE c[k] \notin ToSet(Common)
    <3>1. k - 4 \in 1 .. Len(tail) /\ c[k] = tail[k - 4]
      BY <2>1, <2>2, <2>4
    <3> QED BY <2>1, <3>1
  <2>5. Len(c) >= 4
    BY <2>1, <2>2
  <2>6. (\A k \in 1 .. 4 : c[k] = Common[k]) /\ \A k \in 1 .. Len(c) : ~(k <= 4) => c[k] \notin ToSet(Common)
    BY <2>3, <2>4, Zenon
  <2>7. BeginsWithCommon(c)
    BY <1>2, <2>2, <2>5, <2>6, Zenon
  <2> QED BY <2>7 DEF c
<1>4. \A c \in DispositionsCandidates : \E tail \in Seq({"PROJID", "COUNT", "SYMLINK", "ACES", "RDEV"}) : c = Common \o tail
  <2> DEFINE S == {"PROJID", "COUNT", "SYMLINK", "ACES", "RDEV"}
  <2>1. /\ <<"PROJID", "COUNT", "ACES">> \in Seq(S) /\ <<"COUNT", "ACES">> \in Seq(S)
        /\ <<"PROJID", "COUNT", "SYMLINK", "ACES">> \in Seq(S) /\ <<"RDEV", "PROJID", "COUNT", "ACES">> \in Seq(S)
    OBVIOUS
  <2> HIDE DEF S
  <2>2. \A c \in DispositionsCandidates : \E tail \in Seq(S) : c = Common \o tail
    BY <2>1, Zenon DEF DispositionsCandidates
  <2> QED BY <2>2 DEF S
<1> QED BY <1>1, <1>3, <1>4

\* What is known of the attributes is what ZFS wrote, or nothing.
TableGood(t) == \A n \in DOMAIN t.layouts : BeginsWithCommon(t.layouts[n]) /\ OneWord(t.registry)

\* Decoded along the layout of the bonus or along an hypothesis, they are theirs.
LEMMA DecodedTold ==
  ASSUME NEW b, GoodBonus(b), NEW t, TableGood(t)
  PROVE  Told(DecodeBonus(b, t))
<1> DEFINE layout == t.layouts[b.num]
<1>1. CASE b.num \in DOMAIN t.layouts /\ Ok(b, Parsed(b, t.registry, layout))
  <2>1. BeginsWithCommon(layout) /\ OneWord(t.registry)
    BY <1>1 DEF TableGood
  <2>2. DecodeBonus(b, t) = Values(b, Parsed(b, t.registry, layout), layout)
    BY <1>1 DEF DecodeBonus
  <2> HIDE DEF layout
  <2> QED BY <2>1, <2>2, ValuesTold
<1>2. CASE ~(b.num \in DOMAIN t.layouts /\ Ok(b, Parsed(b, t.registry, layout)))
  <2> DEFINE fit == {c \in DispositionsCandidates : Valid(b, Parsed(b, ZplStandardAttrs, c))}
             c == CHOOSE c \in fit : TRUE
  <2>1. DecodeBonus(b, t) = Infer(b)
    BY <1>2 DEF DecodeBonus
  <2>2. CASE Cardinality(fit) # 1
    <3>1. Infer(b) = NoAttributes
      BY <2>2 DEF Infer
    <3>2. DOMAIN NoAttributes = {}
      BY DEF NoAttributes
    <3> QED BY <2>1, <3>1, <3>2 DEF Told
  <2>3. CASE Cardinality(fit) = 1
    <3>1. Infer(b) = Values(b, Parsed(b, ZplStandardAttrs, c), c)
      BY <2>3 DEF Infer
    <3>2. fit # {}
      <4> HIDE DEF fit
      <4> QED BY <2>3, FS_EmptySet
    <3>3. c \in DispositionsCandidates
      BY <3>2
    <3> HIDE DEF c
    <3> QED BY <2>1, <3>1, <3>3, CandidatesBegin, ValuesTold
  <2> QED BY <2>2, <2>3
<1> QED BY <1>1, <1>2

\* The layouts read begin with the common attributes, and the registry, of one
\* block, is read with them or not at all.
LEMMA TableRead ==
  ASSUME NEW os \in FileSystems, NEW o,
         o = Lookup(os, MasterNode, "SA_ATTRS")
  PROVE  TableGood(ReadSaTable(os, o))
<1> DEFINE z == ReadZap(os, o)
           reg == Linked(os, z, "REGISTRY")
           lay == Linked(os, z, "LAYOUTS")
           registry == Lookup(os, o, "REGISTRY")
           layouts == Lookup(os, o, "LAYOUTS")
           t == SaTable(reg, lay)
<1>0. os \in DOMAIN Objects
  BY DEF FileSystems
<1>1. CASE ~Present(os, o)
  <2> DEFINE none == [registry |-> <<>>, layouts |-> <<>>]
  <2>1. ReadSaTable(os, o) = none
    BY <1>1 DEF ReadSaTable
  <2>2. none.layouts = <<>> /\ DOMAIN <<>> = {}
    OBVIOUS
  <2> HIDE DEF none
  <2> QED BY <2>1, <2>2 DEF TableGood
<1>2. CASE Present(os, o)
  <2>1. ReadSaTable(os, o) = t /\ o \in DOMAIN Objects[os]
    BY <1>2 DEF ReadSaTable, Present
  <2>2. ASSUME NEW name, Linked(os, z, name) # {}
        PROVE  /\ Present(os, Lookup(os, o, name))
               /\ Linked(os, z, name) = Entries(ReadZap(os, Lookup(os, o, name)))
    <3>1. /\ Get(z, name) # NoValue /\ Present(os, Get(z, name)[1])
          /\ Linked(os, z, name) = Entries(ReadZap(os, Get(z, name)[1]))
      BY <2>2 DEF Linked
    <3>2. Get(z, name)[1] = Lookup(os, o, name)
      BY <1>0, <2>1, <3>1, GetIsTrue
    <3> HIDE DEF z
    <3> QED BY <3>1, <3>2
  <2>3. ASSUME NEW e \in lay PROVE BeginsWithCommon(e.value)
    <3>1. layouts \in DOMAIN Objects[os] /\ lay = Entries(ReadZap(os, layouts))
      BY <2>2 DEF Present
    <3> HIDE DEF lay
    <3>2. e \in AllEntries(os, layouts) /\ e.value # NoValue
      BY <1>0, <3>1, ReadsWhatIsThere DEF Entries
    <3> QED BY <3>2, AttributeAssumption
  <2>4. ASSUME reg # {}
        PROVE  \A a \in ToSet(Common) : /\ \E e \in reg : e.name = a
                                        /\ \A e \in reg : e.name = a => e.value = <<1>>
    <3> DEFINE blocks == Objects[os][registry].blocks
    <3>1. registry \in DOMAIN Objects[os] /\ reg = Entries(ReadZap(os, registry))
      BY <2>2, <2>4 DEF Present
    <3>2. (\A k \in DOMAIN blocks : blocks[k].kind = "micro") /\ \A a \in ToSet(Common) : ValueOf(os, registry, a) = <<1>>
      BY <3>1, AttributeAssumption
    <3>3. ReadZap(os, registry).entries # {}
      BY <2>4, <3>1 DEF Entries
    <3>4. ReadZap(os, registry).entries = AllEntries(os, registry)
      <4> DEFINE lost == Lost(os, registry)
      <4>1. ReadZap(os, registry) = Read(blocks, lost)
        BY DEF ReadZap
      <4>2. ~(blocks = <<>> \/ 1 \in lost)
        BY <3>3, <4>1 DEF Read, Nothing
      <4>3. 1 \in DOMAIN blocks
        BY <1>0, <3>1, <4>2, BlocksOf
      <4>4. blocks[1].kind = "micro" /\ DOMAIN blocks = {1}
        BY <1>0, <3>1, <3>2, <4>3, ObjectsAssumption
      <4>5. ReadZap(os, registry).entries = blocks[1].entries
        BY <4>1, <4>2, <4>4 DEF Read
      <4>6. AllEntries(os, registry) = blocks[1].entries
        BY <3>1, <4>4 DEF AllEntries
      <4> QED BY <4>5, <4>6
    <3> SUFFICES ASSUME NEW a \in ToSet(Common)
                 PROVE  /\ \E e \in reg : e.name = a
                        /\ \A e \in reg : e.name = a => e.value = <<1>>
      OBVIOUS
    <3>5. ValueOf(os, registry, a) = <<1>> /\ <<1>> # <<>>
      BY <3>2
    <3>6. PICK e \in AllEntries(os, registry) : e.name = a
      BY <3>5 DEF ValueOf, NoValue
    <3>7. \A f \in AllEntries(os, registry) : f.name = a => f.value = <<1>>
      BY <1>0, <3>5, ValueOfEntry
    <3> HIDE DEF reg
    <3> QED BY <3>1, <3>4, <3>5, <3>6, <3>7 DEF Entries, NoValue
  <2>5. OneWord(IF reg = {} THEN ZplLegacyAttrs
                ELSE [a \in {e.name : e \in reg} |-> (CHOOSE e \in reg : e.name = a).value[1]])
    <3>1. CASE reg = {}
      BY <3>1, CandidatesBegin
    <3>2. CASE reg # {}
      <4> DEFINE r == [a \in {e.name : e \in reg} |-> (CHOOSE e \in reg : e.name = a).value[1]]
      <4> HIDE DEF reg
      <4>1. ASSUME NEW a \in ToSet(Common) PROVE a \in DOMAIN r /\ r[a] = 1
        <5> DEFINE e == CHOOSE e \in reg : e.name = a
        <5>1. e \in reg /\ e.name = a
          BY <2>4, <3>2
        <5>2. a \in DOMAIN r /\ r[a] = e.value[1]
          BY <5>1
        <5> HIDE DEF e, r
        <5>3. e.value = <<1>>
          BY <2>4, <3>2, <5>1
        <5> QED BY <5>2, <5>3
      <4> HIDE DEF r
      <4>2. OneWord(r)
        BY <4>1 DEF OneWord
      <4> QED BY <3>2, <4>2 DEF r
    <3> QED BY <3>1, <3>2
  <2>6. OneWord(t.registry)
    <3> HIDE DEF reg, lay
    <3> QED BY <2>5 DEF SaTable
  <2>7. ASSUME NEW n \in DOMAIN t.layouts PROVE BeginsWithCommon(t.layouts[n])
    <3> HIDE DEF reg, lay
    <3>1. t.layouts = [m \in {e.name : e \in lay} |-> (CHOOSE e \in lay : e.name = m).value]
      BY DEF SaTable
    <3> DEFINE e == CHOOSE e \in lay : e.name = n
    <3>2. e \in lay /\ t.layouts[n] = e.value
      BY <3>1
    <3> HIDE DEF e, t
    <3> QED BY <2>3, <3>2
  <2> HIDE DEF t
  <2> QED BY <2>1, <2>6, <2>7 DEF TableGood
<1> QED BY <1>1, <1>2

AttributesInv ==
  /\ pc = "sweep" => TableGood(table)
  /\ pc = "read" => \A o \in DOMAIN idx : Told(idx[o].attrs)

\* Opening a file system reads its layouts.
LEMMA OpenKeepsAttributes ==
  ASSUME FindInv, OpenFs PROVE AttributesInv'
<1> DEFINE os == Objset(Current)
           value(name) == IF Present(os, MasterNode) /\ Get(ReadZap(os, MasterNode), name) # NoValue
                          THEN Get(ReadZap(os, MasterNode), name)[1] ELSE NoRoot
           o == value("SA_ATTRS")
<1>1. /\ pc' = "sweep" /\ entries # <<>> /\ ~Mos(Current.oid).hole
      /\ table' = IF o = NoRoot THEN LegacyTable ELSE ReadSaTable(os, o)
  BY DEF OpenFs, Prepare
<1>2. os \in FileSystems /\ os \in DOMAIN Objects
  BY <1>1, ObjsetIsThere
<1>3. CASE o = NoRoot
  <2>1. table' = LegacyTable /\ DOMAIN LegacyTable.layouts = {}
    BY <1>1, <1>3 DEF LegacyTable
  <2> QED BY <1>1, <2>1 DEF AttributesInv, TableGood
<1>4. CASE o # NoRoot
  <2>1. o = Get(ReadZap(os, MasterNode), "SA_ATTRS")[1] /\ Get(ReadZap(os, MasterNode), "SA_ATTRS") # NoValue
        /\ MasterNode \in DOMAIN Objects[os]
    BY <1>4 DEF Present
  <2> HIDE DEF os, o
  <2>2. o = Lookup(os, MasterNode, "SA_ATTRS")
    BY <1>2, <2>1, GetIsTrue
  <2>3. table' = ReadSaTable(os, o)
    BY <1>1, <1>4
  <2> QED BY <1>1, <1>2, <2>2, <2>3, TableRead DEF AttributesInv
<1> QED BY <1>3, <1>4

\* The sweep decodes the attributes of every node.
LEMMA SweepKeepsAttributes ==
  ASSUME FindInv, AttributesInv, SweepFs PROVE AttributesInv'
<1> DEFINE present == {o \in DOMAIN Objects[fs] : Present(fs, o)}
<1>1. pc = "sweep" /\ pc' = "read" /\ Sweep
  BY DEF SweepFs, Step
<1>2. PICK attrs \in {[o \in present |-> Attributes(o)]} : idx' = [o \in DOMAIN attrs |-> Swept(o, attrs[o])]
  BY <1>1 DEF Sweep
<1>3. DOMAIN idx' = present /\ \A o \in present : idx'[o] = Swept(o, Attributes(o))
  BY <1>2
<1>4. fs \in FileSystems /\ TableGood(table)
  BY <1>1, FsIsThere DEF FindInv, AttributesInv
<1>5. ASSUME NEW o \in present PROVE Told(idx'[o].attrs)
  <2>1. idx'[o].attrs = Attributes(o) /\ o \in DOMAIN Objects[fs]
    BY <1>3, <1>5, SweptIs
  <2>2. CASE Fs(o).bonus = NoBonus
    <3>1. idx'[o].attrs = <<>> /\ DOMAIN <<>> = {}
      BY <2>1, <2>2 DEF Attributes, NoAttributes
    <3> QED BY <3>1 DEF Told
  <2>3. CASE Fs(o).bonus # NoBonus
    <3>1. GoodBonus(Objects[fs][o].bonus)
      <4> USE DEF Fs
      <4> QED BY <1>4, <2>1, <2>3, AttributeAssumption DEF GoodBonus
    <3>2. GoodBonus(Fs(o).bonus)
      BY <3>1 DEF Fs
    <3>3. Told(DecodeBonus(Fs(o).bonus, table))
      BY <1>4, <3>2, DecodedTold
    <3> QED BY <2>1, <2>3, <3>3 DEF Attributes
  <2> QED BY <2>2, <2>3
<1> QED BY <1>1, <1>3, <1>5 DEF AttributesInv

\* Naming a node leaves its attributes.
LEMMA ReadKeepsAttributes ==
  ASSUME IndexInv, AttributesInv, ReadDir PROVE AttributesInv'
<1> DEFINE dir == Head(todo)
           found == Entries(ReadZap(fs, dir))
           of == {e.value[1] : e \in found}
           entry(o) == CHOOSE e \in found : e.value[1] = o
           node(o) == IF o \in DOMAIN idx THEN idx[o] ELSE Absent
<1>1. /\ pc = "read" /\ pc' = "read"
      /\ idx' = [o \in DOMAIN idx \cup of |-> IF o \in of THEN Rename(node(o), entry(o).name, dir) ELSE idx[o]]
  BY DEF ReadDir, Step, ReadDirectory, Rename
<1> HIDE DEF dir, found, of, entry
<1>2. \A o \in DOMAIN idx : IsNode(idx[o]) /\ Told(idx[o].attrs)
  BY <1>1 DEF IndexInv, Reading, NodesGood, AttributesInv
<1>3. IsNode(Absent) /\ Told(Absent.attrs)
  <2>1. DOMAIN <<>> = {}
    OBVIOUS
  <2>2. Absent.attrs = <<>> /\ IsNode(Absent)
    BY DEF Absent, NoAttributes, IsNode
  <2> QED BY <2>1, <2>2 DEF Told
<1>4. \A o : o \in DOMAIN idx \cup of => IsNode(node(o)) /\ Told(node(o).attrs)
  BY <1>2, <1>3
<1> HIDE DEF node
<1>5. ASSUME NEW o \in DOMAIN idx' PROVE Told(idx'[o].attrs)
  <2>1. CASE o \in of
    <3>1. idx'[o] = Rename(node(o), entry(o).name, dir)
      BY <1>1, <2>1
    <3>2. idx'[o].attrs = node(o).attrs
      BY <1>4, <2>1, <3>1, Renamed
    <3> QED BY <1>4, <2>1, <3>2
  <2>2. CASE o \notin of
    BY <1>1, <1>2, <1>5, <2>2
  <2> QED BY <2>1, <2>2
<1> QED BY <1>1, <1>5 DEF AttributesInv

\* Every step keeps attributes true.
LEMMA AttributesKept == FindInv /\ IndexInv /\ AttributesInv /\ [Next]_vars => AttributesInv'
<1> SUFFICES ASSUME FindInv, IndexInv, AttributesInv, [Next]_vars PROVE AttributesInv'
  OBVIOUS
<1>1. CASE FindStep
  BY <1>1 DEF FindStep, DslStep, StartTree, VisitTooDeep, VisitLostDir, VisitDir, TreeDone, StartScan,
              NameChildren, ScanDone, Skip, AllOffered, AttributesInv
<1>2. CASE DirsRead \/ PathRoot \/ PathStart \/ PathOn \/ PathEnd \/ HandOut
  BY <1>2 DEF DirsRead, PathRoot, PathStart, PathOn, PathEnd, HandOut, Step, AttributesInv
<1>3. CASE UNCHANGED vars
  <2>1. UNCHANGED <<pc, table, idx>>
    BY <1>3 DEF vars, index
  <2> QED BY <2>1 DEF AttributesInv
<1> QED BY <1>1, <1>2, <1>3, OpenKeepsAttributes, SweepKeepsAttributes, ReadKeepsAttributes DEF Next, Rest

\* An attribute given is the one ZFS wrote, read along a layout or inferred.
\* (AttributesTrue, of decode_bonus().)
THEOREM NamespaceAttributesTrue == Spec => []AttributesTrue
<1>1. Init => AttributesInv
  BY DEF Init, DslInit, AttributesInv
<1>2. AttributesInv => AttributesTrue
  BY FourCommon DEF AttributesInv, AttributesTrue, Told
<1> QED BY <1>1, <1>2, FindStarts, FindKept, IndexStarts, IndexKept, AttributesKept, PTL DEF Spec

-----------------------------------------------------------------------------
(* Every file that can be read is handed out.                              *)

\* A ZAP that says it is complete has given all that was written, under each name.
LEMMA CompleteReadsAll ==
  ASSUME NEW os \in DOMAIN Objects, NEW o \in DOMAIN Objects[os], Complete(ReadZap(os, o)),
         NEW f \in AllEntries(os, o)
  PROVE  \E e \in ReadZap(os, o).entries : e.name = f.name /\ e.value = f.value
<1> DEFINE blocks == Objects[os][o].blocks
           lost == Lost(os, o)
           z == Read(blocks, lost)
<1>0. ReadZap(os, o) = z
  BY DEF ReadZap
<1>1. z.missing = {} /\ ~z.errors
  BY <1>0 DEF Complete
<1>2. PICK k \in DOMAIN blocks : f \in blocks[k].entries
  BY DEF AllEntries
<1>3. ~(blocks = <<>> \/ 1 \in lost)
  BY <1>1 DEF Read, Nothing
<1>4. 1 \in DOMAIN blocks /\ DOMAIN blocks \subseteq Nat
  BY <1>3, BlocksOf
<1>5. /\ \A j \in DOMAIN blocks : blocks[j].kind = "micro" => DOMAIN blocks = {1}
      /\ \A j \in DOMAIN blocks : blocks[j].kind \notin {"micro", "leaf"} => blocks[j].entries = {}
  BY ObjectsAssumption
<1>6. CASE blocks[1].kind = "micro"
  <2>1. z.entries = blocks[1].entries
    BY <1>3, <1>6 DEF Read
  <2> QED BY <1>0, <1>2, <1>4, <1>5, <1>6, <2>1
<1>7. CASE blocks[1].kind = "header"
  <2> DEFINE read == Sound(blocks, lost)
             same == {j \in DOMAIN blocks : \E g \in blocks[j].entries : <<j, g>> \in read /\ g.name = f.name /\ g.cd = f.cd}
  <2>1. z = ReadFat(blocks, lost)
    BY <1>3, <1>7 DEF Read
  <2>2. lost = {} /\ \A j \in Leaves(blocks, lost) : \A e \in blocks[j].entries : e.sound
    BY <1>1, <2>1 DEF ReadFat
  <2>3. k \in Leaves(blocks, lost)
    <3>1. blocks[k].kind # "micro"
      <4>1. blocks[1].kind # "micro"
        BY <1>7
      <4> QED BY <1>2, <1>4, <1>5, <4>1
    <3>2. blocks[k].kind = "leaf"
      BY <1>2, <1>5, <3>1
    <3> QED BY <2>2, <3>2 DEF Leaves
  <2>4. <<k, f>> \in read
    BY <1>2, <2>2, <2>3 DEF Sound
  <2>5. k \in same /\ same \in SUBSET Nat
    BY <1>2, <1>4, <2>4
  <2>6. PICK j \in same : \A i \in same : j <= i
    <3> HIDE DEF same
    <3> QED BY <2>5, LeastExists
  <2>7. PICK g \in blocks[j].entries : <<j, g>> \in read /\ g.name = f.name /\ g.cd = f.cd
    BY <2>6
  <2>8. ASSUME NEW c \in read, c[1] < j, c[2].name = g.name, c[2].cd = g.cd PROVE FALSE
    <3>1. c[1] \in DOMAIN blocks /\ c[2] \in blocks[c[1]].entries /\ c = <<c[1], c[2]>>
      BY <2>8 DEF Sound, Leaves
    <3>2. c[1] \in same
      BY <2>7, <2>8, <3>1
    <3> HIDE DEF same, read
    <3>3. j \in Nat /\ c[1] \in Nat /\ j <= c[1]
      BY <2>5, <2>6, <3>2
    <3> QED BY <2>8, <3>3
  <2>9. g \in z.entries
    <3> DEFINE b == <<j, g>>
    <3>1. b[1] = j /\ b[2] = g /\ b \in read
      BY <2>7
    <3>2. z.entries = {x[2] : x \in {x \in read : \A c \in read :
                         c[1] < x[1] => c[2].name # x[2].name \/ c[2].cd # x[2].cd}}
      BY <2>1 DEF ReadFat
    <3> HIDE DEF b, read, z
    <3> QED BY <2>8, <3>1, <3>2
  <2>10. g.value = f.value
    <3>1. g \in AllEntries(os, o)
      BY <2>7, BlocksOf
    <3> QED BY <2>7, <3>1, ObjectsAssumption
  <2> QED BY <1>0, <2>7, <2>9, <2>10
<1>8. CASE blocks[1].kind \notin {"micro", "header"}
  <2>1. z = Nothing({})
    BY <1>3, <1>8 DEF Read
  <2> QED BY <1>1, <2>1 DEF Nothing
<1> QED BY <1>6, <1>7, <1>8

\* What was met on the way down: no directory is missed, under none of its names,
\* as long as nothing is said.
PairOf(d, path) == <<d, path>>
Waiting == {PairOf(p[1], p[2]) : p \in ToSet(pending)}
NamedNode(ds, path) == \E n \in ToSet(nodes) : n.oid = ds /\ n.name = Named(path, "")
Walked(V) ==
  /\ \A v \in V : v[1] \in DslDirs(cmd.mos)
  /\ PairOf(RootDir(cmd.mos), <<>>) \in V \cup Waiting
  /\ \A v \in V : \A e \in AllEntries(cmd.mos, Mos(v[1]).children) :
       e.value # NoValue => PairOf(e.value[1], Append(v[2], e.name)) \in V \cup Waiting
  /\ \A v \in V : ReadBonus(Mos(v[1]).head, "dsl_dataset") => NamedNode(Mos(v[1]).head, v[2])
WalkInv ==
  /\ trouble \subseteq {"profondeur", "illisible", "incomplete"}
  /\ pc = "tree" /\ trouble = {} => \E V : Walked(V)

\* At the start only the root waits.
LEMMA StartKeepsWalk ==
  ASSUME FindInv, WalkInv, StartTree PROVE WalkInv'
<1>1. cmd' = cmd /\ nodes' = nodes /\ trouble' = trouble /\ pc' \in {"raised", "tree"}
  BY DEF StartTree
<1>2. CASE Racine = NoObject
  <2>1. pc' = "raised"
    BY <1>2 DEF StartTree
  <2> QED BY <1>1, <2>1 DEF WalkInv
<1>3. CASE Racine # NoObject
  <2>1. pending' = <<<<Racine, <<>>, 0>>>> /\ Racine = RootDir(cmd.mos)
    BY <1>3, MosIsThere, RacineIsRoot DEF StartTree, FindInv
  <2>2. PairOf(Racine, <<>>) \in Waiting'
    <3> DEFINE r == <<Racine, <<>>, 0>>
               s == <<r>>
    <3>1. r[1] = Racine /\ r[2] = <<>> /\ pending' = s
      BY <2>1
    <3> HIDE DEF r
    <3>2. 1 \in DOMAIN s /\ s[1] = r
      OBVIOUS
    <3> HIDE DEF s
    <3> QED BY <3>1, <3>2 DEF Waiting, ToSet
  <2>3. Walked({})'
    BY <1>1, <2>1, <2>2 DEF Walked
  <2> QED BY <1>1, <2>3 DEF WalkInv
<1> QED BY <1>2, <1>3

\* A directory visited, unless something was said, puts all its children down.
LEMMA VisitKeepsWalk ==
  ASSUME FindInv, WalkInv, VisitDir PROVE WalkInv'
<1> DEFINE mos == cmd.mos
           p == Head(pending)
           o == p[1]
           d == Mos(o)
           ds == d.head
           z == ReadMosZap(d.children)
           listed == d.children # NoObject /\ Present(mos, d.children)
           sub == IF listed THEN Children(z, p[2], p[3]) ELSE {}
           read == ReadBonus(ds, "dsl_dataset")
           new == [oid |-> ds, name |-> Named(p[2], "")]
           snaps == IF read THEN Mos(ds).snapnames ELSE NoObject
           said == Said(ds # NoObject /\ ~read, "illisible")
                    \cup Said(snaps # NoObject /\ Present(mos, snaps) /\ ~Complete(ReadMosZap(snaps)), "incomplete")
                    \cup Said(d.children # NoObject /\ ~listed, "illisible")
                    \cup Said(listed /\ ~Complete(z), "incomplete")
<1>1. /\ pc = "tree" /\ pc' = pc /\ cmd' = cmd /\ damage' = damage /\ pending # <<>> /\ ReadBonus(o, "dsl_dir")
      /\ pending' = SetToSeq(sub) \o Tail(pending)
      /\ nodes' = IF read THEN Append(nodes, new) ELSE nodes
  BY DEF VisitDir
<1>2. trouble' = trouble \cup said
  BY DEF VisitDir
<1>3. trouble' \subseteq {"profondeur", "illisible", "incomplete"}
  BY <1>2 DEF WalkInv, Said
<1>4. ASSUME trouble' = {} PROVE \E V : Walked(V)'
  <2>1. trouble = {} /\ (d.children # NoObject => listed) /\ (listed => Complete(z))
    BY <1>2, <1>4 DEF Said
  <2> HIDE DEF said
  <2>2. PICK V : Walked(V)
    BY <1>1, <2>1 DEF WalkInv
  <2>3. IsSeq(pending) /\ mos \in DOMAIN Objects /\ IsSeq(nodes) /\ NoObject \notin DOMAIN Objects[mos]
    BY MosIsThere DEF FindInv, OnTheWay, AreGood
  <2>4. /\ IsSeq(Tail(pending)) /\ ToSet(pending) = {p} \cup ToSet(Tail(pending))
    BY <1>1, <2>3, HeadAndTail
  <2>5. IsFiniteSet(sub)
    <3>1. CASE listed
      <4>1. d.children \in DOMAIN Objects[mos] /\ sub = Children(ReadZap(mos, d.children), p[2], p[3])
        BY <3>1 DEF Present, ReadMosZap
      <4> HIDE DEF sub, d
      <4> QED BY <2>3, <4>1, FiniteChildren
    <3> QED BY <3>1, FS_EmptySet
  <2>6. o \in DslDirs(mos)
    BY <1>1 DEF ReadBonus, Present, DslDirs, Mos
  <2>7. ASSUME NEW f \in AllEntries(mos, d.children), f.value # NoValue
        PROVE  \E s \in sub : s[1] = f.value[1] /\ s[2] = Append(p[2], f.name)
    <3>1. d.children \in DOMAIN Objects[mos]
      BY <2>7 DEF AllEntries
    <3>2. listed /\ Complete(z) /\ z = ReadZap(mos, d.children)
      BY <2>1, <2>3, <3>1 DEF ReadMosZap
    <3>3. PICK e \in z.entries : e.name = f.name /\ e.value = f.value
      <4> HIDE DEF z, d
      <4> QED BY <2>3, <2>7, <3>1, <3>2, CompleteReadsAll
    <3>4. sub = {<<e1.value[1], Append(p[2], e1.name), p[3] + 1>> : e1 \in Entries(z)}
      BY <3>2 DEF Children
    <3>5. e \in Entries(z)
      BY <2>7, <3>3 DEF Entries
    <3> DEFINE s == <<e.value[1], Append(p[2], e.name), p[3] + 1>>
    <3>6. s \in sub /\ s[1] = e.value[1] /\ s[2] = Append(p[2], e.name)
      <4> HIDE DEF z, sub
      <4> QED BY <3>4, <3>5
    <3> HIDE DEF s, z, sub
    <3> QED BY <3>3, <3>6
  <2> HIDE DEF p, d, sub, new
  <2>8. SetToSeq(sub) \in Seq(sub) /\ ToSet(SetToSeq(sub)) = sub
    BY <2>5, SetToSeqTakesAll
  <2>9. ToSet(pending') = sub \cup ToSet(Tail(pending))
    <3>1. IsSeq(SetToSeq(sub))
      BY <2>8, SeqIsSeq
    <3> QED BY <1>1, <2>4, <2>8, <3>1, Joined
  <2> DEFINE visited == PairOf(o, p[2])
             rest == {PairOf(q[1], q[2]) : q \in ToSet(Tail(pending))}
  <2>10. Waiting' = {PairOf(s[1], s[2]) : s \in sub} \cup rest
    BY <2>9 DEF Waiting
  <2>11. Waiting = {visited} \cup rest
    BY <2>4 DEF Waiting
  <2>12. V \cup Waiting \subseteq (V \cup {visited}) \cup Waiting'
    BY <2>10, <2>11
  <2>13. /\ ToSet(nodes) \subseteq ToSet(nodes')
         /\ read => \E n \in ToSet(nodes') : n.oid = ds /\ n.name = Named(p[2], "")
    <3>1. new.oid = ds /\ new.name = Named(p[2], "")
      <4> DEFINE n == Named(p[2], "")
      <4>1. new = [oid |-> ds, name |-> n]
        BY DEF new
      <4> HIDE DEF n, ds
      <4> QED BY <4>1 DEF n
    <3> HIDE DEF ds
    <3>2. ToSet(nodes) \subseteq ToSet(nodes') /\ (read => new \in ToSet(nodes'))
      BY <1>1, <2>3, AppendOne
    <3> QED BY <3>1, <3>2
  <2> HIDE DEF ds
  <2>14. PICK here : here = visited /\ here[1] = o /\ here[2] = p[2]
    <3>1. \A a, b : PairOf(a, b)[1] = a /\ PairOf(a, b)[2] = b
      BY DEF PairOf
    <3>2. visited[1] = o /\ visited[2] = p[2]
      BY <3>1
    <3> HIDE DEF visited, o
    <3> QED BY <3>2
  <2> HIDE DEF visited, rest
  <2>15. PairOf(RootDir(mos), <<>>) \in (V \cup {here}) \cup Waiting'
    BY <2>2, <2>12, <2>14 DEF Walked
  <2>16. ASSUME NEW v \in V \cup {here}, NEW f \in AllEntries(mos, Mos(v[1]).children), f.value # NoValue
         PROVE  PairOf(f.value[1], Append(v[2], f.name)) \in (V \cup {here}) \cup Waiting'
    <3>1. CASE v \in V
      BY <2>2, <2>12, <2>14, <2>16, <3>1 DEF Walked
    <3>2. CASE v = here
      <4>1. f \in AllEntries(mos, d.children)
        BY <2>14, <2>16, <3>2 DEF d
      <4>2. PICK s \in sub : s[1] = f.value[1] /\ s[2] = Append(p[2], f.name)
        BY <2>7, <2>16, <4>1
      <4>3. PairOf(f.value[1], Append(v[2], f.name)) = PairOf(s[1], s[2])
        BY <2>14, <3>2, <4>2
      <4> QED BY <2>10, <4>3
    <3> QED BY <3>1, <3>2
  <2>17. ASSUME NEW v \in V \cup {here}, ReadBonus(Mos(v[1]).head, "dsl_dataset")
         PROVE  NamedNode(Mos(v[1]).head, v[2])'
    <3>0. Mos(v[1])' = Mos(v[1])
      BY <1>1 DEF Mos
    <3>1. CASE v \in V
      <4>1. NamedNode(Mos(v[1]).head, v[2])
        BY <2>2, <2>17, <3>1 DEF Walked
      <4> QED BY <2>13, <3>0, <4>1 DEF NamedNode
    <3>2. CASE v = here
      BY <2>13, <2>14, <2>17, <3>0, <3>2 DEF d, ds, NamedNode
    <3> QED BY <3>1, <3>2
  <2>18. \A x : Mos(x)' = Mos(x) /\ (ReadBonus(x, "dsl_dataset")' <=> ReadBonus(x, "dsl_dataset"))
    BY <1>1 DEF Mos, ReadBonus, Present
  <2>19. \A v \in V \cup {here} : v[1] \in DslDirs(mos)
    BY <2>2, <2>6, <2>14 DEF Walked
  <2>20. Walked(V \cup {here})'
    <3> HIDE DEF o
    <3> QED BY <1>1, <2>15, <2>16, <2>17, <2>18, <2>19 DEF Walked
  <2> QED BY <2>20
<1> QED BY <1>1, <1>3, <1>4 DEF WalkInv

\* A name that leads somewhere does so by an entry of a directory.
LEMMA ChildIsEntry ==
  ASSUME NEW mos, NEW d, NEW name, Child(mos, d, name) # NoObject
  PROVE  /\ d \in DslDirs(mos)
         /\ \E e \in AllEntries(mos, Objects[mos][d].children) :
              e.name = name /\ e.value # NoValue /\ e.value[1] = Child(mos, d, name)
<1> DEFINE zap == Objects[mos][d].children
           e == CHOOSE e \in AllEntries(mos, zap) : e.name = name
<1>1. d \in DslDirs(mos) /\ Child(mos, d, name) = Lookup(mos, zap, name)
  BY DEF Child
<1>2. ValueOf(mos, zap, name) # NoValue /\ Lookup(mos, zap, name) = ValueOf(mos, zap, name)[1]
  BY <1>1 DEF Lookup
<1>3. \E f \in AllEntries(mos, zap) : f.name = name
  BY <1>2 DEF ValueOf
<1>4. e \in AllEntries(mos, zap) /\ e.name = name
  BY <1>3
<1>5. e.value = ValueOf(mos, zap, name)
  BY <1>3 DEF ValueOf
<1> HIDE DEF e
<1> QED BY <1>1, <1>2, <1>4, <1>5

\* A sequence that is not empty is one less long, with its last element.
LEMMA FrontAppended ==
  ASSUME NEW s, IsSeq(s), s # <<>>
  PROVE  IsSeq(Front(s)) /\ s = Append(Front(s), Last(s)) /\ Len(s) = Len(Front(s)) + 1 /\ Len(Front(s)) \in Nat
<1> DEFINE n == Len(s)
<1>1. n \in Nat \ {0} /\ DOMAIN s = 1 .. n /\ s \in Seq(ToSet(s))
  BY LenProperties, EmptySeq DEF IsSeq
<1>2. s[n] \in ToSet(s) /\ \A i \in 1 .. n - 1 : s[i] \in ToSet(s)
  BY <1>1 DEF ToSet
<1>3. /\ Front(s) \in Seq(ToSet(s)) /\ Len(Front(s)) = n - 1
      /\ \A i \in 1 .. n - 1 : Front(s)[i] = s[i]
  <2> HIDE DEF n
  <2>1. 1 \in Int /\ n - 1 \in Int /\ (n - 1) - 1 + 1 = n - 1 /\ Front(s) = SubSeq(s, 1, n - 1)
    BY <1>1 DEF Front, n
  <2>2. /\ SubSeq(s, 1, n - 1) \in Seq(ToSet(s))
        /\ Len(SubSeq(s, 1, n - 1)) = IF 1 <= n - 1 THEN (n - 1) - 1 + 1 ELSE 0
        /\ \A i \in 1 .. (n - 1) - 1 + 1 : SubSeq(s, 1, n - 1)[i] = s[1 + i - 1]
    BY <1>2, <2>1, SubSeqProperties
  <2> QED BY <1>1, <2>1, <2>2
<1>4. Last(s) = s[n] /\ Last(s) \in ToSet(s)
  BY <1>1, <1>2 DEF Last
<1> DEFINE t == Append(Front(s), Last(s))
<1>5. /\ t \in Seq(ToSet(s)) /\ Len(t) = n
      /\ t[n] = Last(s) /\ \A i \in 1 .. n - 1 : t[i] = s[i]
  <2> HIDE DEF n
  <2>1. /\ t \in Seq(ToSet(s)) /\ Len(t) = Len(Front(s)) + 1
        /\ \A i \in 1 .. Len(Front(s)) : t[i] = Front(s)[i]
        /\ t[Len(Front(s)) + 1] = Last(s)
    BY <1>3, <1>4, AppendProperties
  <2> QED BY <1>1, <1>3, <2>1
<1>6. t = s
  <2>1. \A i \in 1 .. n : t[i] = s[i]
    <3> HIDE DEF t
    <3>1. \A m \in Nat \ {0} : \A i \in 1 .. m : i = m \/ i \in 1 .. m - 1
      OBVIOUS
    <3> QED BY <1>1, <1>4, <1>5, <3>1
  <2> HIDE DEF t
  <2> QED BY <1>1, <1>5, <2>1, SeqEqual
<1> QED BY <1>1, <1>3, <1>6, SeqIsSeq

\* When nothing waits and nothing was said, every directory was met under each of
\* its names.
LEMMA AllNamesMet ==
  ASSUME FindInv, pending = <<>>, NEW V, Walked(V), NEW path, IsSeq(path), TrueDir(cmd.mos, path) # NoObject
  PROVE  PairOf(TrueDir(cmd.mos, path), path) \in V
<1> DEFINE mos == cmd.mos
           Missed(q) == IsSeq(q) /\ TrueDir(mos, q) # NoObject /\ PairOf(TrueDir(mos, q), q) \notin V
           L == {k \in Nat : \E q : Missed(q) /\ Len(q) = k}
<1> SUFFICES ASSUME Missed(path) PROVE FALSE
  OBVIOUS
<1>1. Waiting = {}
  BY EmptyIsSeq DEF Waiting
<1>2. mos \in DOMAIN Objects /\ NoObject \notin DslDirs(mos)
  BY MosIsThere DEF FindInv
<1>3. Len(path) \in L
  BY LenProperties DEF IsSeq
<1>4. PICK k \in L : \A j \in L : k <= j
  <2>1. L \in SUBSET Nat
    OBVIOUS
  <2> HIDE DEF L
  <2> QED BY <1>3, <2>1, LeastExists
<1>5. PICK q : Missed(q) /\ Len(q) = k
  BY <1>4
<1>6. CASE q = <<>>
  <2>1. TrueDir(mos, q) = RootDir(mos)
    BY <1>6, RootNamed
  <2> QED BY <1>1, <1>5, <1>6, <2>1 DEF Walked
<1>7. CASE q # <<>>
  <2> DEFINE up == Front(q)
             name == Last(q)
             d == TrueDir(mos, up)
  <2>1. IsSeq(up) /\ q = Append(up, name) /\ k = Len(up) + 1 /\ Len(up) \in Nat
    BY <1>5, <1>7, FrontAppended
  <2> HIDE DEF up, name
  <2>2. TrueDir(mos, q) = Child(mos, d, name)
    BY <1>5, <2>1, DescentOn DEF TrueDir
  <2>3. d \in DslDirs(mos) /\ \E e \in AllEntries(mos, Objects[mos][d].children) :
           e.name = name /\ e.value # NoValue /\ e.value[1] = TrueDir(mos, q)
    BY <1>5, <2>2, ChildIsEntry
  <2>4. d # NoObject
    BY <1>2, <2>3
  <2> DEFINE v == PairOf(d, up)
  <2>5. v \in V
    <3> SUFFICES ASSUME v \notin V PROVE FALSE
      OBVIOUS
    <3>1. Len(up) \in L
      BY <2>1, <2>4
    <3> HIDE DEF L
    <3> QED BY <1>4, <2>1, <3>1
  <2>6. v[1] = d /\ v[2] = up
    BY DEF PairOf
  <2>7. PICK e \in AllEntries(mos, Objects[mos][d].children) :
           e.name = name /\ e.value # NoValue /\ e.value[1] = TrueDir(mos, q)
    BY <2>3
  <2> HIDE DEF d, v
  <2>8. PairOf(e.value[1], Append(v[2], e.name)) \in V \cup Waiting
    BY <2>5, <2>6, <2>7 DEF Walked, Mos
  <2>9. PairOf(TrueDir(mos, q), q) \in V
    BY <1>1, <2>1, <2>6, <2>7, <2>8
  <2> QED BY <1>5, <2>9
<1> QED BY <1>6, <1>7

\* When nothing waits and nothing was said, every head was met, under each of the
\* names of its directories.
LEMMA AllVisited ==
  ASSUME FindInv, WalkInv, pc = "tree", pending = <<>>, trouble = {}
  PROVE  /\ \A ds \in Found \cap Heads0 : \E n \in ToSet(nodes) : n.oid = ds
         /\ \A ds \in Found : \A path : IsSeq(path) /\ IsDatasetName(cmd.mos, Named(path, ""), ds) =>
              NamedNode(ds, path)
<1>1. PICK V : Walked(V)
  BY DEF WalkInv
<1>2. Waiting = {}
  BY EmptyIsSeq DEF Waiting
<1>3. cmd.mos \in {c.mos : c \in Commands}
  BY MosIsThere DEF FindInv
<1> DEFINE S == {v[1] : v \in V}
<1>4. S = DslDirs(cmd.mos)
  <2>1. RootDir(cmd.mos) \in S
    <3> DEFINE r == PairOf(RootDir(cmd.mos), <<>>)
    <3>1. r[1] = RootDir(cmd.mos)
      BY DEF PairOf
    <3> HIDE DEF r
    <3>2. r \in V
      BY <1>1, <1>2 DEF Walked, r
    <3> QED BY <3>1, <3>2
  <2>2. ASSUME NEW d \in S, NEW e \in AllEntries(cmd.mos, Objects[cmd.mos][d].children), e.value # NoValue
        PROVE  e.value[1] \in S
    <3>1. PICK v \in V : v[1] = d
      OBVIOUS
    <3> DEFINE c == PairOf(e.value[1], Append(v[2], e.name))
    <3>2. c[1] = e.value[1]
      BY DEF PairOf
    <3> HIDE DEF c
    <3>3. c \in V
      BY <1>1, <1>2, <2>2, <3>1 DEF Walked, Mos, c
    <3> QED BY <3>2, <3>3
  <2>3. S \in SUBSET DslDirs(cmd.mos)
    BY <1>1 DEF Walked
  <2> HIDE DEF S
  <2> QED BY <1>3, <2>1, <2>2, <2>3, MosAssumption
<1>5. ASSUME NEW ds \in Found, ds \in Heads0 PROVE \E n \in ToSet(nodes) : n.oid = ds
  <2>1. PICK d \in DslDirs(cmd.mos) : ds = Mos(d).head
    BY <1>5 DEF Heads0, DslDirs, Mos
  <2>2. PICK v \in V : v[1] = d
    BY <1>4
  <2>3. ReadBonus(ds, "dsl_dataset")
    BY DEF Found
  <2> QED BY <1>1, <2>1, <2>2, <2>3 DEF Walked, NamedNode
<1>6. ASSUME NEW ds \in Found, NEW path, IsSeq(path), IsDatasetName(cmd.mos, Named(path, ""), ds)
      PROVE  NamedNode(ds, path)
  <2> DEFINE n == Named(path, "")
  <2>1. n.path = path /\ n.snap = ""
    BY NameFields
  <2>2. TrueDir(cmd.mos, path) # NoObject /\ Mos(TrueDir(cmd.mos, path)).head = ds
    <3> HIDE DEF n
    <3> QED BY <1>6, <2>1 DEF IsDatasetName, Mos, n
  <2> DEFINE v == PairOf(TrueDir(cmd.mos, path), path)
  <2>3. v \in V
    BY <1>1, <1>6, <2>2, AllNamesMet
  <2>4. v[1] = TrueDir(cmd.mos, path) /\ v[2] = path
    BY DEF PairOf
  <2>5. ReadBonus(ds, "dsl_dataset")
    BY DEF Found
  <2> HIDE DEF v
  <2> QED BY <1>1, <2>2, <2>3, <2>4, <2>5 DEF Walked
<1> QED BY <1>5, <1>6

\* Every step keeps track of what was missed.
LEMMA WalkKept == FindInv /\ WalkInv /\ [Next]_vars => WalkInv'
<1> SUFFICES ASSUME FindInv, WalkInv, [Next]_vars PROVE WalkInv'
  OBVIOUS
<1>1. CASE VisitTooDeep \/ VisitLostDir
  <2>1. trouble' # {} /\ trouble' \subseteq {"profondeur", "illisible", "incomplete"}
    BY <1>1 DEF VisitTooDeep, VisitLostDir, WalkInv
  <2> QED BY <2>1 DEF WalkInv
<1>2. CASE TreeDone \/ StartScan \/ NameChildren \/ ScanDone \/ Skip \/ AllOffered
  <2>1. pc' # "tree" /\ trouble' = trouble
    BY <1>2 DEF TreeDone, StartScan, NameChildren, ScanDone, Skip, AllOffered, walk
  <2> QED BY <2>1 DEF WalkInv
<1>3. CASE OpenFs \/ SweepFs \/ ReadDir \/ DirsRead \/ PathRoot \/ PathStart \/ PathOn \/ PathEnd \/ HandOut
  <2>1. pc' # "tree" /\ walk' = walk
    BY <1>3 DEF OpenFs, SweepFs, ReadDir, DirsRead, PathRoot, PathStart, PathOn, PathEnd, HandOut, Step
  <2>2. trouble' = trouble
    BY <2>1 DEF walk
  <2> QED BY <2>1, <2>2 DEF WalkInv
<1>4. CASE UNCHANGED vars
  <2>1. UNCHANGED <<damage, cmd, pc, walk>>
    BY <1>4 DEF vars
  <2>2. UNCHANGED <<damage, cmd, pc, pending, nodes, trouble>>
    BY <2>1 DEF walk
  <2>3. \A V : Walked(V)' <=> Walked(V)
    BY <2>2 DEF Walked, Waiting, NamedNode, Mos, ReadBonus, Present
  <2> QED BY <2>2, <2>3 DEF WalkInv
<1> QED BY <1>1, <1>2, <1>3, <1>4, StartKeepsWalk, VisitKeepsWalk DEF Next, FindStep, DslStep, Rest

\* Whatever can be read of a file system is in its index.
AllIndexed == \A o \in DOMAIN Objects[fs] : Present(fs, o) => o \in DOMAIN idx /\ idx[o].type = Fs(o).type

\* The sweep takes every object that can be read.
LEMMA SweepIndexes == ASSUME SweepFs PROVE AllIndexed'
<1> DEFINE present == {o \in DOMAIN Objects[fs] : Present(fs, o)}
<1>1. fs' = fs /\ damage' = damage /\ Sweep
  BY DEF SweepFs, Step, Sweep
<1>2. PICK attrs \in {[o \in present |-> Attributes(o)]} : idx' = [o \in DOMAIN attrs |-> Swept(o, attrs[o])]
  BY <1>1 DEF Sweep
<1>3. DOMAIN idx' = present /\ \A o \in present : idx'[o] = Swept(o, attrs[o])
  BY <1>2
<1>4. \A o \in present : idx'[o].type = Fs(o).type
  <2> HIDE DEF present
  <2> QED BY <1>3, SweptIs
<1> QED BY <1>1, <1>3, <1>4 DEF AllIndexed, Present, Fs

\* None is lost from the index, nor changes its type.
LEMMA IndexedKept ==
  ASSUME IndexInv, AllIndexed, ReadDir \/ DirsRead \/ PathRoot \/ PathStart \/ PathOn \/ PathEnd PROVE AllIndexed'
<1>1. fs' = fs /\ damage' = damage
  BY DEF ReadDir, DirsRead, PathRoot, PathStart, PathOn, PathEnd, Step, ReadDirectory, StartPaths,
         PathOfRoot, StartClimb, ClimbOn, ClimbEnds, Give
<1> SUFFICES ASSUME NEW o \in DOMAIN idx PROVE o \in DOMAIN idx' /\ idx'[o].type = idx[o].type
  BY <1>1 DEF AllIndexed, Present, Fs
<1>2. IsNode(idx[o])
  BY DEF IndexInv, Reading, Climbing, NodesGood, ReadDir, DirsRead, PathRoot, PathStart, PathOn, PathEnd, Step
<1>3. CASE ReadDir
  <2> DEFINE dir == Head(todo)
             found == Entries(ReadZap(fs, dir))
             of == {e.value[1] : e \in found}
             entry(x) == CHOOSE e \in found : e.value[1] = x
             node(x) == IF x \in DOMAIN idx THEN idx[x] ELSE Absent
  <2>1. idx' = [x \in DOMAIN idx \cup of |-> IF x \in of THEN Rename(node(x), entry(x).name, dir) ELSE idx[x]]
    BY <1>3 DEF ReadDir, Step, ReadDirectory, Rename
  <2> HIDE DEF dir, found, of, entry
  <2>2. node(o) = idx[o]
    OBVIOUS
  <2> HIDE DEF node
  <2>3. CASE o \in of
    <3>1. idx'[o] = Rename(idx[o], entry(o).name, dir)
      BY <2>1, <2>2, <2>3
    <3> QED BY <1>2, <2>1, <3>1, Renamed
  <2>4. CASE o \notin of
    BY <2>1, <2>4
  <2> QED BY <2>3, <2>4
<1>4. CASE PathRoot
  <2>1. idx' = [idx EXCEPT ![Head(todo)].name = NoName]
    BY <1>4 DEF PathRoot, Step, PathOfRoot
  <2>2. idx'[o] = IF o = Head(todo) THEN [idx[o] EXCEPT !.name = NoName] ELSE idx[o]
    BY <2>1
  <2> QED BY <1>2, <2>1, <2>2 DEF IsNode
<1>5. CASE DirsRead \/ PathStart \/ PathOn \/ PathEnd
  BY <1>5 DEF DirsRead, PathStart, PathOn, PathEnd, Step, StartPaths, StartClimb, ClimbOn, ClimbEnds
<1> QED BY <1>3, <1>4, <1>5

\* A dataset that can be read, and which the command goes through, is served or
\* still to come.
Target(ds) ==
  /\ ds \in Readable /\ Asked(ds)
  /\ cmd.scan \/ (trouble = {} /\ ds \in Heads0)
Served(ds) == \A o \in FilesOf(ds) : Offered(ds, o) # {}
Listed(ds) == \E e \in ToSet(entries) : e.oid = ds /\ Correspond(e)
Serving == pc \in {"offer", "sweep", "read", "paths"}
OfferInv ==
  /\ pc = "tree" => ~cmd.scan
  /\ Serving => \A ds \in Found : Target(ds) => Served(ds) \/ Listed(ds)
  /\ pc = "done" => \A ds \in Found : Target(ds) => Served(ds)
  /\ pc \in {"read", "paths"} => AllIndexed

\* What a file is served from does not change while datasets are served.
LEMMA SameTargets ==
  ASSUME UNCHANGED <<damage, cmd, trouble, noms>>, handed \subseteq handed'
  PROVE  /\ Found' = Found
         /\ \A ds : (Target(ds)' <=> Target(ds)) /\ (Served(ds) => Served(ds)')
<1>1. Found' = Found /\ Heads0' = Heads0 /\ \A ds : FilesOf(ds)' = FilesOf(ds) /\ Mos(ds)' = Mos(ds)
  BY DEF Found, Heads0, FilesOf, ReadBonus, Present, Mos
<1>2. \A ds, o : Offered(ds, o) # {} => Offered(ds, o)' # {}
  BY DEF Offered
<1>3. Repertoires' = Repertoires /\ \A ds : Snapshots(ds)' = Snapshots(ds)
  BY <1>1 DEF Repertoires, Snapshots, ReadMosZap, ReadZap, Lost, ReadBonus, Present, Mos
<1>4. \A ds : ScanName(ds)' = ScanName(ds)
  BY <1>1, <1>3 DEF ScanName, Heads
<1>5. Readable' = Readable /\ \A ds : Asked(ds)' <=> Asked(ds)
  BY <1>1, <1>4 DEF Readable, ObjsetReadable, Asked
<1>6. \A ds : Target(ds)' <=> Target(ds)
  BY <1>1, <1>5 DEF Target
<1> QED BY <1>1, <1>2, <1>6 DEF Served

\* Files handed out are all those of the dataset, once each.
LEMMA HandServes ==
  ASSUME FindInv, IndexInv, OfferInv, HandOut
  PROVE  /\ handed \subseteq handed' /\ \A ds : ds = Current.oid => Served(ds)'
         /\ \A h \in handed' \ handed : h.dataset = Current.oid
         /\ \A g, h \in handed' \ handed : g.object = h.object => g = h
<1> DEFINE new(o) == [dataset |-> Current.oid, name |-> Current.name, object |-> o, path |-> paths[o]]
<1>1. /\ pc = "paths" /\ cmd' = cmd /\ damage' = damage
      /\ handed' = handed \cup {new(o) : o \in Files}
  BY DEF HandOut
<1>2. AllIndexed /\ Opened
  BY <1>1 DEF FindInv, OfferInv
<1>3. fs = Mos(Current.oid).objset
  BY <1>2 DEF Opened, Objset
<1>4. \A o : new(o).dataset = Current.oid /\ new(o).object = o
  OBVIOUS
<1>5. ASSUME NEW ds, ds = Current.oid, NEW o \in FilesOf(ds) PROVE new(o) \in Offered(ds, o)'
  <2>1. o \in Files
    BY <1>2, <1>3, <1>5 DEF FilesOf, AllIndexed, Files, Fs
  <2> HIDE DEF new
  <2> QED BY <1>1, <1>4, <1>5, <2>1 DEF Offered
<1>6. \A ds : FilesOf(ds)' = FilesOf(ds)
  BY <1>1 DEF FilesOf, Mos, Present
<1>7. \A ds : ds = Current.oid => Served(ds)'
  <2> HIDE DEF new
  <2> QED BY <1>5, <1>6 DEF Served
<1> HIDE DEF new
<1> QED BY <1>1, <1>4, <1>7

\* Every step leaves a dataset served or still to come.
LEMMA OfferKept == FindInv /\ IndexInv /\ WalkInv /\ OfferInv /\ [Next]_vars => OfferInv'
<1> SUFFICES ASSUME FindInv, IndexInv, WalkInv, OfferInv, [Next]_vars PROVE OfferInv'
  OBVIOUS
<1>0. IsSeq(entries) /\ IsSeq(nodes)
  BY DEF FindInv, AreGood
<1>1. CASE StartTree \/ StartScan \/ VisitTooDeep \/ VisitLostDir \/ VisitDir \/ NameChildren
  <2>1. pc' \in {"raised", "tree", "names"} /\ cmd' = cmd /\ (pc' = "tree" => ~cmd.scan)
    BY <1>1 DEF StartTree, StartScan, VisitTooDeep, VisitLostDir, VisitDir, NameChildren, OfferInv
  <2> QED BY <2>1 DEF OfferInv, Serving
<1>2. CASE TreeDone /\ UNCHANGED handed
  <2>1. /\ pc = "tree" /\ pending = <<>> /\ pc' = "offer" /\ entries' = nodes
        /\ UNCHANGED <<damage, cmd, trouble, noms>> /\ handed' = handed
    BY <1>2 DEF TreeDone, walk, naming
  <2>2. ~cmd.scan
    BY <2>1 DEF OfferInv
  <2>3. ASSUME NEW ds \in Found, Target(ds) PROVE Listed(ds)'
    <3>1. trouble = {} /\ ds \in Heads0 /\ Asked(ds)
      BY <2>2, <2>3 DEF Target
    <3>2. \A e : Correspond(e)' <=> Correspond(e)
      BY <2>1 DEF Correspond
    <3>3. \E n \in ToSet(nodes) : n.oid = ds /\ Correspond(n)
      <4>1. CASE cmd.filter \in {NoFilter, ByObject(ds)}
        <5>1. PICK n \in ToSet(nodes) : n.oid = ds
          BY <2>1, <3>1, AllVisited
        <5> QED BY <4>1, <5>1 DEF Correspond
      <4>2. CASE ~(cmd.filter \in {NoFilter, ByObject(ds)})
        <5>1. PICK path \in PathsAsked :
                cmd.filter = ByName(Named(path, "")) /\ IsDatasetName(cmd.mos, Named(path, ""), ds)
          BY <2>2, <3>1, <4>2 DEF Asked
        <5>2. NamedNode(ds, path)
          BY <2>1, <3>1, <5>1, AllVisited, CommandAssumption DEF IsSeq
        <5> QED BY <5>1, <5>2 DEF NamedNode, Correspond
      <4> QED BY <4>1, <4>2
    <3> QED BY <2>1, <3>2, <3>3 DEF Listed
  <2> QED BY <2>1, <2>2, <2>3, SameTargets DEF OfferInv, Serving
<1>3. CASE ScanDone /\ UNCHANGED handed
  <2>1. /\ pc' = "offer" /\ UNCHANGED <<damage, cmd, trouble, noms>> /\ cmd.scan
    BY <1>3 DEF ScanDone, walk, naming, FindInv
  <2>2. ASSUME NEW ds \in Found, Target(ds) PROVE Listed(ds)'
    <3>1. PICK e \in ToSet(entries') : e.oid = ds /\ e.name = ScanName(ds)
      <4> DEFINE name == ScanName(ds)
                 e == [oid |-> ds, name |-> name]
      <4>1. e \in ToSet(entries')
        BY <1>3, ScanGives
      <4>2. e.oid = ds /\ e.name = name
        <5> HIDE DEF name
        <5> QED OBVIOUS
      <4> HIDE DEF e
      <4> QED BY <4>1, <4>2 DEF name
    <3>2. cmd.filter \in {NoFilter, ByObject(ds), ByName(ScanName(ds))}
      BY <2>1, <2>2 DEF Target, Asked
    <3>3. Correspond(e)'
      BY <2>1, <3>1, <3>2 DEF Correspond
    <3> QED BY <3>1, <3>3 DEF Listed
  <2> QED BY <1>3, <2>1, <2>2, SameTargets DEF OfferInv, Serving
<1>4. CASE Skip /\ UNCHANGED handed
  <2>1. /\ pc = "offer" /\ pc' = "offer" /\ entries # <<>> /\ entries' = Tail(entries) /\ UNCHANGED <<damage, cmd, trouble, noms>>
        /\ ~Correspond(Current) \/ Mos(Current.oid).hole \/ ~ObjsetReadable(Objset(Current))
    BY <1>4 DEF Skip, walk, naming, Current
  <2>2. ~Correspond(Current) \/ ~Target(Current.oid)
    BY <2>1 DEF Target, Readable, Objset
  <2>3. ToSet(entries) = {Current} \cup ToSet(entries')
    BY <1>0, <2>1, HeadAndTail DEF Current
  <2>4. \A ds : Target(ds) /\ Listed(ds) => Listed(ds)'
    BY <2>1, <2>2, <2>3 DEF Listed, Correspond
  <2>5. \A ds \in Found : Target(ds) => Served(ds) \/ Listed(ds)
    BY <2>1 DEF OfferInv, Serving
  <2> QED BY <1>4, <2>1, <2>4, <2>5, SameTargets DEF OfferInv, Serving
<1>5. CASE AllOffered /\ UNCHANGED handed
  <2>1. /\ pc = "offer" /\ pc' = "done" /\ entries = <<>> /\ UNCHANGED <<damage, cmd, trouble, noms>>
    BY <1>5 DEF AllOffered, walk, naming
  <2>2. \A ds : ~Listed(ds)
    BY <2>1, EmptyIsSeq DEF Listed
  <2>3. \A ds \in Found : Target(ds) => Served(ds)
    BY <2>1, <2>2 DEF OfferInv, Serving
  <2> QED BY <1>5, <2>1, <2>3, SameTargets DEF OfferInv, Serving
<1>6. CASE OpenFs \/ SweepFs \/ ReadDir \/ DirsRead \/ PathRoot \/ PathStart \/ PathOn \/ PathEnd
  <2>1. /\ pc \in {"offer", "sweep", "read", "paths"} /\ pc' \in {"sweep", "read", "paths"}
        /\ UNCHANGED <<damage, cmd, trouble, noms>> /\ entries' = entries /\ handed' = handed
        /\ pc \in {"offer", "sweep"} /\ ~SweepFs => pc' = "sweep"
    BY <1>6 DEF OpenFs, SweepFs, ReadDir, DirsRead, PathRoot, PathStart, PathOn, PathEnd, Step, walk, naming
  <2>2. pc' \in {"read", "paths"} => AllIndexed'
    <3>1. CASE OpenFs
      BY <3>1 DEF OpenFs
    <3>2. CASE SweepFs
      BY <3>2, SweepIndexes
    <3>3. CASE ReadDir \/ DirsRead \/ PathRoot \/ PathStart \/ PathOn \/ PathEnd
      <4>1. AllIndexed
        BY <3>3 DEF ReadDir, DirsRead, PathRoot, PathStart, PathOn, PathEnd, Step, OfferInv
      <4> QED BY <3>3, <4>1, IndexedKept
    <3> QED BY <1>6, <3>1, <3>2, <3>3
  <2>3. \A ds : Listed(ds)' <=> Listed(ds)
    BY <2>1 DEF Listed, Correspond
  <2>4. \A ds \in Found : Target(ds) => Served(ds) \/ Listed(ds)
    BY <2>1 DEF OfferInv, Serving
  <2> QED BY <2>1, <2>2, <2>3, <2>4, SameTargets DEF OfferInv, Serving
<1>7. CASE HandOut
  <2>1. /\ pc = "paths" /\ pc' = "offer" /\ entries' = Tail(entries) /\ UNCHANGED <<damage, cmd, trouble, noms>>
    BY <1>7 DEF HandOut, walk, naming
  <2>2. entries # <<>>
    BY <2>1 DEF FindInv, Opened
  <2>3. ToSet(entries) = {Current} \cup ToSet(entries')
    BY <1>0, <2>1, <2>2, HeadAndTail DEF Current
  <2>4. handed \subseteq handed' /\ \A ds : ds = Current.oid => Served(ds)'
    BY <1>7, HandServes
  <2>5. \A ds : Listed(ds) => Served(ds)' \/ Listed(ds)'
    BY <2>1, <2>3, <2>4 DEF Listed, Correspond
  <2>6. \A ds \in Found : Target(ds) => Served(ds) \/ Listed(ds)
    BY <2>1 DEF OfferInv, Serving
  <2> QED BY <2>1, <2>4, <2>5, <2>6, SameTargets DEF OfferInv, Serving
<1>8. CASE UNCHANGED vars
  <2>1. UNCHANGED <<damage, cmd, pc, walk, naming, entries, index, handed>>
    BY <1>8 DEF vars
  <2>2. UNCHANGED <<damage, cmd, pc, trouble, noms, entries, fs, idx, handed>>
    BY <2>1 DEF walk, naming, index
  <2>3. (\A ds : Listed(ds)' <=> Listed(ds)) /\ (AllIndexed' <=> AllIndexed)
    BY <2>2 DEF Listed, Correspond, AllIndexed, Present, Fs
  <2> QED BY <2>2, <2>3, SameTargets DEF OfferInv, Serving
<1> QED BY <1>1, <1>2, <1>3, <1>4, <1>5, <1>6, <1>7, <1>8 DEF Next, FindStep, DslStep, Rest

\* By a scan a dataset is gone through once, and its files are handed out then.
NotTwice ==
  /\ \A j, k \in DOMAIN entries : entries[j].oid = entries[k].oid => j = k
  /\ \A h \in handed : \A k \in DOMAIN entries : h.dataset # entries[k].oid
HandedOnce == \A g, h \in handed : g.dataset = h.dataset /\ g.object = h.object => g = h
OnceInv ==
  cmd.scan =>
    /\ HandedOnce
    /\ pc \in {"start", "names"} => handed = {}
    /\ Serving => NotTwice

\* What follows the dataset at hand is as it was, and is not that one.
LEMMA TailNotTwice ==
  ASSUME IsSeq(entries), entries # <<>>, NotTwice, entries' = Tail(entries),
         NEW Served0, \A h \in Served0 : h.dataset = Current.oid, handed' = handed \cup Served0
  PROVE  NotTwice'
<1>1. /\ Current = entries[1] /\ Len(entries) \in Nat \ {0} /\ DOMAIN entries = 1 .. Len(entries)
      /\ DOMAIN entries' = 1 .. Len(entries) - 1 /\ \A k \in DOMAIN entries' : entries'[k] = entries[k + 1]
  BY HeadAndTail DEF Current
<1>2. \A k \in DOMAIN entries' : k + 1 \in DOMAIN entries /\ k + 1 # 1 /\ 1 \in DOMAIN entries
  BY <1>1
<1>3. ASSUME NEW j \in DOMAIN entries', NEW k \in DOMAIN entries', entries'[j].oid = entries'[k].oid PROVE j = k
  <2>1. j + 1 = k + 1
    BY <1>1, <1>2, <1>3 DEF NotTwice
  <2> QED BY <1>1, <2>1
<1>4. ASSUME NEW h \in handed', NEW k \in DOMAIN entries' PROVE h.dataset # entries'[k].oid
  <2>1. CASE h \in handed
    BY <1>1, <1>2, <2>1 DEF NotTwice
  <2>2. CASE h \in Served0
    BY <1>1, <1>2, <2>2 DEF NotTwice
  <2> QED BY <2>1, <2>2
<1> QED BY <1>3, <1>4 DEF NotTwice

\* By a scan, no step comes back to a dataset.
LEMMA OnceKept == FindInv /\ IndexInv /\ OfferInv /\ OnceInv /\ [Next]_vars => OnceInv'
<1> SUFFICES ASSUME FindInv, IndexInv, OfferInv, OnceInv, [Next]_vars PROVE OnceInv'
  OBVIOUS
<1>9. cmd' = cmd
  BY DEF Next, FindStep, DslStep, StartTree, VisitTooDeep, VisitLostDir, VisitDir, TreeDone, StartScan,
         NameChildren, ScanDone, Skip, AllOffered, OpenFs, SweepFs, ReadDir, DirsRead, PathRoot, PathStart,
         PathOn, PathEnd, HandOut, Step, Rest, vars
<1> SUFFICES ASSUME cmd.scan
             PROVE  /\ HandedOnce'
                    /\ pc' \in {"start", "names"} => handed' = {}
                    /\ Serving' => NotTwice'
  BY <1>9 DEF OnceInv
<1>0. HandedOnce /\ (pc \in {"start", "names"} => handed = {}) /\ (Serving => NotTwice) /\ IsSeq(entries)
  BY DEF OnceInv, FindInv, AreGood
<1>1. CASE (StartTree \/ StartScan \/ VisitTooDeep \/ VisitLostDir \/ VisitDir \/ NameChildren) /\ UNCHANGED handed
  <2>1. pc \in {"start", "names"} \/ pc' = "tree"
    BY <1>1 DEF StartTree, StartScan, VisitTooDeep, VisitLostDir, VisitDir, NameChildren
  <2>2. pc' \notin {"offer", "sweep", "read", "paths"}
    BY <1>1 DEF StartTree, StartScan, VisitTooDeep, VisitLostDir, VisitDir, NameChildren
  <2> QED BY <1>0, <1>1, <2>1, <2>2 DEF Serving, HandedOnce
<1>2. CASE TreeDone
  BY <1>2 DEF TreeDone, OfferInv
<1>3. CASE ScanDone /\ UNCHANGED handed
  <2>1. pc = "names" /\ pc' = "offer"
    BY <1>3 DEF ScanDone
  <2>2. NotTwice'
    BY <1>0, <1>3, <2>1, ScanGives DEF NotTwice
  <2> QED BY <1>0, <1>3, <2>1, <2>2 DEF HandedOnce
<1>4. CASE Skip /\ UNCHANGED handed
  <2>1. pc = "offer" /\ pc' = "offer" /\ entries # <<>> /\ entries' = Tail(entries)
    BY <1>4 DEF Skip
  <2>2. NotTwice'
    <3> DEFINE none == {}
    <3>1. handed' = handed \cup none /\ NotTwice /\ \A h \in none : h.dataset = Current.oid
      BY <1>0, <1>4, <2>1 DEF Serving
    <3> HIDE DEF none
    <3> QED BY <1>0, <2>1, <3>1, TailNotTwice
  <2> QED BY <1>0, <1>4, <2>1, <2>2 DEF HandedOnce
<1>5. CASE HandOut
  <2> DEFINE new == handed' \ handed
  <2>1. pc = "paths" /\ pc' = "offer" /\ entries' = Tail(entries)
    BY <1>5 DEF HandOut
  <2>2. entries # <<>> /\ NotTwice
    BY <1>0, <2>1 DEF FindInv, Opened, Serving
  <2>3. /\ handed \subseteq handed' /\ \A h \in new : h.dataset = Current.oid
        /\ \A g, h \in new : g.object = h.object => g = h
    BY <1>5, HandServes
  <2>4. handed' = handed \cup new
    BY <2>3
  <2>5. Current = entries[1] /\ 1 \in DOMAIN entries
    BY <1>0, <2>2, HeadAndTail DEF Current
  <2> HIDE DEF new
  <2>6. NotTwice'
    BY <1>0, <2>1, <2>2, <2>3, <2>4, TailNotTwice
  <2>7. HandedOnce'
    BY <1>0, <2>2, <2>3, <2>4, <2>5 DEF HandedOnce, NotTwice
  <2> QED BY <2>1, <2>6, <2>7
<1>6. CASE AllOffered /\ UNCHANGED handed
  BY <1>0, <1>6 DEF AllOffered, Serving, HandedOnce
<1>7. CASE OpenFs \/ SweepFs \/ ReadDir \/ DirsRead \/ PathRoot \/ PathStart \/ PathOn \/ PathEnd
  <2>1. /\ pc \in {"offer", "sweep", "read", "paths"} /\ pc' \in {"sweep", "read", "paths"}
        /\ entries' = entries /\ handed' = handed
    BY <1>7 DEF OpenFs, SweepFs, ReadDir, DirsRead, PathRoot, PathStart, PathOn, PathEnd, Step
  <2> QED BY <1>0, <2>1 DEF Serving, HandedOnce, NotTwice
<1>8. CASE UNCHANGED vars
  <2>1. UNCHANGED <<pc, entries, handed>>
    BY <1>8 DEF vars
  <2> QED BY <1>0, <2>1 DEF Serving, HandedOnce, NotTwice
<1> QED BY <1>1, <1>2, <1>3, <1>4, <1>5, <1>6, <1>7, <1>8 DEF Next, FindStep, DslStep, Rest

\* At first nothing is to come and nothing is served.
LEMMA OfferStarts == Init => WalkInv /\ OfferInv /\ OnceInv
BY DEF Init, DslInit, WalkInv, OfferInv, OnceInv, Serving, HandedOnce

\* Every file that can be read, in a dataset that can be read and is asked for, is
\* handed out: by a scan, once, under whatever name the scan finds; without it, for
\* the heads, by any of their names, unless the command has warned or has met its
\* limit of levels. (ReadableIsOffered, of what the commands extract.)
THEOREM NamespaceReadableIsOffered == Spec => []ReadableIsOffered
<1>1. WalkInv /\ OfferInv /\ OnceInv => ReadableIsOffered
  <2> SUFFICES ASSUME WalkInv, OfferInv, OnceInv, pc = "done",
                      cmd.scan \/ (~Warned /\ "profondeur" \notin trouble),
                      NEW ds \in Readable, Asked(ds), cmd.scan \/ ds \in Heads0,
                      NEW o \in FilesOf(ds)
               PROVE  IF cmd.scan THEN Cardinality(Offered(ds, o)) = 1 ELSE Offered(ds, o) # {}
    BY DEF ReadableIsOffered
  <2>1. cmd.scan \/ trouble = {}
    BY DEF WalkInv, Warned
  <2>2. Target(ds) /\ ds \in Found
    BY <2>1 DEF Target, Readable
  <2>3. Offered(ds, o) # {}
    BY <2>2 DEF OfferInv, Served
  <2>4. ASSUME cmd.scan PROVE Cardinality(Offered(ds, o)) = 1
    <3>1. PICK h : h \in Offered(ds, o)
      BY <2>3
    <3>2. Offered(ds, o) = {h}
      BY <2>4, <3>1 DEF OnceInv, HandedOnce, Offered
    <3> QED BY <3>2, FS_Singleton
  <2> QED BY <2>3, <2>4
<1> QED BY <1>1, FindStarts, FindKept, IndexStarts, IndexKept, WalkKept, OfferStarts, OfferKept, OnceKept, PTL DEF Spec
=============================================================================
