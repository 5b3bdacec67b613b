-------------------------- MODULE DnodeWalkProofs --------------------------
(***************************************************************************)
(* Every read answers exactly, for every tree, cache and history of reads; *)
(* the cache accounts for what it holds and keeps the path of the call; a  *)
(* walk through a meta-dnode reports every object once, as it is.          *)
(*                                                                         *)
(* The arguments: the pointer followed is always the one of its level      *)
(* above the block wanted, so the index taken in an indirect block leads   *)
(* to the next one of the path; the blocks followed are the last ones of   *)
(* the cache; and no dnode goes on over the slot the generator is at.      *)
(***************************************************************************)
EXTENDS DnodeWalk, FiniteSetTheorems, TLAPS

-----------------------------------------------------------------------------
(* Division by the spans of successive levels.                             *)

\* A quotient and a remainder are unique.
LEMMA QuotientUnique ==
  ASSUME NEW n \in Nat \ {0}, NEW q \in Nat, NEW r \in 0 .. n - 1
  PROVE  (n * q + r) \div n = q
OBVIOUS

\* Dividing by a product is dividing twice.
LEMMA DivideTwice ==
  ASSUME NEW w \in Nat, NEW s \in Nat \ {0}, NEW e \in Nat \ {0}
  PROVE  /\ w \div s \in Nat
         /\ w \div (s * e) \in Nat
         /\ (w \div s) % e \in 0 .. e - 1
         /\ (w \div (s * e)) * e + ((w \div s) % e) = w \div s
<1> DEFINE q == w \div s
           r == w % s
           k == q \div e
           j == q % e
<1>1. q \in Nat /\ r \in 0 .. s - 1 /\ w = s * q + r
  OBVIOUS
<1>2. k \in Nat /\ j \in 0 .. e - 1 /\ q = e * k + j
  BY <1>1
<1>0. q = w \div s /\ j = (w \div s) % e
  OBVIOUS
<1> HIDE DEF q, r, k, j
<1>3. w \div (s * e) = k
  <2>1. s * q = (s * e) * k + s * j
    BY <1>1, <1>2
  <2>2. s * j + r \in 0 .. s * e - 1
    <3>1. s * j <= s * (e - 1)
      BY <1>2
    <3>2. s * (e - 1) = s * e - s /\ s * j \in Nat /\ s * e \in Nat
      BY <1>2
    <3> QED BY <3>1, <3>2, <1>1
  <2>3. w = (s * e) * k + (s * j + r) /\ s * e \in Nat \ {0}
    <3>1. s * e \in Nat \ {0} /\ (s * e) * k \in Nat /\ s * j \in Nat
      BY <1>2
    <3> QED BY <3>1, <2>1, <1>1
  <2> QED BY <2>2, <2>3, <1>2, QuotientUnique
<1>4. k * e + j = q
  BY <1>2
<1> QED BY <1>0, <1>1, <1>2, <1>3, <1>4, Zenon

\* The pointer found in an indirect block of the path is the next of the path.
LEMMA ChildOnPath ==
  ASSUME NEW w \in Nat, NEW l \in Levels \ {0}
  PROVE  /\ l - 1 \in Levels
         /\ Child(<<l, w \div Span[l]>>, (w \div Span[l - 1]) % Epb)
              = <<l - 1, w \div Span[l - 1]>>
<1>1. l - 1 \in Levels /\ Span[l - 1] \in Nat \ {0} /\ Span[l] = Span[l - 1] * Epb
  BY SpanAssumption DEF Levels
<1>2. (w \div Span[l]) * Epb + ((w \div Span[l - 1]) % Epb) = w \div Span[l - 1]
  BY <1>1, SpanAssumption, DivideTwice
<1>3. \A x, k : Child(<<l, x>>, k) = <<l - 1, x * Epb + k>>
  BY DEF Child
<1> QED BY <1>1, <1>2, <1>3, Zenon

-----------------------------------------------------------------------------
(* The descent.                                                            *)

\* Where the descent to b would be at level l.
At(b, l) == <<l, b \div Span[l]>>

\* The descent went down its path, through indirect blocks that hold pointers
\* enough.  AnswerExact is not inductive without it: it says nothing of the
\* pointer before the answer.
OnPath ==
  /\ want <= MaxBlkid /\ want \div Span[Top] < NBlkptr
  /\ ptr[1] \in Levels /\ ptr = At(want, ptr[1])
  /\ \A l \in ptr[1] + 1 .. Top :
       /\ At(want, l) \notin Holes
       /\ (want \div Span[l - 1]) % Epb < Entries[At(want, l)]

Descending ==
  /\ want \in Nat
  /\ pc \in {"read", "evict", "got"} => OnPath
  /\ pc \in {"evict", "got"} => ptr \notin Holes

IInv == Descending /\ AnswerExact

\* At names the pointers of a path.
LEMMA PathAt ==
  ASSUME NEW b, NEW l \in Levels
  PROVE  Path(b)[l] = At(b, l) /\ At(b, l)[1] = l
BY DEF Path, At

\* The levels are numbered from 0 to Top.
LEMMA TopLevel == Top \in Levels /\ Levels = 0 .. Top /\ Top \in Nat
BY SpanAssumption DEF Top, Levels

\* What is needed, once the descent stands at ptr and ptr is no hole.
LEMMA NeededAbove ==
  ASSUME OnPath
  PROVE  /\ ptr \notin Holes => ptr \in Needed(want)
         /\ \A p \in Needed(want) :
              p[1] \in Levels /\ p = At(want, p[1]) /\ p \notin Holes
         /\ ptr \in Holes =>
              \A p \in Needed(want) : p[1] \in ptr[1] + 1 .. Top
<1>1. ASSUME ptr \notin Holes PROVE ptr \in Needed(want)
  <2>1. \A k \in ptr[1] .. Top : Path(want)[k] \notin Holes
    BY <1>1, PathAt, TopLevel DEF OnPath
  <2> QED BY <2>1, PathAt DEF OnPath, Needed
<1>2. ASSUME NEW p \in Needed(want)
      PROVE  /\ p[1] \in Levels /\ p = At(want, p[1]) /\ p \notin Holes
             /\ ptr \in Holes => p[1] \in ptr[1] + 1 .. Top
  <2>1. PICK l \in Levels : /\ p = Path(want)[l]
                            /\ \A k \in l .. Top : Path(want)[k] \notin Holes
    BY DEF Needed
  <2>2. p[1] = l /\ p = At(want, l)
    BY <2>1, PathAt
  <2>3. p \notin Holes
    BY <2>1, TopLevel
  <2>4. ASSUME ptr \in Holes PROVE l \in ptr[1] + 1 .. Top
    <3>1. ~(ptr[1] \in l .. Top)
      BY <2>1, <2>4, PathAt DEF OnPath
    <3> QED BY <3>1, TopLevel DEF OnPath
  <2> QED BY <2>2, <2>3, <2>4
<1> QED BY <1>1, <1>2

-----------------------------------------------------------------------------
(* The steps.                                                              *)

\* A refusal at once is out of bounds; otherwise the descent starts at the top.
LEMMA CallStep ==
  ASSUME IInv, NEW b \in Nat, Call(b)
  PROVE  IInv'
<1>1. want' = b /\ readable' = readable
  BY DEF Call, disk
<1>2. CASE b > MaxBlkid \/ b \div Span[Top] >= NBlkptr
  <2>1. pc' = "done" /\ answer' = Unknown
    BY <1>2 DEF Call, Return
  <2>2. b \div Span[Top] \in Nat
    BY TopLevel, SpanAssumption, DivideTwice
  <2>3. ~InBounds(b)
    BY <1>2, <2>2, DmuAssumption DEF InBounds
  <2> QED BY <1>1, <2>1, <2>3 DEF IInv, Descending, AnswerExact
<1>3. CASE ~(b > MaxBlkid \/ b \div Span[Top] >= NBlkptr)
  <2>1. pc' = "read" /\ ptr' = At(b, Top)
    BY <1>3 DEF Call, At
  <2>2. b \div Span[Top] \in Nat
    BY TopLevel, SpanAssumption, DivideTwice
  <2>3. OnPath'
    BY <1>1, <1>3, <2>1, <2>2, TopLevel, DmuAssumption DEF OnPath, At
  <2> QED BY <1>1, <2>1, <2>3 DEF IInv, Descending, AnswerExact
<1> QED BY <1>2, <1>3

\* Above a hole every index was in its block, and below it nothing is read.
LEMMA MeetHoleStep ==
  ASSUME IInv, MeetHole
  PROVE  IInv'
<1>1. /\ pc' = "done" /\ answer' = Recovered(Zeros)
      /\ want' = want /\ readable' = readable
      /\ OnPath /\ ptr \in Holes
  BY DEF MeetHole, Return, disk, IInv, Descending
<1>2. InBounds(want)
  <2>1. ASSUME NEW p \in Needed(want), p[1] > 0
        PROVE  (want \div Span[p[1] - 1]) % Epb < Entries[p]
    BY <1>1, NeededAbove DEF OnPath
  <2> QED BY <1>1, <2>1 DEF InBounds, OnPath
<1>3. Content(want) = Zeros
  BY <1>1, PathAt DEF Content, OnPath
<1> QED BY <1>1, <1>2, <1>3 DEF IInv, Descending, AnswerExact

\* One level down, the pointer is still the one of the path.
LEMMA DescendStep ==
  ASSUME IInv, Descend
  PROVE  IInv'
<1> DEFINE l == ptr[1]
<1>1. /\ pc' = "read" /\ want' = want /\ want \in Nat
      /\ OnPath /\ ptr \notin Holes /\ l > 0 /\ Index < Entries[ptr]
      /\ ptr' = Child(ptr, Index)
  BY DEF Descend, IInv, Descending
<1>2. l \in Levels \ {0} /\ ptr = At(want, l) /\ ptr = <<l, want \div Span[l]>>
      /\ Index = (want \div Span[l - 1]) % Epb
  BY <1>1, TopLevel DEF OnPath, At, Index
<1> HIDE DEF l
<1>3. l - 1 \in Levels /\ ptr' = At(want, l - 1)
  BY <1>1, <1>2, ChildOnPath DEF At
<1>4. ptr'[1] = l - 1 /\ l \in Nat
  BY <1>2, <1>3, TopLevel DEF At
<1>5. \A k \in l .. Top : /\ At(want, k) \notin Holes
                          /\ (want \div Span[k - 1]) % Epb < Entries[At(want, k)]
  <2>1. \A k \in l + 1 .. Top : /\ At(want, k) \notin Holes
                                /\ (want \div Span[k - 1]) % Epb < Entries[At(want, k)]
    BY <1>1 DEF OnPath, l
  <2>2. \A k \in l .. Top : k = l \/ k \in l + 1 .. Top
    BY <1>4, TopLevel
  <2> QED BY <1>1, <1>2, <2>1, <2>2
<1>6. OnPath'
  <2>1. ptr'[1] + 1 = l
    BY <1>4
  <2> QED BY <1>1, <1>3, <1>4, <1>5, <2>1 DEF OnPath, At
<1> QED BY <1>1, <1>6 DEF IInv, Descending, AnswerExact

\* A larger number has no smaller quotient.
LEMMA DivideMonotone ==
  ASSUME NEW a \in Nat, NEW b \in Nat, a <= b, NEW n \in Nat \ {0}
  PROVE  a \div n \in 0 .. b \div n
OBVIOUS

\* An indirect block of the path is one of the object's.
LEMMA OnPathType ==
  ASSUME OnPath, want \in Nat, ptr[1] > 0
  PROVE  Index \in Nat /\ Entries[ptr] \in Nat
<1> DEFINE l == ptr[1]
<1>1. l \in Levels /\ l - 1 \in Levels /\ ptr = <<l, want \div Span[l]>>
  BY TopLevel DEF OnPath, At
<1>2. want \div Span[l] \in 0 .. MaxBlkid \div Span[l]
  BY <1>1, SpanAssumption, DmuAssumption, DivideMonotone DEF OnPath
<1>3. ptr \in Indirect
  BY <1>1, <1>2 DEF Indirect, Pointers
<1>4. (want \div Span[l - 1]) % Epb \in Nat
  <2>1. want \div Span[l - 1] \in Nat
    BY <1>1, SpanAssumption, DivideTwice
  <2> QED BY <2>1, SpanAssumption
<1>5. Entries[ptr] \in 0 .. Epb
  BY <1>3, DmuAssumption
<1> QED BY <1>4, <1>5, SpanAssumption DEF Index

\* An indirect block of the path is too short: the block is out of bounds.
LEMMA ShortBlockStep ==
  ASSUME IInv, ShortBlock
  PROVE  IInv'
<1>1. /\ pc' = "done" /\ answer' = Unknown /\ want' = want /\ want \in Nat
      /\ OnPath /\ ptr \notin Holes /\ ptr[1] > 0 /\ Index >= Entries[ptr]
  BY DEF ShortBlock, Return, IInv, Descending
<1>2. ptr \in Needed(want)
  BY <1>1, NeededAbove
<1>3. Index \in Nat /\ Entries[ptr] \in Nat
  BY <1>1, OnPathType
<1>4. ~InBounds(want)
  BY <1>1, <1>2, <1>3 DEF InBounds, Index
<1> QED BY <1>1, <1>4 DEF IInv, Descending, AnswerExact

\* At level 0, with no hole above, the pointer is that of the block wanted.
LEMMA DeliverStep ==
  ASSUME IInv, Deliver
  PROVE  IInv'
<1>1. /\ pc' = "done" /\ answer' = Recovered(ptr) /\ want' = want
      /\ want \in Nat /\ OnPath /\ ptr \notin Holes /\ ptr[1] = 0
  BY DEF Deliver, Return, IInv, Descending
<1>2. \A k \in Levels : At(want, k) \notin Holes
  <2>1. \A k \in Levels : k = 0 \/ k \in 0 + 1 .. Top
    BY TopLevel
  <2> QED BY <1>1, <2>1 DEF OnPath
<1>3. ptr = <<0, want>>
  <2>1. want \div 1 = want
    BY <1>1
  <2> QED BY <1>1, <2>1, SpanAssumption DEF OnPath, At
<1>4. Content(want) = ptr
  BY <1>2, <1>3, PathAt DEF Content
<1>5. InBounds(want)
  <2>1. ASSUME NEW p \in Needed(want), p[1] > 0
        PROVE  (want \div Span[p[1] - 1]) % Epb < Entries[p]
    <3>1. p[1] \in 0 + 1 .. Top /\ p = At(want, p[1])
      BY <1>1, <2>1, NeededAbove, TopLevel
    <3> QED BY <1>1, <3>1 DEF OnPath
  <2> QED BY <1>1, <2>1 DEF InBounds, OnPath
<1> QED BY <1>1, <1>4, <1>5 DEF IInv, Descending, AnswerExact

\* The pointer that could not be read is one the block needs.
LEMMA UnreadableStep ==
  ASSUME IInv, Unreadable
  PROVE  IInv'
<1>1. /\ pc' = "done" /\ answer' = Failed /\ want' = want /\ readable' = readable
      /\ OnPath /\ ptr \notin Holes /\ ptr \notin readable
  BY DEF Unreadable, Return, disk, IInv, Descending
<1>2. ptr \in Needed(want)
  BY <1>1, NeededAbove
<1> QED BY <1>1, <1>2 DEF IInv, Descending, AnswerExact

\* The cache is no part of the argument: a hit and a miss both lead to the
\* block of the pointer, whatever is evicted.
LEMMA CacheStep ==
  ASSUME IInv, Hit \/ Miss \/ Evict \/ EvictEnd
  PROVE  IInv'
<1>1. /\ pc \in {"read", "evict"} /\ pc' \in {"evict", "got"}
      /\ want' = want /\ ptr' = ptr /\ ptr \notin Holes
  BY DEF Hit, Miss, Evict, EvictEnd, IInv, Descending
<1>2. OnPath'
  BY <1>1 DEF OnPath, IInv, Descending
<1> QED BY <1>1, <1>2 DEF IInv, Descending, AnswerExact

-----------------------------------------------------------------------------
(* The specification.                                                      *)

\* The generator only asks for blocks by number.
LEMMA BlockNumber == Spec => [](wblk \in Nat)
<1>1. WalkInit => wblk \in Nat
  BY DEF WalkInit
<1>2. wblk \in Nat /\ [WalkNext]_allvars => (wblk \in Nat)'
  BY DEF WalkNext, WalkRead, WalkGets, YieldLost, YieldDnode, WalkOn, OtherCalls,
         OtherGets, allvars, walk
<1> QED BY <1>1, <1>2, PTL DEF Spec

\* The descent keeps to its path, and every answer is exact.
LEMMA DescentKept == Spec => []IInv
<1>1. WalkInit => IInv
  BY DEF WalkInit, Init, IInv, Descending, AnswerExact
<1>2. IInv /\ wblk \in Nat /\ [WalkNext]_allvars => IInv'
  <2> SUFFICES ASSUME IInv, wblk \in Nat, [WalkNext]_allvars PROVE IInv'
    OBVIOUS
  <2>1. CASE WalkRead
    <3>1. Call(wblk)
      BY <2>1 DEF WalkRead
    <3> QED BY <3>1, CallStep
  <2>2. CASE OtherCalls
    <3>1. PICK b \in 0 .. MaxBlkid + 1 : Call(b)
      BY <2>2 DEF OtherCalls
    <3>2. b \in Nat
      BY DmuAssumption
    <3> QED BY <3>1, <3>2, CallStep
  <2>3. CASE WalkGets \/ OtherGets
    BY <2>3 DEF WalkGets, OtherGets, IInv, Descending, AnswerExact
  <2>4. CASE YieldLost \/ YieldDnode \/ WalkOn
    <3>1. vars' = vars
      BY <2>4 DEF YieldLost, YieldDnode, WalkOn
    <3> QED BY <3>1 DEF vars, IInv, Descending, OnPath, AnswerExact
  <2>5. CASE Step
    BY <2>5, MeetHoleStep, DescendStep, ShortBlockStep, DeliverStep,
       UnreadableStep, CacheStep DEF Step
  <2>6. CASE Glitch
    BY <2>6 DEF Glitch, IInv, Descending, AnswerExact
  <2>7. CASE UNCHANGED allvars
    BY <2>7 DEF allvars, vars, IInv, Descending, OnPath, AnswerExact
  <2> QED BY <2>1, <2>2, <2>3, <2>4, <2>5, <2>6, <2>7 DEF WalkNext
<1> QED BY <1>1, <1>2, BlockNumber, PTL DEF Spec

\* Every answer is exact, whatever the tree, the cache and the reads before.
THEOREM WalkAnswerExact == Spec => []AnswerExact
<1>1. IInv => AnswerExact
  BY DEF IInv
<1> QED BY <1>1, DescentKept, PTL

-----------------------------------------------------------------------------
(* What blocks weigh together.                                             *)

\* Finitely many blocks have finitely many bytes.
LEMMA TotalType ==
  ASSUME NEW S \in SUBSET Pointers, IsFiniteSet(S)
  PROVE  IsFiniteSet(BytesOf(S)) /\ Total(S) \in Nat
<1> DEFINE one(p) == {p} \X (1 .. Weight[p])
<1>1. IsFiniteSet({one(p) : p \in S})
  <2> DEFINE f == [p \in S |-> one(p)]
  <2>1. f \in Surjection(S, {one(p) : p \in S})
    BY DEF Surjection
  <2> QED BY <2>1, FS_Surjection
<1>2. \A p \in S : IsFiniteSet(one(p))
  <2> SUFFICES ASSUME NEW p \in S PROVE IsFiniteSet(one(p))
    OBVIOUS
  <2>1. Weight[p] \in Int
    BY DmuAssumption
  <2>2. IsFiniteSet({p})
    BY FS_Singleton
  <2>3. IsFiniteSet(1 .. Weight[p])
    BY <2>1, FS_Interval
  <2> QED BY <2>2, <2>3, FS_Product
<1>3. IsFiniteSet(UNION {one(p) : p \in S})
  BY <1>1, <1>2, FS_UNION
<1>4. IsFiniteSet(BytesOf(S))
  BY <1>3 DEF BytesOf
<1> QED BY <1>4, FS_CardinalityType DEF Total

\* One block more weighs its own bytes more.
LEMMA TotalAdd ==
  ASSUME NEW S \in SUBSET Pointers, IsFiniteSet(S), NEW p \in Pointers, p \notin S
  PROVE  Total(S \cup {p}) = Total(S) + Weight[p]
<1> DEFINE own == {p} \X (1 .. Weight[p])
<1>1. IsFiniteSet(BytesOf(S)) /\ Total(S) \in Nat
  BY TotalType
<1>2. IsFiniteSet(own) /\ Cardinality(own) = Weight[p]
  <2>1. Weight[p] \in Nat
    BY DmuAssumption
  <2>2. IsFiniteSet({p}) /\ Cardinality({p}) = 1
    BY FS_Singleton
  <2> DEFINE w == Weight[p]
             places == 1 .. w
  <2> HIDE DEF own, w
  <2>3. IsFiniteSet(places) /\ Cardinality(places) = w
    <3>1. w \in Nat /\ w \in Int /\ 1 \in Int
      BY <2>1 DEF w
    <3>2. IsFiniteSet(places) /\ Cardinality(places) = IF 1 > w THEN 0 ELSE w - 1 + 1
      BY <3>1, FS_Interval, Zenon
    <3> HIDE DEF places
    <3> QED BY <3>1, <3>2
  <2> HIDE DEF places
  <2>4. IsFiniteSet({p} \X places) /\ Cardinality({p} \X places) = Cardinality({p}) * Cardinality(places)
    BY <2>2, <2>3, FS_Product, Zenon
  <2>5. IsFiniteSet(own) /\ Cardinality(own) = 1 * Weight[p]
    BY <2>2, <2>3, <2>4, Zenon DEF own, places, w
  <2> QED BY <2>1, <2>5
<1>3. BytesOf(S \cup {p}) = BytesOf(S) \cup own
  BY DEF BytesOf
<1>4. BytesOf(S) \cap own = {}
  BY DEF BytesOf
<1> HIDE DEF own
<1>5. Cardinality(BytesOf(S) \cup own)
        = Cardinality(BytesOf(S)) + Cardinality(own) - Cardinality({})
  BY <1>1, <1>2, <1>4, FS_Union
<1>6. Weight[p] \in Nat
  BY DmuAssumption
<1>7. Cardinality({}) = 0
  BY FS_EmptySet
<1>8. Total(S \cup {p})
        = Total(S) + Cardinality(own) - Cardinality({})
  BY <1>3, <1>5, Zenon DEF Total
<1> QED BY <1>1, <1>2, <1>6, <1>7, <1>8

\* Fewer blocks do not weigh more.
LEMMA TotalMonotone ==
  ASSUME NEW S \in SUBSET Pointers, IsFiniteSet(S), NEW T \in SUBSET S
  PROVE  IsFiniteSet(T) /\ Total(T) <= Total(S)
<1>1. IsFiniteSet(BytesOf(S))
  BY TotalType
<1>2. BytesOf(T) \in SUBSET BytesOf(S)
  BY DEF BytesOf
<1>3. IsFiniteSet(T)
  BY FS_Subset
<1>4. Cardinality(BytesOf(T)) <= Cardinality(BytesOf(S))
  BY <1>1, <1>2, FS_Subset
<1> QED BY <1>3, <1>4 DEF Total

\* No block, no bytes.
LEMMA TotalNone == Total({}) = 0
<1>1. BytesOf({}) = {}
  BY DEF BytesOf
<1> QED BY <1>1, FS_EmptySet DEF Total

-----------------------------------------------------------------------------
(* The cache as a sequence.                                                *)

\* The blocks of s.
Elements(s) == {s[i] : i \in DOMAIN s}

\* No block is in s twice.
Once(s) == \A i, j \in DOMAIN s : s[i] = s[j] => i = j

\* The blocks of F are the last ones of s.
Last(F, s) == \A i, j \in DOMAIN s : i < j /\ s[i] \in F => s[j] \in F

\* The blocks of a sequence are finitely many; each once, they are as many as
\* its places.
LEMMA ElementsType ==
  ASSUME NEW s \in Seq(Pointers)
  PROVE  /\ Elements(s) \in SUBSET Pointers /\ IsFiniteSet(Elements(s))
         /\ Once(s) => Cardinality(Elements(s)) = Len(s)
<1>1. DOMAIN s = 1 .. Len(s) /\ Len(s) \in Nat
  OBVIOUS
<1>2. IsFiniteSet(DOMAIN s) /\ Cardinality(DOMAIN s) = Len(s)
  BY <1>1, FS_Interval
<1>3. s \in Surjection(DOMAIN s, Elements(s))
  BY DEF Surjection, Elements
<1>4. IsFiniteSet(Elements(s))
  BY <1>2, <1>3, FS_Surjection
<1>5. ASSUME Once(s) PROVE s \in Injection(DOMAIN s, Elements(s))
  BY <1>5 DEF Injection, IsInjective, Elements, Once
<1>6. ASSUME Once(s) PROVE Cardinality(Elements(s)) = Cardinality(DOMAIN s)
  <2>1. s \in Injection(DOMAIN s, Elements(s))
    BY <1>5, <1>6
  <2> QED BY <1>2, <1>3, <2>1, FS_Surjection
<1> QED BY <1>2, <1>4, <1>6 DEF Elements

\* A new block goes last.
LEMMA Appended ==
  ASSUME NEW s \in Seq(Pointers), Once(s), NEW p \in Pointers, p \notin Elements(s)
  PROVE  /\ Append(s, p) \in Seq(Pointers) /\ Once(Append(s, p))
         /\ Elements(Append(s, p)) = Elements(s) \cup {p}
         /\ \A F : Last(F, s) => Last(F \cup {p}, Append(s, p))
<1> DEFINE t == Append(s, p)
<1>1. /\ t \in Seq(Pointers) /\ Len(t) = Len(s) + 1 /\ Len(s) \in Nat
      /\ DOMAIN t = 1 .. Len(s) + 1 /\ DOMAIN s = 1 .. Len(s)
      /\ \A i \in 1 .. Len(s) : t[i] = s[i]
      /\ t[Len(s) + 1] = p
  OBVIOUS
<1> HIDE DEF t
<1>2. Once(t)
  BY <1>1 DEF Once, Elements
<1>3. Elements(t) = Elements(s) \cup {p}
  BY <1>1 DEF Elements
<1>4. ASSUME NEW F, Last(F, s) PROVE Last(F \cup {p}, t)
  BY <1>1, <1>4 DEF Last, Elements
<1> QED BY <1>1, <1>2, <1>3, <1>4 DEF t

\* The first block leaves.
LEMMA HeadGone ==
  ASSUME NEW s \in Seq(Pointers), Once(s), s # <<>>
  PROVE  /\ Tail(s) \in Seq(Pointers) /\ Once(Tail(s))
         /\ Head(s) \in Pointers /\ Head(s) \notin Elements(Tail(s))
         /\ Elements(s) = Elements(Tail(s)) \cup {Head(s)}
         /\ \A F : Last(F, s) => Last(F, Tail(s)) /\ (Head(s) \in F => Elements(s) \subseteq F)
<1> DEFINE t == Tail(s)
<1>1. /\ t \in Seq(Pointers) /\ Len(t) = Len(s) - 1 /\ Len(s) \in Nat \ {0}
      /\ DOMAIN t = 1 .. Len(s) - 1 /\ DOMAIN s = 1 .. Len(s)
      /\ \A i \in 1 .. Len(s) - 1 : t[i] = s[i + 1]
      /\ Head(s) = s[1] /\ s[1] \in Pointers
  OBVIOUS
<1> HIDE DEF t
<1>2. Once(t)
  <2> SUFFICES ASSUME NEW i \in DOMAIN t, NEW j \in DOMAIN t, t[i] = t[j] PROVE i = j
    BY Zenon DEF Once
  <2>1. i + 1 \in DOMAIN s /\ j + 1 \in DOMAIN s /\ s[i + 1] = s[j + 1]
    BY <1>1
  <2>2. i + 1 = j + 1
    BY <2>1, Zenon DEF Once
  <2> QED BY <1>1, <2>2
<1>3. Head(s) \notin Elements(t)
  BY <1>1 DEF Once, Elements
<1>4. Elements(s) = Elements(t) \cup {Head(s)}
  <2>1. ASSUME NEW i \in DOMAIN s PROVE s[i] = Head(s) \/ s[i] \in Elements(t)
    <3>1. i = 1 \/ (i - 1 \in DOMAIN t /\ t[i - 1] = s[i])
      BY <1>1
    <3> QED BY <1>1, <3>1 DEF Elements
  <2>2. ASSUME NEW i \in DOMAIN t PROVE t[i] \in Elements(s)
    BY <1>1 DEF Elements
  <2>3. Head(s) \in Elements(s)
    BY <1>1 DEF Elements
  <2> QED BY <2>1, <2>2, <2>3 DEF Elements
<1>5. ASSUME NEW F, Last(F, s) PROVE Last(F, t) /\ (Head(s) \in F => Elements(s) \subseteq F)
  <2>1. Last(F, t)
    BY <1>1, <1>5 DEF Last
  <2>2. ASSUME Head(s) \in F, NEW i \in DOMAIN s PROVE s[i] \in F
    <3>1. i = 1 \/ 1 < i
      BY <1>1
    <3> QED BY <1>1, <1>5, <2>2, <3>1 DEF Last
  <2> QED BY <2>1, <2>2 DEF Elements
<1> QED BY <1>1, <1>2, <1>3, <1>4, <1>5 DEF t

\* A block that was used goes last, and nothing else changes its order.
LEMMA MovedToEnd ==
  ASSUME cache \in Seq(Pointers), Once(cache), NEW p \in Keys
  PROVE  /\ MoveToEnd(p) \in Seq(Pointers) /\ Once(MoveToEnd(p))
         /\ Elements(MoveToEnd(p)) = Elements(cache)
         /\ \A F : Last(F, cache) => Last(F \cup {p}, MoveToEnd(p))
<1> DEFINE t == MoveToEnd(p)
           n == Len(cache)
           k == Place(p)
<1>1. k \in 1 .. n /\ cache[k] = p /\ n \in Nat \ {0} /\ DOMAIN cache = 1 .. n
  BY DEF Keys, Place
<1>2. /\ DOMAIN t = 1 .. n /\ t[n] = p
      /\ \A i \in 1 .. n : i < n => t[i] = cache[IF i < k THEN i ELSE i + 1]
  <2> HIDE DEF k
  <2>1. t = [i \in 1 .. n |-> IF i = n THEN p ELSE cache[IF i < k THEN i ELSE i + 1]]
    BY <1>1, Zenon DEF MoveToEnd, k
  <2> HIDE DEF t, n
  <2> QED BY <1>1, <2>1
<1>3. t = [i \in DOMAIN t |-> t[i]]
  BY DEF MoveToEnd
<1>4. \A i \in 1 .. n : cache[i] \in Pointers
  BY <1>1
<1> HIDE DEF t, n, k
<1>5. \A i \in 1 .. n : t[i] \in Pointers
  BY <1>1, <1>2, <1>4
<1>6. t \in Seq(Pointers)
  BY <1>1, <1>2, <1>3, <1>5
<1>7. Once(t)
  <2> DEFINE from(i) == IF i = n THEN k ELSE IF i < k THEN i ELSE i + 1
  <2>1. \A i \in 1 .. n : from(i) \in 1 .. n /\ t[i] = cache[from(i)]
    BY <1>1, <1>2
  <2>2. \A i, j \in 1 .. n : from(i) = from(j) => i = j
    BY <1>1
  <2> HIDE DEF from
  <2>3. \A i, j \in 1 .. n : cache[i] = cache[j] => i = j
    BY <1>1 DEF Once
  <2>4. \A i, j \in 1 .. n : t[i] = t[j] => i = j
    BY <2>1, <2>2, <2>3, Zenon
  <2> QED BY <1>2, <2>4, Zenon DEF Once
<1>8. Elements(t) = Elements(cache)
  <2>1. ASSUME NEW i \in 1 .. n PROVE t[i] \in Elements(cache)
    BY <1>1, <1>2 DEF Elements
  <2>2. ASSUME NEW i \in 1 .. n PROVE cache[i] \in Elements(t)
    <3>1. CASE i = k
      BY <1>1, <1>2, <3>1 DEF Elements
    <3>2. CASE i < k
      <4>1. t[i] = cache[i]
        BY <1>1, <1>2, <3>2
      <4> QED BY <1>2, <4>1 DEF Elements
    <3>3. CASE i > k
      <4>1. i - 1 \in 1 .. n /\ t[i - 1] = cache[i]
        BY <1>1, <1>2, <3>3
      <4> QED BY <1>2, <4>1 DEF Elements
    <3> QED BY <1>1, <3>1, <3>2, <3>3
  <2> QED BY <1>1, <1>2, <2>1, <2>2 DEF Elements
<1>9. ASSUME NEW F, Last(F, cache) PROVE Last(F \cup {p}, t)
  <2> SUFFICES ASSUME NEW i \in 1 .. n, NEW j \in 1 .. n, i < j, t[i] \in F \cup {p}
               PROVE  t[j] \in F \cup {p}
    BY <1>2 DEF Last
  <2>1. CASE j = n
    BY <1>2, <2>1
  <2>2. CASE j < n
    <3> DEFINE a == IF i < k THEN i ELSE i + 1
               b == IF j < k THEN j ELSE j + 1
    <3>1. /\ a \in 1 .. n /\ b \in 1 .. n /\ a < b /\ a # k
          /\ t[i] = cache[a] /\ t[j] = cache[b]
      BY <1>1, <1>2, <2>2
    <3>2. cache[a] # p
      BY <1>1, <3>1 DEF Once
    <3> QED BY <1>1, <1>9, <3>1, <3>2 DEF Last
  <2> QED BY <2>1, <2>2, <1>1
<1> QED BY <1>6, <1>7, <1>8, <1>9 DEF t

-----------------------------------------------------------------------------
(* The cache, step by step.                                                *)

\* The cache is what it counts, and only holds what it may keep.
Accounted ==
  /\ cache \in Seq(Pointers) /\ Once(cache)
  /\ bytes = Total(Keys)
  /\ pc # "evict" => bytes <= CacheMax
  /\ \A p \in Keys : Kept(p)

\* What the cache should still hold for the block wanted at the end.
WantedPath == {p \in Needed(want) : Kept(p)}

\* The blocks of the path followed so far.
Above == IF pc = "read" THEN ptr[1] + 1 ELSE ptr[1]
Seen == {p \in {At(want, l) : l \in Above .. Top} : Kept(p)}

\* PathKept is about the end of a call; during it, the blocks of the path
\* followed so far are the last ones of the cache.  An eviction that reached
\* one would have dropped all the others, and these are within the limit.
Recent ==
  /\ pc \in {"read", "evict", "got"} /\ Total(WantedPath) <= CacheMax =>
       Seen \subseteq Keys /\ Last(Seen, cache)
  /\ PathKept

CInv == Accounted /\ Recent

\* The blocks of a path are finitely many blocks of the object.
LEMMA PathType ==
  ASSUME want \in 0 .. MaxBlkid
  PROVE  /\ \A l \in Levels : At(want, l) \in Pointers
         /\ WantedPath \in SUBSET Pointers /\ IsFiniteSet(WantedPath)
<1>1. ASSUME NEW l \in Levels PROVE At(want, l) \in Pointers
  <2>1. want \div Span[l] \in 0 .. MaxBlkid \div Span[l]
    BY SpanAssumption, DmuAssumption, DivideMonotone
  <2> QED BY <2>1 DEF Pointers, At
<1>2. WantedPath \in SUBSET {At(want, l) : l \in Levels}
  BY PathAt DEF WantedPath, Needed
<1>3. IsFiniteSet({At(want, l) : l \in Levels})
  <2> DEFINE f == [l \in Levels |-> At(want, l)]
  <2>1. f \in Surjection(Levels, {At(want, l) : l \in Levels})
    BY DEF Surjection
  <2>2. IsFiniteSet(Levels)
    <3>1. Top \in Int /\ Levels = 0 .. Top
      BY TopLevel
    <3> QED BY <3>1, FS_Interval
  <2> QED BY <2>1, <2>2, FS_Surjection
<1> QED BY <1>1, <1>2, <1>3, FS_Subset

\* What was followed is part of the path, as long as no hole was met.
LEMMA SeenOnPath ==
  ASSUME OnPath, pc \in {"read", "evict", "got"}, pc # "read" => ptr \notin Holes
  PROVE  Seen \subseteq WantedPath
<1> SUFFICES ASSUME NEW l \in Above .. Top PROVE At(want, l) \in Needed(want)
  BY DEF Seen, WantedPath
<1>1. l \in Levels /\ \A k \in l .. Top : At(want, k) \notin Holes /\ k \in Levels
  <2>1. ptr[1] \in Levels /\ Above \in Nat /\ Above >= ptr[1]
    BY TopLevel DEF OnPath, Above
  <2>2. ASSUME NEW k \in l .. Top PROVE At(want, k) \notin Holes /\ k \in Levels
    <3>1. k \in ptr[1] + 1 .. Top \/ (pc # "read" /\ k = ptr[1])
      BY <2>1, TopLevel DEF Above
    <3> QED BY <2>1, <3>1, TopLevel DEF OnPath
  <2> QED BY <2>1, <2>2, TopLevel
<1> QED BY <1>1, PathAt DEF Needed

\* The lemmas above, of the keys of the cache.
LEMMA KeysType ==
  ASSUME cache \in Seq(Pointers)
  PROVE  Keys \in SUBSET Pointers /\ IsFiniteSet(Keys) /\ Keys = Elements(cache)
BY ElementsType DEF Keys, Elements

\* A hit keeps the keys, and makes its own the most recent.
LEMMA HitCache ==
  ASSUME IInv, CInv, Hit
  PROVE  CInv'
<1>1. /\ pc = "read" /\ pc' = "got" /\ cache' = MoveToEnd(ptr) /\ ptr \in Keys
      /\ bytes' = bytes /\ want' = want /\ ptr' = ptr /\ OnPath
  BY DEF Hit, IInv, Descending
<1>2. /\ cache' \in Seq(Pointers) /\ Once(cache') /\ Elements(cache') = Elements(cache)
      /\ \A F : Last(F, cache) => Last(F \cup {ptr}, cache')
  BY <1>1, MovedToEnd DEF CInv, Accounted
<1>3. Keys' = Keys
  BY <1>2 DEF Keys, Elements
<1>4. Accounted'
  <2>1. Total(Keys') = Total(Keys)
    BY <1>3, Zenon
  <2> QED BY <1>1, <1>2, <1>3, <2>1 DEF CInv, Accounted
<1>5. Seen' = Seen \cup {ptr}
  BY <1>1, TopLevel DEF Seen, Above, OnPath, CInv, Accounted
<1>6. WantedPath' = WantedPath
  BY <1>1 DEF WantedPath
<1>7. ASSUME Total(WantedPath') <= CacheMax
      PROVE  Seen' \subseteq Keys' /\ Last(Seen', cache')
  <2>1. Total(WantedPath) <= CacheMax
    BY <1>6, <1>7, Zenon
  <2>2. Seen \subseteq Keys /\ Last(Seen, cache)
    BY <1>1, <2>1 DEF CInv, Recent
  <2>3. Last(Seen', cache')
    BY <1>2, <1>5, <2>2, Zenon
  <2> QED BY <1>1, <1>3, <1>5, <2>2, <2>3
<1>8. PathKept'
  BY <1>1 DEF PathKept
<1> QED BY <1>4, <1>7, <1>8 DEF CInv, Recent

\* A block that is kept goes last; one too large for the cache changes nothing.
LEMMA MissCache ==
  ASSUME IInv, CInv, Miss
  PROVE  CInv'
<1>1. /\ pc = "read" /\ pc' \in {"evict", "got"} /\ ptr \notin Keys
      /\ want' = want /\ ptr' = ptr /\ OnPath
      /\ cache \in Seq(Pointers) /\ Once(cache)
  BY DEF Miss, IInv, Descending, CInv, Accounted
<1>2. want \in 0 .. MaxBlkid /\ ptr = At(want, ptr[1]) /\ ptr[1] \in Levels
  BY <1>1, DmuAssumption DEF OnPath, IInv, Descending
<1>3. ptr \in Pointers
  BY <1>2, PathType
<1>4. WantedPath' = WantedPath
  BY <1>1 DEF WantedPath
<1>5. PathKept'
  BY <1>1 DEF PathKept
<1>6. CASE Kept(ptr)
  <2>1. cache' = Append(cache, ptr) /\ bytes' = bytes + Weight[ptr] /\ pc' = "evict"
    BY <1>6 DEF Miss
  <2>2. /\ cache' \in Seq(Pointers) /\ Once(cache')
        /\ Elements(cache') = Elements(cache) \cup {ptr}
        /\ \A F : Last(F, cache) => Last(F \cup {ptr}, cache')
    BY <1>1, <1>3, <2>1, Appended DEF Keys, Elements
  <2>3. Keys' = Keys \cup {ptr}
    BY <2>2 DEF Keys, Elements
  <2>4. Total(Keys') = Total(Keys) + Weight[ptr]
    <3>1. Total(Keys \cup {ptr}) = Total(Keys) + Weight[ptr]
      BY <1>1, <1>3, KeysType, TotalAdd
    <3> QED BY <2>3, <3>1, Zenon
  <2>5. Accounted'
    BY <1>6, <2>1, <2>2, <2>3, <2>4 DEF CInv, Accounted
  <2>6. Seen' = Seen \cup {ptr}
    BY <1>1, <1>2, <1>6, <2>1, TopLevel DEF Seen, Above
  <2>7. ASSUME Total(WantedPath') <= CacheMax
        PROVE  Seen' \subseteq Keys' /\ Last(Seen', cache')
    <3>1. Total(WantedPath) <= CacheMax
      BY <1>4, <2>7, Zenon
    <3>2. Seen \subseteq Keys /\ Last(Seen, cache)
      BY <1>1, <3>1 DEF CInv, Recent
    <3>3. Last(Seen', cache')
      BY <2>2, <2>6, <3>2, Zenon
    <3> QED BY <2>3, <2>6, <3>2, <3>3
  <2> QED BY <1>5, <2>5, <2>7 DEF CInv, Recent
<1>7. CASE ~Kept(ptr)
  <2>1. cache' = cache /\ bytes' = bytes /\ pc' = "got"
    BY <1>7 DEF Miss
  <2>2. Seen' = Seen
    BY <1>1, <1>2, <1>7, <2>1, TopLevel DEF Seen, Above
  <2>3. Accounted'
    BY <1>1, <2>1 DEF CInv, Accounted, Keys
  <2>4. ASSUME Total(WantedPath') <= CacheMax
        PROVE  Seen' \subseteq Keys' /\ Last(Seen', cache')
    <3>1. Total(WantedPath) <= CacheMax
      BY <1>4, <2>4, Zenon
    <3>2. Seen \subseteq Keys /\ Last(Seen, cache)
      BY <1>1, <3>1 DEF CInv, Recent
    <3>3. Last(Seen', cache')
      BY <2>1, <2>2, <3>2, Zenon
    <3> QED BY <2>1, <2>2, <3>2, <3>3 DEF Keys
  <2> QED BY <1>5, <2>3, <2>4 DEF CInv, Recent
<1> QED BY <1>6, <1>7

\* The oldest block leaves.  Were it one of the path followed, all of the cache
\* would be part of a path that fits, and nothing would have to leave.
LEMMA EvictCache ==
  ASSUME IInv, CInv, Evict
  PROVE  CInv'
<1> DEFINE h == Head(cache)
<1>1. /\ pc = "evict" /\ pc' = "evict" /\ bytes > CacheMax /\ cache # <<>>
      /\ cache' = Tail(cache) /\ bytes' = bytes - Weight[h]
      /\ want' = want /\ ptr' = ptr /\ OnPath /\ ptr \notin Holes
      /\ cache \in Seq(Pointers) /\ Once(cache) /\ bytes = Total(Keys)
      /\ want \in 0 .. MaxBlkid
  BY DmuAssumption DEF Evict, IInv, Descending, CInv, Accounted, OnPath
<1>2. /\ cache' \in Seq(Pointers) /\ Once(cache') /\ h \in Pointers
      /\ h \notin Elements(cache') /\ Elements(cache) = Elements(cache') \cup {h}
      /\ \A F : Last(F, cache) =>
               Last(F, cache') /\ (h \in F => Elements(cache) \subseteq F)
  BY <1>1, HeadGone
<1> HIDE DEF h
<1>3. /\ Keys = Keys' \cup {h} /\ h \notin Keys' /\ h \in Pointers
      /\ Keys' \in SUBSET Pointers /\ IsFiniteSet(Keys') /\ IsFiniteSet(Keys)
      /\ Keys \in SUBSET Pointers
  <2>1. Keys = Elements(cache) /\ Keys' = Elements(cache')
    BY DEF Keys, Elements
  <2>2. Elements(cache') \in SUBSET Pointers /\ IsFiniteSet(Elements(cache'))
    BY <1>2, ElementsType
  <2>3. Elements(cache) \in SUBSET Pointers /\ IsFiniteSet(Elements(cache))
    BY <1>1, ElementsType
  <2>4. IsFiniteSet(Keys) /\ IsFiniteSet(Keys')
    BY <2>1, <2>2, <2>3, Zenon
  <2> QED BY <1>2, <2>1, <2>2, <2>3, <2>4
<1>4. Total(Keys) = Total(Keys') + Weight[h]
  <2>1. Total(Keys' \cup {h}) = Total(Keys') + Weight[h]
    BY <1>3, TotalAdd
  <2> QED BY <1>3, <2>1, Zenon
<1>5. Accounted'
  <2>1. Total(Keys') \in Nat /\ Weight[h] \in Nat
    BY <1>3, TotalType, DmuAssumption
  <2>2. bytes' = Total(Keys')
    BY <1>1, <1>4, <2>1
  <2> QED BY <1>1, <1>2, <1>3, <2>2 DEF CInv, Accounted, Kept
<1>6. Seen' = Seen /\ WantedPath' = WantedPath
  BY <1>1 DEF Seen, Above, WantedPath
<1>7. ASSUME Total(WantedPath') <= CacheMax
      PROVE  Seen' \subseteq Keys' /\ Last(Seen', cache')
  <2>1. Total(WantedPath) <= CacheMax
    BY <1>6, <1>7, Zenon
  <2>2. Seen \subseteq Keys /\ Last(Seen, cache)
    BY <1>1, <2>1 DEF CInv, Recent
  <2>3. Last(Seen, cache') /\ (h \in Seen => Elements(cache) \subseteq Seen)
    BY <1>2, <2>2
  <2>4. h \notin Seen
    <3> SUFFICES ASSUME h \in Seen PROVE FALSE
      OBVIOUS
    <3>1. Keys \in SUBSET WantedPath
      BY <1>1, <2>3, SeenOnPath DEF Keys, Elements
    <3>2. WantedPath \in SUBSET Pointers /\ IsFiniteSet(WantedPath)
      BY <1>1, PathType
    <3>3. Total(Keys) <= Total(WantedPath)
      BY <3>1, <3>2, TotalMonotone
    <3>4. Total(Keys) \in Nat /\ Total(WantedPath) \in Nat
      BY <1>3, <3>2, TotalType
    <3> QED BY <1>1, <2>1, <3>3, <3>4, DmuAssumption
  <2>5. Last(Seen', cache')
    BY <1>6, <2>3, Zenon
  <2> QED BY <1>3, <1>6, <2>2, <2>4, <2>5
<1>8. PathKept'
  BY <1>1 DEF PathKept
<1> QED BY <1>5, <1>7, <1>8 DEF CInv, Recent

\* The steps that leave the cache alone, within a call.
LEMMA SameCache ==
  ASSUME CInv, UNCHANGED <<cache, bytes>>
  PROVE  /\ cache' \in Seq(Pointers) /\ Once(cache') /\ Keys' = Keys
         /\ bytes' = Total(Keys') /\ (\A p \in Keys' : Kept(p))
         /\ (pc # "evict" => bytes' <= CacheMax)
BY DEF CInv, Accounted, Keys

\* The eviction ends within the limit: an empty cache weighs nothing.
LEMMA EvictEndCache ==
  ASSUME IInv, CInv, EvictEnd
  PROVE  CInv'
<1>1. /\ pc = "evict" /\ pc' = "got" /\ want' = want /\ ptr' = ptr
      /\ UNCHANGED <<cache, bytes>>
  BY DEF EvictEnd
<1>2. bytes <= CacheMax
  <2>1. ASSUME cache = <<>> PROVE bytes = 0
    <3>1. Keys = {}
      BY <2>1 DEF Keys
    <3>2. Total(Keys) = 0
      BY <3>1, TotalNone, Zenon
    <3> QED BY <3>2 DEF CInv, Accounted
  <2> QED BY <2>1, DmuAssumption DEF EvictEnd
<1>3. Accounted'
  BY <1>1, <1>2, SameCache DEF Accounted
<1>4. Seen' = Seen /\ WantedPath' = WantedPath /\ PathKept'
  BY <1>1 DEF Seen, Above, WantedPath, PathKept
<1>5. Total(WantedPath') = Total(WantedPath)
  BY <1>4, Zenon
<1>6. Last(Seen, cache) => Last(Seen', cache')
  BY <1>1, <1>4, Zenon
<1> QED BY <1>1, <1>3, <1>4, <1>5, <1>6, SameCache DEF CInv, Recent

\* One level down, what was followed is the same.
LEMMA DescendCache ==
  ASSUME IInv, CInv, Descend
  PROVE  CInv'
<1>1. /\ pc = "got" /\ pc' = "read" /\ want' = want /\ UNCHANGED <<cache, bytes>>
      /\ OnPath /\ ptr[1] > 0 /\ ptr' = Child(ptr, Index)
  BY DEF Descend, IInv, Descending
<1>2. ptr'[1] + 1 = ptr[1]
  BY <1>1, TopLevel DEF Child, OnPath
<1>3. Accounted'
  BY <1>1, SameCache DEF Accounted
<1>4. Seen' = Seen /\ WantedPath' = WantedPath /\ PathKept'
  BY <1>1, <1>2 DEF Seen, Above, WantedPath, PathKept
<1>5. Total(WantedPath') = Total(WantedPath)
  BY <1>4, Zenon
<1>6. Last(Seen, cache) => Last(Seen', cache')
  BY <1>1, <1>4, Zenon
<1> QED BY <1>1, <1>3, <1>4, <1>5, <1>6, SameCache DEF CInv, Recent

\* At the end of a descent, all of its path was followed.
LEMMA DoneCache ==
  ASSUME IInv, CInv, MeetHole \/ Deliver
  PROVE  CInv'
<1>1. /\ pc \in {"read", "got"} /\ pc' = "done" /\ want' = want
      /\ UNCHANGED <<cache, bytes>> /\ OnPath /\ want \in Nat
  BY DEF MeetHole, Deliver, Return, IInv, Descending
<1>2. Accounted'
  BY <1>1, SameCache DEF Accounted
<1>3. WantedPath \subseteq Seen
  <2> SUFFICES ASSUME NEW p \in Needed(want), Kept(p) PROVE p \in Seen
    BY DEF WantedPath
  <2>1. p[1] \in Levels /\ p = At(want, p[1])
    BY <1>1, NeededAbove
  <2>2. p[1] \in Above .. Top
    <3>1. CASE MeetHole
      BY <1>1, <3>1, NeededAbove DEF MeetHole, Above
    <3>2. CASE Deliver
      BY <1>1, <2>1, <3>2, TopLevel DEF Deliver, Above
    <3> QED BY <3>1, <3>2
  <2> QED BY <2>1, <2>2 DEF Seen
<1>4. WantedPath' = WantedPath
  BY <1>1 DEF WantedPath
<1>5. ASSUME Total(WantedPath') <= CacheMax PROVE WantedPath' \subseteq Keys'
  <2>1. Total(WantedPath) <= CacheMax
    BY <1>4, <1>5, Zenon
  <2> QED BY <1>1, <1>3, <1>4, <2>1, SameCache DEF CInv, Recent
<1>6. PathKept'
  BY <1>5 DEF PathKept, WantedPath
<1> QED BY <1>1, <1>2, <1>6 DEF CInv, Recent

\* A refusal keeps nothing, and a call begins with nothing followed.
LEMMA OtherCache ==
  ASSUME IInv, CInv, ShortBlock \/ Unreadable \/ (\E b \in Nat : Call(b))
  PROVE  CInv'
<1>1. UNCHANGED <<cache, bytes>> /\ pc \in {"got", "read", "idle"}
  BY DEF ShortBlock, Unreadable, Call
<1>2. Accounted'
  BY <1>1, SameCache DEF Accounted
<1>3. CASE pc' = "done" /\ answer'.status # "RECOVERED"
  BY <1>2, <1>3 DEF CInv, Recent, PathKept
<1>4. CASE pc' = "read" /\ ptr'[1] = Top
  <2>1. Seen' = {}
    BY <1>4, TopLevel DEF Seen, Above
  <2>2. Last({}, cache')
    BY DEF Last
  <2>3. Last(Seen', cache')
    BY <2>1, <2>2, Zenon
  <2> QED BY <1>2, <1>4, <2>1, <2>3 DEF CInv, Recent, PathKept
<1>5. ShortBlock => pc' = "done" /\ answer' = Unknown
  BY DEF ShortBlock, Return
<1>6. Unreadable => pc' = "done" /\ answer' = Failed
  BY DEF Unreadable, Return
<1>7. ASSUME NEW b \in Nat, Call(b)
      PROVE  (pc' = "done" /\ answer' = Unknown) \/ (pc' = "read" /\ ptr'[1] = Top)
  BY <1>7 DEF Call, Return
<1> QED BY <1>3, <1>4, <1>5, <1>6, <1>7 DEF Unknown, Failed

\* Nothing else touches the cache, nor a call.
LEMMA QuietCache ==
  ASSUME CInv, UNCHANGED <<cache, bytes, want, ptr>>,
         (pc' = "idle" /\ pc \in {"idle", "done"}) \/ UNCHANGED <<pc, answer>>
  PROVE  CInv'
<1>1. Accounted'
  BY SameCache DEF CInv, Accounted
<1>2. CASE pc' = "idle"
  BY <1>1, <1>2 DEF CInv, Recent, PathKept
<1>3. CASE UNCHANGED <<pc, answer>>
  <2>1. Seen' = Seen /\ WantedPath' = WantedPath /\ Keys' = Keys
    BY <1>3 DEF Seen, Above, WantedPath, Keys
  <2>2. Total(WantedPath') = Total(WantedPath)
    BY <2>1, Zenon
  <2>3. Last(Seen, cache) => Last(Seen', cache')
    BY <2>1, Zenon
  <2>4. PathKept'
    BY <1>3, <2>1, <2>2 DEF CInv, Recent, PathKept, WantedPath
  <2> QED BY <1>1, <1>3, <2>1, <2>2, <2>3, <2>4 DEF CInv, Recent
<1> QED BY <1>2, <1>3

\* The cache is what it counts and keeps the path of the call.
LEMMA CacheKept == Spec => []CInv
<1>1. WalkInit => CInv
  <2> SUFFICES ASSUME WalkInit PROVE CInv
    OBVIOUS
  <2>1. cache = <<>> /\ bytes = 0 /\ pc = "idle"
    BY DEF WalkInit, Init
  <2>2. Keys = {} /\ Once(cache) /\ cache \in Seq(Pointers)
    BY <2>1 DEF Keys, Once
  <2>3. bytes = Total(Keys)
    BY <2>1, <2>2, TotalNone, Zenon
  <2> QED BY <2>1, <2>2, <2>3, DmuAssumption DEF CInv, Accounted, Recent, PathKept
<1>2. IInv /\ wblk \in Nat /\ CInv /\ [WalkNext]_allvars => CInv'
  <2> SUFFICES ASSUME IInv, wblk \in Nat, CInv, [WalkNext]_allvars PROVE CInv'
    OBVIOUS
  <2>1. CASE WalkRead \/ OtherCalls
    <3>1. \E b \in Nat : Call(b)
      BY <2>1, DmuAssumption DEF WalkRead, OtherCalls
    <3> QED BY <3>1, OtherCache
  <2>2. CASE WalkGets \/ OtherGets \/ Glitch
    BY <2>2, QuietCache DEF WalkGets, OtherGets, Glitch
  <2>3. CASE YieldLost \/ YieldDnode \/ WalkOn \/ UNCHANGED allvars
    <3>1. UNCHANGED vars
      BY <2>3 DEF YieldLost, YieldDnode, WalkOn, allvars
    <3> QED BY <3>1, QuietCache DEF vars
  <2>4. CASE Step
    BY <2>4, HitCache, MissCache, EvictCache, EvictEndCache, DescendCache,
       DoneCache, OtherCache DEF Step
  <2> QED BY <2>1, <2>2, <2>3, <2>4 DEF WalkNext
<1> QED BY <1>1, <1>2, DescentKept, BlockNumber, PTL DEF Spec

\* The cache counts its bytes exactly, each block once, and is within its limit
\* outside the eviction itself.
THEOREM WalkCacheAccounted == Spec => []CacheAccounted
<1>1. CInv => CacheAccounted
  <2> SUFFICES ASSUME CInv PROVE CacheAccounted
    OBVIOUS
  <2>1. Cardinality(Elements(cache)) = Len(cache)
    BY ElementsType DEF CInv, Accounted
  <2>2. Cardinality(Keys) = Len(cache)
    BY <2>1 DEF Keys, Elements
  <2> QED BY <2>2 DEF CacheAccounted, CInv, Accounted
<1> QED BY <1>1, CacheKept, PTL

\* A path that fits in the cache is there once it was followed.
THEOREM WalkPathKept == Spec => []PathKept
<1>1. CInv => PathKept
  BY DEF CInv, Recent
<1> QED BY <1>1, CacheKept, PTL

-----------------------------------------------------------------------------
(* The generator.                                                          *)

First == wblk * PerBlock

\* The slots of the block the generator has gone past.
Before == {o \in Slots : o < Object}

\* Between two calls nobody waits, the generator waits for the block it is at,
\* and keeps of it what the pool says or a refusal.
Waiting ==
  /\ wblk \in 0 .. Blocks
  /\ slot \in Nat
  /\ asker \in {"walk", "other", "none"}
  /\ pc = "idle" => asker = "none"
  /\ pc # "done" => answer = Pending
  /\ asker = "walk" => block = Pending /\ want = wblk /\ wblk < Blocks
  /\ block = Pending => slot = 0 /\ out = {}
  /\ block # Pending => wblk < Blocks
  /\ block \in {Pending, Failed, Unknown, Recovered(Content(wblk))}

\* What was yielded of the slots gone past, and no dnode goes on over the slot
\* the generator is at: WalkExact only speaks of the end of a block.
Yielded ==
  /\ block \in {Failed, Unknown} => out = Before \X {"lost"}
  /\ block = Recovered(Zeros) => out = Before \X {"free"}
  /\ block = Recovered(<<0, wblk>>) =>
       /\ out = {<<o, IF o \in Dnodes THEN "dnode" ELSE "free">> :
                    o \in {s \in Before : ~Covered(s)}}
       /\ \A d \in Dnodes \cap Before : d + ExtraSlots[d] < Object

WInv == Waiting /\ Yielded

\* The slots of a block follow each other and are those of objects.
LEMMA SlotRange ==
  ASSUME wblk \in 0 .. Blocks, wblk < Blocks
  PROVE  /\ First \in Nat /\ Slots = First .. First + PerBlock - 1
         /\ Slots \subseteq Objects
<1>1. First \in Nat /\ PerBlock \in Nat \ {0}
  BY WalkAssumption, DmuAssumption DEF First, Blocks
<1>2. Slots = {First + i : i \in 0 .. PerBlock - 1}
  BY DEF Slots, First
<1>3. Slots = First .. First + PerBlock - 1
  <2>1. ASSUME NEW o \in First .. First + PerBlock - 1
        PROVE  \E i \in 0 .. PerBlock - 1 : o = First + i
    <3>1. o - First \in 0 .. PerBlock - 1 /\ o = First + (o - First)
      BY <1>1
    <3> QED BY <3>1
  <2>2. ASSUME NEW i \in 0 .. PerBlock - 1
        PROVE  First + i \in First .. First + PerBlock - 1
    BY <1>1
  <2> QED BY <1>2, <2>1, <2>2
<1>4. First + PerBlock <= (MaxBlkid + 1) * PerBlock
  <2>1. wblk + 1 <= MaxBlkid + 1 /\ wblk \in Nat
    BY DmuAssumption DEF Blocks
  <2>2. (wblk + 1) * PerBlock = wblk * PerBlock + PerBlock
    BY <1>1, <2>1
  <2>3. (wblk + 1) * PerBlock <= (MaxBlkid + 1) * PerBlock
    BY <1>1, <2>1, DmuAssumption
  <2> QED BY <2>2, <2>3 DEF First
<1>5. (MaxBlkid + 1) * PerBlock \in Nat
  BY <1>1, DmuAssumption
<1> QED BY <1>1, <1>3, <1>4, <1>5 DEF Objects

\* A dnode that goes on over a slot of the block begins in it.
LEMMA SameBlock ==
  ASSUME wblk \in 0 .. Blocks, wblk < Blocks,
         NEW d \in Dnodes, NEW o \in Slots, o \in Inside(d)
  PROVE  d \in Slots
<1>1. /\ First \in Nat /\ PerBlock \in Nat \ {0} /\ wblk \in Nat
      /\ d \in Nat /\ ExtraSlots[d] \in Nat
      /\ o \in First .. First + PerBlock - 1
  BY SlotRange, WalkAssumption, DmuAssumption DEF Objects, Blocks
<1> DEFINE q == d \div PerBlock
           e == d + ExtraSlots[d]
<1>2. e \in Nat /\ d < o /\ o <= e /\ e \div PerBlock = q
  BY <1>1, LayoutAssumption DEF Inside
<1>3. First \div PerBlock = wblk
  <2>1. 0 \in 0 .. PerBlock - 1 /\ PerBlock * wblk + 0 = First
    BY <1>1 DEF First
  <2>2. (PerBlock * wblk + 0) \div PerBlock = wblk
    BY <1>1, <2>1, QuotientUnique
  <2> QED BY <2>1, <2>2
<1> HIDE DEF e
<1>4. wblk <= q /\ q \in Nat
  <2>1. First <= e
    BY <1>1, <1>2
  <2>2. First \div PerBlock \in 0 .. e \div PerBlock
    BY <1>1, <1>2, <2>1, DivideMonotone
  <2>3. q \in Nat
    BY <1>1
  <2> QED BY <1>1, <1>2, <1>3, <2>2, <2>3
<1>5. PerBlock * q <= d
  BY <1>1
<1> HIDE DEF q
<1>6. First <= PerBlock * q
  <2>1. PerBlock * wblk <= PerBlock * q
    BY <1>1, <1>4
  <2> QED BY <1>1, <2>1 DEF First
<1>7. First <= d
  <2>1. PerBlock * q \in Nat
    BY <1>1, <1>4
  <2> QED BY <1>1, <1>5, <1>6, <2>1
<1> QED BY <1>1, <1>2, <1>7, SlotRange

\* The contents of a block are zeros or its own.
LEMMA ContentKind ==
  ASSUME NEW b
  PROVE  Content(b) \in {Zeros, <<0, b>>} /\ Zeros # <<0, b>>
<1>1. Zeros # <<0, b>>
  BY DEF Zeros
<1> QED BY <1>1 DEF Content

\* A refusal gives every slot up, one by one.
LEMMA YieldLostStep ==
  ASSUME WInv, YieldLost
  PROVE  WInv'
<1>1. /\ block \in {Failed, Unknown} /\ slot < PerBlock /\ slot' = slot + 1
      /\ out' = out \cup {<<Object, "lost">>} /\ wblk' = wblk /\ block' = block
      /\ UNCHANGED <<vars, asker>>
  BY DEF YieldLost
<1>2. block # Pending /\ block.status # "RECOVERED"
  BY <1>1 DEF Failed, Unknown, Pending
<1>3. /\ First \in Nat /\ Slots = First .. First + PerBlock - 1 /\ PerBlock \in Nat \ {0}
      /\ slot \in Nat /\ Object = First + slot
  BY <1>2, SlotRange, WalkAssumption DEF WInv, Waiting, Object, First
<1>4. Object' = Object + 1 /\ Slots' = Slots
  <2>1. Object' = First + slot' /\ Slots' = Slots
    BY <1>1 DEF Object, Slots, First
  <2> QED BY <1>1, <1>3, <2>1
<1>5. Before' = Before \cup {Object}
  BY <1>1, <1>3, <1>4 DEF Before
<1>6. out' = Before' \X {"lost"}
  <2>1. out = Before \X {"lost"}
    BY <1>1 DEF WInv, Yielded
  <2> QED BY <1>1, <1>5, <2>1
<1>7. Waiting'
  BY <1>1, <1>2, <1>3 DEF WInv, Waiting, vars
<1> QED BY <1>1, <1>2, <1>6, <1>7 DEF WInv, Yielded, Recovered

\* A slot of zeros is one free dnode.
LEMMA YieldZeros ==
  ASSUME WInv, YieldDnode, block = Recovered(Zeros)
  PROVE  WInv'
<1>1. /\ slot < PerBlock /\ slot' = slot + 1 + 0
      /\ out' = out \cup {<<Object, "free">>} /\ wblk' = wblk /\ block' = block
      /\ UNCHANGED <<vars, asker>>
  BY DEF YieldDnode, Kind, Extra, Recovered
<1>2. block # Pending /\ block \notin {Failed, Unknown} /\ block # Recovered(<<0, wblk>>)
  BY ContentKind DEF Failed, Unknown, Pending, Recovered
<1>3. /\ First \in Nat /\ Slots = First .. First + PerBlock - 1 /\ PerBlock \in Nat \ {0}
      /\ slot \in Nat /\ Object = First + slot
  BY <1>2, SlotRange, WalkAssumption DEF WInv, Waiting, Object, First
<1>4. Object' = Object + 1 /\ Slots' = Slots
  <2>1. Object' = First + slot' /\ Slots' = Slots
    BY <1>1 DEF Object, Slots, First
  <2> QED BY <1>1, <1>3, <2>1
<1>5. Before' = Before \cup {Object}
  BY <1>1, <1>3, <1>4 DEF Before
<1>6. out' = Before' \X {"free"}
  <2>1. out = Before \X {"free"}
    BY DEF WInv, Yielded
  <2> QED BY <1>1, <1>5, <2>1
<1>7. Waiting'
  BY <1>1, <1>2, <1>3 DEF WInv, Waiting, vars, Content
<1> QED BY <1>1, <1>2, <1>6, <1>7 DEF WInv, Yielded

\* Data: the slot is in no dnode that began before, so it begins one or is
\* free, and the slots jumped over are the inside of that one.
LEMMA YieldData ==
  ASSUME WInv, YieldDnode, block = Recovered(<<0, wblk>>)
  PROVE  WInv'
<1> DEFINE o == Object
           x == ExtraSlots[Object]
           name(s) == IF s \in Dnodes THEN "dnode" ELSE "free"
<1>1. /\ slot < PerBlock /\ slot' = slot + 1 + x
      /\ out' = out \cup {<<o, name(o)>>} /\ wblk' = wblk /\ block' = block
      /\ UNCHANGED <<vars, asker>>
  BY ContentKind DEF YieldDnode, Kind, Extra, Recovered
<1>2. block # Pending /\ block \notin {Failed, Unknown} /\ block # Recovered(Zeros)
      /\ wblk < Blocks /\ wblk \in 0 .. Blocks
  BY ContentKind DEF Failed, Unknown, Pending, Recovered, WInv, Waiting
<1>3. /\ First \in Nat /\ Slots = First .. First + PerBlock - 1 /\ PerBlock \in Nat \ {0}
      /\ slot \in Nat /\ o = First + slot /\ o \in Slots /\ Slots \subseteq Objects
      /\ o \in Nat
  <2>1. First \in Nat /\ Slots = First .. First + PerBlock - 1 /\ Slots \subseteq Objects
    BY <1>2, SlotRange
  <2>2. PerBlock \in Nat \ {0} /\ slot \in Nat /\ o = First + slot
    BY WalkAssumption DEF WInv, Waiting, Object, First
  <2> HIDE DEF o
  <2> QED BY <1>1, <2>1, <2>2
<1>4. x \in Nat /\ \A d \in Dnodes : d \in Nat /\ ExtraSlots[d] \in Nat
  <2>1. x \in Nat
    BY <1>3, WalkAssumption
  <2>2. Objects \subseteq Nat
    BY DEF Objects
  <2> QED BY <2>1, <2>2, WalkAssumption
<1>5. Object' = o + 1 + x /\ Slots' = Slots
  <2>1. Object' = First + slot' /\ Slots' = Slots
    BY <1>1 DEF Object, Slots, First
  <2>2. slot' = slot + 1 + x /\ o = First + slot /\ First \in Nat /\ slot \in Nat /\ x \in Nat
    BY <1>1, <1>3, <1>4
  <2> HIDE DEF o, x
  <2> QED BY <2>1, <2>2
<1>6. /\ out = {<<s, name(s)>> : s \in {s \in Before : ~Covered(s)}}
      /\ \A d \in Dnodes \cap Before : d + ExtraSlots[d] < o
  BY DEF WInv, Yielded
<1>7. /\ Before = {s \in Slots : s < o}
      /\ Before' = {s \in Slots : s < o + 1 + x}
  BY <1>5 DEF Before
<1>8. \A s : Covered(s)' <=> Covered(s)
  BY <1>5 DEF Covered
<1> HIDE DEF o, x
<1>9. ~Covered(o)
  <2> SUFFICES ASSUME NEW d \in Dnodes \cap Slots, o \in Inside(d) PROVE FALSE
    BY DEF Covered
  <2>1. d < o /\ o <= d + ExtraSlots[d] /\ d \in Before
    BY <1>3, <1>4, <1>7 DEF Inside
  <2> QED BY <1>3, <1>4, <1>6, <2>1
<1>10. o \notin Dnodes => x = 0
  <2> SUFFICES ASSUME o \notin Dnodes, NEW d \in Dnodes, o \in Inside(d) PROVE FALSE
    BY <1>3, LayoutAssumption DEF x, o
  <2> QED BY <1>2, <1>3, <1>9, SameBlock DEF Covered
<1>11. {s \in Before' : ~Covered(s)} = {s \in Before : ~Covered(s)} \cup {o}
  <2>1. ASSUME NEW s \in Before', ~Covered(s) PROVE s \in Before \/ s = o
    <3> SUFFICES ASSUME s \in Slots, o < s, s < o + 1 + x PROVE FALSE
      BY <1>3, <1>4, <1>7, <2>1
    <3>1. o \in Dnodes /\ s \in Inside(o)
      BY <1>3, <1>4, <1>10 DEF Inside, x, o
    <3> QED BY <1>3, <2>1, <3>1 DEF Covered
  <2>2. Before \cup {o} \subseteq Before'
    BY <1>3, <1>4, <1>7
  <2> QED BY <1>9, <2>1, <2>2
<1>12. out' = {<<s, name(s)>> : s \in {s \in Before' : ~Covered(s)'}}
  <2>1. {s \in Before' : ~Covered(s)'} = {s \in Before : ~Covered(s)} \cup {o}
    BY <1>8, <1>11
  <2> QED BY <1>1, <1>6, <2>1
<1>13. ASSUME NEW d \in Dnodes \cap Before' PROVE d + ExtraSlots[d] < Object'
  <2>1. CASE d \in Before
    BY <1>3, <1>4, <1>5, <1>6, <2>1
  <2>2. CASE d = o
    BY <1>3, <1>4, <1>5, <2>2 DEF x, o
  <2>3. CASE d \notin Before /\ d # o
    <3>1. d \in Slots /\ o < d /\ d < o + 1 + x
      BY <1>3, <1>4, <1>7, <2>3
    <3>2. o \in Dnodes /\ d \in Inside(o)
      BY <1>3, <1>4, <1>10, <3>1 DEF Inside, x, o
    <3> QED BY <3>2, LayoutAssumption
  <2> QED BY <2>1, <2>2, <2>3
<1>14. Waiting'
  BY <1>1, <1>2, <1>3, <1>4 DEF WInv, Waiting, vars, Content
<1> QED BY <1>1, <1>2, <1>12, <1>13, <1>14 DEF WInv, Yielded

\* A step that leaves the generator and its block alone.
LEMMA YieldedKept ==
  ASSUME Yielded, UNCHANGED walk
  PROVE  Yielded'
<1>1. wblk' = wblk /\ block' = block /\ slot' = slot /\ out' = out
  BY DEF walk
<1>2. Slots' = Slots /\ Object' = Object
  BY <1>1 DEF Slots, Object
<1>3. Before' = Before /\ \A o : Covered(o)' <=> Covered(o)
  BY <1>2 DEF Before, Covered
<1> QED BY <1>1, <1>2, <1>3 DEF Yielded

\* The next block starts with nothing yielded.
AtStart == wblk \in 0 .. Blocks /\ slot = 0 /\ out = {}

LEMMA NothingYielded == AtStart => Yielded
<1> SUFFICES ASSUME AtStart PROVE Yielded
  OBVIOUS
<1> USE DEF AtStart
<1>1. Before = {}
  <2> SUFFICES ASSUME NEW o \in Slots, o < Object PROVE FALSE
    BY DEF Before
  <2>1. First \in Nat /\ Object = First
    <3>1. wblk \in Nat /\ PerBlock \in Nat
      BY WalkAssumption DEF Blocks
    <3>2. wblk * PerBlock \in Nat
      BY <3>1
    <3> QED BY <3>2 DEF First, Object
  <2>2. PICK i \in 0 .. PerBlock - 1 : o = First + i
    BY DEF Slots, First
  <2> QED BY <2>1, <2>2, WalkAssumption
<1> QED BY <1>1 DEF Yielded

\* Between a call of the generator and its answer, others cannot ask.
LEMMA WalkStep ==
  ASSUME IInv, WInv, [WalkNext]_allvars
  PROVE  WInv'
<1>0. AtStart' => Yielded'
  BY NothingYielded, PTL
<1>1. ASSUME WalkRead \/ OtherCalls PROVE WInv'
  <2>1. PICK b : Call(b) /\ UNCHANGED walk /\ asker' \in {"walk", "other"}
                 /\ (asker' = "walk" => block = Pending /\ b = wblk /\ wblk < Blocks)
    BY <1>1 DEF WalkRead, OtherCalls
  <2>2. /\ pc' \in {"read", "done"} /\ want' = b /\ pc = "idle"
        /\ (pc' # "done" => answer' = answer)
    BY <2>1 DEF Call, Return
  <2>3. Yielded'
    BY <2>1, YieldedKept DEF WInv
  <2> QED BY <2>1, <2>2, <2>3 DEF WInv, Waiting, walk
<1>2. ASSUME WalkGets PROVE WInv'
  <2>1. /\ pc = "done" /\ block' = answer /\ answer' = Pending /\ pc' = "idle"
        /\ asker' = "none" /\ want = wblk /\ wblk < Blocks /\ block = Pending
        /\ slot = 0 /\ out = {} /\ wblk' = wblk /\ slot' = slot /\ out' = out
    BY <1>2 DEF WalkGets, WInv, Waiting
  <2>2. answer \in {Failed, Unknown, Recovered(Content(wblk))}
    BY <2>1 DEF IInv, AnswerExact
  <2>3. answer # Pending
    BY <2>2 DEF Failed, Unknown, Recovered, Pending
  <2>4. Content(wblk)' = Content(wblk)
    BY <2>1 DEF Content
  <2>5. Waiting'
    BY <2>1, <2>2, <2>3, <2>4 DEF WInv, Waiting
  <2>6. Yielded'
    BY <1>0, <2>1, <2>5 DEF AtStart, WInv, Waiting
  <2> QED BY <2>5, <2>6 DEF WInv
<1>3. ASSUME YieldLost \/ YieldDnode PROVE WInv'
  <2>1. CASE YieldLost
    BY <2>1, YieldLostStep
  <2>2. CASE YieldDnode
    <3>1. block = Recovered(Content(wblk))
      BY <2>2 DEF YieldDnode, WInv, Waiting, Pending, Failed, Unknown
    <3>2. block = Recovered(Zeros) \/ block = Recovered(<<0, wblk>>)
      BY <3>1, ContentKind
    <3> QED BY <2>2, <3>2, YieldZeros, YieldData
  <2> QED BY <1>3, <2>1, <2>2
<1>4. ASSUME WalkOn PROVE WInv'
  <2>1. /\ wblk' = wblk + 1 /\ block' = Pending /\ slot' = 0 /\ out' = {}
        /\ wblk < Blocks /\ pc = "idle" /\ asker = "none" /\ UNCHANGED <<vars, asker>>
    BY <1>4 DEF WalkOn, WInv, Waiting
  <2>2. wblk' \in 0 .. Blocks
    BY <2>1, DmuAssumption DEF WInv, Waiting, Blocks
  <2>3. Waiting'
    BY <2>1, <2>2 DEF WInv, Waiting, vars
  <2>4. Yielded'
    BY <1>0, <2>1, <2>2 DEF AtStart
  <2> QED BY <2>3, <2>4 DEF WInv
<1>5. ASSUME OtherGets PROVE WInv'
  <2>1. Yielded' /\ UNCHANGED walk
    BY <1>5, YieldedKept DEF OtherGets, WInv
  <2> QED BY <1>5, <2>1 DEF OtherGets, WInv, Waiting, walk, Content
<1>6. ASSUME Step \/ Glitch, UNCHANGED <<asker, walk>> PROVE WInv'
  <2>1. /\ want' = want /\ (pc' = "idle" => pc = "idle")
        /\ (pc' # "done" => pc # "done" /\ answer' = answer)
    BY <1>6 DEF Step, Glitch, MeetHole, Descend, ShortBlock, Deliver, Hit, Miss,
                Unreadable, Evict, EvictEnd, Return
  <2>2. Yielded'
    BY <1>6, YieldedKept DEF WInv
  <2> QED BY <1>6, <2>1, <2>2 DEF WInv, Waiting, walk, Content
<1>7. ASSUME UNCHANGED allvars PROVE WInv'
  <2>1. Yielded' /\ UNCHANGED walk
    BY <1>7, YieldedKept DEF WInv, allvars
  <2> QED BY <1>7, <2>1 DEF WInv, Waiting, walk, allvars, vars, Content
<1> QED BY <1>1, <1>2, <1>3, <1>4, <1>5, <1>6, <1>7 DEF WalkNext

LEMMA WalkKept == Spec => []WInv
<1>1. WalkInit => WInv
  <2> SUFFICES ASSUME WalkInit PROVE WInv
    OBVIOUS
  <2>1. /\ wblk = 0 /\ slot = 0 /\ out = {} /\ block = Pending /\ asker = "none"
        /\ pc = "idle" /\ answer = Pending
    BY DEF WalkInit, Init
  <2>2. wblk \in 0 .. Blocks
    BY <2>1, DmuAssumption DEF Blocks
  <2>3. Yielded
    BY <2>1, <2>2, NothingYielded DEF AtStart
  <2> QED BY <2>1, <2>2, <2>3 DEF WInv, Waiting
<1>2. IInv /\ WInv /\ [WalkNext]_allvars => WInv'
  BY WalkStep
<1> QED BY <1>1, <1>2, DescentKept, PTL DEF Spec

\* At the end of a block, every object of it was reported as it is on the pool,
\* or all of the block as lost; no slot inside a dnode was taken for an object.
THEOREM WalkReportsExactly == Spec => []WalkExact
<1>1. WInv => WalkExact
  <2> SUFFICES ASSUME WInv, block # Pending, slot >= PerBlock PROVE WalkExact
    BY DEF WalkExact
  <2>1. /\ First \in Nat /\ Slots = First .. First + PerBlock - 1
        /\ PerBlock \in Nat \ {0} /\ slot \in Nat /\ Object = First + slot
    BY SlotRange, WalkAssumption DEF WInv, Waiting, Object, First
  <2>2. Before = Slots
    BY <2>1 DEF Before
  <2>3. CASE block \in {Failed, Unknown}
    BY <2>2, <2>3 DEF WalkExact, WInv, Yielded, Failed, Unknown
  <2>4. CASE block = Recovered(Content(wblk))
    <3>1. CASE Content(wblk) = Zeros
      BY <2>2, <2>4, <3>1 DEF WalkExact, WInv, Yielded
    <3>2. CASE Content(wblk) = <<0, wblk>>
      BY <2>2, <2>4, <3>2 DEF WalkExact, WInv, Yielded
    <3> QED BY <3>1, <3>2, ContentKind
  <2> QED BY <2>3, <2>4 DEF WInv, Waiting
<1> QED BY <1>1, WalkKept, PTL

\* The pointer followed is one of the object's, and the disk changes as often as
\* it may.
PointerKept ==
  /\ readable \subseteq Pointers
  /\ glitches \in 0 .. MaxGlitches
  /\ pc \in {"idle", "read", "evict", "got", "done"}
  /\ ptr \in Pointers

LEMMA PointerStep ==
  ASSUME IInv, IInv', PointerKept, [WalkNext]_allvars
  PROVE  PointerKept'
<1>1. ASSUME OnPath', want' \in Nat PROVE ptr' \in Pointers
  <2>1. want' \in 0 .. MaxBlkid
    BY <1>1, DmuAssumption DEF OnPath
  <2>2. want' \div Span[ptr'[1]] \in 0 .. MaxBlkid \div Span[ptr'[1]]
    BY <1>1, <2>1, SpanAssumption, DmuAssumption, DivideMonotone DEF OnPath
  <2> QED BY <1>1, <2>2 DEF OnPath, At, Pointers
<1>2. /\ pc' \in {"idle", "read", "evict", "got", "done"}
      /\ ptr' = ptr \/ pc' = "read"
  BY DEF WalkNext, Step, Glitch, MeetHole, Descend, ShortBlock, Deliver, Hit, Miss,
         Unreadable, Evict, EvictEnd, Return, WalkRead, OtherCalls, Call, WalkGets,
         OtherGets, YieldLost, YieldDnode, WalkOn, allvars, vars, PointerKept
<1>3. ptr' \in Pointers
  BY <1>1, <1>2 DEF PointerKept, IInv, Descending
<1>4. readable' \subseteq Pointers /\ glitches' \in 0 .. MaxGlitches
  <2>1. UNCHANGED disk \/ Glitch
    BY DEF WalkNext, Step, MeetHole, Descend, ShortBlock, Deliver, Hit, Miss,
           Unreadable, Evict, EvictEnd, WalkRead, OtherCalls, Call, WalkGets,
           OtherGets, YieldLost, YieldDnode, WalkOn, allvars, vars, disk
  <2> QED BY <2>1, DmuAssumption DEF Glitch, disk, PointerKept
<1> QED BY <1>2, <1>3, <1>4 DEF PointerKept

\* Every variable keeps its type.
THEOREM WalkTypes == Spec => []WalkTypeOK
<1>1. WalkInit => PointerKept
  <2> SUFFICES ASSUME WalkInit PROVE PointerKept
    OBVIOUS
  <2>1. readable \subseteq Pointers /\ glitches = 0 /\ pc = "idle" /\ ptr = <<0, 0>>
    BY DEF WalkInit, Init
  <2>2. <<0, 0>> \in Pointers
    <3>1. 0 \in Levels /\ 0 \in 0 .. MaxBlkid \div Span[0]
      BY SpanAssumption, DmuAssumption DEF Levels
    <3> QED BY <3>1 DEF Pointers
  <2> QED BY <2>1, <2>2, DmuAssumption DEF PointerKept
<1>2. IInv /\ IInv' /\ PointerKept /\ [WalkNext]_allvars => PointerKept'
  BY PointerStep
<1>3. IInv /\ CInv /\ WInv /\ PointerKept => WalkTypeOK
  <2> SUFFICES ASSUME IInv, CInv, WInv, PointerKept PROVE WalkTypeOK
    OBVIOUS
  <2>1. cache \in Seq(Pointers) /\ bytes \in Nat
    <3>1. Total(Keys) \in Nat
      BY KeysType, TotalType DEF CInv, Accounted
    <3> QED BY <3>1 DEF CInv, Accounted
  <2>2. ASSUME NEW b \in Nat, b <= MaxBlkid PROVE Content(b) \in Pointers \cup {Zeros}
    <3>1. 0 \in Levels /\ Span[0] = 1
      BY SpanAssumption DEF Levels
    <3>2. b \in 0 .. MaxBlkid \div Span[0]
      BY <2>2, <3>1, DmuAssumption
    <3>3. <<0, b>> \in Pointers
      BY <3>1, <3>2 DEF Pointers
    <3> QED BY <3>3 DEF Content
  <2> DEFINE answers == {Failed, Unknown} \cup {Recovered(d) : d \in Pointers \cup {Zeros}}
  <2>3. want \in Nat /\ answer \in {Pending} \cup answers
    <3>1. want \in Nat
      BY DEF IInv, Descending
    <3>2. ASSUME pc = "done" PROVE answer \in answers
      <4>1. CASE InBounds(want) /\ answer = Recovered(Content(want))
        <5>1. Content(want) \in Pointers \cup {Zeros}
          BY <2>2, <3>1, <4>1 DEF InBounds
        <5> QED BY <4>1, <5>1
      <4> QED BY <3>2, <4>1 DEF IInv, AnswerExact
    <3> QED BY <3>1, <3>2 DEF WInv, Waiting
  <2>4. block \in {Pending} \cup answers
    <3>1. ASSUME block = Recovered(Content(wblk)) PROVE block \in answers
      <4>1. wblk \in Nat /\ wblk <= MaxBlkid
        <5>1. block # Pending
          BY <3>1 DEF Recovered, Pending
        <5> QED BY <5>1, DmuAssumption DEF WInv, Waiting, Blocks
      <4> QED BY <2>2, <3>1, <4>1
    <3> QED BY <3>1 DEF WInv, Waiting
  <2>5. out \subseteq Objects \X {"dnode", "free", "lost"}
    <3>1. CASE block = Pending
      BY <3>1 DEF WInv, Waiting
    <3>2. CASE block # Pending
      <4>1. Before \subseteq Objects
        BY <3>2, SlotRange DEF Before, WInv, Waiting
      <4>2. CASE block \in {Failed, Unknown}
        BY <4>1, <4>2 DEF WInv, Yielded
      <4>3. CASE block = Recovered(Zeros)
        BY <4>1, <4>3 DEF WInv, Yielded
      <4>4. CASE block = Recovered(<<0, wblk>>)
        <5>1. out = {<<o, IF o \in Dnodes THEN "dnode" ELSE "free">> :
                       o \in {s \in Before : ~Covered(s)}}
          BY <4>4 DEF WInv, Yielded
        <5> QED BY <4>1, <5>1
      <4> QED BY <3>2, <4>2, <4>3, <4>4, ContentKind DEF WInv, Waiting
    <3> QED BY <3>1, <3>2
  <2>6. wblk \in 0 .. MaxBlkid + 1 /\ slot \in Nat /\ asker \in {"walk", "other", "none"}
    BY DEF WInv, Waiting, Blocks
  <2>7. TypeOK
    BY <2>1, <2>3 DEF TypeOK, PointerKept
  <2> QED BY <2>4, <2>5, <2>6, <2>7 DEF WalkTypeOK
<1> QED BY <1>1, <1>2, <1>3, DescentKept, CacheKept, WalkKept, PTL DEF Spec
=============================================================================
