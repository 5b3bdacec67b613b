-------------------------------- MODULE Dmu --------------------------------
(***************************************************************************)
(* DmuReader of src/zfsrescue/dmu.py: one block of an object is reached    *)
(* through the tree of its block pointers, every block read on the way     *)
(* going through a bounded cache of the most recently used.                *)
(*                                                                         *)
(* A pointer is named <<level, number>>: level 0 points at data, and the   *)
(* blocks of a level are numbered from the left.  The data of a block is   *)
(* named after the pointer, or is Zeros under a hole.  read_block() either *)
(* delivers the block or fails (see BlockSource).                          *)
(***************************************************************************)
EXTENDS Integers, Sequences, FiniteSets

CONSTANTS
  NLevels,      \* dn.nlevels
  NBlkptr,      \* pointers in the dnode
  Epb,          \* pointers in a full indirect block: 1 << epbs
  Span,         \* level -> level-0 blocks under a pointer: 1 << (epbs * level)
  MaxBlkid,     \* last block of the object
  Holes,        \* pointers that are holes
  Entries,      \* indirect pointer -> pointers its block really holds
  Weight,       \* pointer -> bytes its block takes in the cache
  CacheMax,     \* _cache_max
  Outages,      \* sets of pointers that may be unreadable together
  MaxGlitches   \* changes of what can be read (a bound of the model)

Levels == 0 .. NLevels - 1

ASSUME SpanAssumption ==
  /\ NLevels \in Nat \ {0}
  /\ Epb \in Nat \ {0}
  /\ Span \in [Levels -> Nat \ {0}]
  /\ Span[0] = 1
  /\ \A l \in Levels \ {0} : Span[l] = Span[l - 1] * Epb

\* The pointers that lead to some block of the object.
Pointers == UNION {{<<l, n>> : n \in 0 .. MaxBlkid \div Span[l]} : l \in Levels}
Indirect == {p \in Pointers : p[1] > 0}

ASSUME DmuAssumption ==
  /\ NBlkptr \in Nat
  /\ MaxBlkid \in Nat
  /\ Holes \subseteq Pointers
  /\ Entries \in [Indirect -> 0 .. Epb]
  /\ Weight \in [Pointers -> Nat]
  /\ CacheMax \in Nat
  /\ Outages \subseteq SUBSET Pointers
  /\ MaxGlitches \in Nat

Zeros == <<>>           \* the data of no pointer
Nothing == <<>>
Pending == [status |-> "pending", data |-> Nothing]
Recovered(d) == [status |-> "RECOVERED", data |-> d]
Failed == [status |-> "FAILED", data |-> Nothing]      \* what read_block() said
Unknown == [status |-> "UNKNOWN", data |-> Nothing]    \* out of bounds

VARIABLES
  readable,     \* pointers whose block read_block() can deliver now
  glitches,     \* changes of readable so far
  cache,        \* keys of _cache, least recently used first
  bytes,        \* _cache_bytes
  pc,           \* step of the call; "idle" between calls
  want,         \* blkid
  ptr,          \* bp
  answer        \* what the call returns

disk == <<readable, glitches>>
vars == <<readable, glitches, cache, bytes, pc, want, ptr, answer>>

Keys == {cache[i] : i \in DOMAIN cache}

TypeOK ==
  /\ readable \subseteq Pointers
  /\ glitches \in 0 .. MaxGlitches
  /\ cache \in Seq(Pointers)
  /\ bytes \in Nat
  /\ pc \in {"idle", "read", "evict", "got", "done"}
  /\ want \in Nat
  /\ ptr \in Pointers
  /\ answer \in {Pending, Failed, Unknown} \cup {Recovered(d) : d \in Pointers \cup {Zeros}}

Init ==
  /\ readable \in {Pointers \ o : o \in Outages}
  /\ glitches = 0
  /\ cache = <<>>
  /\ bytes = 0
  /\ pc = "idle"
  /\ want = 0
  /\ ptr = <<0, 0>>
  /\ answer = Pending

-----------------------------------------------------------------------------
(* block_pointer_for(): from the dnode down.                               *)

Top == NLevels - 1

Return(a) ==
  /\ answer' = a
  /\ pc' = "done"

Call(b) ==
  /\ pc = "idle"
  /\ want' = b
  /\ IF b > MaxBlkid \/ b \div Span[Top] >= NBlkptr
     THEN Return(Unknown) /\ UNCHANGED ptr
     ELSE ptr' = <<Top, b \div Span[Top]>> /\ pc' = "read" /\ UNCHANGED answer
  /\ UNCHANGED <<disk, cache, bytes>>

\* A hole at any level stands for blocks of zeros.
MeetHole ==
  /\ pc = "read"
  /\ ptr \in Holes
  /\ Return(Recovered(Zeros))
  /\ UNCHANGED <<disk, cache, bytes, want, ptr>>

\* Mutant: the index is computed before the level is decremented.
Index_LevelAbove == (want \div Span[ptr[1]]) % Epb

\* The place of the block, in the block of pointers just read.
Index == (want \div Span[ptr[1] - 1]) % Epb

\* What the entry k of the indirect block under p points at.
Child(p, k) == <<p[1] - 1, p[2] * Epb + k>>

Descend ==
  /\ pc = "got"
  /\ ptr[1] > 0
  /\ Index < Entries[ptr]
  /\ ptr' = Child(ptr, Index)
  /\ pc' = "read"
  /\ UNCHANGED <<disk, cache, bytes, want, answer>>

ShortBlock ==
  /\ pc = "got"
  /\ ptr[1] > 0
  /\ Index >= Entries[ptr]
  /\ Return(Unknown)
  /\ UNCHANGED <<disk, cache, bytes, want, ptr>>

Deliver ==
  /\ pc = "got"
  /\ ptr[1] = 0
  /\ Return(Recovered(ptr))
  /\ UNCHANGED <<disk, cache, bytes, want, ptr>>

-----------------------------------------------------------------------------
(* _read_bp(): through the cache.                                          *)

Place(q) == CHOOSE i \in DOMAIN cache : cache[i] = q
MoveToEnd(q) ==
  [i \in DOMAIN cache |->
     IF i = Len(cache) THEN q ELSE cache[IF i < Place(q) THEN i ELSE i + 1]]

\* Mutant: a hit does not make the entry the most recent one.
Hit_NoMove ==
  /\ pc = "read"
  /\ ptr \notin Holes
  /\ ptr \in Keys
  /\ pc' = "got"
  /\ UNCHANGED <<disk, cache, bytes, want, ptr, answer>>

Hit ==
  /\ pc = "read"
  /\ ptr \notin Holes
  /\ ptr \in Keys
  /\ cache' = MoveToEnd(ptr)
  /\ pc' = "got"
  /\ UNCHANGED <<disk, bytes, want, ptr, answer>>

\* Blocks of more than an eighth of the cache would drive the others out.
Limit == IF CacheMax \div 8 > 1 THEN CacheMax \div 8 ELSE 1
Kept(p) == Weight[p] > 0 /\ Weight[p] <= Limit

Miss ==
  /\ pc = "read"
  /\ ptr \notin Holes
  /\ ptr \notin Keys
  /\ ptr \in readable
  /\ IF Kept(ptr)
     THEN /\ cache' = Append(cache, ptr)
          /\ bytes' = bytes + Weight[ptr]
          /\ pc' = "evict"
     ELSE pc' = "got" /\ UNCHANGED <<cache, bytes>>
  /\ UNCHANGED <<disk, want, ptr, answer>>

\* A failure weighs nothing, so the cache does not keep it.
Unreadable ==
  /\ pc = "read"
  /\ ptr \notin Holes
  /\ ptr \notin Keys
  /\ ptr \notin readable
  /\ Return(Failed)
  /\ UNCHANGED <<disk, cache, bytes, want, ptr>>

\* Mutant: what an entry leaves free is not counted.
Evict_NoCredit ==
  /\ pc = "evict"
  /\ bytes > CacheMax
  /\ cache # <<>>
  /\ cache' = Tail(cache)
  /\ UNCHANGED <<disk, bytes, pc, want, ptr, answer>>

Evict ==
  /\ pc = "evict"
  /\ bytes > CacheMax
  /\ cache # <<>>
  /\ cache' = Tail(cache)
  /\ bytes' = bytes - Weight[Head(cache)]
  /\ UNCHANGED <<disk, pc, want, ptr, answer>>

EvictEnd ==
  /\ pc = "evict"
  /\ bytes <= CacheMax \/ cache = <<>>
  /\ pc' = "got"
  /\ UNCHANGED <<disk, cache, bytes, want, ptr, answer>>

Step ==
  \/ MeetHole \/ Descend \/ ShortBlock \/ Deliver
  \/ Hit \/ Miss \/ Unreadable \/ Evict \/ EvictEnd

\* A disk is unplugged or answers again: between two calls, here.
Glitch ==
  /\ pc = "idle"
  /\ glitches < MaxGlitches
  /\ glitches' = glitches + 1
  /\ readable' \in {Pointers \ o : o \in Outages}
  /\ UNCHANGED <<cache, bytes, pc, want, ptr, answer>>

-----------------------------------------------------------------------------
(* What the answers and the cache are worth.                               *)

Path(b) == [l \in Levels |-> <<l, b \div Span[l]>>]

\* The blocks read for b: its path, down to its data or to a hole.
Needed(b) ==
  {Path(b)[l] : l \in {l \in Levels : \A k \in l .. Top : Path(b)[k] \notin Holes}}

InBounds(b) ==
  /\ b <= MaxBlkid
  /\ b \div Span[Top] < NBlkptr
  /\ \A p \in Needed(b) : p[1] > 0 => (b \div Span[p[1] - 1]) % Epb < Entries[p]

Content(b) ==
  IF \E l \in Levels : Path(b)[l] \in Holes THEN Zeros ELSE <<0, b>>

\* A block comes from its own place in the tree, and zeros only stand for a
\* hole of its path.  A refusal has its reason now: whatever was read before and
\* whatever the cache kept or dropped, failures included, a block whose path can
\* be read is delivered.
\* (Code: DmuReader.block_pointer_for, read_object_block, _read_bp.)
AnswerExact ==
  pc = "done" =>
    \/ InBounds(want) /\ answer = Recovered(Content(want))
    \/ ~InBounds(want) /\ answer = Unknown
    \/ ~(Needed(want) \subseteq readable) /\ answer = Failed

\* The bytes of the blocks of S, each as a place in its block.
BytesOf(S) == UNION {{p} \X (1 .. Weight[p]) : p \in S}
Total(S) == Cardinality(BytesOf(S))

\* The cache counts its bytes exactly, each key once, and is within its limit
\* outside the eviction itself. (Code: DmuReader._read_bp, _poids.)
CacheAccounted ==
  /\ Cardinality(Keys) = Len(cache)
  /\ bytes = Total(Keys)
  /\ pc # "evict" => bytes <= CacheMax

\* A path that fits in the cache is there once it was followed: the next block
\* under it costs one read, however the cache stood before.
\* (Code: DmuReader._read_bp, move_to_end and popitem(last=False).)
PathKept ==
  LET path == {p \in Needed(want) : Kept(p)} IN
  /\ pc = "done"
  /\ answer.status = "RECOVERED"
  /\ Total(path) <= CacheMax
  => path \subseteq Keys
=============================================================================
