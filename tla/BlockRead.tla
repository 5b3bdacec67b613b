----------------------------- MODULE BlockRead -----------------------------
(***************************************************************************)
(* PoolReader.read_block() of src/zfsrescue/blockio.py: one block is read  *)
(* copy after copy, column after column, until a copy passes its checksum. *)
(*                                                                         *)
(* A column is abstracted to what its bytes are worth: "good" (what ZFS    *)
(* wrote), "bad" (anything else: corruption, a block freed and reused), or *)
(* None (no bytes at all).  An XOR with one bad operand is bad.  A checksum*)
(* that verifies is taken to accept good bytes only: collisions are left   *)
(* out.                                                                    *)
(***************************************************************************)
EXTENDS Raidz

CONSTANTS
  NCopies,      \* DVAs in a block pointer (3 in ZFS)
  Offset,       \* sector where each copy starts
  Psizes,       \* physical sizes of blocks, in 512-byte units
  Checksums     \* checksum algorithms met: subset of AllChecksums

Copies == 1 .. NCopies

\* verify() computes the algorithm, skips it (off), or does not know it.
AllChecksums == {"computed", "off", "unsupported"}

ASSUME BlockReadAssumption ==
  /\ NCopies \in Nat
  /\ Offset \in [Copies -> Nat]
  /\ Psizes \subseteq Nat \ {0}
  /\ Checksums \subseteq AllChecksums

None == "none"
Unread == "unread"
Kinds == {"hole", "embedded", "encrypted", "gang", "regular"}
Media == {"good", "bad", "unreadable"}
OkStatuses == {"RECOVERED", "RECOVERED_WITH_RECONSTRUCTION"}
Statuses == OkStatuses \cup {"INVALID_CHECKSUM", "MISSING_DATA", "UNKNOWN"}

VARIABLES
  bp,           \* the block pointer: kind, dvas filled, psize, checksum,
                \*   whether the decompressor is installed (constant)
  avail,        \* children of the vdev that are plugged in (constant)
  media,        \* what each column of each copy holds on disk (constant)
  pc,           \* the step read_block() is at
  copy,         \* the copy being tried (index i of the loop)
  next,         \* the column to read next
  cols,         \* colonnes: what each column was found to hold
  rebuilt,      \* att.reconstructed_columns of the current copy
  attempts,     \* status of the attempt at each copy, None before it
  status,       \* resultat.status
  data          \* what the caller gets: "good", "bad", or None

env  == <<bp, avail, media>>
vars == <<bp, avail, media, pc, copy, next, cols, rebuilt, attempts, status,
          data>>

Size    == IoSize(bp.psize)
Row     == Columns(Size)
Data    == DataCols(Size)
Parity  == ParityCols(Size)

TypeOK ==
  /\ bp \in [kind : Kinds, dvas : SUBSET Copies, psize : Psizes,
             checksum : Checksums, decoder : BOOLEAN]
  /\ avail \subseteq Devices
  /\ media \in [Copies -> [Devices -> Media]]
  /\ pc \in {"start", "copy", "read", "assemble", "verify", "decompress", "done",
            "raised"}
  /\ copy \in 1 .. NCopies + 1
  /\ next \in 0 .. DCols
  /\ cols \in [Devices -> {Unread, None, "good", "bad"}]
  /\ rebuilt \subseteq Devices
  /\ attempts \in [Copies -> Statuses \cup {None}]
  /\ status \in Statuses
  /\ data \in {None, "good", "bad"}

\* The block as it can be met: a hole has no DVA, an embedded block needs
\* none, any other has at least one.  Where there is no column, or no device
\* under it, there is nothing to read.
Init ==
  /\ bp \in [kind : Kinds, dvas : SUBSET Copies, psize : Psizes,
             checksum : Checksums, decoder : BOOLEAN]
  /\ (bp.dvas = {}) <=> (bp.kind \in {"hole", "embedded"})
  /\ avail \in SUBSET Devices
  /\ media \in [Copies -> [Devices -> Media]]
  /\ \A i \in Copies, c \in Devices :
       \/ i \notin bp.dvas
       \/ c \notin DataCols(Size) \cup ParityCols(Size)
       \/ DevIdx(Offset[i], c) \notin avail
       => media[i][c] = "unreadable"
  /\ pc = "start"
  /\ copy = 1
  /\ next = 0
  /\ cols = [c \in Devices |-> Unread]
  /\ rebuilt = {}
  /\ attempts = [i \in Copies |-> None]
  /\ status = "MISSING_DATA"
  /\ data = None

-----------------------------------------------------------------------------
(* Blocks that need no disk, or that the tool does not read.               *)

Return(s, d) ==
  /\ status' = s
  /\ data' = d
  /\ pc' = "done"
  /\ UNCHANGED <<env, copy, next, cols, rebuilt, attempts>>

ReadHole == pc = "start" /\ bp.kind = "hole" /\ Return("RECOVERED", "good")

ReadEmbedded ==
  /\ pc = "start"
  /\ bp.kind = "embedded"
  /\ IF bp.decoder THEN Return("RECOVERED", "good") ELSE Return("UNKNOWN", None)

Refuse ==
  /\ pc = "start"
  /\ bp.kind \in {"encrypted", "gang"}
  /\ Return("UNKNOWN", None)

StartCopies ==
  /\ pc = "start"
  /\ bp.kind = "regular"
  /\ pc' = "copy"
  /\ UNCHANGED <<env, copy, next, cols, rebuilt, attempts, status, data>>

-----------------------------------------------------------------------------
(* read_dva_physical(): one copy.                                          *)

\* The end of an attempt that did not deliver: on to the next DVA.
Abandon(att) ==
  /\ attempts' = [attempts EXCEPT ![copy] = att]
  /\ copy' = copy + 1
  /\ pc' = "copy"
  /\ UNCHANGED <<env, next, cols, rebuilt, data>>

\* Mutant: the loop on the DVAs has no end.
SkipEmpty_Unbounded ==
  /\ pc = "copy"
  /\ copy \notin bp.dvas
  /\ copy <= NCopies + 1
  /\ copy' = copy + 1
  /\ UNCHANGED <<env, pc, next, cols, rebuilt, attempts, status, data>>

SkipEmpty ==
  /\ pc = "copy"
  /\ copy \in Copies \ bp.dvas
  /\ copy' = copy + 1
  /\ UNCHANGED <<env, pc, next, cols, rebuilt, attempts, status, data>>

\* Mutant: a copy that lacks a column is given up without trying parity.
Hopeless_Degraded ==
  /\ pc = "copy"
  /\ copy \in bp.dvas
  /\ Verdict(Offset[copy], Size, avail) # "COMPLETE"
  /\ Abandon("MISSING_DATA")
  /\ UNCHANGED status

\* The geometry alone says the copy is lost: nothing is read.
Hopeless ==
  /\ pc = "copy"
  /\ copy \in bp.dvas
  /\ Verdict(Offset[copy], Size, avail) = "MISSING_DATA"
  /\ Abandon("MISSING_DATA")
  /\ UNCHANGED status

\* Mutant: the columns rebuilt for the copy before are not forgotten.
BeginCopy_Stale ==
  /\ pc = "copy"
  /\ copy \in bp.dvas
  /\ Verdict(Offset[copy], Size, avail) # "MISSING_DATA"
  /\ pc' = "read"
  /\ next' = 0
  /\ cols' = [c \in Devices |-> Unread]
  /\ UNCHANGED <<env, copy, rebuilt, attempts, status, data>>

BeginCopy ==
  /\ pc = "copy"
  /\ copy \in bp.dvas
  /\ Verdict(Offset[copy], Size, avail) # "MISSING_DATA"
  /\ pc' = "read"
  /\ next' = 0
  /\ cols' = [c \in Devices |-> Unread]
  /\ rebuilt' = {}
  /\ UNCHANGED <<env, copy, attempts, status, data>>

\* What one pread of a column yields.  Any exception counts as no bytes.
Pread(i, c) ==
  IF DevIdx(Offset[i], c) \notin avail \/ media[i][c] = "unreadable"
  THEN None
  ELSE media[i][c]

ReadColumn ==
  /\ pc = "read"
  /\ next \in Row
  /\ cols' = IF ColSize(Size, next) = 0 THEN cols
             ELSE [cols EXCEPT ![next] = Pread(copy, next)]
  /\ next' = next + 1
  /\ UNCHANGED <<env, pc, copy, rebuilt, attempts, status, data>>

LostData   == {c \in Data : cols[c] = None}
LostParity == {c \in Parity : cols[c] = None}

EndRead ==
  /\ pc = "read"
  /\ next \notin Row
  /\ pc' = "assemble"
  /\ UNCHANGED <<env, copy, next, cols, rebuilt, attempts, status, data>>

\* Sector errors cost more columns than parity makes up for.
TooManyLost ==
  \/ Cardinality(LostData) > Cardinality(Parity) - Cardinality(LostParity)
  \/ NParity # 1

GiveUpCopy ==
  /\ pc = "assemble"
  /\ LostData # {}
  /\ TooManyLost
  /\ Abandon("MISSING_DATA")
  /\ UNCHANGED status

\* The value reconstruct_raidz1() gives a lost column.
Rebuild(lost) ==
  IF \A c \in (Data \ {lost}) \cup {0} : cols[c] = "good" THEN "good" ELSE "bad"

RebuildColumn ==
  /\ pc = "assemble"
  /\ LostData # {}
  /\ ~TooManyLost
  /\ \E lost \in LostData :
       /\ cols' = [cols EXCEPT ![lost] = Rebuild(lost)]
       /\ rebuilt' = {lost}
  /\ pc' = "verify"
  /\ UNCHANGED <<env, copy, next, attempts, status, data>>

Concatenate ==
  /\ pc = "assemble"
  /\ LostData = {}
  /\ pc' = "verify"
  /\ UNCHANGED <<env, copy, next, cols, rebuilt, attempts, status, data>>

-----------------------------------------------------------------------------
(* Validation of the bytes obtained.                                       *)

\* brut: the data columns, concatenated.
Brut == IF \A c \in Data : cols[c] = "good" THEN "good" ELSE "bad"

\* Mutant: bytes obtained without reconstruction are not verified.
Conforms_UnlessRebuilt == rebuilt = {} \/ Brut = "good"

\* checksum.verify(): true without looking when the checksum is off.
Conforms == bp.checksum = "off" \/ Brut = "good"

UnknownChecksum ==
  /\ pc = "verify"
  /\ bp.checksum = "unsupported"
  /\ Abandon("UNKNOWN")
  /\ status' = "UNKNOWN"

\* Mutant: the first bad checksum ends the search.
BadChecksum_Final ==
  /\ pc = "verify"
  /\ bp.checksum # "unsupported"
  /\ ~Conforms
  /\ Return("INVALID_CHECKSUM", None)

BadChecksum ==
  /\ pc = "verify"
  /\ bp.checksum # "unsupported"
  /\ ~Conforms
  /\ Abandon("INVALID_CHECKSUM")
  /\ status' = IF status \in OkStatuses THEN status ELSE "INVALID_CHECKSUM"

GoodChecksum ==
  /\ pc = "verify"
  /\ bp.checksum # "unsupported"
  /\ Conforms
  /\ pc' = "decompress"
  /\ UNCHANGED <<env, copy, next, cols, rebuilt, attempts, status, data>>

\* The status an attempt has once its columns are assembled.
Assembled ==
  IF rebuilt = {} THEN "RECOVERED" ELSE "RECOVERED_WITH_RECONSTRUCTION"

\* Mutant: a missing decoder leaves the status as it was.
NoDecoder_Silent ==
  /\ pc = "decompress"
  /\ ~bp.decoder
  /\ Abandon("UNKNOWN")
  /\ UNCHANGED status

NoDecoder ==
  /\ pc = "decompress"
  /\ ~bp.decoder
  /\ Abandon("UNKNOWN")
  /\ status' = "UNKNOWN"

\* Only bytes no checksum vouched for can fail to decompress.  The decoders
\* report it, except where zstandard or an index error is let through.
DecompressionFails ==
  /\ pc = "decompress"
  /\ bp.decoder
  /\ Brut = "bad"
  /\ Abandon(Assembled)
  /\ status' = "INVALID_CHECKSUM"

DecoderRaises ==
  /\ pc = "decompress"
  /\ bp.decoder
  /\ Brut = "bad"
  /\ pc' = "raised"
  /\ UNCHANGED <<env, copy, next, cols, rebuilt, attempts, status, data>>

Deliver ==
  /\ pc = "decompress"
  /\ bp.decoder
  /\ attempts' = [attempts EXCEPT ![copy] = Assembled]
  /\ status' = Assembled
  /\ data' = Brut
  /\ pc' = "done"
  /\ UNCHANGED <<env, copy, next, cols, rebuilt>>

\* Every DVA was tried in vain.
Fail ==
  /\ pc = "copy"
  /\ copy = NCopies + 1
  /\ status' = IF \A i \in bp.dvas : attempts[i] = "MISSING_DATA"
               THEN "MISSING_DATA" ELSE status
  /\ pc' = "done"
  /\ UNCHANGED <<env, copy, next, cols, rebuilt, attempts, data>>

Next ==
  \/ ReadHole \/ ReadEmbedded \/ Refuse \/ StartCopies
  \/ SkipEmpty \/ Hopeless \/ BeginCopy \/ ReadColumn \/ EndRead
  \/ GiveUpCopy \/ RebuildColumn \/ Concatenate
  \/ UnknownChecksum \/ BadChecksum \/ GoodChecksum
  \/ NoDecoder \/ DecompressionFails \/ DecoderRaises \/ Deliver \/ Fail

\* The call runs to its end once made: nothing in it waits.
Spec == Init /\ [][Next]_vars /\ WF_vars(Next)
-----------------------------------------------------------------------------
(* Correctness.                                                            *)

Done == pc = "done"
Regular == bp.kind = "regular"

\* The columns of copy i that give no bytes.
Gone(i) == {c \in Data \cup Parity : Pread(i, c) = None}

\* Copy i still determines the block: all of its data can be read, or all but
\* one column of it and the parity that replaces it.
Intact(i) ==
  /\ i \in bp.dvas
  /\ \A c \in Data : Pread(i, c) \in {"good", None}
  /\ \/ Gone(i) \cap Data = {}
     \/ \E c \in Data : Gone(i) = {c} /\ NParity = 1 /\ Pread(i, 0) = "good"

\* No data is invented: what read_block() hands out under a success status is
\* what ZFS wrote, whatever is unplugged, unreadable, stale or rebuilt.
\* (checksum=off is the exception: verify() accepts any bytes then.)
NoInvention ==
  Done /\ status \in OkStatuses /\ bp.checksum # "off" => data = "good"

\* A copy that determines the block is enough: neither the copies tried before
\* it nor the order of the errors met on the way makes read_block() miss it.
FindsIntactCopy ==
  Done /\ Regular /\ bp.decoder /\ bp.checksum = "computed"
       /\ (\E i \in bp.dvas : Intact(i))
    => status \in OkStatuses /\ data = "good"

\* MISSING_DATA means lost for good: no copy has enough columns left, so no
\* other outcome (a bad checksum, a missing decoder) hides behind it.
MissingMeansLost ==
  Done /\ status = "MISSING_DATA" /\ NParity = 1 =>
    \A i \in bp.dvas : Gone(i) \cap Data # {} /\ Cardinality(Gone(i)) > 1

\* RECOVERED_WITH_RECONSTRUCTION is said of the copy that was delivered, never
\* of one abandoned before it: the report counts rebuilt blocks on it.
RebuiltMeansRebuilt ==
  Done /\ Regular /\ status \in OkStatuses =>
    (status = "RECOVERED_WITH_RECONSTRUCTION" <=> Gone(copy) \cap Data # {})

-----------------------------------------------------------------------------
(* The abstract specification it implements.                               *)

\* What is left of the block determines it.
Readable ==
  \/ bp.kind = "hole"
  \/ bp.kind = "embedded" /\ bp.decoder
  \/ /\ Regular
     /\ bp.decoder
     /\ bp.checksum # "unsupported"
     /\ \E i \in bp.dvas : Intact(i)

\* There is a checksum to tell what was read, or no need of one.
Checked == Regular => bp.checksum # "off"

\* What the caller sees of the call.  An exception is a refusal too.
Outcome ==
  CASE pc \notin {"done", "raised"}                          -> "pending"
    [] Done /\ status \in OkStatuses /\ (Checked => data = "good")
                                                             -> "delivered"
    [] (Done => status \notin OkStatuses) /\ pc \in {"done", "raised"} /\ data = None
                                                             -> "refused"
    [] OTHER                                                 -> "wrong"

Source == INSTANCE BlockSource WITH readable <- Readable, checked <- Checked,
                                    outcome <- Outcome

\* read_block() delivers the block when the geometry, the devices and the
\* media leave a way to it, refuses when they do not, says so by its status
\* and does one of the two in the end.
ImplementsSource == Source!Spec
=============================================================================
