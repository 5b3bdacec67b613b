# A TLA+ model of zfsrescue

`zfsrescue` reads the members of a damaged raidz1 pool, read-only, rebuilds
what parity can rebuild, and extracts the files to another file system. This
directory holds its specification: TLA+ modules translated from the Python
sources, TLC configurations that check them on small instances, and TLAPS
proofs of the properties that matter most.

Paths below are relative to `src/`; module names end in `.tla`.

## 1. Inventory

| Component | Source | State | Operations | Talks to |
|---|---|---|---|---|
| RAIDZ geometry | `zfsrescue/raidz.py` | none (pure) | `raidz_map_alloc`, `io_size_for_psize`, `raidz_asize`, `analyse_availability` | called for each copy of a block by block reading |
| Block reading | `blockio.py`, `checksum.py`, `compress.py` | one call: the copy tried, its columns, attempts, status | `read_block`, `read_dva_physical`, `reconstruct_raidz1` | preads the devices; called by the DMU |
| DMU | `dmu.py`, `blkptr.py` | the cache of indirect and dnode blocks | `block_pointer_for`, `read_object_block`, `iter_dnodes` | calls `read_block`; called by ZAP, DSL, ZPL, extraction |
| Opening a pool | `pool.py`, `topology.py` | devices open, topology, uberblock chosen | `open_pool`, `scan_devices`, `build_topology`, scope checks | labels, uberblocks |
| Labels, uberblocks | `label.py`, `uberblock.py`, `nvlist.py` | none | parse four labels and their rings; choose the best uberblock | |
| DSL | `dsl.py` | tree of datasets | walk the hierarchy; scan for orphan file systems | DMU, ZAP |
| ZPL | `zpl.py`, `zap.py` | SA layouts, index of nodes | attributes, rebuilding of paths | DMU |
| Extraction | `extract.py` | the destination directory | read a file block by block, place it, clean, resume | DMU; writes the only files the tool writes |
| Commands | `cli.py` | the JSON report | `extract`, `trier`, and read-only commands | all of the above |
| Partition table, devices | `parttable.py`, `readonly.py` | file descriptors | find members in whole disks, `pread` | |
| Live system | `live/` | | boot image that never writes to the disks | |

The tool runs as one thread, so nothing interleaves inside a run. What is hard:

* **Errors on the way.** A column fails after the geometry said it could be
  read; a copy is stale or silently wrong; a decoder is missing. The next copy
  must then be tried, and no trace of the failed one may remain in the answer.
* **Boundaries of the geometry.** Wrap around the devices, rotation of parity
  each MiB, padding, short rows: an error shows at some alignments only.
* **Crashes and successive runs.** Extraction takes hours, is killed, resumed,
  run again with other disks or options, on a destination that keeps what the
  earlier runs left, then sorted by a report that may be out of date.
* **Damaged metadata.** Cycles, missing parents, wrong sizes, stale uberblocks:
  each reader must end, and say what is lost rather than make it up.
* **Disks with a past.** A disk was in another pool, was replaced, copied or
  repartitioned: labels of several lives lie side by side, at offsets that only
  their checksum tells apart.

What makes each component correct: no two blocks share a sector and the
verdict on losses is exact (geometry); nothing is invented and an intact copy
is always found (block reading); only verified files are put at the paths of a
dataset, nothing recovered whole is lost, the report tells the truth
(extraction); the
blocks a descent reaches are those of the object whatever the cache holds (DMU);
walks end on any metadata, hide no readable file and give no name, path or
attribute that is not true (DSL, ZPL); four labels are read whatever one holds
(labels); columns are read from where ZFS put them, in the newest state that can
be read (opening).

## 2. Modules

| Module | Role |
|---|---|
| `Raidz` | geometry as operators: sizes, columns, rotation, verdict, XOR |
| `RaidzVdev` | a vdev in use: blocks reserved one after the other, devices lost and returned |
| `RaidzTheorems`, `RaidzVdevProofs` | lemmas on the operators; theorems about `RaidzVdev` |
| `BlockRead` | `read_block()`, one action per step, on the geometry of `Raidz` |
| `BlockSource` | abstract: a block is delivered if what is left determines it, refused if not |
| `BlockReadProofs` | invariants of `BlockRead` and its refinement of `BlockSource` |
| `Extract` | destination and report over several commands: `cmd_extract`, `cmd_trier`, `extraire_noeuds` |
| `ExtractProofs` | what the destination holds, for any files, options and number of commands |
| `Dmu` | `DmuReader`: from an object and a block number to the block, through the bounded cache |
| `DnodeWalk` | the generator `iter_dnodes()` on top of `Dmu`, its consumer reading through the same cache |
| `DnodeWalkProofs` | exactness of every answer, the cache, the walk, for every tree |
| `LabelRead` | `read_all_labels()` and the nvlist decoder, word by word |
| `LabelReadProofs` | the decoder on every buffer |
| `PoolOpen` | `scan_devices()`, `build_topology()`, `open_pool()`: supports, windows, labels, uberblocks, MOS |
| `PoolOpenProofs` | what is opened, for any supports, tables, damages and command lines |
| `Zap` | `read_zap()` as operators on objects of which blocks are lost |
| `SystemAttributes` | `read_sa_table()`, `parse_sa_bonus()`, the inference of a lost layout |
| `Datasets` | the hierarchy of datasets, the scan of the MOS, the choice of datasets by a command |
| `FileIndex` | `build_index()`: sweep, names, paths |
| `Namespace` | composition: from the MOS to the files handed to the extraction |
| `NamespaceProofs` | names, paths, attributes and completeness, for any objects, losses and command |
| `MCBlockRead`, `MCExtract`, `MCDnodeWalk`, `MCLabelRead`, `MCPoolOpen`, `MCNamespace` | values of constants for TLC |

`BlockRead` EXTENDS `Raidz`, so the block reader computes columns and verdicts
with the operators the geometry proofs are about. `Extract` takes the outcome
of each block (`readable`) as an input of the run: it relies on block reading
only through what `BlockSource` states; so does `Dmu`. `Namespace` composes
`Datasets`, `SystemAttributes` and `FileIndex` on the objects of `Zap`: one
command finds datasets, then builds the index of each before the next one, as
the generator `_datasets_zpl()` and its consumer do; what it hands out is what
`Extract` calls files. It reads objects through what `DnodeWalk` and `Dmu`
promise: each dnode once, each block right or lost.

Operators named `X_Something` next to a definition `X` are mutants: what a
plausible mistake would make of `X`. They are used by no specification; each
shows that a property notices the mistake.

### Correspondence with the code

*Raidz.* Names follow `raidz_map_alloc`: `FullRows`, `Remainder`, `BigCols`,
`Total`, `AccessedCols`, `StripeCols`, `Skipped` are `q r bc tot acols scols
nskip`. Offsets are counted in sectors; `psize` in 512-byte units, as in a
block pointer, so that rounding to sectors is modelled. Rotation is written as
the permutation `Place` of the first two columns, where the code swaps two
records. Contents are one bit per sector: XOR treats each bit alone.

*RaidzVdev.* `Allocate` is not code of the tool: it places blocks the way the
sizes in block pointers (`raidz_asize`) say ZFS reserved them, in order to
relate the geometry of a block to its neighbours. `LoseDevice` and
`ReturnDevice` change the keys of `PoolReader.devices`.

*BlockRead.* Variables are the local variables of `read_block` and
`read_dva_physical` (`copy` is `i`, `cols` is `colonnes`, `rebuilt` is
`att.reconstructed_columns`, `attempts` the statuses of `resultat.attempts`,
`status` is `resultat.status`). A column is worth "good", "bad" (any other
bytes) or none. `verify()` is reduced to three kinds of algorithm: computed,
skipped (`inherit/on/off/noparity`), unknown. A computed checksum accepts good
bytes only: collisions are left out. Bytes a checksum vouched for decompress;
bytes nothing vouched for may also fail to, with the error the code reports
(`DecompressionFails`) or one it lets through (`DecoderRaises`: `ZstdError`
and `IndexError` are no `DecompressionError`).

*Extract.* `fs` is the destination, `dirs` the directories in it that could
stand in the way of a file, `report` the JSON file, `results` the results in
memory. Bytes are abstracted to `[of, good, len]`, lengths counted in half
blocks: a size may end within a block. `StartRun` picks options and what the
disks of this run can yield: blocks of the files (`readable`), and attributes,
without which the size of a file is unknown (`size`). `Cut` is what the size
leaves of the last block, `Image` what is written of a file of which every block
is valid. "conflits" is the directory `_conflits` of a dataset: it lies in the
main tree. `Open`, `WriteBlock` are
`extraire_fichier`; `DropLost`, `DropIncomplete`, `Place`, `PlaceFlat`,
`Clean` the cases of `extraire_noeuds`, in its order; `Truncate`, `Dump`,
`LastDump` the two steps of writing the report, after each dataset and at the
end; `StartTrier` to `TrierEnd` are `cmd_trier`. `WriteFails` is the exception
that `_echec` records, `DestinationFails` the one nothing catches, `Crash` the
process killed between any two steps.

*Dmu.* `readable` says which blocks `read_block` can deliver, `cache` the keys
of `_cache` in order, `bytes` is `_cache_bytes`, `want` `blkid`, `ptr` `bp`.
A pointer is its level and number, so the index computed at each level decides
which pointer comes next; data is named after its pointer, zeros apart. An
indirect block holds `Entries[p]` pointers, fewer than `Epb` when it is short.
The cache is keyed by the whole
block pointer, checksum included, so an entry is the block of its key.
Failures carry no bytes (`read_block` returns them without data), so their
weight is null and they are never kept. `Glitch` makes blocks unreadable or
readable again, between calls.

*DnodeWalk.* `wblk`, `block`, `slot` are `blkid`, `b`, `i` of the generator,
`out` what it yielded of the block. `OtherCalls` is whoever consumes it
(`read_dnode`, contents of files, `zpl.py:625`, `dsl.py:199`), between any two
dnodes.

*LabelRead.* `pos` is `r.pos`, `buf` the words looked at so far: a word is
chosen when it is first read and kept, so a run goes through every buffer over
the sets of words given. `lists` is the stack of `_parse_body()` calls, `left`
what `_read_value()` still has to read. `Break` is `NvlistError`, "unexpected"
any other exception (`RecursionError` beyond `MaxDepth` lists). Types are the
numbers of nvpair, grouped by the width of their elements; names are not looked
at. `ClosePair` is the resynchronisation on `encoded_size`, always taken: the
`if` of the code only skips an assignment that would change nothing.

*PoolOpen.* The unit is a label (256 KiB). `Written` lists the vdevs ZFS wrote
on a support, one life after the other; `Stored` is what is left of their
labels, `Verifies` the checksum that covers the offset of the region. `Window`
and `Opens` are `ReadOnlyDevice.__init__`, `Candidates` the partitions tried
with their rank, `try` those that are left. `topo` is the label retained,
`devices` the dictionary of columns, `jeu` the uberblocks, `open` the
descriptors. `CannotOpen` is an exception nothing catches. `CopyReadable` says
what a copy of the MOS needs: its data columns, or, in a raidz1 only, enough
parity for those that are missing, and no column used that was left behind.
`StepBack` is not code: it is the user who runs the command again with
`--txg`, as `docs/etape10_procedure_reelle.md:187` says.

*Zap, SystemAttributes.* An object is a record, a ZAP the sequence of its
blocks. `Read` takes the blocks lost; micro block, header and leaves are those
of `read_zap()`, a leaf met twice gives its entries once. Attributes are counted
in words: `body` says where ZFS wrote each attribute, `Parsed` where a layout
and a registry make the code look, and `At` gives the attribute that occupies
exactly those words, or `Garbage`. Garbage is taken to pass
`valider_attributs()` when the object is `plausible`: the worst case.

*Datasets.* `pending` is the stack of the descent (calls of `_noeud()`, or
`a_voir` of the scan), `nodes` the datasets met, `trouble` what `n.errors` say.
The tree is built twice by a command, from the same disks: once here. A name is
a sequence of directories and a snapshot, or the number of an object; a filter
gives a number or a name, compared with the name that the tree or the scan has
found. `ReadBonus` asks for the type of the bonus where `read_dsl_dir()` only
looks at its size: a directory is only read at a number that a directory gives,
and `MosAssumption` says that ZFS puts directories and datasets there.

*FileIndex.* `idx` is `idx.nodes`, `climb` a call of `chemin()`, its `vus` that
set. `PathOfRoot` also takes the root's name away and, when the master node is
lost, makes the first root found the root of the index, as the loop does.

## 3. Runs

| Run | Question | Instance |
|---|---|---|
| `RaidzZ1` | Do blocks overlap, are reservations, verdicts and reconstructions exact? | raidz1, 4 disks, 2 units per sector, two blocks of 1 to 5 sectors, gaps 0..5, rotation every 3 sectors |
| `BlockRead` | What does `read_block` answer, under which status, and is that what `BlockSource` promises? | raidz1, 3 disks, 2 copies (one wraps, one is rotated), blocks of one and two sectors |
| `ExtractApart` | Does what was recovered survive crashes, resumed runs, other disks and options, sorts? | two datasets, files of 2 and 1 blocks, one ending within a block, one null, sizes known or not in each run, 3 commands |
| `ExtractNested` | And when paths conflict and partial files are mixed in? Does each command end? | files of two blocks, the path of file 2 goes through file 1, sizes known, 3 commands |
| `DnodeWalk` | Does every read reach the right block, is the cache sound, is every object reported? | three levels, 9 blocks, holes at two levels, a short indirect block, a cache of two entries, 3 changes of what is readable |
| `LabelRead` | Does the decoder stay in its buffer, follow the sizes, and end? | two labels of 17 words, sizes -1, 0, 5, 7, 9, seven types, lists two deep |
| `PoolOpen` | Is what is opened what the disks hold and the report says? | 15 supports, four pools of which one is a raidz2, 17 lists of supports, with and without partitions and offset, 32 sets of damages |
| `Namespace` | Is every readable file found, under a true name, path and attributes, and does the search end? | 4 objsets, two hierarchies of which one loops, with and without scan, no filter, a number, two names, any two losses of 18 |
| `FindSparse`, `FindPrefix`, `FindReportLost`, `FindConflicts`, `FindPadded`, `FindNvlistLoop`, `FindRaidz2`, `FindHiddenByName`, `FindTooDeep` | See section 6 | the instances above, or smaller ones |

Bounds. `MaxBlocks = 2` is enough for `NoOverlap`, a property of pairs; gaps
and sizes place the second block at every offset modulo the disks and in both
orientations of parity. Five sectors on four disks give full rows, short rows,
and padding. Two copies are enough for "an earlier copy, then this one"; three
disks for one parity and two data columns, so that one and two losses, of data
or parity, are all met. Three commands are a run, another, then a third or a
sort: a stale result needs two runs, and a sort of a conflict needs two before
it. Two blocks are the least for a partial file, half a block the least for a
size that padding changes. `MaxRuns`, `MaxBlocks`,
`MaxGap`, `MaxPsize` only bound the instances; the proofs hold for all values.

Three levels are the least for an indirect block whose index must be reduced;
nine blocks make the last one exceed the pointers of the dnode. A cache of two
entries holds exactly the indirect blocks of a path, so one more entry must
evict the right one. `MaxGlitches = 3` lets a block be lost, found and lost
again.

Seventeen words hold a list in a list, or two pairs and the end of a list, with
room for values that end before, at and after the next pair; two labels are the
least for one to stand in the way of another. Sizes -1 and 0 go back or stay, 5
is the smallest pair, 7 and 9 end past a value or past the buffer.

The supports of `PoolOpen` are a disk used whole, one in a partition that ends
with the disk, one replaced, one that stayed behind, a copy, a disk of an
earlier pool, disks of other pools, and disks that hold nothing or cannot be
opened; three columns and one parity let one and two be missing, the raidz2 one
of its four, with data on a missing column or on none. In txg 8 the
clock goes back and the MOS has fewer copies, so that the newest uberblock, the
latest and the newest readable differ.

`Namespace` has, once each, what makes a path or a name doubtful: a file in two
directories, one in none, an entry without object, attributes in four layouts,
parents that loop, a snapshot listed twice, a hole, a hierarchy that loops. Two
losses are the least for a directory and the attributes that would replace it.
`MaxDepth` is 32 in the code; 2 lets the limit be met.

All actions of the specifications happen in passing runs. Deadlock
checking is off for `RaidzVdev`, `BlockRead`, `Extract`, `LabelRead` and
`PoolOpen`, where blocks, calls and commands do come to an end, and on for
`DnodeWalk` and `Namespace`, which rests once its command has returned.

Fairness. `WF_vars(Next)` in `BlockRead` and `LabelRead`: a call of one thread
that waits for nothing runs to its end. `WF_vars(Step)` in `Extract`: the same
of a command, `Step` leaving out crashes, failures and the start of commands.
`Fairness` of `Namespace` is `WF_vars(Next)` too, with `ENABLED <<Next>>_vars`
written out as the negation of `Ended`: every step but `Rest` changes the
state, and the run without deadlock shows that one is always possible.

## 4. Properties

*RaidzVdev*: `NoOverlap`, `LayoutTiles` (the columns are exactly the interval
of the linear space, and the two ways the code has to compute a reservation
agree), `FewLossesSurvivable`, `VerdictExact`, `ReconstructExact`.

*BlockRead*: `NoInvention`, `FindsIntactCopy`, `MissingMeansLost`,
`RebuiltMeansRebuilt`, `ImplementsSource`.

*DnodeWalk*: `AnswerExact` (the right block, zeros only under a hole, a refusal
only with a reason of the moment: no trace of earlier failures or of what the
cache dropped), `CacheAccounted`, `PathKept` (the path just followed is in the cache,
which is what the eviction order is for), `WalkExact`.

*LabelRead*: `TypeOK` (no size, length or count sends the reader out of its
buffer), `ListsAreChains` (the pairs of a list are those `encoded_size` chains
together, whatever their values were), `EndsOutsideEmptyPairs` (all labels get
read, or the decoder has entered a pair of size zero: section 6).

*PoolOpen*: `TypeOK` (windows lie in their support), `RightOrigin`,
`ReportedIsRead`, `NoStrayDescriptor`, `NewestReadable` (when the uberblocks
found are of one pool, possibly after going back txg by txg), `PromiseKept` (a
report that promises every stripe of a raidz1 is not belied by the MOS).

*Namespace*: `ReadableIsOffered` (a scan hands out all that can be read of what
the command asks for, by number, or by the name the scan finds; the descent
all the heads, or it has warned or met its limit of levels),
`NamesTrue`, `PathsTell` (a path leads to its object, from the root or from the
object that a number or a mark tells, and two files of a dataset never share
one), `AttributesTrue`, `NamespaceEnds`.

*Extract*: `OnlyVerifiedPlaced` (a run that keeps partial files apart puts
nothing else than whole files at the paths of a dataset; what it puts in
`_conflits` may be partial), `ReportMatchesDisk`, `WholeStaysWhole` (a whole
file keeps all its blocks; only the end of the last one may change, when one
run knows the size and the other does not: section 6), `WorkIsNotRedone`,
`CommandsEnd`. A file is whole when every block of it is there for real, cut
at its size or, by a run that did not know it, at its last block.
`WholeStaysWhole` and `WorkIsNotRedone` except files that hold only zeros on
the pool: the tool cannot tell them from the shells of earlier versions and
says so.

## 5. Proofs

All theorems hold for every value of the constants that meets the assumptions
named in the modules. `RaidzAssumption` is what `raidz_map_alloc` checks before
it starts (at least one parity column, more devices than parity);
`VdevAssumption`, `BlockReadAssumption`, `ExtractAssumption`, `WalkAssumption` and
`LabelAssumption` only give types; the others say how ZFS lays out what is read,
and are given below with the proofs that use them.

* `RaidzTheorems`: division and rounding; a column number and a sector of it
  correspond to one sector of the interval (`FootprintTiles`), for rotated rows
  too; the two computations of the reservation agree (`ReservationExact`);
  distinct columns lie on distinct devices (`DistinctDevices`); the verdict in
  terms of the number of lost columns (`VerdictOf`); XOR of a set and of the
  set without one element (`XorCancels`).
* `RaidzVdevProofs`: all six properties of `RaidzVdev`. Only `NoOverlap` needs
  an invariant: `Reserved` says that blocks occupy disjoint intervals below
  `free`. With `FootprintTiles` disjoint intervals give disjoint sectors. The
  others follow from types and the lemmas.
* `BlockReadProofs`: the invariant is `IInv == TypeOK /\ Control /\
  ColumnsHeld /\ Tried`. `Control` says what each step was reached with,
  `ColumnsHeld` that `cols` holds what was read of this copy, that verified
  bytes are good and come from an intact copy; `Tried` that every copy before
  the current one was not intact, and that one found MISSING_DATA has indeed
  lost too many columns. The four invariants follow, and so does
  `BlockReadImplementsSource`: initial states map to initial states, each step
  to a step of `BlockSource` or to a stutter.
* `DnodeWalkProofs`, on the answers: `WalkAnswerExact`. `AnswerExact` speaks of
  answers only; the invariant adds `Descending`: during a descent `ptr` is the
  pointer of its level over the block wanted, and above it no pointer is a hole
  and no index beyond its block. Going down one level is `DivideTwice`: dividing
  by the span of a level is dividing by that of the level below, then by `Epb`.
  The cache takes no part in the argument, which is why it cannot change an
  answer. Assumptions: `SpanAssumption`, `DmuAssumption`.
* The same module, on the cache: `WalkCacheAccounted` and `WalkPathKept`. Weights
  are summed as the cardinality of a set of bytes (`BytesOf`), so that adding or
  evicting a block is a disjoint union. `Recent` says that the blocks of the
  path followed so far are the last ones of the cache: an eviction that reached
  one would have dropped all the others, and these are within the limit.
* The same module, on the walk: `WalkReportsExactly` (`WalkExact`) and
  `WalkTypes`. `LayoutAssumption` says how ZFS lays dnodes out: none starts inside
  another and none crosses the end of its block. `Yielded` says what was yielded
  of the slots gone past, and that no dnode goes on over the slot the generator is
  at: `WalkExact` only speaks of the end of a block.
* `ExtractProofs`: `ExtractTypeOK`, `ExtractOnlyVerifiedPlaced`,
  `ExtractWholeStaysWhole`, `ExtractReportMatchesDisk`,
  `ExtractWorkIsNotRedone`. The invariant adds to the types `Control` (at which
  step the file at hand is), `Owned` (what is at a place belongs to its path or to
  its file) and `Working` (what the temporary file holds, block by block, then
  the file put in place: `OnlyVerifiedPlaced` says nothing of a file before it gets
  there). `WholeStaysWhole` is about destinations where no run uses `--melanger`; it
  also needs the report never to call partial a file of the main tree
  (`PartialApart`), since `cmd_trier()` moves what the report names;
  `ReportMatchesDisk` needs each result to hold at any moment of a run, at a
  place of its own (`Told`). These two assume `PathsDistinct`, no two files
  having the same path: `FindPrefix` shows what happens otherwise. `MarkAssumption`
  only says that the values that mark an absence are none of what they stand for.
* `PoolOpenProofs`: all six properties. `SInv` follows the scan: positions and windows kept
  are those of the command line, the descriptors open are theirs and the one of
  the support being tried. Then the state is a function of what was scanned
  (`Found`: topology, columns and uberblocks; `PromiseKept` follows from it by
  counting the columns a copy lacks, for a raidz1), and `Newest` says that every
  uberblock newer than the one chosen was tried and its MOS unreadable: going back
  reads the same disks again, finds the same and passes over none. Extrema of
  finite sets of numbers (`LeastExists`, `GreatestExists`) replace induction.
  `SupportAssumption` says what may be on the supports: any vdevs in any order,
  whose guids belong to one pool, and pools whose states are numbered from 1
  and whose MOS lies in columns they have.
* `LabelReadProofs`: `LabelTypes` and `LabelListsAreChains`, for any buffer and
  any depth. The invariant says of each list of the stack that its pairs are
  chained (`Chained`) and, of each but the innermost between two pairs, that the
  pair it is in was checked to end in the buffer (`Begun`): that is what is left
  of the check when the pair is closed, after any number of lists were decoded
  inside it. It rests on words already read being kept (`Grows`).

* `NamespaceProofs`: all five safety properties.
  `NamesTrue` rests on `FindInv`: each directory waiting is at the end of the
  names it is kept under (`OnTheWay`), and so are those the scan has named
  (`NamesGood`). A list cut short may hide a child but names none wrongly.
  `PathsTell` rests on `IndexInv`: a node has a name only from a directory that
  gives this name to its object (`NodesGood`), and `Climbing` says that what was
  climbed so far leads from the object reached to the one that waits.
  `AttributesTrue` rests on `AttributesInv`: a layout kept is one ZFS wrote or one
  of the candidates, and the registry, which is one block, is read whole or not at
  all; in both cases the four attributes are where ZFS put them (`EndsIs`).
  `ReadableIsOffered` needs to know of what is *not* there. `CompleteReadsAll` says
  that a ZAP found complete gave every entry of every leaf; then `WalkInv` says
  that some set of directories has been visited, each with the path it was reached by
  (`Walked`), each of whose children is in it or waits under its own name, as long as
  no trouble was met. When nothing waits any more it holds every directory of the MOS
  (`AllVisited`) and every name asked for that leads to one (`AllNamesMet`): a filter
  by name meets the name the dataset has in the pool. `OfferInv` follows
  the chosen datasets and their nodes until they are handed out, `OnceInv` says
  that a scan takes no dataset twice.
  Assumptions: `ObjectsAssumption` (objects are numbered from 1, a name has
  one value in a ZAP, entries are in its leaves or its one micro block),
  `MosAssumption` (directories lead to directories and heads are datasets,
  every directory of a MOS is below its root, snapshots have names, datasets
  have an objset), `CommandAssumption` (a name asked for is a sequence of
  directories), `DirectoryAssumption` (directories name objects; only the root
  holds itself), `AttributeAssumption` (layouts begin with the four attributes
  all files have, of one word each, which is where ZFS put them in a bonus).
  `Descent`, `Followed` and `Ends` are recursive functions: that they exist is
  shown with the least number for which they would not (`LeastExists`).

Only model-checked: liveness (`CommandsEnd`, `EndsOutsideEmptyPairs`,
`NamespaceEnds`, the fairness part of `ImplementsSource`), which the prover does
not handle.

## 6. Divergences between the code and what is said of it

Each has a configuration by which TLC finds it, named here: four of them are runs
of `PROJECT.json` (`FindPrefix`, `FindReportLost`, `FindPadded`, `FindNvlistLoop`); the
others go with `MCExtract` (`FindSparse`, `FindConflicts`), `MCPoolOpen`
(`FindRaidz2`) and `MCNamespace` (`FindHiddenByName`, `FindTooDeep`).

* `FindSparse`: the extraction ends at the last block of the dnode, so a file
  enlarged without being written is COMPLET and shorter than its size, where
  `scripts/50_validate_recovery.py:8` wants it identical bit for bit.
* `FindPrefix`: datasets `p/a/b` and `p/a_b` share the directory `p_a_b`; files
  of the same name overwrite one another and stay COMPLET in the report.
* `FindReportLost`: the report is truncated, then written; a kill in between
  loses what `docs/etape7_8_extraction.md:251` says an interruption keeps.
* `FindNvlistLoop`: a pair of `encoded_size` 0 and `decoded_size` other than 0
  passes the check of `nvlist.py:217`; once decoded, the reader is sent back to
  its start (`nvlist.py:236`) and decodes it again, for ever, the list of pairs
  growing. The nvlist is decoded even when the checksum is wrong, so a damaged
  label is enough to stop a reading that, says `label.py:192`, none ever stops.
* `FindConflicts`: a file whose path is refused, partial or not, goes to
  `<destination>/<dataset>/_conflits` (`extract.py:286`), in the tree announced as
  verified (`docs/etape7_8_extraction.md:38`); line 40 of the same page has it in
  `<destination>/_conflits`.
* `FindPadded`: the size of a file is read from the attributes by each run. When a
  run cannot tell it, the file is written up to the end of its last block, is
  COMPLET, and replaces the exact one of an earlier run (`extract.py:265`), where
  `docs/etape9_validation.md:17` wants a COMPLET file identical to the original.
  A resumed run that cannot tell the size keeps whatever is at the path.
* `FindRaidz2`: `recoverability_summary()` says of a raidz2 with up to two disks
  missing that every stripe can be rebuilt (`topology.py:417`);
  `read_dva_physical()` rebuilds with one parity only (`blockio.py:173`). Such a pool
  is announced as out of scope (`topology.py:395`), next to the promise.
* `FindHiddenByName`: `extract --scan --dataset <name>` compares the name with the
  one the scan found (`cli.py:423`); when the list of children is lost that one is
  synthetic, the dataset is skipped, and nothing says so (`cli.py:804` speaks of
  commands without `--scan` only), where `cli.py:936` promises a name or a number.
* `FindTooDeep`: beyond 32 levels `_noeud()` says "profondeur maximale atteinte"
  (`dsl.py:313`), words `_hierarchie_tronquee()` does not look for, so datasets are
  missing without the warning its docstring promises (`cli.py:390`). The limit is 1
  in the run.

Others were met while modelling and have no run of their own. A whole file in
`_conflits`, or a better partial file in `_partiels`, may be replaced by a worse
one of a later run: nothing compares them. Without `root_dataset`,
`build_tree()` raises a `ValueError` no command catches, where a scan would have
helped. The descent has no set of directories seen: on a hierarchy that loops
only the depth ends it, after as many visits as there are paths. Labels left on
the whole of a disk hide a vdev in one of its partitions (`topology.py:228`). A
foreign disk whose label or uberblock is newer than those of the pool makes the
opening fail ("MOS illisible"), and `inconsistencies`, which says so, is not
among the warnings of `open_pool()`. Two supports of one guid are reported as
`inconsistencies` only; the last one is read. When the registry of attributes is
lost and the header of a bonus has room to spare, unknown attributes are read
with lengths that are none, without an error: only those before them are right,
which is what `AttributesTrue` says. With `--no-fill`,
a file whose first block is lost is PERDU ("aucun bloc lisible",
`extract.py:365`) though later blocks may be readable. `_deja_extrait` skips
the check for null files when the size is unknown (`extract.py:247`), against its
docstring. `_nettoyer_coquilles` does not look into `_perdus`. `_ranger` raises
on a full destination and the extraction ends, where
`docs/etape7_8_extraction.md:172` says it goes on. `trier` moves by the report:
a file made whole by a later run is moved if an older report calls it partial.
A block whose checksum is off is RECOVERED with `checksum_ok` whatever it
holds, against `blockio.py:17`.

## 7. What is left out

* `--dry-run` and analysis without destination (they write nothing),
  `trier --melanger` and `--dry-run`.
* Paths that leave the destination (`extract.py:386`), and a flat path refused
  in its turn (`extract.py:397`): names in `_conflits` hold the object number
  and meet no conflict.
* In `Extract`, the path of a file and the list of files are those of every run,
  though parents and dnodes lost with other disks, or another `--txg`, change them;
  a size inferred from a wrong layout (a run knows the size or does not).
* Runs without `--json` (no report), datasets that cannot be read (no files).
* Reordering of writes by the file system: a rename is kept once made.
* Contents of checksums and decompressors, misaligned block pointers (their
  ValueError reaches `Extract` as `WriteFails`).
* `read_object` (nothing calls it), `vider_cache` (tests only), dnodes whose
  fields contradict one another (`indblkshift` below 7 raises ValueError), a
  device lost in the middle of a descent.
* In `LabelRead`: bytes of names and values; the numbers of `consts.py`.
* In `PoolOpen`: byte order, `guid_sum`, expansion and scope warnings, several
  top-level vdevs, reading through columns damaged after the opening.
* In `Namespace`: chunks of a leaf, sorting of what is printed, sparse files
  (whose size fails `valider_attributs()`), hash collisions, a directory that
  damaged attributes make its own parent (it would pass for a root), a file
  whose true name is `objet_N`; attributes whose length is not a multiple of 8
  bytes, and layouts that do not begin with the attributes all files have (those
  of zfs_mknode() do, so a wrong choice among them cannot shift these, and
  `AttributesTrue` would not notice one that did); `ZplReader.walk()` and `node()`, which no command
  calls; DslScan counters.
* Reports and constants (`report.py`, `consts.py`, `zfs_enums.py`), the live
  system and the scripts: presentation, tables, configuration of other programs.

## 8. Plan

Order: what decides whether data is right first, then what decides whether it
is found.

1. (done) `Raidz`, `RaidzVdev`, `BlockRead`, `BlockSource`, `Extract`, and the
   proofs of the first two components; `Dmu`, `DnodeWalk`, `WalkAnswerExact`.
2. (done) `LabelRead`; `PoolOpen`; `Zap`, `SystemAttributes`, `Datasets`,
   `FileIndex` and their composition `Namespace`.
3. (done) proofs of `DnodeWalk`, `Extract`, `PoolOpen`, `LabelRead`, `Namespace`.
4. A walk as the abstract table of the objects of a file system, with a
   refinement and its proof.
5. Chunks of a ZAP leaf, bytes of partition tables, the reordering of writes by
   the file system of the destination.
