------------------------------ MODULE Extract ------------------------------
(***************************************************************************)
(* The destination of an extraction: src/zfsrescue/extract.py, and the     *)
(* extract and trier commands of cli.py that drive it.  Runs follow one    *)
(* another on the same destination, with other options and other disks     *)
(* plugged in, and any of them may be killed between two writes.           *)
(*                                                                         *)
(* A length is counted in half blocks: a size may end within a block.  The *)
(* bytes of a file are abstracted to [of, good, len]: the node they come   *)
(* from, which of its blocks are there for real (the others are zeros),    *)
(* and how many half blocks were written.                                  *)
(***************************************************************************)
EXTENDS Integers, FiniteSets

CONSTANTS
  NFiles,       \* files of the index, numbered in the order of extraction
  Dataset,      \* file -> number of its dataset
  Target,       \* file -> (prefixe, rel), its path under a tree
  Ancestors,    \* target -> targets that are directories of its path
  NBlocks,      \* file -> blocks its dnode has (maxblkid + 1)
  Length,       \* file -> size of the file on the pool, in half blocks
  Sized,        \* sets of files whose size the disks of a run may tell
  NullBlocks,   \* file -> blocks that hold zeros on the pool
  Options,      \* option sets the runs may use
  MaxRuns,      \* commands started in a behaviour (a bound of the model)
  Unknown, Absent, Nowhere, NoResult, NoReport, Truncated

Files == 1 .. NFiles
Targets == {Target[f] : f \in Files}
Blocks(f) == 1 .. NBlocks[f]

OptionSet == [fill : BOOLEAN, skip : BOOLEAN, lost : BOOLEAN, apart : BOOLEAN,
              resume : BOOLEAN]

ASSUME ExtractAssumption ==
  /\ NFiles \in Nat \ {0}
  /\ Dataset \in [Files -> Nat]
  /\ \A f \in Files \ {NFiles} : Dataset[f] <= Dataset[f + 1]
  /\ NBlocks \in [Files -> Nat \ {0}]
  /\ Length \in [Files -> Nat]
  /\ Sized \subseteq SUBSET Files
  /\ NullBlocks \in [Files -> SUBSET Nat]
  /\ Ancestors \in [Targets -> SUBSET Targets]
  /\ \A t \in Targets : t \notin Ancestors[t]
  /\ Options \subseteq OptionSet
  /\ MaxRuns \in Nat

\* The trees of the destination: "main" is <dest>/<prefixe>, "conflits" its
\* subdirectory _conflits.  A file of "conflits" or "temp" is named after its
\* object, the others after its path.
PathTrees == {"main", "partiels", "perdus"}
Places == (PathTrees \X Targets)
            \cup ({"conflits", "partiels_conflits", "temp"} \X Files)

Main(f)     == <<"main", Target[f]>>
Partiels(f) == <<"partiels", Target[f]>>
Temp(f)     == <<"temp", f>>

\* Where the last block is cut by the size s of file f, when it is known.
Cut(f, s) == IF s # Unknown /\ s < 2 * NBlocks[f] THEN s ELSE 2 * NBlocks[f]

\* What is written of f when the blocks of S are valid.
Held(f, S, s) == {k \in S : 2 * k - 1 <= Cut(f, s)}
Image(f, s) == [of |-> f, good |-> Held(f, Blocks(f), s), len |-> Cut(f, s)]

Contents ==
  UNION {[of : {f}, good : SUBSET Blocks(f), len : 0 .. 2 * NBlocks[f]] : f \in Files}

States == {"COMPLET", "PARTIEL", "PERDU", "VIDE", "DEJA_EXTRAIT"}
Outcomes ==
  [state : States, at : Places \cup {Nowhere}, size : Nat \cup {Unknown}]
Results == Outcomes \cup {NoResult}

\* The values that mark an absence are none of what they stand for.
ASSUME MarkAssumption ==
  /\ Unknown \notin Nat
  /\ Absent \notin Contents
  /\ Nowhere \notin Places
  /\ NoResult \notin Outcomes
  /\ {NoReport, Truncated} \cap [Files -> Results] = {}

VARIABLES
  fs,           \* place -> content, or Absent
  dirs,         \* places of PathTrees that are directories
  report,       \* the JSON report on disk: file -> result
  pc,           \* step of the command that runs; "idle" between commands
  runs,         \* commands started
  opt,          \* options of the run
  readable,     \* file -> blocks that can be read in this run
  size,         \* file -> its size, if the attributes read in this run tell
  cur,          \* the file at hand
  seen,         \* blocks of it read so far
  got,          \* those that were valid
  results       \* results of the run so far

run  == <<opt, readable, size>>
vars == <<fs, dirs, report, pc, runs, opt, readable, size, cur, seen, got, results>>

PCs == {"idle", "aborted", "file", "write", "place", "clean", "report", "dump",
        "final", "last_dump", "trier"}

TypeOK ==
  /\ fs \in [Places -> Contents \cup {Absent}]
  /\ dirs \subseteq PathTrees \X Targets
  /\ report \in [Files -> Results] \cup {NoReport, Truncated}
  /\ pc \in PCs
  /\ runs \in 0 .. MaxRuns
  /\ opt \in OptionSet
  /\ readable \in [Files -> SUBSET Nat]
  /\ \A f \in Files : readable[f] \subseteq Blocks(f)
  /\ size \in [Files -> Nat \cup {Unknown}]
  /\ \A f \in Files : size[f] \in {Length[f], Unknown}
  /\ cur \in 1 .. NFiles + 1
  /\ seen \in Nat
  /\ cur \in Files => got \subseteq Blocks(cur) /\ seen <= NBlocks[cur]
  /\ results \in [Files -> Results]

NoResults == [f \in Files |-> NoResult]
NoSizes == [f \in Files |-> Unknown]

Init ==
  /\ fs = [p \in Places |-> Absent]
  /\ dirs = {}
  /\ report = NoReport
  /\ pc = "idle"
  /\ runs = 0
  /\ opt \in Options
  /\ readable = [f \in Files |-> {}]
  /\ size = NoSizes
  /\ cur = 1
  /\ seen = 0
  /\ got = {}
  /\ results = NoResults

-----------------------------------------------------------------------------
(* cmd_extract(): the loop on datasets and files.                          *)

\* With other disks, other blocks can be read: those of the files, and those
\* of the attributes, without which a size is unknown (IndexedNode.size).
StartRun(o, s) ==
  /\ pc \in {"idle", "aborted"}
  /\ runs < MaxRuns
  /\ runs' = runs + 1
  /\ opt' = o
  /\ readable' \in [Files -> SUBSET UNION {Blocks(f) : f \in Files}]
  /\ \A f \in Files : readable'[f] \subseteq Blocks(f)
  /\ size' = [f \in Files |-> IF f \in s THEN Length[f] ELSE Unknown]
  /\ pc' = "file"
  /\ UNCHANGED <<fs, dirs, report, cur, seen, got, results>>

\* The command ends, one way or another: its memory is gone.
Halt(how) ==
  /\ pc' = how
  /\ readable' = [f \in Files |-> {}]
  /\ size' = NoSizes
  /\ cur' = 1
  /\ seen' = 0
  /\ got' = {}
  /\ results' = NoResults
  /\ UNCHANGED <<runs, opt>>

\* Mutant: the next file starts with the counters of this one.
Conclude_StaleCounters(state, at) ==
  /\ results' = [results EXCEPT ![cur] =
                    [state |-> state, at |-> at, size |-> size[cur]]]
  /\ cur' = cur + 1
  /\ pc' = IF cur = NFiles \/ Dataset[cur] # Dataset[cur + 1]
           THEN "report" ELSE "file"
  /\ UNCHANGED <<report, runs, run, seen, got>>

\* File cur is dealt with; the report follows the last one of a dataset.
Conclude(state, at) ==
  /\ results' = [results EXCEPT ![cur] =
                    [state |-> state, at |-> at, size |-> size[cur]]]
  /\ cur' = cur + 1
  /\ pc' = IF cur = NFiles \/ Dataset[cur] # Dataset[cur + 1]
           THEN "report" ELSE "file"
  /\ seen' = 0
  /\ got' = {}
  /\ UNCHANGED <<report, runs, run>>

-----------------------------------------------------------------------------
(* Resuming: _deja_extrait().                                              *)

Null(c) == c.good \subseteq NullBlocks[c.of]

\* _emplacements(): where an earlier run may have left the file.
Earlier(f) == {Main(f)} \cup (IF opt.apart THEN {Partiels(f)} ELSE {})

\* Those whose size is the expected one, if one is expected.
Fitting(f) ==
  {p \in Earlier(f) : fs[p] # Absent /\ size[f] \in {Unknown, fs[p].len}}

\* Mutant: _partiels is looked up first.
AlreadyThere_PartialFirst(f) ==
  LET first == IF Partiels(f) \in Fitting(f) THEN Partiels(f) ELSE Main(f)
  IN  IF Fitting(f) = {} \/ (size[f] \notin {Unknown, 0} /\ Null(fs[first]))
      THEN Nowhere ELSE first

\* The first of them, unless it is a shell full of zeros (which is not looked
\* at when the size is unknown).
AlreadyThere(f) ==
  LET first == IF Main(f) \in Fitting(f) THEN Main(f) ELSE Partiels(f)
  IN  IF Fitting(f) = {} \/ (size[f] \notin {Unknown, 0} /\ Null(fs[first]))
      THEN Nowhere ELSE first

Keep ==
  /\ pc = "file"
  /\ opt.resume
  /\ AlreadyThere(cur) # Nowhere
  /\ Conclude("DEJA_EXTRAIT", AlreadyThere(cur))
  /\ UNCHANGED <<fs, dirs>>

-----------------------------------------------------------------------------
(* extraire_fichier(): the blocks are read into a temporary file.          *)

ToExtract == pc = "file" /\ ~(opt.resume /\ AlreadyThere(cur) # Nowhere)

Open ==
  /\ ToExtract
  /\ fs' = [fs EXCEPT ![Temp(cur)] = [of |-> cur, good |-> {}, len |-> 0]]
  /\ pc' = IF size[cur] = 0 THEN "place" ELSE "write"
  /\ UNCHANGED <<dirs, report, runs, run, cur, seen, got, results>>

Min2(a, b) == IF a < b THEN a ELSE b

\* One block is read, and written if it is valid or holes are filled.
WriteBlock ==
  LET k == seen + 1
      ok == k \in readable[cur]
      stop == ~ok /\ ~opt.fill
      now == IF ok THEN got \cup {k} ELSE got
  IN  /\ pc = "write"
      /\ seen' = k
      /\ got' = now
      /\ fs' = IF stop THEN fs
               ELSE [fs EXCEPT ![Temp(cur)] =
                       [of |-> cur, good |-> Held(cur, now, size[cur]),
                        len |-> Min2(2 * k, Cut(cur, size[cur]))]]
      /\ pc' = IF stop \/ k = NBlocks[cur] THEN "place" ELSE "write"
      /\ UNCHANGED <<dirs, report, runs, run, cur, results>>

\* Any exception while the file is created, read or written: _echec() lists
\* no block of it.
WriteFails ==
  /\ pc = "write" \/ ToExtract
  /\ fs' = [fs EXCEPT ![Temp(cur)] = Absent]
  /\ Conclude(IF size[cur] = 0 THEN "VIDE" ELSE "PERDU", Nowhere)
  /\ UNCHANGED dirs

-----------------------------------------------------------------------------
(* extraire_noeuds(): the file goes where its state says.                  *)

State ==
  IF size[cur] = 0 THEN "VIDE"
  ELSE IF Cardinality(got) = seen THEN "COMPLET"
  ELSE IF got = {} THEN "PERDU" ELSE "PARTIEL"

\* Mutant: the file just put in place is not spared.
Swept_Everywhere(files, keep) ==
  [p \in Places |->
     IF p \in Earlier(cur) /\ files[p] # Absent /\ files[p].len > 0 /\ Null(files[p])
     THEN Absent ELSE files[p]]

\* Mutant: an earlier file is not opened before it is removed.
Swept_Unread(files, keep) ==
  [p \in Places |-> IF p \in Earlier(cur) \ {keep} THEN Absent ELSE files[p]]

\* _nettoyer_coquilles(): fs without the shells of earlier runs.
Swept(files, keep) ==
  [p \in Places |->
     IF /\ p \in Earlier(cur) \ {keep}
        /\ files[p] # Absent
        /\ files[p].len > 0
        /\ Null(files[p])
     THEN Absent ELSE files[p]]

DropLost ==
  /\ pc = "place"
  /\ State = "PERDU" /\ ~opt.lost
  /\ fs' = Swept([fs EXCEPT ![Temp(cur)] = Absent], Nowhere)
  /\ Conclude("PERDU", Nowhere)
  /\ UNCHANGED dirs

DropIncomplete ==
  /\ pc = "place"
  /\ ~(State = "PERDU" /\ ~opt.lost)
  /\ opt.skip /\ State \notin {"COMPLET", "VIDE"}
  /\ fs' = [fs EXCEPT ![Temp(cur)] = Absent]
  /\ Conclude(State, Nowhere)
  /\ UNCHANGED dirs

Kept ==
  /\ pc = "place"
  /\ State \in {"COMPLET", "VIDE"} \/ ~opt.skip
  /\ State = "PERDU" => opt.lost

\* Mutant: only lost files are kept apart.
Tree_Mixed == IF opt.apart /\ State = "PERDU" THEN "perdus" ELSE "main"

Tree ==
  CASE opt.apart /\ State = "PARTIEL" -> "partiels"
    [] opt.apart /\ State = "PERDU"   -> "perdus"
    [] OTHER                          -> "main"

\* The file system refuses a path one directory of which is a file, or which
\* is itself a directory.
Refused(tree, t) ==
  \/ \E a \in Ancestors[t] : fs[<<tree, a>>] # Absent
  \/ <<tree, t>> \in dirs

Moved(from, to) == [fs EXCEPT ![to] = fs[from], ![from] = Absent]
MadeDirs(tree, t) == dirs \cup ({tree} \X Ancestors[t])

Place ==
  /\ Kept
  /\ ~Refused(Tree, Target[cur])
  /\ fs' = Moved(Temp(cur), <<Tree, Target[cur]>>)
  /\ dirs' = MadeDirs(Tree, Target[cur])
  /\ pc' = "clean"
  /\ UNCHANGED <<report, runs, run, cur, seen, got, results>>

\* _chemin_de_secours(): a flat path, free of conflicts, inside the tree of the
\* dataset whatever the state of the file.
PlaceFlat ==
  /\ Kept
  /\ Refused(Tree, Target[cur])
  /\ fs' = Moved(Temp(cur), <<"conflits", cur>>)
  /\ pc' = "clean"
  /\ UNCHANGED <<dirs, report, runs, run, cur, seen, got, results>>

\* Mutant: the report gives the path meant, not the path used.
Final_Meant == <<Tree, Target[cur]>>

\* Where Place or PlaceFlat has just put the file.
Final ==
  IF Refused(Tree, Target[cur]) THEN <<"conflits", cur>> ELSE <<Tree, Target[cur]>>

Clean ==
  /\ pc = "clean"
  /\ fs' = Swept(fs, Final)
  /\ Conclude(State, Final)
  /\ UNCHANGED dirs

\* Nothing catches an error of makedirs("_en_cours"), nor an OSError of
\* _ranger() other than a conflict of paths.
DestinationFails ==
  /\ ToExtract \/ Kept
  /\ Halt("aborted")
  /\ UNCHANGED <<fs, dirs, report>>

-----------------------------------------------------------------------------
(* The report is rewritten after each dataset, and once more at the end.   *)

\* Mutant: the final report is taken for one more dataset.
Truncate_Again ==
  /\ pc \in {"report", "final"}
  /\ report' = Truncated
  /\ pc' = "dump"
  /\ UNCHANGED <<fs, dirs, runs, run, cur, seen, got, results>>

Truncate ==
  /\ pc \in {"report", "final"}
  /\ report' = Truncated
  /\ pc' = IF pc = "report" THEN "dump" ELSE "last_dump"
  /\ UNCHANGED <<fs, dirs, runs, run, cur, seen, got, results>>

Dump ==
  /\ pc = "dump"
  /\ report' = results
  /\ pc' = IF cur = NFiles + 1 THEN "final" ELSE "file"
  /\ UNCHANGED <<fs, dirs, runs, run, cur, seen, got, results>>

LastDump ==
  /\ pc = "last_dump"
  /\ report' = results
  /\ Halt("idle")
  /\ UNCHANGED <<fs, dirs>>

\* The process is killed: the file system and the report stay as they are.
Crash ==
  /\ pc \notin {"idle", "aborted"}
  /\ Halt("idle")
  /\ UNCHANGED <<fs, dirs, report>>

-----------------------------------------------------------------------------
(* cmd_trier(): sorts a destination by the last report.                    *)

StartTrier ==
  /\ pc \in {"idle", "aborted"}
  /\ runs < MaxRuns
  /\ report \notin {NoReport, Truncated}
  /\ runs' = runs + 1
  /\ pc' = "trier"
  /\ UNCHANGED <<fs, dirs, report, run, cur, seen, got, results>>

\* The entry of the report at hand, and the file it names, if there is one.
Listed(state) ==
  /\ pc = "trier"
  /\ cur \in Files
  /\ report[cur] # NoResult
  /\ report[cur].state = state
  /\ report[cur].at # Nowhere
  /\ fs[report[cur].at] # Absent

TrierNext == cur' = cur + 1 /\ UNCHANGED <<report, pc, runs, run, seen, got, results>>

\* A file announced lost is deleted if it is as long as announced and null.
TrierDelete ==
  /\ Listed("PERDU")
  /\ report[cur].size \in {Unknown, fs[report[cur].at].len}
  /\ Null(fs[report[cur].at])
  /\ fs' = [fs EXCEPT ![report[cur].at] = Absent]
  /\ TrierNext
  /\ UNCHANGED dirs

\* A file announced partial joins the others, at the same path.
Sorted(p) ==
  IF p[1] = "conflits" THEN <<"partiels_conflits", p[2]>> ELSE <<"partiels", p[2]>>

TrierMove ==
  /\ Listed("PARTIEL")
  /\ report[cur].at[1] \in {"main", "conflits"}
  /\ report[cur].at[1] = "main" => ~Refused("partiels", report[cur].at[2])
  /\ fs' = Moved(report[cur].at, Sorted(report[cur].at))
  /\ dirs' = IF report[cur].at[1] = "main"
             THEN MadeDirs("partiels", report[cur].at[2]) ELSE dirs
  /\ TrierNext

\* makedirs or replace fails, and nothing catches it.
TrierFails ==
  /\ Listed("PARTIEL")
  /\ report[cur].at[1] = "main"
  /\ Refused("partiels", report[cur].at[2])
  /\ Halt("aborted")
  /\ UNCHANGED <<fs, dirs, report>>

TrierLeave ==
  /\ pc = "trier"
  /\ cur \in Files
  /\ ~(/\ Listed("PERDU")
       /\ report[cur].size \in {Unknown, fs[report[cur].at].len}
       /\ Null(fs[report[cur].at]))
  /\ ~(Listed("PARTIEL") /\ report[cur].at[1] \in {"main", "conflits"})
  /\ TrierNext
  /\ UNCHANGED <<fs, dirs>>

\* Directories left empty are removed at the end.
TrierEnd ==
  /\ pc = "trier"
  /\ cur = NFiles + 1
  /\ dirs' = {d \in dirs : \E t \in Targets :
                 /\ d[2] \in Ancestors[t]
                 /\ fs[<<d[1], t>>] # Absent \/ <<d[1], t>> \in dirs}
  /\ Halt("idle")
  /\ UNCHANGED <<fs, report>>

-----------------------------------------------------------------------------
Step ==
  \/ Keep \/ Open \/ WriteBlock \/ DropLost \/ DropIncomplete
  \/ Place \/ PlaceFlat \/ Clean \/ Truncate \/ Dump \/ LastDump
  \/ TrierDelete \/ TrierMove \/ TrierFails \/ TrierLeave \/ TrierEnd

Next ==
  \/ \E o \in Options, s \in Sized : StartRun(o, s)
  \/ StartTrier
  \/ Step
  \/ WriteFails \/ DestinationFails \/ Crash

\* Nothing a command does waits for anything: it goes on while it is not
\* killed.
Spec == Init /\ [][Next]_vars /\ WF_vars(Step)
-----------------------------------------------------------------------------
(* Correctness.                                                            *)

\* Every block of f is there for real: as many bytes as its size says, or whole
\* blocks up to the last one when an extraction did not know it.
Whole(f, c) == c # Absent /\ c \in {Image(f, Length[f]), Image(f, Unknown)}

AllApart == \A o \in Options : o.apart

\* A run that keeps partial files apart puts under a dataset only files it has
\* verified, each at its own path, whatever earlier runs mixed there; the only
\* other one it puts there is a file whose path is refused.
OnlyVerifiedPlaced ==
  [][opt.apart =>
       \A p \in Places :
         p[1] \in {"main", "conflits"} /\ fs'[p] \notin {fs[p], Absent} =>
           \/ \E f \in Files : p \in {Main(f), <<"conflits", f>>} /\ Whole(f, fs'[p])
           \/ p = <<"conflits", cur>> /\ Refused(Tree, Target[cur])]_vars

\* The report says of each file where it is, and the file is still there when
\* the report is written, with what the report says of it: no later file of
\* the run takes its place or cleans it away.
ReportMatchesDisk ==
  \A f \in Files : results[f] # NoResult /\ results[f].at # Nowhere =>
    LET c == fs[results[f].at] IN
    /\ c # Absent
    /\ c.of = f
    /\ results[f].state = "COMPLET" => c = Image(f, results[f].size)
    /\ results[f].state = "DEJA_EXTRAIT" /\ results[f].size \notin {Unknown, 0}
         => c.len = results[f].size /\ ~Null(c)

\* When no run uses --melanger, a file once recovered whole is never lost again
\* to a later run with fewer disks, to a crash, to resuming or to sorting; only
\* the end of its last block may change, when a run does not know the size the
\* other knew (a file that is null on the pool too is the exception: it passes
\* for a shell).
WholeStaysWhole ==
  [][AllApart => \A f \in Files :
       Whole(f, fs[Main(f)]) /\ ~Null(fs[Main(f)])
       => fs'[Main(f)] \in {fs[Main(f)], Image(f, size[f])}]_vars

\* What a resumed run takes for done.
Done(f, c) ==
  IF size[f] = Unknown THEN Whole(f, c)
  ELSE c = Image(f, size[f]) /\ size[f] <= 2 * NBlocks[f] /\ ~Null(c)

\* A resumed run does not read again what an interrupted one recovered: "une
\* coupure ne fait donc plus perdre le travail accompli".
WorkIsNotRedone ==
  [][\A f \in Files :
       /\ opt.resume
       /\ pc = "file"
       /\ cur = f
       /\ Done(f, fs[Main(f)])
       => \/ pc' = "idle"
          \/ results'[f] = [state |-> "DEJA_EXTRAIT", at |-> Main(f), size |-> size[f]]]_vars

\* A command that is not killed comes to its end.
CommandsEnd == (pc \notin {"idle", "aborted"}) ~> (pc \in {"idle", "aborted"})

-----------------------------------------------------------------------------
(* What the documentation says and the code does not do.                   *)

\* "<destination>/<dataset>/... fichiers INTEGRALEMENT verifies par checksum":
\* unless some run used --melanger, every file under a dataset is whole.
MainTreeVerified ==
  AllApart => \A p \in Places : p[1] \in {"main", "conflits"} /\ fs[p] # Absent =>
                \E f \in Files : Whole(f, fs[p])

\* "fichiers COMPLET : sha256 identique a l'original, et fichier ecrit identique":
\* a file identical to the original stays so; only a file that a run calls
\* COMPLET can replace it.
ExactStaysExact ==
  [][AllApart => \A f \in Files :
       fs[Main(f)] = Image(f, Length[f]) /\ ~Null(fs[Main(f)])
       => fs'[Main(f)] = fs[Main(f)]]_vars

\* "tout fichier declare COMPLET doit etre identique bit a bit a l'original":
\* a file declared complete has, at least, the size the report gives it.
CompleteIsExact ==
  \A f \in Files :
    results[f] # NoResult /\ results[f].state = "COMPLET"
      /\ results[f].at # Nowhere /\ results[f].size # Unknown
    => fs[results[f].at].len = results[f].size

\* "le rapport JSON est reecrit apres chaque dataset : une interruption ne fait
\* plus perdre le rapport de ce qui a deja ete extrait".
ReportSurvives ==
  [][pc' = "idle" /\ report' = Truncated =>
       ~\E f, g \in Files : /\ Dataset[f] # Dataset[g]
                           /\ results[f] # NoResult /\ results[g] # NoResult]_vars
=============================================================================
