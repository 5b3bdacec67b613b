--------------------------- MODULE ExtractProofs ---------------------------
(***************************************************************************)
(* The safety of a destination, for any number of files, blocks, runs and  *)
(* option sets.                                                            *)
(***************************************************************************)
EXTENDS Extract, FiniteSetTheorems, TLAPS

-----------------------------------------------------------------------------
(* The inductive invariant.                                                *)

\* Where the file at hand is, step by step, and what stays behind it.  TypeOK is
\* not inductive without it: it lets a command write past the last file.
Control ==
  /\ opt \in Options
  /\ pc \in {"idle", "aborted", "trier"} => results = NoResults
  /\ pc \in {"idle", "aborted"} => cur = 1
  /\ pc \in {"file", "write", "place", "clean"} => cur \in Files
  /\ pc \notin {"write", "place", "clean"} => seen = 0 /\ got = {}
  /\ pc = "write" => seen < NBlocks[cur] /\ size[cur] # 0
  /\ pc = "trier" => report \in [Files -> Results]
  /\ got \subseteq 1 .. seen
  /\ \A f \in Files : results[f] # NoResult => f < cur

\* Whatever is at a place belongs to it: to the path of its file, or to the file.
Owned ==
  \A p \in Places : fs[p] # Absent =>
    IF p[1] \in PathTrees THEN Target[fs[p].of] = p[2] ELSE fs[p].of = p[2]

Sound(p) == State \in {"COMPLET", "VIDE"} => fs[p] = Image(cur, size[cur])

\* What the temporary file holds, then the file put in place: OnlyVerifiedPlaced
\* says nothing of the file before it gets there.
Working ==
  /\ pc = "write" => fs[Temp(cur)] = [of |-> cur, good |-> Held(cur, got, size[cur]),
                                      len |-> Min2(2 * seen, Cut(cur, size[cur]))]
  /\ pc = "place" => fs[Temp(cur)] # Absent /\ Sound(Temp(cur))
  /\ pc = "clean" => fs[Final] # Absent /\ Sound(Final)

IInv == TypeOK /\ Control /\ Owned /\ Working

-----------------------------------------------------------------------------
(* The values of the model.                                                *)

\* The places of a file.
LEMMA PlacesOfFile ==
  ASSUME NEW f \in Files
  PROVE  /\ Target[f] \in Targets
         /\ \A tree \in PathTrees : <<tree, Target[f]>> \in Places
         /\ \A tree \in {"conflits", "partiels_conflits", "temp"} : <<tree, f>> \in Places
BY DEF Targets, Places

\* A place is under the path of a file, or under its number.
LEMMA PlaceType ==
  ASSUME NEW p \in Places
  PROVE  /\ p = <<p[1], p[2]>>
         /\ p[1] \in PathTrees => p[2] \in Targets
         /\ p[1] \notin PathTrees => p[2] \in Files
BY DEF Places, PathTrees

\* What a file holds.
LEMMA ContentType ==
  ASSUME NEW c \in Contents
  PROVE  /\ c.of \in Files /\ c.good \subseteq Blocks(c.of) /\ c.len \in 0 .. 2 * NBlocks[c.of]
         /\ c # Absent
BY MarkAssumption DEF Contents

LEMMA ContentOfFile ==
  ASSUME NEW f \in Files, NEW g \in SUBSET Blocks(f), NEW n \in 0 .. 2 * NBlocks[f]
  PROVE  [of |-> f, good |-> g, len |-> n] \in Contents
BY DEF Contents

\* A file has blocks.
LEMMA BlocksType ==
  ASSUME NEW f \in Files
  PROVE  NBlocks[f] \in Nat \ {0} /\ Length[f] \in Nat
BY ExtractAssumption

\* A size cuts a file within its blocks.
LEMMA CutType ==
  ASSUME NEW f \in Files, NEW s \in Nat \cup {Unknown}
  PROVE  /\ Cut(f, s) \in 0 .. 2 * NBlocks[f]
         /\ s = 0 => Cut(f, s) = 0
BY BlocksType, MarkAssumption DEF Cut

\* What is written is a content.
LEMMA HeldContent ==
  ASSUME NEW f \in Files, NEW s \in Nat \cup {Unknown}, NEW S \in SUBSET Blocks(f),
         NEW n \in Nat
  PROVE  /\ [of |-> f, good |-> Held(f, S, s), len |-> Min2(n, Cut(f, s))] \in Contents
         /\ [of |-> f, good |-> Held(f, S, s), len |-> Min2(n, Cut(f, s))] # Absent
<1>1. Held(f, S, s) \in SUBSET Blocks(f)
  BY DEF Held
<1>2. Min2(n, Cut(f, s)) \in 0 .. 2 * NBlocks[f]
  <2>1. Cut(f, s) \in 0 .. 2 * NBlocks[f] /\ NBlocks[f] \in Nat
    BY CutType, BlocksType
  <2>2. Cut(f, s) \in Nat
    BY <2>1
  <2> QED BY <2>1, <2>2 DEF Min2
<1> QED BY <1>1, <1>2, ContentOfFile, ContentType

LEMMA ImageContent ==
  ASSUME NEW f \in Files, NEW s \in Nat \cup {Unknown}
  PROVE  Image(f, s) \in Contents /\ Image(f, s) # Absent /\ Image(f, s).of = f
<1>1. Cut(f, s) \in Nat /\ Min2(Cut(f, s), Cut(f, s)) = Cut(f, s)
  <2>1. Cut(f, s) \in 0 .. 2 * NBlocks[f] /\ NBlocks[f] \in Nat
    BY CutType, BlocksType
  <2> QED BY <2>1 DEF Min2
<1> QED BY <1>1, HeldContent DEF Image

\* A file every block of which was read and was valid is read whole.
LEMMA AllGood ==
  ASSUME NEW n \in Nat, NEW S \in SUBSET (1 .. n)
  PROVE  /\ Cardinality(S) \in 0 .. n
         /\ Cardinality(S) = n => S = 1 .. n
<1>1. IsFiniteSet(1 .. n) /\ Cardinality(1 .. n) = n
  BY FS_Interval
<1>2. IsFiniteSet(S)
  BY <1>1, FS_Subset
<1>3. Cardinality(S) \in Nat
  BY <1>2, FS_CardinalityType
<1>4. Cardinality(S) <= Cardinality(1 .. n) /\ (Cardinality(1 .. n) = Cardinality(S) => 1 .. n = S)
  BY <1>1, FS_Subset
<1> QED BY <1>1, <1>3, <1>4

-----------------------------------------------------------------------------
(* Parts of steps.                                                         *)

\* A result of the run.
LEMMA ResultType ==
  ASSUME NEW state \in States, NEW at \in Places \cup {Nowhere},
         NEW s \in Nat \cup {Unknown}
  PROVE  /\ [state |-> state, at |-> at, size |-> s] \in Results
         /\ [state |-> state, at |-> at, size |-> s] # NoResult
BY MarkAssumption DEF Results, Outcomes

\* The file at hand has one of the states of extraire_noeuds().
LEMMA StateType == State \in {"COMPLET", "PARTIEL", "PERDU", "VIDE"} /\ State \in States
BY DEF State, States

\* The next file, or the report, starts afresh.
LEMMA ConcludeStep ==
  ASSUME TypeOK, Control, cur \in Files, NEW state \in States,
         NEW at \in Places \cup {Nowhere}, Conclude(state, at),
         fs' \in [Places -> Contents \cup {Absent}], dirs' \subseteq PathTrees \X Targets
  PROVE  TypeOK' /\ Control' /\ Working'
<1>1. /\ results' = [results EXCEPT ![cur] = [state |-> state, at |-> at, size |-> size[cur]]]
      /\ cur' = cur + 1 /\ seen' = 0 /\ got' = {} /\ pc' \in {"report", "file"}
      /\ pc' = "file" => cur # NFiles
      /\ report' = report /\ runs' = runs /\ opt' = opt /\ readable' = readable /\ size' = size
  BY DEF Conclude, run
<1>2. NFiles \in Nat \ {0} /\ cur \in Nat
  BY ExtractAssumption DEF Files
<1>3. results' \in [Files -> Results]
  BY <1>1, ResultType DEF TypeOK
<1>4. TypeOK'
  BY <1>1, BlocksType, <1>2, <1>3 DEF TypeOK, PCs, Files
<1>5. Control'
  <2>1. \A f \in Files : results'[f] # NoResult => f < cur'
    BY <1>1, <1>2 DEF TypeOK, Control, Files
  <2> QED BY <1>1, <1>2, <2>1 DEF Control, Files
<1>6. Working'
  BY <1>1 DEF Working
<1> QED BY <1>4, <1>5, <1>6

\* The end of a command, whatever its way.
LEMMA HaltStep ==
  ASSUME TypeOK, Control, NEW how \in {"idle", "aborted"}, Halt(how),
         fs' \in [Places -> Contents \cup {Absent}], dirs' \subseteq PathTrees \X Targets,
         report' \in [Files -> Results] \cup {NoReport, Truncated}
  PROVE  TypeOK' /\ Control' /\ Working'
<1>1. /\ pc' = how /\ readable' = [f \in Files |-> {}] /\ size' = NoSizes /\ cur' = 1 /\ seen' = 0
      /\ got' = {} /\ results' = NoResults /\ runs' = runs /\ opt' = opt
  BY DEF Halt
<1>2. NFiles \in Nat \ {0}
  BY ExtractAssumption
<1>3. TypeOK'
  <2>1. results' \in [Files -> Results]
    BY <1>1 DEF NoResults, Results
  <2>2. readable' \in [Files -> SUBSET Nat] /\ \A f \in Files : readable'[f] \subseteq Blocks(f)
    BY <1>1
  <2>3. size' \in [Files -> Nat \cup {Unknown}] /\ \A f \in Files : size'[f] \in {Length[f], Unknown}
    BY <1>1 DEF NoSizes
  <2> QED BY <1>1, BlocksType, <1>2, <2>1, <2>2, <2>3 DEF TypeOK, PCs, Files
<1>4. Control'
  BY <1>1 DEF Control, NoResults
<1>5. Working'
  BY <1>1 DEF Working
<1> QED BY <1>3, <1>4, <1>5

\* What is not given to a place, or is removed from it, changes no owner.
LEMMA OwnedFewer ==
  ASSUME TypeOK, Owned, fs' \in [Places -> Contents \cup {Absent}],
         \A p \in Places : fs'[p] \in {fs[p], Absent}
  PROVE  Owned'
BY DEF Owned, PathTrees

\* _nettoyer_coquilles() only removes.
LEMMA SweptType ==
  ASSUME NEW files \in [Places -> Contents \cup {Absent}], NEW keep
  PROVE  /\ Swept(files, keep) \in [Places -> Contents \cup {Absent}]
         /\ \A p \in Places : Swept(files, keep)[p] \in {files[p], Absent}
         /\ \A p \in Places : p = keep => Swept(files, keep)[p] = files[p]
BY DEF Swept

-----------------------------------------------------------------------------
(* The steps of cmd_extract().                                             *)

LEMMA StartStep ==
  ASSUME IInv, StartTrier \/ \E o \in Options, s \in Sized : StartRun(o, s)
  PROVE  IInv'
<1>0. NFiles \in Nat \ {0} /\ 1 \in Files /\ MaxRuns \in Nat /\ Options \subseteq OptionSet
  BY ExtractAssumption DEF Files
<1>1. TypeOK'
  <2>1. /\ TypeOK /\ runs < MaxRuns /\ runs' = runs + 1
        /\ pc' \in PCs /\ opt' \in OptionSet
        /\ UNCHANGED <<fs, dirs, report, cur, seen, got, results>>
    BY <1>0 DEF IInv, TypeOK, StartTrier, StartRun, run, PCs
  <2>2. readable' \in [Files -> SUBSET Nat] /\ \A f \in Files : readable'[f] \subseteq Blocks(f)
    <3>1. CASE StartTrier
      BY <2>1, <3>1 DEF StartTrier, run, TypeOK
    <3>2. CASE \E o \in Options, s \in Sized : StartRun(o, s)
      <4>1. \A f \in Files : Blocks(f) \subseteq Nat
        BY DEF Blocks
      <4> QED BY <3>2, <4>1 DEF StartRun
    <3> QED BY <3>1, <3>2
  <2>3. size' \in [Files -> Nat \cup {Unknown}] /\ \A f \in Files : size'[f] \in {Length[f], Unknown}
    <3>1. CASE StartTrier
      BY <2>1, <3>1 DEF StartTrier, run, TypeOK
    <3>2. CASE \E o \in Options, s \in Sized : StartRun(o, s)
      BY <3>2, BlocksType DEF StartRun
    <3> QED BY <3>1, <3>2
  <2> QED BY <1>0, <2>1, <2>2, <2>3 DEF TypeOK
<1>2. Control'
  <2>1. CASE StartTrier
    BY <2>1, <1>0 DEF IInv, TypeOK, Control, StartTrier, run
  <2>2. CASE \E o \in Options, s \in Sized : StartRun(o, s)
    BY <2>2, <1>0 DEF IInv, TypeOK, Control, StartRun, NoResults
  <2> QED BY <2>1, <2>2
<1>3. Owned' /\ Working'
  BY DEF IInv, Owned, Working, StartTrier, StartRun
<1> QED BY <1>1, <1>2, <1>3 DEF IInv

\* A file already there is one of the two the run looks at.
LEMMA AlreadyThereType ==
  ASSUME TypeOK, NEW f \in Files, AlreadyThere(f) # Nowhere
  PROVE  /\ AlreadyThere(f) \in Fitting(f)
         /\ AlreadyThere(f) \in {Main(f), Partiels(f)} /\ AlreadyThere(f) \in Places
         /\ size[f] \notin {Unknown, 0} => fs[AlreadyThere(f)].len = size[f] /\ ~Null(fs[AlreadyThere(f)])
<1>1. Fitting(f) # {} /\ Fitting(f) \subseteq {Main(f), Partiels(f)}
  BY DEF AlreadyThere, Fitting, Earlier
<1>2. AlreadyThere(f) = IF Main(f) \in Fitting(f) THEN Main(f) ELSE Partiels(f)
  BY DEF AlreadyThere
<1>3. size[f] \notin {Unknown, 0} => ~Null(fs[AlreadyThere(f)])
  BY <1>2 DEF AlreadyThere
<1>4. AlreadyThere(f) \in Fitting(f)
  BY <1>1, <1>2 DEF Fitting, Earlier
<1> QED BY <1>1, <1>2, <1>3, <1>4, PlacesOfFile DEF Main, Partiels, PathTrees, Fitting

LEMMA KeepStep ==
  ASSUME IInv, Keep
  PROVE  IInv'
<1>1. TypeOK /\ Control /\ cur \in Files /\ fs' = fs /\ dirs' = dirs
  BY DEF IInv, Control, Keep
<1>2. AlreadyThere(cur) \in Places
  BY <1>1, AlreadyThereType DEF Keep
<1>3. TypeOK' /\ Control' /\ Working'
  BY <1>1, <1>2, ConcludeStep DEF Keep, TypeOK, States
<1> QED BY <1>1, <1>3, OwnedFewer DEF IInv, TypeOK

LEMMA OpenStep ==
  ASSUME IInv, Open
  PROVE  IInv'
<1> DEFINE c == [of |-> cur, good |-> {}, len |-> 0]
<1>1. /\ TypeOK /\ Control /\ Owned /\ cur \in Files /\ seen = 0 /\ got = {}
      /\ fs' = [fs EXCEPT ![Temp(cur)] = c]
      /\ pc' = IF size[cur] = 0 THEN "place" ELSE "write"
      /\ dirs' = dirs /\ report' = report /\ runs' = runs /\ opt' = opt /\ readable' = readable /\ size' = size
      /\ cur' = cur /\ seen' = seen /\ got' = got /\ results' = results
  BY DEF IInv, Control, Open, ToExtract, run
<1>2. c \in Contents /\ c # Absent /\ Temp(cur) \in Places /\ Temp(cur)[1] = "temp" /\ Temp(cur)[2] = cur
  <2>1. {} \in SUBSET Blocks(cur) /\ 0 \in 0 .. 2 * NBlocks[cur]
    BY <1>1, BlocksType
  <2>2. c \in Contents
    BY <1>1, <2>1, ContentOfFile
  <2> QED BY <1>1, <2>2, MarkAssumption, PlacesOfFile DEF Temp
<1>3. TypeOK'
  BY <1>1, <1>2 DEF TypeOK, PCs
<1>4. Control'
  BY <1>1, BlocksType DEF Control
<1>5. Owned'
  <2>1. \A p \in Places : p # Temp(cur) => fs'[p] = fs[p]
    BY <1>1 DEF TypeOK
  <2>2. fs'[Temp(cur)] = c
    BY <1>1, <1>2 DEF TypeOK
  <2> QED BY <1>1, <1>2, <2>1, <2>2 DEF Owned, PathTrees
<1>6. Working'
  <2>1. fs'[Temp(cur)] = c /\ Temp(cur') = Temp(cur)
    BY <1>1, <1>2 DEF TypeOK
  <2>2. Cut(cur, size[cur]) \in Nat /\ (size[cur] = 0 => Cut(cur, size[cur]) = 0)
    <3>1. size[cur] \in Nat \cup {Unknown} /\ NBlocks[cur] \in Nat
      BY <1>1, BlocksType DEF TypeOK
    <3>2. Cut(cur, size[cur]) \in 0 .. 2 * NBlocks[cur]
      BY <1>1, <3>1, CutType
    <3>3. size[cur] = 0 => Cut(cur, size[cur]) = 0
      BY <1>1, <3>1, CutType
    <3> QED BY <3>1, <3>2, <3>3
  <2>3. Held(cur, {}, size[cur]) = {} /\ Min2(2 * 0, Cut(cur, size[cur])) = 0
    BY <2>2 DEF Min2, Held
  <2>4. pc' = "write" => fs'[Temp(cur')] = [of |-> cur', good |-> Held(cur', got', size'[cur']),
                                            len |-> Min2(2 * seen', Cut(cur', size'[cur']))]
    BY <1>1, <2>1, <2>3
  <2>5. pc' = "place" => fs'[Temp(cur')] # Absent /\ fs'[Temp(cur')] = Image(cur', size'[cur'])
    <3>1. ASSUME size[cur] = 0
          PROVE  Held(cur, Blocks(cur), size[cur]) = {}
      BY <2>2, <3>1 DEF Held, Blocks
    <3> QED BY <1>1, <1>2, <2>1, <2>2, <3>1 DEF Image
  <2> QED BY <1>1, <2>4, <2>5 DEF Working, Sound
<1> QED BY <1>3, <1>4, <1>5, <1>6 DEF IInv

LEMMA WriteStep ==
  ASSUME IInv, WriteBlock
  PROVE  IInv'
<1> DEFINE k == seen + 1
           ok == k \in readable[cur]
           stop == ~ok /\ ~opt.fill
           now == IF ok THEN got \cup {k} ELSE got
           c == [of |-> cur, good |-> Held(cur, now, size[cur]),
                 len |-> Min2(2 * k, Cut(cur, size[cur]))]
<1>1. /\ TypeOK /\ Control /\ Owned /\ Working /\ cur \in Files /\ pc = "write"
      /\ seen \in Nat /\ seen < NBlocks[cur] /\ size[cur] # 0 /\ got \subseteq 1 .. seen
      /\ seen' = k /\ got' = now
      /\ fs' = IF stop THEN fs ELSE [fs EXCEPT ![Temp(cur)] = c]
      /\ pc' = IF stop \/ k = NBlocks[cur] THEN "place" ELSE "write"
      /\ dirs' = dirs /\ report' = report /\ runs' = runs /\ opt' = opt /\ readable' = readable /\ size' = size
      /\ cur' = cur /\ results' = results
  BY DEF IInv, TypeOK, Control, WriteBlock, run
<1>2. /\ NBlocks[cur] \in Nat \ {0} /\ size[cur] \in Nat \cup {Unknown}
      /\ Cut(cur, size[cur]) \in 0 .. 2 * NBlocks[cur]
      /\ Temp(cur) \in Places /\ Temp(cur)[1] = "temp" /\ Temp(cur)[2] = cur
  BY <1>1, BlocksType, CutType, PlacesOfFile DEF Temp, TypeOK
<1>3. k \in 1 .. NBlocks[cur] /\ now \subseteq 1 .. k
  BY <1>1, <1>2
<1>4. c \in Contents /\ c # Absent
  <2>1. now \in SUBSET Blocks(cur) /\ 2 * k \in Nat
    BY <1>1, <1>2, <1>3 DEF Blocks
  <2> QED BY <1>1, <1>2, <2>1, HeldContent
<1>5. fs' \in [Places -> Contents \cup {Absent}] /\ fs'[Temp(cur)] = IF stop THEN fs[Temp(cur)] ELSE c
  BY <1>1, <1>2, <1>4 DEF TypeOK
<1> HIDE DEF c
<1>6. TypeOK'
  BY <1>1, <1>2, <1>3, <1>5 DEF TypeOK, PCs, Blocks
<1>7. Control'
  BY <1>1, <1>2, <1>3 DEF Control
<1>8. Owned'
  <2>1. \A p \in Places : p # Temp(cur) => fs'[p] = fs[p]
    BY <1>1 DEF TypeOK
  <2>2. c.of = cur
    BY DEF c
  <2> QED BY <1>1, <1>2, <1>5, <2>1, <2>2 DEF Owned, PathTrees
<1>9. Working'
  <2>1. pc' = "write" => fs'[Temp(cur')] = [of |-> cur', good |-> Held(cur', got', size'[cur']),
                                            len |-> Min2(2 * seen', Cut(cur', size'[cur']))]
    BY <1>1, <1>5 DEF c
  <2>2. fs'[Temp(cur')] # Absent
    <3>1. fs[Temp(cur)] # Absent
      <4>1. got \in SUBSET Blocks(cur) /\ 2 * seen \in Nat
        BY <1>1, <1>2 DEF Blocks
      <4> QED BY <1>1, <1>2, <4>1, HeldContent DEF Working
    <3> QED BY <1>1, <1>4, <1>5, <3>1
  <2>3. ASSUME pc' = "place", State' \in {"COMPLET", "VIDE"}
        PROVE  fs'[Temp(cur')] = Image(cur', size'[cur'])
    <3>1. Cardinality(now) = k
      BY <1>1, <2>3 DEF State
    <3>2. now = 1 .. k
      BY <1>3, <3>1, AllGood
    <3>3. ok
      BY <1>1, <3>2
    <3>4. k = NBlocks[cur]
      BY <1>1, <2>3, <3>3
    <3>5. c = Image(cur, size[cur])
      <4>1. now = Blocks(cur)
        BY <3>2, <3>4, Zenon DEF Blocks
      <4>2. Min2(2 * k, Cut(cur, size[cur])) = Cut(cur, size[cur])
        BY <1>2, <3>4 DEF Min2
      <4> QED BY <4>1, <4>2, Zenon DEF c, Image
    <3> QED BY <1>1, <1>5, <3>3, <3>5
  <2> QED BY <1>1, <2>1, <2>2, <2>3 DEF Working, Sound
<1> QED BY <1>6, <1>7, <1>8, <1>9 DEF IInv

LEMMA WriteFailsStep ==
  ASSUME IInv, WriteFails
  PROVE  IInv'
<1>1. /\ TypeOK /\ Control /\ Owned /\ cur \in Files /\ dirs' = dirs
      /\ fs' = [fs EXCEPT ![Temp(cur)] = Absent]
  BY DEF IInv, Control, WriteFails, ToExtract
<1>2. fs' \in [Places -> Contents \cup {Absent}] /\ \A p \in Places : fs'[p] \in {fs[p], Absent}
  BY <1>1 DEF TypeOK
<1>3. TypeOK' /\ Control' /\ Working'
  BY <1>1, <1>2, ConcludeStep DEF WriteFails, TypeOK, States
<1> QED BY <1>1, <1>2, <1>3, OwnedFewer DEF IInv

-----------------------------------------------------------------------------
(* extraire_noeuds(): the file goes to its place.                          *)

LEMMA DropStep ==
  ASSUME IInv, DropLost \/ DropIncomplete
  PROVE  IInv'
<1> DEFINE files == [fs EXCEPT ![Temp(cur)] = Absent]
<1>1. TypeOK /\ Control /\ Owned /\ cur \in Files /\ dirs' = dirs
  BY DEF IInv, Control, DropLost, DropIncomplete
<1>2. files \in [Places -> Contents \cup {Absent}] /\ \A p \in Places : files[p] \in {fs[p], Absent}
  BY <1>1 DEF TypeOK
<1>3. fs' \in [Places -> Contents \cup {Absent}] /\ \A p \in Places : fs'[p] \in {fs[p], Absent}
  <2>1. CASE DropLost
    <3>1. fs' = Swept(files, Nowhere)
      BY <2>1 DEF DropLost
    <3> QED BY <1>2, <3>1, SweptType
  <2>2. CASE DropIncomplete
    BY <1>2, <2>2 DEF DropIncomplete
  <2> QED BY <2>1, <2>2
<1>4. \E state \in States : Conclude(state, Nowhere)
  BY StateType DEF DropLost, DropIncomplete, States
<1>5. TypeOK' /\ Control' /\ Working'
  BY <1>1, <1>3, <1>4, ConcludeStep DEF TypeOK
<1> QED BY <1>1, <1>3, <1>5, OwnedFewer DEF IInv

\* No path goes through itself: once put in place, a file does not stand in its
\* own way.
LEMMA TreeType == Tree \in PathTrees
BY DEF Tree, PathTrees

\* The file goes from its temporary place to another of its own.
LEMMA MovedType ==
  ASSUME TypeOK, Owned, cur \in Files, fs[Temp(cur)] # Absent,
         NEW to \in {<<tree, Target[cur]>> : tree \in PathTrees} \cup {<<"conflits", cur>>},
         fs' = Moved(Temp(cur), to)
  PROVE  /\ fs' \in [Places -> Contents \cup {Absent}]
         /\ Owned'
         /\ to \in Places /\ fs'[to] = fs[Temp(cur)]
         /\ \A p \in Places \ {to, Temp(cur)} : fs'[p] = fs[p]
<1>1. /\ to \in Places /\ Temp(cur) \in Places /\ to # Temp(cur)
      /\ Temp(cur)[1] = "temp" /\ Temp(cur)[2] = cur
      /\ to[1] \in PathTrees => to[2] = Target[cur]
      /\ to[1] \notin PathTrees => to[2] = cur
  <2>1. Temp(cur) \in Places /\ Temp(cur)[1] = "temp" /\ Temp(cur)[2] = cur
    BY PlacesOfFile DEF Temp
  <2>2. ASSUME to = <<"conflits", cur>>
        PROVE  to \in Places /\ to # Temp(cur) /\ to[1] \notin PathTrees /\ to[2] = cur
    <3>1. to \in Places
      BY <2>2, PlacesOfFile
    <3>2. to[1] = "conflits" /\ to[2] = cur
      BY <2>2
    <3> QED BY <2>1, <3>1, <3>2 DEF PathTrees
  <2>3. ASSUME NEW tree \in PathTrees, to = <<tree, Target[cur]>>
        PROVE  to \in Places /\ to # Temp(cur) /\ to[1] \in PathTrees /\ to[2] = Target[cur]
    <3>1. to \in Places
      BY <2>3, PlacesOfFile
    <3>2. to[1] = tree /\ to[2] = Target[cur]
      BY <2>3
    <3> QED BY <2>1, <3>1, <3>2 DEF PathTrees
  <2> QED BY <2>1, <2>2, <2>3
<1>2. /\ fs' \in [Places -> Contents \cup {Absent}]
      /\ fs'[to] = fs[Temp(cur)] /\ fs'[Temp(cur)] = Absent
      /\ \A p \in Places \ {to, Temp(cur)} : fs'[p] = fs[p]
  BY <1>1 DEF Moved, TypeOK
<1>3. fs[Temp(cur)].of = cur
  BY <1>1 DEF Owned, PathTrees
<1>4. Owned'
  BY <1>1, <1>2, <1>3 DEF Owned
<1> QED BY <1>1, <1>2, <1>4

\* A refusal has nothing to do with the file itself.
LEMMA RefusedAfter ==
  ASSUME TypeOK, cur \in Files, cur' = cur,
         NEW tree \in PathTrees,
         \A p \in Places : p[1] \in PathTrees /\ p # <<tree, Target[cur]>> => fs'[p] = fs[p],
         dirs' \in {dirs, MadeDirs(tree, Target[cur])}
  PROVE  Refused(tree, Target[cur])' <=> Refused(tree, Target[cur])
<1>1. /\ Target[cur] \in Targets /\ Ancestors[Target[cur]] \subseteq Targets
      /\ Target[cur] \notin Ancestors[Target[cur]]
  BY ExtractAssumption, PlacesOfFile
<1>2. \A a \in Ancestors[Target[cur]] : fs'[<<tree, a>>] = fs[<<tree, a>>]
  BY <1>1 DEF Places
<1>3. <<tree, Target[cur]>> \in dirs' <=> <<tree, Target[cur]>> \in dirs
  BY <1>1 DEF MadeDirs
<1> QED BY <1>2, <1>3 DEF Refused

LEMMA PlaceStep ==
  ASSUME IInv, Place \/ PlaceFlat
  PROVE  IInv'
<1>1. /\ TypeOK /\ Control /\ Owned /\ Working /\ cur \in Files /\ pc = "place"
      /\ fs[Temp(cur)] # Absent /\ pc' = "clean"
      /\ report' = report /\ runs' = runs /\ opt' = opt /\ readable' = readable /\ size' = size
      /\ cur' = cur /\ seen' = seen /\ got' = got /\ results' = results
  BY DEF IInv, Control, Working, Place, PlaceFlat, Kept, run
<1>2. /\ fs' = Moved(Temp(cur), Final)
      /\ dirs' \in {dirs, MadeDirs(Tree, Target[cur])}
      /\ Final \in {<<tree, Target[cur]>> : tree \in PathTrees} \cup {<<"conflits", cur>>}
      /\ Final[1] \in PathTrees => Final = <<Tree, Target[cur]>>
  BY TreeType DEF Place, PlaceFlat, Final, PathTrees
<1>3. /\ fs' \in [Places -> Contents \cup {Absent}] /\ Owned'
      /\ Final \in Places /\ fs'[Final] = fs[Temp(cur)]
      /\ \A p \in Places \ {Final, Temp(cur)} : fs'[p] = fs[p]
  BY <1>1, <1>2, MovedType
<1>4. Tree' = Tree /\ State' = State /\ Temp(cur)[1] = "temp"
  BY <1>1 DEF Tree, State, Temp
<1>5. Final' = Final
  <2>1. \A p \in Places : p[1] \in PathTrees /\ p # <<Tree, Target[cur]>> => fs'[p] = fs[p]
    BY <1>2, <1>3, <1>4 DEF PathTrees
  <2>2. Refused(Tree, Target[cur])' <=> Refused(Tree, Target[cur])
    BY <1>1, <1>2, <1>4, <2>1, TreeType, RefusedAfter
  <2> QED BY <1>1, <1>4, <2>2 DEF Final
<1>6. TypeOK'
  <2>1. dirs' \subseteq PathTrees \X Targets
    BY <1>1, <1>2, TreeType, ExtractAssumption, PlacesOfFile DEF MadeDirs, TypeOK
  <2> QED BY <1>1, <1>3, <2>1 DEF TypeOK, PCs
<1>7. Control'
  BY <1>1 DEF Control
<1>8. Working'
  BY <1>1, <1>3, <1>4, <1>5 DEF Working, Sound
<1> QED BY <1>3, <1>6, <1>7, <1>8 DEF IInv

LEMMA CleanStep ==
  ASSUME IInv, Clean
  PROVE  IInv'
<1>1. /\ TypeOK /\ Control /\ Owned /\ cur \in Files /\ dirs' = dirs
      /\ fs' = Swept(fs, Final) /\ Conclude(State, Final)
  BY DEF IInv, Control, Clean
<1>2. fs' \in [Places -> Contents \cup {Absent}] /\ \A p \in Places : fs'[p] \in {fs[p], Absent}
  BY <1>1, SweptType DEF TypeOK
<1>3. Final \in Places
  BY <1>1, TreeType, PlacesOfFile DEF Final
<1>4. TypeOK' /\ Control' /\ Working'
  BY <1>1, <1>2, <1>3, StateType, ConcludeStep DEF TypeOK
<1> QED BY <1>1, <1>2, <1>4, OwnedFewer DEF IInv

-----------------------------------------------------------------------------
(* The report, and the steps of cmd_trier().                               *)

LEMMA ReportStep ==
  ASSUME IInv, Truncate \/ Dump
  PROVE  IInv'
<1>1. /\ TypeOK /\ Control /\ pc' \in {"dump", "last_dump", "final", "file"}
      /\ pc' = "file" => cur # NFiles + 1
      /\ report' \in [Files -> Results] \cup {NoReport, Truncated}
      /\ seen = 0 /\ got = {}
      /\ UNCHANGED <<fs, dirs, runs, opt, readable, size, cur, seen, got, results>>
  BY DEF IInv, TypeOK, Control, Truncate, Dump, run
<1>2. TypeOK'
  BY <1>1 DEF TypeOK, PCs
<1>3. Control'
  BY <1>1, ExtractAssumption DEF Control, TypeOK, Files
<1>4. Owned' /\ Working'
  BY <1>1 DEF IInv, Owned, Working
<1> QED BY <1>2, <1>3, <1>4 DEF IInv

LEMMA EndStep ==
  ASSUME IInv, LastDump \/ Crash \/ DestinationFails \/ TrierFails \/ TrierEnd
  PROVE  IInv'
<1>1. /\ TypeOK /\ Control /\ fs' = fs /\ dirs' \subseteq dirs
      /\ report' \in {report, results}
      /\ \E how \in {"idle", "aborted"} : Halt(how)
  BY DEF IInv, LastDump, Crash, DestinationFails, TrierFails, TrierEnd
<1>2. TypeOK' /\ Control' /\ Working'
  BY <1>1, HaltStep DEF TypeOK
<1> QED BY <1>1, <1>2, OwnedFewer DEF IInv, TypeOK

\* The next entry of the report.
LEMMA TrierNextStep ==
  ASSUME TypeOK, Control, pc = "trier", cur \in Files, TrierNext,
         fs' \in [Places -> Contents \cup {Absent}], dirs' \subseteq PathTrees \X Targets
  PROVE  TypeOK' /\ Control' /\ Working'
<1>1. /\ cur' = cur + 1 /\ NFiles \in Nat /\ seen = 0 /\ got = {}
      /\ UNCHANGED <<report, pc, runs, opt, readable, size, seen, got, results>>
  BY ExtractAssumption DEF TrierNext, run, Control
<1>2. TypeOK'
  BY <1>1, BlocksType DEF TypeOK, Files
<1>3. Control'
  BY <1>1 DEF Control, TypeOK, NoResults
<1>4. Working'
  BY <1>1 DEF Working
<1> QED BY <1>2, <1>3, <1>4

\* The entry at hand names a place where there is a file.
LEMMA ListedType ==
  ASSUME TypeOK, Control, NEW state, Listed(state)
  PROVE  /\ cur \in Files /\ report[cur].at \in Places /\ fs[report[cur].at] # Absent
         /\ report[cur] \in Results /\ report[cur] # NoResult /\ report[cur].at # Nowhere
BY DEF TypeOK, Control, Listed, Results, Outcomes

LEMMA TrierDeleteStep ==
  ASSUME IInv, TrierDelete \/ TrierLeave
  PROVE  IInv'
<1>1. /\ TypeOK /\ Control /\ Owned /\ pc = "trier" /\ cur \in Files /\ TrierNext
      /\ dirs' = dirs
  BY DEF IInv, TrierDelete, TrierLeave, Listed
<1>2. fs' \in [Places -> Contents \cup {Absent}] /\ \A p \in Places : fs'[p] \in {fs[p], Absent}
  BY <1>1 DEF TypeOK, TrierDelete, TrierLeave
<1>3. TypeOK' /\ Control' /\ Working'
  BY <1>1, <1>2, TrierNextStep DEF TypeOK
<1> QED BY <1>1, <1>2, <1>3, OwnedFewer DEF IInv

LEMMA TrierMoveStep ==
  ASSUME IInv, TrierMove
  PROVE  IInv'
<1> DEFINE p == report[cur].at
           q == Sorted(p)
<1>1. /\ TypeOK /\ Control /\ Owned /\ pc = "trier" /\ cur \in Files /\ TrierNext
      /\ p \in Places /\ p[1] \in {"main", "conflits"} /\ fs[p] # Absent
      /\ fs' = [fs EXCEPT ![q] = fs[p], ![p] = Absent]
      /\ dirs' = IF p[1] = "main" THEN MadeDirs("partiels", p[2]) ELSE dirs
  BY ListedType DEF IInv, TrierMove, Listed, Moved
<1> HIDE DEF p
<1>2. /\ q \in Places /\ q # p
      /\ q[1] \in PathTrees <=> p[1] \in PathTrees
      /\ q[2] = p[2]
      /\ p[1] = "main" => p[2] \in Targets
  BY <1>1, PlaceType DEF Sorted, Places, PathTrees
<1>3. /\ fs' \in [Places -> Contents \cup {Absent}]
      /\ fs'[q] = fs[p] /\ fs'[p] = Absent
      /\ \A x \in Places \ {p, q} : fs'[x] = fs[x]
  BY <1>1, <1>2 DEF TypeOK
<1>4. dirs' \subseteq PathTrees \X Targets
  BY <1>1, <1>2, ExtractAssumption DEF MadeDirs, PathTrees, TypeOK
<1>5. TypeOK' /\ Control' /\ Working'
  BY <1>1, <1>3, <1>4, TrierNextStep
<1>6. Owned'
  BY <1>1, <1>2, <1>3 DEF Owned
<1> QED BY <1>5, <1>6 DEF IInv

-----------------------------------------------------------------------------
(* The specification.                                                      *)

LEMMA InitIInv == Init => IInv
<1> SUFFICES ASSUME Init PROVE IInv
  OBVIOUS
<1>1. TypeOK
  <2>1. results \in [Files -> Results]
    BY DEF Init, NoResults, Results
  <2>2. size \in [Files -> Nat \cup {Unknown}] /\ \A f \in Files : size[f] \in {Length[f], Unknown}
    BY DEF Init, NoSizes
  <2> QED BY <2>1, <2>2, ExtractAssumption, BlocksType DEF Init, TypeOK, PCs, Files
<1>2. Control /\ Owned /\ Working
  BY DEF Init, Control, Owned, Working, NoResults
<1> QED BY <1>1, <1>2 DEF IInv

LEMMA NextIInv == IInv /\ [Next]_vars => IInv'
<1> SUFFICES ASSUME IInv, [Next]_vars PROVE IInv'
  OBVIOUS
<1>1. CASE UNCHANGED vars
  <2>1. TypeOK'
    BY <1>1 DEF vars, IInv, TypeOK
  <2>2. Control'
    BY <1>1 DEF vars, IInv, Control, State, Whole, Final, Tree, Refused, Temp
  <2>3. Owned'
    BY <1>1 DEF vars, IInv, Owned
  <2>4. Working'
    BY <1>1 DEF vars, IInv, Working, Sound, State, Image, Held, Cut, Final, Tree, Refused, Temp
  <2> QED BY <2>1, <2>2, <2>3, <2>4 DEF IInv
<1>2. CASE Step
  BY <1>2, KeepStep, OpenStep, WriteStep, DropStep, PlaceStep, CleanStep, ReportStep, EndStep,
     TrierDeleteStep, TrierMoveStep DEF Step
<1> QED BY <1>1, <1>2, StartStep, WriteFailsStep, EndStep DEF Next

LEMMA IInvInvariant == Spec => []IInv
BY InitIInv, NextIInv, PTL DEF Spec

\* Every variable of the destination keeps its type.
THEOREM ExtractTypeOK == Spec => []TypeOK
<1>1. IInv => TypeOK
  BY DEF IInv
<1> QED BY <1>1, IInvInvariant, PTL

-----------------------------------------------------------------------------
(* The main tree.                                                          *)

\* What a step may do to a path of the main tree, when no run mixes partial
\* files in: nothing, remove a shell, put a whole file there, or sort out a file
\* that the report calls partial.
MainEntry(t) ==
  LET m == <<"main", t>> IN
  \/ fs'[m] = fs[m]
  \/ fs'[m] = Absent /\ Null(fs[m])
  \/ cur \in Files /\ t = Target[cur] /\ fs'[m] = Image(cur, size[cur])
  \/ /\ fs'[m] = Absent /\ pc = "trier" /\ cur \in Files /\ report[cur] # NoResult
     /\ report[cur].state = "PARTIEL" /\ report[cur].at = m

LEMMA MainSteps ==
  ASSUME IInv, [Next]_vars, AllApart, NEW t \in Targets
  PROVE  MainEntry(t)
<1> DEFINE m == <<"main", t>>
<1>0. /\ m \in Places /\ fs \in [Places -> Contents \cup {Absent}] /\ \A x : m # Temp(x)
      /\ m[1] = "main" /\ m[2] = t
  BY DEF IInv, TypeOK, Places, PathTrees, Temp
<1> HIDE DEF m
<1>1. CASE UNCHANGED fs
  BY <1>1 DEF MainEntry
<1>2. CASE Open \/ WriteBlock \/ WriteFails \/ DropIncomplete
  <2>1. fs'[m] = fs[m]
    BY <1>0, <1>2 DEF Open, WriteBlock, WriteFails, DropIncomplete
  <2> QED BY <2>1 DEF MainEntry, m
<1>3. CASE DropLost
  <2>1. fs' = Swept([fs EXCEPT ![Temp(cur)] = Absent], Nowhere)
    BY <1>3 DEF DropLost
  <2>2. fs'[m] = fs[m] \/ (fs'[m] = Absent /\ Null(fs[m]))
    BY <1>0, <2>1 DEF Swept
  <2> QED BY <2>2 DEF MainEntry, m
<1>4. CASE Clean
  <2>1. fs'[m] = fs[m] \/ (fs'[m] = Absent /\ Null(fs[m]))
    BY <1>0, <1>4 DEF Clean, Swept
  <2> QED BY <2>1 DEF MainEntry, m
<1>5. CASE PlaceFlat
  <2>1. fs'[m] = fs[m]
    BY <1>0, <1>5 DEF PlaceFlat, Moved
  <2> QED BY <2>1 DEF MainEntry, m
<1>6. CASE Place
  <2>1. /\ fs' = Moved(Temp(cur), <<Tree, Target[cur]>>) /\ cur \in Files
        /\ opt.apart /\ Sound(Temp(cur)) /\ fs[Temp(cur)] # Absent
    BY <1>6 DEF Place, Kept, IInv, Control, Working, AllApart
  <2>2. CASE m # <<Tree, Target[cur]>>
    <3>1. fs'[m] = fs[m]
      BY <1>0, <2>1, <2>2 DEF Moved
    <3> QED BY <3>1 DEF MainEntry, m
  <2>3. CASE m = <<Tree, Target[cur]>>
    <3>1. Tree = "main" /\ t = Target[cur]
      BY <1>0, <2>3
    <3>2. State \in {"COMPLET", "VIDE"}
      BY <2>1, <3>1, StateType DEF Tree
    <3>3. fs'[m] = fs[Temp(cur)]
      BY <1>0, <2>1, <2>3 DEF Moved
    <3> QED BY <2>1, <3>1, <3>2, <3>3 DEF MainEntry, Sound, m
  <2> QED BY <2>2, <2>3
<1>7. CASE TrierDelete
  <2>1. /\ fs' = [fs EXCEPT ![report[cur].at] = Absent]
        /\ Null(fs[report[cur].at])
    BY <1>7 DEF TrierDelete
  <2>2. fs'[m] = fs[m] \/ (fs'[m] = Absent /\ Null(fs[m]))
    BY <1>0, <2>1
  <2> QED BY <2>2 DEF MainEntry, m
<1>8. CASE TrierMove
  <2> DEFINE p == report[cur].at
  <2>1. /\ pc = "trier" /\ cur \in Files /\ report[cur] # NoResult /\ report[cur].state = "PARTIEL"
        /\ p \in Places /\ p[1] \in {"main", "conflits"}
        /\ fs' = [fs EXCEPT ![Sorted(p)] = fs[p], ![p] = Absent]
    BY <1>8, ListedType DEF TrierMove, Listed, Moved, IInv
  <2> HIDE DEF p
  <2>2. Sorted(p) # m
    BY <1>0, <2>1 DEF Sorted
  <2>3. CASE p = m
    <3>1. fs'[m] = Absent
      BY <1>0, <2>1, <2>2, <2>3
    <3> QED BY <2>1, <2>3, <3>1 DEF MainEntry, m, p
  <2>4. CASE p # m
    <3>1. fs'[m] = fs[m]
      BY <1>0, <2>1, <2>2, <2>4
    <3> QED BY <3>1 DEF MainEntry, m
  <2> QED BY <2>3, <2>4
<1> QED BY <1>1, <1>2, <1>3, <1>4, <1>5, <1>6, <1>7, <1>8
    DEF Next, Step, vars, StartRun, StartTrier, Keep, Truncate, Dump, LastDump, TrierFails,
        TrierLeave, TrierEnd, DestinationFails, Crash

\* What was extracted with the size of the run is whole.
LEMMA ImageWhole ==
  ASSUME TypeOK, NEW f \in Files
  PROVE  Whole(f, Image(f, size[f]))
<1>1. size[f] \in {Length[f], Unknown} /\ size[f] \in Nat \cup {Unknown}
  BY DEF TypeOK
<1> QED BY <1>1, ImageContent DEF Whole

\* A run without --melanger puts under a dataset only verified files, each at its
\* path, and those whose path is refused, whatever earlier runs left there.
\* (Code: extraire_noeuds, _ranger, _chemin_de_secours, cmd_trier.)
THEOREM ExtractOnlyVerifiedPlaced == Spec => OnlyVerifiedPlaced
<1> DEFINE Verified(p) ==
             \/ \E f \in Files : p \in {Main(f), <<"conflits", f>>} /\ Whole(f, fs'[p])
             \/ p = <<"conflits", cur>> /\ Refused(Tree, Target[cur])
<1>1. ASSUME IInv, [Next]_vars, opt.apart, NEW p \in Places, p[1] \in {"main", "conflits"},
             fs'[p] \notin {fs[p], Absent}
      PROVE  Verified(p)
  <2>0. fs \in [Places -> Contents \cup {Absent}] /\ \A x : p # Temp(x)
    BY <1>1 DEF IInv, TypeOK, Temp
  <2>1. CASE Open \/ WriteBlock \/ WriteFails \/ DropIncomplete
    BY <1>1, <2>0, <2>1 DEF Open, WriteBlock, WriteFails, DropIncomplete
  <2>2. CASE DropLost \/ Clean
    BY <1>1, <2>0, <2>2 DEF DropLost, Clean, Swept
  <2>3. CASE TrierDelete
    BY <1>1, <2>0, <2>3 DEF TrierDelete
  <2>4. CASE TrierMove
    <3>1. Sorted(report[cur].at) # p
      BY <1>1 DEF Sorted
    <3> QED BY <1>1, <2>0, <2>4, <3>1 DEF TrierMove, Moved
  <2>5. CASE PlaceFlat
    <3>1. p = <<"conflits", cur>>
      BY <1>1, <2>0, <2>5 DEF PlaceFlat, Moved
    <3> QED BY <2>5, <3>1 DEF PlaceFlat
  <2>6. CASE Place
    <3>1. p = <<Tree, Target[cur]>> /\ fs'[p] = fs[Temp(cur)] /\ cur \in Files /\ Sound(Temp(cur))
      BY <1>1, <2>0, <2>6 DEF Place, Moved, Kept, IInv, Control, Working
    <3>2. Tree = "main"
      BY <1>1, <3>1 DEF Tree
    <3>3. State \in {"COMPLET", "VIDE"}
      BY <1>1, <3>2, StateType DEF Tree
    <3>4. p = Main(cur) /\ Whole(cur, fs'[p])
      BY <1>1, <3>1, <3>2, <3>3, ImageWhole DEF Main, Sound, IInv
    <3> QED BY <3>1, <3>4
  <2> QED BY <1>1, <2>1, <2>2, <2>3, <2>4, <2>5, <2>6
      DEF Next, Step, vars, StartRun, StartTrier, Keep, Truncate, Dump, LastDump, TrierFails,
          TrierLeave, TrierEnd, DestinationFails, Crash
<1>2. IInv /\ [Next]_vars =>
        [opt.apart =>
           \A p \in Places :
             p[1] \in {"main", "conflits"} /\ fs'[p] \notin {fs[p], Absent} => Verified(p)]_vars
  BY <1>1
<1> QED BY <1>2, IInvInvariant, PTL DEF Spec, OnlyVerifiedPlaced

\* The report never calls partial a file of the main tree, unless a run mixes
\* them in.  WholeStaysWhole rests on it: cmd_trier() moves what the report names.
Partial(r, f) == r[f] # NoResult /\ r[f].state = "PARTIEL" /\ r[f].at # Nowhere
MainNotPartial(r) == \A f \in Files : Partial(r, f) => r[f].at[1] # "main"
PartialApart ==
  AllApart => MainNotPartial(results) /\ (report \in [Files -> Results] => MainNotPartial(report))

LEMMA PartialApartStep ==
  ASSUME IInv, PartialApart, [Next]_vars
  PROVE  PartialApart'
<1> SUFFICES ASSUME AllApart PROVE MainNotPartial(results') /\ (report' \in [Files -> Results] => MainNotPartial(report'))
  BY DEF PartialApart, AllApart, MainNotPartial, Partial
<1>1. MainNotPartial(results) /\ (report \in [Files -> Results] => MainNotPartial(report))
  BY DEF PartialApart
<1>2. Truncated \notin [Files -> Results] /\ MainNotPartial(NoResults)
  BY MarkAssumption DEF MainNotPartial, Partial, NoResults
<1>3. ASSUME NEW state, NEW at, Conclude(state, at), cur \in Files,
             state = "PARTIEL" /\ at # Nowhere => at[1] # "main"
      PROVE  MainNotPartial(results') /\ report' = report
  BY <1>1, <1>3 DEF Conclude, MainNotPartial, Partial, IInv, TypeOK
<1>4. CASE Keep
  <2>1. cur \in Files /\ Conclude("DEJA_EXTRAIT", AlreadyThere(cur))
    BY <1>4 DEF Keep, IInv, Control
  <2>2. MainNotPartial(results') /\ report' = report
    BY <1>3, <2>1
  <2> QED BY <1>1, <2>2
<1>5. CASE WriteFails \/ DropLost \/ DropIncomplete
  <2>1. cur \in Files /\ \E state \in States : Conclude(state, Nowhere)
    BY <1>5, StateType DEF WriteFails, ToExtract, DropLost, DropIncomplete, IInv, Control, States
  <2>2. MainNotPartial(results') /\ report' = report
    BY <1>3, <2>1
  <2> QED BY <1>1, <2>2
<1>6. CASE Clean
  <2>1. cur \in Files /\ Conclude(State, Final) /\ opt.apart
    BY <1>6 DEF Clean, IInv, Control, AllApart
  <2>2. State = "PARTIEL" => Final[1] # "main"
    BY <2>1 DEF Final, Tree
  <2> QED BY <1>1, <1>3, <2>1, <2>2
<1>7. CASE UNCHANGED <<report, results>>
  BY <1>1, <1>7
<1>8. CASE Truncate \/ Dump \/ LastDump \/ \E how \in {"idle", "aborted"} : Halt(how) /\ UNCHANGED report
  BY <1>1, <1>2, <1>8 DEF Truncate, Dump, LastDump, Halt
<1> QED BY <1>4, <1>5, <1>6, <1>7, <1>8
    DEF Next, Step, vars, StartRun, StartTrier, Open, WriteBlock, Place, PlaceFlat, TrierFails, TrierMove,
        TrierDelete, TrierNext, TrierLeave, TrierEnd, DestinationFails, Crash

LEMMA PartialApartInvariant == Spec => []PartialApart
<1>1. Init => PartialApart
  BY MarkAssumption DEF Init, PartialApart, MainNotPartial, Partial, NoResults
<1> QED BY <1>1, PartialApartStep, IInvInvariant, PTL DEF Spec

\* No two files of the index share a path.  Two datasets may give the same prefix
\* to their files, and then one replaces the other; what follows is not said then.
PathsDistinct == \A f, g \in Files : Target[f] = Target[g] => f = g

\* When no run uses --melanger, a file once recovered whole is never lost to a later
\* run, a crash, resuming or sorting: it stays as it is, or is written again as the
\* run, with the size it knows or without, sees the whole of it. (Code: _deja_extrait, _nettoyer_coquilles, extraire_noeuds, cmd_trier.)
THEOREM ExtractWholeStaysWhole ==
  ASSUME PathsDistinct
  PROVE  Spec => WholeStaysWhole
<1>1. ASSUME IInv, PartialApart, [Next]_vars, AllApart, NEW f \in Files,
             Whole(f, fs[Main(f)]), ~Null(fs[Main(f)])
      PROVE  fs'[Main(f)] \in {fs[Main(f)], Image(f, size[f])}
  <2>1. MainEntry(Target[f])
    BY <1>1, MainSteps, PlacesOfFile
  <2>2. ASSUME pc = "trier", cur \in Files, report[cur] # NoResult, report[cur].state = "PARTIEL",
               report[cur].at = Main(f)
        PROVE  FALSE
    <3>1. report \in [Files -> Results] /\ Main(f) # Nowhere /\ Main(f)[1] = "main"
      BY <1>1, <2>2, MarkAssumption, PlacesOfFile DEF IInv, Control, Main, PathTrees
    <3> QED BY <1>1, <2>2, <3>1 DEF PartialApart, MainNotPartial, Partial
  <2> QED BY <1>1, <2>1, <2>2 DEF MainEntry, PathsDistinct, Main
<1>2. IInv /\ PartialApart /\ [Next]_vars =>
        [AllApart => \A f \in Files :
           Whole(f, fs[Main(f)]) /\ ~Null(fs[Main(f)])
           => fs'[Main(f)] \in {fs[Main(f)], Image(f, size[f])}]_vars
  BY <1>1
<1> QED BY <1>2, IInvInvariant, PartialApartInvariant, PTL DEF Spec, WholeStaysWhole

-----------------------------------------------------------------------------
(* The report.                                                             *)

\* Where a file may be, for the report.
OwnPlaces(f) == {<<tree, Target[f]>> : tree \in PathTrees} \cup {<<"conflits", f>>}

\* The file at hand takes no place of another file, and cleans none.
LEMMA OthersUntouched ==
  ASSUME PathsDistinct, IInv, [Next]_vars, pc # "trier",
         NEW f \in Files, f # cur, NEW p \in OwnPlaces(f)
  PROVE  fs'[p] = fs[p]
<1>0. p = <<"conflits", f>> \/ \E tree \in PathTrees : p = <<tree, Target[f]>>
  BY DEF OwnPlaces
<1>1. /\ p \in Places /\ p # Temp(cur) /\ fs \in [Places -> Contents \cup {Absent}]
  <2>1. p \in Places
    BY <1>0, PlacesOfFile
  <2>2. p[1] # "temp"
    BY <1>0 DEF PathTrees
  <2> QED BY <2>1, <2>2 DEF Temp, IInv, TypeOK
<1>2. cur \in Files => \A tree \in PathTrees : p # <<tree, Target[cur]>>
  <2>1. CASE p = <<"conflits", f>>
    <3>1. p[1] = "conflits" /\ "conflits" \notin PathTrees
      BY <2>1 DEF PathTrees
    <3> QED BY <3>1
  <2>2. CASE \E tree \in PathTrees : p = <<tree, Target[f]>>
    <3>1. p[2] = Target[f]
      BY <2>2
    <3> QED BY <3>1 DEF PathsDistinct
  <2> QED BY <1>0, <2>1, <2>2
<1>3. p # <<"conflits", cur>>
  <2>1. p[1] = "conflits" => p[2] = f
    BY <1>0 DEF PathTrees
  <2> QED BY <2>1
<1>4. cur \in Files => p \notin Earlier(cur)
  BY <1>2 DEF Earlier, Main, Partiels, PathTrees
<1>5. CASE Open \/ WriteBlock \/ WriteFails \/ DropIncomplete
  BY <1>1, <1>5 DEF Open, WriteBlock, WriteFails, DropIncomplete
<1>6. CASE DropLost
  <2>1. fs' = Swept([fs EXCEPT ![Temp(cur)] = Absent], Nowhere) /\ cur \in Files
    BY <1>6 DEF DropLost, IInv, Control
  <2> QED BY <1>1, <1>4, <2>1 DEF Swept
<1>7. CASE Clean
  <2>1. fs' = Swept(fs, Final) /\ cur \in Files
    BY <1>7 DEF Clean, IInv, Control
  <2> QED BY <1>1, <1>4, <2>1 DEF Swept
<1>8. CASE Place \/ PlaceFlat
  <2>1. cur \in Files
    BY <1>8 DEF Place, PlaceFlat, Kept, IInv, Control
  <2> QED BY <1>1, <1>2, <1>3, <1>8, <2>1, TreeType DEF Place, PlaceFlat, Moved
<1> QED BY <1>5, <1>6, <1>7, <1>8
    DEF Next, Step, vars, StartRun, StartTrier, Keep, Truncate, Dump, LastDump, TrierFails, Listed,
        TrierMove, TrierDelete, TrierLeave, TrierEnd, DestinationFails, Crash

\* What the report says of f, and that it gives it a place of its own: without that,
\* ReportMatchesDisk is not inductive, as a later file could use the place.
Told(f) ==
  results[f] # NoResult /\ results[f].at # Nowhere =>
    /\ results[f].at \in OwnPlaces(f)
    /\ fs[results[f].at] # Absent
    /\ fs[results[f].at].of = f
    /\ results[f].state = "COMPLET" => fs[results[f].at] = Image(f, results[f].size)
    /\ results[f].state = "DEJA_EXTRAIT" /\ results[f].size \notin {Unknown, 0}
         => fs[results[f].at].len = results[f].size /\ ~Null(fs[results[f].at])

\* What is in a place of a file comes from that file.
LEMMA OwnContent ==
  ASSUME PathsDistinct, TypeOK, Owned, NEW f \in Files, NEW p \in OwnPlaces(f), fs[p] # Absent
  PROVE  fs[p].of = f
<1>1. p \in Places
  BY PlacesOfFile DEF OwnPlaces
<1>2. fs[p].of \in Files
  BY <1>1, ContentType DEF TypeOK
<1>3. CASE p = <<"conflits", f>>
  BY <1>1, <1>3 DEF Owned, PathTrees
<1>4. CASE \E tree \in PathTrees : p = <<tree, Target[f]>>
  <2>1. p[1] \in PathTrees /\ p[2] = Target[f]
    BY <1>4
  <2> QED BY <1>1, <1>2, <2>1 DEF Owned, PathsDistinct
<1> QED BY <1>3, <1>4 DEF OwnPlaces

\* A file without a place is reported so.
LEMMA ToldNowhere ==
  ASSUME TypeOK, NEW f \in Files, f = cur, NEW state \in States, Conclude(state, Nowhere)
  PROVE  Told(f)'
<1>1. results'[f] = [state |-> state, at |-> Nowhere, size |-> size[cur]]
  BY DEF Conclude, TypeOK
<1> QED BY <1>1 DEF Told

LEMMA ToldStep ==
  ASSUME PathsDistinct, IInv, \A f \in Files : Told(f), [Next]_vars
  PROVE  \A f \in Files : Told(f)'
<1> SUFFICES ASSUME NEW f \in Files PROVE Told(f)'
  OBVIOUS
<1>0. TypeOK /\ Control /\ Owned
  BY DEF IInv
<1>1. CASE results'[f] = NoResult
  BY <1>1 DEF Told
<1>2. CASE f # cur /\ pc # "trier" /\ results'[f] = results[f] /\ results'[f] # NoResult
  <2>1. \A p \in OwnPlaces(f) : fs'[p] = fs[p]
    BY <1>2, OthersUntouched
  <2> QED BY <1>2, <2>1 DEF Told
<1>3. ASSUME cur \in Files, NEW state \in States, NEW at, Conclude(state, at)
      PROVE  \A g \in Files \ {cur} : results'[g] = results[g]
  BY <1>0, <1>3 DEF Conclude, TypeOK
<1>4. CASE WriteFails \/ DropLost \/ DropIncomplete
  <2>1. cur \in Files /\ pc # "trier" /\ \E state \in States : Conclude(state, Nowhere)
    BY <1>0, <1>4, StateType DEF WriteFails, ToExtract, DropLost, DropIncomplete, Control, States
  <2>2. PICK state \in States : Conclude(state, Nowhere)
    BY <2>1
  <2>3. f = cur => Told(f)'
    BY <1>0, <2>1, <2>2, ToldNowhere
  <2> QED BY <1>1, <1>2, <1>3, <2>1, <2>2, <2>3
<1>5. CASE Keep
  <2> DEFINE at == AlreadyThere(cur)
  <2>1. cur \in Files /\ pc = "file" /\ at # Nowhere /\ Conclude("DEJA_EXTRAIT", at) /\ fs' = fs
    BY <1>0, <1>5 DEF Keep, Control
  <2>2. /\ at \in Fitting(cur) /\ at \in {Main(cur), Partiels(cur)}
        /\ size[cur] \notin {Unknown, 0} => fs[at].len = size[cur] /\ ~Null(fs[at])
    BY <1>0, <2>1, AlreadyThereType
  <2>3. fs[at] # Absent /\ at \in OwnPlaces(cur)
    BY <2>2 DEF Fitting, OwnPlaces, Main, Partiels, PathTrees
  <2>4. fs[at].of = cur
    BY <1>0, <2>1, <2>3, OwnContent
  <2>5. results'[cur] = [state |-> "DEJA_EXTRAIT", at |-> at, size |-> size[cur]]
    BY <1>0, <2>1 DEF Conclude, TypeOK
  <2>6. f = cur => Told(f)'
    BY <2>1, <2>2, <2>3, <2>4, <2>5 DEF Told, Null
  <2> QED BY <1>1, <1>2, <1>3, <2>1, <2>6 DEF States
<1>6. CASE Clean
  <2>1. cur \in Files /\ pc = "clean" /\ Conclude(State, Final) /\ fs' = Swept(fs, Final)
        /\ fs[Final] # Absent /\ Sound(Final)
    BY <1>0, <1>6 DEF Clean, Control, IInv, Working
  <2>2. Final \in OwnPlaces(cur) /\ Final \in Places
    BY <2>1, TreeType, PlacesOfFile DEF OwnPlaces, Final
  <2>3. fs'[Final] = fs[Final]
    BY <1>0, <2>1, <2>2, SweptType DEF TypeOK
  <2>4. fs[Final].of = cur
    BY <1>0, <2>1, <2>2, OwnContent
  <2>5. results'[cur] = [state |-> State, at |-> Final, size |-> size[cur]]
    BY <1>0, <2>1 DEF Conclude, TypeOK
  <2>6. State # "DEJA_EXTRAIT"
    BY StateType
  <2>7. f = cur => Told(f)'
    BY <2>1, <2>2, <2>3, <2>4, <2>5, <2>6 DEF Told, Sound
  <2> QED BY <1>1, <1>2, <1>3, <2>1, <2>7, StateType
<1>7. CASE results' = results
  <2>1. CASE results[f] = NoResult
    BY <1>1, <1>7, <2>1
  <2>2. CASE results[f] # NoResult
    <3>1. pc # "trier" /\ f < cur /\ f # cur
      BY <1>0, <2>2 DEF Control, NoResults, Files, TypeOK
    <3> QED BY <1>2, <1>7, <2>2, <3>1
  <2> QED BY <2>1, <2>2
<1>8. CASE results' = NoResults
  BY <1>1, <1>8 DEF NoResults
<1> QED BY <1>4, <1>5, <1>6, <1>7, <1>8
    DEF Next, Step, vars, StartRun, StartTrier, Open, WriteBlock, Place, PlaceFlat, Truncate, Dump,
        LastDump, TrierFails, TrierMove, TrierDelete, TrierNext, TrierLeave, TrierEnd, DestinationFails,
        Crash, Halt

\* When the report is written every file is where it says, with what it says,
\* whatever the files after it did. (Code: extraire_noeuds, cmd_extract.)
THEOREM ExtractReportMatchesDisk ==
  ASSUME PathsDistinct
  PROVE  Spec => []ReportMatchesDisk
<1>1. Init => \A f \in Files : Told(f)
  BY DEF Init, Told, NoResults
<1>2. IInv /\ (\A f \in Files : Told(f)) /\ [Next]_vars => (\A f \in Files : Told(f))'
  BY ToldStep
<1>3. (\A f \in Files : Told(f)) => ReportMatchesDisk
  BY DEF Told, ReportMatchesDisk
<1> QED BY <1>1, <1>2, <1>3, IInvInvariant, PTL DEF Spec

\* A file whole is not read again by a run that resumes. (Code: _deja_extrait.)
THEOREM ExtractWorkIsNotRedone == Spec => WorkIsNotRedone
<1>1. ASSUME IInv, [Next]_vars, NEW f \in Files, opt.resume, pc = "file", cur = f,
             Done(f, fs[Main(f)]), vars' # vars
      PROVE  \/ pc' = "idle"
             \/ results'[f] = [state |-> "DEJA_EXTRAIT", at |-> Main(f), size |-> size[f]]
  <2>1. fs[Main(f)] # Absent /\ size[f] \in {Unknown, fs[Main(f)].len}
    <3>1. CASE size[f] = Unknown
      BY <1>1, <3>1 DEF Done, Whole
    <3>2. CASE size[f] # Unknown
      <4>1. /\ fs[Main(f)] = Image(f, size[f]) /\ size[f] <= 2 * NBlocks[f]
            /\ size[f] \in Nat \cup {Unknown} /\ size[f] \in Nat
        BY <1>1, <3>2 DEF Done, IInv, TypeOK
      <4>2. fs[Main(f)] # Absent
        BY <4>1, ImageContent
      <4>3. Image(f, size[f]).len = size[f]
        BY <3>2, <4>1, BlocksType DEF Image, Cut
      <4> QED BY <4>1, <4>2, <4>3
    <3> QED BY <3>1, <3>2
  <2>2. Main(f) \in Fitting(f)
    BY <2>1 DEF Fitting, Earlier
  <2>3. AlreadyThere(f) = Main(f) /\ Main(f) # Nowhere
    <3>1. size[f] # Unknown => ~Null(fs[Main(f)])
      BY <1>1 DEF Done
    <3> QED BY <2>2, <3>1, MarkAssumption, PlacesOfFile DEF AlreadyThere, Main, PathTrees
  <2>4. Keep \/ Crash
    BY <1>1, <2>3 DEF Next, Step, StartRun, StartTrier, Open, ToExtract, WriteBlock, WriteFails, DropLost,
       DropIncomplete, Place, PlaceFlat, Kept, Clean, Truncate, Dump, LastDump, DestinationFails,
       TrierDelete, TrierMove, TrierFails, Listed, TrierLeave, TrierEnd
  <2>5. CASE Keep
    BY <1>1, <2>3, <2>5 DEF Keep, Conclude, IInv, TypeOK
  <2>6. CASE Crash
    BY <2>6 DEF Crash, Halt
  <2> QED BY <2>4, <2>5, <2>6
<1>2. IInv /\ [Next]_vars =>
        [\A f \in Files : /\ opt.resume
                          /\ pc = "file"
                          /\ cur = f
                          /\ Done(f, fs[Main(f)])
                          => \/ pc' = "idle"
                             \/ results'[f] = [state |-> "DEJA_EXTRAIT", at |-> Main(f), size |-> size[f]]]_vars
  BY <1>1
<1> QED BY <1>2, IInvInvariant, PTL DEF Spec, WorkIsNotRedone
=============================================================================
