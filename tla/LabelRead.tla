----------------------------- MODULE LabelRead -----------------------------
(***************************************************************************)
(* read_all_labels() of src/zfsrescue/label.py and the nvlist decoder it   *)
(* runs on each label (nvlist.py).                                         *)
(*                                                                         *)
(* A buffer is a function from positions to words of 32 bits.  Its words   *)
(* are chosen when they are first read and kept from then on, so that the  *)
(* runs go through every buffer without listing what no one looks at.      *)
(* Lengths and sizes are counted in words.                                 *)
(***************************************************************************)
EXTENDS Integers, Sequences

CONSTANTS
  NLabels,      \* VDEV_LABELS
  BufLen,       \* words of the region that holds the nvlist
  MaxDepth,     \* lists that fit in one another before RecursionError
  Sizes,        \* words met where encoded_size is (a bound of the model)
  Lengths,      \* words met where the length of a string is (idem)
  Types,        \* words met where a type is (idem)
  Counts        \* words met where a number of elements is (idem)

ASSUME LabelAssumption ==
  /\ NLabels \in Nat
  /\ BufLen \in Nat \ {0}
  /\ MaxDepth \in Nat \ {0}
  /\ Sizes \cup Lengths \cup Types \cup Counts \subseteq Int

VARIABLES
  read,         \* labels read so far
  buf,          \* words of it looked at so far
  pos,          \* r.pos
  lists,        \* lists being decoded, the innermost first
  pc            \* what is read next; "label" between labels

vars == <<read, buf, pos, lists, pc>>

\* Types of nvpair.c, by how many words their values and elements take.
Boolean == 1
OneWord == {2, 3, 4, 5, 6, 21, 22, 23}
TwoWords == {7, 8, 18, 27}
String == 9
ByteArray == 10
OneWordArray == {11, 12, 13, 14, 24, 25, 26}
TwoWordArray == {15, 16}
StringArray == 17
List == 19
ListArray == 20

\* first and start: where the first pair begins, and the one being decoded;
\* pairs: where those decoded begin; type, left: of the value being read.
NewList(p) == [first |-> p, start |-> p, pairs |-> {}, type |-> 0, left |-> 0]

Positions == 0 .. BufLen
Statuses == {"absent", "ok", "broken", "unexpected"}

\* The reader stays in the buffer, but while a pair is closed: a size, a length or
\* a count, checked or not, never sends it past the end or before the beginning.
\* (Code: _take, _parse_body.)
TypeOK ==
  /\ read \in Seq(Statuses) /\ Len(read) <= NLabels
  /\ DOMAIN buf \subseteq Positions
  /\ pos \in Int /\ (pc # "close" => pos \in Positions)
  /\ \A i \in DOMAIN lists :
       lists[i] \in [first : Positions, start : Positions, pairs : SUBSET Positions,
                     type : Int, left : Int]
  /\ pc \in {"label", "header", "body", "size", "name", "type", "nelem",
             "value", "close", "done"}

Init ==
  /\ read = <<>>
  /\ buf = <<>>
  /\ pos = 0
  /\ lists = <<>>
  /\ pc = "label"

-----------------------------------------------------------------------------
(* read_all_labels(), read_label()                                         *)

Label(status) ==
  /\ read' = Append(read, status)
  /\ pc' = "label"
  /\ buf' = <<>>
  /\ pos' = 0
  /\ lists' = <<>>

\* pread() failed.
CannotRead ==
  /\ pc = "label"
  /\ Len(read) < NLabels
  /\ Label("absent")

\* The nvlist is decoded whatever the checksum says.
StartLabel ==
  /\ pc = "label"
  /\ Len(read) < NLabels
  /\ pc' = "header"
  /\ UNCHANGED <<read, buf, pos, lists>>

EndLabels ==
  /\ pc = "label"
  /\ Len(read) = NLabels
  /\ pc' = "done"
  /\ UNCHANGED <<read, buf, pos, lists>>

\* NvlistError
Break == Label("broken")

ReadHeader ==
  /\ pc = "header"
  /\ \/ Break                    \* another encoding than XDR
     \/ /\ pos' = 1
        /\ lists' = <<NewList(1)>>
        /\ pc' = "body"
        /\ UNCHANGED <<read, buf>>

-----------------------------------------------------------------------------
(* _XdrReader                                                              *)

Inside(n) == pos + n <= BufLen

Move(n, step) ==
  /\ pos' = pos + n
  /\ pc' = step
  /\ UNCHANGED read

\* The word at p, one of S if nobody looked at it before.
At(p, S) == IF p \in DOMAIN buf THEN {buf[p]} ELSE S
With(p, w) == [x \in DOMAIN buf \cup {p} |-> IF x = p THEN w ELSE buf[x]]

\* Reading a string, then doing step with other lists; a negative length is more
\* than 2^31 as uint32.
ReadString(step, others) ==
  IF ~Inside(1) THEN Break
  ELSE \E w \in At(pos, Lengths) :
         IF w < 0 \/ ~Inside(1 + w) THEN Break
         ELSE /\ buf' = With(pos, w)
              /\ Move(1 + w, step)
              /\ lists' = others

-----------------------------------------------------------------------------
(* _parse_body(): the pairs of a list.                                     *)

Cur == lists[1]
WithCur(l) == <<l>> \o Tail(lists)

\* version, nvflag
BeginList ==
  /\ pc = "body"
  /\ IF Len(lists) > MaxDepth THEN Label("unexpected")    \* RecursionError
     ELSE IF ~Inside(2) THEN Break
     ELSE Move(2, "size") /\ lists' = WithCur(NewList(pos + 2)) /\ UNCHANGED buf

EndOfList == {<<0, 0>>}

\* Both words are only looked at when the first is zero.
SizesAt == {s \in At(pos, Sizes) \X At(pos + 1, {0, 1}) :
              s[1] # 0 /\ pos + 1 \notin DOMAIN buf => s[2] = 1}

\* Mutant: the size is not compared with the end of the buffer.
BeginPair_Unbounded ==
  /\ pc = "size"
  /\ Inside(2)
  /\ \E s \in SizesAt \ EndOfList :
       IF s[1] < 0 THEN Break
       ELSE /\ buf' = With(pos, s[1])
            /\ Move(2, "name")
            /\ UNCHANGED lists

BeginPair ==
  /\ pc = "size"
  /\ Inside(2)
  /\ \E s \in SizesAt \ EndOfList :
       IF s[1] < 0 \/ pos + s[1] > BufLen THEN Break
       ELSE /\ buf' = IF s[1] = 0
                      THEN [x \in DOMAIN buf \cup {pos, pos + 1} |->
                              IF x = pos THEN 0 ELSE IF x = pos + 1 THEN s[2] ELSE buf[x]]
                      ELSE With(pos, s[1])
            /\ Move(2, "name")
            /\ UNCHANGED lists

BreakPair == pc = "size" /\ ~Inside(2) /\ Break

\* The innermost list ends: the label, another list of an array, or a pair of
\* the list around it.
EndList ==
  /\ pc = "size"
  /\ Inside(2)
  /\ SizesAt \cap EndOfList # {}
  /\ IF Len(lists) = 1 THEN Label("ok")
     ELSE /\ lists' = Tail(lists)
          /\ buf' = buf
          /\ Move(2, "value")

ReadName ==
  /\ pc = "name"
  /\ ReadString("type", lists)

ReadType ==
  /\ pc = "type"
  /\ IF ~Inside(1) THEN Break
     ELSE \E t \in At(pos, Types) :
            /\ buf' = With(pos, t)
            /\ Move(1, "nelem")
            /\ lists' = WithCur([Cur EXCEPT !.type = t])

\* What is left to read of the value: one string, one list, or nelem elements.
ReadNelem ==
  /\ pc = "nelem"
  /\ IF ~Inside(1) THEN Break
     ELSE \E n \in At(pos, Counts) :
            /\ buf' = With(pos, n)
            /\ Move(1, "value")
            /\ lists' = WithCur([Cur EXCEPT !.left = IF Cur.type \in {String, List} /\ n # 0 THEN 1 ELSE n])

-----------------------------------------------------------------------------
(* _read_value()                                                           *)

Skip(n) ==
  IF Inside(n) THEN Move(n, "close") /\ UNCHANGED <<buf, lists>> ELSE Break

Element(one, two) == IF Cur.type \in one THEN 1 ELSE 2

ReadNothing ==
  /\ pc = "value"
  /\ \/ Cur.type = Boolean \/ Cur.left = 0
     \/ Cur.type \in {StringArray, ListArray} /\ Cur.left < 0     \* range() is empty
  /\ Move(0, "close")
  /\ UNCHANGED <<buf, lists>>

ReadScalar ==
  /\ pc = "value"
  /\ Cur.left # 0
  /\ Cur.type \in OneWord \cup TwoWords
  /\ Skip(Element(OneWord, TwoWords))

\* A negative number of bytes moves the reader back, before it is moved again.
ReadOpaque ==
  /\ pc = "value"
  /\ Cur.left # 0
  /\ Cur.type = ByteArray
  /\ Skip(Cur.left)

ReadArray ==
  /\ pc = "value"
  /\ Cur.left # 0
  /\ Cur.type \in OneWordArray \cup TwoWordArray
  /\ IF ~Inside(1) THEN Break
     ELSE \E n \in At(pos, Counts) :
            IF n # Cur.left \/ n < 0 \/ ~Inside(1 + n * Element(OneWordArray, TwoWordArray))
            THEN Break
            ELSE /\ buf' = With(pos, n)
                 /\ Move(1 + n * Element(OneWordArray, TwoWordArray), "close")
                 /\ UNCHANGED lists

ReadStrings ==
  /\ pc = "value"
  /\ Cur.left > 0
  /\ Cur.type \in {String, StringArray}
  /\ ReadString("value", WithCur([Cur EXCEPT !.left = @ - 1]))

ReadList ==
  /\ pc = "value"
  /\ Cur.left > 0
  /\ Cur.type \in {List, ListArray}
  /\ Move(0, "body")
  /\ lists' = <<NewList(pos), [Cur EXCEPT !.left = @ - 1]>> \o Tail(lists)
  /\ UNCHANGED buf

Known == {Boolean, String, ByteArray, StringArray, List, ListArray}
         \cup OneWord \cup TwoWords \cup OneWordArray \cup TwoWordArray

ReadUnknown ==
  /\ pc = "value"
  /\ Cur.left # 0
  /\ Cur.type \notin Known
  /\ Break

\* Mutant: the end expected is counted from the beginning of the list.
ClosePair_OfList ==
  /\ pc = "close"
  /\ LET next == Cur.first + buf[Cur.start] IN
     /\ lists' = WithCur([Cur EXCEPT !.pairs = @ \cup {Cur.start}, !.start = next])
     /\ pos' = next
  /\ pc' = "size"
  /\ UNCHANGED <<read, buf>>

\* Mutant: the reader stays where the value ended.
ClosePair_NoResync ==
  /\ pc = "close"
  /\ lists' = WithCur([Cur EXCEPT !.pairs = @ \cup {Cur.start}, !.start = pos])
  /\ pc' = "size"
  /\ UNCHANGED <<read, buf, pos>>

\* Wherever the value ended, the next pair begins where encoded_size says.
ClosePair ==
  /\ pc = "close"
  /\ LET next == Cur.start + buf[Cur.start] IN
     /\ lists' = WithCur([Cur EXCEPT !.pairs = @ \cup {Cur.start}, !.start = next])
     /\ pos' = next
  /\ pc' = "size"
  /\ UNCHANGED <<read, buf>>

Next ==
  \/ CannotRead \/ StartLabel \/ EndLabels \/ ReadHeader
  \/ BeginList \/ BeginPair \/ BreakPair \/ EndList \/ ClosePair
  \/ ReadName \/ ReadType \/ ReadNelem
  \/ ReadNothing \/ ReadScalar \/ ReadOpaque \/ ReadArray \/ ReadStrings
  \/ ReadList \/ ReadUnknown

\* One thread, which waits for nothing.
Spec == Init /\ [][Next]_vars /\ WF_vars(Next)

-----------------------------------------------------------------------------
\* The pairs of a list are those its sizes chain together, none skipped and
\* none made up, whatever was in their values: lists that end too early or too
\* late, unreadable lengths, negative counts.  (Code: _parse_body, "on fait
\* confiance a encoded_size, qui permet de continuer".)
ListsAreChains ==
  \A i \in DOMAIN lists :
    LET l == lists[i]
        After == {q + buf[q] : q \in l.pairs} IN
    l.pairs \cup {l.start} = After \cup {l.first}

AllRead == pc = "done" /\ Len(read) = NLabels

\* A pair of encoded size zero and decoded size other than zero.
OnEmptyPair == pc = "name" /\ buf[Cur.start] = 0

\* The four labels get read whatever they hold, unless the decoder enters a
\* pair whose size is zero.  (Code: read_all_labels, _parse_body.)
EndsOutsideEmptyPairs == <>(AllRead \/ OnEmptyPair)

\* A damaged label never stops the reading of the others.  (Code: the docstring
\* of read_all_labels, label.py:192.)
EveryLabelRead == <>AllRead
=============================================================================
