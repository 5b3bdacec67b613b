-------------------------- MODULE LabelReadProofs --------------------------
(***************************************************************************)
(* Theorems about LabelRead, for any words in the labels.                  *)
(*                                                                         *)
(* The inductive invariant says of each list being decoded that its pairs  *)
(* are chained by the words read at their beginnings, and, of each but the *)
(* innermost between two pairs, that the pair it is in was checked to end  *)
(* in the buffer: that is what is left of the check when the pair is       *)
(* closed, after any number of lists were decoded inside it. The proof     *)
(* rests on the words already read being kept (Grows).                     *)
(***************************************************************************)
EXTENDS LabelRead, SequenceTheorems, TLAPS

Frame == [first : Positions, start : Positions, pairs : SUBSET Positions, type : Int, left : Int]

\* Words looked at, and looked at later on.
IsBuf(b) == DOMAIN b \subseteq Positions /\ \A x \in DOMAIN b : b[x] \in Int
Grows(b, c) == DOMAIN b \subseteq DOMAIN c /\ \A x \in DOMAIN b : c[x] = b[x]

\* The pair of l that is being decoded ends in the buffer.
Begun(b, l) == l.start \in DOMAIN b /\ b[l.start] >= 0 /\ l.start + b[l.start] <= BufLen

\* The pairs of l follow one another, from the first to the one being decoded.
Chained(b, l) ==
  /\ l.pairs \subseteq DOMAIN b
  /\ l.pairs \cup {l.start} = {q + b[q] : q \in l.pairs} \cup {l.first}

InPair(step) == step \in {"name", "type", "nelem", "value", "close"}
InList(step) == step \in {"body", "size"} \/ InPair(step)

IInv ==
  /\ read \in Seq(Statuses) /\ Len(read) <= NLabels
  /\ InList(pc) \/ pc = "header" => Len(read) < NLabels
  /\ IsBuf(buf)
  /\ pos \in Int /\ (pc # "close" => pos \in Positions)
  /\ lists \in Seq(Frame)
  /\ InList(pc) => lists # <<>>
  /\ \A i \in 1 .. Len(lists) : /\ Chained(buf, lists[i])
                                /\ i > 1 \/ InPair(pc) => Begun(buf, lists[i])
  /\ pc = "size" => pos = Cur.start
  /\ InList(pc) \/ pc \in {"label", "header", "done"}

\* What was known of a list is still so when more words are looked at.
LEMMA KeptByGrowth ==
  ASSUME NEW b, NEW c, Grows(b, c), NEW l
  PROVE  /\ Begun(b, l) => Begun(c, l)
         /\ Chained(b, l) => Chained(c, l)
<1>1. Begun(b, l) => Begun(c, l)
  BY DEF Grows, Begun
<1>2. ASSUME Chained(b, l) PROVE Chained(c, l)
  <2>1. l.pairs \subseteq DOMAIN c /\ \A q \in l.pairs : c[q] = b[q]
    BY <1>2 DEF Grows, Chained
  <2>2. {q + c[q] : q \in l.pairs} = {q + b[q] : q \in l.pairs}
    BY <2>1
  <2> QED BY <1>2, <2>1, <2>2 DEF Chained
<1> QED BY <1>1, <1>2

\* A list with nothing in it is a chain.
LEMMA NewListIs ==
  ASSUME NEW p \in Positions, NEW b
  PROVE  NewList(p) \in Frame /\ Chained(b, NewList(p))
BY DEF NewList, Frame, Chained

\* The word at p, read again or for the first time.
LEMMA WithIs ==
  ASSUME IsBuf(buf), NEW p \in Positions, NEW S \in SUBSET Int, NEW w \in At(p, S)
  PROVE  /\ IsBuf(With(p, w)) /\ Grows(buf, With(p, w)) /\ w \in Int
         /\ p \in DOMAIN With(p, w) /\ With(p, w)[p] = w
BY DEF IsBuf, Grows, With, At

\* The innermost list is replaced, the others stay.
LEMMA WithCurIs ==
  ASSUME lists \in Seq(Frame), lists # <<>>, NEW l \in Frame
  PROVE  /\ WithCur(l) \in Seq(Frame) /\ WithCur(l) # <<>>
         /\ Len(WithCur(l)) = Len(lists)
         /\ WithCur(l)[1] = l
         /\ \A i \in 2 .. Len(lists) : WithCur(l)[i] = lists[i]
         /\ Cur \in Frame /\ WithCur(Cur) = lists
<1>1. /\ Tail(lists) \in Seq(Frame) /\ Len(Tail(lists)) = Len(lists) - 1
      /\ \A i \in 1 .. Len(lists) - 1 : Tail(lists)[i] = lists[i + 1]
      /\ Len(lists) \in Nat \ {0} /\ Cur \in Frame
  BY DEF Cur
<1>2. ASSUME NEW k \in Frame
      PROVE  /\ WithCur(k) \in Seq(Frame) /\ WithCur(k) # <<>>
             /\ Len(WithCur(k)) = Len(lists)
             /\ WithCur(k)[1] = k
             /\ \A i \in 2 .. Len(lists) : WithCur(k)[i] = lists[i]
  <2> DEFINE T == Tail(lists)
  <2>1. T \in Seq(Frame) /\ Len(T) = Len(lists) - 1
    BY <1>1
  <2>2. WithCur(k) = <<k>> \o T
    BY Zenon DEF WithCur
  <2>3. \A i \in 2 .. Len(lists) : T[i - 1] = lists[i]
    BY <1>1
  <2> HIDE DEF T
  <2>4. <<k>> \in Seq(Frame) /\ Len(<<k>>) = 1 /\ <<k>>[1] = k
    OBVIOUS
  <2>5. <<k>> \o T \in Seq(Frame) /\ Len(<<k>> \o T) = 1 + Len(T)
    BY <2>1, <2>4
  <2>6. (<<k>> \o T)[1] = k
    BY <2>1, <2>4
  <2>7. \A i \in 2 .. Len(lists) : (<<k>> \o T)[i] = T[i - 1]
    BY <1>1, <2>1, <2>4
  <2>8. Len(<<k>> \o T) = Len(lists)
    <3>1. Len(lists) \in Nat
      BY <1>1
    <3>2. Len(<<k>> \o T) = 1 + (Len(lists) - 1)
      BY <2>1, <2>5, Zenon
    <3> QED BY <3>1, <3>2
  <2>9. <<k>> \o T # <<>>
    <3>1. Len(WithCur(k)) # 0
      BY <1>1, <2>2, <2>8, Zenon
    <3> QED BY <2>2, <3>1, EmptySeq
  <2> QED BY <2>2, <2>3, <2>5, <2>6, <2>7, <2>8, <2>9
<1>3. WithCur(Cur) = lists
  <2>1. \A i \in 1 .. Len(lists) : WithCur(Cur)[i] = lists[i]
    <3> TAKE i \in 1 .. Len(lists)
    <3>1. i = 1 \/ i \in 2 .. Len(lists)
      BY <1>1
    <3> QED BY <1>1, <1>2, <3>1 DEF Cur
  <2>2. Cur \in Frame /\ WithCur(Cur) \in Seq(Frame) /\ Len(WithCur(Cur)) = Len(lists)
    BY <1>1, <1>2
  <2> QED BY <2>1, <2>2, SeqEqual
<1> QED BY <1>1, <1>2, <1>3

\* A step in a list: the innermost may change, the words read are kept.
LEMMA ListStep ==
  ASSUME IInv, InList(pc), read' = read, IsBuf(buf'), Grows(buf, buf'),
         NEW l \in Frame, lists' = WithCur(l), Chained(buf', l),
         InList(pc'), InPair(pc') => Begun(buf', l),
         pos' \in Int, pc' # "close" => pos' \in Positions,
         pc' = "size" => pos' = l.start
  PROVE  IInv'
<1>1. lists \in Seq(Frame) /\ lists # <<>>
  BY DEF IInv
<1>2. /\ lists' \in Seq(Frame) /\ lists' # <<>> /\ Len(lists') = Len(lists)
      /\ Len(lists) \in Nat
      /\ lists'[1] = l /\ \A i \in 2 .. Len(lists) : lists'[i] = lists[i]
  BY <1>1, WithCurIs
<1>3. \A i \in 1 .. Len(lists') : /\ Chained(buf', lists'[i])
                                  /\ i > 1 \/ InPair(pc') => Begun(buf', lists'[i])
  <2> TAKE i \in 1 .. Len(lists')
  <2>1. CASE i = 1
    BY <1>2, <2>1
  <2>2. CASE i # 1
    <3>1. i \in 2 .. Len(lists) /\ i \in 1 .. Len(lists) /\ i > 1 /\ lists'[i] = lists[i]
      BY <1>2, <2>2
    <3>2. Chained(buf, lists[i]) /\ Begun(buf, lists[i])
      BY <3>1 DEF IInv
    <3> QED BY <3>1, <3>2, KeptByGrowth
  <2> QED BY <2>1, <2>2
<1>4. Cur' = l
  BY <1>2 DEF Cur
<1>5. read \in Seq(Statuses) /\ Len(read) < NLabels /\ Len(read) <= NLabels
  BY DEF IInv
<1> QED BY <1>2, <1>3, <1>4, <1>5 DEF IInv

\* A step in a pair: the list keeps its pairs and where the pair begins.
LEMMA PairStep ==
  ASSUME IInv, InPair(pc), read' = read, IsBuf(buf'), Grows(buf, buf'),
         NEW l \in Frame, lists' = WithCur(l),
         l.first = Cur.first, l.start = Cur.start, l.pairs = Cur.pairs,
         InPair(pc'), pos' \in Int, pc' # "close" => pos' \in Positions
  PROVE  IInv'
<1>1. /\ lists # <<>> /\ lists \in Seq(Frame)
      /\ Chained(buf, Cur) /\ Begun(buf, Cur)
  <2>1. lists # <<>> /\ lists \in Seq(Frame)
    BY DEF IInv, InList
  <2>2. 1 \in 1 .. Len(lists)
    BY <2>1
  <2> QED BY <2>1, <2>2 DEF IInv, Cur
<1>2. Chained(buf', Cur) /\ Begun(buf', Cur)
  BY <1>1, KeptByGrowth
<1>3. Chained(buf', l) /\ Begun(buf', l)
  BY <1>2 DEF Chained, Begun
<1>4. InList(pc) /\ InList(pc') /\ pc' # "size"
  BY DEF InList, InPair
<1> QED BY <1>3, <1>4, ListStep

\* A label is done with.
LEMMA LabelStep ==
  ASSUME IInv, NEW status \in Statuses, Label(status), Len(read) < NLabels
  PROVE  IInv'
<1>1. /\ read' = Append(read, status) /\ pc' = "label" /\ buf' = <<>> /\ pos' = 0 /\ lists' = <<>>
  BY DEF Label
<1>2. read' \in Seq(Statuses) /\ Len(read') = Len(read) + 1
  BY <1>1 DEF IInv
<1>3. Len(read) \in Nat /\ NLabels \in Nat
  BY LabelAssumption DEF IInv
<1>4. 0 \in Positions
  BY LabelAssumption DEF Positions
<1> QED BY <1>1, <1>2, <1>3, <1>4 DEF IInv, IsBuf, InList, InPair

\* What a step in a list knows.
LEMMA InListKnows ==
  ASSUME IInv, InList(pc)
  PROVE  /\ lists \in Seq(Frame) /\ lists # <<>> /\ Cur \in Frame /\ WithCur(Cur) = lists
         /\ Chained(buf, Cur) /\ (InPair(pc) => Begun(buf, Cur))
         /\ Len(read) < NLabels /\ IsBuf(buf) /\ Grows(buf, buf)
         /\ pos \in Int /\ (pc # "close" => pos \in Nat /\ pos <= BufLen)
         /\ BufLen \in Nat /\ Positions = 0 .. BufLen
<1>1. lists # <<>> /\ lists \in Seq(Frame)
  BY DEF IInv
<1>2. 1 \in 1 .. Len(lists)
  BY <1>1
<1>3. Chained(buf, Cur) /\ (InPair(pc) => Begun(buf, Cur))
  BY <1>2 DEF IInv, Cur
<1>4. Cur \in Frame /\ WithCur(Cur) = lists
  BY <1>1, WithCurIs
<1>5. BufLen \in Nat /\ Positions = 0 .. BufLen
  BY LabelAssumption DEF Positions
<1> QED BY <1>1, <1>3, <1>4, <1>5 DEF IInv, Grows

\* A string is read, or the label is not.
LEMMA StringStep ==
  ASSUME IInv, InPair(pc), pc # "close", NEW step, InPair(step), step # "close",
         NEW l \in Frame, l.first = Cur.first, l.start = Cur.start, l.pairs = Cur.pairs,
         ReadString(step, WithCur(l))
  PROVE  IInv'
<1>1. InList(pc)
  BY DEF InList
<1>2. CASE Break
  BY <1>1, <1>2, LabelStep, InListKnows DEF Break, Statuses
<1>3. CASE ~Break
  <2>1. PICK w \in At(pos, Lengths) :
          /\ w >= 0 /\ Inside(1 + w)
          /\ buf' = With(pos, w) /\ Move(1 + w, step) /\ lists' = WithCur(l)
    <3>1. Lengths \subseteq Int
      BY LabelAssumption
    <3>2. \A w \in At(pos, Lengths) : w \in Int
      BY <1>1, <3>1, InListKnows, WithIs DEF InPair
    <3> QED BY <1>3, <3>2 DEF ReadString
  <2>2. pos \in Positions /\ Lengths \in SUBSET Int
    BY LabelAssumption DEF IInv
  <2>3. IsBuf(buf') /\ Grows(buf, buf') /\ w \in Int
    BY <1>1, <2>1, <2>2, InListKnows, WithIs
  <2>4. pos' = pos + (1 + w) /\ pc' = step /\ read' = read /\ pos + (1 + w) <= BufLen
    BY <2>1 DEF Move, Inside
  <2>5. pos' \in Positions
    BY <1>1, <2>1, <2>3, <2>4, InListKnows DEF Positions
  <2>6. pos' \in Int
    BY <2>5 DEF Positions
  <2> QED BY <2>1, <2>3, <2>4, <2>5, <2>6, PairStep
<1> QED BY <1>2, <1>3

-----------------------------------------------------------------------------
(* The steps of a list.                                                    *)

LEMMA BeginListStep ==
  ASSUME IInv, BeginList
  PROVE  IInv'
<1>1. InList(pc) /\ pc = "body"
  BY DEF BeginList, InList
<1>2. CASE Label("unexpected") \/ Break
  BY <1>1, <1>2, LabelStep, InListKnows DEF Break, Statuses
<1>3. CASE ~(Label("unexpected") \/ Break)
  <2>1. /\ Inside(2) /\ Move(2, "size") /\ lists' = WithCur(NewList(pos + 2)) /\ buf' = buf
    BY <1>3 DEF BeginList
  <2>2. pos' = pos + 2 /\ pc' = "size" /\ read' = read /\ pos + 2 <= BufLen
    BY <2>1 DEF Move, Inside
  <2>3. pos + 2 \in Positions
    BY <1>1, <2>2, InListKnows
  <2>4. NewList(pos + 2) \in Frame /\ Chained(buf, NewList(pos + 2))
    BY <2>3, NewListIs
  <2>5. NewList(pos + 2).start = pos'
    BY <2>2 DEF NewList
  <2>6. IsBuf(buf) /\ Grows(buf, buf)
    BY <1>1, InListKnows
  <2>7. pos' \in Int /\ InList(pc') /\ ~InPair(pc')
    BY <1>1, <2>2, InListKnows DEF InList, InPair
  <2> QED BY <1>1, <2>1, <2>2, <2>3, <2>4, <2>5, <2>6, <2>7, ListStep
<1> QED BY <1>2, <1>3

\* Both words of a size are read.
LEMMA SizesAre ==
  ASSUME IInv, InList(pc), pc # "close", NEW s \in SizesAt
  PROVE  s[1] \in At(pos, Sizes) /\ s[2] \in At(pos + 1, {0, 1}) /\ s[1] \in Int
<1>1. s[1] \in At(pos, Sizes) /\ s[2] \in At(pos + 1, {0, 1})
  BY DEF SizesAt
<1>2. pos \in Positions /\ Sizes \in SUBSET Int /\ IsBuf(buf)
  BY LabelAssumption DEF IInv
<1>3. s[1] \in Int
  BY <1>1, <1>2, WithIs
<1> QED BY <1>1, <1>3

LEMMA BeginPairStep ==
  ASSUME IInv, BeginPair
  PROVE  IInv'
<1>1. InList(pc) /\ pc = "size" /\ pc # "close" /\ Inside(2)
  BY DEF BeginPair, InList
<1>2. CASE Break
  BY <1>1, <1>2, LabelStep, InListKnows DEF Break, Statuses
<1>3. CASE ~Break
  <2>1. PICK s \in SizesAt :
          /\ ~(s[1] < 0 \/ pos + s[1] > BufLen)
          /\ buf' = IF s[1] = 0
                    THEN [x \in DOMAIN buf \cup {pos, pos + 1} |->
                            IF x = pos THEN 0 ELSE IF x = pos + 1 THEN s[2] ELSE buf[x]]
                    ELSE With(pos, s[1])
          /\ Move(2, "name") /\ lists' = lists
    BY <1>3 DEF BeginPair
  <2>2. s[1] \in At(pos, Sizes) /\ s[2] \in At(pos + 1, {0, 1}) /\ s[1] \in Int
    BY <1>1, SizesAre
  <2>3. /\ pos \in Nat /\ pos <= BufLen /\ pos + 2 <= BufLen /\ BufLen \in Nat
        /\ Positions = 0 .. BufLen /\ IsBuf(buf)
    BY <1>1, InListKnows DEF Inside
  <2>4. s[1] >= 0 /\ pos + s[1] <= BufLen
    BY <2>1, <2>2, <2>3
  <2>5. /\ IsBuf(buf') /\ Grows(buf, buf') /\ pos \in DOMAIN buf' /\ buf'[pos] = s[1]
    <3>1. CASE s[1] = 0
      <4>1. s[2] \in Int
        BY <2>2, <2>3 DEF At, IsBuf
      <4>2. pos \in Positions /\ pos + 1 \in Positions /\ pos # pos + 1
        BY <2>3
      <4>3. buf' = [x \in DOMAIN buf \cup {pos, pos + 1} |->
                      IF x = pos THEN 0 ELSE IF x = pos + 1 THEN s[2] ELSE buf[x]]
        BY <2>1, <3>1
      <4>4. pos \in DOMAIN buf => buf[pos] = 0
        BY <2>2, <3>1 DEF At
      <4>5. pos + 1 \in DOMAIN buf => buf[pos + 1] = s[2]
        BY <2>2 DEF At
      <4> QED BY <2>3, <3>1, <4>1, <4>2, <4>3, <4>4, <4>5 DEF IsBuf, Grows
    <3>2. CASE s[1] # 0
      <4>1. pos \in Positions /\ Sizes \in SUBSET Int
        BY <2>3, LabelAssumption
      <4> QED BY <2>1, <2>2, <2>3, <3>2, <4>1, WithIs
    <3> QED BY <3>1, <3>2
  <2>6. pos' = pos + 2 /\ pc' = "name" /\ read' = read
    BY <2>1 DEF Move
  <2>7. pos' \in Positions /\ pos' \in Int
    BY <2>3, <2>6
  <2>8. /\ Cur \in Frame /\ lists' = WithCur(Cur) /\ Chained(buf, Cur) /\ Cur.start = pos
    BY <1>1, <2>1, InListKnows DEF IInv
  <2>9. Chained(buf', Cur)
    BY <2>5, <2>8, KeptByGrowth
  <2>10. Begun(buf', Cur)
    BY <2>4, <2>5, <2>8 DEF Begun
  <2>11. InList(pc') /\ pc' # "size"
    BY <2>6 DEF InList, InPair
  <2> QED BY <1>1, <2>5, <2>6, <2>7, <2>8, <2>9, <2>10, <2>11, ListStep
<1> QED BY <1>2, <1>3

\* The tail of the lists.
LEMMA TailIs ==
  ASSUME lists \in Seq(Frame), lists # <<>>
  PROVE  /\ Tail(lists) \in Seq(Frame) /\ Len(Tail(lists)) = Len(lists) - 1
         /\ \A i \in 1 .. Len(lists) - 1 : Tail(lists)[i] = lists[i + 1]
         /\ Len(lists) \in Nat \ {0}
OBVIOUS

LEMMA EndListStep ==
  ASSUME IInv, EndList
  PROVE  IInv'
<1>1. InList(pc) /\ pc = "size" /\ Inside(2)
  BY DEF EndList, InList
<1>2. CASE Len(lists) = 1
  <2>1. Label("ok")
    BY <1>2 DEF EndList
  <2> QED BY <1>1, <2>1, LabelStep, InListKnows DEF Statuses
<1>3. CASE Len(lists) # 1
  <2>1. lists' = Tail(lists) /\ buf' = buf /\ Move(2, "value")
    BY <1>3 DEF EndList
  <2>2. pos' = pos + 2 /\ pc' = "value" /\ read' = read
    BY <2>1 DEF Move
  <2>3. pos' \in Positions /\ pos' \in Int
    BY <1>1, <2>2, InListKnows DEF Inside
  <2>4. /\ lists' \in Seq(Frame) /\ Len(lists') = Len(lists) - 1 /\ Len(lists') > 0
        /\ \A i \in 1 .. Len(lists') : lists'[i] = lists[i + 1] /\ i + 1 \in 1 .. Len(lists) /\ i + 1 > 1
    <3>1. lists \in Seq(Frame) /\ lists # <<>>
      BY <1>1, InListKnows
    <3>2. Len(lists) \in Nat \ {0} /\ Len(lists) # 1
      BY <1>3, <3>1, TailIs
    <3>3. lists' \in Seq(Frame) /\ Len(lists') = Len(lists) - 1
      BY <2>1, <3>1, TailIs
    <3>4. \A i \in 1 .. Len(lists) - 1 : lists'[i] = lists[i + 1]
      BY <2>1, <3>1, TailIs
    <3> QED BY <3>2, <3>3, <3>4
  <2>5. lists' # <<>>
    BY <2>4
  <2>6. \A i \in 1 .. Len(lists') : Chained(buf, lists'[i]) /\ Begun(buf, lists'[i])
    <3>1. \A j \in 1 .. Len(lists) : j > 1 => Chained(buf, lists[j]) /\ Begun(buf, lists[j])
      BY DEF IInv
    <3> QED BY <2>4, <3>1
  <2>7. InList(pc') /\ pc' # "size"
    BY <2>2 DEF InList, InPair
  <2> QED BY <1>1, <2>1, <2>2, <2>3, <2>4, <2>5, <2>6, <2>7 DEF IInv
<1> QED BY <1>2, <1>3

LEMMA ClosePairStep ==
  ASSUME IInv, ClosePair
  PROVE  IInv'
<1> DEFINE next == Cur.start + buf[Cur.start]
           l == [Cur EXCEPT !.pairs = @ \cup {Cur.start}, !.start = next]
<1>1. /\ InList(pc) /\ InPair(pc) /\ pc = "close" /\ lists' = WithCur(l) /\ pos' = next
      /\ pc' = "size" /\ read' = read /\ buf' = buf
  BY DEF ClosePair, InList, InPair
<1>2. /\ Cur \in Frame /\ Chained(buf, Cur) /\ Begun(buf, Cur) /\ IsBuf(buf) /\ Grows(buf, buf)
      /\ BufLen \in Nat /\ Positions = 0 .. BufLen
  BY <1>1, InListKnows
<1>3. Cur.start \in 0 .. BufLen /\ buf[Cur.start] \in Int /\ buf[Cur.start] >= 0
      /\ Cur.start + buf[Cur.start] <= BufLen
  BY <1>2 DEF Frame, Begun, IsBuf
<1>4. next \in Positions /\ next \in Int
  BY <1>2, <1>3
<1>5. l \in Frame /\ l.start = next /\ l.first = Cur.first /\ l.pairs = Cur.pairs \cup {Cur.start}
  BY <1>2, <1>4 DEF Frame
<1>6. Chained(buf, l)
  <2>1. Cur.start \in DOMAIN buf /\ Cur.pairs \subseteq DOMAIN buf
    BY <1>2 DEF Begun, Chained
  <2>2. {q + buf[q] : q \in Cur.pairs \cup {Cur.start}} = {q + buf[q] : q \in Cur.pairs} \cup {next}
    OBVIOUS
  <2>3. Cur.pairs \cup {Cur.start} = {q + buf[q] : q \in Cur.pairs} \cup {Cur.first}
    BY <1>2 DEF Chained
  <2> HIDE DEF l, next
  <2>4. l.pairs \cup {l.start} = {q + buf[q] : q \in l.pairs} \cup {l.first}
    BY <1>5, <2>2, <2>3
  <2> QED BY <1>5, <2>1, <2>4 DEF Chained
<1> HIDE DEF l, next
<1>7. InList(pc') /\ ~InPair(pc') /\ pc' # "close"
  BY <1>1 DEF InList, InPair
<1> QED BY <1>1, <1>2, <1>4, <1>5, <1>6, <1>7, ListStep

-----------------------------------------------------------------------------
(* The steps of a pair.                                                    *)

\* A word is read, or the label is not; the list may note it.
LEMMA WordStep ==
  ASSUME IInv, InPair(pc), pc # "close", Inside(1), NEW S \in SUBSET Int, NEW w \in At(pos, S),
         NEW n \in Nat, Inside(1 + n), NEW step, InPair(step),
         NEW l \in Frame, l.first = Cur.first, l.start = Cur.start, l.pairs = Cur.pairs,
         buf' = With(pos, w), Move(1 + n, step), lists' = WithCur(l)
  PROVE  IInv'
<1>1. InList(pc) /\ pos \in Positions
  BY DEF InList, IInv
<1>2. IsBuf(buf') /\ Grows(buf, buf')
  BY <1>1, InListKnows, WithIs
<1>3. pos' = pos + (1 + n) /\ pc' = step /\ read' = read /\ pos + (1 + n) <= BufLen
  BY DEF Move, Inside
<1>4. pos' \in Positions /\ pos' \in Int
  BY <1>1, <1>3, InListKnows
<1> QED BY <1>2, <1>3, <1>4, PairStep

LEMMA ReadTypeStep ==
  ASSUME IInv, ReadType
  PROVE  IInv'
<1>1. InPair(pc) /\ InList(pc) /\ pc = "type"
  BY DEF ReadType, InList, InPair
<1>2. CASE Break
  BY <1>1, <1>2, LabelStep, InListKnows DEF Break, Statuses
<1>3. CASE ~Break
  <2>1. Inside(1)
    BY <1>3 DEF ReadType
  <2>2. PICK t \in At(pos, Types) :
          /\ buf' = With(pos, t) /\ Move(1, "nelem") /\ lists' = WithCur([Cur EXCEPT !.type = t])
    BY <2>1 DEF ReadType
  <2>3. pos \in Positions /\ Types \in SUBSET Int /\ IsBuf(buf) /\ Cur \in Frame
    BY <1>1, InListKnows, LabelAssumption DEF IInv
  <2>4. t \in Int
    BY <2>3, WithIs
  <2> DEFINE l == [Cur EXCEPT !.type = t]
  <2>5. l \in Frame /\ l.first = Cur.first /\ l.start = Cur.start /\ l.pairs = Cur.pairs
    BY <2>3, <2>4 DEF Frame
  <2>6. 1 + 0 = 1 /\ 0 \in Nat /\ InPair("nelem")
    BY DEF InPair
  <2> HIDE DEF l
  <2>7. lists' = WithCur(l)
    BY <2>2 DEF l
  <2> QED BY <1>1, <2>1, <2>2, <2>3, <2>5, <2>6, <2>7, WordStep
<1> QED BY <1>2, <1>3

LEMMA ReadNelemStep ==
  ASSUME IInv, ReadNelem
  PROVE  IInv'
<1>1. InPair(pc) /\ InList(pc) /\ pc = "nelem"
  BY DEF ReadNelem, InList, InPair
<1>2. CASE Break
  BY <1>1, <1>2, LabelStep, InListKnows DEF Break, Statuses
<1>3. CASE ~Break
  <2>1. Inside(1)
    BY <1>3 DEF ReadNelem
  <2>2. PICK n \in At(pos, Counts) :
          /\ buf' = With(pos, n) /\ Move(1, "value")
          /\ lists' = WithCur([Cur EXCEPT !.left = IF Cur.type \in {String, List} /\ n # 0 THEN 1 ELSE n])
    BY <2>1 DEF ReadNelem
  <2>3. pos \in Positions /\ Counts \in SUBSET Int /\ IsBuf(buf) /\ Cur \in Frame
    BY <1>1, InListKnows, LabelAssumption DEF IInv
  <2>4. n \in Int
    BY <2>3, WithIs
  <2> DEFINE k == IF Cur.type \in {String, List} /\ n # 0 THEN 1 ELSE n
             l == [Cur EXCEPT !.left = k]
  <2>5. k \in Int
    BY <2>4
  <2>6. lists' = WithCur(l)
    BY <2>2
  <2> HIDE DEF k
  <2>7. l \in Frame /\ l.first = Cur.first /\ l.start = Cur.start /\ l.pairs = Cur.pairs
    BY <2>3, <2>5 DEF Frame
  <2>8. 1 + 0 = 1 /\ 0 \in Nat /\ InPair("value")
    BY DEF InPair
  <2> HIDE DEF l
  <2> QED BY <1>1, <2>1, <2>2, <2>3, <2>6, <2>7, <2>8, WordStep
<1> QED BY <1>2, <1>3

\* A value is passed over, or is not there; a negative number of bytes goes back.
LEMMA SkipStep ==
  ASSUME IInv, pc = "value", NEW n \in Int, Skip(n) \/ (Move(n, "close") /\ UNCHANGED <<buf, lists>>)
  PROVE  IInv'
<1>1. InPair(pc) /\ InList(pc) /\ InPair("close")
  BY DEF InList, InPair
<1>2. CASE Break
  BY <1>1, <1>2, LabelStep, InListKnows DEF Break, Statuses
<1>3. CASE ~Break
  <2>1. pos' = pos + n /\ pc' = "close" /\ read' = read /\ buf' = buf /\ lists' = lists
    BY <1>3 DEF Skip, Move
  <2>2. Cur \in Frame /\ lists' = WithCur(Cur) /\ IsBuf(buf) /\ Grows(buf, buf) /\ pos \in Int
    BY <1>1, <2>1, InListKnows
  <2>3. pos' \in Int
    BY <2>1, <2>2
  <2> QED BY <1>1, <2>1, <2>2, <2>3, PairStep
<1> QED BY <1>2, <1>3

LEMMA ReadArrayStep ==
  ASSUME IInv, ReadArray
  PROVE  IInv'
<1>1. InPair(pc) /\ InList(pc) /\ pc = "value"
  BY DEF ReadArray, InList, InPair
<1>2. CASE Break
  BY <1>1, <1>2, LabelStep, InListKnows DEF Break, Statuses
<1>3. CASE ~Break
  <2> DEFINE e == Element(OneWordArray, TwoWordArray)
  <2>1. Inside(1)
    BY <1>3 DEF ReadArray
  <2>2. PICK n \in At(pos, Counts) :
          /\ ~(n # Cur.left \/ n < 0 \/ ~Inside(1 + n * e))
          /\ buf' = With(pos, n) /\ Move(1 + n * e, "close") /\ lists' = lists
    BY <1>3, <2>1 DEF ReadArray
  <2>3. /\ pos \in Positions /\ Counts \in SUBSET Int /\ IsBuf(buf) /\ Cur \in Frame
        /\ lists' = WithCur(Cur)
    BY <1>1, <2>2, InListKnows, LabelAssumption DEF IInv
  <2>4. n \in Int
    BY <2>3, WithIs
  <2>5. n * e \in Nat
    BY <2>2, <2>4 DEF Element
  <2>6. InPair("close")
    BY DEF InPair
  <2> HIDE DEF e
  <2> QED BY <1>1, <2>1, <2>2, <2>3, <2>5, <2>6, WordStep
<1> QED BY <1>2, <1>3

LEMMA ReadStringsStep ==
  ASSUME IInv, ReadStrings
  PROVE  IInv'
<1> DEFINE l == [Cur EXCEPT !.left = @ - 1]
<1>1. InPair(pc) /\ InList(pc) /\ pc = "value" /\ ReadString("value", WithCur(l))
  BY DEF ReadStrings, InList, InPair
<1>2. Cur \in Frame
  BY <1>1, InListKnows
<1>3. l \in Frame /\ l.first = Cur.first /\ l.start = Cur.start /\ l.pairs = Cur.pairs
  BY <1>2 DEF Frame
<1> HIDE DEF l
<1> QED BY <1>1, <1>3, StringStep

LEMMA ReadNameStep ==
  ASSUME IInv, ReadName
  PROVE  IInv'
<1>1. pc = "name" /\ ReadString("type", lists)
  BY DEF ReadName
<1>2. InPair(pc) /\ InList(pc) /\ InPair("type")
  BY <1>1 DEF InList, InPair
<1>3. Cur \in Frame /\ WithCur(Cur) = lists
  BY <1>2, InListKnows
<1>4. ReadString("type", WithCur(Cur))
  BY <1>1, <1>3
<1> QED BY <1>1, <1>2, <1>3, <1>4, StringStep

\* A list is entered: the pair around it stays begun.
LEMMA ReadListStep ==
  ASSUME IInv, ReadList
  PROVE  IInv'
<1> DEFINE c == [Cur EXCEPT !.left = @ - 1]
           T == Tail(lists)
<1>1. /\ InPair(pc) /\ InList(pc) /\ pc = "value" /\ pos' = pos + 0 /\ pc' = "body"
      /\ read' = read /\ buf' = buf
      /\ lists' = <<NewList(pos), c>> \o T
  BY DEF ReadList, Move, InList, InPair
<1>2. /\ lists \in Seq(Frame) /\ lists # <<>> /\ Cur \in Frame /\ pos \in Int /\ pos \in Positions
      /\ Chained(buf, Cur) /\ Begun(buf, Cur)
  BY <1>1, InListKnows
<1>3. c \in Frame /\ c.first = Cur.first /\ c.start = Cur.start /\ c.pairs = Cur.pairs
  BY <1>2 DEF Frame
<1>4. NewList(pos) \in Frame /\ Chained(buf, NewList(pos))
  BY <1>2, NewListIs
<1>5. Chained(buf, c) /\ Begun(buf, c)
  BY <1>2, <1>3 DEF Chained, Begun
<1>6. /\ T \in Seq(Frame) /\ Len(T) = Len(lists) - 1 /\ Len(lists) \in Nat \ {0}
      /\ \A i \in 1 .. Len(lists) - 1 : T[i] = lists[i + 1]
  BY <1>2, TailIs
<1>7. \A j \in 1 .. Len(lists) : j > 1 => Chained(buf, lists[j]) /\ Begun(buf, lists[j])
  BY DEF IInv
<1> HIDE DEF c, T
<1> DEFINE H == <<NewList(pos), c>>
<1>8. H \in Seq(Frame) /\ Len(H) = 2 /\ H[1] = NewList(pos) /\ H[2] = c
  BY <1>3, <1>4
<1>9. lists' = H \o T
  BY <1>1
<1> HIDE DEF H
<1>10. lists' \in Seq(Frame) /\ Len(lists') = 2 + Len(T) /\ Len(T) \in Nat
  <2>1. T \in Seq(Frame) /\ H \in Seq(Frame) /\ Len(H) = 2
    BY <1>6, <1>8
  <2>2. H \o T \in Seq(Frame) /\ Len(H \o T) = Len(H) + Len(T)
    BY <2>1, ConcatProperties
  <2> QED BY <1>9, <2>1, <2>2
<1>11. \A i \in 1 .. Len(lists') : lists'[i] = IF i <= 2 THEN H[i] ELSE T[i - 2]
  <2>1. T \in Seq(Frame) /\ H \in Seq(Frame) /\ Len(H) = 2
    BY <1>6, <1>8
  <2>2. \A i \in 1 .. Len(H) + Len(T) : (H \o T)[i] = IF i <= Len(H) THEN H[i] ELSE T[i - Len(H)]
    BY <2>1, ConcatProperties
  <2> QED BY <1>9, <1>10, <2>1, <2>2
<1>12. \A i \in 1 .. Len(lists') : /\ Chained(buf, lists'[i])
                                   /\ i > 1 => Begun(buf, lists'[i])
  <2> TAKE i \in 1 .. Len(lists')
  <2>1. CASE i = 1
    BY <1>4, <1>8, <1>10, <1>11, <2>1
  <2>2. CASE i = 2
    BY <1>5, <1>8, <1>10, <1>11, <2>2
  <2>3. CASE i # 1 /\ i # 2
    <3>1. /\ i - 2 \in 1 .. Len(lists) - 1 /\ i - 1 \in 1 .. Len(lists) /\ i - 1 > 1
          /\ (i - 2) + 1 = i - 1 /\ lists'[i] = T[i - 2]
      BY <1>6, <1>10, <1>11, <2>3
    <3>2. lists'[i] = lists[i - 1]
      BY <1>6, <3>1
    <3> QED BY <1>7, <3>1, <3>2
  <2> QED BY <2>1, <2>2, <2>3
<1>13. lists' # <<>>
  <2>1. Len(lists') # 0
    BY <1>10
  <2> QED BY <2>1, EmptySeq
<1>14. InList(pc') /\ ~InPair(pc') /\ pc' # "size" /\ pos' = pos
  BY <1>1, <1>2 DEF InList, InPair
<1>15. Len(read) < NLabels /\ read \in Seq(Statuses) /\ Len(read) <= NLabels /\ IsBuf(buf)
  BY <1>1 DEF IInv
<1> QED BY <1>1, <1>2, <1>10, <1>12, <1>13, <1>14, <1>15 DEF IInv

LEMMA ReadHeaderStep ==
  ASSUME IInv, ReadHeader
  PROVE  IInv'
<1>1. pc = "header" /\ Len(read) < NLabels
  BY DEF ReadHeader, IInv
<1>2. CASE Break
  BY <1>1, <1>2, LabelStep DEF Break, Statuses
<1>3. CASE ~Break
  <2>1. pos' = 1 /\ lists' = <<NewList(1)>> /\ pc' = "body" /\ read' = read /\ buf' = buf
    BY <1>3 DEF ReadHeader
  <2>2. 1 \in Positions
    BY LabelAssumption DEF Positions
  <2>3. NewList(1) \in Frame /\ Chained(buf, NewList(1))
    BY <2>2, NewListIs
  <2>4. lists' \in Seq(Frame) /\ Len(lists') = 1 /\ lists'[1] = NewList(1) /\ lists' # <<>>
    BY <2>1, <2>3
  <2>5. InList(pc') /\ ~InPair(pc') /\ pc' # "size" /\ pc' # "close"
    BY <2>1 DEF InList, InPair
  <2>6. \A i \in 1 .. Len(lists') : Chained(buf, lists'[i]) /\ ~(i > 1)
    BY <2>3, <2>4
  <2> QED BY <1>1, <2>1, <2>2, <2>4, <2>5, <2>6 DEF IInv
<1> QED BY <1>2, <1>3

\* The invariant is that of every step.
LEMMA ChainsKept == Spec => []IInv
<1>1. Init => IInv
  <2> SUFFICES ASSUME Init PROVE IInv
    OBVIOUS
  <2>1. read = <<>> /\ buf = <<>> /\ pos = 0 /\ lists = <<>> /\ pc = "label"
    BY DEF Init
  <2>2. 0 \in Positions /\ NLabels \in Nat
    BY LabelAssumption DEF Positions
  <2> QED BY <2>1, <2>2 DEF IInv, IsBuf, InList, InPair
<1>2. IInv /\ [Next]_vars => IInv'
  <2> SUFFICES ASSUME IInv, [Next]_vars PROVE IInv'
    OBVIOUS
  <2>1. CASE CannotRead
    BY <2>1, LabelStep DEF CannotRead, Statuses
  <2>2. CASE StartLabel
    BY <2>2 DEF StartLabel, IInv, IsBuf, InList, InPair, Begun, Chained
  <2>3. CASE EndLabels
    BY <2>3 DEF EndLabels, IInv, IsBuf, InList, InPair, Begun, Chained
  <2>4. CASE ReadHeader
    BY <2>4, ReadHeaderStep
  <2>5. CASE BeginList \/ BeginPair \/ EndList \/ ClosePair
    BY <2>5, BeginListStep, BeginPairStep, EndListStep, ClosePairStep
  <2>6. CASE BreakPair
    <3>1. InList(pc) /\ Break
      BY <2>6 DEF BreakPair, InList
    <3> QED BY <3>1, LabelStep, InListKnows DEF Break, Statuses
  <2>7. CASE ReadName \/ ReadType \/ ReadNelem
    BY <2>7, ReadNameStep, ReadTypeStep, ReadNelemStep
  <2>8. CASE ReadNothing
    BY <2>8, SkipStep DEF ReadNothing
  <2>9. CASE ReadScalar
    <3>1. Element(OneWord, TwoWords) \in Int /\ pc = "value" /\ Skip(Element(OneWord, TwoWords))
      BY <2>9 DEF ReadScalar, Element
    <3> QED BY <3>1, SkipStep
  <2>10. CASE ReadOpaque
    <3>1. pc = "value" /\ Skip(Cur.left) /\ InList(pc)
      BY <2>10 DEF ReadOpaque, InList, InPair
    <3>2. Cur.left \in Int
      BY <3>1, InListKnows DEF Frame
    <3> QED BY <3>1, <3>2, SkipStep
  <2>11. CASE ReadArray \/ ReadStrings \/ ReadList
    BY <2>11, ReadArrayStep, ReadStringsStep, ReadListStep
  <2>12. CASE ReadUnknown
    <3>1. InList(pc) /\ Break
      BY <2>12 DEF ReadUnknown, InList, InPair
    <3> QED BY <3>1, LabelStep, InListKnows DEF Break, Statuses
  <2>13. CASE UNCHANGED vars
    BY <2>13 DEF vars, IInv, IsBuf, InList, InPair, Begun, Chained, Cur
  <2> QED BY <2>1, <2>2, <2>3, <2>4, <2>5, <2>6, <2>7, <2>8, <2>9, <2>10, <2>11, <2>12, <2>13 DEF Next
<1> QED BY <1>1, <1>2, PTL DEF Spec

\* The reader stays in the buffer, whatever the words of a label. (Code: _take, _parse_body.)
THEOREM LabelTypes == Spec => []TypeOK
<1>1. IInv => TypeOK
  <2> SUFFICES ASSUME IInv PROVE TypeOK
    OBVIOUS
  <2>1. \A i \in DOMAIN lists :
          lists[i] \in [first : Positions, start : Positions, pairs : SUBSET Positions,
                        type : Int, left : Int]
    <3>1. \A i \in DOMAIN lists : lists[i] \in Frame
      BY DEF IInv
    <3> QED BY <3>1, Zenon DEF Frame
  <2>2. pc \in {"label", "header", "body", "size", "name", "type", "nelem", "value", "close", "done"}
    BY DEF IInv, InList, InPair
  <2> QED BY <2>1, <2>2 DEF IInv, TypeOK, IsBuf
<1> QED BY <1>1, ChainsKept, PTL

\* The pairs of a list are those its sizes chain together, none skipped and none
\* made up. (Code: _parse_body.)
THEOREM LabelListsAreChains == Spec => []ListsAreChains
<1>1. IInv => ListsAreChains
  BY DEF IInv, ListsAreChains, Chained
<1> QED BY <1>1, ChainsKept, PTL
=============================================================================
