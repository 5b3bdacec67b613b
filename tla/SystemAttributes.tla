-------------------------- MODULE SystemAttributes --------------------------
(***************************************************************************)
(* Decoding of the attributes of a file (src/zfsrescue/zpl.py): from the   *)
(* layouts of the dataset, or, when they are lost, from the layouts that   *)
(* zfs_mknode() composes, if exactly one of them fits.                     *)
(*                                                                         *)
(* Lengths are counted in words of 8 bytes.  A bonus is a header, which    *)
(* holds the number of its layout and room for lengths, and a body: the    *)
(* words that each attribute ZFS wrote occupies, from which to before      *)
(* which.  The value read for an attribute is the name of the one that     *)
(* occupies exactly those words, or Garbage.                               *)
(***************************************************************************)
EXTENDS Zap

Garbage == "garbage"
NoBonus == [num |-> 0]
NoAttributes == <<>>

\* Length of each attribute, 0 when it varies.
ZplLegacyAttrs == [a \in {"MODE", "SIZE", "PARENT", "LINKS", "RDEV"} |-> 1]
ZplStandardAttrs ==
  [a \in DOMAIN ZplLegacyAttrs \cup {"COUNT", "PROJID", "SYMLINK", "ACES", "DXATTR"} |->
     IF a \in {"SYMLINK", "ACES", "DXATTR"} THEN 0 ELSE 1]

Common == <<"MODE", "SIZE", "PARENT", "LINKS">>
DispositionsCandidates ==
  {Common \o <<"PROJID", "COUNT", "ACES">>,
   Common \o <<"COUNT", "ACES">>,
   Common \o <<"PROJID", "COUNT", "SYMLINK", "ACES">>,
   Common \o <<"RDEV", "PROJID", "COUNT", "ACES">>}

-----------------------------------------------------------------------------
(* read_sa_table()                                                         *)

LegacyTable == [registry |-> ZplLegacyAttrs, layouts |-> <<>>]

\* The entries of the ZAP that another ZAP names, none if it cannot be read.
Linked(os, z, name) ==
  IF Get(z, name) = NoValue \/ ~Present(os, Get(z, name)[1]) THEN {}
  ELSE Entries(ReadZap(os, Get(z, name)[1]))

SaTable(reg, lay) ==
  [registry |-> IF reg = {} THEN ZplLegacyAttrs
                ELSE [a \in {e.name : e \in reg} |-> (CHOOSE e \in reg : e.name = a).value[1]],
   layouts |-> [n \in {e.name : e \in lay} |-> (CHOOSE e \in lay : e.name = n).value]]

\* The registry read, or the attributes known; the layouts read.
ReadSaTable(os, obj) ==
  IF ~Present(os, obj) THEN [registry |-> <<>>, layouts |-> <<>>]
  ELSE LET root == ReadZap(os, obj) IN
       SaTable(Linked(os, root, "REGISTRY"), Linked(os, root, "LAYOUTS"))

-----------------------------------------------------------------------------
(* parse_sa_bonus()                                                        *)

At(b, from, to) ==
  IF \E a \in DOMAIN b.body : b.body[a] = <<from, to>> THEN CHOOSE a \in DOMAIN b.body : b.body[a] = <<from, to>>
  ELSE Garbage

\* Lengths that fit after the six bytes of magic and layout.
Room(b) == 4 * b.header - 3

\* Where each attribute of a layout ends, the one before it included.
Ends(b, registry, layout, start) ==
  LET fixed(a) == a \in DOMAIN registry /\ registry[a] # 0
      variables(k) == Cardinality({j \in 1 .. k : ~fixed(layout[j])})
      length(k) == IF fixed(layout[k]) THEN registry[layout[k]]
                   ELSE IF variables(k) <= Room(b) THEN b.lengths[variables(k)] ELSE b.end
      end[k \in 0 .. Len(layout)] == IF k = 0 THEN start ELSE end[k - 1] + length(k)
  IN end

\* Mutant: attributes are read after a header of 8 bytes.
Parsed_ShortHeader(b, registry, layout) == Ends(b, registry, layout, 1)

\* parse_sa_bonus(): an attribute that the registry does not know has a variable
\* length, the next of those the header holds; past them, or past the end of the
\* bonus, it fails.
Parsed(b, registry, layout) == Ends(b, registry, layout, b.header)

Ok(b, end) == end[Max(DOMAIN end)] <= b.end
Values(b, end, layout) ==
  [a \in ToSet(layout) |-> LET k == CHOOSE k \in DOMAIN layout : layout[k] = a IN At(b, end[k - 1], end[k])]

\* valider_attributs(): an hypothesis uses the whole bonus and gives values an
\* object of that type may have. Garbage is taken to pass for such values.
Valid(b, end) == end[Max(DOMAIN end)] = b.end /\ b.plausible

\* inferer_disposition_sa()
Infer(b) ==
  LET fit == {c \in DispositionsCandidates : Valid(b, Parsed(b, ZplStandardAttrs, c))} IN
  IF Cardinality(fit) # 1 THEN NoAttributes
  ELSE LET c == CHOOSE c \in fit : TRUE IN Values(b, Parsed(b, ZplStandardAttrs, c), c)

\* decode_bonus(): what is read directly goes before any hypothesis.
DecodeBonus(b, table) ==
  IF b.num \in DOMAIN table.layouts /\ Ok(b, Parsed(b, table.registry, table.layouts[b.num]))
  THEN Values(b, Parsed(b, table.registry, table.layouts[b.num]), table.layouts[b.num])
  ELSE Infer(b)
=============================================================================
