---------------------------- MODULE MCNamespace ----------------------------
(***************************************************************************)
(* Instance of Namespace: a pool of three file systems and a snapshot, and *)
(* one whose hierarchy loops; in a file system, a link to a file in two    *)
(* directories, a file without entry, an entry without object, attributes  *)
(* in four layouts, and two directories whose attributes loop.             *)
(***************************************************************************)
EXTENDS Namespace

Entry(name, value) == [name |-> name, value |-> value, cd |-> 0, sound |-> TRUE]
Micro(es) == <<[kind |-> "micro", declared |-> Undeclared, entries |-> es]>>
Header(n) == [kind |-> "header", declared |-> n, entries |-> {}]
Leaf(es) == [kind |-> "leaf", declared |-> Undeclared, entries |-> es]
PtrTable == [kind |-> "table", declared |-> Undeclared, entries |-> {}]

ZapObject(blocks) == [bonus |-> "none", blocks |-> blocks]
Dir(head, children) == [bonus |-> "dsl_dir", head |-> head, children |-> children, blocks |-> <<>>]
Ds(snapnames, objset, hole) ==
  [bonus |-> "dsl_dataset", snapnames |-> snapnames, objset |-> objset, hole |-> hole, blocks |-> <<>>]

\* 3: the root, 6: home and its snapshot 10, 9: home/deep; 11: $MOS, without dataset.
MosObjects ==
  [o \in 1 .. 15 |->
     CASE o = 1 -> ZapObject(Micro({Entry("config", <<7>>), Entry("root_dataset", <<2>>)}))
       [] o = 2 -> Dir(3, 4)
       [] o = 3 -> Ds(13, "root", FALSE)
       [] o = 4 -> ZapObject(<<Header(2), Leaf({Entry("home", <<5>>)}), PtrTable, Leaf({Entry("$MOS", <<11>>)})>>)
       [] o = 5 -> Dir(6, 7)
       [] o = 6 -> Ds(12, "home", FALSE)
       [] o = 7 -> ZapObject(Micro({Entry("deep", <<8>>)}))
       [] o = 8 -> Dir(9, NoObject)
       [] o = 9 -> Ds(13, "deep", FALSE)
       [] o = 10 -> Ds(NoObject, "snap", FALSE)
       [] o = 11 -> Dir(NoObject, NoObject)
       [] o = 12 -> ZapObject(<<Header(2), Leaf({Entry("base", <<10>>)}), Leaf({Entry("base", <<10>>), Entry("origin", <<14>>)})>>)
       [] o = 13 -> ZapObject(Micro({}))
       [] o = 14 -> Ds(NoObject, "none", TRUE)
       [] o = 15 -> ZapObject(Micro({Entry("back", <<2>>)}))]

\* The words of the attributes of a layout, with their lengths, after a header.
F(attr, length) == [attr |-> attr, length |-> length]
Bonus(num, header, lengths, tail) ==
  LET fields == [k \in DOMAIN Common |-> F(Common[k], 1)] \o tail
      end[k \in 0 .. Len(fields)] == IF k = 0 THEN header ELSE end[k - 1] + fields[k].length IN
  [num |-> num, header |-> header, lengths |-> lengths, plausible |-> TRUE, end |-> end[Len(fields)],
   layout |-> [k \in DOMAIN fields |-> fields[k].attr],
   body |-> [a \in {f.attr : f \in ToSet(fields)} |->
               LET k == CHOOSE k \in DOMAIN fields : fields[k].attr = a IN <<end[k - 1], end[k]>>]]
Zeros == <<0, 0, 0>>

\* A file, one with extended attributes, a link, and one of an older version.
Plain == Bonus(2, 1, <<5>>, <<F("PROJID", 1), F("COUNT", 1), F("ACES", 5)>>)
Xattr == Bonus(3, 2, <<5, 9>> \o Zeros, <<F("PROJID", 1), F("COUNT", 1), F("ACES", 5), F("DXATTR", 9)>>)
Link == Bonus(4, 2, <<3, 5>> \o Zeros, <<F("PROJID", 1), F("COUNT", 1), F("SYMLINK", 3), F("ACES", 5)>>)
Old == Bonus(5, 1, <<5>>, <<F("COUNT", 1), F("ACES", 5)>>)

Node(type, bonus, parent, blocks) == [type |-> type, bonus |-> bonus, parent |-> parent, blocks |-> blocks]
Other(blocks) == Node("other", NoBonus, 0, blocks)
Master == Other(Micro({Entry("ROOT", <<5>>), Entry("SA_ATTRS", <<2>>)}))
Registry ==
  Other(Micro({Entry(a, <<ZplStandardAttrs[a]>>) : a \in DOMAIN ZplStandardAttrs}))
Layouts(b) ==
  Other(<<Header(4), Leaf({Entry(2, b.plain.layout), Entry(3, b.xattr.layout)}),
          Leaf({Entry(4, b.link.layout), Entry(5, b.old.layout)})>>)

\* 5 is the root; 8 is in d and in the root, 10 in no directory, 12 has no dnode.
RootFs(b) ==
  [o \in 1 .. 11 |->
     CASE o = 1 -> Master
       [] o = 2 -> Other(Micro({Entry("REGISTRY", <<3>>), Entry("LAYOUTS", <<4>>)}))
       [] o = 3 -> Registry
       [] o = 4 -> Layouts(b)
       [] o = 5 -> Node("dir", b.plain, 5, <<Header(4), Leaf({Entry("a", <<7>>), Entry("d", <<6>>)}),
                                           Leaf({Entry("h", <<8>>), Entry("gone", <<12>>)})>>)
       [] o = 6 -> Node("dir", [b.plain EXCEPT !.plausible = FALSE], 5,
                     Micro({Entry("x", <<8>>), Entry("l", <<9>>), Entry("s", <<11>>)}))
       [] o = 7 -> Node("file", b.plain, 5, <<>>)
       [] o = 8 -> Node("file", b.xattr, 6, <<>>)
       [] o = 9 -> Node("other", b.link, 6, <<>>)
       [] o = 10 -> Node("file", b.old, 6, <<>>)
       [] o = 11 -> Node("file", [b.plain EXCEPT !.plausible = FALSE], 6, <<>>)]

\* Attributes that lie: two directories are each the parent of the other.
LoopFs(b) ==
  [o \in {1, 5, 6, 7, 8} |->
     CASE o = 1 -> Master
       [] o = 5 -> Node("dir", b.plain, 5, Micro({}))
       [] o = 6 -> Node("dir", b.plain, 7, Micro({Entry("f", <<8>>)}))
       [] o = 7 -> Node("dir", b.plain, 6, Micro({}))
       [] o = 8 -> Node("file", b.plain, 6, <<>>)]

OneFile(b) == [o \in {1, 5, 6} |->
  CASE o = 1 -> Master
    [] o = 5 -> Node("dir", b.plain, 5, Micro({Entry("f", <<6>>)}))
    [] o = 6 -> Node("file", b.plain, 5, <<>>)]

Disks(b, mos, one) == [os \in {"mos", "looped", "root", "home", "deep", "snap"} |->
  CASE os = "mos" -> mos
    [] os = "looped" -> [mos EXCEPT ![8].children = 15]
    [] os \in {"root", "snap"} -> one
    [] os = "home" -> RootFs(b)
    [] os = "deep" -> LoopFs(b)]
Bonuses == [plain |-> Plain, xattr |-> Xattr, link |-> Link, old |-> Old]
MCObjects == Disks(Bonuses, MosObjects, OneFile(Bonuses))
MCMaxDepth == 2
MCFilters == {NoFilter, ByObject(6), ByName(Named(<<"home">>, "")), ByName(Named(<<"home">>, "base"))}
MCCommands == {[mos |-> m, scan |-> s, filter |-> f] : m \in {"mos", "looped"}, s \in BOOLEAN, f \in MCFilters}

\* Up to two losses, in the pool or in a file system.
Pool == {<<"mos", 1>>, <<"mos", 4>>, <<"mos", 4, 2>>, <<"mos", 5>>, <<"mos", 6>>, <<"mos", 7>>,
         <<"mos", 12, 3>>, <<"root">>, <<"home">>}
Inside == {<<"home", 1>>, <<"home", 3>>, <<"home", 4, 2>>, <<"home", 5>>, <<"home", 5, 2>>,
           <<"home", 6>>, <<"home", 6, 1>>, <<"home", 7>>, <<"home", 8>>}
UpTo(n, S) == {s \in SUBSET S : Cardinality(s) <= n}
MCDamages == UpTo(2, Pool \cup Inside)
=============================================================================
