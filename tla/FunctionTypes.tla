---------------------------- MODULE FunctionTypes -----------------------------
(***************************************************************************)
(* The function types of libusbgx (src/function): how a function's         *)
(* attributes are set, got, read from a scheme and written to one.  Most   *)
(* types are a table of attributes and the loops over it; mass_storage     *)
(* keeps besides which logical units (luns) it has.  A behaviour works on  *)
(* one function, and any one file of a call may fail to open.              *)
(***************************************************************************)
EXTENDS UsbgFiles, FiniteSets, TLC

CONSTANTS
  Addrs,             \* Ethernet addresses
  Words16,           \* values of decimal attributes
  Strs,              \* values of strings
  Reports,           \* report descriptors: sequences of bytes
  MAX_LUNS, Wrong,
  MaxFunctionCalls   \* bound on the calls

VARIABLES
  ftype,   \* the type of the function
  tree,    \* its directory and, for mass_storage, those of the luns
  luns,    \* the mask of struct usbg_f_ms: lun -> BOOLEAN
  luns_initiated,
  scheme,  \* the attrs group of a scheme: tag -> [t, v], a node and its type
  did,     \* history: the last call, [was, ok, asked, got]
  calls    \* calls left

vars == <<ftype, tree, luns, luns_initiated, scheme, did, calls>>

Types == {"hid", "ether", "midi", "uac2", "Loopback", "serial", "phonet", "ffs", "mass_storage"}
F == <<"function">>
Lun(id) == <<"function", id>>
LunIds == 0..(MAX_LUNS - 1)

-----------------------------------------------------------------------------
(* The attributes of the types, in the order of their enumerations *)

Dec(name) == [name |-> name, kind |-> "dec", ro |-> FALSE]
Flag(name) == [name |-> name, kind |-> "bool", ro |-> FALSE]
String(name) == [name |-> name, kind |-> "string", ro |-> FALSE]
Ether(name) == [name |-> name, kind |-> "ether", ro |-> FALSE]
RO(attr) == [attr EXCEPT !.ro = TRUE]

hid_attr ==
  <<[name |-> "dev", kind |-> "dev", ro |-> TRUE], Dec("protocol"),
    [name |-> "report_desc", kind |-> "report", ro |-> FALSE], Dec("report_length"), Dec("subclass")>>
net_attr == <<Ether("dev_addr"), Ether("host_addr"), RO(String("ifname")), Dec("qmult")>>
midi_attr == <<Dec("index"), String("id"), Dec("in_ports"), Dec("out_ports"), Dec("buflen"), Dec("qlen")>>
uac2_attr == <<Dec("c_chmask"), Dec("c_srate"), Dec("c_ssize"), Dec("p_chmask"), Dec("p_srate"), Dec("p_ssize")>>
loopback_attr_names == <<Dec("buflen"), Dec("qlen")>>
ms_lun_attr == <<Flag("cdrom"), Flag("ro"), Flag("nofua"), Flag("removable"), String("file")>>
Table ==
  [hid |-> hid_attr, ether |-> net_attr, midi |-> midi_attr, uac2 |-> uac2_attr,
   Loopback |-> loopback_attr_names, serial |-> <<RO(Dec("port_num"))>>,
   phonet |-> <<RO(String("ifname"))>>, ffs |-> <<>>, mass_storage |-> <<Flag("stall")>>]

\* What the kernel shows for a new function.
Default(attr) ==
  IF attr.kind = "dev" THEN Text(<<"235", ":", "0">>)
  ELSE IF attr.kind = "ether" THEN Text(CHOOSE x \in Addrs : TRUE)
  ELSE IF attr.name = "ifname" THEN Text(<<"usb0">>)
  ELSE Num(0)
Fresh(table) ==
  [n \in {table[i].name : i \in DOMAIN table} |->
     Default(table[CHOOSE i \in DOMAIN table : table[i].name = n])]
NewTree(type) ==
  F :> Fresh(Table[type]) @@ (IF type = "mass_storage" THEN Lun(0) :> Fresh(ms_lun_attr) ELSE <<>>)
\* A function that is there may have more luns.
Trees(type) ==
  {NewTree(type) @@ [d \in {Lun(id) : id \in ids} |-> Fresh(ms_lun_attr)]
     : ids \in (IF type = "mass_storage" THEN SUBSET (LunIds \ {0}) ELSE {{}})}

-----------------------------------------------------------------------------
(* One attribute *)

AsEther(r, name) == IF Ok(r) /\ r.out[name] \notin Addrs THEN Fail(r, "IO") ELSE r
usbg_get_ether_addr(r, dir, name) == AsEther(usbg_read_string_alloc(r, dir, name), name)
AsDev(r, name) ==
  IF ~Ok(r) THEN r
  ELSE IF Len(r.out[name]) < 3 THEN Fail(r, "INVALID_VALUE")
  ELSE Got(r, name, [major |-> r.out[name][1], minor |-> r.out[name][3]])
usbg_get_dev(r, dir, name) == AsDev(usbg_read_string_alloc(r, dir, name), name)
\* The kernel shows the bytes as they are.
hid_get_report(r, dir, name) == Opened(r, dir, name, Got(r, name, r.fs[dir][name].text))

GetAttr(r, dir, attr) ==
  CASE attr.kind = "dec" -> usbg_read_int(r, dir, attr.name, 10)
    [] attr.kind = "bool" -> usbg_read_bool(r, dir, attr.name)
    [] attr.kind = "string" -> usbg_read_string_alloc(r, dir, attr.name)
    [] attr.kind = "ether" -> usbg_get_ether_addr(r, dir, attr.name)
    [] attr.kind = "dev" -> usbg_get_dev(r, dir, attr.name)
    [] attr.kind = "report" -> hid_get_report(r, dir, attr.name)

\* An empty descriptor is written as one byte, the zero that ends "".
hid_set_report(desc) == Text(IF desc = <<>> THEN <<0>> ELSE desc)
usbg_set_ether_addr(addr) == Text(addr)
\* What is written for a value.
Written(attr, v) ==
  CASE attr.kind = "dec" -> Num(v)
    [] attr.kind = "bool" -> Num(IF v THEN 1 ELSE 0)
    [] attr.kind = "string" -> Text(v)
    [] attr.kind = "ether" -> usbg_set_ether_addr(v)
    [] attr.kind = "report" -> hid_set_report(v)
SetAttr(r, dir, attr, v) ==
  IF ~Ok(r) THEN r
  ELSE IF attr.ro THEN Fail(r, "INVALID_PARAM")
  ELSE usbg_write_buf(r, dir, attr.name, Written(attr, v))

\* The loops over a table.  The loop that sets passes over what is read only.
GetAttrs(r, dir, table) == FoldLeft(LAMBDA x, attr : GetAttr(x, dir, attr), r, table)
SetAttrs(r, dir, table, a) ==
  FoldLeft(LAMBDA x, attr : IF attr.ro THEN x ELSE SetAttr(x, dir, attr, a[attr.name]), r, table)

-----------------------------------------------------------------------------
(* Settings of a scheme.  Reading one gives [ret, v]: 0 when there is none, *)
(* 1 with a value, or an error.                                            *)

Node(t, v) == [t |-> t, v |-> v]
Absent == [ret |-> "0", v |-> 0]
Error(why) == [ret |-> why, v |-> 0]
Value(v) == [ret |-> "1", v |-> v]
Has(doc, name) == name \in DOMAIN doc

usbg_get_config_node_int(doc, name) ==
  IF ~Has(doc, name) THEN Absent
  ELSE IF doc[name].t # "int" THEN Error("INVALID_TYPE") ELSE Value(doc[name].v)
\* It returns 0 after it has read the value, which its callers take for none.
usbg_get_config_node_bool(doc, name) ==
  IF Has(doc, name) /\ doc[name].t \notin {"int", "bool"} THEN Error("INVALID_TYPE") ELSE Absent
usbg_get_config_node_string(doc, name) ==
  IF ~Has(doc, name) THEN Absent
  ELSE IF doc[name].t # "string" THEN Error("INVALID_TYPE") ELSE Value(doc[name].v)
usbg_get_config_node_ether_addr(doc, name) ==
  LET s == usbg_get_config_node_string(doc, name)
  IN  IF s.ret = "1" /\ s.v \notin Addrs THEN Error("INVALID_VALUE") ELSE s
hid_get_config_node_report(doc, name) ==
  IF ~Has(doc, name) THEN Absent
  ELSE IF doc[name].t # "list" THEN Error("INVALID_TYPE")
  ELSE IF \E i \in DOMAIN doc[name].v : doc[name].v[i] \notin 0..255 THEN Error("INVALID_VALUE")
  ELSE Value(doc[name].v)

ReadNode(doc, attr) ==
  CASE attr.kind = "dec" -> usbg_get_config_node_int(doc, attr.name)
    [] attr.kind = "bool" -> usbg_get_config_node_bool(doc, attr.name)
    [] attr.kind = "string" -> usbg_get_config_node_string(doc, attr.name)
    [] attr.kind = "ether" -> usbg_get_config_node_ether_addr(doc, attr.name)
    [] attr.kind = "report" -> hid_get_config_node_report(doc, attr.name)

usbg_set_config_node_int(v) == Node("int", v)
usbg_set_config_node_bool(v) == Node("bool", v)
usbg_set_config_node_string(v) == Node("string", v)
usbg_set_config_node_ether_addr(v) == usbg_set_config_node_string(v)
usbg_set_config_node_dev(v) == Node("group", v)
hid_set_config_node_report(v) == Node("list", v)
WriteNode(attr, v) ==
  CASE attr.kind = "dec" -> usbg_set_config_node_int(v)
    [] attr.kind = "bool" -> usbg_set_config_node_bool(v)
    [] attr.kind = "string" -> usbg_set_config_node_string(v)
    [] attr.kind = "ether" -> usbg_set_config_node_ether_addr(v)
    [] attr.kind = "dev" -> usbg_set_config_node_dev(v)
    [] attr.kind = "report" -> hid_set_config_node_report(v)

ImportNode(r, dir, attr, node) ==
  IF ~Ok(r) \/ attr.ro \/ node.ret = "0" THEN r
  ELSE IF node.ret = "1" THEN SetAttr(r, dir, attr, node.v) ELSE Fail(r, node.ret)
Import(r, dir, table, doc) ==
  FoldLeft(LAMBDA x, attr : ImportNode(x, dir, attr, ReadNode(doc, attr)), r, table)

\* The nodes of what has been got; those of read-only attributes are left out
\* but by hid.
Nodes(got, table) ==
  LET attr(n) == table[CHOOSE i \in DOMAIN table : table[i].name = n]
  IN  [n \in {table[i].name : i \in DOMAIN table} \cap DOMAIN got |-> WriteNode(attr(n), got[n])]
AsNodes(r, table) == IF Ok(r) THEN [r EXCEPT !.out = Nodes(@, table)] ELSE r
Export(r, dir, table) == AsNodes(GetAttrs(r, dir, table), table)

-----------------------------------------------------------------------------
(* The types that are tables *)

usbg_f_hid_get_attrs(r) == GetAttrs(r, F, hid_attr)
usbg_f_hid_set_attrs(r, a) == SetAttrs(r, F, hid_attr, a)
usbg_f_hid_set_attr_val(r, i, v) == SetAttr(r, F, hid_attr[i], v)
hid_libconfig_import(r, doc) == Import(r, F, hid_attr, doc)
hid_libconfig_export(r) == Export(r, F, hid_attr)

usbg_f_net_get_attrs(r) == GetAttrs(r, F, net_attr)
usbg_f_net_set_attrs(r, a) == SetAttrs(r, F, net_attr, a)
\* An interface name is refused.
ether_set_attrs(r, a) == IF a.ifname # <<>> THEN Fail(r, "INVALID_PARAM") ELSE usbg_f_net_set_attrs(r, a)
usbg_f_net_set_attr_val(r, i, v) == SetAttr(r, F, net_attr[i], v)
ether_libconfig_import(r, doc) == Import(r, F, net_attr, doc)
ether_libconfig_export(r) == Export(r, F, SelectSeq(net_attr, LAMBDA attr : ~attr.ro))

usbg_f_midi_get_attrs(r) == GetAttrs(r, F, midi_attr)
usbg_f_midi_set_attrs(r, a) == SetAttrs(r, F, midi_attr, a)
usbg_f_midi_set_attr_val(r, i, v) == SetAttr(r, F, midi_attr[i], v)
\* Numbers are read and written as strings, through the wrong member of the
\* union: only a scheme without them is defined, and export is not.
midi_libconfig_import(r, doc) == Import(r, F, midi_attr, doc)

usbg_f_uac2_get_attrs(r) == GetAttrs(r, F, uac2_attr)
usbg_f_uac2_set_attrs(r, a) == SetAttrs(r, F, uac2_attr, a)
usbg_f_uac2_set_attr_val(r, i, v) == SetAttr(r, F, uac2_attr[i], v)
uac2_libconfig_import(r, doc) == Import(r, F, uac2_attr, doc)
uac2_libconfig_export(r) == Export(r, F, uac2_attr)

usbg_f_loopback_get_attrs(r) == GetAttrs(r, F, loopback_attr_names)
usbg_f_loopback_set_attrs(r, a) == SetAttrs(r, F, loopback_attr_names, a)
usbg_f_loopback_set_attr_val(r, i, v) == SetAttr(r, F, loopback_attr_names[i], v)
\* The type of a node is not asked: a node that is no number reads as 0.
ImportNumber(r, attr, doc) ==
  LET node == doc[attr.name]
      tmp == IF node.t = "int" THEN node.v ELSE 0
  IN  IF ~Ok(r) \/ ~Has(doc, attr.name) THEN r
      ELSE IF tmp < 0 THEN Fail(r, "INVALID_PARAM") ELSE SetAttr(r, F, attr, tmp)
loopback_libconfig_import(r, doc) ==
  FoldLeft(LAMBDA x, attr : ImportNumber(x, attr, doc), r, loopback_attr_names)
NoNegative(r) ==
  IF Ok(r) /\ \E n \in DOMAIN r.out : r.out[n].v < 0 THEN Fail(r, "INVALID_VALUE") ELSE r
loopback_libconfig_export(r) == NoNegative(Export(r, F, loopback_attr_names))

\* What these hold can only be read: a set takes no value but the empty one.
serial_set_attrs(r, a) == IF a.port_num # 0 THEN Fail(r, "INVALID_PARAM") ELSE r
usbg_f_serial_get_port_num(r) == usbg_read_int(r, F, "port_num", 10)
phonet_set_attrs(r, a) == IF a.ifname # <<>> THEN Fail(r, "INVALID_PARAM") ELSE r
usbg_f_phonet_get_ifname(r) == usbg_read_string_alloc(r, F, "ifname")
ffs_set_attrs(r, a) == IF a.dev_name # <<>> THEN Fail(r, "INVALID_PARAM") ELSE r
usbg_f_fs_get_dev_name(r) == Got(r, "dev_name", <<"instance">>)

-----------------------------------------------------------------------------
(* mass_storage: runs carry besides the mask and whether it is initiated *)

MsRun(broken) == Run(tree, broken) @@ [mask |-> luns, ready |-> luns_initiated]

\* The directory is scanned; what the mask has already stays.
init_luns(r) == [i \in LunIds |-> r.mask[i] \/ Lun(i) \in DOMAIN r.fs]
get_lun_mask(r) ==
  IF r.ready \/ r.broken = "scandir" THEN r ELSE [r EXCEPT !.mask = init_luns(r), !.ready = TRUE]

usbg_f_ms_set_stall(r, stall) == SetAttr(r, F, Flag("stall"), stall)
usbg_f_ms_get_stall(r) == usbg_read_bool(r, F, "stall")
usbg_f_ms_set_lun_attr_val(r, id, i, v) == SetAttr(r, Lun(id), ms_lun_attr[i], v)
usbg_f_ms_set_lun_attrs(r, id, lattrs) == SetAttrs(r, Lun(id), ms_lun_attr, lattrs)
usbg_f_ms_get_lun_attrs(r, id) == GetAttrs(r, Lun(id), ms_lun_attr)

RmLun(fs, id) == [d \in DOMAIN fs \ {Lun(id)} |-> fs[d]]
\* lattrs is a set of at most one: the pointer may be null.
SetLattrs(r, id, lattrs) ==
  IF lattrs = {} THEN r ELSE usbg_f_ms_set_lun_attrs(r, id, CHOOSE a \in lattrs : TRUE)
InMask(r, id) == IF Ok(r) THEN [r EXCEPT !.mask[id] = TRUE] ELSE [r EXCEPT !.fs = RmLun(@, id)]
MakeLun(r, id, lattrs) ==
  LET made == mkdir(r, Lun(id), Fresh(ms_lun_attr))
  IN  IF r.mask[id] \/ Lun(id) \in DOMAIN r.fs THEN Fail(r, "EXIST")
      ELSE IF r.broken = "mkdir" THEN made
      ELSE InMask(SetLattrs(made, id, lattrs), id)
usbg_f_ms_create_lun(r, id, lattrs) ==
  IF ~Ok(r) THEN r
  ELSE IF id >= MAX_LUNS THEN Fail(r, "INVALID_PARAM") ELSE MakeLun(get_lun_mask(r), id, lattrs)

\* The kernel does not remove lun 0.
RmDir(r, id) ==
  IF ~r.mask[id] THEN Fail(r, "INVALID_PARAM")
  ELSE IF id = 0 THEN Fail(r, "BUSY") ELSE usbg_rm_dir(r, Lun(id))
OutOfMask(r, id) == IF Ok(r) THEN [r EXCEPT !.mask[id] = FALSE] ELSE r
\* Mutant: the mask keeps the lun.
usbg_f_ms_rm_lun_Kept(r, id) ==
  IF ~Ok(r) THEN r
  ELSE IF id >= MAX_LUNS THEN Fail(r, "INVALID_PARAM") ELSE RmDir(get_lun_mask(r), id)
usbg_f_ms_rm_lun(r, id) ==
  IF ~Ok(r) THEN r
  ELSE IF id >= MAX_LUNS THEN Fail(r, "INVALID_PARAM") ELSE OutOfMask(RmDir(get_lun_mask(r), id), id)

InOrder(r, list, Step(_, _)) == FoldLeft(LAMBDA x, i : IF Ok(x) THEN Step(x, i) ELSE x, r, list)
AllIds == [i \in 1..MAX_LUNS |-> i - 1]

\* a.luns[i + 1] is attrs->luns[i].  The ids say which luns there will be, but
\* lun i gets the attributes at position i.  The clean-up of a failure removes
\* nothing: the mask it asks shows the new luns already.
ToBe(a) == {IF a.luns[i].id >= 0 THEN a.luns[i].id ELSE i - 1 : i \in DOMAIN a.luns}
SetLuns(r, i, a) ==
  LET at == {a.luns[j] : j \in {i + 1} \cap DOMAIN a.luns}
  IN  IF i \notin ToBe(a) THEN (IF r.mask[i] THEN usbg_f_ms_rm_lun(r, i) ELSE r)
      ELSE IF r.mask[i] THEN usbg_f_ms_set_lun_attrs(r, i, a.luns[i + 1])
      ELSE usbg_f_ms_create_lun(r, i, at)
WithMask(r) == IF Ok(r) THEN get_lun_mask(r) ELSE r
usbg_f_ms_set_attrs(r, a) ==
  InOrder(WithMask(usbg_f_ms_set_stall(r, a.stall)), AllIds, LAMBDA x, i : SetLuns(x, i, a))
\* attrs->luns is read where it is defined: not past its end, and not its null
\* for a lun that exists.
Defined(a) ==
  \A id \in ToBe(a) : id <= Len(a.luns) /\ (id = Len(a.luns) => ~(luns[id] \/ Lun(id) \in DOMAIN tree))

usbg_f_ms_get_nluns(r) == Cardinality({i \in LunIds : get_lun_mask(r).mask[i]})
\* out maps "stall" and the luns to what was read.  The array has a place for each
\* lun and is indexed with their ids, which have to be 0, 1, 2 ...
AddLun(lun, i, out) == IF Ok(lun) THEN Got([lun EXCEPT !.out = out], ToString(i), lun.out) ELSE lun
GetLun(r, i) ==
  IF r.mask[i] THEN AddLun(usbg_f_ms_get_lun_attrs([r EXCEPT !.out = <<>>], i), i, r.out) ELSE r
usbg_f_ms_get_attrs(r) == InOrder(WithMask(usbg_f_ms_get_stall(r)), AllIds, GetLun)
Dense == LET mask == get_lun_mask(MsRun("none")).mask IN \A i \in LunIds : mask[i] => \A j \in 0..i : mask[j]

ms_export_lun_attrs(r, id) == Export([r EXCEPT !.out = <<>>], Lun(id), ms_lun_attr)
AddNode(lun, out) == IF Ok(lun) THEN [lun EXCEPT !.out = [out EXCEPT !.luns.v = Append(@, lun.out)]] ELSE lun
ExportLun(r, i) == IF r.mask[i] THEN AddNode(ms_export_lun_attrs(r, i), r.out) ELSE r
Root(r) ==
  IF Ok(r) THEN [r EXCEPT !.out = [stall |-> Node("bool", @["stall"]), luns |-> Node("list", <<>>)]] ELSE r
ms_libconfig_export(r) == InOrder(WithMask(Root(usbg_f_ms_get_stall(r))), AllIds, ExportLun)

\* The luns of a scheme have no ids: they become 0, 1, 2 ...
ms_import_lun_attrs(r, id, doc) == Import(r, Lun(id), ms_lun_attr, doc)
ImportLun(r, i, doc) ==
  IF doc = Wrong THEN Fail(r, "INVALID_TYPE")
  ELSE ms_import_lun_attrs(IF r.mask[i] THEN r ELSE usbg_f_ms_create_lun(r, i, {}), i, doc)
ms_libconfig_import(r, doc) ==
  LET stall == usbg_get_config_node_bool(doc, "stall").ret
  IN  IF stall # "0" THEN Fail(r, stall)
      ELSE IF ~Has(doc, "luns") THEN Fail(r, "INVALID_PARAM")
      ELSE IF doc.luns.t # "list" THEN Fail(r, "INVALID_TYPE")
      ELSE InOrder(get_lun_mask(r), [i \in DOMAIN doc.luns.v |-> i - 1],
                   LAMBDA x, i : ImportLun(x, i, doc.luns.v[i + 1]))

\* Before the function is removed.
ms_remove(r) ==
  InOrder(get_lun_mask(r), AllIds, LAMBDA x, i : IF i # 0 /\ x.mask[i] THEN usbg_f_ms_rm_lun(x, i) ELSE x)

-----------------------------------------------------------------------------
Init ==
  /\ ftype \in Types /\ tree \in Trees(ftype)
  /\ luns = [i \in LunIds |-> FALSE] /\ luns_initiated = FALSE
  /\ scheme = <<>> /\ calls = MaxFunctionCalls
  /\ did = [was |-> tree, ok |-> TRUE, asked |-> <<>>, got |-> <<>>]

\* The end of a call that was asked for the values of asked, or to get.
Did(r, asked, got) ==
  /\ tree' = r.fs
  /\ did' = [was |-> tree, ok |-> Ok(r), asked |-> asked, got |-> got]
NoLuns == UNCHANGED <<luns, luns_initiated>>
Masked(r) == luns' = r.mask /\ luns_initiated' = r.ready

\* Values for a table: one number and one of each other kind for all attributes.
Sample(table) ==
  {[n \in {table[i].name : i \in DOMAIN table} |->
      LET attr == table[CHOOSE i \in DOMAIN table : table[i].name = n]
      IN  CASE attr.kind = "dec" -> d [] attr.kind = "bool" -> d # 0
            [] attr.kind = "string" -> IF n = "ifname" /\ e # d THEN <<>> ELSE s
            [] attr.kind = "ether" -> x [] attr.kind = "report" -> p [] attr.kind = "dev" -> <<>>]
     : d, e \in Words16, s \in Strs, x \in Addrs, p \in Reports}

Tabled == ftype # "mass_storage"
GetOf(r) ==
  CASE ftype = "hid" -> usbg_f_hid_get_attrs(r) [] ftype = "ether" -> usbg_f_net_get_attrs(r)
    [] ftype = "midi" -> usbg_f_midi_get_attrs(r) [] ftype = "uac2" -> usbg_f_uac2_get_attrs(r)
    [] ftype = "Loopback" -> usbg_f_loopback_get_attrs(r)
    [] ftype = "serial" -> usbg_f_serial_get_port_num(r)
    [] ftype = "phonet" -> usbg_f_phonet_get_ifname(r) [] ftype = "ffs" -> usbg_f_fs_get_dev_name(r)
SetOf(r, a) ==
  CASE ftype = "hid" -> usbg_f_hid_set_attrs(r, a) [] ftype = "ether" -> ether_set_attrs(r, a)
    [] ftype = "midi" -> usbg_f_midi_set_attrs(r, a) [] ftype = "uac2" -> usbg_f_uac2_set_attrs(r, a)
    [] ftype = "Loopback" -> usbg_f_loopback_set_attrs(r, a)
    [] ftype = "serial" -> serial_set_attrs(r, a) [] ftype = "phonet" -> phonet_set_attrs(r, a)
    [] ftype = "ffs" -> ffs_set_attrs(r, [dev_name |-> <<>>])
SetOneOf(r, i, v) ==
  CASE ftype = "hid" -> usbg_f_hid_set_attr_val(r, i, v) [] ftype = "ether" -> usbg_f_net_set_attr_val(r, i, v)
    [] ftype = "midi" -> usbg_f_midi_set_attr_val(r, i, v) [] ftype = "uac2" -> usbg_f_uac2_set_attr_val(r, i, v)
    [] ftype = "Loopback" -> usbg_f_loopback_set_attr_val(r, i, v)
ImportOf(r, doc) ==
  CASE ftype = "hid" -> hid_libconfig_import(r, doc) [] ftype = "ether" -> ether_libconfig_import(r, doc)
    [] ftype = "midi" -> midi_libconfig_import(r, doc) [] ftype = "uac2" -> uac2_libconfig_import(r, doc)
    [] ftype = "Loopback" -> loopback_libconfig_import(r, doc)
ExportOf(r) ==
  CASE ftype = "hid" -> hid_libconfig_export(r) [] ftype = "ether" -> ether_libconfig_export(r)
    [] ftype = "uac2" -> uac2_libconfig_export(r) [] ftype = "Loopback" -> loopback_libconfig_export(r)

Given(dir, table, a) ==
  LET set == {i \in DOMAIN table : ~table[i].ro /\ table[i].name \in DOMAIN a}
      at(n) == table[CHOOSE i \in set : table[i].name = n]
  IN  [k \in {<<dir, table[i].name>> : i \in set} |-> Written(at(k[2]), a[k[2]])]
Breaks == {"none"} \cup {Table[ftype][i].name : i \in DOMAIN Table[ftype]}
\* The values that an import takes from the nodes.
Carried(doc, table) ==
  LET kinds == {"dec", "string", "ether", "report"}
      n == {table[i].name : i \in {i \in DOMAIN table : table[i].kind \in kinds}}
  IN  [x \in {x \in DOMAIN doc \cap n : doc[x].t # "wrong"} |-> doc[x].v]

Get ==
  /\ Tabled /\ NoLuns /\ UNCHANGED scheme
  /\ \E b \in Breaks : LET r == GetOf(Run(tree, b)) IN Did(r, <<>>, r.out)
Set ==
  /\ Tabled /\ NoLuns /\ UNCHANGED scheme
  /\ \E a \in Sample(Table[ftype]), b \in Breaks :
       Did(SetOf(Run(tree, b), a), Given(F, Table[ftype], a), <<>>)
SetOne ==
  /\ ftype \in {"hid", "ether", "midi", "uac2", "Loopback"} /\ NoLuns /\ UNCHANGED scheme
  /\ \E u \in {Sample(Table[ftype])}, i \in DOMAIN Table[ftype] :
       LET attr == Table[ftype][i]
       IN  \E v \in {a[attr.name] : a \in u} :
             Did(SetOneOf(Run(tree, "none"), i, v), Given(F, <<attr>>, attr.name :> v), <<>>)

\* What may be read from a file instead of what was exported: a tag is missing, has
\* another type, or a value that is too large or negative.
Edits(doc) ==
  {doc} \cup {[n \in DOMAIN doc \ {tag} |-> doc[n]] : tag \in DOMAIN doc}
  \cup {[doc EXCEPT ![tag] = [@ EXCEPT !.t = "wrong"]] : tag \in DOMAIN doc}
  \cup {[doc EXCEPT ![tag].v = -1] : tag \in {n \in DOMAIN doc : doc[n].t = "int"}}
ImportScheme ==
  /\ ftype \in {"hid", "ether", "midi", "uac2", "Loopback"} /\ NoLuns /\ UNCHANGED scheme
  /\ \E doc \in (IF ftype = "midi" THEN {[id |-> Node(t, s)] : t \in {"string", "wrong"}, s \in Strs}
                  ELSE Edits(scheme)) :
       LET attrs == Carried(doc, Table[ftype])
           other == {n \in DOMAIN doc : ftype = "Loopback" /\ doc[n].t = "wrong"}
       IN  Did(ImportOf(Run(tree, "none"), doc),
               Given(F, Table[ftype], attrs @@ [n \in other |-> 0]), <<>>)
ExportScheme ==
  /\ ftype \in {"hid", "ether", "uac2", "Loopback"} /\ NoLuns
  /\ \E b \in Breaks :
       LET r == ExportOf(Run(tree, b))
       IN  scheme' = (IF Ok(r) THEN r.out ELSE scheme) /\ Did(r, <<>>, <<>>)

-----------------------------------------------------------------------------
(* The calls of mass_storage *)

LunSamples == {a @@ [id |-> -1] : a \in {a \in Sample(ms_lun_attr) : a.ro = a.nofua}}
MsBreaks == {"none", "mkdir", "rmdir", "scandir", "removable", "file"}
Ms == ftype = "mass_storage" /\ UNCHANGED scheme
CreateLun ==
  /\ Ms
  /\ \E a \in LunSamples, id \in LunIds \cup {MAX_LUNS}, b \in MsBreaks :
       \E given \in {{}, {a}} :
         LET r == usbg_f_ms_create_lun(MsRun(b), id, given)
         IN  Masked(r) /\ Did(r, IF given = {} THEN <<>> ELSE Given(Lun(id), ms_lun_attr, a), <<>>)
RemoveLun ==
  Ms /\ \E id \in LunIds \cup {MAX_LUNS}, b \in {"none", "rmdir", "scandir"} :
    LET r == usbg_f_ms_rm_lun(MsRun(b), id) IN Masked(r) /\ Did(r, <<>>, <<>>)
RemoveAll == Ms /\ \E b \in {"none", "rmdir"} : LET r == ms_remove(MsRun(b)) IN Masked(r) /\ Did(r, <<>>, <<>>)
SetLun ==
  /\ Ms /\ NoLuns
  /\ \E u \in {LunSamples}, id \in LunIds, i \in DOMAIN ms_lun_attr :
       \E v \in {a[ms_lun_attr[i].name] : a \in u} :
         Did(usbg_f_ms_set_lun_attr_val(MsRun("none"), id, i, v),
             Given(Lun(id), <<ms_lun_attr[i]>>, ms_lun_attr[i].name :> v), <<>>)
SetAll ==
  /\ Ms
  /\ \E ids \in {<<-1>>, <<-1, -1>>, <<1, 0>>, <<0, 2>>, <<2, 0, 1>>, <<1>>}, b \in MsBreaks,
       u \in {u \in LunSamples : u.ro} :
       LET a == [stall |-> TRUE,
                 luns |-> [i \in DOMAIN ids |-> [u EXCEPT !.id = ids[i], !.file = IF i = 1 THEN @ ELSE <<"a">>]]]
           r == usbg_f_ms_set_attrs(MsRun(b), a)
           asked == [k \in {<<F, "stall">>} |-> Num(1)]
       IN  /\ Defined(a) /\ Masked(r)
           /\ Did(r, FoldLeft(LAMBDA x, i : x @@ Given(Lun(i - 1), ms_lun_attr, a.luns[i]),
                              asked, SetToSeq({i \in DOMAIN ids : i - 1 \in ToBe(a)})), <<>>)
GetAll ==
  Ms /\ Dense /\ \E b \in {"none", "stall", "removable"} :
    LET r == usbg_f_ms_get_attrs(MsRun(b)) IN Masked(r) /\ Did(r, <<>>, r.out)
ExportLuns ==
  /\ ftype = "mass_storage"
  /\ \E b \in {"none", "stall", "file"} :
       LET r == ms_libconfig_export(MsRun(b))
       IN  Masked(r) /\ Did(r, <<>>, <<>>) /\ scheme' = (IF Ok(r) THEN r.out ELSE scheme)
ImportLuns ==
  /\ Ms
  /\ \E doc \in Edits(scheme) \cup (IF Has(scheme, "luns") THEN {[scheme EXCEPT !.luns.v = Append(@, Wrong)]} ELSE {}),
       b \in {"none", "mkdir", "file"} :
       LET r == ms_libconfig_import(MsRun(b), doc)
           lists == IF Has(doc, "luns") /\ doc.luns.t = "list" THEN doc.luns.v ELSE <<>>
       IN  /\ Masked(r)
           /\ Did(r, FoldLeft(LAMBDA x, i : x @@ Given(Lun(i - 1), ms_lun_attr, Carried(lists[i], ms_lun_attr)),
                              <<>>, SelectSeq([i \in DOMAIN lists |-> i], LAMBDA i : lists[i] # Wrong)), <<>>)

Next ==
  /\ calls > 0 /\ calls' = calls - 1 /\ UNCHANGED ftype
  /\ \/ Get \/ Set \/ SetOne \/ ImportScheme \/ ExportScheme
     \/ CreateLun \/ RemoveLun \/ RemoveAll \/ SetLun \/ SetAll \/ GetAll \/ ExportLuns \/ ImportLuns

Spec == Init /\ [][Next]_vars

-----------------------------------------------------------------------------
\* What the files of a directory hold, and what was got of them.
Holds(attr, x, v) ==
  CASE attr.kind = "dec" -> x = v.n [] attr.kind = "bool" -> x <=> v.n # 0
    [] attr.kind = "report" -> x = v.text [] attr.kind = "dev" -> v.text = <<x.major, ":", x.minor>>
    [] attr.kind \in {"string", "ether"} ->
         IsPrefix(x, v.text) /\ (x = v.text \/ v.text[Len(x) + 1] = NL)
GotTrue(dir, table, got) ==
  \A i \in DOMAIN table : table[i].name \in DOMAIN got => Holds(table[i], got[table[i].name], tree[dir][table[i].name])
\* A call that succeeds got every attribute, and of every lun there is.
ReadsAll ==
  (did.ok /\ did.got # <<>>) =>
    /\ GotTrue(F, Table[ftype], did.got)
    /\ \A i \in DOMAIN Table[ftype] : Table[ftype][i].name \in DOMAIN did.got
    /\ ~Tabled => \A id \in LunIds :
         IF Lun(id) \in DOMAIN tree
         THEN ToString(id) \in DOMAIN did.got /\ GotTrue(Lun(id), ms_lun_attr, did.got[ToString(id)])
         ELSE ToString(id) \notin DOMAIN did.got

\* The mask, once it is initiated, shows the luns that there are, and the
\* first is always there.
MaskTrue ==
  ~Tabled => /\ Lun(0) \in DOMAIN tree
             /\ \A id \in LunIds : (luns_initiated \/ luns[id]) => (luns[id] <=> Lun(id) \in DOMAIN tree)

\* A function exported and imported into a new one is the same one, but for
\* the Boolean attributes, which import passes over, for what is read only, and for
\* a descriptor that is empty.  Luns are imported in their order, without their ids.
SameAttrs(table, was, new) ==
  \A i \in DOMAIN table :
    LET n == table[i].name
        report == table[i].kind = "report" /\ was[n].text = <<>>
    IN  ~table[i].ro /\ table[i].kind # "bool" =>
          new[n] = IF report THEN Text(<<0>>)
                   ELSE IF table[i].kind = "string" THEN Taken(n, Text(usbg_read_string_limited(was[n], KernelMax + 2)))
                   ELSE was[n]
RoundTrip ==
  LET new == NewTree(ftype)
      r == ImportOf(Run(new, "none"), ExportOf(Run(tree, "none")).out)
      m == ms_libconfig_import([fs |-> new, ret |-> "SUCCESS", broken |-> "none", out |-> <<>>,
                                mask |-> [i \in LunIds |-> FALSE], ready |-> FALSE],
                               ms_libconfig_export(MsRun("none")).out)
      ids == SelectSeq(AllIds, LAMBDA i : Lun(i) \in DOMAIN tree)
  IN  /\ ftype \in {"hid", "ether", "uac2", "Loopback"} => Ok(r) /\ SameAttrs(Table[ftype], tree[F], r.fs[F])
      /\ ~Tabled =>
           /\ Ok(m)
           /\ \A i \in DOMAIN ids : SameAttrs(ms_lun_attr, tree[Lun(ids[i])], m.fs[Lun(i - 1)])
           /\ DOMAIN m.fs = {F} \cup {Lun(i - 1) : i \in DOMAIN ids}

\* What a caller may rely on, whatever call fails.
FunctionsSound == OnlyAsked(did.was, tree, did.asked, did.ok) /\ ReadsAll /\ MaskTrue /\ RoundTrip
=============================================================================
