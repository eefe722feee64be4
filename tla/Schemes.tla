------------------------------- MODULE Schemes --------------------------------
(***************************************************************************)
(* Gadget schemes (usbg_schemes_libconfig.c): a gadget, a function or a    *)
(* configuration of libusbgx written to a file and read back.  A setting   *)
(* of libconfig that is a group is a record that has the tags present, a   *)
(* list is a sequence, and Wrong is a setting of another type than the     *)
(* reader wants.  A name is a sequence of strings: <<"hid", "usb0">> is    *)
(* hid_usb0, and <<"hid", ".", "usb0">> the directory hid.usb0.            *)
(***************************************************************************)
EXTENDS SchemeParts, FiniteSets, Functions

CONSTANTS
  Gadgets,        \* the gadgets a behaviour starts with
  Instances,      \* the instance given to usbg_import_function
  Ids,            \* the id given to usbg_import_config
  NoGadget, Wrong,
  CharIsSigned,   \* of the compiler; not on the Pi
  MaxCalls        \* bound on exports, edits and imports

VARIABLES
  gadgets,   \* the gadgets of configfs, by name
  file,      \* [kind, doc]
  last,      \* history: the last import, [op, ret, was]
  nCalls

vars == <<gadgets, file, last, nCalls>>

Names == {"g1", "g2"}
-----------------------------------------------------------------------------
(* Export *)

generate_function_label(f) == <<f.type, f.instance>>
LabelOf(f) == IF f.label = NoLabel THEN generate_function_label(f) ELSE f.label

export_binding(b) == [name |-> b.name, function |-> [label |-> <<b.type, b.instance>>]]

export_strings(strs) ==
  SetToSeq({[f \in DOMAIN strs[l] \cup {"lang"} |-> IF f = "lang" THEN l ELSE strs[l][f]]
              : l \in DOMAIN strs})

export_config_bindings(c) == SetToSeq({export_binding(b) : b \in c.binds})
export_config_prep(c) ==
  [name |-> c.name, attrs |-> c.attrs, strings |-> export_strings(c.strs),
   functions |-> export_config_bindings(c)]

\* int tmp = report_desc->desc[i]
Exported(byte) == IF CharIsSigned /\ byte > 127 THEN byte - 256 ELSE byte
export_function_attrs(f) ==
  [a \in DOMAIN f.attrs |->
     IF a = "report_desc" THEN [i \in DOMAIN f.attrs[a] |-> Exported(f.attrs[a][i])]
     ELSE f.attrs[a]]
export_function_os_descs(f) ==
  SetToSeq({[interface |-> i, compatible_id |-> f.osd[i][1],
             sub_compatible_id |-> f.osd[i][2]] : i \in DOMAIN f.osd})
export_function_prep(f) ==
  [type |-> f.type, attrs |-> export_function_attrs(f), os_descs |-> export_function_os_descs(f)]

With(rec, tag, v) == [t \in DOMAIN rec \cup {tag} |-> IF t = tag THEN v ELSE rec[t]]

\* The setting of a function has the label as its name, and a second setting
\* of the same name is refused.
CanExport(g) == \A f, h \in g.funcs : LabelOf(f) = LabelOf(h) => f = h
export_gadget_functions(g) ==
  LET Function(f) == With(With(export_function_prep(f), "instance", f.instance), "label", LabelOf(f))
  IN  SetToSeq({Function(f) : f \in g.funcs})
export_gadget_configs(g) == SetToSeq({With(export_config_prep(c), "id", c.id) : c \in g.configs})
export_gadget_strings(g) == export_strings(g.strs)
export_gadget_os_descs(g) == IF g.oscfg = 0 THEN g.os ELSE With(g.os, "config_id", g.oscfg)
export_gadget_prep(g) ==
  [attrs |-> g.attrs, os_descs |-> export_gadget_os_descs(g), strings |-> export_gadget_strings(g),
   functions |-> export_gadget_functions(g), configs |-> export_gadget_configs(g)]

-----------------------------------------------------------------------------
(* Import.  r is [ret, g]: what the calls so far returned and the gadget as *)
(* they have left it; ret is "SUCCESS" as long as none has failed.          *)

Has(doc, tag) == tag \in DOMAIN doc
Ok(r) == r.ret = "SUCCESS"
Fail(r, why) == [r EXCEPT !.ret = why]
Run(g) == [ret |-> "SUCCESS", g |-> g]

\* The elements of a list in order, until one fails.
Each(r, list, Import(_, _)) ==
  FoldLeft(LAMBDA x, e : IF Ok(x) THEN Import(x, e) ELSE x, r, list)

\* An optional section that has to be a group, or a list.
Section(r, doc, tag, Import(_, _)) ==
  IF ~Ok(r) \/ ~Has(doc, tag) THEN r
  ELSE IF doc[tag] = Wrong THEN Fail(r, "INVALID_TYPE") ELSE Import(r, doc[tag])

\* What is missing or wrong with the settings the reader needs, or "SUCCESS".
Needs(doc, tags) ==
  IF \E t \in tags : ~Has(doc, t) THEN "MISSING_TAG"
  ELSE IF \E t \in tags : doc[t] = Wrong THEN "INVALID_TYPE" ELSE "SUCCESS"

FunctionIn(g, type, instance) == {f \in g.funcs : f.type = type /\ f.instance = instance}
Update(g, f, h) == [g EXCEPT !.funcs = (@ \ {f}) \cup {h}]

TheFunction(g, type, instance) == CHOOSE f \in FunctionIn(g, type, instance) : TRUE

\* hid_libconfig_import and its kind: every attribute that may be written.
\* Attributes of a group that is none (Wrong) are all absent.
import_attr(r, f, a, attrs) ==
  LET v == attrs[a[1]]
  IN  IF ~Has(attrs, a[1]) THEN r
      ELSE IF v = Wrong THEN Fail(r, "INVALID_TYPE")
      ELSE IF a[2] = "bytes" /\ \E i \in DOMAIN v : v[i] \notin 0..255 THEN Fail(r, "INVALID_VALUE")
      ELSE [r EXCEPT !.g = Update(@, f, [f EXCEPT !.attrs[a[1]] = v])]
import_function_attrs(r, type, instance, attrs) ==
  Each(r, FunctionAttrs(type), LAMBDA x, a : import_attr(x, TheFunction(x.g, type, instance), a, attrs))

import_function_os_desc(r, f, d) ==
  IF d = Wrong THEN Fail(r, "INVALID_TYPE")
  ELSE IF ~Has(d, "interface") THEN Fail(r, "MISSING_TAG")
  ELSE IF d.interface \notin Interfaces(f.type) THEN Fail(r, "NOT_SUPPORTED")
  ELSE [r EXCEPT !.g = Update(@, f, [f EXCEPT !.osd[d.interface] = <<d.compatible_id, d.sub_compatible_id>>])]
import_function_os_descs(r, type, instance, list) ==
  IF ~Ok(r) THEN r
  ELSE Each(r, list, LAMBDA x, d : import_function_os_desc(x, TheFunction(x.g, type, instance), d))

\* The attributes and descriptors are not asked for their types.
Group(doc, tag) == IF Has(doc, tag) /\ doc[tag] # Wrong THEN doc[tag] ELSE <<>>
create_function(r, type, instance) == [r EXCEPT !.g.funcs = @ \cup {NewFunction(type, instance)}]
import_function_run(r, doc, instance) ==
  IF Needs(doc, {"type"}) # "SUCCESS" THEN Fail(r, Needs(doc, {"type"}))
  ELSE IF doc.type \notin Types THEN Fail(r, "NOT_SUPPORTED")
  ELSE IF FunctionIn(r.g, doc.type, instance) # {} THEN Fail(r, "EXIST")
  ELSE import_function_os_descs(
         import_function_attrs(create_function(r, doc.type, instance), doc.type, instance, Group(doc, "attrs")),
         doc.type, instance, Group(doc, "os_descs"))

Label(r, f, label) == IF Ok(r) THEN [r EXCEPT !.g = Update(@, f, [f EXCEPT !.label = label])] ELSE r
LabelFunction(r, e) == Label(r, TheFunction(r.g, e.type, e.instance), e.label)
import_gadget_function(r, e) ==
  IF e = Wrong THEN Fail(r, "INVALID_TYPE")
  ELSE IF Needs(e, {"instance"}) # "SUCCESS" THEN Fail(r, Needs(e, {"instance"}))
  ELSE LabelFunction(import_function_run(r, e, e.instance), e)
import_gadget_functions(r, list) == Each(r, list, import_gadget_function)

\* usbg_lookup_function: a label, or else type_instance.
lookup_function(g, label) ==
  LET labelled == {f \in g.funcs : f.label = label}
  IN  IF labelled # {} THEN labelled
      ELSE IF Len(label) = 2 THEN FunctionIn(g, label[1], label[2]) ELSE {}

DirName(f) == <<f.type, ".", f.instance>>
ConfigIn(g, id) == CHOOSE c \in g.configs : c.id = id

\* usbg_add_config_function
add_config_function(r, id, name, f) ==
  LET c == ConfigIn(r.g, id)
      d == [c EXCEPT !.binds = @ \cup {[name |-> name, type |-> f.type, instance |-> f.instance]}]
  IN  IF \E b \in c.binds : b.name = name \/ (b.type = f.type /\ b.instance = f.instance)
      THEN Fail(r, "EXIST")
      ELSE [r EXCEPT !.g.configs = (@ \ {c}) \cup {d}]

\* A binding is the label of a function, or a group with a label or with a
\* function of its own.
IsLabel(x) == Has(x, "label")
Bind(r, id, targets, doc) ==
  LET f == CHOOSE f \in targets : TRUE
  IN  IF targets = {} THEN Fail(r, "NOT_FOUND")
      ELSE IF ~Has(doc, "name") THEN add_config_function(r, id, DirName(f), f)
      ELSE IF doc.name = Wrong THEN Fail(r, "INVALID_TYPE")
      ELSE add_config_function(r, id, doc.name, f)

BindOwn(r, id, fn, doc) == IF Ok(r) THEN Bind(r, id, FunctionIn(r.g, fn.type, fn.instance), doc) ELSE r
import_binding_group(r, id, doc) ==
  LET fn == doc.function
  IN  IF Needs(doc, {"function"}) # "SUCCESS" THEN Fail(r, Needs(doc, {"function"}))
      ELSE IF IsLabel(fn) THEN Bind(r, id, lookup_function(r.g, fn.label), doc)
      ELSE IF Needs(fn, {"instance"}) # "SUCCESS" THEN Fail(r, Needs(fn, {"instance"}))
      ELSE BindOwn(import_function_run(r, fn, fn.instance), id, fn, doc)

import_binding(r, id, e) ==
  IF e = Wrong THEN Fail(r, "INVALID_TYPE")
  ELSE IF IsLabel(e) THEN Bind(r, id, lookup_function(r.g, e.label), <<>>)
  ELSE import_binding_group(r, id, e)
import_config_bindings(r, id, list) == Each(r, list, LAMBDA x, e : import_binding(x, id, e))

-----------------------------------------------------------------------------
\* The strings of one language; those that are absent stay what they were.
import_strs(strs, doc, fields, new) ==
  LET old == IF doc.lang \in DOMAIN strs THEN strs[doc.lang] ELSE new
  IN  With(strs, doc.lang, [f \in fields |-> IF Has(doc, f) THEN doc[f] ELSE old[f]])

WrongStrs(doc, fields) ==
  IF ~Has(doc, "lang") THEN "MISSING_TAG"
  ELSE IF \E f \in DOMAIN doc \cap (fields \cup {"lang"}) : doc[f] = Wrong THEN "INVALID_TYPE"
  ELSE "SUCCESS"

UpdateConfig(r, c, d) == [r EXCEPT !.g.configs = (@ \ {c}) \cup {d}]

\* usbg_set_config_string refuses an absent string, although the reader calls
\* it optional.
import_config_strs(r, c, d) ==
  LET fields == {"configuration"}
  IN  IF d = Wrong THEN Fail(r, "INVALID_TYPE")
      ELSE IF WrongStrs(d, fields) # "SUCCESS" THEN Fail(r, WrongStrs(d, fields))
      ELSE IF ~Has(d, "configuration") THEN Fail(r, "INVALID_PARAM")
      ELSE UpdateConfig(r, c, [c EXCEPT !.strs = import_strs(@, d, fields, <<>>)])
import_config_strings(r, id, list) ==
  Each(r, list, LAMBDA x, d : import_config_strs(x, ConfigIn(x.g, id), d))

import_config_attr(r, c, a, attrs) ==
  IF ~Has(attrs, a) THEN r
  ELSE IF attrs[a] = Wrong THEN Fail(r, "INVALID_TYPE")
  ELSE IF ~Accepts(a, attrs[a]) THEN Fail(r, "KERNEL")
  ELSE UpdateConfig(r, c, [c EXCEPT !.attrs[a] = attrs[a]])
import_config_attrs(r, id, attrs) ==
  Each(r, <<"bmAttributes", "bMaxPower">>, LAMBDA x, a : import_config_attr(x, ConfigIn(x.g, id), a, attrs))

\* The cleanup of a failed import: usbg_rm_config(c, USBG_RM_RECURSE); the
\* functions that were defined within the configuration stay in the gadget.
rm_config(r, id) == [r EXCEPT !.g.configs = @ \ {ConfigIn(r.g, id)}]

NewConfig(id, name) ==
  [id |-> id, name |-> name, attrs |-> [bmAttributes |-> 128, bMaxPower |-> 2], strs |-> <<>>, binds |-> {}]
create_config(r, id, name) == [r EXCEPT !.g.configs = @ \cup {NewConfig(id, name)}]
ConfigSections(r, doc, id) ==
  Section(
    Section(
      Section(create_config(r, id, doc.name), doc, "attrs", LAMBDA x, d : import_config_attrs(x, id, d)),
      doc, "strings", LAMBDA x, d : import_config_strings(x, id, d)),
    doc, "functions", LAMBDA x, d : import_config_bindings(x, id, d))
Kept(r, id) == IF Ok(r) THEN r ELSE rm_config(r, id)
import_config_run(r, doc, id) ==
  IF Needs(doc, {"name"}) # "SUCCESS" THEN Fail(r, Needs(doc, {"name"}))
  ELSE IF id \notin 1..255 THEN Fail(r, "INVALID_PARAM")
  ELSE IF \E c \in r.g.configs : c.id = id THEN Fail(r, "EXIST")
  ELSE Kept(ConfigSections(r, doc, id), id)

import_gadget_config(r, d) ==
  IF d = Wrong THEN Fail(r, "INVALID_TYPE")
  ELSE IF Needs(d, {"id"}) # "SUCCESS" THEN Fail(r, Needs(d, {"id"}))
  ELSE import_config_run(r, d, d.id)
import_gadget_configs(r, list) == Each(r, list, import_gadget_config)

import_gadget_strs(r, d) ==
  LET fields == DOMAIN NewStrs
  IN  IF d = Wrong THEN Fail(r, "INVALID_TYPE")
      ELSE IF WrongStrs(d, fields) # "SUCCESS" THEN Fail(r, WrongStrs(d, fields))
      ELSE [r EXCEPT !.g.strs = import_strs(@, d, fields, NewStrs)]
import_gadget_strings(r, list) == Each(r, list, import_gadget_strs)

InRange(v, bits) == v >= 0 /\ v < 2^bits
import_gadget_attr(r, a, attrs) ==
  IF ~Has(attrs, a) THEN r
  ELSE IF attrs[a] = Wrong THEN Fail(r, "INVALID_TYPE")
  ELSE IF ~InRange(attrs[a], Bits(a)) THEN Fail(r, "INVALID_VALUE")
  ELSE [r EXCEPT !.g.attrs[a] = attrs[a]]
import_gadget_attrs(r, attrs) == Each(r, GadgetAttrs, LAMBDA x, a : import_gadget_attr(x, a, attrs))

\* A config_id of another type is passed over without an error.
SetOsConfig(r, id) ==
  IF id = Wrong THEN r
  ELSE IF \A c \in r.g.configs : c.id # id THEN Fail(r, "NOT_FOUND")
  ELSE [r EXCEPT !.g.oscfg = id]
import_gadget_os_descs(r, doc) ==
  LET Value(tag, none) == IF Has(doc, tag) THEN doc[tag] ELSE none
      use == Value("use", 0)
      code == Value("b_vendor_code", 0)
      os == [use |-> IF use = 0 THEN 0 ELSE 1, b_vendor_code |-> code, qw_sign |-> doc.qw_sign]
  IN  IF Wrong \in {use, code, doc.qw_sign} THEN Fail(r, "INVALID_TYPE")
      ELSE IF ~InRange(use, 8) \/ ~InRange(code, 8) THEN Fail(r, "INVALID_VALUE")
      ELSE SetOsConfig([r EXCEPT !.g.os = os], Value("config_id", Wrong))

ImportAttrs(r, doc) == Section(r, doc, "attrs", import_gadget_attrs)
ImportStrings(r, doc) == Section(r, doc, "strings", import_gadget_strings)
ImportFunctions(r, doc) == Section(r, doc, "functions", import_gadget_functions)
ImportConfigs(r, doc) == Section(r, doc, "configs", import_gadget_configs)
ImportOsDescs(r, doc) == Section(r, doc, "os_descs", import_gadget_os_descs)

\* Mutant: the bindings are read before the functions.
import_gadget_run_Order(doc) ==
  ImportOsDescs(
    ImportFunctions(ImportConfigs(ImportStrings(ImportAttrs(Run(NewGadget), doc), doc), doc), doc), doc)

\* usbg_import_gadget_run after usbg_create_gadget.
import_gadget_run(doc) ==
  ImportOsDescs(
    ImportConfigs(ImportFunctions(ImportStrings(ImportAttrs(Run(NewGadget), doc), doc), doc), doc), doc)

-----------------------------------------------------------------------------
(* The calls of a program that uses the library *)

\* What a user may change in a scheme that was exported.
Drops(doc, tags) == {Restrict(doc, DOMAIN doc \ {t}) : t \in tags \cap DOMAIN doc}
Wrongs(doc) == {With(doc, t, Wrong) : t \in DOMAIN doc \ {"label"}}
Puts(doc, tag, values) == {With(doc, tag, v) : v \in values}
InList(doc, tag, Edits(_)) ==
  UNION {Puts(doc, tag, {[doc[tag] EXCEPT ![i] = e] : e \in Edits(doc[tag][i]) \cup {Wrong}})
           : i \in DOMAIN doc[tag]}

FunctionEdits(d) ==
  Wrongs(d) \cup Drops(d, {"type", "instance", "attrs"}) \cup Puts(d, "type", {"nosuch"})
StrsEdits(d) == Wrongs(d) \cup Drops(d, {"lang", "configuration", "product"})
BindingEdits(b) ==
  Wrongs(b) \cup Drops(b, {"name", "function"}) \cup {b.function}
  \cup Puts(b, "function", {[label |-> <<"hid", "nosuch">>], [type |-> "hid", instance |-> "inline"]})
ConfigEdits(d) ==
  Wrongs(d) \cup Drops(d, {"id", "name", "strings", "functions"}) \cup Puts(d, "id", {0, 256})
  \cup Puts(d, "attrs", {[bmAttributes |-> 1], [bMaxPower |-> 500]})
  \cup InList(d, "functions", BindingEdits) \cup InList(d, "strings", StrsEdits)
GadgetEdits(d) ==
  Wrongs(d) \cup Drops(d, DOMAIN d)
  \cup Puts(d, "attrs", {[idVendor |-> 65536], [bDeviceClass |-> Wrong], [idProduct |-> 65535]})
  \cup Puts(d, "os_descs", {With(d.os_descs, "config_id", 99), With(d.os_descs, "config_id", Wrong),
                             With(d.os_descs, "use", 256)})
  \cup InList(d, "functions", FunctionEdits) \cup InList(d, "configs", ConfigEdits)
  \cup InList(d, "strings", StrsEdits)

NoFile == [kind |-> "none", doc |-> <<>>, edited |-> FALSE]
NoImport == [op |-> "none", ret |-> "SUCCESS", was |-> NoGadget]
Init ==
  /\ \E g \in Gadgets : gadgets = [n \in Names |-> IF n = "g1" THEN g ELSE NoGadget]
  /\ file = NoFile /\ last = NoImport /\ nCalls = 0

Call == nCalls < MaxCalls /\ nCalls' = nCalls + 1
There(n) == gadgets[n] # NoGadget
Export(kind, doc) == file' = [kind |-> kind, doc |-> doc, edited |-> FALSE] /\ UNCHANGED <<gadgets, last>>

usbg_export_gadget(n) ==
  Call /\ There(n) /\ CanExport(gadgets[n]) /\ Export("gadget", export_gadget_prep(gadgets[n]))
usbg_export_function(n) ==
  Call /\ There(n) /\ \E f \in gadgets[n].funcs : Export("function", export_function_prep(f))
usbg_export_config(n) ==
  Call /\ There(n) /\ \E c \in gadgets[n].configs : Export("config", export_config_prep(c))

EditsOf(kind, doc) ==
  CASE kind = "gadget" -> GadgetEdits(doc) [] kind = "function" -> FunctionEdits(doc)
    [] kind = "config" -> ConfigEdits(doc) [] kind = "none" -> {}
Edit ==
  /\ Call /\ ~file.edited
  /\ \E d \in EditsOf(file.kind, file.doc) : file' = [file EXCEPT !.doc = d, !.edited = TRUE]
  /\ UNCHANGED <<gadgets, last>>

Returns(op, n, r) ==
  /\ gadgets' = [gadgets EXCEPT ![n] = r.g]
  /\ last' = [op |-> op, ret |-> r.ret, was |-> gadgets[n]] /\ UNCHANGED file

\* usbg_create_gadget refuses a name that is taken; rm_gadget takes a gadget
\* away whose import fails.
rm_gadget(r) == IF Ok(r) THEN r ELSE [r EXCEPT !.g = NoGadget]
ImportGadget(n, doc) ==
  IF There(n) THEN Fail(Run(gadgets[n]), "EXIST") ELSE rm_gadget(import_gadget_run(doc))
usbg_import_gadget(n) ==
  Call /\ file.kind = "gadget" /\ Returns("gadget", n, ImportGadget(n, file.doc))
usbg_import_function(n) ==
  /\ Call /\ file.kind = "function" /\ There(n)
  /\ \E i \in Instances : Returns("function", n, import_function_run(Run(gadgets[n]), file.doc, i))
usbg_import_config(n) ==
  /\ Call /\ file.kind = "config" /\ There(n)
  /\ \E id \in Ids : Returns("config", n, import_config_run(Run(gadgets[n]), file.doc, id))

Next ==
  \/ Edit
  \/ \E n \in Names :
       \/ usbg_export_gadget(n) \/ usbg_export_function(n) \/ usbg_export_config(n)
       \/ usbg_import_gadget(n) \/ usbg_import_function(n) \/ usbg_import_config(n)

Spec == Init /\ [][Next]_vars

-----------------------------------------------------------------------------
\* Two gadgets that differ in the labels of their functions at most: a label
\* is only a name in a scheme.
Unlabelled(g) == [g EXCEPT !.funcs = {[f EXCEPT !.label = NoLabel] : f \in @}]

\* No function has the label that another one has or would be given.
Unambiguous(g) ==
  \A f, h \in g.funcs : f # h => LabelOf(f) # LabelOf(h) /\ f.label # generate_function_label(h)

\* A gadget whose labels are unambiguous can be exported, and the import of
\* what was exported succeeds and makes the same gadget: the same attributes,
\* strings, functions and configurations, and every binding and the OS
\* descriptor linked to the function and the configuration they were linked to.
RoundTrip ==
  \A n \in Names : (There(n) /\ Unambiguous(gadgets[n])) =>
    LET Same(r) == Ok(r) /\ Unlabelled(r.g) = Unlabelled(gadgets[n])
    IN  CanExport(gadgets[n]) /\ Same(import_gadget_run(export_gadget_prep(gadgets[n])))

\* A failed import of a configuration takes it away again: the gadget has the
\* configurations it had, and what a failed import of a function or of a
\* configuration leaves in the gadget besides is functions no binding names.
FailedImport ==
  (last.ret # "SUCCESS" /\ last.op \in {"function", "config"}) =>
    \E n \in Names :
      /\ There(n) /\ gadgets[n].configs = last.was.configs
      /\ last.was.funcs \subseteq gadgets[n].funcs
      /\ Unlabelled([gadgets[n] EXCEPT !.funcs = {}]) = Unlabelled([last.was EXCEPT !.funcs = {}])

\* No binding and no OS descriptor of a gadget, imported or not, refers to what
\* the gadget does not have, and no two bindings of a configuration to one
\* function.
LinksResolve ==
  \A n \in Names : There(n) =>
    LET g == gadgets[n]
    IN  /\ g.oscfg # 0 => \E c \in g.configs : c.id = g.oscfg
        /\ \A c \in g.configs : \A b \in c.binds :
             /\ FunctionIn(g, b.type, b.instance) # {}
             /\ \A a \in c.binds : a.name = b.name \/ (a.type = b.type /\ a.instance = b.instance) => a = b

\* What schemes promise: an export can be read back, a failed import of a part
\* disturbs nothing that was there, and every link has its end.
SchemeRoundTrip == RoundTrip /\ FailedImport /\ LinksResolve
=============================================================================
