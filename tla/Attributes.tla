------------------------------ MODULE Attributes ------------------------------
(***************************************************************************)
(* The attributes and strings of a gadget, of its configuration and of its *)
(* OS descriptors (usbg.c): every call that sets, gets or removes them,    *)
(* any one file of a call failing to open.                                 *)
(***************************************************************************)
EXTENDS UsbgFiles, FiniteSets, FiniteSetsExt, TLC

CONSTANTS
  Langs,         \* languages, of as many hexadecimal digits each
  Texts,         \* the strings that are set
  Numbers,       \* the values of single attributes
  NIL,
  MaxAttrCalls   \* bound on the calls

VARIABLES
  files,   \* the attributes of every directory
  binding, \* g->os_desc_binding: the configuration or NIL
  link,    \* the configuration linked in os_desc, or NIL
  called,  \* history: the last call, [was, ok, asked, read, out]
  turns    \* calls left

vars == <<files, binding, link, called, turns>>

G == <<"gadget">>
C == <<"config">>
D == <<"os_desc">>
I == <<"interface.rndis">>
Strings(dir, lang) == Append(dir, lang)

GadgetAttrs == <<"bcdUSB", "bDeviceClass", "bDeviceSubClass", "bDeviceProtocol",
                 "bMaxPacketSize0", "idVendor", "idProduct", "bcdDevice">>
GadgetStrs == <<"manufacturer", "product", "serialnumber">>

\* What the kernel gives new directories.
Zero(names) == [a \in names |-> Num(0)]
Empty(names) == [a \in names |-> Text(<<>>)]
NewStrs(dir) == IF dir = G THEN Empty(ToSet(GadgetStrs)) ELSE Empty({"configuration"})
NewFiles ==
  G :> Zero(ToSet(GadgetAttrs)) @@ C :> Zero({"MaxPower", "bmAttributes"})
    @@ D :> (Zero({"b_vendor_code", "use"}) @@ Empty({"qw_sign"}))
    @@ I :> Empty({"compatible_id", "sub_compatible_id"})

\* A list of attributes in order, until one fails.
Each(r, list, Step(_, _)) == FoldLeft(LAMBDA x, a : Step(x, a), r, list)

-----------------------------------------------------------------------------
(* The gadget *)

usbg_set_gadget_attrs(r, a) ==
  Each(r, GadgetAttrs, LAMBDA x, f : usbg_write_int(x, G, f, a[f]))
usbg_set_gadget_attr(r, f, n) == usbg_write_int(r, G, f, n)

usbg_parse_gadget_attrs(r) ==
  Each(r, GadgetAttrs, LAMBDA x, f : usbg_read_int(x, G, f, 16))
usbg_get_gadget_attr(r, f) == usbg_read_int(r, G, f, 16)

\* The strings that are not null.
usbg_set_gadget_strs(r, lang, s) ==
  Each(usbg_check_dir(r, Strings(G, lang), NewStrs(G)),
       SelectSeq(GadgetStrs, LAMBDA f : f \in DOMAIN s),
       LAMBDA x, f : usbg_write_string(x, Strings(G, lang), f, s[f]))
usbg_set_gadget_str(r, lang, f, s) ==
  usbg_write_string(usbg_check_dir(r, Strings(G, lang), NewStrs(G)), Strings(G, lang), f, s)
usbg_set_gadget_manufacturer(r, lang, s) == usbg_set_gadget_str(r, lang, "manufacturer", s)
usbg_set_gadget_product(r, lang, s) == usbg_set_gadget_str(r, lang, "product", s)
usbg_set_gadget_serial_number(r, lang, s) == usbg_set_gadget_str(r, lang, "serialnumber", s)
usbg_parse_gadget_strs(r, lang) ==
  Each(r, GadgetStrs, LAMBDA x, f : usbg_read_string_alloc(x, Strings(G, lang), f))
usbg_rm_gadget_strs(r, lang) == usbg_rm_dir(r, Strings(G, lang))

\* The languages in order, and a zero after the last.
usbg_get_strs_langs_by_path(r, dir) ==
  IF ~Ok(r) THEN r
  ELSE Got(r, "langs", Append(SetToSortSeq({l \in Langs : Strings(dir, l) \in DOMAIN r.fs}, <), 0))

usbg_set_gadget_os_descs(r, d) ==
  usbg_write_int(
    usbg_write_int(
      usbg_write_string(usbg_check_dir(r, D, <<>>), D, "qw_sign", d.qw_sign),
      D, "b_vendor_code", d.b_vendor_code),
    D, "use", d.use)
usbg_parse_gadget_os_descs(r) ==
  LET Use(x) == IF Ok(x) THEN Got(x, "use", IF x.out["use"] = 0 THEN 0 ELSE 1) ELSE x
  IN  Use(usbg_read_int(usbg_read_int(usbg_read_string_alloc(r, D, "qw_sign"), D, "b_vendor_code", 16),
                        D, "use", 10))

usbg_set_interf_os_desc(r, d) ==
  usbg_write_string(usbg_write_string(r, I, "compatible_id", d.compatible_id),
                    I, "sub_compatible_id", d.sub_compatible_id)
usbg_get_interf_os_desc(r) ==
  usbg_read_string_alloc(usbg_read_string_alloc(r, I, "compatible_id"), I, "sub_compatible_id")

-----------------------------------------------------------------------------
(* The configuration *)

usbg_set_config_max_power(r, n) == usbg_write_int(r, C, "MaxPower", n)
usbg_set_config_bm_attrs(r, n) == usbg_write_int(r, C, "bmAttributes", n)
usbg_set_config_attrs(r, a) ==
  usbg_set_config_bm_attrs(usbg_set_config_max_power(r, a.MaxPower), a.bmAttributes)
\* Both become bytes.
usbg_parse_config_attrs(r) ==
  LET Byte(x, f) == IF Ok(x) THEN Got(x, f, x.out[f] % 256) ELSE x
  IN  Byte(Byte(usbg_read_int(usbg_read_int(r, C, "MaxPower", 10), C, "bmAttributes", 16), "MaxPower"),
           "bmAttributes")
usbg_set_config_string(r, lang, s) ==
  usbg_write_string(usbg_check_dir(r, Strings(C, lang), NewStrs(C)), Strings(C, lang), "configuration", s)
usbg_parse_config_strs(r, lang) == usbg_read_string_alloc(r, Strings(C, lang), "configuration")
usbg_rm_config_strs(r, lang) == usbg_rm_dir(r, Strings(C, lang))

-----------------------------------------------------------------------------
Init ==
  /\ files = NewFiles /\ binding = NIL /\ link = NIL /\ turns = MaxAttrCalls
  /\ called = [was |-> NewFiles, ok |-> TRUE, asked |-> <<>>, read |-> <<>>, out |-> <<>>]

\* The end of a call: what it left of the files and what it returned.  asked is
\* what it was to set, read the directory it was to read.
Called(r, asked, read) ==
  /\ files' = r.fs
  /\ called' = [was |-> files, ok |-> Ok(r), asked |-> asked, read |-> read, out |-> r.out]
  /\ UNCHANGED <<binding, link>>
Asked(dir, s, Value(_)) == [k \in {<<dir, f>> : f \in DOMAIN s} |-> Value(s[k[2]])]
One(dir, f, v) == <<dir, f>> :> v

SetGadgetAttrs ==
  \E word, byte \in Numbers, b \in {"none", "bDeviceProtocol"} :
    LET a == [f \in ToSet(GadgetAttrs) |-> IF f \in Words THEN word ELSE byte]
    IN  Called(usbg_set_gadget_attrs(Run(files, b), a), Asked(G, a, Num), <<>>)
SetGadgetAttr ==
  \E f \in {"idVendor", "bDeviceClass", "bDeviceSubClass"}, n \in Numbers :
    Called(usbg_set_gadget_attr(Run(files, "none"), f, n), One(G, f, Num(n)), <<>>)
SetGadgetStrs ==
  \E lang \in Langs, given \in {{}, {"manufacturer", "serialnumber"}, ToSet(GadgetStrs)}, s \in Texts,
     b \in {"none", "product", "mkdir"} :
    LET strs == [f \in given |-> s]
    IN  Called(usbg_set_gadget_strs(Run(files, b), lang, strs), Asked(Strings(G, lang), strs, Text), <<>>)
SetGadgetStr ==
  \E lang \in Langs, s \in Texts, b \in {"none"} :
    \/ Called(usbg_set_gadget_manufacturer(Run(files, b), lang, s),
              One(Strings(G, lang), "manufacturer", Text(s)), <<>>)
    \/ Called(usbg_set_gadget_product(Run(files, b), lang, s),
              One(Strings(G, lang), "product", Text(s)), <<>>)
    \/ Called(usbg_set_gadget_serial_number(Run(files, b), lang, s),
              One(Strings(G, lang), "serialnumber", Text(s)), <<>>)
SetOsDescs ==
  \E s \in Texts, code \in Numbers, use \in {0, 1}, b \in {"none", "b_vendor_code", "use"} :
    LET d == [qw_sign |-> s, b_vendor_code |-> code, use |-> use]
    IN  Called(usbg_set_gadget_os_descs(Run(files, b), d),
               One(D, "qw_sign", Text(s)) @@ One(D, "b_vendor_code", Num(code)) @@ One(D, "use", Num(use)),
               <<>>)
SetInterface ==
  \E s \in Texts, u \in Texts, b \in {"none", "sub_compatible_id"} :
    LET d == [compatible_id |-> s, sub_compatible_id |-> u]
    IN  Called(usbg_set_interf_os_desc(Run(files, b), d), Asked(I, d, Text), <<>>)
SetConfigAttrs ==
  \E power \in Numbers, bits \in Numbers, b \in {"none", "MaxPower"} :
    LET a == [MaxPower |-> power, bmAttributes |-> bits]
    IN  Called(usbg_set_config_attrs(Run(files, b), a), Asked(C, a, Num), <<>>)
SetConfigString ==
  \E lang \in Langs, s \in Texts, b \in {"none", "mkdir"} :
    Called(usbg_set_config_string(Run(files, b), lang, s), One(Strings(C, lang), "configuration", Text(s)), <<>>)

Get ==
  \E lang \in Langs, b \in {"none", "bDeviceClass", "serialnumber", "use", "bmAttributes"} :
    LET r == Run(files, b)
    IN  \/ Called(usbg_parse_gadget_attrs(r), <<>>, G)
        \/ \E f \in ToSet(GadgetAttrs) : Called(usbg_get_gadget_attr(r, f), <<>>, G)
        \/ Called(usbg_parse_gadget_strs(r, lang), <<>>, Strings(G, lang))
        \/ Called(usbg_parse_gadget_os_descs(r), <<>>, D)
        \/ Called(usbg_get_interf_os_desc(r), <<>>, I)
        \/ Called(usbg_parse_config_attrs(r), <<>>, C)
        \/ Called(usbg_parse_config_strs(r, lang), <<>>, Strings(C, lang))
GetLangs == \E dir \in {G, C} : Called(usbg_get_strs_langs_by_path(Run(files, "none"), dir), <<>>, dir)
RmStrs ==
  \E lang \in Langs, b \in {"none", "rmdir"} :
    \/ Called(usbg_rm_gadget_strs(Run(files, b), lang), <<>>, <<>>)
    \/ Called(usbg_rm_config_strs(Run(files, b), lang), <<>>, <<>>)

\* The link of the OS descriptors.  Removing it leaves g->os_desc_binding as it
\* is, so that the library takes no other until it is started again.
Linked == UNCHANGED <<files, called>>
usbg_create_os_desc_link ==
  /\ Linked /\ binding = NIL /\ link = NIL
  /\ link' = C /\ binding' = C
usbg_rm_os_desc_link == Linked /\ link # NIL /\ link' = NIL /\ UNCHANGED binding
usbg_parse_gadget_os_desc_binding == Linked /\ binding' = link /\ UNCHANGED link

Next ==
  /\ turns > 0 /\ turns' = turns - 1
  /\ \/ SetGadgetAttrs \/ SetGadgetAttr \/ SetGadgetStrs \/ SetGadgetStr \/ SetOsDescs \/ SetInterface
     \/ SetConfigAttrs \/ SetConfigString \/ Get \/ GetLangs \/ RmStrs
     \/ usbg_create_os_desc_link \/ usbg_rm_os_desc_link \/ usbg_parse_gadget_os_desc_binding

Spec == Init /\ [][Next]_vars

-----------------------------------------------------------------------------
\* What a get returns is what the files hold: the number, in whatever base the
\* kernel shows it, and the text up to its first newline; and it returns every
\* attribute.  The power, which the struct keeps in a byte, is the exception.
Shows(name, x, v) ==
  IF name = "MaxPower" THEN x = v.n % 256
  ELSE IF name \in Decimal \cup Words \cup Bytes THEN x = v.n
  ELSE /\ IsPrefix(x, v.text)
       /\ x = v.text \/ v.text[Len(x) + 1] = NL
ReadsTrue ==
  (called.ok /\ called.read # <<>>) =>
    IF DOMAIN called.out = {"langs"}
    THEN /\ Last(called.out["langs"]) = 0
         /\ \A l \in Langs : l \in ToSet(called.out["langs"]) <=> Strings(called.read, l) \in DOMAIN files
    ELSE \A f \in DOMAIN called.out : Shows(f, called.out[f], files[called.read][f])

\* A call changes what it was asked to and nothing else, all of it or, when a file
\* fails, a part; what is read is what was set; and the library knows of the link
\* that the OS descriptors have.
AttributesSound ==
  /\ OnlyAsked(called.was, files, called.asked, called.ok)
  /\ ReadsTrue
  /\ link # NIL => binding = link
=============================================================================
