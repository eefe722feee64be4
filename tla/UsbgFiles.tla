------------------------------ MODULE UsbgFiles -------------------------------
(***************************************************************************)
(* The attribute files of configfs and the calls of usbg_common.c that     *)
(* read and write them.  A tree of files maps every directory to the       *)
(* values of its attributes; a value is [n, text], a number or a text.     *)
(* A call is a sequence of steps on a run, [fs, ret, broken, out]: the     *)
(* files, what the steps returned so far, the name whose file cannot be    *)
(* opened in this call (or "none"), and what was read.  A step after one   *)
(* that failed does nothing, which is the goto out of the code.            *)
(***************************************************************************)
EXTENDS Integers, Sequences, SequencesExt

CONSTANTS
  KernelMax,   \* the longest text that the kernel takes
  SmallMax     \* the longest qw_sign and compatible id

NL == "\n"
Num(n) == [n |-> n, text |-> <<>>]
Text(s) == [n |-> 0, text |-> s]

Decimal == {"MaxPower", "use", "protocol", "report_length", "subclass", "qmult", "index",
            "in_ports", "out_ports", "buflen", "qlen", "c_chmask", "c_srate", "c_ssize",
            "p_chmask", "p_srate", "p_ssize", "stall", "cdrom", "ro", "nofua", "removable",
            "port_num"}
Words == {"bcdUSB", "idVendor", "idProduct", "bcdDevice", "MaxPower"}
Bytes == {"bDeviceClass", "bDeviceSubClass", "bDeviceProtocol", "bMaxPacketSize0",
          "bmAttributes", "b_vendor_code"}
Flags == {"use", "stall", "cdrom", "ro", "nofua", "removable"}
Short == {"qw_sign", "compatible_id", "sub_compatible_id"}
Raw == {"report_desc"}

\* What the kernel makes of a value written: it takes numbers of the width of the
\* attribute, drops a newline at the end of a text, refuses long texts, cuts the
\* short ones, and keeps the bytes of a report descriptor.
Stripped(s) == IF s # <<>> /\ Last(s) = NL THEN Front(s) ELSE s
Refuses(name, v) ==
  \/ name \in Words /\ v.n \notin 0..65535
  \/ name \in Bytes /\ v.n \notin 0..255
  \/ name \in Flags /\ v.n \notin 0..1
  \/ name = "bmAttributes" /\ v.n < 128
  \/ name \notin Short \cup Raw /\ Len(Stripped(v.text)) > KernelMax
Taken(name, v) ==
  [v EXCEPT !.text = IF name \in Raw THEN @
                     ELSE IF name \in Short /\ Len(v.text) > SmallMax THEN SubSeq(v.text, 1, SmallMax)
                     ELSE Stripped(v.text)]

Run(fs, broken) == [fs |-> fs, ret |-> "SUCCESS", broken |-> broken, out |-> <<>>]
Ok(r) == r.ret = "SUCCESS"
Fail(r, why) == [r EXCEPT !.ret = why]
Got(r, field, v) ==
  [r EXCEPT !.out = [f \in DOMAIN @ \cup {field} |-> IF f = field THEN v ELSE @[f]]]

\* fopen of a file in a run that has not failed yet.
Opened(r, dir, name, result) ==
  IF ~Ok(r) THEN r
  ELSE IF dir \notin DOMAIN r.fs THEN Fail(r, "NOT_FOUND")
  ELSE IF name \notin DOMAIN r.fs[dir] THEN Fail(r, "NOT_FOUND")
  ELSE IF r.broken = name THEN Fail(r, "NO_ACCESS")
  ELSE result

-----------------------------------------------------------------------------
\* At most len bytes of what the kernel shows, which ends with a newline.
UpTo(s, len) == IF Len(s) <= len THEN s ELSE SubSeq(s, 1, len)
usbg_read_buf_limited(c, len) == UpTo(Append(c.text, NL), len)

\* The digits of a decimal number read as hexadecimal ones.
RECURSIVE Reread(_)
Reread(n) == IF n < 10 THEN n ELSE 16 * Reread(n \div 10) + (n % 10)

\* strtol: it stops at the x of a hexadecimal number that is read as a decimal.
Strtol(name, n, base) ==
  IF base = 10 THEN (IF name \in Decimal THEN n ELSE 0)
  ELSE IF name \in Decimal THEN Reread(n) ELSE n

usbg_read_int(r, dir, name, base) ==
  Opened(r, dir, name, Got(r, name, Strtol(name, r.fs[dir][name].n, base)))
AsBool(r, name) == IF Ok(r) THEN Got(r, name, r.out[name] # 0) ELSE r
usbg_read_bool(r, dir, name) == AsBool(usbg_read_int(r, dir, name, 10), name)

\* The terminating zero takes one byte of len, and the first newline ends it too.
FirstLine(s) ==
  LET ends == {i \in DOMAIN s : s[i] = NL}
  IN  IF ends = {} THEN s ELSE SubSeq(s, 1, (CHOOSE i \in ends : \A j \in ends : i <= j) - 1)
usbg_read_string_limited(c, len) == FirstLine(UpTo(usbg_read_buf_limited(c, len), len - 1))

\* The buffer of a whole file is longer than every text.
usbg_read_string_alloc(r, dir, name) ==
  Opened(r, dir, name, Got(r, name, usbg_read_string_limited(r.fs[dir][name], KernelMax + 2)))

usbg_write_buf(r, dir, name, v) ==
  Opened(r, dir, name,
         IF Refuses(name, v) THEN Fail(r, "INVALID_PARAM")
         ELSE [r EXCEPT !.fs[dir][name] = Taken(name, v)])
usbg_write_int(r, dir, name, n) == usbg_write_buf(r, dir, name, Num(n))
usbg_write_string(r, dir, name, s) == usbg_write_buf(r, dir, name, Text(s))

Made(fs, dir, attrs) == [d \in DOMAIN fs \cup {dir} |-> IF d = dir THEN attrs ELSE fs[d]]
mkdir(r, dir, attrs) ==
  IF ~Ok(r) THEN r
  ELSE IF r.broken = "mkdir" THEN Fail(r, "NO_MEM")
  ELSE [r EXCEPT !.fs = Made(r.fs, dir, attrs)]
usbg_check_dir(r, dir, attrs) == IF Ok(r) /\ dir \in DOMAIN r.fs THEN r ELSE mkdir(r, dir, attrs)
usbg_rm_dir(r, dir) ==
  IF ~Ok(r) THEN r
  ELSE IF dir \notin DOMAIN r.fs THEN Fail(r, "NOT_FOUND")
  ELSE IF r.broken = "rmdir" THEN Fail(r, "BUSY")
  ELSE [r EXCEPT !.fs = [d \in DOMAIN r.fs \ {dir} |-> r.fs[d]]]

-----------------------------------------------------------------------------
\* asked maps <<directory, name>> to the value given for it.
\* A call changes nothing but what it was asked to, and all of that when it
\* succeeds; when it fails, what it changed has the value asked for.
OnlyAsked(was, fs, asked, ok) ==
  \A dir \in DOMAIN fs : \A name \in DOMAIN fs[dir] :
    LET before == dir \in DOMAIN was /\ fs[dir][name] = was[dir][name]
        given == <<dir, name>> \in DOMAIN asked /\ fs[dir][name] = Taken(name, asked[<<dir, name>>])
    IN  IF <<dir, name>> \in DOMAIN asked
        THEN given \/ (~ok /\ (before \/ dir \notin DOMAIN was))
        ELSE before \/ dir \notin DOMAIN was
=============================================================================
