----------------------------- MODULE SchemeParts ------------------------------
(***************************************************************************)
(* The parts of a gadget in a scheme: which attributes they have, and what *)
(* the kernel gives a new gadget, function or configuration.               *)
(***************************************************************************)
EXTENDS Integers, Sequences, SequencesExt

CONSTANT NoLabel   \* the label of a function that has none

GadgetAttrs == <<"bcdUSB", "bDeviceClass", "bDeviceSubClass", "bDeviceProtocol",
                 "bMaxPacketSize0", "idVendor", "idProduct", "bcdDevice">>
Bits(attr) == IF attr \in {"bcdUSB", "idVendor", "idProduct", "bcdDevice"} THEN 16 ELSE 8

\* The attributes that functions of a type read and write, and what they are.
Types == {"hid", "acm", "rndis"}
FunctionAttrs(type) ==
  CASE type = "hid" -> << <<"protocol", "int">>, <<"report_desc", "bytes">>,
                          <<"report_length", "int">>, <<"subclass", "int">> >>
    [] type = "rndis" -> << <<"dev_addr", "string">>, <<"host_addr", "string">>, <<"qmult", "int">> >>
    [] type = "acm" -> <<>>
ReadOnly(type) == IF type = "hid" THEN {"dev"} ELSE {}
Interfaces(type) == IF type = "rndis" THEN {"rndis"} ELSE {}

\* What the kernel gives a new gadget, function and configuration.
NewGadget ==
  [attrs |-> [a \in ToSet(GadgetAttrs) |-> IF a = "bMaxPacketSize0" THEN 64 ELSE 0],
   strs |-> <<>>, funcs |-> {}, configs |-> {},
   os |-> [use |-> 0, b_vendor_code |-> 0, qw_sign |-> "empty"], oscfg |-> 0]
NewStrs == [manufacturer |-> "empty", product |-> "empty", serialnumber |-> "empty"]
NewAttrs(type) ==
  CASE type = "hid" -> [protocol |-> 0, report_desc |-> <<>>, report_length |-> 0,
                        subclass |-> 0, dev |-> "hidg"]
    [] type = "rndis" -> [dev_addr |-> "random", host_addr |-> "random", qmult |-> 5]
    [] type = "acm" -> <<>>
NewFunction(type, instance) ==
  [type |-> type, instance |-> instance, label |-> NoLabel, attrs |-> NewAttrs(type),
   osd |-> [i \in Interfaces(type) |-> <<"empty", "empty">>]]
\* The kernel wants bit 7 of bmAttributes and none of the lower five.
Accepts(attr, v) ==
  IF attr = "bmAttributes" THEN v \in {128, 160, 192, 224} ELSE v \in 0..2040
=============================================================================
