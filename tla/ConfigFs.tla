------------------------------ MODULE ConfigFs ------------------------------
(***************************************************************************)
(* The part of the kernel's configfs that libusbgx works on: the tree      *)
(* under usb_gadget.  A node is a tuple whose head is its kind:            *)
(*                                                                         *)
(*   <<"g", g>>        a gadget directory        <<"gs", g>> its strings   *)
(*   <<"f", g, f>>     a function of g                                     *)
(*   <<"c", g, c>>     a configuration of g      <<"cs", g, c>> strings    *)
(*   <<"l", g, c, f>>  the link that binds function f to configuration c   *)
(*                                                                         *)
(* A tree is the set of nodes that exist.  This is the kernel, not the     *)
(* repository's code: what it accepts is stated here once, as the library  *)
(* and the scripts under src/ rely on it.                                  *)
(***************************************************************************)
EXTENDS Integers, Sequences, FiniteSets

Gadget(g)       == <<"g", g>>
Strings(g)      == <<"gs", g>>
Function(g, f)  == <<"f", g, f>>
Config(g, c)    == <<"c", g, c>>
CStrings(g, c)  == <<"cs", g, c>>
Link(g, c, f)   == <<"l", g, c, f>>

Kind(n) == n[1]

Nodes(G, F, C) ==
  {Gadget(g) : g \in G} \cup {Strings(g) : g \in G}
    \cup {Function(g, f) : g \in G, f \in F}
    \cup {Config(g, c) : g \in G, c \in C}
    \cup {CStrings(g, c) : g \in G, c \in C}
    \cup {Link(g, c, f) : g \in G, c \in C, f \in F}

\* The directory a node is made in.
Parent(n) == IF Kind(n) \in {"cs", "l"} THEN Config(n[2], n[3]) ELSE Gadget(n[2])

\* What keeps a node from being removed: what was made in it, and for a
\* function the links that point at it.
Holds(fs, n) ==
  {m \in fs : /\ m # n
              /\ \/ Kind(m) # "g" /\ Parent(m) = n
                 \/ Kind(m) = "l" /\ n = Function(m[2], m[4])}

CanMake(fs, n) ==
  /\ n \notin fs
  /\ Kind(n) # "g" => Parent(n) \in fs
  /\ Kind(n) = "l" => Function(n[2], n[4]) \in fs

CanRemove(fs, n) == n \in fs /\ Holds(fs, n) = {}

\* A gadget is bound to a controller only if each of its configurations has a
\* function; there must be one.
CanBind(fs, g) ==
  LET configs == {n \in fs : Kind(n) = "c" /\ n[2] = g}
  IN  /\ configs # {}
      /\ \A c \in configs : \E n \in fs : Kind(n) = "l" /\ Parent(n) = c
=============================================================================
