------------------------------ MODULE Libusbg -------------------------------
(***************************************************************************)
(* libusbgx: the lists it keeps in memory of what is in configfs, and the  *)
(* calls that change both.  Each call is one action; the kernel calls it   *)
(* makes are its stages, any of which may fail (faults left permitting):   *)
(* the call then undoes what its error path undoes and returns an error.   *)
(* An action is given live handles only, as the header requires.  No       *)
(* gadget here has an OS descriptor (Schemes models those).                *)
(***************************************************************************)
EXTENDS ConfigFs, SequencesExt, TLC

CONSTANTS
  Gadgets, Functions, Configs, Udcs,   \* names
  NoUdc, None, Freed,                  \* no controller, no pointer, a dangling one
  MaxFaults                            \* bound on failing kernel calls

VARIABLES
  fs,       \* the configfs tree
  bound,    \* the UDC file of each gadget
  live,     \* usbg_init has returned a state that was not cleaned up
  listed,   \* the nodes on the library's lists
  gudc,     \* g->udc
  ugad,     \* u->gadget
  ret,      \* what the last call returned
  faults,   \* failing kernel calls left
  leaked    \* a call failed after making a directory it could not remove

libVars == <<live, listed, gudc, ugad>>
vars == <<fs, bound, live, listed, gudc, ugad, ret, faults, leaked>>

TypeOK ==
  /\ fs \subseteq Nodes(Gadgets, Functions, Configs)
  /\ listed \subseteq Nodes(Gadgets, Functions, Configs)
  /\ bound \in [Gadgets -> Udcs \cup {NoUdc}]
  /\ live \in BOOLEAN /\ leaked \in BOOLEAN
  /\ gudc \in [Gadgets -> Udcs \cup {NoUdc}]
  /\ ugad \in [Udcs -> Gadgets \cup {None, Freed}]
  /\ ret \in {"ok", "error", "exist", "crash", None} \cup Gadgets \cup Udcs \cup {NoUdc}
  /\ faults \in 0..MaxFaults

\* Directories of strings are not on any list.
Tracked(tree) == {n \in tree : Kind(n) \notin {"gs", "cs"}}

NoPointers ==
  /\ gudc' = [g \in Gadgets |-> NoUdc]
  /\ ugad' = [u \in Udcs |-> None]

Init ==
  /\ fs = {} /\ bound = [g \in Gadgets |-> NoUdc]
  /\ live = FALSE /\ listed = {}
  /\ gudc = [g \in Gadgets |-> NoUdc] /\ ugad = [u \in Udcs |-> None]
  /\ ret = "ok" /\ faults = MaxFaults /\ leaked = FALSE

Fault == faults > 0 /\ faults' = faults - 1
Fails(code) == ret' = code /\ UNCHANGED <<bound, libVars, leaked>>

-----------------------------------------------------------------------------
\* usbg_parse_state: what the parsers put on the lists, and the gadget that each
\* controller is found to serve.  Mutant: the links are not parsed.
usbg_parse_functions(tree) == {n \in tree : Kind(n) = "f"}
usbg_parse_config_bindings(tree) == {n \in tree : Kind(n) = "l"}
usbg_parse_configs_NoLinks(tree) == {n \in tree : Kind(n) = "c"}
usbg_parse_configs(tree) ==
  {n \in tree : Kind(n) = "c"} \cup usbg_parse_config_bindings(tree)
usbg_parse_gadgets(tree) ==
  {n \in tree : Kind(n) = "g"} \cup usbg_parse_functions(tree) \cup usbg_parse_configs(tree)
usbg_parse_gadget(u) ==
  IF \E g \in Gadgets : bound[g] = u THEN CHOOSE g \in Gadgets : bound[g] = u ELSE None

\* usbg_init reads the whole tree: the gadgets with the controller they are
\* bound to, their functions, their configurations and the links.
UsbgInit ==
  /\ ~live
  /\ \/ /\ live' = TRUE /\ ret' = "ok"
        /\ listed' = usbg_parse_gadgets(fs)
        /\ gudc' = bound
        /\ ugad' = [u \in Udcs |-> usbg_parse_gadget(u)]
        /\ UNCHANGED <<fs, bound, faults, leaked>>
     \/ Fault /\ Fails("error") /\ UNCHANGED fs

\* usbg_cleanup frees the memory; the tree stays.
UsbgCleanup ==
  /\ live
  /\ live' = FALSE /\ listed' = {} /\ NoPointers
  /\ ret' = "ok" /\ UNCHANGED <<fs, bound, faults, leaked>>

-----------------------------------------------------------------------------
\* A creating call: the nodes it makes in turn.  A failure before the first
\* leaves nothing; a later one makes the call remove its first directory, which
\* the kernel refuses when the second is already in it.
Creates(duplicate, steps) ==
  \/ /\ duplicate
     /\ ret' = "exist" /\ UNCHANGED <<fs, bound, libVars, faults, leaked>>
  \/ /\ ~duplicate /\ CanMake(fs, steps[1])
     /\ fs' = fs \cup ToSet(steps)
     /\ listed' = listed \cup Tracked({steps[1]})
     /\ ret' = "ok" /\ UNCHANGED <<bound, live, gudc, ugad, faults, leaked>>
  \/ /\ ~duplicate /\ ~CanMake(fs, steps[1])
     /\ ret' = "exist" /\ UNCHANGED <<fs, bound, libVars, faults, leaked>>
  \/ /\ ~duplicate /\ CanMake(fs, steps[1]) /\ Fault
     /\ \E made \in 0..Len(steps) :
          LET tree == fs \cup ToSet(SubSeq(steps, 1, made))
          IN  /\ fs' = IF made > 0 /\ CanRemove(tree, steps[1])
                       THEN tree \ {steps[1]} ELSE tree
              /\ leaked' = (leaked \/ fs' # fs)
     /\ ret' = "error" /\ UNCHANGED <<bound, libVars>>

GadgetSteps(g)      == <<Gadget(g), Strings(g)>>
FunctionSteps(g, f) == <<Function(g, f)>>
ConfigSteps(g, c)   == <<Config(g, c), CStrings(g, c)>>
LinkSteps(g, c, f)  == <<Link(g, c, f)>>

CreateGadget(g)      == live /\ Creates(Gadget(g) \in listed, GadgetSteps(g))
CreateFunction(g, f) == /\ live /\ Gadget(g) \in listed
                        /\ Creates(Function(g, f) \in listed, FunctionSteps(g, f))
CreateConfig(g, c)   == /\ live /\ Gadget(g) \in listed
                        /\ Creates(Config(g, c) \in listed, ConfigSteps(g, c))
AddConfigFunction(g, c, f) ==
  /\ live /\ Config(g, c) \in listed /\ Function(g, f) \in listed
  /\ Creates(Link(g, c, f) \in listed, LinkSteps(g, c, f))

-----------------------------------------------------------------------------
\* The orders in which the recursive removals take nodes from the tree.
LinksOf(g, c) == SetToSeq({n \in listed : Kind(n) = "l" /\ Parent(n) = Config(g, c)})
StringsIn(n)  == IF n \in fs THEN <<n>> ELSE <<>>
\* Mutant: a configuration's strings stay.
RmConfigOrder_Strings(g, c) == LinksOf(g, c) \o <<Config(g, c)>>
RmConfigOrder(g, c) == LinksOf(g, c) \o StringsIn(CStrings(g, c)) \o <<Config(g, c)>>
RmFunctionOrder(g, f) ==
  SetToSeq({n \in listed : Kind(n) = "l" /\ n[2] = g /\ n[4] = f}) \o <<Function(g, f)>>
OfKind(k, g) == SetToSeq({n \in listed : Kind(n) = k /\ n[2] = g})
RmGadgetOrder(g) ==
  FlattenSeq([i \in DOMAIN OfKind("c", g) |-> RmConfigOrder(g, OfKind("c", g)[i][3])])
    \o OfKind("f", g) \o StringsIn(Strings(g)) \o <<Gadget(g)>>

\* Freeing a gadget leaves the pointer of its controller as it was.
Dangle(gone) ==
  ugad' = [u \in Udcs |-> IF ugad[u] \in Gadgets /\ Gadget(ugad[u]) \in gone
                          THEN Freed ELSE ugad[u]]

\* A removing call takes the nodes of order one by one from the tree and from
\* its list, and stops at the first the kernel refuses (taking a link off a
\* bound gadget unbinds it).
Removes(order) ==
  LET After(k) == fs \ {order[i] : i \in 1..k}
      Allowed  == {i \in 1..Len(order) : CanRemove(After(i - 1), order[i])}
  IN  \E k \in 0..Len(order) :
        LET gone == {order[i] : i \in 1..k}
        IN  /\ 1..k \subseteq Allowed
            /\ \/ k = Len(order) /\ ret' = "ok" /\ UNCHANGED faults
               \/ /\ k < Len(order) /\ k + 1 \notin Allowed
                  /\ ret' = "error" /\ UNCHANGED faults
               \/ k < Len(order) /\ Fault /\ ret' = "error"
            /\ fs' = fs \ gone /\ listed' = listed \ gone
            /\ bound' = [g \in Gadgets |->
                           IF \E n \in gone : Kind(n) = "l" /\ n[2] = g
                           THEN NoUdc ELSE bound[g]]
            /\ gudc' = [g \in Gadgets |-> IF Gadget(g) \in gone THEN NoUdc ELSE gudc[g]]
            /\ Dangle(gone) /\ UNCHANGED <<live, leaked>>

RmBinding(g, c, f) ==
  live /\ Link(g, c, f) \in listed /\ Removes(<<Link(g, c, f)>>)
RmConfig(g, c, recurse) ==
  /\ live /\ Config(g, c) \in listed
  /\ Removes(IF recurse THEN RmConfigOrder(g, c) ELSE <<Config(g, c)>>)
RmFunction(g, f, recurse) ==
  /\ live /\ Function(g, f) \in listed
  /\ Removes(IF recurse THEN RmFunctionOrder(g, f) ELSE <<Function(g, f)>>)
RmGadget(g, recurse) ==
  /\ live /\ Gadget(g) \in listed
  /\ Removes(IF recurse THEN RmGadgetOrder(g) ELSE <<Gadget(g)>>)

-----------------------------------------------------------------------------
EnableGadget(g, u) ==
  /\ live /\ Gadget(g) \in listed
  /\ \/ /\ CanBind(fs, g) /\ bound[g] = NoUdc /\ \A h \in Gadgets : bound[h] # u
        /\ bound' = [bound EXCEPT ![g] = u]
        /\ gudc' = [gudc EXCEPT ![g] = u]
        /\ ugad' = [v \in Udcs |-> IF v = u THEN g
                                   ELSE IF v = gudc[g] THEN None ELSE ugad[v]]
        /\ ret' = "ok" /\ UNCHANGED <<fs, live, listed, faults, leaked>>
     \/ /\ ~CanBind(fs, g) \/ bound[g] # NoUdc \/ \E h \in Gadgets : bound[h] = u
        /\ Fails("error") /\ UNCHANGED <<fs, faults>>
     \/ Fault /\ Fails("error") /\ UNCHANGED fs

DisableGadget(g) ==
  /\ live /\ Gadget(g) \in listed
  /\ \/ /\ bound[g] # NoUdc
        /\ bound' = [bound EXCEPT ![g] = NoUdc]
        /\ ugad' = [v \in Udcs |-> IF v = gudc[g] THEN None ELSE ugad[v]]
        /\ gudc' = [gudc EXCEPT ![g] = NoUdc]
        /\ ret' = "ok" /\ UNCHANGED <<fs, live, listed, faults, leaked>>
     \/ bound[g] = NoUdc /\ Fails("error") /\ UNCHANGED <<fs, faults>>
     \/ Fault /\ Fails("error") /\ UNCHANGED fs

\* The two queries look at the UDC file, since the kernel may have detached the
\* gadget, and then correct the pointers of both sides.
Detached(g) == gudc[g] # NoUdc /\ bound[g] # gudc[g]
DropUdc(g) ==
  /\ ugad' = [ugad EXCEPT ![gudc[g]] = None]
  /\ gudc' = [gudc EXCEPT ![g] = NoUdc]

\* The read of the UDC file of a gadget that has one may fail.
UdcUnread(g) == gudc[g] # NoUdc /\ Fault

GetGadgetUdc(g) ==
  /\ live /\ Gadget(g) \in listed
  /\ \/ ~Detached(g) /\ ret' = gudc[g] /\ UNCHANGED <<gudc, ugad, faults>>
     \/ Detached(g) /\ DropUdc(g) /\ ret' = NoUdc /\ UNCHANGED faults
     \/ UdcUnread(g) /\ ret' = NoUdc /\ UNCHANGED <<gudc, ugad>>
  /\ UNCHANGED <<fs, bound, live, listed, leaked>>

\* When the check drops the pointers, u->gadget is NULL before the other branch
\* follows it; when the file cannot be read, that branch drops them although the
\* gadget may still be bound.
GetUdcGadget(u) ==
  /\ live
  /\ \/ ugad[u] = None /\ ret' = None /\ UNCHANGED <<gudc, ugad, faults>>
     \/ ugad[u] = Freed /\ ret' \in {None, "crash"} /\ UNCHANGED <<gudc, ugad, faults>>
     \/ /\ ugad[u] \in Gadgets
        /\ LET g == ugad[u]
           IN  \/ gudc[g] # NoUdc /\ ~Detached(g) /\ ret' = g /\ UNCHANGED <<gudc, ugad, faults>>
               \/ Detached(g) /\ gudc[g] = u /\ DropUdc(g) /\ ret' = "crash" /\ UNCHANGED faults
               \/ /\ Detached(g) /\ gudc[g] # u
                  /\ ugad' = [ugad EXCEPT ![gudc[g]] = None, ![u] = None]
                  /\ gudc' = [gudc EXCEPT ![g] = NoUdc]
                  /\ ret' = None /\ UNCHANGED faults
               \/ gudc[g] = NoUdc /\ ret' = None /\ ugad' = [ugad EXCEPT ![u] = None]
                    /\ UNCHANGED <<gudc, faults>>
               \/ /\ UdcUnread(g) /\ ret' = None
                  /\ gudc' = [gudc EXCEPT ![g] = NoUdc] /\ ugad' = [ugad EXCEPT ![u] = None]
  /\ UNCHANGED <<fs, bound, live, listed, leaked>>

\* The UDC file of a gadget is emptied by somebody else.
KernelDetach(g) ==
  /\ bound[g] # NoUdc
  /\ bound' = [bound EXCEPT ![g] = NoUdc]
  /\ ret' = "ok" /\ UNCHANGED <<fs, libVars, faults, leaked>>

-----------------------------------------------------------------------------
\* Any removing call but that of a link, with USBG_RM_RECURSE or without.
RmStep(recurse) ==
  \E g \in Gadgets :
    \/ RmGadget(g, recurse)
    \/ \E f \in Functions : RmFunction(g, f, recurse)
    \/ \E c \in Configs : RmConfig(g, c, recurse)

-----------------------------------------------------------------------------
\* The lists never name what configfs does not have: however a recursive
\* removal stopped, an entry leaves its list only with its directory.
ListedExists == listed \subseteq fs

\* And they miss nothing, as long as no creating call failed after making a
\* directory that it could not remove.
NothingUnlisted == live /\ ~leaked => listed = Tracked(fs)

\* What is listed hangs together: no link outlives its function or its
\* configuration on the lists, nothing outlives its gadget.
ListsClosed ==
  \A n \in listed :
    /\ Kind(n) # "g" => Parent(n) \in listed
    /\ Kind(n) = "l" => Function(n[2], n[4]) \in listed

\* A controller's gadget points back at it, although a gadget may go on
\* pointing at a controller that another one has taken over meanwhile.
UdcPointsBack ==
  \A u \in Udcs : ugad[u] \in Gadgets =>
    gudc[ugad[u]] = u /\ Gadget(ugad[u]) \in listed
=============================================================================
