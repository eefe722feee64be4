----------------------------- MODULE UsbGadget ------------------------------
(***************************************************************************)
(* The USB side of the keybow process: initUSB makes gadget g1 through     *)
(* libusbgx, main opens the device files it brings, cleanupUSB runs at the *)
(* end.  The gadget lives in the kernel and outlives the process, which    *)
(* may be killed between any two kernel calls and started again.  While it *)
(* is off, a tool like those of libusbgx/examples may read the gadget back *)
(* and query, disable or remove it in any order; teardown.sh and a reboot  *)
(* are the other ways to get rid of it.                                    *)
(***************************************************************************)
EXTENDS ConfigFs, SequencesExt, TLC

CONSTANTS
  g1, acm, hid, midi, conf, udc0, NoUdc, None, Freed,   \* names
  MaxFaults,    \* bound on failing kernel calls
  MaxKills,     \* bound on kills of the process
  MaxReboots    \* bound on reboots

ASSUME UsbGadgetAssumption ==
  /\ MaxFaults \in Nat /\ MaxKills \in Nat /\ MaxReboots \in Nat
  /\ NoUdc # udc0 /\ None # g1 /\ Freed \notin {g1, None}

VARIABLES
  fs, bound, live, listed, gudc, ugad, ret, faults, leaked,   \* as in Libusbg
  pc,       \* the call of main or initUSB that comes next, "off" without a process
  g, s,     \* the handles of gadget-hid.h
  kills, reboots,   \* kills and reboots left
  orphan    \* a process has left the gadget there without a controller

L == INSTANCE Libusbg WITH
       Gadgets <- {g1}, Functions <- {acm, hid, midi}, Configs <- {conf},
       Udcs <- {udc0}

library == <<live, listed, gudc, ugad>>
handles == <<g, s>>
budget  == <<kills, reboots>>
vars == <<fs, bound, library, ret, faults, leaked, pc, handles, budget, orphan>>

\* The calls of initUSB, in order, then those of main.
Calls == <<"init", "gadget", "acm", "hid", "midi", "config",
           "acm.GS0", "keyboard", "midi_link", "enable">>
After_NoEnable(call) ==   \* mutant: the gadget is never enabled
  LET i == CHOOSE i \in DOMAIN Calls : Calls[i] = call
  IN  IF i >= Len(Calls) - 1 THEN "out2" ELSE Calls[i + 1]
After(call) == LET i == CHOOSE i \in DOMAIN Calls : Calls[i] = call
               IN  IF i = Len(Calls) THEN "out2" ELSE Calls[i + 1]
PCs == ToSet(Calls) \cup {"off", "out2", "open", "lua", "run", "tool"}

TypeOK ==
  /\ L!TypeOK /\ pc \in PCs
  /\ g \in {"null", "live", "freed"} /\ s \in {"null", "live", "freed"}
  /\ kills \in 0..MaxKills /\ reboots \in 0..MaxReboots /\ orphan \in BOOLEAN

Init ==
  /\ L!Init /\ pc = "off" /\ g = "null" /\ s = "null"
  /\ kills = MaxKills /\ reboots = MaxReboots /\ orphan = FALSE

-----------------------------------------------------------------------------
Start ==
  /\ pc = "off" /\ pc' = "init"
  /\ g' = "null" /\ s' = "null"
  /\ UNCHANGED <<fs, bound, library, ret, faults, leaked, budget, orphan>>

InitLibrary ==
  /\ pc = "init" /\ L!UsbgInit
  /\ s' = (IF ret' = "ok" THEN "live" ELSE "null")
  /\ pc' = (IF ret' = "ok" THEN "gadget" ELSE "open")
  /\ UNCHANGED <<g, budget, orphan>>

\* Mutant of CreateGadget: a gadget that exists is taken to be complete.
CreateGadget_Resume ==
  /\ pc = "gadget" /\ L!CreateGadget(g1) /\ g' = "live"
  /\ pc' = (IF ret' = "ok" THEN After(pc) ELSE IF ret' = "exist" THEN "enable" ELSE "out2")
  /\ UNCHANGED <<s, budget, orphan>>

\* Any error, an existing gadget too, ends initUSB at out2.
CreateGadget ==
  /\ pc = "gadget" /\ L!CreateGadget(g1)
  /\ IF ret' = "ok" THEN g' = "live"
     ELSE IF ret' = "error" THEN g' \in {"null", "freed"} ELSE g' = g
  /\ pc' = (IF ret' = "ok" THEN After(pc) ELSE "out2")
  /\ UNCHANGED <<s, budget, orphan>>

Call ==
  \/ pc = "acm"       /\ L!CreateFunction(g1, acm)
  \/ pc = "hid"       /\ L!CreateFunction(g1, hid)
  \/ pc = "midi"      /\ L!CreateFunction(g1, midi)
  \/ pc = "config"    /\ L!CreateConfig(g1, conf)
  \/ pc = "acm.GS0"   /\ L!AddConfigFunction(g1, conf, acm)
  \/ pc = "keyboard"  /\ L!AddConfigFunction(g1, conf, hid)
  \/ pc = "midi_link" /\ L!AddConfigFunction(g1, conf, midi)
  \/ pc = "enable"    /\ L!EnableGadget(g1, udc0)

BuildGadget_Ignore ==   \* mutant: the results of the calls are ignored
  /\ Call /\ pc' = After(pc) /\ UNCHANGED <<handles, budget, orphan>>

BuildGadget ==
  /\ Call
  /\ pc' = (IF ret' = "ok" THEN After(pc) ELSE "out2")
  /\ UNCHANGED <<handles, budget, orphan>>

\* out2: the state is freed whether initUSB succeeded or not, and the gadget
\* with it.
CleanState ==
  /\ pc = "out2" /\ L!UsbgCleanup
  /\ s' = "freed" /\ g' = (IF g = "live" THEN "freed" ELSE g)
  /\ pc' = "open" /\ UNCHANGED <<budget, orphan>>

\* The end of a process: its memory is gone, the tree stays.
Exit(tree, udcs) ==
  /\ pc' = "off"
  /\ live' = FALSE /\ listed' = {} /\ L!NoPointers
  /\ orphan' = (orphan \/ (Gadget(g1) \in tree /\ udcs[g1] = NoUdc))
  /\ fs' = tree /\ bound' = udcs /\ UNCHANGED <<handles, leaked>>

\* main ignores the result of initUSB.  The device files exist while the gadget
\* is bound; without them main returns 1.
OpenOutputs ==
  /\ pc = "open"
  /\ \/ /\ bound[g1] # NoUdc /\ pc' = "lua"
        /\ UNCHANGED <<fs, bound, library, leaked, handles, orphan>>
     \/ bound[g1] = NoUdc /\ Exit(fs, bound)
  /\ UNCHANGED <<ret, faults, budget>>

\* initLUA, with keybow.lua: an error in it ends main, USB as it is.
StartLua ==
  /\ pc = "lua"
  /\ \/ /\ pc' = "run"
        /\ UNCHANGED <<fs, bound, library, faults, leaked, handles, orphan>>
     \/ L!Fault /\ Exit(fs, bound)
  /\ UNCHANGED <<ret, budget>>

\* SIGINT, then cleanupUSB with g and s as initUSB left them.  A freed gadget
\* has empty lists, so at most its UDC file and its strings are reached; the
\* second usbg_cleanup of a freed state ends the process one way or another.
CleanupUSB ==
  /\ pc = "run"
  /\ \E tree \in {fs} \cup (IF g = "freed" THEN {fs \ {Strings(g1)}} ELSE {}),
        udcs \in {bound} \cup (IF g = "freed" THEN {[bound EXCEPT ![g1] = NoUdc]} ELSE {}) :
       Exit(tree, udcs)
  /\ UNCHANGED <<ret, faults, budget>>

\* A kill in a creating call leaves what the call had made so far.
StepsOfCall ==
  IF ~live THEN <<>>
  ELSE IF pc = "gadget" /\ Gadget(g1) \notin listed THEN L!GadgetSteps(g1)
  ELSE IF pc = "config" THEN L!ConfigSteps(g1, conf) ELSE <<>>

Kill ==
  /\ pc # "off" /\ kills > 0 /\ kills' = kills - 1
  /\ \E made \in 0..Len(StepsOfCall) :
       Exit(fs \cup ToSet(SubSeq(StepsOfCall, 1, made)), bound)
  /\ UNCHANGED <<ret, faults, reboots>>

-----------------------------------------------------------------------------
\* Another program on the library, while keybow is off; it ends with the memory
\* it has, as a killed process does.
ToolStart ==
  /\ pc = "off" /\ L!UsbgInit
  /\ pc' = (IF ret' = "ok" THEN "tool" ELSE "off")
  /\ UNCHANGED <<handles, budget, orphan>>

ToolRemoves ==
  \/ \E recurse \in BOOLEAN : L!RmStep(recurse)
  \/ \E f \in {acm, hid, midi} : L!RmBinding(g1, conf, f)

ToolAsks == L!DisableGadget(g1) \/ L!GetGadgetUdc(g1) \/ L!GetUdcGadget(udc0)

ToolCalls ==
  /\ pc = "tool" /\ ret # "crash" /\ (ToolRemoves \/ ToolAsks)
  /\ orphan' = (orphan /\ Gadget(g1) \in fs')
  /\ UNCHANGED <<pc, handles, budget>>

\* The UDC file is emptied behind the tool's back.
Detach ==
  /\ pc = "tool" /\ ret # "crash" /\ L!KernelDetach(g1)
  /\ UNCHANGED <<pc, handles, budget, orphan>>

ToolEnd == pc = "tool" /\ Exit(fs, bound) /\ UNCHANGED <<ret, faults, budget>>

-----------------------------------------------------------------------------
\* teardown.sh goes on after a command that fails.  Each removes of its nodes those
\* that the kernel lets go; of the links, "keyboard" and "midi".
TryRemove(tree, nodes) == tree \ {n \in nodes : CanRemove(tree, n)}
TeardownConfig(tree) ==
  TryRemove(TryRemove(TryRemove(TryRemove(tree, {CStrings(g1, conf)}),
    {Link(g1, conf, hid)}), {Link(g1, conf, midi)}), {Config(g1, conf)})
TeardownRest(tree) ==
  TryRemove(TryRemove(TryRemove(tree, {Function(g1, f) : f \in {acm, hid, midi}}),
    {Strings(g1)}), {Gadget(g1)})

Teardown ==
  /\ pc = "off" /\ Gadget(g1) \in fs
  /\ \E tree \in {TeardownConfig(fs)} : fs' = TeardownRest(tree)
  /\ bound' = [bound EXCEPT ![g1] = NoUdc]
  /\ orphan' = (Gadget(g1) \in fs')
  /\ UNCHANGED <<library, ret, faults, leaked, pc, handles, budget>>

Reboot ==
  /\ reboots > 0 /\ reboots' = reboots - 1
  /\ fs' = {} /\ bound' = [x \in {g1} |-> NoUdc]
  /\ live' = FALSE /\ listed' = {} /\ L!NoPointers
  /\ pc' = "off" /\ orphan' = FALSE /\ leaked' = FALSE
  /\ UNCHANGED <<ret, faults, handles, kills>>

Process == Start \/ InitLibrary \/ CreateGadget \/ BuildGadget \/ CleanState
             \/ OpenOutputs \/ StartLua
Tool == ToolStart \/ ToolCalls \/ Detach \/ ToolEnd
Next == Process \/ CleanupUSB \/ Kill \/ Tool \/ Teardown \/ Reboot

\* The process goes on; nothing makes anybody stop, kill or reboot it.
Spec == Init /\ [][Next]_vars /\ WF_vars(Process)

-----------------------------------------------------------------------------
\* The host never sees half a gadget: one that has a controller has all of its
\* functions, over any number of kills, failed calls, restarts and teardowns.
HostSeesWhole ==
  bound[g1] # NoUdc =>
    \A f \in {acm, hid, midi} : Function(g1, f) \in fs /\ Link(g1, conf, f) \in fs

\* A gadget that some process left without a controller is never served by a
\* later one: initUSB stops at usbg_create_gadget (EXIST) and repairs nothing.
OrphanNeverServed == orphan => bound[g1] = NoUdc /\ pc \notin {"lua", "run"}

\* With nothing failing any more, a start on a clean system, or on one whose
\* gadget is bound, ends up serving keys.
Undisturbed == faults = 0 /\ kills = 0 /\ reboots = 0
StartServes ==
  (pc = "init" /\ Undisturbed /\ (fs = {} \/ bound[g1] # NoUdc)) ~> (pc = "run")

\* What the library's lists say is what is in configfs, however a call of
\* keybow or of a tool failed half-way and in whatever order a tool removes
\* parts: nothing listed is gone, nothing is missed that no failed call left
\* behind, no link or function outlives what it belongs to.
ListsMatchTree == L!ListedExists /\ L!NothingUnlisted /\ L!ListsClosed /\ L!UdcPointsBack

\* Whatever failed calls, kills and single removals have left of a gadget, a
\* recursive removal takes it away, strings and links included, in an order the
\* kernel accepts: nothing but a failing kernel call can stop it.
RecurseRemovesAll ==
  [][pc = "tool" /\ faults' = faults /\ L!RmGadget(g1, TRUE) => fs' = {}]_vars
=============================================================================
