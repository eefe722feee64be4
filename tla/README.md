# Keybow firmware: TLA+ models, model checking and proofs

The firmware of Keybow (a 12-key macro pad on a Raspberry Pi Zero) makes the Pi a
USB device, scans twelve GPIO pins, calls a Lua function when a key goes down or
up, and turns the calls that function makes into USB HID reports, serial data,
files and LED colours. `keybow/` is about a thousand lines of C; the repository
carries the libraries below it: `libusbgx`, `bcm2835` and Lua 5.3.5.

What is hard is not in any one function. Reports that the driver refuses, keys
that share a code or a shift, pins that change while a handler runs, a signal in
the middle of it, two threads on one set of globals, a gadget that outlives its
process, calls into the kernel that fail half-way, controllers that go on while
the code looks away, a collector between two instructions of the program it
cleans up after: the models are about those. `PROJECT.json` lists each hazard with
its line and the properties that are about it.

## 1. The parts of the system

| part | code | state | modelled in |
|---|---|---|---|
| key table | `lua-config.c` 7-38 | `pressed_keys[14]` | `HidReports` |
| HID reports | `lua-config.c` 55-101, 217-299, 331-356, 491-500 | `modifiers`, `media_keys`, `last_media_keys`, the endpoint, what the host sees | `HidReports`, `HidTyping`, `ReportMirror` |
| key scanning, keybow.lua | `keybow.c` 28-86, 188-203; `sdcard/keybow.lua` | `last_state[12]`, `running` | `KeyScan` |
| lights | `lights.c`, `keybow.c` 88-100, `lua-config.c` 301-374 | `buf`, `width`, `height`, `row_pointers`, `y`, `x`, `lights_auto`, `lights_mutex` | `Lights` |
| USB gadget, startup | `gadget-hid.c`, `keybow.c` 102-186, `teardown.sh` | configfs, the descriptors, the handles `s` and `g` | `UsbGadget` |
| libusbgx | `usbg.c`, `usbg_common.c` | lists of gadgets, functions, configurations, links, controllers | `Libusbg`, `ConfigFs`, `Attributes`, `UsbgFiles` |
| gadget schemes, function types | `usbg_schemes_libconfig.c`, `src/function/*.c` | the file, the attributes, the luns | `Schemes`, `SchemeParts`, `FunctionTypes` |
| serial port, file store | `serial.c`, `lua-config.c` 103-158 | `readline_buffer`, the line, the files | `Bindings` |
| bcm2835 | `bcm2835.c` | FIFOs, status and pin registers | `Bcm2835`, `AuxSpi`, `Pins` |
| Lua state | `lua-config.c` 383-500, `ldo.c` | the stack, `CallInfo`s, pending `luaD_pcall`s | `LuaStack` |
| Lua at run time | `lgc.c`, `ldo.c`, `lcorolib.c` | colours and lists of objects; threads | `LuaGc`, `LuaCoroutines` |
| Lua's algorithms | `ltable.c`, `lcode.c`, `lparser.c`, `lvm.c`, `lobject.c`, the libraries, `ldump.c`, `lundump.c` | per call | `LuaTable`, `LuaCode`, `LuaVm`, `LuaLibs`, `LuaMatch`, `LuaTableLib`, `LuaDump` |

**How they interact.** The *main thread* sets the gadget up through libusbgx,
opens the device files it brings, runs `keys.lua` and then the loop: `luaTick`,
then `updateKeys`, which for each pin whose level differs from `last_state` calls
the Lua function `handle_key_NN` and waits for it. That function calls bindings;
those that concern keys change a table and call `sendHIDReport`: one write of the
keyboard report, 1 ms of sleep and, when the media bits changed, a second write.
Others read a line from the serial port with a timeout, or a file. The *lights
thread* draws a row of the loaded picture about 60 times a second, as long as
`lights_auto` is set, and sends the pixels by the polled SPI of bcm2835. The two
share the picture (under `lights_mutex`), and `lights_auto`, `height`, `running` and
the pixels (not under it). SIGINT clears `running`; main joins the lights thread,
and `luaClose` sends a last, empty report.

**What surrounds it.** The host polls an interrupt endpoint that holds one report;
it is opened with `O_NDELAY` and the result of `write` is ignored. The host may be
unplugged or reset, and keeps what it saw last when the process dies. configfs keeps
the gadget when the process is killed, and any call to it may fail. The serial line
delivers characters when it likes, the power may fail between the write of a file and
its way to the card, and the SPI and I2C controllers work on while the code polls.

## 2. Modules

A module that EXTENDS another adds to its state; the composing modules
`Devices`, `LuaRuntime` and `Libraries` instantiate components that share no state,
so that one run has them all: a behaviour picks one, `part`, and the variables of
the others hold `NIL`.

| module | what it is |
|---|---|
| `HidReports` | the slot table as functions on `[Slots -> codes]`, the bindings, `sendHIDReport`, the driver and the host |
| `ReportMirror` | abstract: one channel that mirrors a value to a host, may lag, lose and restart |
| `HidTyping` | EXTENDS `HidReports` with an observer: what was asked for and what the host typed |
| `KeyScan` | EXTENDS `HidReports` with the pins, the loop and the Lua handlers |
| `Lights` | the two threads around `lights_mutex` |
| `ConfigFs` | the tree of gadget directories and what the kernel accepts |
| `Libusbg` | the lists of libusbgx and every call that creates, removes or binds |
| `UsbGadget` | keybow's process, the tools and scripts, on an instance of `Libusbg` |
| `Bindings` | serial lines and saved files |
| `Bcm2835`, `AuxSpi`, `Pins` | polled transfers and delays; the auxiliary SPI; the registers |
| `Devices` | composes the four |
| `LuaStack` | calls, errors and the size of the stack |
| `LuaGc` | the collector between the steps of a program |
| `LuaCoroutines` | threads, yields and protected calls |
| `LuaRuntime` | composes the three |
| `LuaTable`, `LuaTableLib`, `LuaMatch`, `LuaCode`, `LuaVm`, `LuaProgram`, `LuaDump`, `LuaLibs`, `LuaCalls` | Lua's algorithms |
| `UsbgFiles`, `Attributes`, `SchemeParts`, `Schemes`, `FunctionTypes` | attributes, schemes and functions of libusbgx |
| `Libraries` | composes these two groups |
| `MC*` | constants for TLC; `LuaRuntime` and `UsbGadget` are run as they are |
| `HidReportsProofs`, `KeyScanProofs`, `LightsProofs`, `UsbGadgetProofs`, `DevicesProofs`, `TransfersProofs`, `LuaRuntimeProofs`, `LuaCoroutinesProofs` | the proofs |

### Keys and reports

The slots are `0..PRESSED_SLOTS-1` (14 in the code), a report carries the first
`REPORT_KEYS` (13). Codes are 16 bits in the table and bytes in a report
(`% 256`); modifiers and media keys are sets of bit numbers, of which a report
carries the low byte. `sendHIDReport` is two steps, because the host polls in
between: `Send` and `SendMedia`. `l_send_text` is a loop with a program counter
`at` (`TextChar`, `TextPress`, `TextRelease`, `TextUnshift`). A binding that finds
nothing to change returns without a report, and that is the guard of its action.
`hidg` is the report that the driver holds; with `HostKeepsPace` the host polls
within the millisecond the firmware sleeps, without it a write that finds the
driver busy is refused, and `lost` records it. `Faults` allows a reset of the host
and a process that dies without `luaClose`. `ReportMirror` is the summary of what
`sendHIDReport` promises: the host may lag behind or miss a value but never shows one
that the tables did not have. `HidReports` implements it twice, with the keyboard
and the media report as value. In `HidTyping`, `typed` collects a character whenever
a report shows a key the one before did not, `asked` what the handlers asked for.

`KeyScan` is `updateKeys` at the grain at which the world may change: the read of a
pin (`KeySame`, `KeyChanged`), the calls of the handler one by one, the assignment of
`last_state` after it (`KeyHandled`); `PinChange`, `SigInt` and `Die` may come
between any two. A layout is `Holds` (keys that hold a HID key while down) and `Macros`
(keys that type a text). `Lights` follows main in `phase` and `sub`, and the thread
in `pc`: the steps of `l_load_pattern` are the lock, the header (after which `width`
and `height` are new), the row pointers, the image, the unlock, and reading may
fail in between: in the image, too, and then rows that nobody has read belong to the new
size (`rows.read`). The pixels are three bands of four; `buf[b]` names the picture and
the row a band shows. Left out: the clock, half-written pixels, the memory of old
pictures; allocations succeed.

### The gadget

In `Libusbg` each call of the library is one action, whose stages are its kernel
calls; any may fail while `faults` last, and the call then undoes what its error path
undoes. In `UsbGadget` the process calls these in the order of `initUSB`, may be
killed between any two (`Kill`), and be started again, in which case
`usbg_create_gadget` says EXIST and main goes on as its ignored result allows.
While it is off, a tool like those of `libusbgx/examples` reads the tree back and
queries, disables or removes it in any order, `teardown.sh` runs, or the Pi reboots.

`Attributes`, `Schemes` and `FunctionTypes` are the calls on a gadget's contents, one
file of a call failing to open. A scheme is the tree of libconfig settings, of
which any may be missing or of the wrong type; the text of the file is external.

### Devices

`Bindings` has `sp_readline` with its one-second timeout against a line that
delivers characters one by one and a cable that is pulled. `l_save` may fail to open the file or
write a part of the value, and says nothing; a power cut keeps any prefix of what was
not yet written back. `l_load` may fail to open or read the file, stops at a NUL, and where
there is none goes on with any of `Rests`, what malloc left behind the buffer. `whole` records
that the last value was written and not lost. In
`Bcm2835` and `AuxSpi` the polling loops and the controllers take turns in
any order; the k-th byte of transfer x is the pair `<<x, k>>`, and so is the answer to
it, so that an answer from an earlier transfer shows. In `Pins` a register is the set
of its 1 bits, the writes have the effects of the hardware's set, clear and password
registers, and the history of calls says what every setting should be.

### Lua

A frame of `LuaStack` is where its function sits and how far it may go. Keybow's
calls (`RunChunk`, `luaCallSetup`, `luaHandleKey`, `luaTick`) push and call at the
base level; inside, Lua and C functions call, tail-call, return, fail, catch and
make room in any order, and the collector shrinks the stack. `LuaGc` has the
incremental collector state by state (marking, atomic, the sweeps, finalizers,
emergency collections) against a program that makes, links and drops objects with
weak tables and finalizers. `LuaCoroutines` has, besides each thread's chain of frames,
the stack of C that all share: where errors and yields jump to.
`LuaCode` compiles a syntax tree as `lparser.c` and `lcode.c` do, in one pass;
`LuaVm` runs the code, and `LuaProgram` says what the tree means. `LuaLibs` has
integers of `NBITS` bits that wrap around and floats with `NBM` bits of precision,
small enough that both limits are close together.

## 3. What TLC checks

| run | instance | what it shows |
|---|---|---|
| `hid_paced` | 4 slots, 3 reported; texts with capitals and a held key | no code twice, no held key hidden, `luaClose` releases, the host catches up |
| `hid_lossy` | 3 slots, slow host, resets, restarts | the host agrees unless a report was lost; both reports implement `ReportMirror` |
| `hid_overflow` | 2 slots, 3 codes; a host that need not poll | `keybow.text` is neutral with a full table, no call blocks |
| `hid_typing` | equal letters, a letter as capital and small, up to 6 characters | typed once, in order, and all of it |
| `keyscan_paced` | 3 keys: plain, shifted, a macro | the table follows the loop, the host follows the keys, a shutdown releases |
| `keyscan_clash` | a code shared by all keys, two of them shifted; lossy host, restarts | nothing stays pressed |
| `lights` | pictures 12 x 2 and 4 x 6, two light calls per run of Lua code | rows in bounds, no frame of two pictures or of one being read, setup's colours last, one stale frame |
| `lights_live` | one light call per run | the thread is joined; a loaded picture is shown |
| `usb_gadget` | two failing calls, a kill, a reboot | lists and tree agree, never half a gadget, orphans stay unserved, a removal removes all, an undisturbed start serves |
| `lua_runtime` | three objects, one entry each; a stack of 8; two coroutines, five C calls | the collector frees nothing in use and finalizes once; frames fit and the base is restored; errors go to the innermost pcall |
| `devices` | lines of up to 2, a buffer of 3; three values, one with a NUL, two rests; FIFOs of 2 and transfers of up to 5 (10 auxiliary) | lines, files and transfers keep their bytes, settings stay apart, every call ends |
| `libraries` | one request at a time over bounded inputs | tables, patterns, compiler, chunks, numbers, schemes, settings do what they promise |

**Why the bounds are enough.** The table functions ask whether a slot is free,
whether it holds a code, and whether it is reported: three or four slots with one
unreported show every relation of two keys, a typed key and a full table. One
modifier and one media bit suffice, the bits being independent. The clashes of
`KeyScan` are between two keys and a macro. Two pictures of different format are
needed for a row chosen for one and used for the other, and 4 x 6 is the smallest
with two frames. Two failures allow a call that fails and an undo that fails. A FIFO of
two with transfers of more than twice that has full, empty and half-filled states,
and a transfer after one that left bytes. `LUAI_MAXSTACK = 8` against
`LUA_MINSTACK = 2` lets the stack double, grow to the limit, overflow and shrink;
`LUAI_MAXCCALLS = 5` with two coroutines and four frames reaches the limit inside a
coroutine that a coroutine resumed. The inputs of `libraries` are in `MCLibraries`:
pattern items of each kind next to each other and in captures, the statements and operators
of the compiled subset in the positions where the compiler branches, pairs of numbers on both
sides of the limits of integers and floats.
The theorems of section 4 lift the bounds where they apply.

**Fairness.** The main thread is scheduled; it only blocks in `usleep`, in the mutex
and in the join: weak fairness of `Continue`, `MainThread`, `Process`, `Returns`.
A plugged-in host polls the endpoint: weak fairness of `HostPoll` in the runs about the
host, but not in `hid_overflow`, where the point is not to depend on it. Both threads
of `Lights` are weakly fair, and nothing is assumed about who gets the mutex. The SPI
and I2C controllers go on as long as they can (`Hardware`). No fairness is put on
pins, signals, kills, faults, or on a handler being called.

## 4. What is proved

All with TLAPS, for every value of the constants that satisfies the modules'
assumptions; TLC evaluates these in every run. None of the properties is inductive as
it stands; each proof has an invariant that is, and TLC checked each of those on the
runs before it was proved.

**HidReportsProofs** (any number of slots, any codes and texts, any host and faults).
`TypeCorrect`; `HostSeesTables` (`HostAgrees`): the property speaks of an empty driver,
`HostInv` adds what a report under way contains and that the media report sent last
is `last_media_keys`. `NoKeyStoredTwice`, `NoHiddenKey`, `TextIsNeutral`: `KeysInv` says
what the table is at each point of `l_send_text` relative to what it was `before`; that
a held code is reported is a pigeonhole argument on the slots below the first free
one. `NothingLeftPressed`: `CloseInv`, from `luaClose` on the tables stay empty.
`KeyboardImplementsMirror`, `MediaImplementsMirror`: the safety part of the
refinement of `ReportMirror`, step by step.
`NothingElseIsTyped` (`TypedInOrder`), for a host that keeps pace, codes that are bytes
and keys that fit: `TypingInv` says that what was asked for is at every step what the host
typed, then the key of the report it has not read yet (`InFlight`), then what the rest of
the text still asks for (`Rest`) with the keys and modifiers that are held while it is
typed. Each step moves a stroke from one part to the next: a pass of the loop of
`l_send_text` from `Rest` to `InFlight`, a poll from there to `typed`. It needs
`HostInv` (the host shows the table before the next report) and `KeysInv` (a key typed
was not held, so the report shows it as new). The strokes of a text are a recursive function over
its last n characters; that the function exists and unfolds (`TextStrokesStep`) is proved
from a least counterexample, as the library's induction theorems cannot be used.

**KeyScanProofs** (any number of keys, any layout). `ScanImplementsReports`: every step
of the loop is a step of `HidReports` or leaves it alone, so the invariants above hold
of the running program. `TableFollowsLoop` (`HeldMatchesKeys`) and `NoKeyStuck`
(`NothingStuck`): `HandlerInv` says which calls of a handler are still to come, and
what is held once they have been made.

**LightsProofs** (any pictures with a frame, any number of light calls).
`LightsTypeCorrect`, `MutualExclusion`, `RowsExist`, `FramesAreWhole`, `SetupLightsLast`,
`OneStaleFrame`, from `LightsInv`: where the two threads can be relative to each
other (`Places`), that `height` counts the rows there are except between two lines of
`read_png_file`, where the mutex keeps the thread out (`PictureInv`), that the bands
drawn so far are of one frame (`FrameInv`), and that the thread is on its way to a
frame only if `lights_auto` was set after the last frame that ignored it (`AutoInv`).
`FramesAreWhole` does not say that the rows of a frame were read: where `png_read_image`
failed they were not, and the code draws them.

**UsbGadgetProofs** (any number of failing calls, kills and reboots). `NeverHalfServed`
(`HostSeesWhole`), `OrphansStayUnserved`, `ListsStaySound` (`ListsMatchTree`), from
`UsbInv`: the tree is closed (every node has its directory, every link its function),
what each stage of `initUSB` has made (`Made`), and that a bound gadget is whole. A
creating call is one lemma for each number of kernel calls it makes, with the node
at which it stopped.
`RecursiveRemovalIsWhole` (`RecurseRemovesAll`) needs `TreeInv` too: the tree has only nodes
of the gadget, and between the calls of a tool the lists have all of it but the
strings, whatever an earlier process left unlisted. `Goes(order, tree, gone)`
says that the kernel lets every node of an order go in turn, and that they are `gone`;
two orders compose (`GoesOn`). The links have nothing below them, so their list may come in any
order (`NodesGo`), then a configuration's strings (`ConfigClears`), and so up to
the gadget (`GadgetClears`): a removal that stops has met a failing kernel call.

**DevicesProofs** (any lines that fit the buffer, any values, any cuts). `NoLineTorn`
(`LinesIntact`): `SerialInv` places what was sent in what was delivered, what is in
the buffer and what is under way. `NoValueMixed` (`StoreSound`): `StoreInv` says that the
file, and every stage a power cut may leave, is the beginning of a saved value; that a save under
way writes the last of them over nothing; and that `whole` makes the file that value. That what
`l_load` pushes is a beginning of what it read (`CutAtNul`) needs the first NUL to exist, the
least element of a set of places; beginnings of beginnings are beginnings (`PrefixesChain`).

**TransfersProofs** (any depth of the FIFOs, any lengths and delays). `TransfersAreExact`
(`TransferExact`): `SpiInv`, `I2cInv` and `XInv` place every byte on the line, in one of
the FIFOs or in the buffer of the answers, in order; `DelayInv` says that the two halves of the
system timer were read at a time between the start and now.

**LuaRuntimeProofs** (any size of the stack, any limit of C calls, any frames).
`StackStaysSound` (`StackSound`): `StackInv` says that every frame fits and lies above
its caller's function (`ChainOK`), that a pending pcall remembers a frame that is there
and the count of C calls at it (`JumpsOK`), that the top is in the frame of the running
function (`TopOK`), and that the count is the number of frames entered from C.
`ShrunkFits` is the lemma that `luaD_shrinkstack` leaves room for what is in use. The room
beyond `LUAI_MAXSTACK` that an overflow opens is in the model, calls of a message
handler in it are not: keybow's `lua_pcall`s have none.

The same module has the collector (any objects, entries, weak modes and bound on the
stack): `HeapStaysSound` (`HeapSound`) and `FinalizersStaySound` (`FinalizersSound`).
The colours alone are not inductive, as a sweep turns what it has passed white and frees
what the last atomic step left dead. `GcInv` says that each object that is not free is in one
list once, with the order of the lists a part of it (`ListsOK`); that what is neither
free nor dead refers only to its like, through entries, metatables and the stack
(`ClosedOK`); while marking, that no black object refers to a white one and the gray ones
are queued (`MarkOK`); and while sweeping, that everything before the pointer, and
every list swept earlier, is white (`SweepOK`). That a weak entry of a reachable table stays if
its own sides are reachable otherwise (`WeakStep`) speaks of each entry alone: a run of two entries is
too large for TLC, the theorem has any number. Each marking step is one use of `Spread`, the least
set closed under what its members mark, and each sweeping step one of `SweepKeepsHeap`.
The hypothesis is `FewFinalizers`: the userdata fit one step of the sweep (`GCSWEEPMAX`, 80
objects or so). `luaC_step` calls finalizers between two steps of a sweep and returns
the object to `allgc` in front (`udata2finalize`); if it is the one whose `next` the
sweep's pointer is, the sweep goes on in `allgc`, and the rest of `tobefnz` stays
black. The userdata with finalizers of keybow's program are the standard files of io and what a layout
opens.

**LuaCoroutinesProofs** (any coroutines, any frames, any `LUAI_MAXCCALLS` but 0).
`CoroutinesStaySound` (`CoroutinesSound`): the property compares counters and frames with
the stack of C, but a yield or an error puts back what a call saved when it was
made. `CoInv` therefore says what each call on that stack saved (`ActOK`), that the calls of a
thread are one stretch of it, deeper calls in deeper frames (`ActsOK`), that threads that
run or wait have counted theirs (`CountersOK`), which frames have a call of their own, with
Lua above it, and that a pcall found by its flag lies outside of every call that
forbids yields (`ThreadOK`), the status (`StatusOK`) and what may be on its way
(`RaisingOK`). `CutBack` is the lemma for every step that falls back within a thread
(a return, an error caught), `ResumeEnds` the one for a thread that is left.

**Only model-checked, and why.**

- Liveness: `HostCatchesUp`, `CallsReturn`, `AllIsTyped`, `HostFollowsKeys`,
  `ShutdownReleases`, `ShutdownJoins`, `PatternIsShown`, `StartServes`, `CallsEnd`, and
  the liveness part of `ReportMirrors`: the prover has no ENABLED.
- `TableSound`, `MatchSound`, `CodeMeansSource`, `NumbersSound`, `SchemeRoundTrip`,
  `SettingsSound`: recursive operators and induction over data.
- `PinsSound`: its definitions fold over sets with operators that take operators.
- `HeapSound`, `FinalizersSound` with more userdata than a step of the sweep visits: they
  do not hold then (see LuaRuntimeProofs), and no run has that many.

## 5. What the models leave open, as the code does

The properties have these exceptions, because the code has them.

*Keys.* `luaClose` does not clear `media_keys`. With a full table `l_send_text` releases
a held key whose letter it types, and with one slot left a key is not reported; both
take 13 keys held by a pad of 12, and `Fits` is the condition. Two keys with one code
release it for each other. A lost report is not repeated until the next change. Usage
code 0 is no key.

*Lights.* A `png_read_image` that fails (`lights.c` 70-79) leaves unread rows under the new
width and height, and they are drawn: `FrameCoherent` promises one frame of one loaded picture,
not that the file could be read. A picture of width 4 with fewer than three rows, or no
`default.png`, makes a divisor zero (`lights.c` 137, 154): `PictureAssumption` excludes both.

*Gadget.* `cleanupUSB` uses the handles after `usbg_cleanup` freed them
(`gadget-hid.c` 218, 224) and so removes nothing; `teardown.sh` does not remove the link
of `acm.GS0`, so the gadget stays, unbound. `usbg_free_gadget` (`usbg.c` 291) leaves the
controller's pointer to the freed gadget, where `usbg.h` 1077 promises NULL for a free one;
`usbg_get_udc_gadget` (1690) writes through a pointer that the call before it has set to NULL
when the kernel detached the gadget, and drops those of a gadget whose UDC file it could not
read; a gadget that another process attached is not found (1667).

*libusbgx.* `usbg_get_config_node_bool` returns 0 after it has read the value, so boolean attributes
of mass storage are never imported. `ms_set_attrs` uses `attrs->luns[i]` where the
new luns are meant, `cleanup_luns` removes nothing, lun 0 cannot be removed, sparse luns lose
their numbers in a scheme. A failed `usbg_import_function` leaves the function, a failed
import of a configuration leaves the functions it had inside. An error in `os_descs` may return
success. After `usbg_set_os_desc_config(g, NULL)` a later set says EXIST. A
creation that fails on its strings leaves its directory. MaxPower 300 is read back as 44. Labels that
clash, an unknown label without `_`, and `os_descs` without `qw_sign` are outside of the
inputs: the code does not define them.

*Devices.* `serial_read`'s index is not compared with the buffer's length: `Lines` fit by
assumption, and a longer one overruns it. `l_save` passes over a failed `fopen` and a short
`fwrite` (`lua-config.c` 149-153), so that `load` returns an older or a shorter value; `l_load`
does not terminate what it read (121-125), so that a value comes back with anything behind
it, unless it has a NUL, which ends it. `StoreSound` speaks of what is from the file (`text`) apart
from what follows (`rest`), and only after a whole write and a whole read of the
last value. A stale DONE makes a repeated start
of I2C report ERROR_DATA with the transfer still running (`bcm2835.c` 1340-1352), and
one with more command bytes than the FIFO holds never ends; lengths of zero are
excluded. `bcm2835_aux_spi_transfernb` with more than a FIFO may read an empty FIFO when
the process is held up, and answers that an earlier write left are taken for its own:
`AuxTransferStep` states the limits within which it is exact. `bcm2835_init` is called
twice and unmapped once. `bcm2835_i2c_set_baudrate` and the SPI speed round the
divider to even.

*Lua.* The message of a failed handler and the nil of a missing one stay on the stack of
the base level: `left` counts them, and `BaseRestored` has it as its exception; pushing
there without `lua_checkstack` breaks the assertion of `lapi.h` 16-17 after
enough failures. A loop whose limit is within a step of the largest integer wraps
around and does not end; a NaN limit with a negative step lets an integer loop run, although
the manual says otherwise: both are outside of `LoopsExact`. `%.14g` does not bring
back every float. `coroutine.resume` of a normal coroutine without arguments may say
"dead" for "non-suspended". A nested function without source would get its parent's when it
is dumped and loaded; the compiler never makes one.

## 6. What is not modelled

`sendMIDINote` and `serial_write` (they write bytes and keep no state), the clock
functions (a handler may take arbitrarily long, which is what matters for the rest), the test
programs, `toggleMediaKey` and `lights_cleanup` (no caller); of bcm2835 raw register
access, printing and the deprecated forms; of Lua the scanner, closures with upvalues of
their own, goto, varargs, table constructors, generic `for` and floats in the compiler, metatables beyond what the
collector needs, the debug interface, `string.format`, `io`, `os`, `package`. libpng,
libconfig, configfs, the host and the hardware are external: modelled as the code in the
repository uses them.

Six hazards have no property: `media_keys` at the end, a picture without a frame and a line that
overruns `readline_buffer` (section 5), a libpng error between the header and the rows, a pixel
painted while it is sent, and `has_tick`, decided once. Each is what the code does, without a
promise to check it against; `PROJECT.json` has the notes.
