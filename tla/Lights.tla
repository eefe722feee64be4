------------------------------- MODULE Lights -------------------------------
(***************************************************************************)
(* The LEDs: the thread that plays a picture (run_lights in                *)
(* keybow/keybow.c, lights_drawPngFrame in keybow/lights.c) and the main   *)
(* thread, whose Lua code loads pictures, switches the automatic lights    *)
(* and paints pixels (l_load_pattern, l_auto_lights, l_clear_lights,       *)
(* l_set_pixel in keybow/lua-config.c), from the start of main to the join *)
(* of the thread.                                                          *)
(*                                                                         *)
(* Both threads use the globals width, height, row_pointers and y.  Reads  *)
(* of a picture and loads of one are under lights_mutex; the first read of *)
(* height in run_lights, lights_auto and the pixel buffer are not.         *)
(*                                                                         *)
(* The 12 pixels are three bands of four.  A picture of width 4 has frames *)
(* of three rows, one per band; of any other width each row is a frame     *)
(* that fills all bands.  What a row shows is named by picture and row.    *)
(***************************************************************************)
EXTENDS Integers, FiniteSets

CONSTANTS
    Pictures,      \* the png files
    DefaultPng,    \* "default.png"
    WidthOf,       \* picture -> width
    HeightOf,      \* picture -> height
    NoPicture,     \* row_pointers before any picture was loaded
    MaxLuaCalls    \* bound: light calls of the chunk, of setup, of one round

(***************************************************************************)
(* Every picture has a frame (run_lights and lights_drawPngFrame divide by *)
(* their number), and default.png exists; the pictures of the repository   *)
(* are like that.                                                          *)
(***************************************************************************)
ASSUME PictureAssumption ==
    /\ DefaultPng \in Pictures
    /\ NoPicture \notin Pictures
    /\ WidthOf \in [Pictures -> Nat \ {0}]
    /\ HeightOf \in [Pictures -> Nat \ {0}]
    /\ \A p \in Pictures : WidthOf[p] = 4 => HeightOf[p] >= 3
    /\ MaxLuaCalls \in Nat

VARIABLES
    phase,        \* of main
    sub,          \* where main is in a light call, "none" outside
    arg,          \* the picture or the band of that call
    luaCalls,     \* light calls made in this run of Lua code
    running,      \* set before setup, cleared by SIGINT
    lights_auto,
    lights_mutex, \* its owner: "main", "lights" or "none"
    width, height,
    rows,         \* row_pointers: whose rows, how many, what png_read_image did to them
    y, x,         \* the global loop variables; x counts bands
    buf,          \* band -> what its pixels show
    pc,           \* of the lights thread
    frame,        \* its row: delta of run_lights, then frame of lights_drawPngFrame
    everOn,       \* history: lights_auto was set since the thread exists
    stale,        \* history: frames begun since lights_auto was cleared
    painted       \* history: Lua painted since the last frame was begun

mainVars == <<phase, sub, arg, luaCalls>>
pictureVars == <<width, height, rows, y, x>>
threadVars == <<pc, frame>>
history == <<everOn, stale, painted>>
vars == <<mainVars, running, lights_auto, lights_mutex, pictureVars, buf,
          threadVars, history>>

Bands == 0..2
Dark == [picture |-> "dark", row |-> 0, read |-> "whole"]
Lua == [picture |-> "lua", row |-> 0, read |-> "whole"]

\* What a row of the loaded picture shows.
Row(r) == [picture |-> rows.picture, row |-> r, read |-> rows.read]

-----------------------------------------------------------------------------
(* main: light calls *)

\* Lua code runs: the chunk of keys.lua, setup, or a handler or tick.
LuaRuns == phase \in {"chunk", "setup", "body"} /\ sub = "none"

CountCall == luaCalls < MaxLuaCalls /\ luaCalls' = luaCalls + 1

AutoLights(on) ==
    /\ LuaRuns /\ CountCall
    /\ lights_auto' = on
    /\ everOn' = (everOn \/ (on /\ pc # "none"))
    /\ stale' = 0
    /\ UNCHANGED <<phase, sub, arg, running, lights_mutex, pictureVars, buf,
                   threadVars, painted>>

\* l_set_pixel paints one pixel, l_clear_lights all from the first on.
Paint(call, band) ==
    /\ LuaRuns /\ CountCall
    /\ sub' = call /\ arg' = band
    /\ UNCHANGED <<phase, running, lights_auto, lights_mutex, pictureVars, buf,
                   threadVars, history>>

PaintBand ==
    /\ sub \in {"pixel", "clear"}
    /\ buf' = [buf EXCEPT ![arg] = Lua]
    /\ painted' = TRUE
    /\ \/ /\ sub = "clear" /\ arg < 2
          /\ arg' = arg + 1
          /\ UNCHANGED sub
       \/ /\ sub = "pixel" \/ arg = 2
          /\ sub' = "none" /\ arg' = 0
    /\ UNCHANGED <<phase, luaCalls, running, lights_auto, lights_mutex, pictureVars,
                   threadVars, everOn, stale>>

\* Mutant: l_load_pattern does not take the mutex.
LoadPattern_NoLock(p) ==
    /\ LuaRuns /\ CountCall
    /\ sub' = "header" /\ arg' = p
    /\ UNCHANGED <<phase, running, lights_auto, lights_mutex, pictureVars, buf,
                   threadVars, history>>

LoadPattern(p) ==
    /\ LuaRuns /\ CountCall
    /\ sub' = "lock" /\ arg' = p
    /\ UNCHANGED <<phase, running, lights_auto, lights_mutex, pictureVars, buf,
                   threadVars, history>>

LoadLock ==
    /\ sub = "lock" /\ lights_mutex = "none"
    /\ lights_mutex' = "main" /\ sub' = "header"
    /\ UNCHANGED <<phase, arg, luaCalls, running, lights_auto, pictureVars, buf,
                   threadVars, history>>

\* read_png_file up to the header; it fails early when the file is missing
\* or is no picture, which default.png is not.
ReadHeader ==
    /\ sub = "header"
    /\ \/ /\ width' = WidthOf[arg] /\ height' = HeightOf[arg]
          /\ sub' = "rows"
       \/ /\ phase # "init"
          /\ sub' = "unlock"
          /\ UNCHANGED <<width, height>>
    /\ UNCHANGED <<phase, arg, luaCalls, running, lights_auto, lights_mutex,
                   rows, y, x, buf, threadVars, history>>

\* The rows are allocated; the ones of the last picture are never freed.
AllocateRows ==
    /\ sub = "rows"
    /\ rows' = [picture |-> arg, count |-> height, read |-> "reading"]
    /\ y' = height
    /\ sub' = "image"
    /\ UNCHANGED <<phase, arg, luaCalls, running, lights_auto, lights_mutex,
                   width, height, x, buf, threadVars, history>>

\* png_read_image fills the rows; or it fails, which for default.png it does not,
\* and leaves some of them as malloc gave them, under the new width and height.
ReadImage ==
    /\ sub = "image"
    /\ \/ rows' = [rows EXCEPT !.read = "whole"]
       \/ phase # "init" /\ rows' = [rows EXCEPT !.read = "failed"]
    /\ sub' = "unlock"
    /\ UNCHANGED <<phase, arg, luaCalls, running, lights_auto, lights_mutex,
                   width, height, y, x, buf, threadVars, history>>

\* Mutant: l_load_pattern returns without unlocking.
LoadDone_Locked ==
    /\ sub = "unlock"
    /\ sub' = "none" /\ arg' = 0
    /\ IF phase = "init"
       THEN phase' = "setup" /\ luaCalls' = 0 /\ running' = TRUE
       ELSE UNCHANGED <<phase, luaCalls, running>>
    /\ UNCHANGED <<lights_auto, lights_mutex, pictureVars, buf, threadVars, history>>

\* main itself loads default.png without the mutex, before the thread exists,
\* and is running then.
LoadDone ==
    /\ sub = "unlock"
    /\ sub' = "none" /\ arg' = 0
    /\ IF phase = "init"
       THEN phase' = "setup" /\ luaCalls' = 0 /\ running' = TRUE /\ UNCHANGED lights_mutex
       ELSE lights_mutex' = "none" /\ UNCHANGED <<phase, luaCalls, running>>
    /\ UNCHANGED <<lights_auto, pictureVars, buf, threadVars, history>>

-----------------------------------------------------------------------------
(* main: the program *)

\* initLUA has run the chunk: lights_auto = 1, initLights, default.png.
InitLights ==
    /\ phase = "chunk" /\ sub = "none"
    /\ lights_auto' = TRUE
    /\ buf' = [b \in Bands |-> Dark]
    /\ phase' = "init" /\ sub' = "header" /\ arg' = DefaultPng
    /\ UNCHANGED <<luaCalls, running, lights_mutex, pictureVars, threadVars,
                   history>>

\* Mutant: the lights are switched on again after setup.
CreateThread_AutoOn ==
    /\ phase = "setup" /\ sub = "none"
    /\ pc' = "while"
    /\ lights_auto' = TRUE
    /\ phase' = "while" /\ luaCalls' = 0
    /\ painted' = FALSE
    /\ UNCHANGED <<sub, arg, running, lights_mutex,
                   pictureVars, buf, frame, everOn, stale>>

\* setup has returned: pthread_create, and into the main loop.
CreateThread ==
    /\ phase = "setup" /\ sub = "none"
    /\ pc' = "while"
    /\ everOn' = lights_auto
    /\ phase' = "while" /\ luaCalls' = 0
    /\ painted' = FALSE
    /\ UNCHANGED <<sub, arg, running, lights_auto, lights_mutex,
                   pictureVars, buf, frame, stale>>

MainWhile ==
    /\ phase = "while"
    /\ phase' = IF running THEN "body" ELSE "join"
    /\ UNCHANGED <<sub, arg, luaCalls, running, lights_auto, lights_mutex,
                   pictureVars, buf, threadVars, history>>

\* tick and the handlers of this round have returned.
HandlersReturn ==
    /\ phase = "body" /\ sub = "none"
    /\ phase' = "while" /\ luaCalls' = 0
    /\ UNCHANGED <<sub, arg, running, lights_auto, lights_mutex,
                   pictureVars, buf, threadVars, history>>

Join ==
    /\ phase = "join" /\ pc = "done"
    /\ phase' = "joined"
    /\ UNCHANGED <<sub, arg, luaCalls, running, lights_auto, lights_mutex,
                   pictureVars, buf, threadVars, history>>

\* signal_handler; it is installed when running has been set.
SigInt ==
    /\ running
    /\ running' = FALSE
    /\ UNCHANGED <<mainVars, lights_auto, lights_mutex, pictureVars, buf,
                   threadVars, history>>

-----------------------------------------------------------------------------
(* run_lights *)

Thread(from, to) == pc = from /\ pc' = to

LightsWhile ==
    /\ pc = "while"
    /\ pc' = IF running THEN "delta" ELSE "done"
    /\ UNCHANGED <<mainVars, running, lights_auto, lights_mutex, pictureVars,
                   buf, frame, history>>

\* The clock picks any row of the picture there is at this moment.
LightsDelta ==
    /\ Thread("delta", "auto")
    /\ frame' \in 0..(height - 1)
    /\ UNCHANGED <<mainVars, running, lights_auto, lights_mutex, pictureVars,
                   buf, history>>

LightsAuto ==
    /\ pc = "auto"
    /\ pc' = IF lights_auto THEN "lock" ELSE "show"
    /\ UNCHANGED <<mainVars, running, lights_auto, lights_mutex, pictureVars,
                   buf, frame, history>>

LightsLock ==
    /\ Thread("lock", "begin") /\ lights_mutex = "none"
    /\ lights_mutex' = "lights"
    /\ UNCHANGED <<mainVars, running, lights_auto, pictureVars, buf,
                   frame, history>>

\* Mutant: a frame of a 4x3xN picture begins at the row of the clock.
DrawBegin_Unaligned ==
    /\ pc = "begin"
    /\ \/ width = 4 /\ pc' = "drawRows" /\ frame' = frame % (height - 2)
       \/ width # 4 /\ pc' = "drawRow" /\ frame' = frame % height
    /\ y' = 0 /\ x' = 0
    /\ stale' = IF lights_auto THEN 0 ELSE IF stale < 2 THEN stale + 1 ELSE 2
    /\ painted' = FALSE
    /\ UNCHANGED <<mainVars, running, lights_auto, lights_mutex, width, height,
                   rows, buf, everOn>>

\* The row is reduced again to the picture there is now.
DrawBegin ==
    /\ pc = "begin"
    /\ \/ width = 4 /\ pc' = "drawRows" /\ frame' = (frame % (height \div 3)) * 3
       \/ width # 4 /\ pc' = "drawRow" /\ frame' = frame % height
    /\ y' = 0 /\ x' = 0
    /\ stale' = IF lights_auto THEN 0 ELSE IF stale < 2 THEN stale + 1 ELSE 2
    /\ painted' = FALSE
    /\ UNCHANGED <<mainVars, running, lights_auto, lights_mutex, width, height,
                   rows, buf, everOn>>

\* The loop over y: a row of its own for each band.
DrawRows ==
    /\ pc = "drawRows"
    /\ IF y < 3
       THEN buf' = [buf EXCEPT ![y] = Row(frame + y)] /\ y' = y + 1 /\ UNCHANGED pc
       ELSE pc' = "unlock" /\ UNCHANGED <<y, buf>>
    /\ UNCHANGED <<mainVars, running, lights_auto, lights_mutex, width, height,
                   rows, x, frame, history>>

\* Mutant: the loop over x ends a column early.
DrawRow_Short ==
    /\ pc = "drawRow"
    /\ IF x < 2
       THEN buf' = [buf EXCEPT ![x] = Row(frame)] /\ x' = x + 1 /\ UNCHANGED pc
       ELSE pc' = "unlock" /\ UNCHANGED <<x, buf>>
    /\ UNCHANGED <<mainVars, running, lights_auto, lights_mutex, width, height,
                   rows, y, frame, history>>

\* The loop over x: the same row for all pixels.
DrawRow ==
    /\ pc = "drawRow"
    /\ IF x < 3
       THEN buf' = [buf EXCEPT ![x] = Row(frame)] /\ x' = x + 1 /\ UNCHANGED pc
       ELSE pc' = "unlock" /\ UNCHANGED <<x, buf>>
    /\ UNCHANGED <<mainVars, running, lights_auto, lights_mutex, width, height,
                   rows, y, frame, history>>

LightsUnlock ==
    /\ Thread("unlock", "show")
    /\ lights_mutex' = "none"
    /\ UNCHANGED <<mainVars, running, lights_auto, pictureVars, buf,
                   frame, history>>

\* Mutant: the next frame is drawn without a look at lights_auto.
LightsShow_Again ==
    /\ pc = "show"
    /\ pc' = IF running /\ stale > 0 THEN "lock" ELSE "while"
    /\ UNCHANGED <<mainVars, running, lights_auto, lights_mutex, pictureVars,
                   buf, frame, history>>

\* lights_show, and 1/60 s later the next round.
LightsShow ==
    /\ Thread("show", "while")
    /\ UNCHANGED <<mainVars, running, lights_auto, lights_mutex, pictureVars,
                   buf, frame, history>>

-----------------------------------------------------------------------------
Init ==
    /\ phase = "chunk" /\ sub = "none" /\ arg = 0 /\ luaCalls = 0
    /\ running = FALSE
    /\ lights_auto = FALSE /\ lights_mutex = "none"
    /\ width = 0 /\ height = 0 /\ y = 0 /\ x = 0
    /\ rows = [picture |-> NoPicture, count |-> 0, read |-> "whole"]
    /\ buf = [b \in Bands |-> Dark]
    /\ pc = "none" /\ frame = 0
    /\ everOn = FALSE /\ stale = 0 /\ painted = FALSE

\* The steps that main makes in any case; the rest is up to the Lua code.
MainSteps ==
    \/ PaintBand
    \/ LoadLock
    \/ ReadHeader
    \/ AllocateRows
    \/ ReadImage
    \/ LoadDone
    \/ InitLights
    \/ CreateThread
    \/ MainWhile
    \/ HandlersReturn
    \/ Join

LightCalls ==
    \/ \E on \in BOOLEAN : AutoLights(on)
    \/ \E b \in Bands : Paint("pixel", b)
    \/ Paint("clear", 0)
    \/ \E p \in Pictures : LoadPattern(p)

LightsThread ==
    \/ LightsWhile
    \/ LightsDelta
    \/ LightsAuto
    \/ LightsLock
    \/ DrawBegin
    \/ DrawRows
    \/ DrawRow
    \/ LightsUnlock
    \/ LightsShow

Ended == phase = "joined" /\ UNCHANGED vars

Next ==
    \/ MainSteps
    \/ LightCalls
    \/ LightsThread
    \/ SigInt
    \/ Ended

\* Both threads are scheduled; Lua code makes finitely many calls a round.
Spec ==
    /\ Init /\ [][Next]_vars
    /\ WF_vars(MainSteps \/ LightCalls)
    /\ WF_vars(LightsThread)

-----------------------------------------------------------------------------
(* Properties *)

Reading == {"reading", "whole", "failed"}
Shows == [picture : Pictures \cup {"dark", "lua"}, row : Nat, read : Reading]

\* Each variable has its type; x counts the three bands and no more.
TypeOK ==
    /\ phase \in {"chunk", "init", "setup", "while", "body", "join", "joined"}
    /\ sub \in {"none", "pixel", "clear", "lock", "header", "rows", "image", "unlock"}
    /\ arg \in IF sub \in {"none", "pixel", "clear"} THEN Bands ELSE Pictures
    /\ luaCalls \in 0..MaxLuaCalls
    /\ running \in BOOLEAN /\ lights_auto \in BOOLEAN
    /\ lights_mutex \in {"main", "lights", "none"}
    /\ width \in Nat /\ height \in Nat /\ y \in Nat /\ x \in 0..3
    /\ rows \in [picture : Pictures \cup {NoPicture}, count : Nat, read : Reading]
    /\ buf \in [Bands -> Shows]
    /\ pc \in {"none", "while", "delta", "auto", "lock", "begin", "drawRows",
               "drawRow", "unlock", "show", "done"}
    /\ frame \in Nat
    /\ everOn \in BOOLEAN /\ stale \in 0..2 /\ painted \in BOOLEAN

Drawing == pc \in {"begin", "drawRows", "drawRow", "unlock"}
Loading == sub \in {"header", "rows", "image", "unlock"} /\ phase # "init"

(***************************************************************************)
(* The mutex is held exactly where a picture is drawn or loaded, so that   *)
(* both never happen at once, and no way out of a call leaves it locked.   *)
(***************************************************************************)
LockHeld ==
    /\ ~(Drawing /\ Loading)
    /\ lights_mutex = IF Drawing THEN "lights" ELSE IF Loading THEN "main" ELSE "none"

(***************************************************************************)
(* The lights thread divides by a number of rows that is not zero          *)
(* (keybow.c:90, lights.c:137, 154) and follows row_pointers only inside   *)
(* the array there is, although it chose the row without the mutex and the *)
(* picture may have been replaced by a smaller one since.                  *)
(***************************************************************************)
RowInBounds ==
    /\ pc = "delta" => height > 0
    /\ pc = "begin" => IF width = 4 THEN height \div 3 > 0 ELSE height > 0
    /\ pc = "drawRow" => frame < rows.count
    /\ (pc = "drawRows" /\ y < 3) => frame + y < rows.count

(***************************************************************************)
(* What the thread has drawn when it gives the mutex back is one frame of  *)
(* the one picture that was loaded last, unless Lua painted over it        *)
(* meanwhile: no frame is put together from two pictures or two loads or   *)
(* out of step by a row, and none is drawn while its rows are being read.  *)
(* Rows that nobody has read are drawn only where png_read_image has       *)
(* failed.                                                                 *)
(***************************************************************************)
FrameCoherent ==
    (pc = "unlock" /\ ~painted)
        => /\ rows.read # "reading"
           /\ \E r \in 0..(rows.count - 1) :
                IF width = 4
                THEN r % 3 = 0 /\ \A b \in Bands : buf[b] = Row(r + b)
                ELSE \A b \in Bands : buf[b] = Row(r)

(***************************************************************************)
(* A setup that switches the automatic lights off keeps what it painted:   *)
(* no picture shows until Lua code switches them on again.                 *)
(***************************************************************************)
SetupLightsStick ==
    (pc # "none" /\ ~everOn)
        => \A b \in Bands : buf[b].picture \in {"dark", "lua"}

(***************************************************************************)
(* lights_auto is read before the mutex is taken, and the wait may be      *)
(* long: after Lua switched the lights off at most one more frame is drawn *)
(* over what it paints.                                                    *)
(***************************************************************************)
AtMostOneStaleFrame == stale <= 1

\* SIGINT ends both threads, whatever Lua code and the mutex were doing.
ShutdownJoins == (pc # "none" /\ ~running) ~> phase = "joined"

(***************************************************************************)
(* When Lua code has loaded a picture and then leaves the lights alone,    *)
(* the picture ends up on all keys and stays.                              *)
(***************************************************************************)
PatternIsShown ==
    \A p \in Pictures :
        <>[](running /\ lights_auto /\ sub = "none" /\ rows.picture = p)
            => <>[](\A b \in Bands : buf[b].picture = p)

=============================================================================
