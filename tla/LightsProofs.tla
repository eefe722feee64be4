---------------------------- MODULE LightsProofs ----------------------------
(***************************************************************************)
(* Proofs about Lights, for any pictures that have a frame.                *)
(*                                                                         *)
(* LightsInv is inductive.  Its parts: where main and the thread are       *)
(* relative to each other (Places), the types (TypeOK), the owner of the    *)
(* mutex (LockHeld), that the globals describe the rows there are whenever no load *)
(* is under way (PictureInv), what a frame in the making consists of       *)
(* (FrameInv), and what lights_auto means for the thread (AutoInv).        *)
(***************************************************************************)
EXTENDS Lights, TLAPS

\* The thread exists from the end of setup; main makes light calls from Lua
\* code and, in phase "init", is always inside read_png_file.
Places ==
    /\ pc = "none" <=> phase \in {"chunk", "init", "setup"}
    /\ sub # "none" => phase \in {"chunk", "init", "setup", "body"}
    /\ phase = "init" => sub \in {"header", "rows", "image", "unlock"}

HasFrame == height > 0 /\ (width = 4 => height >= 3)

PictureInv ==
    /\ sub # "rows" => rows.count = height
    /\ sub # "image" => rows.read # "reading"
    /\ rows.count > 0 => rows.picture \in Pictures
    /\ sub \in {"rows", "image"} => HasFrame
    /\ phase \notin {"chunk", "init"} => HasFrame
    /\ (phase = "init" /\ sub = "unlock") => HasFrame

FrameInv ==
    /\ pc = "drawRows" => width = 4 /\ frame % 3 = 0 /\ frame + 2 < height
    /\ pc = "drawRow" => width # 4 /\ frame < height
    /\ (pc = "drawRows" /\ ~painted) => \A b \in Bands : b < y => buf[b] = Row(frame + b)
    /\ (pc = "drawRow" /\ ~painted) => \A b \in Bands : b < x => buf[b] = Row(frame)

NoPictureShown == \A b \in Bands : buf[b].picture \in {"dark", "lua"}

AutoInv ==
    /\ pc = "none" => NoPictureShown /\ stale = 0 /\ ~everOn
    /\ (pc # "none" /\ ~everOn) => ~lights_auto
    /\ (pc # "none" /\ ~everOn) => pc \in {"while", "delta", "auto", "show", "done"}
    /\ lights_auto => stale = 0
    /\ pc \in {"lock", "begin"} => stale = 0

LightsInv ==
    /\ TypeOK
    /\ Places
    /\ LockHeld
    /\ PictureInv
    /\ FrameInv
    /\ FrameCoherent
    /\ AutoInv
    /\ SetupLightsStick
    /\ AtMostOneStaleFrame

-----------------------------------------------------------------------------
(* Arithmetic of frames *)

LEMMA ModRange == ASSUME NEW a \in Nat, NEW q \in Nat \ {0}
                  PROVE  a % q \in 0..(q - 1)
BY SMT

\* The first of the three rows of a frame, and the two after it, exist.
LEMMA FrameFits ==
    ASSUME NEW f \in Nat, NEW h \in Nat, h >= 3
    PROVE  LET r == (f % (h \div 3)) * 3
           IN  r \in Nat /\ r % 3 = 0 /\ r + 2 < h
<1> DEFINE q == h \div 3
           m == f % q
<1>1. q \in Nat \ {0} /\ 3 * q <= h
  BY SMT
<1>2. m \in 0..(q - 1)
  BY <1>1, ModRange
<1> HIDE DEF m, q
<1>3. m * 3 \in Nat /\ (m * 3) % 3 = 0 /\ m * 3 + 2 < h
  BY <1>1, <1>2, SMT
<1>4. QED
  BY <1>3 DEF m, q

-----------------------------------------------------------------------------
\* Main and the thread keep in step.
LEMMA PlacesStep == Places /\ [Next]_vars => Places'
<1> SUFFICES ASSUME Places, [Next]_vars PROVE Places'
  OBVIOUS
<1> USE DEF Places, mainVars, pictureVars, threadVars, history
<1>1. CASE PaintBand
  BY <1>1 DEF PaintBand
<1>2. CASE LoadLock
  BY <1>2 DEF LoadLock
<1>3. CASE ReadHeader
  BY <1>3 DEF ReadHeader
<1>4. CASE AllocateRows
  BY <1>4 DEF AllocateRows
<1>5. CASE ReadImage
  BY <1>5 DEF ReadImage
<1>6. CASE LoadDone
  BY <1>6 DEF LoadDone
<1>7. CASE InitLights
  BY <1>7 DEF InitLights
<1>8. CASE CreateThread
  BY <1>8 DEF CreateThread
<1>9. CASE MainWhile
  BY <1>9 DEF MainWhile
<1>10. CASE HandlersReturn
  BY <1>10 DEF HandlersReturn
<1>11. CASE Join
  BY <1>11 DEF Join
<1>12. ASSUME NEW on \in BOOLEAN, AutoLights(on) PROVE Places'
  BY <1>12 DEF AutoLights, LuaRuns, CountCall
<1>13. ASSUME NEW b \in Bands, Paint("pixel", b) PROVE Places'
  BY <1>13 DEF Paint, LuaRuns, CountCall
<1>14. CASE Paint("clear", 0)
  BY <1>14 DEF Paint, LuaRuns, CountCall
<1>15. ASSUME NEW p \in Pictures, LoadPattern(p) PROVE Places'
  BY <1>15 DEF LoadPattern, LuaRuns, CountCall
<1>16. CASE LightsWhile
  BY <1>16 DEF LightsWhile
<1>17. CASE LightsDelta
  BY <1>17 DEF LightsDelta, Thread
<1>18. CASE LightsAuto
  BY <1>18 DEF LightsAuto
<1>19. CASE LightsLock
  BY <1>19 DEF LightsLock, Thread
<1>20. CASE DrawBegin
  BY <1>20 DEF DrawBegin
<1>21. CASE DrawRows
  BY <1>21 DEF DrawRows
<1>22. CASE DrawRow
  BY <1>22 DEF DrawRow
<1>23. CASE LightsUnlock
  BY <1>23 DEF LightsUnlock, Thread
<1>24. CASE LightsShow
  BY <1>24 DEF LightsShow, Thread
<1>25. CASE SigInt
  BY <1>25 DEF SigInt
<1>26. CASE Ended \/ UNCHANGED vars
  BY <1>26 DEF Ended, vars
<1>27. QED
  BY <1>1, <1>2, <1>3, <1>4, <1>5, <1>6, <1>7, <1>8, <1>9,
     <1>10, <1>11, <1>12, <1>13, <1>14, <1>15, <1>16, <1>17, <1>18,
     <1>19, <1>20, <1>21, <1>22, <1>23, <1>24, <1>25, <1>26
  DEF Next, MainSteps, LightCalls, LightsThread

\* Each step keeps the types.
LEMMA TypeStep == TypeOK /\ Places /\ LockHeld /\ PictureInv /\ [Next]_vars => TypeOK'
<1> SUFFICES ASSUME TypeOK /\ Places /\ LockHeld /\ PictureInv, [Next]_vars PROVE TypeOK'
  OBVIOUS
<1> USE DEF TypeOK, mainVars, pictureVars, threadVars, history
<1> DEFINE Flags == /\ running \in BOOLEAN /\ lights_auto \in BOOLEAN
                    /\ everOn \in BOOLEAN /\ painted \in BOOLEAN
           Others ==
             /\ phase \in {"chunk", "init", "setup", "while", "body", "join", "joined"}
             /\ sub \in {"none", "pixel", "clear", "lock", "header", "rows", "image", "unlock"}
             /\ arg \in IF sub \in {"none", "pixel", "clear"} THEN Bands ELSE Pictures
             /\ luaCalls \in 0..MaxLuaCalls
             /\ lights_mutex \in {"main", "lights", "none"}
             /\ width \in Nat /\ height \in Nat /\ y \in Nat /\ x \in 0..3
             /\ rows \in [picture : Pictures \cup {NoPicture}, count : Nat, read : Reading]
             /\ buf \in [Bands -> Shows]
             /\ pc \in {"none", "while", "delta", "auto", "lock", "begin", "drawRows",
                       "drawRow", "unlock", "show", "done"}
             /\ frame \in Nat /\ stale \in 0..2
<1>0. MaxLuaCalls \in Nat
  BY PictureAssumption
<1> USE <1>0
<1>1. CASE PaintBand
  <2>1. Lua \in Shows
    BY DEF Lua, Shows, Reading
  <2>2. QED
    BY <1>1, <2>1 DEF PaintBand, Bands
<1>2. CASE LoadLock
  BY <1>2 DEF LoadLock
<1>3. CASE ReadHeader
  BY <1>3, PictureAssumption DEF ReadHeader, Bands
<1>4. CASE AllocateRows
  BY <1>4 DEF AllocateRows, Reading
<1>5. CASE ReadImage
  BY <1>5 DEF ReadImage, Reading
<1>6. CASE LoadDone
  <2>1. Flags'
    BY <1>6 DEF LoadDone
  <2>2. Others'
    BY <1>6 DEF LoadDone, Bands
  <2>3. QED
    BY <2>1, <2>2 DEF TypeOK
<1>7. CASE InitLights
  <2>1. Dark \in Shows
    BY DEF Dark, Shows, Reading
  <2>2. QED
    BY <1>7, <2>1, PictureAssumption DEF InitLights
<1>8. CASE CreateThread
  <2>1. Flags'
    BY <1>8 DEF CreateThread
  <2>2. Others'
    BY <1>8 DEF CreateThread
  <2>3. QED
    BY <2>1, <2>2 DEF TypeOK
<1>9. CASE MainWhile
  BY <1>9 DEF MainWhile
<1>10. CASE HandlersReturn
  BY <1>10 DEF HandlersReturn
<1>11. CASE Join
  BY <1>11 DEF Join
<1>12. ASSUME NEW on \in BOOLEAN, AutoLights(on) PROVE TypeOK'
  BY <1>12 DEF AutoLights, LuaRuns, CountCall
<1>13. ASSUME NEW b \in Bands, Paint("pixel", b) PROVE TypeOK'
  BY <1>13, PictureAssumption DEF Paint, LuaRuns, CountCall, Bands
<1>14. CASE Paint("clear", 0)
  BY <1>14, PictureAssumption DEF Paint, LuaRuns, CountCall, Bands
<1>15. ASSUME NEW p \in Pictures, LoadPattern(p) PROVE TypeOK'
  BY <1>15 DEF LoadPattern, LuaRuns, CountCall
<1>16. CASE LightsWhile
  BY <1>16 DEF LightsWhile
<1>17. CASE LightsDelta
  BY <1>17, PictureAssumption DEF LightsDelta, Thread, PictureInv, HasFrame, Places
<1>18. CASE LightsAuto
  BY <1>18 DEF LightsAuto
<1>19. CASE LightsLock
  BY <1>19 DEF LightsLock, Thread
<1>20. CASE DrawBegin
  <2>1. height \in Nat /\ height > 0 /\ (width = 4 => height >= 3)
    BY <1>20 DEF DrawBegin, PictureInv, HasFrame, Places
  <2>2. width = 4 => frame' \in Nat
    <3>1. CASE width = 4
      BY <1>20, <2>1, <3>1, FrameFits DEF DrawBegin
    <3>2. QED
      BY <3>1
  <2>3. width # 4 => frame' \in Nat
    BY <1>20, <2>1, ModRange DEF DrawBegin
  <2>4. pc' \in {"drawRows", "drawRow"} /\ frame' \in Nat
    BY <1>20, <2>2, <2>3 DEF DrawBegin
  <2>5. Flags'
    BY <1>20 DEF DrawBegin
  <2>6. Others'
    BY <1>20, <2>4 DEF DrawBegin
  <2>7. QED
    BY <2>5, <2>6 DEF TypeOK
<1>21. CASE DrawRows
  <2>1. rows.picture \in Pictures /\ (frame + y) \in Nat
    BY <1>21 DEF DrawRows, PictureInv, HasFrame, Places, LockHeld, Drawing, Loading
  <2>2. Row((frame + y)) \in Shows
    BY <2>1 DEF Row, Shows
  <2>3. buf' \in [Bands -> Shows]
    BY <1>21, <2>2 DEF DrawRows, Bands
  <2>4. x' \in 0..3 /\ y' \in Nat
    BY <1>21 DEF DrawRows
  <2>5. QED
    BY <1>21, <2>3, <2>4 DEF DrawRows
<1>22. CASE DrawRow
  <2>1. rows.picture \in Pictures /\ frame \in Nat
    BY <1>22 DEF DrawRow, PictureInv, HasFrame, Places, LockHeld, Drawing, Loading
  <2>2. Row(frame) \in Shows
    BY <2>1 DEF Row, Shows
  <2>3. buf' \in [Bands -> Shows]
    BY <1>22, <2>2 DEF DrawRow, Bands
  <2>4. x' \in 0..3 /\ y' \in Nat
    BY <1>22 DEF DrawRow
  <2>5. QED
    BY <1>22, <2>3, <2>4 DEF DrawRow
<1>23. CASE LightsUnlock
  BY <1>23 DEF LightsUnlock, Thread
<1>24. CASE LightsShow
  BY <1>24 DEF LightsShow, Thread
<1>25. CASE SigInt
  <2>1. Flags'
    BY <1>25 DEF SigInt
  <2>2. Others'
    BY <1>25 DEF SigInt
  <2>3. QED
    BY <2>1, <2>2 DEF TypeOK
<1>26. CASE Ended \/ UNCHANGED vars
  BY <1>26 DEF Ended, vars
<1>27. QED
  BY <1>1, <1>2, <1>3, <1>4, <1>5, <1>6, <1>7, <1>8, <1>9,
     <1>10, <1>11, <1>12, <1>13, <1>14, <1>15, <1>16, <1>17, <1>18,
     <1>19, <1>20, <1>21, <1>22, <1>23, <1>24, <1>25, <1>26
  DEF Next, MainSteps, LightCalls, LightsThread

\* main holds the mutex from LoadLock to LoadDone, the thread from LightsLock
\* to LightsUnlock.
LEMMA LockStep == Places /\ LockHeld /\ [Next]_vars => LockHeld'
<1> SUFFICES ASSUME Places /\ LockHeld, [Next]_vars PROVE LockHeld'
  OBVIOUS
<1> USE DEF LockHeld, Drawing, Loading, Places, mainVars, pictureVars, threadVars, history
<1>1. CASE PaintBand
  BY <1>1 DEF PaintBand
<1>2. CASE LoadLock
  BY <1>2 DEF LoadLock
<1>3. CASE ReadHeader
  BY <1>3 DEF ReadHeader
<1>4. CASE AllocateRows
  BY <1>4 DEF AllocateRows
<1>5. CASE ReadImage
  BY <1>5 DEF ReadImage
<1>6. CASE LoadDone
  BY <1>6 DEF LoadDone
<1>7. CASE InitLights
  BY <1>7 DEF InitLights
<1>8. CASE CreateThread
  BY <1>8 DEF CreateThread
<1>9. CASE MainWhile
  BY <1>9 DEF MainWhile
<1>10. CASE HandlersReturn
  BY <1>10 DEF HandlersReturn
<1>11. CASE Join
  BY <1>11 DEF Join
<1>12. ASSUME NEW on \in BOOLEAN, AutoLights(on) PROVE LockHeld'
  BY <1>12 DEF AutoLights, LuaRuns, CountCall
<1>13. ASSUME NEW b \in Bands, Paint("pixel", b) PROVE LockHeld'
  BY <1>13 DEF Paint, LuaRuns, CountCall
<1>14. CASE Paint("clear", 0)
  BY <1>14 DEF Paint, LuaRuns, CountCall
<1>15. ASSUME NEW p \in Pictures, LoadPattern(p) PROVE LockHeld'
  BY <1>15 DEF LoadPattern, LuaRuns, CountCall
<1>16. CASE LightsWhile
  BY <1>16 DEF LightsWhile
<1>17. CASE LightsDelta
  BY <1>17 DEF LightsDelta, Thread
<1>18. CASE LightsAuto
  BY <1>18 DEF LightsAuto
<1>19. CASE LightsLock
  BY <1>19 DEF LightsLock, Thread
<1>20. CASE DrawBegin
  BY <1>20 DEF DrawBegin
<1>21. CASE DrawRows
  BY <1>21 DEF DrawRows
<1>22. CASE DrawRow
  BY <1>22 DEF DrawRow
<1>23. CASE LightsUnlock
  BY <1>23 DEF LightsUnlock, Thread
<1>24. CASE LightsShow
  BY <1>24 DEF LightsShow, Thread
<1>25. CASE SigInt
  BY <1>25 DEF SigInt
<1>26. CASE Ended \/ UNCHANGED vars
  BY <1>26 DEF Ended, vars
<1>27. QED
  BY <1>1, <1>2, <1>3, <1>4, <1>5, <1>6, <1>7, <1>8, <1>9,
     <1>10, <1>11, <1>12, <1>13, <1>14, <1>15, <1>16, <1>17, <1>18,
     <1>19, <1>20, <1>21, <1>22, <1>23, <1>24, <1>25, <1>26
  DEF Next, MainSteps, LightCalls, LightsThread

\* width, height and rows change only inside a load.
LEMMA PictureStep == TypeOK /\ Places /\ PictureInv /\ [Next]_vars => PictureInv'
<1> SUFFICES ASSUME TypeOK /\ Places /\ PictureInv, [Next]_vars PROVE PictureInv'
  OBVIOUS
<1> USE PictureAssumption DEF PictureInv, HasFrame, TypeOK, Places, mainVars, pictureVars, threadVars, history
<1>1. CASE PaintBand
  BY <1>1 DEF PaintBand
<1>2. CASE LoadLock
  BY <1>2 DEF LoadLock
<1>3. CASE ReadHeader
  BY <1>3 DEF ReadHeader
<1>4. CASE AllocateRows
  BY <1>4 DEF AllocateRows
<1>5. CASE ReadImage
  BY <1>5 DEF ReadImage
<1>6. CASE LoadDone
  BY <1>6 DEF LoadDone
<1>7. CASE InitLights
  BY <1>7 DEF InitLights
<1>8. CASE CreateThread
  BY <1>8 DEF CreateThread
<1>9. CASE MainWhile
  BY <1>9 DEF MainWhile
<1>10. CASE HandlersReturn
  BY <1>10 DEF HandlersReturn
<1>11. CASE Join
  BY <1>11 DEF Join
<1>12. ASSUME NEW on \in BOOLEAN, AutoLights(on) PROVE PictureInv'
  BY <1>12 DEF AutoLights, LuaRuns, CountCall
<1>13. ASSUME NEW b \in Bands, Paint("pixel", b) PROVE PictureInv'
  BY <1>13 DEF Paint, LuaRuns, CountCall
<1>14. CASE Paint("clear", 0)
  BY <1>14 DEF Paint, LuaRuns, CountCall
<1>15. ASSUME NEW p \in Pictures, LoadPattern(p) PROVE PictureInv'
  BY <1>15 DEF LoadPattern, LuaRuns, CountCall
<1>16. CASE LightsWhile
  BY <1>16 DEF LightsWhile
<1>17. CASE LightsDelta
  BY <1>17 DEF LightsDelta, Thread
<1>18. CASE LightsAuto
  BY <1>18 DEF LightsAuto
<1>19. CASE LightsLock
  BY <1>19 DEF LightsLock, Thread
<1>20. CASE DrawBegin
  BY <1>20 DEF DrawBegin
<1>21. CASE DrawRows
  BY <1>21 DEF DrawRows
<1>22. CASE DrawRow
  BY <1>22 DEF DrawRow
<1>23. CASE LightsUnlock
  BY <1>23 DEF LightsUnlock, Thread
<1>24. CASE LightsShow
  BY <1>24 DEF LightsShow, Thread
<1>25. CASE SigInt
  BY <1>25 DEF SigInt
<1>26. CASE Ended \/ UNCHANGED vars
  BY <1>26 DEF Ended, vars
<1>27. QED
  BY <1>1, <1>2, <1>3, <1>4, <1>5, <1>6, <1>7, <1>8, <1>9,
     <1>10, <1>11, <1>12, <1>13, <1>14, <1>15, <1>16, <1>17, <1>18,
     <1>19, <1>20, <1>21, <1>22, <1>23, <1>24, <1>25, <1>26
  DEF Next, MainSteps, LightCalls, LightsThread

\* A frame in the making: the picture stays, and each band drawn has its row.
LEMMA FrameStep == TypeOK /\ Places /\ LockHeld /\ PictureInv /\ FrameInv /\ [Next]_vars => FrameInv'
<1> SUFFICES ASSUME TypeOK /\ Places /\ LockHeld /\ PictureInv /\ FrameInv, [Next]_vars PROVE FrameInv'
  OBVIOUS
<1> USE DEF FrameInv, HasFrame, PictureInv, TypeOK, Places, Bands, Row, mainVars, pictureVars, threadVars, history
<1>1. CASE PaintBand
  BY <1>1 DEF PaintBand
<1>2. CASE LoadLock
  BY <1>2 DEF LoadLock
<1>3. CASE ReadHeader
  <2>1. pc \notin {"begin", "drawRows", "drawRow", "unlock"}
    BY <1>3 DEF ReadHeader, LockHeld, Drawing, Loading
  <2>2. QED
    BY <1>3, <2>1 DEF ReadHeader
<1>4. CASE AllocateRows
  <2>1. pc \notin {"begin", "drawRows", "drawRow", "unlock"}
    BY <1>4 DEF AllocateRows, LockHeld, Drawing, Loading
  <2>2. QED
    BY <1>4, <2>1 DEF AllocateRows
<1>5. CASE ReadImage
  <2>1. pc \notin {"begin", "drawRows", "drawRow", "unlock"}
    BY <1>5 DEF ReadImage, LockHeld, Drawing, Loading
  <2>2. QED
    BY <1>5, <2>1 DEF ReadImage
<1>6. CASE LoadDone
  BY <1>6 DEF LoadDone
<1>7. CASE InitLights
  BY <1>7 DEF InitLights
<1>8. CASE CreateThread
  BY <1>8 DEF CreateThread
<1>9. CASE MainWhile
  BY <1>9 DEF MainWhile
<1>10. CASE HandlersReturn
  BY <1>10 DEF HandlersReturn
<1>11. CASE Join
  BY <1>11 DEF Join
<1>12. ASSUME NEW on \in BOOLEAN, AutoLights(on) PROVE FrameInv'
  BY <1>12 DEF AutoLights, LuaRuns, CountCall
<1>13. ASSUME NEW b \in Bands, Paint("pixel", b) PROVE FrameInv'
  BY <1>13 DEF Paint, LuaRuns, CountCall
<1>14. CASE Paint("clear", 0)
  BY <1>14 DEF Paint, LuaRuns, CountCall
<1>15. ASSUME NEW p \in Pictures, LoadPattern(p) PROVE FrameInv'
  BY <1>15 DEF LoadPattern, LuaRuns, CountCall
<1>16. CASE LightsWhile
  BY <1>16 DEF LightsWhile
<1>17. CASE LightsDelta
  BY <1>17 DEF LightsDelta, Thread
<1>18. CASE LightsAuto
  BY <1>18 DEF LightsAuto
<1>19. CASE LightsLock
  BY <1>19 DEF LightsLock, Thread
<1>20. CASE DrawBegin
  BY <1>20 DEF DrawBegin
<1>21. CASE DrawRows
  BY <1>21 DEF DrawRows
<1>22. CASE DrawRow
  BY <1>22 DEF DrawRow
<1>23. CASE LightsUnlock
  BY <1>23 DEF LightsUnlock, Thread
<1>24. CASE LightsShow
  BY <1>24 DEF LightsShow, Thread
<1>25. CASE SigInt
  BY <1>25 DEF SigInt
<1>26. CASE Ended \/ UNCHANGED vars
  BY <1>26 DEF Ended, vars
<1>27. QED
  BY <1>1, <1>2, <1>3, <1>4, <1>5, <1>6, <1>7, <1>8, <1>9,
     <1>10, <1>11, <1>12, <1>13, <1>14, <1>15, <1>16, <1>17, <1>18,
     <1>19, <1>20, <1>21, <1>22, <1>23, <1>24, <1>25, <1>26
  DEF Next, MainSteps, LightCalls, LightsThread

\* The finished frame.
LEMMA CoherentStep == TypeOK /\ Places /\ LockHeld /\ PictureInv /\ FrameInv /\ FrameCoherent /\ [Next]_vars => FrameCoherent'
<1> SUFFICES ASSUME TypeOK /\ Places /\ LockHeld /\ PictureInv /\ FrameInv /\ FrameCoherent, [Next]_vars PROVE FrameCoherent'
  OBVIOUS
<1> USE DEF FrameCoherent, Bands, Row, mainVars, pictureVars, threadVars, history
<1>1. CASE PaintBand
  BY <1>1 DEF PaintBand
<1>2. CASE LoadLock
  BY <1>2 DEF LoadLock
<1>3. CASE ReadHeader
  <2>1. pc # "unlock"
    BY <1>3 DEF ReadHeader, Places, LockHeld, Drawing, Loading
  <2>2. QED
    BY <1>3, <2>1 DEF ReadHeader
<1>4. CASE AllocateRows
  <2>1. pc # "unlock"
    BY <1>4 DEF AllocateRows, Places, LockHeld, Drawing, Loading
  <2>2. QED
    BY <1>4, <2>1 DEF AllocateRows
<1>5. CASE ReadImage
  <2>1. pc # "unlock"
    BY <1>5 DEF ReadImage, Places, LockHeld, Drawing, Loading
  <2>2. QED
    BY <1>5, <2>1 DEF ReadImage
<1>6. CASE LoadDone
  BY <1>6 DEF LoadDone
<1>7. CASE InitLights
  BY <1>7 DEF InitLights, Places
<1>8. CASE CreateThread
  BY <1>8 DEF CreateThread, Places
<1>9. CASE MainWhile
  BY <1>9 DEF MainWhile
<1>10. CASE HandlersReturn
  BY <1>10 DEF HandlersReturn
<1>11. CASE Join
  BY <1>11 DEF Join
<1>12. ASSUME NEW on \in BOOLEAN, AutoLights(on) PROVE FrameCoherent'
  BY <1>12 DEF AutoLights, LuaRuns, CountCall
<1>13. ASSUME NEW b \in Bands, Paint("pixel", b) PROVE FrameCoherent'
  BY <1>13 DEF Paint, LuaRuns, CountCall
<1>14. CASE Paint("clear", 0)
  BY <1>14 DEF Paint, LuaRuns, CountCall
<1>15. ASSUME NEW p \in Pictures, LoadPattern(p) PROVE FrameCoherent'
  BY <1>15 DEF LoadPattern, LuaRuns, CountCall
<1>16. CASE LightsWhile
  BY <1>16 DEF LightsWhile
<1>17. CASE LightsDelta
  BY <1>17 DEF LightsDelta, Thread
<1>18. CASE LightsAuto
  BY <1>18 DEF LightsAuto
<1>19. CASE LightsLock
  BY <1>19 DEF LightsLock, Thread
<1>20. CASE DrawBegin
  BY <1>20 DEF DrawBegin
<1>21. CASE DrawRows
  <2>1. pc' = "unlock" => \A b \in Bands : b < y
    BY <1>21 DEF DrawRows, TypeOK
  <2>2. frame \in 0..(rows.count - 1) /\ rows.read # "reading"
    BY <1>21 DEF DrawRows, TypeOK, Places, LockHeld, Drawing, Loading, PictureInv, FrameInv
  <2>3. UNCHANGED <<rows, width>> /\ (pc' = "unlock" => UNCHANGED buf)
    BY <1>21 DEF DrawRows
  <2>4. CASE pc' = "unlock" /\ ~painted
    BY <1>21, <2>1, <2>2, <2>3, <2>4 DEF DrawRows, FrameInv
  <2>5. CASE ~(pc' = "unlock" /\ ~painted)
    BY <1>21, <2>5 DEF DrawRows
  <2>6. QED
    BY <2>4, <2>5
<1>22. CASE DrawRow
  <2>1. pc' = "unlock" => \A b \in Bands : b < x
    BY <1>22 DEF DrawRow, TypeOK
  <2>2. frame \in 0..(rows.count - 1) /\ rows.read # "reading"
    BY <1>22 DEF DrawRow, TypeOK, Places, LockHeld, Drawing, Loading, PictureInv, FrameInv
  <2>3. UNCHANGED <<rows, width>> /\ (pc' = "unlock" => UNCHANGED buf)
    BY <1>22 DEF DrawRow
  <2>4. CASE pc' = "unlock" /\ ~painted
    BY <1>22, <2>1, <2>2, <2>3, <2>4 DEF DrawRow, FrameInv
  <2>5. CASE ~(pc' = "unlock" /\ ~painted)
    BY <1>22, <2>5 DEF DrawRow
  <2>6. QED
    BY <2>4, <2>5
<1>23. CASE LightsUnlock
  BY <1>23 DEF LightsUnlock, Thread
<1>24. CASE LightsShow
  BY <1>24 DEF LightsShow, Thread
<1>25. CASE SigInt
  BY <1>25 DEF SigInt
<1>26. CASE Ended \/ UNCHANGED vars
  BY <1>26 DEF Ended, vars
<1>27. QED
  BY <1>1, <1>2, <1>3, <1>4, <1>5, <1>6, <1>7, <1>8, <1>9,
     <1>10, <1>11, <1>12, <1>13, <1>14, <1>15, <1>16, <1>17, <1>18,
     <1>19, <1>20, <1>21, <1>22, <1>23, <1>24, <1>25, <1>26
  DEF Next, MainSteps, LightCalls, LightsThread

\* lights_auto and what the thread does with it.
LEMMA AutoStep == TypeOK /\ Places /\ AutoInv /\ [Next]_vars => AutoInv'
<1> SUFFICES ASSUME TypeOK /\ Places /\ AutoInv, [Next]_vars PROVE AutoInv'
  OBVIOUS
<1> USE DEF AutoInv, NoPictureShown, TypeOK, Places, Bands, Dark, Lua, mainVars, pictureVars, threadVars, history
<1>1. CASE PaintBand
  BY <1>1 DEF PaintBand
<1>2. CASE LoadLock
  BY <1>2 DEF LoadLock
<1>3. CASE ReadHeader
  BY <1>3 DEF ReadHeader
<1>4. CASE AllocateRows
  BY <1>4 DEF AllocateRows
<1>5. CASE ReadImage
  BY <1>5 DEF ReadImage
<1>6. CASE LoadDone
  BY <1>6 DEF LoadDone
<1>7. CASE InitLights
  BY <1>7 DEF InitLights
<1>8. CASE CreateThread
  BY <1>8 DEF CreateThread
<1>9. CASE MainWhile
  BY <1>9 DEF MainWhile
<1>10. CASE HandlersReturn
  BY <1>10 DEF HandlersReturn
<1>11. CASE Join
  BY <1>11 DEF Join
<1>12. ASSUME NEW on \in BOOLEAN, AutoLights(on) PROVE AutoInv'
  BY <1>12 DEF AutoLights, LuaRuns, CountCall
<1>13. ASSUME NEW b \in Bands, Paint("pixel", b) PROVE AutoInv'
  BY <1>13 DEF Paint, LuaRuns, CountCall
<1>14. CASE Paint("clear", 0)
  BY <1>14 DEF Paint, LuaRuns, CountCall
<1>15. ASSUME NEW p \in Pictures, LoadPattern(p) PROVE AutoInv'
  BY <1>15 DEF LoadPattern, LuaRuns, CountCall
<1>16. CASE LightsWhile
  BY <1>16 DEF LightsWhile
<1>17. CASE LightsDelta
  BY <1>17 DEF LightsDelta, Thread
<1>18. CASE LightsAuto
  BY <1>18 DEF LightsAuto
<1>19. CASE LightsLock
  BY <1>19 DEF LightsLock, Thread
<1>20. CASE DrawBegin
  BY <1>20 DEF DrawBegin
<1>21. CASE DrawRows
  BY <1>21 DEF DrawRows
<1>22. CASE DrawRow
  BY <1>22 DEF DrawRow
<1>23. CASE LightsUnlock
  BY <1>23 DEF LightsUnlock, Thread
<1>24. CASE LightsShow
  BY <1>24 DEF LightsShow, Thread
<1>25. CASE SigInt
  BY <1>25 DEF SigInt
<1>26. CASE Ended \/ UNCHANGED vars
  BY <1>26 DEF Ended, vars
<1>27. QED
  BY <1>1, <1>2, <1>3, <1>4, <1>5, <1>6, <1>7, <1>8, <1>9,
     <1>10, <1>11, <1>12, <1>13, <1>14, <1>15, <1>16, <1>17, <1>18,
     <1>19, <1>20, <1>21, <1>22, <1>23, <1>24, <1>25, <1>26
  DEF Next, MainSteps, LightCalls, LightsThread

\* What is painted stays as long as the lights were never on.
LEMMA StickStep == TypeOK /\ Places /\ AutoInv /\ SetupLightsStick /\ [Next]_vars => SetupLightsStick'
<1> SUFFICES ASSUME TypeOK /\ Places /\ AutoInv /\ SetupLightsStick, [Next]_vars PROVE SetupLightsStick'
  OBVIOUS
<1> USE DEF SetupLightsStick, AutoInv, NoPictureShown, TypeOK, Places, Bands, Dark, Lua, mainVars, pictureVars, threadVars, history
<1>1. CASE PaintBand
  BY <1>1 DEF PaintBand
<1>2. CASE LoadLock
  BY <1>2 DEF LoadLock
<1>3. CASE ReadHeader
  BY <1>3 DEF ReadHeader
<1>4. CASE AllocateRows
  BY <1>4 DEF AllocateRows
<1>5. CASE ReadImage
  BY <1>5 DEF ReadImage
<1>6. CASE LoadDone
  BY <1>6 DEF LoadDone
<1>7. CASE InitLights
  BY <1>7 DEF InitLights
<1>8. CASE CreateThread
  BY <1>8 DEF CreateThread
<1>9. CASE MainWhile
  BY <1>9 DEF MainWhile
<1>10. CASE HandlersReturn
  BY <1>10 DEF HandlersReturn
<1>11. CASE Join
  BY <1>11 DEF Join
<1>12. ASSUME NEW on \in BOOLEAN, AutoLights(on) PROVE SetupLightsStick'
  BY <1>12 DEF AutoLights, LuaRuns, CountCall
<1>13. ASSUME NEW b \in Bands, Paint("pixel", b) PROVE SetupLightsStick'
  BY <1>13 DEF Paint, LuaRuns, CountCall
<1>14. CASE Paint("clear", 0)
  BY <1>14 DEF Paint, LuaRuns, CountCall
<1>15. ASSUME NEW p \in Pictures, LoadPattern(p) PROVE SetupLightsStick'
  BY <1>15 DEF LoadPattern, LuaRuns, CountCall
<1>16. CASE LightsWhile
  BY <1>16 DEF LightsWhile
<1>17. CASE LightsDelta
  BY <1>17 DEF LightsDelta, Thread
<1>18. CASE LightsAuto
  BY <1>18 DEF LightsAuto
<1>19. CASE LightsLock
  BY <1>19 DEF LightsLock, Thread
<1>20. CASE DrawBegin
  BY <1>20 DEF DrawBegin
<1>21. CASE DrawRows
  BY <1>21 DEF DrawRows
<1>22. CASE DrawRow
  BY <1>22 DEF DrawRow
<1>23. CASE LightsUnlock
  BY <1>23 DEF LightsUnlock, Thread
<1>24. CASE LightsShow
  BY <1>24 DEF LightsShow, Thread
<1>25. CASE SigInt
  BY <1>25 DEF SigInt
<1>26. CASE Ended \/ UNCHANGED vars
  BY <1>26 DEF Ended, vars
<1>27. QED
  BY <1>1, <1>2, <1>3, <1>4, <1>5, <1>6, <1>7, <1>8, <1>9,
     <1>10, <1>11, <1>12, <1>13, <1>14, <1>15, <1>16, <1>17, <1>18,
     <1>19, <1>20, <1>21, <1>22, <1>23, <1>24, <1>25, <1>26
  DEF Next, MainSteps, LightCalls, LightsThread

\* A frame after the lights were switched off is the only one.
LEMMA StaleStep == AutoInv /\ AtMostOneStaleFrame /\ [Next]_vars => AtMostOneStaleFrame'
<1> SUFFICES ASSUME AutoInv /\ AtMostOneStaleFrame, [Next]_vars PROVE AtMostOneStaleFrame'
  OBVIOUS
<1> USE DEF AtMostOneStaleFrame, AutoInv, mainVars, pictureVars, threadVars, history
<1>1. CASE PaintBand
  BY <1>1 DEF PaintBand
<1>2. CASE LoadLock
  BY <1>2 DEF LoadLock
<1>3. CASE ReadHeader
  BY <1>3 DEF ReadHeader
<1>4. CASE AllocateRows
  BY <1>4 DEF AllocateRows
<1>5. CASE ReadImage
  BY <1>5 DEF ReadImage
<1>6. CASE LoadDone
  BY <1>6 DEF LoadDone
<1>7. CASE InitLights
  BY <1>7 DEF InitLights
<1>8. CASE CreateThread
  BY <1>8 DEF CreateThread
<1>9. CASE MainWhile
  BY <1>9 DEF MainWhile
<1>10. CASE HandlersReturn
  BY <1>10 DEF HandlersReturn
<1>11. CASE Join
  BY <1>11 DEF Join
<1>12. ASSUME NEW on \in BOOLEAN, AutoLights(on) PROVE AtMostOneStaleFrame'
  BY <1>12 DEF AutoLights, LuaRuns, CountCall
<1>13. ASSUME NEW b \in Bands, Paint("pixel", b) PROVE AtMostOneStaleFrame'
  BY <1>13 DEF Paint, LuaRuns, CountCall
<1>14. CASE Paint("clear", 0)
  BY <1>14 DEF Paint, LuaRuns, CountCall
<1>15. ASSUME NEW p \in Pictures, LoadPattern(p) PROVE AtMostOneStaleFrame'
  BY <1>15 DEF LoadPattern, LuaRuns, CountCall
<1>16. CASE LightsWhile
  BY <1>16 DEF LightsWhile
<1>17. CASE LightsDelta
  BY <1>17 DEF LightsDelta, Thread
<1>18. CASE LightsAuto
  BY <1>18 DEF LightsAuto
<1>19. CASE LightsLock
  BY <1>19 DEF LightsLock, Thread
<1>20. CASE DrawBegin
  BY <1>20 DEF DrawBegin
<1>21. CASE DrawRows
  BY <1>21 DEF DrawRows
<1>22. CASE DrawRow
  BY <1>22 DEF DrawRow
<1>23. CASE LightsUnlock
  BY <1>23 DEF LightsUnlock, Thread
<1>24. CASE LightsShow
  BY <1>24 DEF LightsShow, Thread
<1>25. CASE SigInt
  BY <1>25 DEF SigInt
<1>26. CASE Ended \/ UNCHANGED vars
  BY <1>26 DEF Ended, vars
<1>27. QED
  BY <1>1, <1>2, <1>3, <1>4, <1>5, <1>6, <1>7, <1>8, <1>9,
     <1>10, <1>11, <1>12, <1>13, <1>14, <1>15, <1>16, <1>17, <1>18,
     <1>19, <1>20, <1>21, <1>22, <1>23, <1>24, <1>25, <1>26
  DEF Next, MainSteps, LightCalls, LightsThread

-----------------------------------------------------------------------------
LEMMA LightsInit == Init => LightsInv
<1> SUFFICES ASSUME Init PROVE LightsInv
  OBVIOUS
<1> USE DEF Init
<1>1. TypeOK
  <2>1. Dark \in Shows
    BY DEF Dark, Shows, Reading
  <2>2. MaxLuaCalls \in Nat
    BY PictureAssumption
  <2>3. /\ running \in BOOLEAN /\ lights_auto \in BOOLEAN
        /\ everOn \in BOOLEAN /\ painted \in BOOLEAN
    OBVIOUS
  <2>4. rows \in [picture : Pictures \cup {NoPicture}, count : Nat, read : Reading]
    BY DEF Reading
  <2>5. buf \in [Bands -> Shows] /\ arg \in Bands /\ luaCalls \in 0..MaxLuaCalls
    BY <2>1, <2>2 DEF Bands
  <2>6. sub = "none" /\ phase = "chunk" /\ pc = "none" /\ lights_mutex = "none"
    OBVIOUS
  <2>7. width \in Nat /\ height \in Nat /\ y \in Nat /\ x \in 0..3 /\ frame \in Nat /\ stale \in 0..2
    OBVIOUS
  <2> HIDE DEF Init
  <2>8. QED
    BY <2>3, <2>4, <2>5, <2>6, <2>7 DEF TypeOK
<1>2. Places /\ LockHeld
  BY DEF Places, LockHeld, Drawing, Loading
<1>3. PictureInv /\ FrameInv /\ FrameCoherent
  BY DEF PictureInv, FrameInv, FrameCoherent
<1>4. AutoInv /\ SetupLightsStick /\ AtMostOneStaleFrame
  BY DEF AutoInv, NoPictureShown, SetupLightsStick, AtMostOneStaleFrame, Dark, Bands
<1>5. QED
  BY <1>1, <1>2, <1>3, <1>4 DEF LightsInv

LEMMA LightsStep == LightsInv /\ [Next]_vars => LightsInv'
<1> SUFFICES ASSUME LightsInv, [Next]_vars PROVE LightsInv'
  OBVIOUS
<1>1. TypeOK' /\ Places' /\ LockHeld' /\ PictureInv'
  BY TypeStep, PlacesStep, LockStep, PictureStep DEF LightsInv
<1>2. FrameInv' /\ FrameCoherent'
  BY FrameStep, CoherentStep DEF LightsInv
<1>3. AutoInv' /\ SetupLightsStick' /\ AtMostOneStaleFrame'
  BY AutoStep, StickStep, StaleStep DEF LightsInv
<1>4. QED
  BY <1>1, <1>2, <1>3 DEF LightsInv

LEMMA LightsInvariant == Spec => []LightsInv
BY LightsInit, LightsStep, PTL DEF Spec

-----------------------------------------------------------------------------
(***************************************************************************)
(* The globals and locals of both threads keep their types, for any set of *)
(* pictures and any number of light calls.                                 *)
(***************************************************************************)
THEOREM LightsTypeCorrect == Spec => []TypeOK
<1>1. LightsInv => TypeOK
  BY DEF LightsInv
<1>2. QED
  BY <1>1, LightsInvariant, PTL

(***************************************************************************)
(* Drawing and loading exclude each other, and the mutex is free outside   *)
(* of both.                                                                *)
(***************************************************************************)
THEOREM MutualExclusion == Spec => []LockHeld
<1>1. LightsInv => LockHeld
  BY DEF LightsInv
<1>2. QED
  BY <1>1, LightsInvariant, PTL

(***************************************************************************)
(* No division by zero and no row pointer outside of the array, although   *)
(* run_lights reads height without the mutex (keybow.c:90).                *)
(***************************************************************************)
THEOREM RowsExist == Spec => []RowInBounds
<1>1. LightsInv => RowInBounds
  <2> SUFFICES ASSUME LightsInv PROVE RowInBounds
    OBVIOUS
  <2>1. pc # "none" => HasFrame
    BY DEF LightsInv, Places, PictureInv
  <2>2. pc = "delta" => height > 0
    BY <2>1 DEF HasFrame
  <2>3. pc = "begin" => IF width = 4 THEN height \div 3 > 0 ELSE height > 0
    BY <2>1 DEF HasFrame, LightsInv, TypeOK
  <2>4. pc \in {"drawRows", "drawRow"} => rows.count = height
    BY DEF LightsInv, LockHeld, Places, PictureInv, Drawing, Loading
  <2>5. pc = "drawRow" => frame < rows.count
    BY <2>4 DEF LightsInv, FrameInv
  <2>6. (pc = "drawRows" /\ y < 3) => frame + y < rows.count
    BY <2>4 DEF LightsInv, FrameInv, TypeOK
  <2>7. QED
    BY <2>2, <2>3, <2>5, <2>6 DEF RowInBounds
<1>2. QED
  BY <1>1, LightsInvariant, PTL

(***************************************************************************)
(* Every frame that the thread finishes is one frame of the picture loaded *)
(* last, whole unless png_read_image failed in it (lights.c:70-79), and    *)
(* never one of two pictures or loads, or of one still being read.         *)
(***************************************************************************)
THEOREM FramesAreWhole == Spec => []FrameCoherent
<1>1. LightsInv => FrameCoherent
  BY DEF LightsInv
<1>2. QED
  BY <1>1, LightsInvariant, PTL

(***************************************************************************)
(* What setup painted stays if it switched the automatic lights off.       *)
(***************************************************************************)
THEOREM SetupLightsLast == Spec => []SetupLightsStick
<1>1. LightsInv => SetupLightsStick
  BY DEF LightsInv
<1>2. QED
  BY <1>1, LightsInvariant, PTL

(***************************************************************************)
(* The check of lights_auto outside of the mutex costs one frame at most.  *)
(***************************************************************************)
THEOREM OneStaleFrame == Spec => []AtMostOneStaleFrame
<1>1. LightsInv => AtMostOneStaleFrame
  BY DEF LightsInv
<1>2. QED
  BY <1>1, LightsInvariant, PTL

=============================================================================
