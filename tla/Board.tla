-------------------------------- MODULE Board --------------------------------
(***************************************************************************)
(* Main.scala: the state machine of the board, which is the host of the    *)
(* package.  After a reset it writes both memories from two ROMs (states   *)
(* 12 to 15); from then on it reads the word the switches select, over and *)
(* over, for the display (states 0 to 4), or gives the debugger a STEP.    *)
(*                                                                         *)
(* A command is given by raising dEnable for a clock.  The wires of the    *)
(* command and its argument follow the state and not dEnable.              *)
(***************************************************************************)
EXTENDS Package

CONSTANTS
  IRom, DRom,   \* the contents of the ROMs, from address 0
  RomDepth,     \* addresses of a ROM, 256 in the code
  RomBeyond,    \* what a ROM shows at each address past its contents
  Switches      \* settings of the switches and the reset button

VARIABLES
  state, action,   \* the registers of the same names
  dEnable, romAddr, dispData,
  pressed,         \* the shift register of PosEdge, newest sample first
  sw               \* the switches in this clock

registers == <<state, action, dEnable, romAddr, dispData, pressed>>
board == <<package, registers, sw>>

EdgeDelay == 4   \* samples PosEdge looks back

\* SW(0), SW(1) and SW(12, 2); bit 12 is set for an address in data memory.
Switch == [reset : BOOLEAN, run : BOOLEAN, step : BOOLEAN, addr : Word]

ASSUME BoardAssumption ==
  /\ RomDepth \in Nat \ {0}
  /\ \E n \in 0 .. RomDepth : IRom \in [0 .. (n - 1) -> Word]
  /\ \E n \in 0 .. RomDepth : DRom \in [0 .. (n - 1) -> Word]
  /\ RomBeyond \in [0 .. (RomDepth - 1) -> Word]
  /\ Switches \subseteq Switch

-----------------------------------------------------------------------------

Length(rom) == Cardinality(DOMAIN rom)

\* A ROM sees the low bits of the address only.
RomData(rom) ==
  LET a == romAddr % RomDepth
  IN IF a \in DOMAIN rom THEN rom[a] ELSE RomBeyond[a]

DControl ==
  CASE state = 0         -> "NOP"
    [] state \in 1 .. 11 -> action
    [] state = 12        -> "IMEMWA"
    [] state = 13        -> "IMEMWD"
    [] state = 14        -> "DMEMWA"
    [] state = 15        -> "DMEMWD"

DDataIn ==
  CASE state \in {3, 4}   -> sw.addr
    [] state \in {12, 14} -> romAddr
    [] state = 13         -> RomData(IRom)
    [] state = 15         -> RomData(DRom)
    [] OTHER              -> 0

BoardIn ==
  [reset |-> sw.reset, pcEnable |-> sw.run,
   dEnable |-> dEnable, dControl |-> DControl, dDataIn |-> DDataIn]

-----------------------------------------------------------------------------
(***************************************************************************)
(* Loading.                                                                *)
(***************************************************************************)
Loading == UNCHANGED <<action, dispData, pressed>>

\* A fault: the ROM address is not set back.
CodeAddressOnly ==
  /\ state = 12
  /\ dEnable' = ~dEnable
  /\ state' = IF dEnable THEN 13 ELSE state
  /\ romAddr' = romAddr
  /\ Loading

\* The address for the code.  The ROM address is then set back by one, since
\* the first word takes two turns of the next state.
CodeAddress ==
  /\ state = 12
  /\ dEnable' = ~dEnable
  /\ state' = IF dEnable THEN 13 ELSE state
  /\ romAddr' = IF dEnable THEN Sub(romAddr, 1) ELSE romAddr
  /\ Loading

\* The first clock of a word: it ends the write of the word before.
NextCode ==
  /\ state = 13 /\ ~dEnable
  /\ dEnable' = TRUE
  /\ IF romAddr = Length(IRom)
     THEN romAddr' = DMemBase /\ state' = 14
     ELSE romAddr' = Add(romAddr, 1) /\ state' = state
  /\ Loading

\* The first clock of this state is the last of state 13: dEnable is up.
DataAddress ==
  /\ state = 14
  /\ dEnable' = ~dEnable
  /\ state' = IF dEnable THEN 15 ELSE state
  /\ UNCHANGED romAddr
  /\ Loading

\* A fault: the ROM is taken for one of bytes.
NextDataByBytes ==
  /\ state = 15 /\ ~dEnable
  /\ dEnable' = TRUE
  /\ IF romAddr = Add(DMemBase, Length(DRom))
     THEN romAddr' = 0 /\ state' = 0
     ELSE romAddr' = Add(romAddr, 4) /\ state' = state
  /\ Loading

NextData ==
  /\ state = 15 /\ ~dEnable
  /\ dEnable' = TRUE
  /\ IF romAddr = Add(DMemBase, Length(DRom))
     THEN romAddr' = 0 /\ state' = 0
     ELSE romAddr' = Add(romAddr, 1) /\ state' = state
  /\ Loading

WriteWord ==
  /\ state \in {13, 15} /\ dEnable
  /\ dEnable' = FALSE
  /\ UNCHANGED <<state, romAddr>>
  /\ Loading

(***************************************************************************)
(* Serving the switches and the display.  SW(1) is sampled in state 0      *)
(* only, so a press is seen four samples long.                             *)
(***************************************************************************)
Sample ==
  pressed' = [k \in 1 .. EdgeDelay |->
                IF k = 1 THEN sw.step ELSE pressed[k - 1]]

PosEdge == sw.step /\ ~pressed[EdgeDelay]

AskStep ==
  /\ state = 0 /\ PosEdge
  /\ dEnable' = FALSE /\ action' = "STEP" /\ state' = 1
  /\ Sample
  /\ UNCHANGED <<romAddr, dispData>>

AskWord ==
  /\ state = 0 /\ ~PosEdge
  /\ dEnable' = FALSE /\ state' = 3
  /\ action' = IF sw.addr >= DMemBase THEN "DMEMRA" ELSE "IMEMRA"
  /\ Sample
  /\ UNCHANGED <<romAddr, dispData>>

GiveAddress ==
  /\ state = 3
  /\ dEnable' = TRUE /\ state' = 4
  /\ UNCHANGED <<action, romAddr, dispData, pressed>>

\* Faults: dEnable is not lowered; the two reads are swapped.
ThenReadHeld ==
  /\ state = 4
  /\ dEnable' = dEnable /\ state' = 1
  /\ action' = IF action = "DMEMRA" THEN "DMEMRD" ELSE "IMEMRD"
  /\ UNCHANGED <<romAddr, dispData, pressed>>
ThenReadSwapped ==
  /\ state = 4
  /\ dEnable' = FALSE /\ state' = 1
  /\ action' = IF action = "DMEMRA" THEN "IMEMRD" ELSE "DMEMRD"
  /\ UNCHANGED <<romAddr, dispData, pressed>>

ThenRead ==
  /\ state = 4
  /\ dEnable' = FALSE /\ state' = 1
  /\ action' = IF action = "DMEMRA" THEN "DMEMRD" ELSE "IMEMRD"
  /\ UNCHANGED <<romAddr, dispData, pressed>>

GiveCommand ==
  /\ state = 1
  /\ dEnable' = TRUE /\ state' = 2
  /\ UNCHANGED <<action, romAddr, dispData, pressed>>

\* The debugger answers in this clock, so this is its answer before.
TakeAnswer ==
  /\ state = 2
  /\ dEnable' = FALSE /\ state' = 0 /\ action' = "NOP"
  /\ dispData' = DataOut(pc)
  /\ UNCHANGED <<romAddr, pressed>>

\* The reset; the samples of SW(1) are not reset.
Restart ==
  /\ state' = 12 /\ action' = "NOP" /\ dEnable' = FALSE
  /\ romAddr' = 0 /\ dispData' = 0
  /\ IF state = 0 THEN Sample ELSE UNCHANGED pressed

-----------------------------------------------------------------------------

Main ==
  \/ sw.reset /\ Restart
  \/ /\ ~sw.reset
     /\ \/ CodeAddress \/ NextCode \/ DataAddress \/ NextData \/ WriteWord
        \/ AskStep \/ AskWord \/ GiveAddress \/ ThenRead \/ GiveCommand
        \/ TakeAnswer

BoardInit ==
  /\ PackageInit
  /\ state = 12 /\ action = "NOP" /\ dEnable = FALSE
  /\ romAddr = 0 /\ dispData = 0
  /\ pressed \in [1 .. EdgeDelay -> BOOLEAN]
  /\ sw \in Switches

BoardNext == Tick(BoardIn) /\ Main /\ sw' \in Switches

BoardSpec == BoardInit /\ [][BoardNext]_board

\* The clock never stops.
FairBoardSpec == BoardSpec /\ WF_board(BoardNext)

BoardTypeOK ==
  /\ PackageTypeOK
  /\ state \in 0 .. 4 \cup 12 .. 15
  /\ action \in Commands
  /\ dEnable \in BOOLEAN
  /\ romAddr \in Word /\ dispData \in Word
  /\ pressed \in [1 .. EdgeDelay -> BOOLEAN]
  /\ sw \in Switches

-----------------------------------------------------------------------------

(***************************************************************************)
(* The debugger takes a command when its enable rises.  Main.scala raises  *)
(* dEnable in one state and lowers it in another, and enters two states    *)
(* (14 and 0) with it up; no two pulses ever run together, so every one is *)
(* taken as a command (Main.scala:71-174, Debug.scala:58).                 *)
(***************************************************************************)
EveryPulseIsTaken == dEnable => Update(DebugIn(BoardIn))

(***************************************************************************)
(* The code has room: the loader writes one word past the end of the ROM,  *)
(* so a ROM as long as the memory must repeat itself there, as it does     *)
(* when it fills its address space too.                                    *)
(***************************************************************************)
CodeFits ==
  /\ 4 * IMemWords <= WordMod
  /\ \/ Length(IRom) < IMemWords
     \/ Length(IRom) = IMemWords /\ RomDepth = IMemWords

(***************************************************************************)
(* When the loader is done the code is in its place, also if the reset     *)
(* button interrupted it anywhere (Main.scala:120-146).                    *)
(***************************************************************************)
LoadsCode ==
  state < 12 => \A k \in DOMAIN IRom : imem[k % IMemWords] = IRom[k]

(***************************************************************************)
(* What Main.scala:115 and 159 say: the loader writes the ROM's data to    *)
(* data memory.  (For a core that stores nothing meanwhile.)               *)
(***************************************************************************)
LoadsData ==
  state < 12 =>
    \A k \in DOMAIN DRom : ToWord(dmem[k % DMemWords]) = DRom[k]

(***************************************************************************)
(* Unless it is reset again and again the loader comes to an end           *)
(* (Main.scala:137, 165).                                                  *)
(***************************************************************************)
LoadEnds == <>[](~sw.reset) => <>[](state < 12)

\* The word the switches select.
Selected ==
  IF sw.addr >= DMemBase THEN ToWord(dmem[DIndex(sw.addr)])
  ELSE imem[IIndex(sw.addr)]

(***************************************************************************)
(* The display takes the answer to the command before (Main.scala:97), but *)
(* if the switches are left alone it comes to show what they select.       *)
(***************************************************************************)
ShowsSelected ==
  \A s \in Switches :
    ~s.reset => (<>[](sw = s) => <>[](dispData = Selected))
=============================================================================
