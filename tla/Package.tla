------------------------------- MODULE Package -------------------------------
(***************************************************************************)
(* Package.scala: the core, the two memories and the debugger, clocked     *)
(* together.  The host outside drives the debugger's port and pcEnable.    *)
(***************************************************************************)
EXTENDS Core, Memory, Debugger

CONSTANTS
  IOBase,          \* the first address past data memory
  PackageInputs,   \* what the host may drive in a clock
  IMemImages,      \* what the memories may hold at the start
  DMemImages

VARIABLES imem, dmem

package == <<core, dbg, imem, dmem>>

PackageInput == [reset : BOOLEAN, pcEnable : BOOLEAN,
                 dEnable : BOOLEAN, dControl : Commands, dDataIn : Word]

ASSUME PackageAssumption ==
  /\ IOBase \in Nat
  /\ PackageInputs \subseteq PackageInput
  /\ IMemImages \subseteq IMem
  /\ DMemImages \subseteq DMem

-----------------------------------------------------------------------------

\* The wires between the modules.  In a write cycle of the debugger its data
\* inputs show something else, and it takes no command (WriteCycleIsQuiet).
DebugIn(in) ==
  [reset |-> in.reset, enable |-> in.dEnable, control |-> in.dControl,
   dataIn |-> in.dDataIn, idrData |-> imem[IIndex(dbg.imemRA)],
   ddataR |-> ToWord(dmem[DIndex(dbg.dmemA)])]

CoreIn(in) ==
  [reset |-> in.reset, enable |-> in.pcEnable,
   pcReset |-> PcReset(DebugIn(in)), pcStep |-> PcStep(DebugIn(in)),
   imemOut |-> imem[IIndex(pc)],
   dmemDR |-> DMemRead(dmem, em.alu, em.control.MemLength,
                       em.control.MemSign)]

\* Only the store is gated by the address: the data of a load is don't care
\* outside data memory, and what the compiler leaves there is the memory.
CoreStores ==
  em.control.MemRW /\ em.alu >= DMemBase /\ em.alu < IOBase

IMemNext(in) ==
  imem' = IF dbg.idMode
          THEN [imem EXCEPT ![IIndex(dbg.imemWA)] = in.dDataIn]
          ELSE imem

\* Two write ports: if both write one cell in one clock, either may win.
DMemNext(in) ==
  LET Store(m) == IF CoreStores
                  THEN DMemWrite(m, em.alu, em.control.MemLength, em.dataB)
                  ELSE m
      Poke(m)  == IF dbg.ddMode
                  THEN [m EXCEPT ![DIndex(dbg.dmemA)] = ToCell(in.dDataIn)]
                  ELSE m
  IN dmem' \in {Store(Poke(dmem)), Poke(Store(dmem))}

Tick(in) ==
  /\ Clock(CoreIn(in))
  /\ DebugClock(DebugIn(in))
  /\ IMemNext(in)
  /\ DMemNext(in)

PackageInit ==
  /\ CoreInit /\ DebugInit
  /\ imem \in IMemImages /\ dmem \in DMemImages

PackageNext == \E in \in PackageInputs : Tick(in)

PackageSpec == PackageInit /\ [][PackageNext]_package

PackageTypeOK ==
  CoreTypeOK /\ DebugTypeOK /\ imem \in IMem /\ dmem \in DMem

-----------------------------------------------------------------------------

(***************************************************************************)
(* The last statements of the debugger step the write address and drop the *)
(* write mode, and win over whatever a command assigns (Debug.scala:128).  *)
(* No command is lost to them, because none is taken in a write cycle; nor *)
(* do the two memories ever want the data wire at once.                    *)
(***************************************************************************)
WriteCycleIsQuiet ==
  /\ dbg.idMode \/ dbg.ddMode
       => \A in \in PackageInputs : ~Update(DebugIn(in))
  /\ ~(dbg.idMode /\ dbg.ddMode)

(***************************************************************************)
(* The pulse of a STEP is over after one cycle: while the core remembers   *)
(* it, no host can make the debugger raise it again (Core.scala:35,        *)
(* Debug.scala:58, 94).                                                    *)
(***************************************************************************)
StepIsOnePulse ==
  stepPrev => \A in \in PackageInputs : ~PcStep(DebugIn(in))

(***************************************************************************)
(* The core steps when it sees pcStep twice in a row (Core.scala:35), and  *)
(* the debugger raises it for one cycle only (Debug.scala:58, 94): with    *)
(* pcEnable low the program counter stays or is reset, whatever commands   *)
(* come, STEP among them.                                                  *)
(***************************************************************************)
PacedByEnableOnly ==
  [][\A in \in PackageInputs :
       Tick(in) /\ ~in.pcEnable => pc' \in {pc, 0}]_package
=============================================================================
