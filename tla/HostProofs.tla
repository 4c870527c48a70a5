----------------------------- MODULE HostProofs -----------------------------
(***************************************************************************)
(* Proofs about the two hosts of the package, for every word width, memory *)
(* size and encoding.                                                      *)
(*                                                                         *)
(* The session of the tests: used so, the package implements DebugPort,    *)
(* for every set of commands and arguments.  The board: its types, the     *)
(* handshake between its state machine and the debugger, and that the code *)
(* is loaded, for all ROMs and switches.                                   *)
(***************************************************************************)
EXTENDS HostSession, Board, PackageProofs, FiniteSetTheorems

-----------------------------------------------------------------------------
(***************************************************************************)
(* THE SESSION.                                                            *)
(***************************************************************************)

-----------------------------------------------------------------------------
(***************************************************************************)
(* The invariant.  The debugger remembers whether the enable was raised; a *)
(* write is under way only in the clock after its command, which is still  *)
(* on the wires then; and the core does not get to store.                  *)
(***************************************************************************)
Harmless(w) == Decode[w].class # "STORE"

\* Either the core is wedged, or there is no store for it to execute.
CoreQuiet ==
  /\ ~de.control.MemRW /\ ~em.control.MemRW
  /\ \/ de = Bubble /\ fd.inst = NOP
     \/ /\ \A w \in Args : Harmless(w)
        /\ Harmless(fd.inst)
        /\ \A a \in DOMAIN imem : Harmless(imem[a])

SessionInv ==
  /\ PackageTypeOK
  /\ raised \in BOOLEAN /\ req \in [op : Commands, arg : Word]
  /\ raised => req.op \in Ops /\ req.arg \in Args
  /\ dbg.enablePrev = raised
  /\ dbg.idMode => raised /\ req.op = "IMEMWD"
  /\ dbg.ddMode => raised /\ req.op = "DMEMWD"
  /\ CoreQuiet

\* What the host drives are inputs of the package.
LEMMA DriveType ==
  ASSUME NEW r \in [op : Commands, arg : Word], NEW e \in BOOLEAN
  PROVE  Drive(e, r) \in PackageInput
BY DEF Drive, PackageInput

-----------------------------------------------------------------------------
(***************************************************************************)
(* The core stores nothing.                                                *)
(***************************************************************************)
LEMMA OnlyStoresWrite ==
  \A i, t : ControlOut(i, t).MemRW <=> i.class = "STORE"
BY DEF ControlOut, Signals

LEMMA QuietInit ==
  ASSUME SessionInit, host = Tests PROVE CoreQuiet
<1>1. Decode[NOP].class = "OPIMM"
  BY DecodeAssumption
<1>2. ~Signals(Decode[NOP]).MemRW
  BY <1>1 DEF Signals
<1>3. NopDE.control = Signals(Decode[NOP]) /\ ~Bubble.control.MemRW
  BY DEF NopDE, Bubble, ZeroSignals
<1>4. fd.inst = NOP /\ de \in {Bubble, NopDE} /\ em.control = de.control
  BY DEF SessionInit, PackageInit, CoreInit
<1>5. StoresNothing
  BY DEF SessionInit
<1> QED
  BY <1>1, <1>2, <1>3, <1>4, <1>5
     DEF StoresNothing, CoreQuiet, Harmless, SessionInit, PackageInit

LEMMA QuietStep ==
  ASSUME SessionInv, NEW r \in [op : Commands, arg : Word], NEW e \in BOOLEAN,
         Tick(Drive(e, r)), dbg.idMode => r.arg \in Args
  PROVE  CoreQuiet'
<1> DEFINE in == CoreIn(Drive(e, r))
<1>1. Clock(in) /\ BackEnd(in) /\ in.reset = FALSE
      /\ in.imemOut = imem[IIndex(pc)]
  BY DEF Tick, Clock, Redirect, Stall, Advance, CoreIn, Drive
<1> HIDE DEF in
<1>2. ~em'.control.MemRW
  BY <1>1 DEF BackEnd, SessionInv, CoreQuiet
<1>3. CASE de = Bubble /\ fd.inst = NOP
  <2>1. Stall(in)
    <3>1. ~Flush /\ LoadUse
      BY <1>3, DecodeAssumption DEF Flush, LoadUse, Bubble, ZeroSignals,
                                    Fetched
    <3> QED
      BY <1>1, <3>1 DEF Clock, Redirect, Advance
  <2>2. de' = Bubble /\ fd'.inst = NOP
    BY <1>1, <1>3, <2>1 DEF Stall, FDNext
  <2> QED
    BY <1>2, <2>2 DEF CoreQuiet, Bubble, ZeroSignals
<1>4. CASE /\ \A w \in Args : Harmless(w)
           /\ Harmless(fd.inst)
           /\ \A a \in DOMAIN imem : Harmless(imem[a])
  <2>1. ~de'.control.MemRW
    <3>1. ~Decoded.control.MemRW
      BY <1>4, OnlyStoresWrite DEF Decoded, Fetched, Harmless
    <3>2. ~Bubble.control.MemRW
      BY DEF Bubble, ZeroSignals
    <3> QED
      BY <1>1, <3>1, <3>2 DEF Clock, Redirect, Stall, Advance
  <2>2. Harmless(fd'.inst)
    <3>1. IIndex(pc) \in DOMAIN imem
      BY IndexType DEF SessionInv, PackageTypeOK, CoreTypeOK, IMem
    <3>2. Harmless(NOP)
      BY DecodeAssumption DEF Harmless
    <3>3. fd'.inst \in {NOP, fd.inst, imem[IIndex(pc)]}
      BY <1>1 DEF Clock, Redirect, Stall, Advance, FDNext
    <3> QED
      BY <1>4, <3>1, <3>2, <3>3
  <2>3. \A a \in DOMAIN imem' : Harmless(imem'[a])
    <3>1. /\ DOMAIN imem' = DOMAIN imem
          /\ \A a \in DOMAIN imem :
               imem'[a] = imem[a] \/ (dbg.idMode /\ imem'[a] = r.arg)
      BY DEF Tick, IMemNext, Drive
    <3> QED
      BY <1>4, <3>1
  <2> QED
    BY <1>2, <1>4, <2>1, <2>2, <2>3 DEF CoreQuiet, Harmless
<1> QED
  BY <1>3, <1>4 DEF SessionInv, CoreQuiet

-----------------------------------------------------------------------------
\* The port's operators on addresses and cells are those of the memories.
LEMMA PortOperators ==
  \A a : /\ Port!Next4(a) = Add(a, 4)
         /\ Port!IIndex(a) = IIndex(a) /\ Port!DIndex(a) = DIndex(a)
         /\ Port!ToCell(a) = ToCell(a) /\ Port!ToWord(a) = ToWord(a)
BY DEF Port!Next4, Port!Add, Add, Port!IIndex, IIndex, Port!DIndex, DIndex,
       Port!Sub, Sub, Port!WordMod, WordMod, Port!ToCell, ToCell,
       Port!Place, Place, Port!ByteMod, ByteMod, Port!ToWord, ToWord

-----------------------------------------------------------------------------
(***************************************************************************)
(* The two clocks of a command.                                            *)
(***************************************************************************)
\* A clock in which no write is under way leaves the memories alone, and of
\* the debugger's registers only what the command assigns changes.
LEMMA QuietMemories ==
  ASSUME SessionInv, NEW in, DMemNext(in), IMemNext(in)
  PROVE  /\ imem' = IF dbg.idMode
                    THEN [imem EXCEPT ![IIndex(dbg.imemWA)] = in.dDataIn]
                    ELSE imem
         /\ dmem' = IF dbg.ddMode
                    THEN [dmem EXCEPT ![DIndex(dbg.dmemA)]
                                        = ToCell(in.dDataIn)]
                    ELSE dmem
<1>1. ~CoreStores
  BY DEF CoreStores, SessionInv, CoreQuiet
<1> QED
  BY <1>1 DEF DMemNext, IMemNext

LEMMA EdgeKeeps ==
  ASSUME NEW in, ~in.reset, NEW d \in Debug, ~dbg.idMode, ~dbg.ddMode,
         Edge(in, d)
  PROVE  /\ dbg'.dataOut = d.dataOut /\ dbg'.dataMode = d.dataMode
         /\ dbg'.imemRA = d.imemRA /\ dbg'.imemWA = d.imemWA
         /\ dbg'.dmemA = d.dmemA
         /\ dbg'.idMode = d.idMode /\ dbg'.ddMode = d.ddMode
         /\ dbg'.enablePrev = in.enable
BY DEF Edge, Debug

\* The end of a write.
LEMMA EdgeEnds ==
  ASSUME NEW in, ~in.reset, dbg \in Debug, Edge(in, dbg)
  PROVE  /\ dbg'.dataOut = dbg.dataOut /\ dbg'.dataMode = dbg.dataMode
         /\ dbg'.imemRA = dbg.imemRA
         /\ dbg'.imemWA = Past(dbg.idMode, dbg.imemWA)
         /\ dbg'.dmemA = Past(dbg.ddMode, dbg.dmemA)
         /\ dbg'.idMode = FALSE /\ dbg'.ddMode = FALSE
         /\ dbg'.enablePrev = in.enable
BY DEF Edge, Debug, Past

\* What a clock has in common whatever the command: the types and the core.
LEMMA TickCommon ==
  ASSUME SessionInv, NEW r \in [op : Commands, arg : Word], NEW e \in BOOLEAN,
         Tick(Drive(e, r)), dbg.idMode => r.arg \in Args
  PROVE  /\ PackageTypeOK' /\ CoreQuiet'
         /\ dbg \in Debug
         /\ LET din == DebugIn(Drive(e, r))
            IN /\ DebugClock(din) /\ din \in DebugInput
               /\ din.reset = FALSE /\ din.enable = e
               /\ din.control = r.op /\ din.dataIn = r.arg
               /\ din.idrData = imem[IIndex(dbg.imemRA)]
               /\ din.ddataR = ToWord(dmem[DIndex(dbg.dmemA)])
         /\ imem' = IF dbg.idMode
                    THEN [imem EXCEPT ![IIndex(dbg.imemWA)] = r.arg]
                    ELSE imem
         /\ dmem' = IF dbg.ddMode
                    THEN [dmem EXCEPT ![DIndex(dbg.dmemA)] = ToCell(r.arg)]
                    ELSE dmem
<1>1. Drive(e, r) \in PackageInput
  BY DriveType
<1>2. PackageTypeOK'
  BY <1>1, TickType DEF SessionInv
<1>3. dbg \in Debug
  BY DEF SessionInv, PackageTypeOK, DebugTypeOK
<1>4. Drive(e, r).dDataIn = r.arg
  BY DEF Drive
<1> QED
  BY <1>1, <1>2, <1>3, <1>4, QuietStep, QuietMemories, WiresType
     DEF Tick, DebugIn, Drive, SessionInv

(***************************************************************************)
(* The first clock does what the port's command does.                      *)
(***************************************************************************)
LEMMA RaiseStep ==
  ASSUME SessionInv, NEW r \in [op : Ops, arg : Args], Raise(r)
  PROVE  SessionInv' /\ Port!Next
<1> DEFINE din == DebugIn(Drive(TRUE, r))
<1>0. /\ r \in [op : Commands, arg : Word] /\ r.op \in Ops /\ r.arg \in Args
      /\ r = [op |-> r.op, arg |-> r.arg]
  BY SessionAssumption
<1>1. ~raised /\ raised' = TRUE /\ req' = r /\ Tick(Drive(TRUE, r))
  BY DEF Raise
<1>2. ~dbg.idMode /\ ~dbg.ddMode /\ ~dbg.enablePrev
  BY <1>1 DEF SessionInv
<1>3. /\ PackageTypeOK' /\ CoreQuiet' /\ dbg \in Debug
      /\ DebugClock(din) /\ din \in DebugInput /\ ~din.reset /\ din.enable
      /\ din.control = r.op /\ din.dataIn = r.arg
      /\ din.idrData = imem[IIndex(dbg.imemRA)]
      /\ din.ddataR = ToWord(dmem[DIndex(dbg.dmemA)])
      /\ imem' = imem /\ dmem' = dmem
  BY <1>0, <1>1, <1>2, TickCommon
<1> HIDE DEF din
<1>4. Update(din)
  BY <1>2, <1>3 DEF Update
<1>5. /\ dbg.dataOut \in Word /\ dbg.imemRA \in Word /\ dbg.imemWA \in Word
      /\ dbg.dmemA \in Word /\ dbg.dataMode \in {"I", "PC"}
  BY <1>3 DEF Debug
\* What changes is what the command assigns, and the port agrees.
<1> DEFINE Outcome == /\ dbg'.enablePrev = TRUE
                      /\ dbg'.idMode => r.op = "IMEMWD"
                      /\ dbg'.ddMode => r.op = "DMEMWD"
                      /\ Port!Next
<1> SUFFICES Outcome
  BY <1>0, <1>1, <1>3 DEF SessionInv
<1>6. CASE Idle(din)
  <2> DEFINE d == dbg
  <2>1. Edge(din, d) /\ d \in Debug
    BY <1>3, <1>5, <1>6, AddType DEF Idle, Debug, DebugInput
  <2>2. /\ d.dataOut = dbg.dataOut /\ d.dataMode = dbg.dataMode
        /\ d.imemRA = dbg.imemRA /\ d.imemWA = dbg.imemWA
        /\ d.dmemA = dbg.dmemA
        /\ d.idMode = FALSE /\ d.ddMode = FALSE
    BY <1>2, <1>3, <1>5 DEF Debug
  <2> HIDE DEF d
  <2>3. /\ dbg'.dataOut = dbg.dataOut /\ dbg'.dataMode = dbg.dataMode
        /\ dbg'.imemRA = dbg.imemRA /\ dbg'.imemWA = dbg.imemWA
        /\ dbg'.dmemA = dbg.dmemA
        /\ dbg'.idMode = FALSE /\ dbg'.ddMode = FALSE
        /\ dbg'.enablePrev
    BY <1>2, <1>3, <2>1, <2>2, EdgeKeeps
  <2>4. Port!Pace(r.arg)
    BY <1>0, <1>1, <1>2, <1>3, <1>4, <1>6, <2>3
       DEF Idle, Port!Pace, Port!Given, Past
  <2> QED
    BY <1>0, <1>1, <1>6, <2>3, <2>4 DEF Port!Next, Idle
<1>7. CASE Halt(din)
  <2> DEFINE d == [dbg EXCEPT !.cpuEnable = FALSE]
  <2>1. Edge(din, d) /\ d \in Debug
    BY <1>3, <1>5, <1>7, AddType DEF Halt, Debug, DebugInput
  <2>2. /\ d.dataOut = dbg.dataOut /\ d.dataMode = dbg.dataMode
        /\ d.imemRA = dbg.imemRA /\ d.imemWA = dbg.imemWA
        /\ d.dmemA = dbg.dmemA
        /\ d.idMode = FALSE /\ d.ddMode = FALSE
    BY <1>2, <1>3, <1>5 DEF Debug
  <2> HIDE DEF d
  <2>3. /\ dbg'.dataOut = dbg.dataOut /\ dbg'.dataMode = dbg.dataMode
        /\ dbg'.imemRA = dbg.imemRA /\ dbg'.imemWA = dbg.imemWA
        /\ dbg'.dmemA = dbg.dmemA
        /\ dbg'.idMode = FALSE /\ dbg'.ddMode = FALSE
        /\ dbg'.enablePrev
    BY <1>2, <1>3, <2>1, <2>2, EdgeKeeps
  <2>4. Port!Pace(r.arg)
    BY <1>0, <1>1, <1>2, <1>3, <1>7, <2>3
       DEF Halt, Command, Port!Pace, Port!Given, Past
  <2> QED
    BY <1>0, <1>1, <1>7, <2>3, <2>4 DEF Port!Next, Halt, Command
<1>8. CASE Start(din)
  <2> DEFINE d == [dbg EXCEPT !.cpuEnable = TRUE]
  <2>1. Edge(din, d) /\ d \in Debug
    BY <1>3, <1>5, <1>8, AddType DEF Start, Debug, DebugInput
  <2>2. /\ d.dataOut = dbg.dataOut /\ d.dataMode = dbg.dataMode
        /\ d.imemRA = dbg.imemRA /\ d.imemWA = dbg.imemWA
        /\ d.dmemA = dbg.dmemA
        /\ d.idMode = FALSE /\ d.ddMode = FALSE
    BY <1>2, <1>3, <1>5 DEF Debug
  <2> HIDE DEF d
  <2>3. /\ dbg'.dataOut = dbg.dataOut /\ dbg'.dataMode = dbg.dataMode
        /\ dbg'.imemRA = dbg.imemRA /\ dbg'.imemWA = dbg.imemWA
        /\ dbg'.dmemA = dbg.dmemA
        /\ dbg'.idMode = FALSE /\ dbg'.ddMode = FALSE
        /\ dbg'.enablePrev
    BY <1>2, <1>3, <2>1, <2>2, EdgeKeeps
  <2>4. Port!Pace(r.arg)
    BY <1>0, <1>1, <1>2, <1>3, <1>8, <2>3
       DEF Start, Command, Port!Pace, Port!Given, Past
  <2> QED
    BY <1>0, <1>1, <1>8, <2>3, <2>4 DEF Port!Next, Start, Command
<1>9. CASE ReadPC(din)
  <2> DEFINE d == [dbg EXCEPT !.dataMode = "PC"]
  <2>1. Edge(din, d) /\ d \in Debug
    BY <1>3, <1>5, <1>9, AddType DEF ReadPC, Debug, DebugInput
  <2>2. /\ d.dataOut = dbg.dataOut /\ d.dataMode = "PC"
        /\ d.imemRA = dbg.imemRA /\ d.imemWA = dbg.imemWA
        /\ d.dmemA = dbg.dmemA
        /\ d.idMode = FALSE /\ d.ddMode = FALSE
    BY <1>2, <1>3, <1>5 DEF Debug
  <2> HIDE DEF d
  <2>3. /\ dbg'.dataOut = dbg.dataOut /\ dbg'.dataMode = "PC"
        /\ dbg'.imemRA = dbg.imemRA /\ dbg'.imemWA = dbg.imemWA
        /\ dbg'.dmemA = dbg.dmemA
        /\ dbg'.idMode = FALSE /\ dbg'.ddMode = FALSE
        /\ dbg'.enablePrev
    BY <1>2, <1>3, <2>1, <2>2, EdgeKeeps
  <2>4. Port!ReadPCValue(r.arg)
    BY <1>0, <1>1, <1>2, <1>3, <1>9, <2>3
       DEF ReadPC, Command, Port!ReadPCValue, Port!Given, Past
  <2> QED
    BY <1>0, <1>1, <1>9, <2>3, <2>4 DEF Port!Next, ReadPC, Command
<1>10. CASE IMemRA(din)
  <2> DEFINE d == [dbg EXCEPT !.imemRA = din.dataIn]
  <2>1. Edge(din, d) /\ d \in Debug
    BY <1>3, <1>5, <1>10, AddType DEF IMemRA, Debug, DebugInput
  <2>2. /\ d.dataOut = dbg.dataOut /\ d.dataMode = dbg.dataMode
        /\ d.imemRA = r.arg /\ d.imemWA = dbg.imemWA
        /\ d.dmemA = dbg.dmemA
        /\ d.idMode = FALSE /\ d.ddMode = FALSE
    BY <1>2, <1>3, <1>5 DEF Debug
  <2> HIDE DEF d
  <2>3. /\ dbg'.dataOut = dbg.dataOut /\ dbg'.dataMode = dbg.dataMode
        /\ dbg'.imemRA = r.arg /\ dbg'.imemWA = dbg.imemWA
        /\ dbg'.dmemA = dbg.dmemA
        /\ dbg'.idMode = FALSE /\ dbg'.ddMode = FALSE
        /\ dbg'.enablePrev
    BY <1>2, <1>3, <2>1, <2>2, EdgeKeeps
  <2>4. Port!SetCodeR(r.arg)
    BY <1>0, <1>1, <1>2, <1>3, <1>10, <2>3
       DEF IMemRA, Command, Port!SetCodeR, Port!Given, Past
  <2> QED
    BY <1>0, <1>1, <1>10, <2>3, <2>4 DEF Port!Next, IMemRA, Command
<1>11. CASE IMemWA(din)
  <2> DEFINE d == [dbg EXCEPT !.imemWA = din.dataIn]
  <2>1. Edge(din, d) /\ d \in Debug
    BY <1>3, <1>5, <1>11, AddType DEF IMemWA, Debug, DebugInput
  <2>2. /\ d.dataOut = dbg.dataOut /\ d.dataMode = dbg.dataMode
        /\ d.imemRA = dbg.imemRA /\ d.imemWA = r.arg
        /\ d.dmemA = dbg.dmemA
        /\ d.idMode = FALSE /\ d.ddMode = FALSE
    BY <1>2, <1>3, <1>5 DEF Debug
  <2> HIDE DEF d
  <2>3. /\ dbg'.dataOut = dbg.dataOut /\ dbg'.dataMode = dbg.dataMode
        /\ dbg'.imemRA = dbg.imemRA /\ dbg'.imemWA = r.arg
        /\ dbg'.dmemA = dbg.dmemA
        /\ dbg'.idMode = FALSE /\ dbg'.ddMode = FALSE
        /\ dbg'.enablePrev
    BY <1>2, <1>3, <2>1, <2>2, EdgeKeeps
  <2>4. Port!SetCodeW(r.arg)
    BY <1>0, <1>1, <1>2, <1>3, <1>11, <2>3
       DEF IMemWA, Command, Port!SetCodeW, Port!Given, Past
  <2> QED
    BY <1>0, <1>1, <1>11, <2>3, <2>4 DEF Port!Next, IMemWA, Command
<1>12. CASE IMemRD(din)
  <2> DEFINE d == [dbg EXCEPT !.dataOut = din.idrData, !.dataMode = "I",
                          !.imemRA = Add(@, 4)]
  <2>1. Edge(din, d) /\ d \in Debug
    BY <1>3, <1>5, <1>12, AddType DEF IMemRD, Debug, DebugInput
  <2>2. /\ d.dataOut = din.idrData /\ d.dataMode = "I"
        /\ d.imemRA = Add(dbg.imemRA, 4) /\ d.imemWA = dbg.imemWA
        /\ d.dmemA = dbg.dmemA
        /\ d.idMode = FALSE /\ d.ddMode = FALSE
    BY <1>2, <1>3, <1>5 DEF Debug
  <2> HIDE DEF d
  <2>3. /\ dbg'.dataOut = din.idrData /\ dbg'.dataMode = "I"
        /\ dbg'.imemRA = Add(dbg.imemRA, 4) /\ dbg'.imemWA = dbg.imemWA
        /\ dbg'.dmemA = dbg.dmemA
        /\ dbg'.idMode = FALSE /\ dbg'.ddMode = FALSE
        /\ dbg'.enablePrev
    BY <1>2, <1>3, <2>1, <2>2, EdgeKeeps
  <2>4. Port!ReadCode(r.arg)
    BY <1>0, <1>1, <1>2, <1>3, <1>12, <2>3, PortOperators
       DEF IMemRD, Command, Port!ReadCode, Port!Given, Past
  <2> QED
    BY <1>0, <1>1, <1>12, <2>3, <2>4 DEF Port!Next, IMemRD, Command
<1>13. CASE IMemWD(din)
  <2> DEFINE d == [dbg EXCEPT !.idMode = TRUE]
  <2>1. Edge(din, d) /\ d \in Debug
    BY <1>3, <1>5, <1>13, AddType DEF IMemWD, Debug, DebugInput
  <2>2. /\ d.dataOut = dbg.dataOut /\ d.dataMode = dbg.dataMode
        /\ d.imemRA = dbg.imemRA /\ d.imemWA = dbg.imemWA
        /\ d.dmemA = dbg.dmemA
        /\ d.idMode = TRUE /\ d.ddMode = FALSE
    BY <1>2, <1>3, <1>5 DEF Debug
  <2> HIDE DEF d
  <2>3. /\ dbg'.dataOut = dbg.dataOut /\ dbg'.dataMode = dbg.dataMode
        /\ dbg'.imemRA = dbg.imemRA /\ dbg'.imemWA = dbg.imemWA
        /\ dbg'.dmemA = dbg.dmemA
        /\ dbg'.idMode = TRUE /\ dbg'.ddMode = FALSE
        /\ dbg'.enablePrev
    BY <1>2, <1>3, <2>1, <2>2, EdgeKeeps
  <2>4. Port!WriteCode(r.arg)
    BY <1>0, <1>1, <1>2, <1>3, <1>13, <2>3, PortOperators
       DEF IMemWD, Command, Port!WriteCode, Port!Given, Past
  <2> QED
    BY <1>0, <1>1, <1>3, <1>13, <2>3, <2>4 DEF Port!Next, IMemWD, Command
<1>14. CASE DMemA(din)
  <2> DEFINE d == [dbg EXCEPT !.dmemA = din.dataIn]
  <2>1. Edge(din, d) /\ d \in Debug
    BY <1>3, <1>5, <1>14, AddType DEF DMemA, Debug, DebugInput
  <2>2. /\ d.dataOut = dbg.dataOut /\ d.dataMode = dbg.dataMode
        /\ d.imemRA = dbg.imemRA /\ d.imemWA = dbg.imemWA
        /\ d.dmemA = r.arg
        /\ d.idMode = FALSE /\ d.ddMode = FALSE
    BY <1>2, <1>3, <1>5 DEF Debug
  <2> HIDE DEF d
  <2>3. /\ dbg'.dataOut = dbg.dataOut /\ dbg'.dataMode = dbg.dataMode
        /\ dbg'.imemRA = dbg.imemRA /\ dbg'.imemWA = dbg.imemWA
        /\ dbg'.dmemA = r.arg
        /\ dbg'.idMode = FALSE /\ dbg'.ddMode = FALSE
        /\ dbg'.enablePrev
    BY <1>2, <1>3, <2>1, <2>2, EdgeKeeps
  <2>4. Port!SetData(r.arg)
    BY <1>0, <1>1, <1>2, <1>3, <1>14, <2>3
       DEF DMemA, Command, Port!SetData, Port!Given, Past
  <2> QED
    BY <1>0, <1>1, <1>14, <2>3, <2>4 DEF Port!Next, DMemA, Command
<1>15. CASE DMemRD(din)
  <2> DEFINE d == [dbg EXCEPT !.dataOut = din.ddataR, !.dataMode = "I",
                          !.dmemA = Add(@, 4)]
  <2>1. Edge(din, d) /\ d \in Debug
    BY <1>3, <1>5, <1>15, AddType DEF DMemRD, Debug, DebugInput
  <2>2. /\ d.dataOut = din.ddataR /\ d.dataMode = "I"
        /\ d.imemRA = dbg.imemRA /\ d.imemWA = dbg.imemWA
        /\ d.dmemA = Add(dbg.dmemA, 4)
        /\ d.idMode = FALSE /\ d.ddMode = FALSE
    BY <1>2, <1>3, <1>5 DEF Debug
  <2> HIDE DEF d
  <2>3. /\ dbg'.dataOut = din.ddataR /\ dbg'.dataMode = "I"
        /\ dbg'.imemRA = dbg.imemRA /\ dbg'.imemWA = dbg.imemWA
        /\ dbg'.dmemA = Add(dbg.dmemA, 4)
        /\ dbg'.idMode = FALSE /\ dbg'.ddMode = FALSE
        /\ dbg'.enablePrev
    BY <1>2, <1>3, <2>1, <2>2, EdgeKeeps
  <2>4. Port!ReadData(r.arg)
    BY <1>0, <1>1, <1>2, <1>3, <1>15, <2>3, PortOperators
       DEF DMemRD, Command, Port!ReadData, Port!Given, Past
  <2> QED
    BY <1>0, <1>1, <1>15, <2>3, <2>4 DEF Port!Next, DMemRD, Command
<1>16. CASE DMemWD(din)
  <2> DEFINE d == [dbg EXCEPT !.ddMode = TRUE]
  <2>1. Edge(din, d) /\ d \in Debug
    BY <1>3, <1>5, <1>16, AddType DEF DMemWD, Debug, DebugInput
  <2>2. /\ d.dataOut = dbg.dataOut /\ d.dataMode = dbg.dataMode
        /\ d.imemRA = dbg.imemRA /\ d.imemWA = dbg.imemWA
        /\ d.dmemA = dbg.dmemA
        /\ d.idMode = FALSE /\ d.ddMode = TRUE
    BY <1>2, <1>3, <1>5 DEF Debug
  <2> HIDE DEF d
  <2>3. /\ dbg'.dataOut = dbg.dataOut /\ dbg'.dataMode = dbg.dataMode
        /\ dbg'.imemRA = dbg.imemRA /\ dbg'.imemWA = dbg.imemWA
        /\ dbg'.dmemA = dbg.dmemA
        /\ dbg'.idMode = FALSE /\ dbg'.ddMode = TRUE
        /\ dbg'.enablePrev
    BY <1>2, <1>3, <2>1, <2>2, EdgeKeeps
  <2>4. Port!WriteData(r.arg)
    BY <1>0, <1>1, <1>2, <1>3, <1>16, <2>3, PortOperators
       DEF DMemWD, Command, Port!WriteData, Port!Given, Past
  <2> QED
    BY <1>0, <1>1, <1>3, <1>16, <2>3, <2>4 DEF Port!Next, DMemWD, Command
<1> QED
  BY <1>3, <1>6, <1>7, <1>8, <1>9, <1>10, <1>11, <1>12, <1>13, <1>14, <1>15,
     <1>16 DEF DebugClock

(***************************************************************************)
(* The second ends a write that was under way, which the port had already  *)
(* seen done.                                                              *)
(***************************************************************************)
LEMMA LowerStep ==
  ASSUME SessionInv, Lower
  PROVE  SessionInv' /\ UNCHANGED Port!port
<1> DEFINE din == DebugIn(Drive(FALSE, req))
<1>1. /\ raised /\ raised' = FALSE /\ req' = req /\ Tick(Drive(FALSE, req))
      /\ req \in [op : Commands, arg : Word]
      /\ req.op \in Ops /\ req.arg \in Args
  BY DEF Lower, SessionInv
<1>2. /\ PackageTypeOK' /\ CoreQuiet' /\ dbg \in Debug
      /\ DebugClock(din) /\ ~din.reset /\ din.enable = FALSE
      /\ imem' = IF dbg.idMode
                 THEN [imem EXCEPT ![IIndex(dbg.imemWA)] = req.arg]
                 ELSE imem
      /\ dmem' = IF dbg.ddMode
                 THEN [dmem EXCEPT ![DIndex(dbg.dmemA)] = ToCell(req.arg)]
                 ELSE dmem
  BY <1>1, TickCommon
<1> HIDE DEF din
<1>3. Edge(din, dbg)
  <2>1. ~Update(din)
    BY <1>2 DEF Update
  <2> QED
    BY <1>2, <2>1 DEF DebugClock, Idle, Halt, Start, ReadPC, IMemRA, IMemWA,
                      IMemRD, IMemWD, DMemA, DMemRD, DMemWD, Command
<1>4. /\ dbg'.dataOut = dbg.dataOut /\ dbg'.dataMode = dbg.dataMode
      /\ dbg'.imemRA = dbg.imemRA
      /\ dbg'.imemWA = Past(dbg.idMode, dbg.imemWA)
      /\ dbg'.dmemA = Past(dbg.ddMode, dbg.dmemA)
      /\ dbg'.idMode = FALSE /\ dbg'.ddMode = FALSE
      /\ dbg'.enablePrev = FALSE
  BY <1>2, <1>3, EdgeEnds
<1>5. SessionInv'
  BY <1>1, <1>2, <1>4 DEF SessionInv
<1>6. UNCHANGED Port!port
  BY <1>1, <1>2, <1>4 DEF Port!port, Past
<1> QED
  BY <1>5, <1>6

-----------------------------------------------------------------------------
(***************************************************************************)
(* The refinement.                                                         *)
(***************************************************************************)
LEMMA SessionInvInit ==
  ASSUME SessionInit, host = Tests
  PROVE  SessionInv /\ Port!Init
<1>1. PackageTypeOK /\ CoreQuiet
  BY PackageTypeInit, QuietInit DEF SessionInit
<1>2. dbg = DebugReset /\ raised = FALSE /\ req = [op |-> "NOP", arg |-> 0]
  BY DEF SessionInit, PackageInit, DebugInit
<1>3. req \in [op : Commands, arg : Word]
  BY <1>2, AddType DEF Commands
<1>4. SessionInv
  BY <1>1, <1>2, <1>3 DEF SessionInv, DebugReset
<1>5. Port!Init
  <2>1. imem \in IMem /\ dmem \in DMem
    BY <1>1 DEF PackageTypeOK
  <2> QED
    BY <1>2, <2>1 DEF Port!Init, DebugReset, Past, Port!IMem, IMem, Port!DMem,
       DMem, Port!Word, Word, Port!WordMod, WordMod, Port!Cell, Cell,
       Port!Byte, Byte, Port!ByteMod, ByteMod
<1> QED
  BY <1>4, <1>5

LEMMA SessionInvStep ==
  ASSUME host = Tests => SessionInv, [SessionNext]_session
  PROVE  /\ (host = Tests => SessionInv)'
         /\ [host = Tests => Port!Next]_(Port!port)
<1>1. CASE Lower
  BY <1>1, LowerStep DEF Lower
<1>2. ASSUME NEW r \in [op : Ops, arg : Args], Raise(r)
      PROVE  SessionInv' /\ Port!Next
  BY <1>2, RaiseStep DEF Raise
<1>3. CASE Act
  BY <1>3 DEF Act
<1>4. CASE UNCHANGED session
  <2>1. SessionInv => SessionInv'
    BY <1>4 DEF session, package, core, SessionInv, CoreQuiet, Harmless,
                PackageTypeOK, CoreTypeOK, DebugTypeOK
  <2>2. UNCHANGED Port!port
    BY <1>4 DEF session, package, Port!port, Past
  <2>3. host' = host /\ Tests' = Tests
    BY <1>4 DEF session, Tests
  <2> QED
    BY <2>1, <2>2, <2>3
<1> QED
  BY <1>1, <1>2, <1>3, <1>4 DEF SessionNext

(***************************************************************************)
(* For a host that holds its command for two clocks, and as long as the    *)
(* paused core stores nothing, every command of the debugger is atomic:    *)
(* see ImplementsPort.                                                     *)
(***************************************************************************)
THEOREM PortIsImplemented == SessionSpec => ImplementsPort
<1>1. SessionInit => (host = Tests => SessionInv) /\ (host = Tests => Port!Init)
  BY SessionInvInit
<1>2. (host = Tests => SessionInv) /\ [SessionNext]_session
        => (host = Tests => SessionInv)' /\ [host = Tests => Port!Next]_(Port!port)
  BY SessionInvStep
<1> QED
  BY <1>1, <1>2, PTL DEF SessionSpec, ImplementsPort

-----------------------------------------------------------------------------
(***************************************************************************)
(* THE BOARD.                                                              *)
(***************************************************************************)

-----------------------------------------------------------------------------
(***************************************************************************)
(* Types.                                                                  *)
(***************************************************************************)
LEMMA SubType == \A a, b \in Word : Sub(a, b) \in Word
BY WordAssumption DEF Sub, Word

LEMMA RomDataType ==
  ASSUME romAddr \in Word
  PROVE  RomData(IRom) \in Word /\ RomData(DRom) \in Word
<1>1. romAddr % RomDepth \in 0 .. (RomDepth - 1)
  BY WordAssumption, BoardAssumption DEF Word
<1>2. RomBeyond[romAddr % RomDepth] \in Word
  BY <1>1, BoardAssumption
<1> QED
  BY <1>2, BoardAssumption DEF RomData

\* What the state machine puts on the wires are inputs of the package.
LEMMA BoardInType == ASSUME BoardTypeOK PROVE BoardIn \in PackageInput
<1>1. /\ sw.reset \in BOOLEAN /\ sw.run \in BOOLEAN /\ sw.addr \in Word
      /\ romAddr \in Word /\ dEnable \in BOOLEAN
  BY BoardAssumption DEF BoardTypeOK, Switch
<1>2. DControl \in Commands
  BY DEF DControl, BoardTypeOK, Commands
<1>3. DDataIn \in Word
  BY <1>1, AddType, RomDataType DEF DDataIn, BoardTypeOK
<1> QED
  BY <1>1, <1>2, <1>3 DEF BoardIn, PackageInput

\* The word the debugger shows.
LEMMA DataOutType == ASSUME PackageTypeOK PROVE DataOut(pc) \in Word
BY DEF PackageTypeOK, CoreTypeOK, DebugTypeOK, Debug, DataOut

(***************************************************************************)
(* The handshake.  dEnable is low in the states that raise it without      *)
(* looking (1 and 3), and never stays up for a second clock; the debugger  *)
(* remembers exactly the last value of it.                                 *)
(***************************************************************************)
HandshakeInv ==
  /\ BoardTypeOK
  /\ state \in {1, 3} => ~dEnable
  /\ dEnable => ~dbg.enablePrev

LEMMA HandshakeInit == BoardInit => HandshakeInv
<1> SUFFICES ASSUME BoardInit PROVE HandshakeInv
  OBVIOUS
<1>1. PackageTypeOK
  BY PackageTypeInit DEF BoardInit
<1>2. /\ state \in 0 .. 4 \cup 12 .. 15 /\ state \notin {1, 3}
      /\ romAddr \in Word /\ dispData \in Word
  BY AddType DEF BoardInit
<1>3. /\ action \in Commands /\ ~dEnable /\ dEnable \in BOOLEAN
      /\ pressed \in [1 .. EdgeDelay -> BOOLEAN] /\ sw \in Switches
  BY DEF BoardInit, Commands
<1> QED
  BY <1>1, <1>2, <1>3 DEF BoardTypeOK, HandshakeInv

\* The registers of the state machine.
LEMMA SampleType ==
  ASSUME BoardTypeOK
  PROVE  Sample \/ UNCHANGED pressed
           => pressed' \in [1 .. EdgeDelay -> BOOLEAN]
<1>1. /\ sw.step \in BOOLEAN
      /\ pressed \in [1 .. EdgeDelay -> BOOLEAN]
  BY BoardAssumption DEF Switch, BoardTypeOK
<1>2. \A k \in 1 .. EdgeDelay :
        (IF k = 1 THEN sw.step ELSE pressed[k - 1]) \in BOOLEAN
  <2>1. \A k \in 1 .. EdgeDelay : k # 1 => k - 1 \in 1 .. EdgeDelay
    BY DEF EdgeDelay
  <2> QED
    BY <1>1, <2>1
<1> QED
  BY <1>1, <1>2 DEF Sample

LEMMA MainType ==
  ASSUME HandshakeInv, Main
  PROVE  /\ state' \in 0 .. 4 \cup 12 .. 15
         /\ action' \in Commands
         /\ dEnable' \in BOOLEAN
         /\ romAddr' \in Word /\ dispData' \in Word
         /\ pressed' \in [1 .. EdgeDelay -> BOOLEAN]
         /\ state' \in {1, 3} => ~dEnable'
         /\ dEnable' => ~dEnable
<1> DEFINE States == 0 .. 4 \cup 12 .. 15
           Good == /\ state' \in States /\ (state' \in {1, 3} => ~dEnable')
                   /\ dEnable' \in BOOLEAN /\ (dEnable' => ~dEnable)
                   /\ action' \in Commands
                   /\ romAddr' \in Word /\ dispData' \in Word
                   /\ Sample \/ UNCHANGED pressed
<1> SUFFICES Good
  BY SampleType DEF HandshakeInv
<1>1. /\ Add(romAddr, 1) \in Word /\ Sub(romAddr, 1) \in Word
      /\ 0 \in Word /\ DMemBase \in Word /\ DataOut(pc) \in Word
  BY WordAssumption, MemoryAssumption, DataOutType
     DEF HandshakeInv, BoardTypeOK, Add, Sub, Word
<1>2. /\ state \in States /\ dEnable \in BOOLEAN /\ action \in Commands
      /\ romAddr \in Word /\ dispData \in Word
      /\ state \in {1, 3} => ~dEnable
  BY DEF HandshakeInv, BoardTypeOK
<1>3. /\ {"NOP", "STEP", "DMEMRA", "IMEMRA", "DMEMRD", "IMEMRD"}
           \subseteq Commands
  BY DEF Commands
<1>4. CASE Restart
  <2>1. /\ state' = 12 /\ action' = "NOP" /\ ~dEnable' /\ dEnable' \in BOOLEAN
        /\ romAddr' = 0 /\ dispData' = 0
        /\ Sample \/ UNCHANGED pressed
    BY <1>4 DEF Restart
  <2> QED
    BY <1>1, <1>3, <2>1
<1>5. CASE CodeAddress
  <2>1. /\ state' = 12 \/ state' = 13
        /\ romAddr' = Sub(romAddr, 1) \/ romAddr' = romAddr
        /\ dEnable' = ~dEnable
        /\ UNCHANGED <<action, dispData, pressed>>
    BY <1>5 DEF CodeAddress, Loading
  <2>2. dEnable' \in BOOLEAN /\ (dEnable' => ~dEnable)
    BY <2>1
  <2>3. state' \in States /\ state' \notin {1, 3}
    BY <2>1
  <2> QED
    BY <1>1, <1>2, <2>1, <2>2, <2>3
<1>6. CASE NextCode
  BY <1>1, <1>2, <1>6 DEF NextCode, Loading
<1>7. CASE DataAddress
  <2>1. /\ state' = 14 \/ state' = 15
        /\ dEnable' = ~dEnable
        /\ UNCHANGED <<romAddr, action, dispData, pressed>>
    BY <1>7 DEF DataAddress, Loading
  <2>2. dEnable' \in BOOLEAN /\ (dEnable' => ~dEnable)
    BY <2>1
  <2>3. state' \in States /\ state' \notin {1, 3}
    BY <2>1
  <2> QED
    BY <1>1, <1>2, <2>1, <2>2, <2>3
<1>8. CASE NextData
  BY <1>1, <1>2, <1>8 DEF NextData, Loading
<1>9. CASE WriteWord
  BY <1>1, <1>2, <1>9 DEF WriteWord, Loading
<1>10. CASE AskStep
  <2>1. /\ state' = 1 /\ ~dEnable' /\ dEnable' \in BOOLEAN
        /\ action' = "STEP"
        /\ UNCHANGED <<romAddr, dispData>>
        /\ Sample \/ UNCHANGED pressed
    BY <1>10 DEF AskStep
  <2> QED
    BY <1>2, <1>3, <2>1
<1>11. CASE AskWord
  <2>1. /\ state' = 3 /\ ~dEnable' /\ dEnable' \in BOOLEAN
        /\ action' = "DMEMRA" \/ action' = "IMEMRA"
        /\ UNCHANGED <<romAddr, dispData>>
        /\ Sample \/ UNCHANGED pressed
    BY <1>11 DEF AskWord
  <2> QED
    BY <1>2, <1>3, <2>1
<1>12. CASE GiveAddress
  BY <1>1, <1>2, <1>12 DEF GiveAddress
<1>13. CASE ThenRead
  <2>1. /\ state' = 1 /\ ~dEnable' /\ dEnable' \in BOOLEAN
        /\ action' = "DMEMRD" \/ action' = "IMEMRD"
        /\ UNCHANGED <<romAddr, dispData>>
        /\ Sample \/ UNCHANGED pressed
    BY <1>13 DEF ThenRead
  <2> QED
    BY <1>2, <1>3, <2>1
<1>14. CASE GiveCommand
  BY <1>1, <1>2, <1>14 DEF GiveCommand
<1>15. CASE TakeAnswer
  <2>1. /\ state' = 0 /\ ~dEnable' /\ dEnable' \in BOOLEAN
        /\ action' = "NOP" /\ dispData' = DataOut(pc)
        /\ UNCHANGED <<romAddr, pressed>>
    BY <1>15 DEF TakeAnswer
  <2> QED
    BY <1>1, <1>2, <1>3, <2>1
<1> QED
  BY <1>4, <1>5, <1>6, <1>7, <1>8, <1>9, <1>10, <1>11, <1>12, <1>13, <1>14,
     <1>15 DEF Main

LEMMA HandshakeStep == HandshakeInv /\ [BoardNext]_board => HandshakeInv'
<1> SUFFICES ASSUME HandshakeInv, [BoardNext]_board PROVE HandshakeInv'
  OBVIOUS
<1>1. CASE BoardNext
  <2>1. BoardIn \in PackageInput
    BY BoardInType DEF HandshakeInv
  <2>2. PackageTypeOK'
    BY <1>1, <2>1, TickType DEF BoardNext, HandshakeInv, BoardTypeOK
  <2>3. dbg'.enablePrev = dEnable
    <3>1. DebugIn(BoardIn) \in DebugInput /\ dbg \in Debug
          /\ DebugClock(DebugIn(BoardIn))
      BY <1>1, <2>1, WiresType
         DEF BoardNext, HandshakeInv, BoardTypeOK, PackageTypeOK,
             DebugTypeOK, Tick
    <3>2. PICK d \in Debug : Edge(DebugIn(BoardIn), d)
      BY <3>1, CommandType
    <3>3. dbg'.enablePrev = DebugIn(BoardIn).enable
      BY <3>1, <3>2, EdgeTiming
    <3> QED
      BY <3>3 DEF DebugIn, BoardIn
  <2> QED
    BY <1>1, <2>2, <2>3, MainType DEF BoardNext, HandshakeInv, BoardTypeOK
<1>2. CASE UNCHANGED board
  <2>1. PackageTypeOK' /\ BoardTypeOK'
    BY <1>2 DEF HandshakeInv, BoardTypeOK, board, registers, package, core,
                PackageTypeOK, CoreTypeOK, DebugTypeOK
  <2> QED
    BY <1>2, <2>1 DEF HandshakeInv, board, registers, package
<1> QED
  BY <1>1, <1>2

(***************************************************************************)
(* The board keeps to its types: the state machine stays in its states and *)
(* gives the package only what it can take.                                *)
(***************************************************************************)
THEOREM BoardTypes == BoardSpec => []BoardTypeOK
<1>1. HandshakeInv => BoardTypeOK
  BY DEF HandshakeInv
<1> QED
  BY <1>1, HandshakeInit, HandshakeStep, PTL DEF BoardSpec

(***************************************************************************)
(* No command of the board is lost: see EveryPulseIsTaken.                 *)
(***************************************************************************)
THEOREM PulsesAreTaken == BoardSpec => []EveryPulseIsTaken
<1>1. HandshakeInv => EveryPulseIsTaken
  BY DEF HandshakeInv, EveryPulseIsTaken, Update, DebugIn, BoardIn
<1> QED
  BY <1>1, HandshakeInit, HandshakeStep, PTL DEF BoardSpec

-----------------------------------------------------------------------------
(***************************************************************************)
(* Loading the code.  The ROM address runs one ahead of the write that is  *)
(* under way, and the debugger counts its own address, four for a word.    *)
(* The invariant ties the two counters together: when the ROM is at word n *)
(* the words below n are in memory, and the debugger is at 4 n.  The first *)
(* word is the exception, for which the ROM address is minus one.          *)
(***************************************************************************)
Loaded(n) == \A k \in 0 .. (n - 1) : imem[k] = IRom[k]

LoadInv ==
  /\ HandshakeInv
  /\ action # "IMEMWD"
  /\ state = 12 => romAddr = 0 /\ ~dbg.idMode
  /\ state = 13 =>
       \/ /\ romAddr = WordMod - 1 /\ ~dEnable
          /\ ~dbg.idMode /\ dbg.imemWA = 0
       \/ /\ romAddr <= Length(IRom) /\ Loaded(romAddr)
          /\ dbg.idMode <=> ~dEnable
          /\ dbg.imemWA = (4 * romAddr) % WordMod
  /\ state \notin {12, 13} => ~dbg.idMode /\ Loaded(Length(IRom))

\* The length of a ROM.
LEMMA RomLength ==
  /\ Length(IRom) \in Nat /\ Length(IRom) <= RomDepth
  /\ DOMAIN IRom = 0 .. (Length(IRom) - 1)
<1>1. PICK n \in 0 .. RomDepth : IRom \in [0 .. (n - 1) -> Word]
  BY BoardAssumption
<1>2. DOMAIN IRom = 0 .. (n - 1)
  BY <1>1
<1>3. Cardinality(0 .. (n - 1)) = n
  <2>1. n \in Nat
    BY <1>1, BoardAssumption
  <2>2. Cardinality(0 .. (n - 1)) =
          IF 0 > n - 1 THEN 0 ELSE (n - 1) - 0 + 1
    BY <2>1, FS_Interval
  <2> QED
    BY <2>1, <2>2
<1> QED
  BY <1>1, <1>2, <1>3, BoardAssumption DEF Length

\* The debugger's side of a clock: what it does to instruction memory.
LEMMA CodeSide ==
  ASSUME HandshakeInv, BoardNext
  PROVE  /\ dbg'.idMode <=> /\ ~sw.reset /\ ~dbg.idMode
                            /\ dEnable /\ DControl = "IMEMWD"
         /\ ~sw.reset /\ dbg.idMode => dbg'.imemWA = Add(dbg.imemWA, 4)
         /\ ~sw.reset /\ ~dbg.idMode =>
              dbg'.imemWA = IF dEnable /\ DControl = "IMEMWA" THEN DDataIn
                            ELSE dbg.imemWA
         /\ imem' = IF dbg.idMode
                    THEN [imem EXCEPT ![IIndex(dbg.imemWA)] = DDataIn]
                    ELSE imem
<1> DEFINE din == DebugIn(BoardIn)
<1>1. /\ din \in DebugInput /\ dbg \in Debug /\ DebugClock(din)
      /\ IMemNext(BoardIn)
  BY BoardInType, WiresType
     DEF HandshakeInv, BoardTypeOK, PackageTypeOK, DebugTypeOK, BoardNext,
         Tick
<1>2. /\ din.reset = sw.reset /\ din.enable = dEnable
      /\ din.control = DControl /\ din.dataIn = DDataIn
      /\ BoardIn.dDataIn = DDataIn
  BY DEF DebugIn, BoardIn
<1> HIDE DEF din
<1>3. PICK d \in Debug :
        /\ Edge(din, d)
        /\ d.idMode => dbg.idMode \/ Command(din, "IMEMWD")
        /\ dbg.idMode \/ Command(din, "IMEMWD") => d.idMode
        /\ d.imemWA = IF Command(din, "IMEMWA") THEN din.dataIn
                      ELSE dbg.imemWA
  BY <1>1, CommandType
<1>4. \A c : Command(din, c) <=> dEnable /\ DControl = c
  BY <1>2 DEF Command, Update, HandshakeInv
<1>5. CASE sw.reset
  <2>1. dbg'.idMode = FALSE
    BY <1>2, <1>3, <1>5 DEF Edge, DebugReset
  <2> QED
    BY <1>1, <1>2, <1>5, <2>1 DEF IMemNext
<1>6. CASE ~sw.reset
  <2>1. /\ dbg'.idMode = (IF dbg.idMode THEN FALSE ELSE d.idMode)
        /\ dbg'.imemWA = (IF dbg.idMode THEN Add(dbg.imemWA, 4)
                          ELSE d.imemWA)
    BY <1>2, <1>3, <1>6 DEF Edge, Debug
  <2> QED
    BY <1>1, <1>2, <1>3, <1>4, <1>6, <2>1 DEF IMemNext, Debug
<1> QED
  BY <1>5, <1>6
\* The write at ROM word n goes to cell n of the memory, and if n is past the
\* end it does no harm: see CodeFits.
LEMMA WordIndex ==
  ASSUME CodeFits, NEW n \in 0 .. Length(IRom)
  PROVE  /\ n < Length(IRom) => IIndex((4 * n) % WordMod) = n
         /\ Length(IRom) < IMemWords => IIndex((4 * n) % WordMod) = n
         /\ n = IMemWords => IIndex((4 * n) % WordMod) = 0
<1>1. /\ n \in Nat /\ IMemWords \in Nat \ {0} /\ WordMod \in Nat \ {0}
      /\ Length(IRom) \in Nat /\ Length(IRom) <= IMemWords
      /\ 4 * IMemWords <= WordMod
  BY WordAssumption, MemoryAssumption, RomLength DEF CodeFits
<1>2. ASSUME n < IMemWords PROVE IIndex((4 * n) % WordMod) = n
  <2>1. (4 * n) % WordMod = 4 * n
    BY <1>1, <1>2
  <2>2. (4 * n) \div 4 = n /\ n % IMemWords = n
    BY <1>1, <1>2
  <2> QED
    BY <2>1, <2>2 DEF IIndex
<1>3. ASSUME n = IMemWords PROVE IIndex((4 * n) % WordMod) = 0
  <2>1. CASE 4 * n < WordMod
    <3>1. (4 * n) % WordMod = 4 * n
      BY <1>1, <2>1
    <3>2. (4 * n) \div 4 = n /\ n % n = 0
      BY <1>1, <1>3
    <3> QED
      BY <1>3, <3>1, <3>2 DEF IIndex
  <2>2. CASE 4 * n = WordMod
    <3>1. (4 * n) % WordMod = 0
      BY <1>1, <2>2
    <3>2. 0 \div 4 = 0 /\ 0 % IMemWords = 0
      BY <1>1
    <3> QED
      BY <3>1, <3>2 DEF IIndex
  <2> QED
    BY <1>1, <1>3, <2>1, <2>2
<1> QED
  BY <1>1, <1>2, <1>3

LEMMA WordWritten ==
  ASSUME HandshakeInv, CodeFits, state = 13,
         romAddr <= Length(IRom), Loaded(romAddr),
         imem' = [imem EXCEPT ![IIndex((4 * romAddr) % WordMod)] = DDataIn]
  PROVE  /\ romAddr < Length(IRom) =>
              \A k \in 0 .. romAddr : imem'[k] = IRom[k]
         /\ romAddr = Length(IRom) =>
              \A k \in 0 .. (Length(IRom) - 1) : imem'[k] = IRom[k]
<1> DEFINE n == romAddr
           len == Length(IRom)
<1>1. /\ n \in 0 .. len /\ n \in Nat /\ len \in Nat /\ len <= RomDepth
      /\ DOMAIN IRom = 0 .. (len - 1) /\ RomDepth \in Nat \ {0}
      /\ IMemWords \in Nat \ {0} /\ len <= IMemWords
      /\ imem \in [0 .. (IMemWords - 1) -> Word]
  BY RomLength, WordAssumption, MemoryAssumption, BoardAssumption
     DEF HandshakeInv, BoardTypeOK, PackageTypeOK, Word, IMem, CodeFits
<1>2. DDataIn = RomData(IRom)
  BY DEF DDataIn
<1>3. \A k \in 0 .. (n - 1) : imem[k] = IRom[k]
  BY DEF Loaded
<1>4. ASSUME n < len PROVE \A k \in 0 .. n : imem'[k] = IRom[k]
  <2>1. n % RomDepth = n
    BY <1>1, <1>4
  <2>2. n \in DOMAIN IRom
    BY <1>1, <1>4
  <2>3. DDataIn = IRom[n]
    BY <1>2, <2>1, <2>2 DEF RomData
  <2>4. IIndex((4 * n) % WordMod) = n
    BY <1>1, <1>4, WordIndex
  <2>5. imem' = [imem EXCEPT ![n] = IRom[n]]
    BY <2>3, <2>4
  <2>6. \A k \in 0 .. n : k \in 0 .. (IMemWords - 1)
                           /\ (k = n \/ k \in 0 .. (n - 1))
    BY <1>1, <1>4
  <2> QED
    BY <1>1, <1>3, <2>5, <2>6
<1>5. ASSUME n = len PROVE \A k \in 0 .. (len - 1) : imem'[k] = IRom[k]
  <2>1. CASE len < IMemWords
    <3>1. IIndex((4 * n) % WordMod) = n
      BY <1>1, <2>1, WordIndex
    <3>2. \A k \in 0 .. (len - 1) : k \in 0 .. (IMemWords - 1) /\ k # n
      BY <1>1, <1>5
    <3> QED
      BY <1>1, <1>3, <1>5, <3>1, <3>2
  <2>2. CASE len = IMemWords /\ RomDepth = IMemWords
    <3>1. IIndex((4 * n) % WordMod) = 0
      BY <1>1, <1>5, <2>2, WordIndex
    <3>2. n % RomDepth = 0 /\ 0 \in DOMAIN IRom
      BY <1>1, <1>5, <2>2
    <3>3. DDataIn = IRom[0]
      BY <1>2, <3>2 DEF RomData
    <3>4. \A k \in 0 .. (len - 1) : k \in 0 .. (IMemWords - 1)
      BY <1>1
    <3> QED
      BY <1>1, <1>3, <1>5, <3>1, <3>3, <3>4
  <2> QED
    BY <2>1, <2>2 DEF CodeFits
<1> QED
  BY <1>4, <1>5

LEMMA LoadInit == ASSUME BoardInit PROVE LoadInv
BY HandshakeInit
   DEF BoardInit, LoadInv, PackageInit, DebugInit, DebugReset

LEMMA LoadTick ==
  ASSUME LoadInv, CodeFits, BoardNext
  PROVE  LoadInv'
<1> DEFINE len == Length(IRom)
<1>1. HandshakeInv /\ HandshakeInv'
  BY HandshakeStep DEF LoadInv
<1>2. /\ state \in 0 .. 4 \cup 12 .. 15 /\ dEnable \in BOOLEAN
      /\ romAddr \in 0 .. (WordMod - 1) /\ WordMod \in Nat \ {0}
      /\ len \in Nat /\ len + 1 < WordMod /\ 4 * len <= WordMod
      /\ dbg.idMode \in BOOLEAN
  <2>1. IMemWords \in Nat \ {0} /\ len <= IMemWords
        /\ 4 * IMemWords <= WordMod
    BY MemoryAssumption, RomLength DEF CodeFits
  <2> QED
    BY <1>1, <2>1, RomLength, WordAssumption
       DEF HandshakeInv, BoardTypeOK, PackageTypeOK, DebugTypeOK, Debug, Word
<1>3. /\ dbg'.idMode <=> /\ ~sw.reset /\ ~dbg.idMode
                         /\ dEnable /\ DControl = "IMEMWD"
      /\ ~sw.reset /\ dbg.idMode => dbg'.imemWA = Add(dbg.imemWA, 4)
      /\ ~sw.reset /\ ~dbg.idMode =>
           dbg'.imemWA = IF dEnable /\ DControl = "IMEMWA" THEN DDataIn
                         ELSE dbg.imemWA
      /\ imem' = IF dbg.idMode
                 THEN [imem EXCEPT ![IIndex(dbg.imemWA)] = DDataIn]
                 ELSE imem
  BY <1>1, CodeSide
<1>4. DControl = "IMEMWD" <=> state = 13
  BY <1>2 DEF DControl, LoadInv
<1>5. Main
  BY DEF BoardNext
<1>6. dbg'.idMode \in BOOLEAN
  BY <1>1 DEF HandshakeInv, BoardTypeOK, PackageTypeOK, DebugTypeOK, Debug
\* Outside states 12 and 13 instruction memory is left alone.
<1>7. ASSUME state \notin {12, 13}, ~sw.reset,
             action' # "IMEMWD", state' \notin {12, 13}
      PROVE  LoadInv'
  <2>1. imem' = imem /\ ~dbg'.idMode
    BY <1>3, <1>4, <1>7 DEF LoadInv
  <2> QED
    BY <1>1, <1>7, <2>1 DEF LoadInv, Loaded
<1>8. CASE sw.reset /\ Restart
  <2>1. ~dbg'.idMode
    BY <1>3, <1>8
  <2>2. state' = 12 /\ romAddr' = 0 /\ action' = "NOP"
    BY <1>8 DEF Restart
  <2> QED
    BY <1>1, <2>1, <2>2 DEF LoadInv
<1>9. CASE ~sw.reset /\ CodeAddress
  <2>1. /\ state = 12 /\ romAddr = 0 /\ ~dbg.idMode
        /\ action' = action /\ dEnable' = ~dEnable
        /\ state' = (IF dEnable THEN 13 ELSE state)
        /\ romAddr' = (IF dEnable THEN Sub(romAddr, 1) ELSE romAddr)
    BY <1>9 DEF CodeAddress, Loading, LoadInv
  <2>2. ~dbg'.idMode
    BY <1>3, <1>4, <2>1
  <2>3. CASE dEnable
    <3>1. romAddr' = WordMod - 1 /\ state' = 13 /\ ~dEnable'
      BY <1>2, <2>1, <2>3 DEF Sub
    <3>2. dbg'.imemWA = 0
      BY <1>3, <1>9, <2>1, <2>3 DEF DControl, DDataIn
    <3> QED
      BY <1>1, <2>1, <2>2, <3>1, <3>2 DEF LoadInv
  <2>4. CASE ~dEnable
    BY <1>1, <2>1, <2>2, <2>4 DEF LoadInv
  <2> QED
    BY <2>3, <2>4
<1>10. CASE ~sw.reset /\ NextCode
  <2>1. /\ state = 13 /\ ~dEnable /\ dEnable' = TRUE /\ action' = action
        /\ IF romAddr = len THEN romAddr' = DMemBase /\ state' = 14
           ELSE romAddr' = Add(romAddr, 1) /\ state' = 13
    BY <1>10 DEF NextCode, Loading
  <2>2. ~dbg'.idMode
    BY <1>3, <2>1
  <2>3. CASE romAddr = WordMod - 1
    <3>1. romAddr' = 0 /\ state' = 13
      BY <1>2, <2>1, <2>3 DEF Add
    <3>2. ~dbg.idMode /\ dbg.imemWA = 0
      BY <1>2, <2>1, <2>3 DEF LoadInv
    <3>3. dbg'.imemWA = (4 * 0) % WordMod
      BY <1>2, <1>3, <1>10, <2>1, <3>2
    <3>4. Loaded(romAddr)' /\ romAddr' <= len
      BY <1>2, <3>1 DEF Loaded
    <3> QED
      BY <1>1, <2>1, <2>2, <3>1, <3>3, <3>4 DEF LoadInv, Loaded
  <2>4. CASE romAddr # WordMod - 1
    <3>1. /\ romAddr <= len /\ Loaded(romAddr) /\ dbg.idMode
          /\ dbg.imemWA = (4 * romAddr) % WordMod
      BY <2>1, <2>4 DEF LoadInv
    <3>2. /\ romAddr < len => \A k \in 0 .. romAddr : imem'[k] = IRom[k]
          /\ romAddr = len => \A k \in 0 .. (len - 1) : imem'[k] = IRom[k]
      BY <1>1, <1>3, <2>1, <3>1, WordWritten
    <3>3. CASE romAddr = len
      BY <1>1, <2>1, <2>2, <3>2, <3>3 DEF LoadInv, Loaded
    <3>4. CASE romAddr < len
      <4>1. romAddr' = romAddr + 1 /\ state' = 13
        BY <1>2, <2>1, <3>4 DEF Add
      <4>2. Loaded(romAddr)' /\ romAddr' <= len
        BY <1>2, <3>2, <3>4, <4>1 DEF Loaded
      <4>3. dbg'.imemWA = (4 * (romAddr + 1)) % WordMod
        <5>1. dbg'.imemWA = (((4 * romAddr) % WordMod) + 4) % WordMod
          BY <1>3, <1>10, <3>1 DEF Add
        <5>2. 4 * romAddr \in 0 .. (WordMod - 1)
          BY <1>2, <3>4
        <5>3. (4 * romAddr) % WordMod = 4 * romAddr
          BY <1>2, <5>2
        <5>4. 4 * romAddr + 4 = 4 * (romAddr + 1)
          BY <1>2
        <5> QED
          BY <5>1, <5>3, <5>4
      <4> QED
        BY <1>1, <2>1, <2>2, <4>1, <4>2, <4>3 DEF LoadInv, Loaded
    <3> QED
      BY <1>2, <3>1, <3>3, <3>4
  <2> QED
    BY <2>3, <2>4
<1>11. CASE ~sw.reset /\ WriteWord /\ state = 13
  <2>1. /\ dEnable /\ ~dEnable' /\ dEnable' \in BOOLEAN
        /\ UNCHANGED <<state, romAddr, action>>
    BY <1>11 DEF WriteWord, Loading
  <2>2. /\ romAddr <= len /\ Loaded(romAddr) /\ ~dbg.idMode
        /\ dbg.imemWA = (4 * romAddr) % WordMod
    BY <1>11, <2>1 DEF LoadInv
  <2>3. dbg'.idMode /\ imem' = imem /\ dbg'.imemWA = dbg.imemWA
    BY <1>3, <1>4, <1>11, <2>1, <2>2
  <2>4. Loaded(romAddr)'
    BY <2>1, <2>2, <2>3 DEF Loaded
  <2> QED
    BY <1>1, <1>6, <1>11, <2>1, <2>2, <2>3, <2>4 DEF LoadInv, Loaded
<1>12. CASE ~sw.reset /\ WriteWord /\ state = 15
  BY <1>7, <1>12 DEF WriteWord, Loading, LoadInv
<1>13. CASE ~sw.reset /\ DataAddress
  BY <1>7, <1>13 DEF DataAddress, Loading, LoadInv
<1>14. CASE ~sw.reset /\ NextData
  BY <1>7, <1>14 DEF NextData, Loading, LoadInv
<1>15. CASE ~sw.reset /\ AskStep
  BY <1>7, <1>15 DEF AskStep, LoadInv
<1>16. CASE ~sw.reset /\ AskWord
  BY <1>7, <1>16 DEF AskWord, LoadInv
<1>17. CASE ~sw.reset /\ GiveAddress
  BY <1>7, <1>17 DEF GiveAddress, LoadInv
<1>18. CASE ~sw.reset /\ ThenRead
  BY <1>7, <1>18 DEF ThenRead, LoadInv
<1>19. CASE ~sw.reset /\ GiveCommand
  BY <1>7, <1>19 DEF GiveCommand, LoadInv
<1>20. CASE ~sw.reset /\ TakeAnswer
  BY <1>7, <1>20 DEF TakeAnswer, LoadInv
<1>21. WriteWord => state \in {13, 15}
  BY DEF WriteWord
<1> QED
  BY <1>5, <1>8, <1>9, <1>10, <1>11, <1>12, <1>13, <1>14, <1>15, <1>16,
     <1>17, <1>18, <1>19, <1>20, <1>21 DEF Main

(***************************************************************************)
(* The loader does its work, wherever the reset button interrupted it: see *)
(* LoadsCode.                                                              *)
(***************************************************************************)
THEOREM CodeIsLoaded == CodeFits => (BoardSpec => []LoadsCode)
<1> SUFFICES ASSUME CodeFits PROVE BoardSpec => []LoadsCode
  OBVIOUS
<1>1. LoadInv => LoadsCode
  <2> SUFFICES ASSUME LoadInv, state < 12,
                      NEW k \in DOMAIN IRom
               PROVE  imem[k % IMemWords] = IRom[k]
    BY DEF LoadsCode
  <2>1. Loaded(Length(IRom))
    BY DEF LoadInv
  <2>2. /\ k \in 0 .. (Length(IRom) - 1) /\ Length(IRom) \in Nat
        /\ IMemWords \in Nat \ {0} /\ Length(IRom) <= IMemWords
    BY RomLength, MemoryAssumption DEF CodeFits
  <2>3. k % IMemWords = k
    BY <2>2
  <2> QED
    BY <2>1, <2>2, <2>3 DEF Loaded
<1>2. BoardInit => LoadInv
  BY LoadInit
<1>3. LoadInv /\ [BoardNext]_board => LoadInv'
  <2>1. ASSUME LoadInv, UNCHANGED board PROVE LoadInv'
    <3>1. HandshakeInv'
      BY <2>1, HandshakeStep DEF LoadInv
    <3> QED
      BY <2>1, <3>1 DEF LoadInv, Loaded, board, registers, package
  <2> QED
    BY <2>1, LoadTick
<1> QED
  BY <1>1, <1>2, <1>3, PTL DEF BoardSpec
=============================================================================
