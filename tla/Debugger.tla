------------------------------ MODULE Debugger ------------------------------
(***************************************************************************)
(* The debugger (Debug.scala): the port through which a host reads and     *)
(* writes the two memories and paces the core.  A command is taken on a    *)
(* rising enable.  The answer of a read is latched with the command; the   *)
(* data of a write goes to the memory by wire in the following cycle, when *)
(* idMode or ddMode is up.                                                 *)
(***************************************************************************)
EXTENDS Words

VARIABLE dbg   \* the registers of the module

Commands == {"NOP", "STEP", "STOP", "START", "READPC", "RESET",
             "IMEMRA", "IMEMWA", "IMEMRD", "IMEMWD",
             "DMEMRA", "DMEMWA", "DMEMRD", "DMEMWD"}

Debug == [dataOut : Word, dataMode : {"I", "PC"}, cpuEnable : BOOLEAN,
          imemRA : Word, imemWA : Word, idMode : BOOLEAN,
          dmemA : Word, ddMode : BOOLEAN,
          enablePrev : BOOLEAN]   \* RegNext(enable)

(***************************************************************************)
(* The inputs of one clock.  idrData and ddataR are what the memories show *)
(* at imemRA and dmemA.  The unassigned codes 5 and 6 act as NOP.          *)
(***************************************************************************)
DebugInput == [reset : BOOLEAN, enable : BOOLEAN, control : Commands,
               dataIn : Word, idrData : Word, ddataR : Word]

DebugReset == [dataOut |-> 0, dataMode |-> "I", cpuEnable |-> FALSE,
               imemRA |-> 0, imemWA |-> 0, idMode |-> FALSE,
               dmemA |-> 0, ddMode |-> FALSE, enablePrev |-> FALSE]

-----------------------------------------------------------------------------

\* A fault: a command is taken at every clock the enable is up.
UpdateOnLevel(in) == in.enable

Update(in) == in.enable /\ ~dbg.enablePrev

\* The outputs that are up only in the cycle of the command.
PcStep(in)  == Update(in) /\ in.control = "STEP"
PcReset(in) == Update(in) /\ in.control = "RESET"

DataOut(pcValue) == IF dbg.dataMode = "PC" THEN pcValue ELSE dbg.dataOut

\* A fault: a write leaves the address of instruction memory where it is.
EdgeWithoutStep(in, d) ==
  dbg' = IF in.reset THEN [DebugReset EXCEPT !.enablePrev = in.enable]
         ELSE [d EXCEPT !.idMode = IF dbg.idMode THEN FALSE ELSE @,
                        !.dmemA  = IF dbg.ddMode THEN Add(dbg.dmemA, 4) ELSE @,
                        !.ddMode = IF dbg.ddMode THEN FALSE ELSE @,
                        !.enablePrev = in.enable]

(***************************************************************************)
(* The end of a cycle in which the command left the registers as d.  The   *)
(* write cycle comes last in the code, so that it wins over the command,   *)
(* and it steps the address from its old value.                            *)
(***************************************************************************)
Edge(in, d) ==
  dbg' =
    IF in.reset THEN [DebugReset EXCEPT !.enablePrev = in.enable]
    ELSE [d EXCEPT
            !.imemWA = IF dbg.idMode THEN Add(dbg.imemWA, 4) ELSE @,
            !.idMode = IF dbg.idMode THEN FALSE ELSE @,
            !.dmemA  = IF dbg.ddMode THEN Add(dbg.dmemA, 4) ELSE @,
            !.ddMode = IF dbg.ddMode THEN FALSE ELSE @,
            !.enablePrev = in.enable]

Command(in, c) == Update(in) /\ in.control = c

Idle(in) == (~Update(in) \/ in.control \in {"NOP", "RESET"}) /\ Edge(in, dbg)

\* STEP and STOP.  Nothing outside listens to cpuEnable any more.
Halt(in) ==
  /\ Command(in, "STEP") \/ Command(in, "STOP")
  /\ Edge(in, [dbg EXCEPT !.cpuEnable = FALSE])

Start(in) ==
  Command(in, "START") /\ Edge(in, [dbg EXCEPT !.cpuEnable = TRUE])

ReadPC(in) ==
  Command(in, "READPC") /\ Edge(in, [dbg EXCEPT !.dataMode = "PC"])

IMemRA(in) ==
  Command(in, "IMEMRA") /\ Edge(in, [dbg EXCEPT !.imemRA = in.dataIn])

IMemWA(in) ==
  Command(in, "IMEMWA") /\ Edge(in, [dbg EXCEPT !.imemWA = in.dataIn])

IMemRD(in) ==
  /\ Command(in, "IMEMRD")
  /\ Edge(in, [dbg EXCEPT !.dataOut = in.idrData, !.dataMode = "I",
                          !.imemRA = Add(@, 4)])

IMemWD(in) ==
  Command(in, "IMEMWD") /\ Edge(in, [dbg EXCEPT !.idMode = TRUE])

\* The data memory has one address, for reading and for writing.
DMemA(in) ==
  /\ Command(in, "DMEMRA") \/ Command(in, "DMEMWA")
  /\ Edge(in, [dbg EXCEPT !.dmemA = in.dataIn])

DMemRD(in) ==
  /\ Command(in, "DMEMRD")
  /\ Edge(in, [dbg EXCEPT !.dataOut = in.ddataR, !.dataMode = "I",
                          !.dmemA = Add(@, 4)])

DMemWD(in) ==
  Command(in, "DMEMWD") /\ Edge(in, [dbg EXCEPT !.ddMode = TRUE])

DebugClock(in) ==
  \/ Idle(in) \/ Halt(in) \/ Start(in) \/ ReadPC(in)
  \/ IMemRA(in) \/ IMemWA(in) \/ IMemRD(in) \/ IMemWD(in)
  \/ DMemA(in) \/ DMemRD(in) \/ DMemWD(in)

DebugInit == dbg = DebugReset

DebugTypeOK == dbg \in Debug
=============================================================================
