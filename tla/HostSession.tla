----------------------------- MODULE HostSession -----------------------------
(***************************************************************************)
(* The hosts of the package.  One uses the debugger the way the tests do   *)
(* (PackageTester.scala:36-41): it drives a command and its argument,      *)
(* raises the enable for one clock, lowers it for one, and changes neither *)
(* meanwhile; the core is paused, as while a program is loaded.  Any other *)
(* keeps no such order, runs the core when it likes and resets it.         *)
(*                                                                         *)
(* For the first the package implements DebugPort.  A write command is     *)
(* done one clock after it was given; the mapping shows it as done         *)
(* already.                                                                *)
(***************************************************************************)
EXTENDS Package

CONSTANTS
  Ops, Args,   \* what the host of the tests may ask for
  Hosts        \* the other hosts: what each may drive in a clock

ASSUME SessionAssumption ==
  Ops \subseteq Commands /\ Args \subseteq Word /\ Hosts \subseteq SUBSET PackageInputs

VARIABLES
  host,    \* which host there is
  req,     \* the command on the wires in the tests' session
  raised   \* the enable was up in the session's last clock

session == <<package, host, req, raised>>

\* The host that drives its session and nothing else.
Tests == {}

Drive(enable, r) ==
  [reset |-> FALSE, pcEnable |-> FALSE, dEnable |-> enable,
   dControl |-> r.op, dDataIn |-> r.arg]

\* debugStep, its first clock and its second.
Raise(r) ==
  /\ host = Tests /\ ~raised /\ raised' = TRUE
  /\ req' = r /\ host' = host
  /\ Tick(Drive(TRUE, r))

Lower ==
  /\ host = Tests /\ raised /\ raised' = FALSE
  /\ req' = req /\ host' = host
  /\ Tick(Drive(FALSE, req))

\* Any other host drives what it likes.
Act ==
  /\ host # Tests /\ \E in \in host : Tick(in)
  /\ UNCHANGED <<host, req, raised>>

(***************************************************************************)
(* When a paused core stores nothing: it executes what it finds at its     *)
(* program counter at every clock, unless it is wedged.                    *)
(***************************************************************************)
StoresNothing ==
  LET Harmless(w) == Decode[w].class # "STORE"
  IN \/ de = Bubble
     \/ /\ \A w \in Args : Harmless(w)
        /\ \A a \in DOMAIN imem : Harmless(imem[a])

SessionInit ==
  /\ PackageInit /\ host \in Hosts \cup {Tests}
  /\ host = Tests => StoresNothing
  /\ req = [op |-> "NOP", arg |-> 0] /\ raised = FALSE

SessionNext == Lower \/ Act \/ \E r \in [op : Ops, arg : Args] : Raise(r)

SessionSpec == SessionInit /\ [][SessionNext]_session

-----------------------------------------------------------------------------

\* The address as it will be after a write that is under way.
Past(writing, addr) == IF writing THEN Add(addr, 4) ELSE addr

Port == INSTANCE DebugPort WITH
  code    <- IF dbg.idMode
             THEN [imem EXCEPT ![IIndex(dbg.imemWA)] = req.arg] ELSE imem,
  data    <- IF dbg.ddMode
             THEN [dmem EXCEPT ![DIndex(dbg.dmemA)] = ToCell(req.arg)]
             ELSE dmem,
  codeR   <- dbg.imemRA,
  codeW   <- Past(dbg.idMode, dbg.imemWA),
  dataA   <- Past(dbg.ddMode, dbg.dmemA),
  out     <- dbg.dataOut,
  showsPC <- (dbg.dataMode = "PC"),
  last    <- req

(***************************************************************************)
(* For the host of the tests every command is atomic: what it reads is     *)
(* what is in memory, what it writes is written once, where it said, and   *)
(* no command disturbs another (Debug.scala:89-135).  It takes a core that *)
(* executes no store meanwhile: see StoresNothing.                         *)
(***************************************************************************)
ImplementsPort ==
  /\ host = Tests => Port!Init
  /\ [][host = Tests => Port!Next]_(Port!port)
=============================================================================
