# USTC-RV-Chisel: specifications, checks and proofs

USTC-RV-Chisel is a five stage RV32I core written in Chisel, packaged with an
instruction memory, a data memory and a debugger, and a Nexys4 DDR board design
around that package, with a test program in C. `simulate/` has a server that
clocks the simulated board and shows it in a web page; it is one source file on
top of the vendored HTTP and websocket library crow. This directory holds TLA+
modules that model the design and the server, TLC configurations that check them
on small instances, and TLAPS proofs for every value of their parameters.

In the hardware, one step of a model is one rising edge of the clock. Chisel
registers are variables (or fields of a record variable), wires are operators over
the registers and the inputs of the clock, and what the host, the switches or the
program can do is an input chosen with `\E`. In the server, one step is one
completion handler, or one stretch of a thread between two points where another
thread may see its effect.

## 1. The system

| Part | Source | State | Operations | Hard behaviour |
|---|---|---|---|---|
| Pipeline | `core/Core.scala`, `PC.scala`, `Register.scala` | `pc`, 32 registers, pipeline registers `fd`, `de`, `em`, `mw`, `RegNext(pcStep)` | per clock: flush, stall or advance of the front end; the back end always moves | forwarding, load-use stall, flush, pausing, stepping, reset of a pipeline most of which has no reset |
| ALU, branch comparator | `core/ALU.scala`, `Branch.scala` | none | arithmetic, comparison | width, sign |
| Control, decoder, immediates | `core/Control.scala`, `Instructions.scala`, `ImmGen.scala` | none | word to control signals | raw register fields read in formats that have none |
| Memories | `core/Memory.scala` | two arrays | core port, debug port | masks, odd addresses, aliasing, two write ports |
| Debugger | `core/Debug.scala` | addresses, write modes, output latch, edge detector | 14 commands, the write cycle | a write takes two clocks; its data comes by wire; last assignment wins |
| Package | `core/Package.scala` | the above | wiring, address decoding | everything above, clocked together |
| Board | `nexys4ddr/Main.scala`, `ROM.scala`, `IP.scala` | 4-bit state, action, handshake, ROM address | loads both memories from ROM, then shows memory words or steps | address arithmetic of the loader, the handshake shared by its states |
| Displays | `nexys4ddr/SegmentDisplay.scala`, `nexys4ddr/vga/*` | counters, cursor, video memory | scan, write a character | counter widths, cursor wrap, memory that answers a clock late |
| Test program | `c-tools/prog.c`, `std.c`, `helper.c` | two arrays, the text | squares, copies, prints | a multiplication by shifts, bytes of words |
| Simulation server | `simulate/ustcrv_ws.cpp` | set of users, its mutex, inputs of the board | a thread that clocks and reports; handlers that open, close and take messages | two threads, half-applied messages |
| Websocket connection | `simulate/crow_all.h` | states of read, write and closing | upgrade, frames, close, send, delete | who deletes, and when; sends posted from another thread |
| HTTP connection, timers | `simulate/crow_all.h` | read and write in flight, the one response, deadlines | accept, read, answer, time out, delete | pipelining, late completions, stale deadlines |
| HTTP parser | `simulate/crow_all.h` | automaton, marks, lengths, collected request | symbols, end of a buffer, end of the stream | a buffer that ends anywhere, lengths at their limit |
| Router, JSON, query string, handshake | `simulate/crow_all.h` | none that lasts | pure functions on texts | merged trie nodes, recursive descent, decoding in place, padding |

Paths without a directory of their own are below `src/main/scala/ustcrv/`.

Interaction in hardware: the host (a test bench or the board) drives `dControl`,
`dEnable`, `dDataIn` and `pcEnable` of the package. The debugger raises `pcReset`
and `pcStep` to the core and reads and writes both memories through their debug
ports. The core reads instruction memory at `pc` and reads or writes data memory
at the address in `em`; a store to 0x2000 goes to the VGA display. All of it is on
one clock, but five instructions, two write ports and a host act in the same step.

Interaction in the server: `crow::Server` accepts peers on one io_service thread.
Each gets an HTTP connection, which parses what arrives, asks the router, and
answers or turns the socket into a websocket connection. That one calls the
handlers of `ustcrv_ws.cpp`, which add it to a set of users or take it out, and put
the page's switches into the board. A second thread clocks the board and posts a
report to the io_service for every user. The threads share the set and its mutex,
the board's inputs (written under the mutex, read without it) and the queue of
posted sends.

What makes each part correct:

* pipeline: an instruction sees the registers as all earlier instructions left
  them; instructions behind a jump have no effect; it goes on through jumps and loops;
* debugger: a command takes effect once and completely;
* package: the program that was loaded is executed as the ISA says;
* a reset brings all of it to a known state;
* board and displays: what is in ROM, memory or printed is what is shown;
* parser: a request is handed on once, in order and as sent, wherever buffers end;
* connections: an answer goes to its own request, every connection ends, and
  nothing comes back to one that is deleted;
* server: reports go to living users, in order and without a gap; a message takes
  effect; a peer that goes is forgotten;
* router, JSON, query string, handshake: each computes what its definition says.

Not all of that is true of the code; sections 3 and 5 say where it is not.

## 2. Modules

Hardware:

| Module | What it is |
|---|---|
| `Words` | machine words of `W` bits, wrapping arithmetic, sign |
| `ALU` | `ALU.scala` and `Branch.scala` as operators |
| `Control` | instructions, the control table, the decoder as the constant `Decode` |
| `Decoder` | what `Decode` stands for: the bit patterns of `Instructions.scala` as rows of the control table, and `ImmGen`, on words of 32 bits; what each word should decode to, by the instruction formats of the manual |
| `Core` | the pipeline. `Redirect`, `Stall` and `Advance` are the three branches of the `when` at Core.scala:65-96; each contains `BackEnd`, the part that moves in every clock |
| `CoreAlone` | the core under an environment that may answer any instruction and data and pause or reset it at any clock; its properties; and the same with a count of how long reset has been up |
| `Memory` | the address and byte logic of both memories, as operators on their contents |
| `Debugger` | one action per command of Debug.scala:89-126; `Edge` is the part at the end of the module that overrides them |
| `Package` | `Core`, `Memory` and `Debugger` clocked together (`Tick`) |
| `ISA` | abstract: a machine that executes one instruction per step |
| `PackageISA` | the package, running, with history variables; it implements `ISA` |
| `DebugPort` | abstract: a port whose commands are atomic |
| `HostSession` | the package with its hosts: that of PackageTester.scala:36-41, for which it implements `DebugPort`, and others that drive what they like at any clock |
| `Board` | the state machine of Main.scala, composed with the package's `Tick`: one action per branch of each state |
| `Display` | both displays: cursor and video memory (`DataManager`), scan and pixel (`Scanner`, `Display`, `BlockRAM`, the font a constant), digit and count (`SegmentDisplay`) |
| `Program` | `main`, `square`, `memcpy`, `putchar` and `__mulsi3` of the C program, an operator each; one round of a loop is one step, the multiplication's rounds included |
| `Terminal` | the program printing to the displays; the clocks a program takes are left open; a reset may come at any clock, be held for any time, and find a store in the core that it does not hold back |

Server:

| Module | What it is |
|---|---|
| `HttpParser` | the request half of `http_parser_execute` with crow's callbacks: `Begin`, `Byte` and `End` are the beginning, the loop body and the end of one call |
| `RequestStream` | requests rendered as text, cut anywhere into buffers, fed to `HttpParser`; what each should be handed on as |
| `HttpConnections` | `Server` and `Connection`: one action per completion handler; and their `dumb_timer_queue`: `Enqueue`, `Cancel`, `Older` and `Process` |
| `WebSocket` | `websocket::Connection` with the handlers of `ustcrv_ws.cpp`: one operator per function, on a record of the connection, the users, whether the mutex is taken, and the calls of the message handler left |
| `SimServer` | both threads and the peers: one action per handler, and for the message handler one per assignment, because the board may be clocked between the two |
| `Router` | `Trie::add`, `optimize` and `find`, and the answer `Router::handle` gives |
| `Json` | `json::load`, look-ups and `i()`, and what the message handler reads from them |
| `QueryString` | splitting and decoding in place |
| `Handshake` | SHA-1 and base64 with 32-bit words as sequences of bits, and the answer to a key |
| `Texts` | the four above, and `Decoder`, over bounded texts, with definitions of what they should compute: a grammar for JSON, matching of rules, splitting into pairs, the inverse of base64, published answers |

Proofs: `CoreProofs`, `PackageProofs`, `PackageISAProofs`, `HostProofs` (the two hosts of
the package), `TerminalProofs`, `RequestStreamProofs`, `HttpConnectionsProofs`,
`SimServerProofs`. The modules `MC*` are the instances for TLC.

Some modules hold, just before an operator and marked as a *fault*, a second
version of it with the kind of slip a change to the code could introduce
(`LoadUseFirstOnly`, `UpdateOnLevel`, `CheckDestroySilent`, ...). Nothing uses them;
put in place of the operator they show which property notices.

Correspondence of state: `fd.inst` is `fd_inst`, `de.control` is `de_control`,
`de.dataA` is `de_regFile_dataA`, and so on for all pipeline registers;
`dbg.imemRA` is the debugger's `imemRA`, `dbg.enablePrev` its `RegNext(enable)`.
`imem` is a function from word indices to words, `dmem` one from cell indices to
four bytes. `ImmSel` is not kept: the immediate is part of what `Decode` gives.

`Board` keeps the registers of Main.scala under their names; its wires `dControl`
and `dDataIn` are operators of `state`. `pressed` is the shift register inside
`PosEdge(io.SW(1), 4)`: it is built under `when (state === 0.U)`, so it shifts in state
0 only, and one press of the switch asks for up to four steps.

In `WebSocket`, `k` has the members of the connection under short names: `close` is
`close_connection_`, `called` is `is_close_handler_called_`, `sending` and `write` are
the two buffers, `pending` says that a read is under way and `life` that the object
exists. `touched` is not in the code: it records that something went on with a
connection after `delete this`. Neither is `late` in `SimServer`: `owed` records that
sends were posted for a connection when it was deleted, `ran` what became of one that
ran afterwards. In `HttpConnections`, `late`, `overlapped`, `stranded` and `thrown` are
such records; the comments at them say of what.

### Abstractions of the hardware

* In the pipeline a word of instruction memory is a number, and `Decode` says which
  instruction it is, with its immediate and its three register fields; `Decoder` has how
  that is found in a word of 32 bits. The fields are the raw bits of the word in every
  format, because the hazard logic reads them so;
  the instances have stores and branches whose "destination" bits name a
  register, and immediates whose bits name a source.
* `W` is 3 or 4 in the checks and arbitrary in the proofs. A byte is a quarter of
  a word. The ALU's shift amount is taken modulo `W`, bits 4..0 in the code.
* Pipeline registers without a reset value hold something at power up. `PowerUp`
  selects what the reset made of it: `"zero"`, if they started as zero (an FPGA,
  a two-state simulator), or `"nop"`, if they started as something else and the
  reset was held until NOPs filled them. `ResetSettles` shows that these two are
  what a reset of five clocks leaves. A core that starts from zero is wedged from
  the start (section 5), so the runs about executing programs start from
  `"nop"`, and those programs are in memory at the start.
* When both ports write one cell of data memory in one clock, either may win.
* A ROM read past its contents is a don't-care of the code; `RomBeyond` gives it any
  word for each address.
* Reading outside data memory gives the aliased cell, which is what the
  compiler's don't-care resolves to; `io.mDataR` is connected to nothing.
* The seven segment display is modelled for a count that reaches its end
  (`Clk < CountMod`). That holds for the frequency the generator gives (25000 in 16
  bits), not for the default of the class (100000): with it one digit would be shown
  for ever. The sync pulses of VGA and the segments of a digit are left out.

### Abstractions of the server

* The parser reads symbols: a separator, a letter or digit, or a piece of a word
  inside which the automaton does not branch. The states for responses, and
  the separate URL parser, are not used by the server and left out.
* `HttpConnections` takes a request in two parts, head and end, and a buffer holds
  any number of parts; what the parser makes of bytes is `RequestStream`'s business.
* Websocket frames are shorter than 126 bytes, as are all of the page's. A frame is
  its opcode, whether it is the last of its message and how much of it arrives.
* A write or read that is under way when a socket is closed completes with an error
  (as asio promises), and one under way when the peer goes may complete either way.
* A send that was posted for a connection runs whether or not the connection has been
  deleted. If it has, what it finds is freed memory: it may find anything in
  `sending_buffers_`, so it may begin a write, which fails on a socket that is
  closed, and its completion then comes to an object that is no more. That the
  process may end of it, or the memory belong to another object by then, is not
  modelled.
* A report is its number modulo `Labels`; the board is its inputs.

## 3. Runs

| Run | Instance | What it shows |
|---|---|---|
| `Pipeline` | 3-bit words, 2 registers, 8 instructions (one for each kind the hazard logic distinguishes), running, paused or reset, reset counted to 5 | `ForwardIsWriteback`, `WrongPathDiscarded`, `ZeroRegister`; `NothingSurvivesReset` after four clocks, `ResetSettles` after five |
| `PackageISA` | 4-bit words, 4 registers, 4 words of program, 2 cells; every hazard-free program over 16 instructions | the package implements `ISA` |
| `HostSession` | 4-bit words, `x0` only, 2 words of program with or without a store, 2 cells, powered up either way; three hosts: the tests' (every command but START and STOP, which set a register nothing reads, with two arguments), one that uses the instruction memory at any clock while the core runs, and one that uses the rest while it runs, pauses and resets it | `WriteCycleIsQuiet`, `StepIsOnePulse`, for all three; for the tests' the package implements `DebugPort` (`ImplementsPort`) |
| `Board` | 4-bit words, ROMs of three words of code and two of data, switches for one code and one data address, SW(1) and reset moved at any clock; the core starts from `"zero"` and knows NOPs only, so it does not disturb the memories | `BoardTypeOK` (with the types of package and core), `EveryPulseIsTaken`, `LoadsCode`, and under fairness `LoadEnds`, `ShowsSelected` |
| `Terminal` | a screen of two lines of two characters of two by two pixels, two texts that fill it more than once, three array elements of two bytes of two values, one reset, held for any time, with no store in the core or one that is one to three clocks away | `ScreenShowsText`, `PictureIsCurrent`, `SquaresAreCopied`, and under fairness `EveryDigitIsShown` |
| `Requests` | every method, URLs of every form, bodies by length and in chunks with trailers, `Connection` and `Proxy-Connection` headers, two requests in a row, headers of at most 60 symbols and lengths of at most 255; cut anywhere, one symbol too many or too few | `DeliveredAsSent`, `AssertsHold`, `MethodIsSpelled`, `LengthIsRead` |
| `HttpConnections` | two peers; ten scripts alone and two beside a silent peer, waiting for answers or not, leaving at any time, also while a request is logged; deadlines of two seconds | `OwnAnswers`, `NoLateCompletion`, `DeadlineMatches`, and under fairness `EveryConnectionEnds` |
| `SimServer` | two peers; ten scripts alone (messages that parse, throw or come in fragments, frames cut short or unmasked, two closes), leaving at any time, with sends posted for it or not; a peer that leaves beside a silent one; reports modulo 3 | `UsersAreAlive`, `NotTouchedAgain`, `ReportsInOrder`, and under fairness `CommandTakesEffect`, `GoneIsDropped` |
| `Texts` | JSON texts of up to 5 symbols of 9 (7 pieces of objects, 6 symbols of numbers, 8 of strings), messages of up to 3 members of 15, URLs of up to 5 characters for 5 sets of rules, query strings of up to 5 characters, up to 5 bytes to encode, two published keys, every instruction with up to two of its free bits set or up to two clear | `JsonAsGrammar`, `SaidAsSent`, `TrieFindsFirstRule`, `AnswersAsRouted`, `PairsAsSplit`, `AnswersTheKey`, `DecodesAsEncoded` |
| `Wedge`, `SecondOperand`, `BoardData` | small | the violations of section 5 |

Why the bounds are enough. The pipeline is five stages deep and its hazard logic
compares register numbers and control bits, so one register besides `x0`, one
instruction of each kind and an unrestricted instruction stream meet every
combination of stages; values only matter as equal or different, in and out of
range. A program of four words fills the pipeline behind and before every
instruction, and since the program counter runs around the memory each is
executed after each other one. Two words of instruction memory and two cells
suffice for an address to step and to wrap. `HeldMax = 5` is where the count of
reset clocks stops; the properties are about four and five. In `HostSession` the hosts
may drive whatever the handshake of the debugger tells apart; the data wire has a word
that is an address and one that is another and a store besides. A screen of two lines
has a first and a last line and column, and the texts wrap in both directions; one
reset (`MaxResets`) meets every state of the screen, the scan and the program, and the
proof covers any number of them. Two bytes of two values make an int of two bits, which
the squares of three elements exceed.
Connections share only the timer queue, the users and the mutex, so two of them, one
of which does nothing, meet every way in which one can disturb another; what a
proof covers (section 4) holds for any number. `MaxBehind` bounds how many sends may
wait before the next report: without it the queue would grow without a bound, in
the code as in the model. `MaxHeader` and `MaxLength` stand for 80 KiB and 2^64 - 1 and
are small enough to be met. `MaxPairs = 3` stands for 256, and the query strings have up
to five pairs.

What a property of the server leaves out, because the code does otherwise:

* `OwnAnswers` and `NoLateCompletion` speak of peers that wait for an answer, or
  whose answers did not overlap: a connection has one response object, and a
  second request in the same buffer uses it while the first answer is written.
* `EveryConnectionEnds` excludes a connection whose buffer held a complete request
  followed by something the parser refuses (`stranded`): its write ends well, its
  read is not begun again, and nobody deletes it. It also excludes one whose request
  could not be logged (`thrown`): `handle` cancels the deadline (crow_all.h:8886) and then
  logs the request with `remote_endpoint()` (8935), the form of it that throws, and it
  throws when the peer has reset the connection. The exception ends in the loop of
  `Server::run`; `is_reading` stays set, but nothing is read, written or timed any more, so
  the connection stays for ever. A request to upgrade is answered before the log line.
* `NotTouchedAgain` excludes two ways in which the code does go on with a connection that
  is deleted. A second Close frame lets `handle_fragment` delete the connection and
  return to code that goes on with it. And `send_data` posts a lambda that uses `this`
  and asks nothing (crow_all.h:6608-6616): one posted by the simulation thread before the
  connection was deleted runs all the same, and the write it may begin completes for an
  object that is gone. The property says that there is no third way; a peer need not
  misbehave for the second.
* `GoneIsDropped` excludes a peer that goes within a frame: the failed read of a mask or
  payload does not delete the connection, and only a later write will. The same holds
  for a payload that arrives in pieces: after the first nothing is read any more.
* `CommandTakesEffect` is about what was assigned: a message without switches throws
  after the reset has been assigned, and the exception leaves the connection
  unread.
* `PairsAsSplit` gives the pairs only where they fit. The loop of `qs_parse` stops at 256
  pairs, the size of the array, and line 122 counts one more, as after a loop that broke;
  so with more pairs than that the next loop decodes `qs_kv[256]`, which is outside of
  the array (`outside` in the model: nothing is claimed of the result), and the caller is
  told of 257. The property says that this is so from the first pair too many on, and not
  before.
* `DeliveredAsSent` states what the callbacks lose: a header without a value unless
  it is the last, and a trailer that no other trailer with a value follows.
* A last continuation frame falls through to the case of a text: its fragment is
  added and the message handler called a second time. The model does so too.
* `JsonAsGrammar` has the numbers the reader accepts beyond JSON ("1." and "1e+") and
  the one it refuses (an exponent behind a lone zero).

### Fairness

Hardware: the only fairness is that the clock does not stop (`WF` of the whole
next-state relation, in `Terminal` of the actions that are clocks). Nothing is assumed
of the host or of the program; the liveness properties of the board say themselves
under which conditions they hold (the reset is let go, the switches are left alone).

Server: threads run. In `HttpConnections` that is `WF` of everything the io_service may
do: as long as something can complete, something does. In `SimServer` the simulation
thread is weakly fair, and so is a message handler that holds the mutex. Completions
and posted sends are strongly fair, each on its own: they wait in the io_service's
queue, which is first in first out, but they are disabled again and again while
another handler runs or the other thread holds the mutex. That the mutex is obtained
in the end is an assumption: the other thread gives it back between two reports, and
the C++ mutex promises no order. Nothing is assumed of
the peers: they may stop at any point.

### HazardFree

The pipeline leaves most hazards to the compiler. `HazardFree` in `PackageISA`
writes down the schedule the code needs: the first operand may come from the
previous two instructions (forwarded) or from four or more before (in the
register file), not from the third; the second operand and both operands of a
branch only from four or more before; no instruction may stall behind a load,
since the program counter does not wait; and the destination bits of a store or
branch count. With it the package implements the ISA; without it `SecondOperand`
shows that it does not. The refinement holds beyond a taken jump in the trivial
way only, since nothing is executed there (`Wedge`).

## 4. Proofs

TLAPS checks the following for every width, register count, decoder, memory size,
environment, number of peers and script that satisfy the named assumptions.

| Module | Theorem | Property |
|---|---|---|
| `CoreProofs` | `CoreTypes` | every register of the pipeline keeps its type |
| | `ForwardingIsSound`, `WrongPathIsDiscarded`, `ZeroReadsZero` | `ForwardIsWriteback`, `WrongPathDiscarded`, `ZeroRegister` |
| | `WedgedIsForGood` | `WedgedForGood`: behind a taken jump nothing is executed, and no reset helps |
| | `FiveClocksSettle`, `FourClocksClear` | `ResetSettles`, `NothingSurvivesReset` |
| | `EveryWordDecodes`, `InstructionsDecode` | a word matches one row at most, with the immediate of its format; `DecodesAsEncoded` |
| | `StallIsOneCycle`, `DeadCoreWritesNothing` | a stall is over after one clock; a dead core writes nothing |
| `PackageProofs` | `PackageTypes` | package and debugger keep their types |
| | `WritesAreQuiet`, `StepsAreOnePulse` | `WriteCycleIsQuiet`, `StepIsOnePulse` |
| | `OnlyEnablePaces` | the debugger cannot move the program counter |
| | `StoredIsLoaded` | a load returns what a store of its length left |
| `PackageISAProofs` | `PipelineImplementsISA` | `ImplementsISA`, a refinement |
| `HostProofs` | `PortIsImplemented` | `ImplementsPort`, a refinement, for the tests' host |
| | `BoardTypes`, `PulsesAreTaken` | `BoardTypeOK`, `EveryPulseIsTaken` |
| | `CodeIsLoaded` | `LoadsCode` |
| `TerminalProofs` | `TerminalTypes`, `ScanInside` | the cursor and every counter keep their ranges; the scan never reads past video memory |
| | `ScreenCorrect`, `PictureCorrect` | `ScreenShowsText`, `PictureIsCurrent` |
| | `SquaresCorrect` | `SquaresAreCopied` |
| `RequestStreamProofs` | `AssertionsHold`, `MethodsAreSpelled` | `AssertsHold`, `MethodIsSpelled` |
| | `LengthsAreRead` | `LengthIsRead` |
| | `LengthsNeverWrap` | a length is what its digits say, or the request is refused |
| | `LimitsAreKept` | neither the header nor a length goes beyond its limit |
| `HttpConnectionsProofs` | `DeadlinesMatch`, `NoLateCompletions`, `AnswersAreOwn` | `DeadlineMatches`, `NoLateCompletion`, `OwnAnswers` |
| `SimServerProofs` | `UsersStayAlive`, `TouchedByCloses`, `ReportsComeInOrder` | `UsersAreAlive`, `NotTouchedAgain`, `ReportsInOrder` |
| | `CompletionsFindTheirConnection` | a read or write of a connection that is under way finds it alive; the only one that does not was begun by a send posted before the deletion |

### The arguments

**Forwarding.** `ForwardIsWriteback` is not inductive: that no reader of a loaded
register is in EX while the load is in MEM follows from what the front end did a
clock earlier, which in turn rests on a bubble naming only `x0`. The
strengthening (`ForwardInv`) says of the instruction in MEM that either it is a
bubble's, or it writes back its ALU result, or no one in EX names its
destination. `ZeroInv` adds to `ZeroRegister` that operands read for `x0` are zero
already in `de`.

**Reset.** Most of the pipeline has no reset, so it is flushed by what is behind
it. `ResetInv` says stage by stage what the first, second, ... fifth clock have
made of it. `de` is either a bubble or a NOP from then on; which of the two is
never decided, and that is the wedge of section 5.

**The decoder.** No two rows of the control table match one word: the opcode tells the class
(`OpcodesDiffer`), and within a class the fields that are compared tell the rows apart (`OneRow`), those
of the shifts by constants included, which alone among their class compare the upper bits. The
immediates are followed bit by bit through the slices they are put together from (`Joined`,
`ImmediateJ`, ...). The words that match a row are exactly those made from it (`MatchedIsEncoded`),
so the theorem is about all of them.

**The byte logic.** `StoredIsLoaded` takes a word apart into four bytes and puts it
together again, with the lanes a store writes and the shift a load applies. It
needed the uniqueness of quotient and remainder (`Euclid`, `ModUnique`), which the
refinement of the ISA uses as well.

**The refinement of the ISA.** The instruction about to leave MEM is the one the
ISA executes next, but what makes it right was decided up to three clocks before,
when its operands were read while its predecessors were under way. `IsaInv` therefore
says of the instruction in EX what its operands are in terms of the registers once
the one in MEM is executed (`After`), and where in the program the others stand; the
step lemmas then find the three instructions ahead of the one being read by their
addresses, and `HazardFree` excludes each case that would read an old value. Two
things had to be said for every memory size: the program counter runs around the
memory, so addresses are compared as remainders and the words of the program counter
must be whole rounds (`RoundAssumption`, which powers of two satisfy); and no
instruction of a hazard-free program stalls. After the first jump, and from the
start if the registers powered up as zero, `Straight` gives way to `Stopped`: nothing
enters, what is inside drains, and the ISA stands still.

**The debugger.** `TimingInv` ties the write modes and the remembered `pcStep` to the
remembered enable: each can be up only in the clock after a rising enable, and then
there is no rising enable. `OnlyEnablePaces` rests on that. `SessionInv` adds, for a
host that keeps the handshake, that a write mode is up only while the request that
asked for it is still driven, which is what lets the refinement mapping show a write
as done in the clock before it is. The port shows the memory, so the core must not
store meanwhile: the session of the tests' host begins with a core for which `StoresNothing`,
and `CoreQuiet` is how that stays true (the core is wedged, or there is no store in memory,
in the arguments or under way). The other hosts of `HostSession` are under no such
condition; they are for the two properties that hold of any host.

**The board.** `HandshakeInv` ties three things together: `dEnable` is low in the two
states that raise it without looking at it, it never stays up for a second clock,
and the debugger's remembered enable is its last value. `LoadInv` says which words
have been written for each value of the ROM address, and that the debugger's
address is four times that. `CodeIsLoaded` assumes `CodeFits`: the loader writes one
word past the end of the ROM, so a code as long as the memory would lose its first
word to it, unless the ROM repeats itself there.

**The parser.** `ParserInv` is about the automaton's own fields; what the callbacks collect
is left open, and one lemma (`CallbacksSame`) says that they leave those fields alone.
`AssertsHold` alone is not inductive. A value that is being read must never be mistaken
for a header's name (`ValueGuesses`), the chunked flag must stay up in every state of a
chunked body, and a chunk's size must stay below `MaxLength`, which is the value for "no
length" (`LengthsNeverWrap`: the test before the product is enough, for every limit
above 32). The states the automaton only passes through (`s_headers_done`,
`s_header_value_start`) are why `Counts` is apart from `Sound`, and the counter of the
header is why `Sound`, which holds during a symbol, is apart from `Rests`, which holds
between two. `Spells` relates the letters sent to the method guessed so far: a better
guess agrees with the one before in all of them (`BetterGuesses`, for each of the fourteen
changes of mind). Symbols have no type in these proofs: they hold whatever arrives.

`LengthIsRead` relates the length the parser computes to the digits the peer sent, and
those are known to the callbacks only, which get them in as many pieces as the buffers
make of them. `Reads` therefore takes what has been handed over and what is still held under
the mark of this buffer together for the value so far (`ValueSoFar`), and `Marks` says what makes
that right: a mark is set exactly where symbols belong to a name, a value, a URL or a body, and
a value begins only after its name has been handed over, so what is left of an earlier value
is not taken for the beginning of this one. The number itself is a
recursive function of the digits; that it exists and grows with each digit is shown
with the shortest counterexample (`NumberIsReckoned`, `NumberGrows`).

**The displays and the test program.** The screen is compared with the text printed since
the last reset: a character's line and column are counts of the characters and line
ends before it (`Line`, `Column`), so `ScreenShowsText` becomes inductive once the cursor is
tied to the counts of the whole text, and the work is what one more character does to a
count and to a remainder (`Unique`, `Successor`, `StoreShows`): the screen runs round, and the
line that is begun is the one that is cleared. A reset takes the cursor home and begins the
text anew, but `em_control` has no reset (Core.scala:53) and the write enable of video
memory is not gated by it (VGA.scala:34, DataManager.scala:26), so a store that is in the
core still takes place: at the cell of the old cursor if it is in MEM when the reset
comes, at the top left if it comes later, and as the first character of the new text if
the reset is over by then. Of a cell in which nothing of the new text belongs
`ScreenShowsText` therefore says that it is as it was, but for that store in one of those
two cells (`LeftAlone`); the invariant says where a store in flight may still land.
`PictureIsCurrent` needs `PixelArrives`: video
memory answers in the next clock, so what is on its way must be what the position
scanned a clock before had when it was asked. For the squares, `Computes` is the loop invariant of
`__mulsi3` (the sum so far plus the product that is left is the square, modulo the size of an
int) and that of the two loops over the arrays; an element is the number its bytes
make (`ElementBytes`).

**HTTP connections.** `HttpInv` says for each connection what its state of reading and
writing has to do with its entry in the timer queue, and which of its peer's requests
the answers so far belong to. Entries are armed for their owner only, the one a
connection remembers is its latest, and one that waits for its peer has one armed. The
keys count from the first entry ever made, so every lemma about the queue relates
them to positions; the queue is emptied from its front, which keeps them right. A request
whose log line throws (`ReadThrows`) has its deadline cancelled and leaves nothing under
way, so it preserves all of that (`InterruptedGood`): what it breaks is that the connection
ends.

**The simulation server.** `UsersAreAlive` is not inductive, because `check_destroy`
deletes a connection without taking the mutex when its close handler has been called
before. `ServerInv` adds what makes that safe: such a connection is not a user, what
the simulation thread still has to send to are users, it has something to send only
while it holds the mutex, a handler changes the set of users only with the mutex, and a
message handler that is not through holds it for a connection that lives. The proof has
a lemma for each function of the connection, which preserves `Sound`, and one
(`DoInv`) that a sound handler preserves `ServerInv`. `ReportInv` adds the way of a
report: from the last one the peer has got, those being sent, those queued and those
posted follow one another (`Chain`, made of `Runs`) up to the one the simulation thread
posts next. `ClosesOnce` finds the one Close frame of a peer that sends one: yet to
come, being read, or answered. `LateInv` says that what is posted for a deleted connection
was posted before the deletion (`owed`), and only that may run late or begin a write: the
handler that deletes a connection is the one step in which sends become late, and after it
the connection is no user, so none are posted any more.

Induction over data (the queue, the reports, the words written) is nowhere needed as
such: where a proof would use it, it takes the least element of a set of counterexamples
(`LeastNat`, from the well-foundedness of `<`), or states the invariant for every
position at once.

### Assumptions

Each is stated where its constants are declared and evaluated by TLC in the runs:
`WordAssumption` and `MemoryAssumption` (powers of two are positive numbers, four bytes
make a word), `AluAssumption` (the ALU's result is a word; shifts and bitwise operators
are sums of powers of two, and need induction), `ProgramAssumption` (the powers of a byte's size
that make up an int are positive numbers, and an int holds every index), `DisplayAssumption` and
`TextAssumption` (sizes of the screen, of counters and the type of texts), `DecodeAssumption` (a decoder yields
instructions, and NOP is `addi x0,x0,0`), `PowerUpAssumption`, `InputsAssumption`,
`PackageAssumption`, `RoundAssumption` (the words of the program counter are whole rounds
of the memory), `SessionAssumption` (what the tests' host sends are commands and words, and the other hosts
drive inputs of the package),
`BoardAssumption`, `LimitsAssumption` (the parser's limits), `TickAssumption` (a deadline is at least one second), two
`ScriptsAssumption` (the types of scripts), `ServerAssumption` and `NamesAssumption` (no peer
is called "free" or "sim"). `CodeFits` is a hypothesis of one theorem, and the instance of `Board` satisfies it;
`StoresNothing` is a condition on the initial states of the tests' host.

### Model-checked only

* All liveness (`LoadEnds`, `ShowsSelected`, `EveryDigitIsShown`,
  `EveryConnectionEnds`, `CommandTakesEffect`, `GoneIsDropped`): out of the prover's reach
  under fairness.
* `Texts`: JSON, routes, query strings and base64 are recursive on their text, in the code and
  in the model; nothing can be proved about recursive operators, and what the run states
  is induction over a text.
* `DeliveredAsSent`: it says that the requests handed on are those a text of any length was
  made from, where the text is folded from its parts. What the parser does with one
  symbol, wherever the buffers end, is proved; that the whole text comes back is not.
* The three violations of section 5, which are about instances by their nature.

The types of core and package are checked as part of `BoardTypeOK`; `WedgedForGood`, `StallsOnce`,
`DeadWritesNothing`, `PacedByEnableOnly`, `StoredIsLoaded`,
`LengthsNeverWrap`, `LimitsAreKept` and `CompletionsFindTheirConnection` are proved and
not checked by a run.

## 5. Where the code disagrees with its comments and tests

1. **A jump stops the core** (`Wedge`). A flush or a stall puts zeros into `de`. Zero
   control signals have `WBSel = WB_DM`, and the destination is `x0`, so Core.scala:76
   takes the bubble for a load of `x0` and stalls any instruction with a zero in one of
   its source fields, such as the NOP the flush just put into `fd`. The stall makes the
   next bubble. The test's program has a jump as its third instruction (riscv.lst:10) and
   turns in loops, and the test expects what it computes behind it
   (PackageTester.scala:86-113). Reset does not help: `fd_inst` resets to a NOP, `de`
   does not reset at all (`WedgedIsForGood`). A core whose registers power up as zero is in
   that state from the start.
2. **The second operand is not forwarded** (`SecondOperand`). `dataB` at
   Core.scala:139 has no reader, and the test program needs it.
3. **The board's data is loaded one word off** (`BoardData`). State 15 steps the
   ROM address in the first clock of a word, and the write cycle that uses it
   comes a clock later. State 12 sets the address back by one to make up for it;
   state 14 does not.

Further behaviour that the models have and that a reader may not expect:

* **A paused core executes.** `enable` holds the program counter only; the
  instruction it stands at enters the pipeline at every clock.
* **STEP does not step.** Core.scala:35 wants `pcStep` in two clocks in a row, the
  debugger raises it in one; `StepsAreOnePulse` proves that no host can do better, and
  `OnlyEnablePaces` that with `pcEnable` low the program counter stays.
* **A half word at an odd address comes back with its bytes swapped** (`StoredIsLoaded`).
  Memory.scala:75 offers the lanes of the cell the two bytes of a half word
  alternately, starting with lane 0, so at an odd address the second byte goes in
  first; the load at Memory.scala:86 shifts the cell and does not change them back.
  Words are stored and loaded in full at every address, so misaligned ones agree
  with themselves. The ISA leaves misaligned accesses open.
* After a load-use stall the instruction fetched meanwhile is lost, because the
  program counter does not wait; and the third instruction behind a write reads the
  old value, because the register file does not pass a write through to a read.
* A store that is in EX or MEM when reset is pressed takes place all the same, since
  neither the registers it is in nor video memory's write enable know of the reset.
* The list under section 3 has those of the server.

## 6. Not modelled

* `simulate/ustcrv.cpp`: it clocks the simulated board a fixed number of times and
  writes a wave file; it keeps no state.
* The clock divider (a black box), ROM contents, the generator of the Verilog.
* Sync pulses of VGA, the shapes of characters and digits, LEDs.
* Of the C program: `memset` (nobody calls it), start-up code and linker script.
* Of crow: responses in the parser, the separate URL parser, middlewares, SSL,
  logging but for the line of `handle` that may throw, mustache, writing JSON, floating-point parameters of routes, the look-ups
  in a query string, websocket frames of 126 bytes and more, and upgrades to anything
  but a websocket. The server uses none of them.

What would come next: `DeliveredAsSent` by an invariant that says, for each state of the
automaton, how much of the text of one request has been collected; and a definition of the
readers in `Texts` by functions on positions instead of recursion on the text, about which
theorems could be stated.
