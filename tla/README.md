# Verification of the EECS151 FPGA project

TLA+ models, model-checking runs and machine-checked proofs for

* the Verilog under `src/hardware/src`: a three-stage RISC-V core (`Riscv151`),
  its memory map, its receive path with the FIFO, the bit timing of its UART and
  the button inputs;
* the BIOS under `src/software/bios151v3` with the part of `151_library` it uses;
* the programs under `src/software/riscv-isa-tests` that have a state of their
  own: the multi-threaded tests with their barrier and kernels, and the
  virtual-memory test environment.

In the hardware models one step is one clock edge (both edges in `RxPath`).
Registers are variables; everything the Verilog computes between two edges is an
operator over them, with the Verilog name of the wire. In the software models
one step is what no other actor can see a part of.

## The system

| Component | State | Operations | Interacts through |
|---|---|---|---|
| Front end (`Riscv151.v` 245-299, `control_hazard.v`) | `pc`, `pc_ex`, `pc_wb`, `instr_ex`, `instr_wb`, read registers of BIOS and IMEM, three stall registers | fetch, redirect, stall, kill, reset | branch outcome and target from EX; IMEM written by stores |
| Data path (`Riscv151.v` 301-501, `data_hazard.v`, `control_logic.v`, `rf_decode.v`) | register file, `rf_wa`, `alu_reg`, `csr_reg`, `store_load_reg`, CSR, counters | execute, forward, write back | instruction and PC from the front end; memories; UART |
| Memory map (`memory_control.v`, `store_extend.v`, `load_extend.v`) | DMEM, its read register, BIOS data port | load, store, I/O decode | address from the ALU, access in WB |
| Receive FIFO (`fifo.v`) | `cnt`, two pointers, `ram`, `data` | write, read, both, reset, on the falling edge | written by the receiver, popped by a CPU load |
| UART (`uart_receiver.v`, `uart_transmitter.v`, `uart.v`) | bit and clock counters, shift registers, `has_byte` | send a frame, receive a frame | serial lines; ready/valid to the core and FIFO |
| Buttons (`synchronizer.v`, `debouncer.v`, `edge_detector.v`) | two flip-flops, sample counter, saturating counters | sample, debounce, pulse | the pulse is the core's reset |
| BIOS and library (`bios151v3.c`, `151_library`) | token buffer, command | poll, read, echo, parse, store, jump | loads and stores to the UART and memories |
| Multi-threaded tests (`riscv-tests/mt`, `mt-matmul.c`, `mt-vvadd.c`, `util.h`) | `sense`, `count`, `threadsense`, results, shared scratch arrays | a kernel's piece of work, barrier, verify, exit | cores share memory |
| Virtual-memory environment (`env/v/vm.c`) | page table, free list, `user_mapping`, `tohost` | boot, page fault, evict, terminate | traps of the program, TLB, host |
| Dead files (`mem_control.v`, `mmio.v`, `branch_predictor.v`, `reg_file.v`) | - | - | instantiated nowhere |

What makes it hard:

* three instructions are in flight and the hardware has no interlock: every
  data hazard must be met by the right forwarding path, every control hazard by
  the right number of NOPs, and three bookkeeping registers remember what to
  drop;
* the memories read synchronously and have no reset, so a word is chosen one
  clock after its address was, by a PC that has moved on;
* `memory_control` decides about the access in EX by looking at the one in WB;
* the FIFO works on the other clock edge and counts in one block what it stores
  in another;
* the status of a received byte comes from the FIFO and the byte from the
  receiver's shift register, which the next frame overwrites;
* a reset can come at any edge and reaches some registers and not others;
* the two ends of the line count symbol times by their own counters;
* one buffer of the BIOS holds the command, its arguments and the answers;
* cores of the multi-threaded tests meet at a barrier of three variables, and
  each kernel divides the work by its own arithmetic;
* `vm.c` changes page tables in memory while a TLB may hold what was there.

What must hold: the core executes its program one instruction at a time as far
as the program can tell (refinement of an abstract architecture); it executes
the words memory holds, in order, and never stops; a store reaches one device;
the FIFO loses, repeats and reorders nothing; every frame is received as sent; a
press is one pulse; a command is carried out as typed; no kernel races and every
sum is complete; demand paging is invisible.

## Modules

| Module | What it is |
|---|---|
| `Fetch` | the front end, with branch outcomes and jump targets as inputs of every clock |
| `MCFetch` | four words of memory for `Fetch` |
| `FetchProofs` | the proofs about `Fetch`, for all constants |
| `Rv32` | words, address bits, the I/O map, ALU and comparator |
| `Isa` | abstract: the architecture a program sees, one instruction per step |
| `Riscv151` | the core: `Fetch` (by INSTANCE) composed with data path, memory map, CSR, counters; refines `Isa` |
| `MCRiscv151` | programs for `Riscv151` and the configurations |
| `Riscv151Proofs` | that the core implements `Isa`, for every program and size |
| `Queue` | abstract: a bounded queue with a registered output |
| `Fifo` | `fifo.v`; refines `Queue` |
| `MCFifo` | a ring of four |
| `RxPath` | extends `Fifo` with the receiver and the program's loads, on both clock edges |
| `MCRxPath` | a FIFO of two and four frames |
| `RxPathProofs` | the proofs about the ring of `Fifo`, the handshake in `RxPath` and what the program reads, for every depth |
| `UartLink`, `MCUartLink` | `uart_transmitter`, `uart_receiver` and `uart`'s line registers, clock by clock |
| `UartLinkProofs` | the proofs about `UartLink`, for every symbol time and number of bits |
| `Buttons`, `MCButtons` | `button_parser` for one button, clock by clock |
| `ButtonsProofs` | the proofs about `Buttons`, for every sample period and count |
| `HexDigits` | how many values a word and a byte of so many hex digits have |
| `Monitor` | abstract: a line editor and commands of words |
| `Bios`, `MCBios` | `main`, `read_token`, `read_n`, the conversions and the terminal; refines `Monitor` |
| `BiosProofs` | that it does, and that the screen shows what the BIOS has, for every length of buffer and word |
| `Rendezvous` | abstract: cores that meet again and again |
| `SenseBarrier` | `barrier()` of `util.h`, one core's atomic operations at a time |
| `Loops`, `Matmul`, `Vvadd` | the 44 matmul kernels of `mt` with the one of `mt-matmul`, and 6 vector kernels: what each core reads and writes between two barriers |
| `Mt`, `MCMt` | `thread_entry` with any kernel, over `SenseBarrier` |
| `MtProofs` | that the barrier is a rendezvous, with any number of cores, and what follows for the kernels: races, bounds, scratch arrays, results |
| `FlatMemory` | abstract: a memory of the program's own |
| `Vm`, `MCVm` | `vm.c` with page tables, TLB and host; refines `FlatMemory` |
| `VmProofs` | that it does, with its other safety properties, for every number of pages |

### Fetch

`Clock(branch, target)` is one rising edge with `rst` low, `ResetClock` one with
`rst` high; `Tick` and `Reset` add the write port of the instruction memory.
Two history variables record what the circuit does not say: `arch`, the PC of
the oldest instruction that has not left EX, and `slot`, whether EX holds a word
fetched to be executed (`live`), an injected NOP (`bubble`), the word 0 of a
reset (`reset`), or the word a reset found in the read registers (`stale`).

`ImemPort` lets a store in EX rewrite any one word while EX runs BIOS code. This
is `memory_control`'s `pc_wb[30]` rule, and `Riscv151` is checked to keep to it
(`OnlyBiosWritesImem`). Without it `InOrder` would be false: the words already
fetched are not refetched.

### Riscv151

`Tick` and `Reset` are the two kinds of rising edge. The state functions above
them follow the circuit: `data_hazard` (`ForwardsA`, `ForwardsB`, `Source`),
`memory_control`, the WB stage (`ldx_out`, `wb_sel`, `rf_wd`) and the EX stage.
The UART is the environment: at each edge it presents any element of
`UartInputs` as status and received byte.

Data is abstracted to what tells operands apart. A word is four address bits
and an index (`Rv32`): the four bits decide the region exactly as in the code,
every access is a whole word, `pc + 4` is the next index. Addition, subtraction
and passing stand for the ALU's ten operations, three comparisons for six. The
selection of operands, which is what forwarding is about, is complete.

`Isa` is what `ImplementsIsa` compares with: `ArchRegs`, `ArchCsr` and `ArchIo`
count the instruction in WB as done, and `arch` is the next instruction, so an
instruction takes effect on the edge on which it leaves EX. `Isa` states what a
program may rely on: where the address map names no device, a load may return
anything and a store may also write the data memory. The DMEM behind such
addresses aliases in the code as well.

Three hypotheses in `OperandsForwarded` and `ImplementsIsa` say, edge by edge,
what the circuit has no path or no decode for. They speak of the instructions in
EX and WB, not of the program, so programs are not filtered and every other edge
of the same program is checked:

* `Resolved`: a reader right behind a CSR instruction or behind a load from the
  status or a counter (not forwarded, or forwarded with another value; finding
  3), and a load right before a store through the loaded register (finding 2);
* `CsrApart`: a CSR instruction whose address field names the register its
  predecessor writes, since `data_hazard` takes that field for rs2;
* `Decoded`: a store to the instruction memory behind anything but an access to
  a data region (`memory_control.v:69` opens it only behind one, and otherwise
  the store goes to the data memory alone; the BIOS's stores follow stack
  accesses), a store to `RESET_CTR` not covered by BIOS code (see below), and a
  load from the status register into a register. The byte such a load forwards
  to the next instruction is right, which is what the polling loops of the
  library live on.

`ImplementsIsa` further leaves out the edges with `rst` high, since a reset drops
an instruction in WB that the architecture has done, and the leftover word a
reset executes (finding 1).

### Fifo

`Negedge` conjoins the two always blocks. `Write` and `Read` are the write side
and the read side of the second one: its four branches are their four
combinations. Pointers have `$clog2(DEPTH)` bits and wrap where the ring ends,
because `DEPTH` is a power of two (32 where it is instantiated).

### RxPath

`Falling` is the FIFO's edge, `Rising` that of the receiver and the core. `Fifo`
is composed with its write side wired to the receiver and its `rd_en` to the
load in WB, as in `Riscv151.v` 667-700. Bytes are numbered as the receiver
assembles them, and 0 is a register with a part of a frame in it, so "the byte
read is the byte announced" is an equality of numbers.

A frame goes through `start` (no sample taken, the register still holds the byte
before), `bits`, and `stop` (all samples taken, the byte not yet valid); an
event moves it on at any clock. Every timing of the bits is a choice of these
clocks, and the symbol and sample counters are left to `UartLink`. `Program` is
any program that reads as `uread_int8` does: poll, and after a set status load
one byte, with any number of other clocks between.

`prompt`, chosen at the start, says that the program always has every byte
before the first sample of the next frame, which is half a symbol after its
start bit (some 217 clocks at 50 MHz and 115200 baud, plus the second half of
the stop bit before it). The two properties about what is read assume it; the
code gives no other protection. The echo in `uread_int8` waits for the
transmitter, but only after the byte has been loaded.

Four history variables follow the bytes: how many were `assembled`, which one
was `accepted` last, how many were `fetched`, and whether the FIFO was ever full
when one was completed (`overrun`). A byte completed at a full FIFO is lost even
if the program makes room at once: at the falling edge of the load that pops the
FIFO the write side still sees it full, and at the next rising edge the receiver
sees room and withdraws the byte. `NoByteLost` therefore ends at the first
overrun, while `AcceptedOnce` and `TypeOK` hold beyond it.

### UartLink

`Clock(valid, rst)` is one clock of both ends: `TxStep` and `RxStep` are their
registers, `valid` the word that `uwrite_int8` hands over when it has seen
`data_in_ready`. The sender is either another UART of this code (the test
benches connect two), or a host whose frames may follow one another without the
one clock that this transmitter leaves between two (`ideal`). Only a word that
was waited for is handed over, as `uwrite_int8` is written. A write that does not
wait restarts `clock_counter` inside the symbol under way
(`uart_transmitter.v:40`) and its word is dropped; the model leaves such writes
out, and no property covers them.

The receiver sees the start bit through two registers and begins to count one
clock after it; on each frame that follows without a gap it begins one clock
later still. `lag` counts these clocks. `MaxLag` is how far that may go until a
sample falls outside its bit: `S - S/2 - 2` for a symbol of `S` clocks, 215 for
the board's 434. This is the length of gapless burst the receiver stands;
against its own transmitter it never lags.

`garbled` is true from power-up or a reset until the line is quiet. A reset of
one clock leaves a low level of one clock on the line, which the receiver takes
for the start of a frame of ones, and the lines start low at configuration, so a
phantom frame may come in both cases. `ReceivedAsSent` excuses these,
`Resyncs` says that the excuse ends whenever the sender pauses.

### Buttons

`Tick` is one clock of synchronizer, debouncer and edge detector; the pin may
have any level at each clock. The four history variables say how long the
synchronized level was low, since when it was not low for a whole sample period,
how long that had lasted when the count was complete, and whether a low sample
came after the last pulse. `z1top` uses 25000 and 200; `SWITCHES[1]`, with which
it ANDs the pulse, is not synchronized at all and left out.

### Bios

The program has one thread and waits only for characters, so a step is one
character and all that follows from it up to the next `uread_int8`. Names of
commands and hex digits are characters of a small alphabet, words and bytes are
two digits and one, halves work like bytes and are left out. `String` and
`Converted` read the buffer as `strcmp` and `ascii.c` do: up to the NUL, with
whatever an earlier token left behind it. Loads print address and value from
that same buffer.

`Monitor` states the command language with no buffer at all: the word being
typed, the command it belongs to, the values so far. `key`, in both, is the
character typed last, so that each character must have its own effect. Two facts of the code show
in it: a conversion takes a fixed number of characters, among which those that
are no digits count though they add nothing (`0x10000000` is read as
`00100000`, a byte takes the first two characters), and a token of `BUFFER_LEN`
characters ends by itself and loses the last one.

`ScreenShowsToken` models a terminal: the echo of `uread_int8` and what
`read_token` adds to it. The cursor stands behind the word and what was rubbed
out is blank. A word begins at the left margin only after a return that is not
followed by a prompt; there the terminal ignores a backspace too many but not
the blank that follows it, and the word goes on one column further right
(`lead`).

`Size` is 16 to the number of digits, as a recursive function: the prover knows
powers by their equation only.

Left out: a received NUL; the time the echo takes. At full line rate the echo
(ten symbols and a clock per character) falls a clock behind per character, and
the answers add to it, so a host must pause as `hex_to_serial` does; what
happens to a program that falls behind is `RxPath`'s `prompt`.

### Mt, SenseBarrier, Matmul, Vvadd

A kernel is a plan: a sequence of segments with a barrier between two. A segment
holds blocks `(rows, cols, terms)`: the elements of the result the core stores,
which of the products go into each, and whether the stores overwrite or add; and
the parts of shared static arrays it fills and reads. Sums are thus sets of
terms, and "each product once" needs no numbers. Registers, unrolling and the
order of stores in a segment are left out; their index arithmetic is not, it is
what the blocks are computed from. `Linked` puts each kernel into `thread_entry`
as the Makefiles link it.

`SenseBarrier` keeps the atomic steps of `barrier()`: the fetch-and-add with the
flip of the core's own sense, `count = 0`, `sense = threadsense`, and the read
of the spin. `item` counts pieces of work.

About half of the 45 matrix kernels go by the `lda` they are given. The others
are for 32 by 32 only: 32, 31 or 16 in their loops, blocks of 32 (`br`, `dr`), a
private transposition of 32 rows (`at`), while `dataset.h` of `mt-matmul` says 16.
`MCMt!SizedKernels` are the first kind and the vector kernels, and are run at
the sizes of `dataset.h`. `Unfit(n)` are the two of them that are wrong on `n`
cores: `vvadd1` stores past the end on more than one, `dm` has several of more
than two cores copy the same part of B. Each is run on the other numbers of
cores. What the code does wrong at these sizes is listed under the findings.

A block's stride is the row length the kernel takes, which is not always `Lda`.
`InBounds` wants a store inside its row of the results, with `Lda` rows and
columns, so that comparing rows and columns, as `NoRace` and `VerifyPasses` do, is
comparing elements. Reads are not bounded. `vvadd3` leaves out what does not
divide by the number of cores, none here. `crt.S:125` lets one core run while
`Makefile:84` starts two.

### Vm

`TakeFrame`, `CopyIn` and `Protect` are one first fault of `handle_fault`, cut
where the TLB may load an entry: `Fill` caches the current translation of any
page, valid or not, at any time, and only `flush_page` drops it. `SoftFault` is
the fault for an A or D bit, `Evict` one turn of `terminate`'s loop, `Host` the
other end of `tohost`. A page holds one value. Machines with and without
hardware update of A and D are both run. An assertion that fails sends its text
and `terminate(3)`; `"lost"` is a fault of the handler itself.

`FlatMemory` has the program's access in its state: the memory it promises
changes in the step that ends a store, by that store, and at no other time.

The boot's shuffle is taken as it is, and that every seed gives each frame to
one node is an assumption on the constants (`PeriodAssumption`), the one
`riscv_test.h:52` asks for. TLC evaluates it for the size of the run, and
`MCVm!RealPeriod` for the six bits and 63 frames of the real environment.

## Runs

| Run | Checks | Shows |
|---|---|---|
| `fetch` (`MCFetch.cfg`) | `TypeOK`, `InOrder`, `LinkIsNextPC`, `NoNeedlessBubble`, `Progress` | the front end over every memory content, branch outcome and target, store and reset |
| `core` (`MCCore.cfg`) | `TypeOK`, `OperandsForwarded`, `ImplementsIsa`, `OnlyBiosWritesImem` | every program of three instructions that produce and consume the same registers, every program of four accesses over all regions, and jumps into instruction memory with resets at any edge |
| `fifo` (`MCFifo.cfg`) | `CountMatchesPointers`, `ImplementsQueue` | every pattern of writes, reads and resets |
| `rx_path` (`MCRxPath.cfg`) | `TypeOK`, `NoByteLost`, `ReadsWhatFifoDelivers`, `StatusMeansByte`, `AcceptedOnce`, `ByteReachesProgram` | every timing of frames, program and resets |
| `uart_link` (`MCUartLink.cfg`) | `TypeOK`, `ReceivedAsSent`, `Arrives`, `Resyncs` | every word, pause, burst and reset, from power-up |
| `buttons` (`MCButtons.cfg`) | `OnePulsePerPress`, `PulseMeansHeld`, `PressDetected` | every level of the pin at every clock |
| `bios` (`MCBios.cfg`) | `TypeOK`, `ScreenShowsToken`, `ImplementsMonitor` | every sequence of characters |
| `mt` (`MCMt.cfg`) | `TypeOK`, `NoRace`, `InBounds`, `ScratchFilled`, `VerifyPasses`, `ImplementsRendezvous`, `Terminates` | the 28 kernels that go by the size given, at the sizes of `dataset.h`, on one, two and four cores (`vvadd1` on one, `dm` on up to two), every interleaving |
| `vm` (`MCVm.cfg`) | `TypeOK`, `OneOwner`, `AssertionsHold`, `HostHears`, `ImplementsFlatMemory`, `AccessEnds` | every program of loads and stores, every seed and image, both kinds of machine |
| `reset_start` (`MCResetStart.cfg`) | violation of `ResetReturnsToBios` | see findings |
| `store_address` (`MCStoreAddress.cfg`) | violation of `StoreAddress` | see findings |
| `mmio_loads` (`MCMmioLoads.cfg`) | violation of `LoadsReturnDevice` | see findings |

Bounds, and why they are enough:

* `fetch`: two words per memory and five kinds of word. The pipe holds three
  words, and every combination of kinds in the three is met because the
  contents are arbitrary; PCs wrap inside their region. No counter is bounded.
* `core`: three families of programs. `HazardPrograms`: forwarding relates two
  neighbours in the pipe, and a producer two instructions ahead has reached the
  register file, so a program of three is enough for distance one and two. The
  palette has every opcode class as producer of `x1` or `x2` and as consumer.
  `x0`, as destination, is met in jumps and stores. After the three, the program
  jumps to itself for ever. `MapPrograms`: the pointer is set, and then a change
  of it, the access that decides the decode, and the access or a reader of it
  make four. `JumpPrograms`: two of these and a jump into the instruction memory;
  these are reset at any edge. No program is left out. `MaxIo` bounds only when a reset may still come: once
  two UART accesses were made the program runs on without.
* `fifo`: a ring of four of two values; full, empty and several turns of both
  pointers. The proofs cover every other depth.
* `rx_path`: a FIFO of two and `MaxBytes` = 4, so that two bytes fill it, the
  third is completed at a full one and the fourth begins while the third waits.
* `uart_link`: symbols of 8 clocks and frames of two data bits. Samples, symbol
  ends and both registers on the line fall on different clocks, and `MaxLag` is
  2, reached by a burst of three frames. No counter is bounded. The proofs cover
  every other symbol time and frame.
* `buttons`: a sample every 4 clocks and a count of 3; the proofs cover every
  other period and count. No counter is bounded.
* `bios`: words of two digits, bytes of one and a buffer of four, so a token can
  be shorter than a word, a word, longer, and too long. Loads return two values
  whose digits can be typed again, and the buffer begins with NULs or with digits.
  The proofs cover every other length of words and buffer.
* `mt`: the matrices of 16 by 16 and vectors of 1000 elements of the repository's
  two `dataset.h`. One, two and four cores divide both; what a kernel does at
  sizes they do not divide is not run. `MtProofs` covers the barrier for any
  number of cores and, of the kernels, the sizes their steps divide.
* `vm`: two pages and three frames, so that the second fault leaves one node on
  the free list as the 62nd does of 63; every seed and every content.
* In all core runs a memory has 8 words. `CounterMod` is 1 where no property
  looks at the counters and 4 where one does.

The initial registers and data memory stand for a program already under way;
the pipeline registers start as configuration leaves them. Deadlock is checked
everywhere: the clock never stops, a test that has ended says so by a step of
its own (`Halted`, `Stopped`), and the BIOS always takes a character.

Fairness of the core: `WF_vars(Tick)`, the clock goes on ticking. `Progress` says that
unless the core is reset for ever a live instruction is in EX again and again.
Nothing else is assumed; resets are never required.

Fairness of `RxPath`: the clock ticks; a stop bit ends (`bit_counter` counts it
down); the program polls again and again and loads what it saw announced, as the
loop of `uread_int8` does. The last three are strong because each is enabled at
one edge in two, or between other loads. That frames begin or samples come is
not assumed, and a byte is excused by an overrun or a reset.

Fairness elsewhere: `UartLink` and `Buttons`, the clock ticks. `Mt`, every core
keeps executing. `Vm`, hart and host keep executing; the TLB and the program are
not made to do anything. `Bios` has no liveness: it waits for a human.

## Findings

1. `reset_start`. The read registers of the memories are not reset
   (`EECS151.v:267`) and the button's reset lasts one clock, so the word at the
   interrupted PC is executed with `RESET_PC` as its PC; a jump there leads away
   from the BIOS (`fpga_project.tex:380`). With a reset held longer the word at
   `RESET_PC` is executed twice instead.
2. `store_address`. For a load into the address register of the following store
   `fwd_mem_addr` replaces the address and drops the offset
   (`data_hazard.v:72`; `fpga_project.tex:286`).
3. `mmio_loads`. `wb_sel_reg` has two bits for eight sources
   (`control_logic.v:79`; `fpga_project.tex:445-449`).

Seen while modelling, without a run:

* The instruction counter only ever decrements, and only for words no opcode
  matches (`Riscv151.v:491`; `fpga_project.tex:466` has it count every
  committed instruction). No program can read it, because of finding 3.
* The status bit says that the FIFO holds a byte, not that the byte beside it is
  valid (`Riscv151.v:630-631`; `fpga_project.tex:445`): a program that is behind
  reads a register through which the next frame is being shifted. The FIFO's
  output is read by no one. The properties of `RxPath` about what is read
  therefore assume a prompt program.
* Of the I/O stores only one to `UART_TX` turns the data memory off
  (`memory_control.v:45`): a store to `RESET_CTR` also writes the word of the
  data memory that its low address bits name, unless BIOS code executes it.
* A reset cannot abort a store: the reset branch of `memory_control` is
  overwritten by the if-chain below it.
* `vm.c:197` says that a floating-point instruction on hardware without it makes
  the test succeed; illegal instructions are not delegated (`vm.c:276-280`), so
  the test ends in `wtf()` with 841. `evict()` copies the image over the
  program's page and not the page back, and clears a node's frame before it
  returns the node; neither is seen, since `terminate` follows.
* `mt/Makefile:114-115` links every kernel with an `mt-matmul` of 16 by 16, whose
  `results_data` has 256 elements (`dataset.h:5`, `8`; `mt-matmul.c:50`). Those that
  hard-code 32 store past its end (`ad_matmul.c:13` from its ninth row on): `ad`,
  `af`, `al`, `am`, `av`, `ay`, `az`, `bf`, `bk`, `bo`, `br`, `ce`, `cf`, `cl`, `cm`, `cv`,
  `cy`, `df`, `do`, `dr`, `du`, `dv`. The sums of most of them, and of `at`, are not the
  ones `verify` wants there: `do_matmul.c:19` adds 32 products for 16, and the
  test of `mt-matmul.c:54` exits with an error.
* The two cores of `cf_matmul.c:47-48` and `87-88`, and of `cm_matmul.c`, add to the
  same elements with no barrier between them: one from the first row down, one
  from the last up.
* On two cores `vvadd1.c:12-15` stores four elements past the end of the 1000:
  only the loop's first group of four is tested against `n`. One core is all that
  `crt.S:125` lets run, and 8 divides 1000. `br` and `dr` take 16 columns at a time,
  more than one of four cores has. `af` reads one element of B past the end and
  does not use it.
* `hex_to_serial` begins with a line end "to clear any input tokens". That holds
  while the BIOS waits for a command; a command half typed takes the next words
  as its arguments.

## Proofs

Proved by TLAPS, for all constants that satisfy the named assumptions. Where a
module is used by another through INSTANCE, its assumption is a plain definition
and a hypothesis of its theorems: TLC evaluates it in the MC module, and the user
proves it of the constants it passes (`Riscv151Proofs!FrontEndConstants`).

* `FetchProofs`: `FetchTypeOK`, `InOrderExecution`, `LinkAddress`,
  `NoNeedlessBubbles`. They rest on `FetchAssumption` (types of the constants,
  stores are not jumps); the last three also on `[]InRegion`: `arch + 4` stays
  in the region of `arch`, without which the circuit fetches the next word from
  the other memory. `InOrder` is not inductive: that EX holds the right word now
  says nothing of the two words in flight. `IInv` describes the whole pipe by
  phase: with the three stall registers and `slot` it says, for each of `pc`,
  `pc_ex`, `pc_wb` and the two read registers, which instruction of the program
  it belongs to, or that it will be dropped. `PhaseInvariant` proves it
  inductive, one step per action and per phase.
* `Riscv151Proofs`: `CoreTypeOK`, `ForwardingCorrect` (`OperandsForwarded`),
  `ImemWritesAreBios` (`OnlyBiosWritesImem`), `CoreImplementsFetch`, `CoreInOrder`
  and `CoreImplementsIsa` (`ImplementsIsa`), from `Rv32Assumption` and
  `Riscv151Assumption`: for every program, size of memory, register file, UART
  and reset. `ForwardingCorrect` needs what two stages remember of one
  instruction: that the destination held in `rf_wa` is that of the word in WB
  (`DestinationKept`), and that EX is not live behind a taken jump in WB
  (`NothingBehindJump`). `CoreImplementsFetch` makes the data path the environment
  of `Fetch`, and with `ImemWritesAreBios` its phases hold of the core
  (`PhaseOfCore`, by INSTANCE of `FetchProofs`). The refinement then takes the
  live word apart: which instruction it is (`LiveWord`), what it computes
  (`AluValue`, `CsrValue`), what WB will write of it (`LoadNext`, `ResultNext`),
  where it goes on (`PcNext`), what it stores (`StoreNext`); `LiveStep` puts
  these into one step of `Isa` and `QuietStep` shows every other edge to be a
  stutter. The refinement rests on `[]InRegion`.
* `RxPathProofs`, first the ring: `FifoTypes` (`FifoTypeOK`, the FIFO's
  part of `RxPath`'s `TypeOK`),
  `FifoCountMatchesPointers` and `FifoImplementsQueue`, from `FifoAssumption` (a
  depth of at least one, a nonempty set of words). `RingInv` is the types and `write_ptr = SlotAt(cnt)`.
  `CountByEvents` shows that the first always block counts what the second one
  does; then each of accept, deliver, both and neither is a step of `Queue`.
* Then the path: `NothingLost` (`NoByteLost`), `EachOnce` (`AcceptedOnce`),
  `RxTypeOK` (`TypeOK`), `ReadsFifoByte` (`ReadsWhatFifoDelivers`) and
  `StatusIsByte` (`StatusMeansByte`), from `FifoAssumption` and
  `RxPathAssumption` (the bytes are words of the FIFO). `NoByteLost` alone says nothing of a register that still offers an old
  byte; `RxInv` says when the byte offered is a fresh one (`HeldWhenOffered`: in
  the stop bit, or valid with the clock high and room in the FIFO) and that a
  byte not yet accepted is in one of three places (`LastIsUnderway`), the third
  being a reset that has cleared the FIFO and not yet the receiver. What the
  program reads comes from one place and what it pops from another, and the two
  agree by counting: `ReadInv` adds the ring (`RingInv`) and says that the words in the ring and those popped are at most
  the bytes accepted, so a program that has fetched every byte before the first
  sample of the next frame leaves the ring with one word at most, the one the
  receiver still holds.
* `MtProofs`, first the barrier: `BarrierInvariant` and
  `BarrierImplementsRendezvous`, for every number of cores, from no assumption.
  `BInv` has two cases. `Gathering`: `count` is the number of cores that wait with
  their sense reversed, and all cores are in the same round if one that is
  released but still spins is counted as through. `Met`: the last core to arrive
  is between its two stores and all others wait for it. A step of `Arrive` is
  `Enter` of `Rendezvous`, the release by the last core and the end of a spin are
  `Leave`. `MtImplementsRendezvous`: every step of a test is a step of the barrier
  or leaves it alone, whatever the kernels are.
* Then the tests, from `MtAssumption` (numbers of cores of at least one, kernels
  that exist), `LdaAssumption` and `DataSizeAssumption`: `MtInvariant`, `MtTypeOK`
  (`TypeOK`). `MtInv` adds to the barrier's that each core is inside its program
  and that all that work are at the same item. So an interleaving decides
  nothing: `RacesAreInPlans`, `FilledByPlans` and `ChecksAreInPlans` reduce
  `NoRace`, `ScratchFilled` and `VerifyPasses` to the plans, which are then shown
  right by the way they divide the work (`OwnApart`, `GroupSetsApart`,
  `VectorsCover` and their like), each for the sizes it is written for:
  * `KernelsDoNotRace` (`NoRace`) for `RaceFree(ncores)`: 36 kernels at every size
    and number of cores; `ag`, `bb`, `bm`, `cg`, `br`, `dr`, `at` if a core's rows or
    columns are a multiple of the 4, 16 or 8 they unroll by, `af`, `am`, `du` (which
    hard-code 32) if they come in pairs, `cs` if two rows a turn divide `lda`,
    `dm` on one or two cores (with more, several copy the same part of B), `vvadd0`
    if there is an element for every core.
  * `StoresInside` (`InBounds`) for `InsideKernels(ncores)`: `ae`, `an`, `ap`, `ar`,
    `bc`, `dc`, the kernel of `mt-matmul` and the three vector kernels that test
    their bound at every size, each of the others at the sizes that its unrolled
    steps divide, 16 of them at an `lda` of 32, which they hard-code. It also says
    that a block keeps to its row, so that comparing rows and columns, as `NoRace`
    and `VerifyPasses` do, is comparing elements of the array (`Shares`,
    `TurnInside`, `StridedInside`).
  * `ScratchIsFilled` (`ScratchFilled`) for every kernel; for `ae` and `ce`, which
    transpose B together, if the number of cores and eight divide `lda` (and `lda`
    is 32 or more in `ce`, which hard-codes 32).
  * `ResultsAreRight` (`VerifyPasses`) for `RightKernels(ncores)`: all vector
    additions and 43 of the 45 matrix kernels (all but `cf` and `cm`, which race),
    at the sizes that their steps and the cores divide and their scratch arrays
    hold (32 by 32 in `ae`, `ar` and `dm`, 64 by 64 in `br` and `dr`), 19 of them at
    an `lda` of 32 only: every element has been given all its products, once, when a check reads it. That takes three steps.
    The stores of one element are different blocks of products, so what they add
    is the number of products they cover (`SumOfParts`, by induction over the
    stores, and `HoldsParts`). If each product of each element is in one block of
    one core (`DealtOnce`), the check passes (`DealtRight`). And the kernels deal
    them out so: a core's own rows, every n-th row and groups of rows cut the
    matrix up (`OwnPartition`, `TurnPartitions`, `GroupPartitions`), and within a
    row the products are cut into pieces (`PiecesOfAll`). For the kernels that add
    a few products per barrier, the turns of nested loops are the digits of a
    number: each product is in one turn (`Outer`, `Inner`, `LoopsRight`).
* `ButtonsProofs`: `OnePulse` (`OnePulsePerPress`) and `PulseOnlyIfHeld`
  (`PulseMeansHeld`), from `SampleAssumption` (the counter has the bits to reach
  `SAMPLE_CNT_MAX`, which is at least 3) and `PulseAssumption`. `ButtonInv` goes
  by `wrapping_counter`: where in the chain of registers the last sample is,
  that all are up until a low sample follows a pulse, and that the time the
  button has been held is at least the samples counted times the period.
* `UartLinkProofs`: `LinkInvariant`, `LinkTypeOK` (`TypeOK`) and `FramesReceived`
  (`ReceivedAsSent`), from `UartLinkAssumption` (a symbol of at least four clocks,
  at least one bit). `ReceivedAsSent` speaks of the clock in which a frame ends;
  `LinkInv` is what holds in all the others. `Following(e)`: the receiver's clock
  runs 4 + `e` clocks behind the sender's, where `e` grows by one with each frame
  of a burst and falls in a pause; it says in which symbol the receiver is,
  before its start, in a frame, behind the last one. `LineInv`: the three
  registers show the frame one, two and three clocks late. `SamplesInv`: the
  samples taken are the first symbols of the word under way. `SampledInside` puts
  them together: a start or data bit is sampled while the line still shows it,
  as `e` is at most `MaxLag`. `lag` is not `e` but its bound: after a reset the
  receiver may have caught up (`QuietLinked`).
* `VmProofs`: `VmTypeOK`, `FramesOwned` (`OneOwner`), `NoAssertionFails`
  (`AssertionsHold`), `ExitHeard` (`HostHears`) and `PagingTransparent`
  (`ImplementsFlatMemory`), for every number of pages that satisfies
  `LfsrAssumption` and `PeriodAssumption` and every set of values with the 0 that
  `vm_boot` puts into the registers. `AssertionsHold` needs to know that a first
  fault finds a node, so `ListInv` has the list stay in its array: the nodes
  before the head have gone to the mapped pages, one each, and `head` counts
  these. `MapInv` has no frame mapped twice and the TLB hold nothing stale
  between two steps of the handler; `BitsInv` says what the bits mean: a clear A
  bit belongs to the page about to be accessed, or `evict()` would meet one, and
  a frame with a clear D bit equals its image. `SayInv` and `HostInv` follow the
  exit code. `FreeNodesLeft` computes the list that `OneOwner` walks. For the
  refinement `Seen` is the program's memory: the copy into a fresh frame, and all
  of the handler, leaves it unchanged, and a store changes one page of it, as no
  other page has the frame.
* `BiosProofs`: `BiosInvariant`, `BiosTypeOK` (`TypeOK`), `ScreenIsBuffer`
  (`ScreenShowsToken`) and `BiosImplementsMonitor` (`ImplementsMonitor`), from
  `DigitsAssumption`, `LengthAssumption` (a buffer longer than a word) and
  `ValuesAssumption` (a load returns a word). `IInv` adds to the types and to
  `ScreenShowsToken` that no NUL and no delimiter is in the buffer before `i`: a
  NUL there would end the word early. The old characters behind it do no harm,
  as `read_token` puts a NUL at `i` before it returns (`EndedHolds`,
  `StringIsWord`). On the screen each key is one, two or three characters
  written (`ShowsOne`, `ShowsTwo`, `ShowsThree`), and there is one lemma for each
  thing a key may do (`CharacterKeeps`, `RuboutKeeps`, `EmptyKeeps`,
  `ReturnKeeps`, `TransferKeeps`). For the refinement, `ConversionsAgree`:
  `ascii.c` wraps after each digit and stops at the NUL, `Monitor` reads the word
  to its end and wraps once (`WrapsOnce`). `WordIsEntered` goes through the
  commands, `EditingIsEdit` and `StoringIsTransfer` through the keys.

What a recursive function returns is proved by induction over its argument. The
library's induction theorems take an operator and cannot be instantiated by the
provers; `BiosProofs!SetInduction` and `VmProofs!SetInduction` state induction
for a set, from its least missing element.

Only model-checked:

* Nothing of the kernels' safety: what the run takes is proved as well. Neither
  checked nor proved are `cf` and `cm`, what `vvadd1` and `dm` do on the cores they
  are not fit for, and what any kernel does at sizes that its steps or the cores
  do not divide, except where a theorem says "at every size".
* Liveness under fairness, which is out of the prover's reach: `Progress`,
  `ByteReachesProgram`, `Arrives`, `Resyncs`, `PressDetected`, `Terminates`,
  `AccessEnds`.

## Not modelled

Byte lanes and sign extension of loads and stores, the bitwise, shift and
set-less-than operations, signed branches: they change what is computed, never
from what. `merge_dmem`: its result differs from the RAM's output only when the
instruction in WB is a store, and no one reads it then. The clock wizard (a
vendor PLL), `SWITCHES[1]`, the test benches, the DDR model of the simulation.
Of the library, `memset`, `memcpy`, `strcmp` and the printing of numbers; of
`vm.c`, `printhex`, the levels of the page table and the second hart of
`coherence_torture`, which adds zeros.

Of the C files under `riscv-isa-tests`: `encoding.h` is constants;
`tiny-malloc.c` is a vendored allocator for debugger tests; the single-threaded
benchmarks and the lenet programs are straight computations with no state beyond
one call, some of them for an accelerator this revision does not contain. The
assembly tests of the ISA are stimulus.

## Plan

Byte lanes: `store_extend` and `load_extend` against a memory of bytes.
