# Verification of the Mini-RISC-V and its cryptographic return address stack

This directory holds TLA+ models of the hardware in `srcs/` and of the programs
in `gcc/` and `os/`, the TLC runs that check them on small instances, and theorems about them that TLAPS checks for
every value of the constants. `PROJECT.json` maps every definition to the
source lines it stands for, and lists the runs, hazards, findings and theorems.

## 1. Inventory

| Component | State | Operations | Interacts with | What makes it correct |
|---|---|---|---|---|
| On-chip return address stack (`srcs/RAS/ra_stack.sv`) | slots, entry counter, sticky mismatch flag | per clock edge: push, pop-and-compare at the top, then push or pop at the bottom | driven by CRAS control | never under- or overfull; keeps order; flags exactly the wrong returns |
| CRAS control (`CRAS_top.sv`) | state machine, page count, write address, pair in flight, configuration registers | spill a pair, refill a pair, stall the core, configure, reset | stack, crypto core, memory port, pipeline (`rdy`) | the pieces together behave as one unbounded stack; stalls end; nothing leaves the chip in the clear |
| Simon crypto core (`simon_*.sv`) | control state, round counter, data and key registers | load, rounds, output; key pass before a decryption | CRAS control (valid/ready both ways) | decrypts what it encrypted; handshakes neither lose nor repeat a block |
| Memory controller and block memory (`Memory_Controller.sv`, `Mem_Interface.sv`) | byte-lane memories, output registers | core access, CRAS access, MMIO reads and writes | core, CRAS, UART, SPI, counter, display | port goes to one owner; unaligned accesses hit the right bytes |
| Pipeline (`RISCVcore_uart.sv`, `Fetch_Reprogrammable.sv`, `Decode.sv`, `Execute.sv`, `Memory.sv`, `Writeback.sv`, `Hazard.sv`, `Forwarding.sv`, `branchforward.sv`) | PC, stage registers, flush flag, register file | advance, stall, flush, freeze (debug, prog), trap | all of the above | executes as the instructions one after another would |
| Multiplier, divider | operands, index, ready/busy | start, iterate, hold the result | execute stage | result is the arithmetic one; handed over once |
| CSRs and traps (`CSR.sv`, `trap.S`) | machine registers | write, trap, return | pipeline, UART interrupt | the interrupted instruction is resumed once |
| UART (`uart_controller.sv`, `uart.c`) | 16-byte FIFOs (vendored 16550) | put, get, poll, print, readline | memory controller, loader, programs | no byte lost, none out of order |
| Serial loader (`kernel.c`, `kboot.S`, `reprogram.py`) | word being read, address, memory image | greet, receive word, detect magic, store, start | UART, host script, reset button (at any time) | the program started is the one sent, again also after a reset on a quiet line |
| Measurement programs (`quicksort.c`, `fact.c`, `testing/term.py`) | numbers still to be sent; results read | receive, work, send, answer | UART, host | both ends keep in step and finish |
| SPI (`spi_controller.sv`, `spi.c`) | two FIFOs, transfer state | write, read, transfer | memory controller | responses in order, none lost |
| Cycle counter | counter, overflow | count, zero | memory controller | - |
| Heaps (`malloc.c`, `kmem.c`) | free list, headers; chain of chunks | malloc, free, sbrk; kmalloc, kfree, coalesce | programs; `kmem.c` takes its region from `page.c` | live blocks never overlap; no memory is lost from the books |
| Pages and page tables (`page.c`; older copies in `stdlib.c`, `os/src/page.c`) | a byte of flags per page; tables | alloc, dealloc, zalloc, map, translate | `kmem.c`; tables are pages | blocks inside the heap and apart; translations are those asked for |
| Formatted output (`os/src/printf.c`) | flags, width, precision, buffer | one conversion after another | programs | the C standard |
| AES (`aes.c`), sorts (`qsort.c`, `rsort.c`), arithmetic (`utils.c`) | arrays, loops | - | programs | their definitions |
| Teaching operating system, other benchmarks, Photon, debug display | - | - | - | not modelled |

Hard behaviours: everything on the chip runs at every clock edge, so the
program's calls, returns, loads and stores meet every state of a spill or
refill (tens of cycles long); two state machines shake hands over registered
signals; stalls feed back into the pipeline; reset and configuration may come
at any moment; thresholds and counters have boundary cases; the clocked block
of the stack uses blocking assignments, so its parts see each other's updates.
The serial line has no flow control, so what keeps bytes from being lost is who
waits for whom. The allocators must survive every order of allocations and
frees with nothing but headers and flags to remember by.

## 2. Plan

Built, in this order:

1. **The return address stack**: `RaStack`, `SimonTop`, `Cras`, the
   environments `CrasOpen` (any core) and `CrasProgram` (nested calls), the
   abstract `ReturnStack`; `CrasOpenProofs`, and on them `CrasProgramProofs`
   with the refinement of `ReturnStack`.
2. **Fetch and decode**: `FetchDecode`, the abstract `Isa`, the refinement
   proved in `FetchDecodeProofs`.
3. **Allocators**: `Malloc`, `PageAlloc` with `PageTable` on top, `Kmem`, and
   the abstract `Heap` that all three implement, with `HeapProofs` (for
   `Malloc` and `Kmem`) and `PageProofs` (for `PageAlloc` and `PageTable`).
4. **Serial path**: `Uart`, and on it `Loader`, `Measure`, `Readline`, each with
   the host's end; `SerialProofs` (for `Readline` and `Loader`), `MeasureProofs`.
5. **Programs that run by themselves**: `Printf`, `Aes`, `Qsort`, `Rsort`,
   `Division`, against their definitions; `ProgramProofs` for all but `Aes`.

Open, in the order of what they would add: composing `FetchDecode` with `Cras`
in place of the free inputs `full` and `refill`; the pipeline's data path
(forwarding against a register file without a pipeline, loads in the shadow of
a jump, multiplier and divider); the byte lanes of `Mem_Interface`; the SPI
controller; Simon at bit level, which would discharge the ideal cipher.

## 3. Modules

| Module | Models | State and steps |
|---|---|---|
| `RaStack` | `ra_stack.sv` | `data`, `cnt`, `mismatch`; `StackClock` is the clocked block: `TopOp`, then `BottomOp` on its result, with `full` and `empty` from before the edge, as the blocking assignments have it |
| `SimonTop` | `simon_ctrl_fsm.sv`, registers of `simon_core.sv` | `scur` (`state_cur`), `round`, `ready_o`, `pt_r`, `skey`; one action per state of the machine |
| `Cras` | `CRAS_top.sv`, its port in `Memory_Controller.sv` | `state`, `pt_i`, `cur_addr`, `page_count`, `dec_read_last`, configuration registers, `mem`, `mem_dout`; `Clock(in)` is one clock edge: the conjunction of what stack, crypto core, state machine, registers and port do, `in` being the wires from the core in that cycle |
| `CrasOpen` | `Cras` with an arbitrary core | any input in any cycle, reset at any edge |
| `CrasProgram` | `Cras` with a program that calls and returns | `calls`, the true stack of return addresses; `hijacked`, whether some return went elsewhere; waits while `rdy` is down |
| `ReturnStack` | the promise: an unbounded stack with an alarm | `Call`, `Return`, `Reset` |
| `FetchDecode` | `Fetch_Reprogrammable.sv`, the control flow of `Decode.sv`, the trap logic of `RISCVcore_uart.sv`, `mepc` | `pc` (`IF_ID_pres_addr`), `ins`, `branch_next`, `branch_addr`, `flush_sig`, `trap_ret`, `trigger_trap`, ...; `Clock` is one clock edge; `hz`, `mul_ready`, `full`, `refill` and the switches change freely within what their sources allow (`EnvEdge`) |
| `Isa` | the promise: one instruction after another | `Execute`, `Reset` |
| `FetchDecodeProofs` | theorems about `FetchDecode` | |
| `CrasOpenProofs` | theorems about `CrasOpen` | |
| `CrasProgramProofs` | theorems about `CrasProgram`: the refinement of `ReturnStack`, the alarm | |
| `HeapProofs`, `PageProofs` | theorems about `Malloc` and `Kmem`, about `PageAlloc` and `PageTable` | |
| `SerialProofs`, `MeasureProofs` | what each step at the serial line keeps, and theorems about `Readline` and `Loader`; theorems about `Measure` | |
| `ProgramProofs` | theorems about `Printf`, `Qsort`, `Rsort` and `Division` | |
| `Heap` | the promise of an allocator: what it hands out lies apart from what is held | `Allocate`, `Free` |
| `Malloc` | `malloc.c` | `flist` (the list from `begin` on), `size` (the headers), `heap_end`, `given`; `malloc` is four actions: a node taken whole, carved, a new chunk, new memory of the exact size |
| `PageAlloc` | `page.c`, table of pages | `flags`, `held`; `alloc`, `dealloc` |
| `PageTable` | `page.c`, `map` and `virt_to_phys` | `tables`, `root`, `todo` (the `map` under way, one level per step), and what the program has asked for |
| `Kmem` | `kmem.c` | `chunk` (offset of each header -> size), `taken`, `head` (where `coalesce` stands, one chunk per step), `kheld` |
| `Uart` | `uart.c` and the 16550 as the driver uses it, the wire, the host's end | `wire_in`, `rx`, `tx`, `tsr`, `inbox`; `Tick` is the time of one byte, both directions at once; `UartReset` clears the board's side and leaves the wire to the receiver, which may begin to hear in the middle (`Remnants`) |
| `Loader` | `kernel.c`, `kboot.S`, `reprogram.py` | `kpc`, the string being printed, the word being read, `ram`; `ResetButton` in any state |
| `Measure` | `quicksort.c`, `fact.c`, `term.py` | `mpc`, `queue` and `out` (what is still to be sent), `host`, what it has read |
| `Readline` | `readline` of `uart.c` and somebody typing | buffer `c`, index `i` |
| `Printf` | `os/src/printf.c` | the scan `pc`, what it has parsed, `buffer`, `idx`; the conversions are operators |
| `Aes`, `Qsort`, `Rsort`, `Division` | `aes.c`, `qsort.c`, `rsort.c`, `utils.c` | the variables of their loops, a step for each round of a loop whose result the next round depends on |
| `Powers` | the powers of a number, as a recursive function | |
| `MCCrasOpen`, `MCCrasProgram`, `MCFetchDecode`, `MCHeaps`, `MCSerial`, `MCPrograms` | instances for TLC | sets a `.cfg` cannot write; the last three run one of several modules per behaviour, so that state spaces add up |

**Abstractions.** A word is a model value or a ciphertext half. The cipher is
ideal: `CipherOf(b, k)` decrypts to `b` under `k` and to `Junk` otherwise, and
the data register changes after the last round only (nobody reads it in
between: `Lockstep`). The four stores that change the key count as one. Only
the part of memory behind the possible values of `base_addr` is modelled, with
room for `MaxPages` pages; that software reserves enough is an assumption
(`Cycle` in `CrasOpen`, `ProgramAssumption` in `CrasProgram`), for the hardware
checks nothing. In a simulator, `CRAS_top` reading the bottom slot races with
the blocking assignments of `ra_stack`; the models follow the synthesised
circuit, where registers are read before the edge.

In `FetchDecode` an instruction is what it does to control flow and where it
goes; whether a branch is taken is part of the instruction. Its data are left
out. What the pipeline does wrong, used in certain ways,
is kept out of the pass runs by `CarefulUse`, each part of which is the subject
of a finding or a hazard: no multiplication or `mret` right behind a jump
(code for `rv32ic`, one of the two targets in
`readme.md`, has no multiplications; code for `rv32imc` may place one there, and
then `fetch_shadow` applies), no use of `mepc` right behind a write to it, first
an instruction that may be executed twice (`boot.S` starts with `la`), the
stack never full, no freeze of an instruction in decode that something besides
the pipeline sees (`Quiet`), and a reset after the use of `prog`.

In `Uart` time passes (`Tick`) only while the firmware polls in vain, or while a
program runs: a byte takes some 8700 clock cycles on the line, the firmware a
few dozen to handle one. A byte that meets a full FIFO is dropped and
remembered in `overrun`. In `Kmem` offsets count headers and sizes count bytes,
and are added to each other, as the code does. A request `zalloc` cannot meet,
an `sbrk` past the end of memory, an image with the magic word in it and the
other things the code does not guard against are assumptions or guards named
at their place, and hazards in `PROJECT.json`. `Malloc` abstracts the `next`
fields to the list they make. `Printf` has no format string: every step of the
scan meets any character that may come next, so all formats of the bounded
length are covered. `Readline` lets keys come without end and at full line speed, but
CR at most `MaxCRs` times before the echo has caught up (`CaughtUp`), and `MaxCRs`
below the depth of the FIFO: a CR is echoed by two characters, and 16 of them,
among other keys that never leave a pause, overrun the transmit FIFO.

The reset button works at any time, in the middle of a download too. The board's
side of the line is then empty and the kernel greets, but the host goes on
sending. The receiver may miss the rest of the byte under way and misread up to
`MaxMisread` more. The kernel takes what it hears for a new download: each word that is
not the magic one is refused, which costs 19 characters of output for 4 bytes of
input, so a long remainder overruns the receive FIFO; and when the words are still aligned the
magic word at the end of the download opens a load, for which the first magic word of
the next download is the end: an empty program is started, and
what follows goes to it. The model does all of this. `cut` says that the last
reset fell among bytes on their way in: then `RunsWhatWasSent` and
`NothingLost` promise nothing, and `DownloadsRun` promises nothing for downloads
begun in this state (`steady`). The code has no other way back than a further reset on
a quiet line, after which all three hold again, whatever the earlier resets have
left behind: that is what they say. Bytes the board has not sent when it is reset are
not promised to the host (`due` starts anew with what has arrived). Downloads are started when
the line is quiet and no program runs (`Idle`): a running program reads its
input itself.

**What is left out.** Of the stack: `dout`, `pop` (tied to 0), the unused states
and registers of `CRAS_top`. Of the processor: the data path of the pipeline,
the byte lanes of the memory and the MMIO multiplexing; `CrasOpen` allows any
behaviour of the core, `CrasProgram` that of a program without the pipeline's
own faults. Of the programs: `unmap` (its test never holds, so it changes
nothing), the number conversions of `uart.c`, floating point in `printf.c`
(compiled out), the printing in the benchmarks. Not modelled at all: the tables of
the decoder, ALU, multiplier and divider; SPI; the cycle counter; the debug
display; Photon; the unused variants of the core; the remaining benchmarks and
the teaching operating system. They are pure functions without state, third
party code, not part of the design, or left for the plan above.

**Hazards no property covers.** `PROJECT.json` lists the main ones. Others that are
real, and why no property is about them:

* turning the stack off and on between a call and its return
  (`CRAS_top.sv:163`), and a region behind `base_addr` that is too small
  (`CRAS_top.sv:235`; it is 0 after reset, where the program lies): the hardware
  leaves both to software, the models assume the care;
* `CRAS_top.sv:480` reads a slot that `ra_stack` shifts with blocking assignments
  at the same edge: a race in simulators only;
* a multiplication is issued again in every cycle it waits in decode
  (`Decode.sv:214`), and `mcause` is built from an `ecall` that is already gone
  (`CSR.sv:41`): they need the data path;
* a program with the word `0xdeadbeef` in it, a stray byte on the line, an image
  that just fills the memory (`kernel.c:39`, `14`, `32`), a host that dies in the
  middle of a test (`term.py:17`): the protocols have no way back but the reset
  button on a quiet line;
* `malloc` of nearly 2^32 bytes (`malloc.c:40`), `kmalloc(0)` (`kmem.c:85`), `sbrk`
  and `fact(0)` without limit (`malloc.c:133`, `fact.c:44`), `zalloc` with no page left
  (`page.c:53`), `map` below a leaf (`page.c:154`), a printf format that ends inside
  a conversion (`printf.c:988`): callers are assumed not to;
* responses of the SPI controller that nobody reads in time
  (`spi_controller.sv:79`): not modelled.

## 4. Runs

| Run | Instance | Shows |
|---|---|---|
| `cras_open` | depth 7, thresholds 6/3, 3 rounds, 5 pages, core memory accesses, enable toggled, reset | `CrasTypeOK`, `PageAccounting`, `SpillHasEntries`, `Lockstep`, `Confidential` under every input sequence; `FullClears`, `EmptyRefills`, `Settles` |
| `cras_lifo` | depth 6, thresholds 5/1, 1 round, nesting to 9, 5 pages, one call per refill, two returns per spill, tampered returns | `Implements`, `AlarmExact` |
| `cras_config` | nesting to 6, 2 keys, 2 bases, stores while nothing is spilled | `Implements` |
| `cras_burst` | nesting to 10, three calls in one refill | violates `NoFalseAlarm` |
| `cras_alias` | instructions whose ALU result lies in the MMIO page | violates `NoFalseAlarm` |
| `fetch` | every careful program of 4 words over 8 kinds of instruction (30,260 programs), any hazards, multiplier delays, refills, quiet freezes, resets | `InOrder`, `SeenOnce`, `TypeOK` |
| `fetch_full` | 3 words, calls may fill the stack | violates `InOrder` |
| `fetch_shadow` | 3 words, multiplications anywhere | violates `InOrder` |
| `heaps` | a heap of 96 bytes with chunks of 48 and three request sizes; 7 pages of 8 bytes, tables of 2 entries, 2 virtual pages mapped at any level; a region of 512 bytes, requests of 1, 12, 24 | `MallocImplements`, `PagesImplement`, `KmemImplements` (refinement of `Heap`), `Tiled`, `FreeOrUsed`, `FlagsTell`, `BlocksInHeap`, `ChainWhole`, `Translates` |
| `serial` | FIFOs of 16, the real strings, images of up to 2 words, 2 downloads, stray words, resets at any time, with up to 1 byte misread behind one; up to 4 elements, 3 tests, times of one and two bytes; lines of 3 without end, up to 3 CRs ahead of the echo | `NothingLost`, `RunsWhatWasSent`, `InStep`, `LineReturned`, and the liveness properties `DownloadsRun`, `TestsEnd` |
| `programs` | all formats with one conversion, widths and precisions up to 13 for a conversion buffer of 13 bytes (instead of 32), ints of 8 and long longs of 14 bits, output buffers of 0 and 3 bytes; the keys and the block of FIPS 197 appendix C; all arrays of 8 elements of 3 values; all arrays of 4 keys of 4 bits in digits of 2; all pairs of 6-bit ints, for `multiply`, `divide`, `modulo`, `__mulsi3`, `__divsi3`, `__modsi3` | `Truncates`, `AsTheStandardSays`, `MimicsAppendixC`, `SortsInPlace`, `PassesSort`, `DividesRight` |
| `divide_sign` | as `programs` | violates `SignStored` |

**Bounds.** The smallest stack in which all cases meet has room between the
thresholds for a spill (two entries) and above the upper one for calls made
during a refill: 6 or 7 slots do. With 6 and calls at every chance the stack of
`cras_lifo` gets exactly full. Two spilled pages suffice to see a wrong page
order, three to five to see the pointer run; every depth of nesting has its own
return address (two at the first), so an entry that is lost, repeated or
exchanged shows. One to three rounds instead of 44 change how long a transfer
takes, not what can happen in it: memory contention already stretches transfers
without limit, and the calls that fit in one are bounded separately:

* `CallBurst` and `RetBurst` bound the calls during one refill and the returns
  during one spill. The refinement holds while
  `EMPTY_THRESH + CallBurst + 4 <= DEPTH` and `RetBurst + 3 <= FILL_THRESH`
  (proved: `CrasIsStack`; 2 and 2 are the largest at 7/5/1, 1 and 2 at 6/5/1, and
  `cras_burst` runs 3 at 7/5/1). For the
  shipped 32/24/16 that is 12 calls and 21 returns. A refill takes some 98
  cycles and a spill some 55; with at least four cycles per call and five per
  return at most 24 calls and 11 returns fit. So returns are safe, and calls
  are not: `cras_burst` shows what happens one call past the bound.
* `MaxPages` and `MaxDepth` bound the nesting; cycles without calls and returns
  are unbounded.
* `fetch` needs no bound but the program's length: the pipeline looks at three
  addresses at a time (in decode, behind it, where it goes), so four words, run
  round and round, bring every instruction next to every other.

* `heaps`: a chunk of 48 bytes holds up to three blocks, the limit two chunks, so
  nodes are taken whole, carved down to a bare header, and joined by a second
  chunk; `Requests` has a size that is rounded up and one of the chunk's size.
  Seven pages leave room for a root, tables below it and blocks of the program
  in every order; with tables of two entries a virtual page is three bits, and
  the two mapped ones differ in the lower two. `KmemBytes` is 64 headers, so
  that a chain has up to eight times as many bytes as the region, as in the code.
* `serial`: the word in `Words` is such that the magic word stands across two of them,
  and across one and the magic word behind it, so words that are out of step with the
  host's after a reset are misread in every way; the
  second download is shorter than, as long as or longer than the first. Messages
  of 16 and 41 characters are the real ones; a FIFO of 16 just holds the first. A
  remainder of up to 20 bytes, refused word by word, and two downloads, one cut and
  one behind it, are enough for the wrong starts described above. A third
  download would find nothing new: a reset on a quiet line leaves nothing of the first two but `ram`,
  which the first magic word clears. Of the lines, three
  CRs ahead and two characters on the wire meet every state of `readline`, but do not
  fill a FIFO; the theorem `LineNothingLost` covers the limit.
* `programs`: with its sign or prefix a field of 13 exceeds the conversion's buffer, and
  so do 14 binary digits; fields of 1, 3, 11 and 13 are shorter than, as long as and
  longer than the numbers, by the one and the two places of a prefix; `MaxN` of 8 with a threshold
  of 2 (instead of 7) makes subarrays be put off twice.

**Fairness.** `FairSpec` is weak fairness of one action: a clock edge with the
memory port free, as long as such an edge would change the state machine or the
crypto core. The clock runs by itself; the port is free in every cycle whose
instruction in the memory stage is no load or store, and a stall of the stack
sends bubbles down the pipeline (`Decode.sv:418`), so a core that waits for the
stack cannot keep the port. Reset may come but need not.
`SerialFairness`: the firmware runs by itself (weak fairness of `Kernel` and
`Board`), the host program goes on (`HostHears`, `Host`), and byte times pass,
one of them delivering the next byte: a host may pause but not for ever. Nobody
is bound to start a download or a test or to press the reset button; somebody may
press it again and again, so `DownloadsRun` is about downloads after which
nobody does.

**Deadlock** is checked in every run but `programs`, where a call returns and
that is all: a circuit always has a next step. In
`CrasOpen` and `CrasProgram` a cycle in which the core does nothing is always
possible. In `serial` there is always a byte time or somebody polling.

## 5. Findings

* `cras_burst` (bug): `ra_stack.sv:135` drops a refilled entry, or lets the
  counter pass `DEPTH`, when calls have filled the stack in the meantime.
* `cras_alias` (bug): `Memory_Controller.sv:295` disables the memory under the
  CRAS by the address of an instruction that does not access memory.
* `fetch_full` (bug): `Decode.sv:436` forgets the flush when a call fills the
  return address stack; the instruction behind the call is executed.
* `fetch_shadow` (bug): `Decode.sv:214` lets a multiplication that is to be
  flushed hold the pipeline until it is not flushed any more.
* `divide_sign` (bug): `utils.c:32` takes the sign of a quotient from a product
  that may overflow: 65537 / 65535 gives -1.

Seen while modelling, without a run of their own:

* A store to a key register takes effect at once (`CRAS_top.sv:166`), also while
  pages encrypted under the old key are in memory; `readme.md:221` offers to
  change the key without a condition. `cras_config` shows that it is safe while
  nothing is spilled.
* In `enc_begin` `CRAS_top` lowers `valid_i` in the cycle in which `ready_o` comes
  up, against the assertion of `simon_top.sv:171`. It does no harm: the block
  has been loaded one edge before (`Lockstep`).
* `RISCVcore_uart.sv:385` freezes the pipeline but not the return address stack:
  a call or return held in decode by `debug` or `prog` is repeated at every
  clock (`Quiet` keeps it out of `fetch`).
* `kmem.c:49`, `62` and `85` add sizes in bytes to pointers to eight-byte headers.
  Blocks stay apart and the chain whole (`KmemImplements`, `ChainWhole`), but the
  chain is eight times as long as the region, and headers of remainders are
  written outside of it. `coalesce` uses the same unit for its end, `kmalloc`
  does not, and gives up after an eighth of the chain.
* `printf.c` differs from the C standard in the cases `Deviates` and `NoPrecision` list:
  a negative precision counts as 0; what does not fit the conversion's buffer is cut; a number
  set to the left gets no zeros for its precision, so `%-.1d` of 0 prints
  nothing (this one came up in the proof only); `%hhd` takes its argument for unsigned; `#` puts a 0
  in front of an octal number whose precision has put one there; `%#.0o` of 0
  prints nothing instead of a single 0 (`printf.c:315`); and the prefix of `#` overwrites digits when they
  fill the field, all but one place of it with zeros and `x`, or makes a
  binary number padded with zeros one too long.
* `page.c:170` (`unmap`) never finds anything; `stdlib.c:15` and `os/src/page.c:15`
  round with `!` instead of `~` and hand out the page at address 0;
  `uart.c:126` (`atoi`) starts with an uninitialised index.

## 6. Proofs

Eight modules hold the proofs. Each proves an inductive invariant first.

The return address stack is proved in two layers. `CrasOpenProofs` proves, for every depth, thresholds, number of rounds, set of
keys, words and addresses, and every behaviour of the core:
`TypeCorrect`, `PagesCorrect`, `SpillCorrect`, `HandshakeCorrect` and
`Confidentiality`, the five invariants of `cras_open`.

They rest on the assumptions named in the modules. `StackAssumption` relates
the thresholds: `FILL_THRESH >= 5`, because between the decision to spill and
the second pop three returns may already have popped; `SimonAssumption`,
`CrasAssumption` and `OpenAssumption` only give the constants their types.

None of the invariants is inductive alone. `IndInv` adds

* `SpillRoom`: how many entries are left in each state of a spill, so that the
  counter cannot reach 0 before the second pop;
* `FitsMemory`: entries on chip, in flight and in memory together fit the
  region, so that a page written later still does;
* `RoundsLeft`: the round counter stays below the last round while rounds run;
* `Results`: what the data register holds when a pass is over (ciphertext after
  an encryption, plaintext after a decryption), which ties the crypto core's
  state to the state of `CRAS_top` and gives both types and secrecy.

A step preserves it in four groups, which need little of each other: the crypto
core with the handshakes (`SimonTypeStep`, `LockstepStep`), the counters
(`StackClockStep` for one edge of the stack, `CountStep` with one case per
action of the state machine), the registers (`PairStep`, `CfgStep`) and the
memory port (`PortStep`). `CycleStep` and `ResetStep` put them together.

`CrasProgramProofs` proves what the device is for: `CrasIsStack`, that slots, pair
in flight and encrypted pages together implement `ReturnStack`, and `AlarmIsExact`.
A program is one behaviour of the core, so `IndInv` of `CrasOpen` comes for free,
through an instance of `CrasOpenProofs` (`Open`). Four parts are added to it:

* `Encrypts`, `Decrypts`: in every state of a spill or a refill, which of `pt_i`,
  the data register of the crypto core, its output, `mem_dout` and the memory holds
  the pair, and in which form;
* `Budget`: how far the slots can be filled by calls during a refill, or emptied by
  returns during a spill, so that no push at the bottom meets a full stack and no
  pop an empty one;
* `Tracks`: until the alarm the entries are the calls in progress; behind it,
  that the program was hijacked.

`StackStep` says what one edge does to the slots when both ends move at once,
`FlowStep` what it does to pages and pair; `EntriesStep` puts them together: the
concatenation changes by the instruction's push or pop and by nothing else,
whichever boundary the pair crosses in that cycle.

The hypothesis `Sustained` says which programs and configurations this is true of.
No part of it can be dropped: the thresholds leave room for the calls and
returns of one transfer (`cras_burst` is beyond it by one call, and fails), no
instruction that accesses no memory blocks the port (`cras_alias`), and the
configuration is not changed while something is spilled, nor the stack switched
off (the hazards at `CRAS_top.sv:163` and `166`). The instances of `cras_lifo`
and `cras_config` meet it.

`FetchDecodeProofs` proves, for every memory size, program, trap vector and
reset address, and every sequence of hazards, stalls, freezes and resets that
`CarefulUse` admits: `FrontTypeCorrect`, `SeenOnceAlways` and
`ExecutesInOrder`, which is refinement of `Isa`. `FetchAssumption` gives the
constants their types; `CarefulUse` is the theorems' hypothesis, met by the
instance of run `fetch`. The refinement mapping takes the address of the next
instruction to be executed from decode, or, if that one is flushed, from where
fetch goes (`ArchPc`), and `mepc` from wherever its youngest value is
(`ArchEpc`). `IndInv` says why that works:

* `OneFlush`: of a jump, a trap and a return from a trap at most one is being
  flushed for, and it is the one fetch follows;
* `FlushPasses`: an instruction to be flushed leaves decode at the next edge
  (nothing can hold it), so the flag that is up for one cycle is enough;
* `MepcSettled`: nobody reads `mepc` while a write to it is on its way.

Every clock edge is one of four: the pipeline is frozen, drops the instruction
in decode, lets it wait, or lets it go (`FrozenStep`, `FlushedStep`,
`WaitsStep`, `RetiresStep`); the first three map to stuttering
(`StutterMaps`), the last to `Isa!Execute` (`RetiresMaps`).

The allocators are proved for every heap, page or chunk size and every set of
requests (`MallocAssumption`, `KmemAssumption`, `PageAssumption`), as long as the
program frees only what it holds. Each of them implements `Heap` (`MallocIsHeap`,
`KmemIsHeap`, `PagesAreHeap`): the step that hands out a block is an `Allocate`
because, in the state it leads to, the invariant puts all blocks apart
(`HeldApart`, `KernelHeldApart`).

* `HeapProofs` proves, of `Malloc`, `MallocTiled` and `MallocFreeOrUsed`. `Tiled` alone is not
  inductive: a node that is carved must keep room for a header, which it does
  because all sizes are multiples of eight (`Aligned`). New memory extends a
  tiling at its end (`ExtendedFacts`), a chunk that is split at once extends it
  twice.
* Of `Kmem` it proves `KmemChainWhole` and `KmemTakenHeld`. `ChainBounded` is added
  to the chain: it ends where it ends. `SplitFacts` and `MergeFacts` are about
  chains alone; what is merged is free, so nobody holds a block in it.
* `PageProofs` proves `PagesFlagsTell` and `PagesInHeap`. That a page marked `Last`
  ends the block `dealloc` was given follows from `Disjoint`: no block ends
  inside another. `StartFacts` finds where the pages begin.

Of the page tables `PageProofs` proves `TablesTranslate`, for every size of a
table, every set of pages and every order of `map`, `alloc` and `dealloc`, and
again `PagesImplement`, now with `map` as a customer (`TablesAreHeap`). The run's
tables have two entries, the theorem's any number. `Translates` speaks of the
walk of `virt_to_phys`; the invariant has to say why a store into one table
changes the walks that should change and no others. `Leveled` gives each table
one level, and `OneWay` says that one branch at most leads to it and none to
the root: tables form a tree, so two walks that meet at an entry came the same
way (`SamePath`) and a store is seen by exactly the addresses whose digits lead
there (`ChangedEntry`). `UnderWay` ties the `map` in progress to that tree:
where it has got to is where a walk for its address would be, and it has met no
leaf. `Owned` keeps a new table apart from the old ones, which is what the
allocator's own invariant is needed for. What `map` does below a leaf is left to
its caller (a guard of `MapBegin`), in the theorem as in the run.

`SerialProofs` proves, for every FIFO, buffer and alphabet, `LineIsReturned` and
`LineNothingLost`, for any number of lines one after the other, and any number
of keys, at full line speed; CR alone is limited, to one time less than a FIFO
has places, counted from the last time the echo has caught up
(`ReadlineAssumption`, `crs`). `Room` says why that is enough: one character leaves for each that
arrives, so only the second characters for the CRs add up, and with the character being echoed there are
at most `crs + 1` in the FIFO. One CR more fills it at the wrong moment.

Of the loader it proves, for every image, magic word and FIFO depth, and resets at any time,
`LoaderRuns` and `LoaderNothingLost`. `LoaderInv` has a part that always holds
(`Outgoing`: the types of what goes out and of the image) and `TidyInv`, which holds unless `cut`. A
reset on a quiet line establishes `TidyInv` from `Outgoing` alone (`ResetInv`), one
among bytes keeps `Outgoing`, and no other step changes `cut` (`CutStays`).
`TidyInv` frames the bytes on their way
(`Pending`: the word being read, the receive FIFO, the wire) into words: before
the magic word a whole download is pending, behind at most one other word
(`Closed`); behind it, what is stored and what is pending make up the image
(`Loads`); then nothing is pending (`Runs`). That no byte is lost needs more,
since the kernel does not look at its receive FIFO while it prints and nothing
holds the host back: `Hears` and `Prints` count one byte in for each one out, so
what arrives during a refusal is bounded by what was left of the greeting and
the refusal's own length, and `Len(Greeting) - 4 + Len(Sad) <= FifoDepth` is
enough (`LoaderAssumption`). With the texts of `kernel.c` that is 15 of 16
places; with a refusal two characters longer TLC finds the loss, so the texts are
safe by a single place. The model takes the host to be done with one download
before it starts another, as `reprogram.py` is.

`MeasureProofs` proves, for all lengths below 2^16, 32-bit times and every
timing of the line, `InStepAlways` and `MeasureNothingLost`. Nothing in the
protocol tells a byte of one number from a byte of the next, so the invariant
has to account for every byte that is under way: `Phases` divides a test into
`Resting`, `Requested`, `Answering(k)`, `Acknowledging(k)` and `Ending`, each with the
exact contents of both directions. The steps at the line, which move bytes
without changing what is under way, are the lemmas of `SerialProofs`; `HostReads`
says that the four bytes the host takes are those of one number. Two things
make it true: `quicksort.c` waits for an empty FIFO and for an answer around
each element, so at most one is on its way; and `fact.c`, which waits for neither,
sends eight bytes in all. `FifoDepth >= 8` in `MeasureAssumption` is for the
latter, and tight: with seven places TLC finds the lost byte. The FIFOs of the
16550 have 16.

`ProgramProofs` proves, of `Printf`, for every format, all arguments and every size of the
buffer, 0 included, `OutputTruncates`. The property is about the end of a call; the
invariant says that until then the buffer holds what fits of the characters put
out so far and `idx` counts them all (`PrintfInvariant`), whatever was put out.
That needs each conversion to put out a sequence, which is one lemma per function
of the formatter (`LeadingZerosText`, `PrefixText`, `OutRevText`, ...), also where
fields, precisions and digits exceed the conversion's own buffer. The terminating
0 is where the arithmetic is: `Terminate` stores it at `idx` or at `maxlen - 1`,
whichever is less, and for a buffer of no bytes nowhere.

It also proves `ConversionsAreRight`: whatever the argument, the flags, the width
and the precision, for integers of any width up to 64 bits and a conversion buffer of any
size, a conversion puts out what the C standard says, or is one of the cases of
`Deviates` (section 5).
`Standard` is written from the standard's wording: `Least` are the digits a
precision asks for, `Begun` those and the 0 an octal number with `#` begins
with, which for a 0 with precision 0 is the only one, `Filled` those and the
zeros that fill the field. `StandardInvariant` says that what the scan has in its variables is
what the format says so far (`Agrees`, `ReadSoFar`) and that what has been put out
stays as it is. The rest is about one call of `_ntoa_long`, which makes the number
from its last digit to its sign and turns it round: `NumberFacts` counts the
figures, `HashPlaces` shows that the prefix takes zeros only, `InField` that the
field is filled once, by zeros or by blanks.

Of `Qsort` it proves `QsortSorts`, for every array and threshold. `QsortInv` says
what the subarray in hand and the ones put off have in common: they lie apart,
they shrink (`Room`, which gives the bound on the stack), and whatever two
elements no subarray holds together are in order (`PartsInOrder`). The scans look
at no bound; `ScanInv` says what stops them: the partitioning element and what
the exchanges have left behind on either side. That nothing is lost is a
permutation from the array at the beginning (`Rearranges`) that moves nothing
outside the subarray in hand, from which both the order of the parts and
`SameElements` follow. The code's stack of fifty words,
which nothing checks, has room for 24 subarrays; by `StackFits` a 25th would be put
off only in an array of more than `11 * 2^24` elements.

Of `Rsort` it proves `RsortSorts`, for every number of elements and every width
of digits and keys. `RsortInv` says what a bucket holds at any time: while the
sums are made and the elements placed, bucket `d` is the number of elements that
belong in front of where the next one goes (`UpTo`). That each element has a
place of its own (`PlaceOf` is a bijection) and that equal digits keep their
order is then counting, and the order by the bits of all passes so far is the
order by this digit and, where it is the same, by the passes before.

Of `Division` it proves `SoftwareDivides`, for every width of an int and all
arguments `GoodFor` admits. The loop of `multiply` keeps `mr + ma * mb` the same
modulo the width (`MultiplyInv`); the long division keeps
`quotient * |y0| + x = |x0|`, with `y` the divisor times `mask` and `mask` a power
of two (`LongDivision`); the doubling ends before `y` overflows because dividends
have two bits less than an int. `GoodFor` is where the code is right; `divide_sign`
is outside.

Model-checked only:

* liveness (`FullClears`, `EmptyRefills`, `Settles`, `DownloadsRun`, `TestsEnd`), which
  is out of the prover's reach;
* that `Aes` encrypts as the standard does (`MimicsAppendixC`): the published
  examples are about three keys, and its bytes are combined by `Bitwise`.
