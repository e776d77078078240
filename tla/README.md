# A verification project for ZI28

ZI28 is a Z80 computer with its own operating system (`src/system/os/src`, Z80
assembly inside org-mode files), a keyboard controller (C on an AVR), an emulator
(C), a C library port and a set of programs. This directory holds TLA+ models of
the parts in which state, order and failure matter, the TLC configurations that
check them, and proofs for tables, volumes, devices and boards of every size.

## The system and what makes it hard

The kernel runs on one processor, is not preemptive and takes no interrupts:
between the entry and the return of a system call nothing else runs. What is
hard in it is therefore not threads but

* long sequences of legal calls over small fixed tables (descriptors, open
  files, drives) that share entries through counters;
* state copied when a file is opened and used after somebody changed the
  original (start clusters, drive descriptors, the saved stack pointer);
* calls that write to the device several times, any of which may fail or be the
  last one before a reset;
* arithmetic built from 8-bit operations, with its carries and limits.

Around the kernel there is concurrency: a card that is pulled out or put in at
any byte of a transfer, two interrupt routines of the keyboard controller
between a keyboard and the Z80, a preemptive scheduler in the C library, a
drawing thread in the emulator that shares the video memory with the machine.
And there are programs whose correctness is a matter of long sequences: the
debugger's lists of points, the streams of the C library, the regular
expressions, the games.

### Inventory

| Part | State | Operations | Correct when |
|---|---|---|---|
| Descriptor layer `fs/vfs.org` | kernel and user half of the descriptor table, file table with counts | open, close, dup, udup, unlink, stat, read, write, seek | counts equal descriptors, an entry lives as long as it is named, programs do not reach the kernel half |
| Block access `block.org` | position, counters of the running call | read, write through blocks | exactly the bytes asked for move, an error leaves a prefix |
| FAT16 `fs/fatfs.org` | two FATs, directory, allocation hint, start cluster of open files | open, create, read, write, unlink, init | chains end, are disjoint and are kept; no cluster is lost |
| Arithmetic `math.org` | 32-bit cells | add, sub, inc, dec, shifts, compare, load | the numbers come out right |
| Processes `process.org` | saved stack pointer, arguments | execv, exit | exit returns to who called execv |
| Drive table `drive.org` | tree of mount points, device descriptors, paths | mount, lookup | the tree is a tree, devices stay open |
| Paths `path.org` | working directory | realpath, chdir, getcwd | normal form, inside the buffer |
| Device files `fs/devfs.org` | table of devices | open, readdir, fstat | every entry has a driver |
| SD driver `drivers/sd.org`, card `emulator/modules/sd` | state of the card's protocol, registers of the driver | init, read block, write block, eject, insert | driver and card agree where they are; a block is whole or the call says so |
| Cold start, calls, banks, heap `main.org` | bank, heap pointer | syscall, bsel, kalloc | numbers are checked, blocks do not overlap |
| Shell `cli.org` | input line, arguments | split, builtins, start programs | arguments inside their buffers |
| Keyboard controller `system/kbc/kbc.c` | bit count, edge, shift buffer, register, wait line | two interrupt routines | bit count and keyboard keep in step, whatever the Z80 does |
| Debugger of the emulator `emulator/src` | lists of points per address, flags, run mode | set points, run, step, finish, next, advance, out, prompt | lists end, a run stops where it should and nowhere else |
| Processor core `emulator/libz80` | registers and flags | arithmetic, DAA, shifts | chains over several bytes come out right |
| Graphics module `emulator/modules/vga` | video memory, frame, window | port writes, drawing thread | what was drawn last is shown |
| Threads `lib/src/preempt` | thread table, schedule, semaphores | tick, start, create, exit, wait, post | no wake-up is lost, who is ready runs |
| Streams `lib/src/zi28_clib/stdio` | `FILE` table, pushed-back byte, flags | open, reopen, close, read, push back, seek | bytes arrive once and in order; no descriptor is lost |
| Regular expressions `lib/src/zi28_clib/regex` | compiled program, groups | regcomp, regexec, regsub | the match an expression means is the one found |
| Games `user/games` | boards and counters | keys, clock, computer's moves | counters and board agree; the rules are kept |
| Console drivers, strings, monitor, font, tools, programs | almost none | | |

How they interact: the shell and programs call the descriptor layer; that layer
finds the drive of a path (`path.org`, `drive.org`), lets its file system (FAT
or devfs) fill in the file entry, and later jumps through the driver address
kept there. FAT reads and writes its device through a kernel descriptor that
the drive table keeps; that is a device file of devfs, whose driver cuts the
transfer into blocks (`block.org`) and hands each to the SD driver. `execv`
copies the three standard streams into the user half and loads the program
through a kernel descriptor. The other parts share no state with these: the SD
driver and the keyboard controller meet the rest at one port each, the library
and the games run inside a program and reach the kernel by its calls, and the
emulator is the machine below.

## Modules

| Module | Models | Kind |
|---|---|---|
| `Vfs` | descriptor layer with `execv`, `exit`, `mount`, `chdir`, cold start | state machine, one call per step |
| `OpenFiles` | what a descriptor layer promises, without counters | abstract specification |
| `MCVfs` | instances of `Vfs` | for TLC |
| `VfsProofs` | invariants of `Vfs` for every size of its tables | proofs |
| `Fat` | cluster allocation and chains of FAT16 | state machine, one device write per step |
| `MCFat` | instances of `Fat` | for TLC |
| `FatProofs` | chains are disjoint, end and are kept, for every size of volume | proofs |
| `FatIo` | contents, size and position of a file on the volume | state machine, one transfer per step |
| `FatIoProofs` | a file holds what was written, for every size of cluster and volume | proofs |
| `BlockIo` | read, write and seek on a block device | state machine, one block per step |
| `FlatDevice` | a device that is a row of bytes | abstract specification |
| `BlockIoProofs` | whole transfers, prefixes, the refinement of `FlatDevice`, for every size | proofs |
| `Math32` | 32-bit arithmetic and the address of a cluster | state machine, one routine per step |
| `Math32Proofs` | the routines compute what they are for, for every size of byte | proofs |
| `MCVolume` | one run over `Math32`, `FatIo` and `Sd`, one at a time | for TLC |
| `Sd` | SD driver and card | two state machines, one byte per step, a user who ejects and inserts |
| `SdProofs` | driver and card agree, blocks are a first part, for every length | proofs |
| `Kbc` | keyboard controller, keyboard, Z80 bus | one edge or bus access per step |
| `Threads` | scheduler, thread table, semaphore | one routine or tick per step |
| `Debugger` | points, run modes, prompt of the emulator | one instruction or prompt line per step |
| `Cpu` | arithmetic and flags of the processor core | one chain of instructions per step |
| `Vga` | graphics module and its thread | one pixel or port access per step |
| `Stdio` | streams over descriptors | one library call per step |
| `Regex` | compiler, matcher and replacement of regular expressions | one call per step, recursive operators |
| `Snake`, `Mines`, `Tetris`, `TicTacToe` | the rules of the games | one key or clock tick per step |
| `ProgramProofs` | no lost wake-up in `Threads`; bytes in order and no descriptor lost in `Stdio`; whole snakes, pieces inside their field and counters that agree with the board in the games: for every number of threads, streams and fields | proofs |
| `MachineProofs` | `Kbc` keeps step with the keyboard; `Vga` shows what was drawn; the lists of `Debugger` end and its stops are justified; the arithmetic of `Cpu` is right: for every code, picture and set of points | proofs |
| `MCBench` | the eleven modules from `Kbc` on, one at a time | for TLC |

### Vfs

`tab` is both tables: `fd` the 2 x 32 slots (kernel half below, user half
above, contiguous as in memory), `mode` the type bits of `ft_tableMode`
("free" for 0x00), `refs` the counts. `mounts` are the values of `dt_devfd`,
`proc` says who executes. One call is one step because the kernel is not
preemptive. The model keeps the code as it is, including the branches in which
the tables drift apart:

* `dup` to a descriptor in use closes the descriptor whose *number* is the
  entry index it found in the slot (`BeforeCopy`);
* `dup` and `udup` copy a slot that is closed, and count up entry 0 (`CopyFd`);
* a successful `unlink` clears the entry and leaves its descriptor.

The history variable `clean` becomes false at the first of them, and the
invariants are claimed up to there. `DriftBreaks` checks that the history is
not too generous to itself: each of these steps does make some count or entry
wrong, so that `clean` never ends early. `read`, `write`, `lseek`, `readdir` and
`fstat` change none of these variables. `getFileAddr` reports an index outside
the table in the carry flag, which `dup` ignores: its register then still points
at entry 0 (`EntryOf`).

`OpenFiles` is what the callers rely on: descriptors that name slots, and slots
that live exactly as long as they are named. `ImplementsOpenFiles` states that
every call, up to the first drift, is one step of it or leaves it unchanged;
`live` is mapped to the entries whose mode is not "free", so that the counts
disappear.

### Fat

A step is one write to the device (`Add1`, `Add2`, `Link1`, `Link2`, `Start`,
`Clear1`, `Clear2`, `Mark`) or one link of a chain (`Walk`); before each of
them `WriteFails` and `Reset` may strike. `fat` is both copies of the FAT,
`dir` the directory (a start cluster per entry), `hint` is
`fat_firstFreeCluster`, `open` what the open files remember, `call` the call
that runs. The model keeps the code's order of writes, that the hint is only a
place to start looking, that it is reset by mounting, that an error while the
first cluster is entered into the directory goes unnoticed (`Start(FALSE)`),
and that `fat_clearClusterChain` goes on with cluster 0.

Two situations break any FAT without a journal or locks, and two history
variables remember them: `misused`, a write through a descriptor whose file was
removed or given its first cluster through another one, and `torn`, a removal
that is cut in two by a failure or a reset. `NoCrossLinks` is claimed up to
`torn`, so with stale descriptors in use, and so is `ChainsEnd`; `ChainsKept`
up to either (`sound`), since a write through a stale descriptor that knows no
cluster yet gives its directory entry a new start. Everything else (resets in the middle of
an allocation, failed writes, two files growing in turns, removal and reuse) is
inside the claims. When no cluster is free the search runs on behind the FAT;
the model records that (`Astray`) and does not follow it.

Left out: names, directories below the root, reads that fail (the code ignores
them and goes on with an old value; planned). Sizes and data are in `FatIo`.

### FatIo

One regular file on the volume: `chain` its clusters in order, `data` the data
area (and what lies behind it, which a transfer that starts too far back may
reach), `fileSize` and `fileOffset` the fields of the open file, `rw` the
variables `fat_rw_...` of the running call. `Read` and `Write` stand for
everything up to the first transfer: limiting the count, finding the cluster,
extending the chain, placing the device. Then come the transfer that may be cut
at the end of the first cluster (`ReadFirst`, `WriteFirst`), the one after it
(`ReadLast`, `WriteLast`), and the new size (`WriteSize`). The link structure
of `Fat` is taken as a sequence here, with the free clusters handed out in
their order; cluster numbers go up to 128, where `Math32` shows them placed
right.

The code is marked "TODO test and debug multi-cluster read" and "write"
(`fatfs.org` lines 1171 and 1627), and the model keeps what it does:

* the place inside the first cluster is not reduced modulo the cluster
  (`RelOffs`), so that a write that starts behind the first cluster goes to a
  place that many bytes behind its cluster;
* `remCount` is compared with a whole cluster: a transfer of at most one
  cluster that starts inside one and crosses its end runs on into the next
  cluster of the *device*, whoever owns it;
* after two clusters the count is what `k_lseek` left in de, an address
  (`CountLost`);
* a read that starts behind the first cluster walks to the end of the chain,
  because the counter is lost, and reports two bytes read (`Read`);
* an index that is a multiple of 256 is taken for one 256 larger (`Links`);
* an error of the transfer before the last one is not looked at
  (`WriteFirstFails`), and one while the size is written returns to an address
  that is none (`WriteSize`).

`Fair` says which calls are left: those inside the first cluster, and those of
more than one cluster that end in the second. `FioAsFile` states for them what
a program relies on: every byte written is where the chain says, in every state
between the transfers and after failed writes; no byte of another file changes;
a read returns what was written and counts it, which may be less than was asked
for. The history `plain` ends with the first write that is not fair or whose
failure goes unnoticed; each of the conditions in `Fair` is needed, the property
is violated without it, except the limit of two clusters, behind which the
model stops. "wild" is the state in which nothing can be said any more.

Left out: directories (their reads take the same path without the limit; the
root directory has an address of its own), failing reads, the size on the device
as distinct from the one in memory.

### BlockIo

`offset` and `size` are `ft_offset` and `ft_size` of an open device file, `io`
the variables of `block.org` for the running call: first and last block, place
in the block, what is left and what is done. The device is a function from
positions to bytes, and a transfer may fail at any block (`TransferFails`); a
block that is refused stays as it was, which is an assumption: a card that is
pulled out in the middle of a block has stored a part of it (`Sd` shows which
part). No driver sets the size of a device
file, so that appending and `SEEK_END` start from what the entry held before
(`OldSizes`). A write does not move the position: `k_write` leaves that to the
driver and `block_write` does not do it. An invalid `whence` returns to an
address that is a pointer: the model stops in "wild", which is why deadlock is
not checked in its runs.

`FlatDevice` is the same device as a row of bytes, on which a read or a write is
one step. The refinement maps the bytes to `before` (the device when the running
call began) and the reader's buffer to `got`, so that a call takes effect when
it returns. A failed write has written a prefix; a failed read leaves the
position anywhere.

### Math32

`x` and `y` are the cells hl and de point at, least significant byte first, and
each routine is the byte loop of the code: the carry chain of `adc32`, the
"until not zero" of `inc32`, the "until not negative" of `dec32`.
`fat_clusterToAddr` is modelled with them since its answer is where every
cluster of a file is read and written. A byte has `Base` values, 256 in the
machine. `MCVolume` explores `Math32`, `FatIo` and `Sd` in one run, one at a time.

### Sd

`card` is `struct sdcard` with `card_transfer` as the function `Transfer` of its
state and the byte sent (`Framed` and `Parsed` for the command frame, `Reading`
and `Storing` for the data); `drv` holds the driver's registers and the label it
has reached. One step is one byte exchanged. `Insert` and `Eject` may come at
any byte, `Reset` too. Blocks are short; the frame of six bytes, the responses,
the token 0xfe, the two bytes of CRC and the data response 5 are those of the
code. `sd_init` keeps the counter of its loop in register d, which `sd_sendCmd`
changes, so that its loop is one without a counter (`Unanswered`). A card
inserted while a call runs may take data for a command: nothing is claimed about
such a call. Ejected during the data of a read, the line idles at 0xff and the
driver reports success; `SdReadExact` says exactly what the caller then holds.
A card inserted while `sd_writeBlock` runs may take the data for SET_BLOCKLEN,
and the *next* write then runs past its block: `upset` remembers such a card, and
nothing is claimed until the next `sd_init` sets the length again.

### Kbc

`wire` is a PS/2 keyboard (external), `bus` the Z80 (external), `kbc` the
controller: `Falling` and `Rising` are the two halves of `ISR(INT0_vect)`,
`ServeRead` and `ServeWrite` those of `ISR(INT1_vect)`. The Z80 may access the
controller between any two edges; the controller may be restarted in the middle
of a frame (`Restart`), after which its bit count keeps a constant distance
from the keyboard's and never finds the start of a frame again: `KbcInStep`
states that distance for every moment and, for distance 0, that the register
holds the last whole code. The pull-ups that `Released` clears with the port
are in the model.

### Threads

`flags`, `context`, `sched` and `sem` are the thread table, the saved contexts,
`schedule_data` and a `sem_t`. The routines run with interrupts off, so that
each is one step, and `Tick`, the interrupt, may come between any two. A thread
that waits registers, falls asleep and halts; when it runs again it tries
again. The code's oddities are kept: `thread_create` copies the number of the
former owner over the flags of a slot (`BitsOf(pid)`), so that some threads are
born asleep; the scheduler does not look at the thread selected last
(`LastAlone`); `thread_exit` tests bit 2 rather than the bit main has. A waiter
registers at every turn and the array of waiters is not checked: the model
stops where it is full (`Fits`).

### Debugger

`lists` are the successor pointers and the heads per address, `points` what was
set, `run` the mode and flags of a run, `mach` the machine as far as the
debugger looks at it (`Executed`, external: a small program), `prompt` the state
of the Lua prompt. A condition may be true, false, an error or a Lua error that
unwinds through `emu_run`. A point has one successor for all addresses it
covers: where an older watchpoint has the last two addresses of a younger one,
the younger is linked behind itself, and `DebuggerListsEnd` says that this is
exactly where a list does not end. (Two addresses in common are not enough:
watchpoints of three bytes may share them and still end.) `mode_finish`
reads the opcode from another place than the processor and falls through a
missing break; `Guesses` leaves it open.

### Cpu

Chains of the 8-bit and 16-bit operations as programs use them: decimal sums,
32-bit sums of two words, shifts of two bytes. The half carry ignores the carry
that came in, and the 16-bit operations add the carry to the operand first;
`CpuDecimal` and `CpuLong` state the result that arithmetic demands and exactly
the operands where the code misses it.

### Vga

The thread compares and copies the video memory pixel by pixel into the back
frame while port accesses of the machine change it, and presents the frame when
a pixel changed. `VgaPresents` says that the window then shows the last frame
drawn, except that a frame all black is never presented.

### Stdio

`blk` are the `FILE` blocks, `desc` the descriptors with their positions
(external: a read or an open may fail), `at` where the program thinks it is.
`freopen` that forgets a descriptor, `fseek` that takes an error for success and
keeps the pushed-back byte, a pushed-back 0 that is not seen, `readbyte` that
returns junk after an error: each is in the model, and the histories `odd` and
`lost` name the streams and descriptors they have touched.

### Regex

`regcomp` compiles to linked nodes (`next` stays a relative pointer, because
nodes are moved after they were linked), `regexec` is the backtracking matcher
with its shortcuts, `regsub` the replacement. The reference is `Ends`, the
places where a syntax tree can match, in the order of preference. The module
uses RECURSIVE operators, so that no module with a theorem reaches it.

### The games

`Snake`: the grid whose fields keep the way of the body; `placeFood` on a full
grid does not return (`stuck`). `Mines`: flags and counters; `revealField`'s
recursion is the least set it does not lead out of. `Tetris`: pieces, keys, the
clearing of lines with `memmove`, which leaves the top row as it was.
`TicTacToe`: the search of `ai.c`, whose levels 2 and 3 forget an answer that
loses when another wins.

## Runs

| Run | Instance | Shows |
|---|---|---|
| `vfs` | 2 x 5 descriptors, 3 files, 4-bit registers, arguments in and out of range | exact counts, no leak or dangling entry, stability of open files, refinement of `OpenFiles`, drift only at the three branches |
| `vfs_own` | 2 x 5 descriptors, 4 files, programs pass only numbers of their own half | kernel descriptors survive, mounted devices stay open |
| `vfs_dup` | a program that opens and duplicates | **violation** (below) |
| `vfs_unlink` | a program that removes files | **violation** |
| `fat` | 3 clusters, 2 files, 2 descriptors, failures and resets everywhere | no cross links (stale descriptors included), chains end, chains are kept |
| `fat_leak` | 4 clusters, 1 file, no failures | **violation** |
| `fat_full` | 3 clusters, 2 files, no failures | **violation** |
| `block_io` | 4 blocks of 3 bytes, transfers of 1 to 7 bytes, 5-bit positions | prefix properties, nothing left over, refinement of `FlatDevice`, calls return |
| `block_io_error` | the same, smaller | **violation** |
| `volume` | bytes of 2 bits, every first operand; a volume of 8 clusters of two bytes, three calls; a card of two blocks, three driver calls | sums, shifts, comparisons exact; where `dec32` is exact; a file holds what fair calls wrote; blocks of the card, and calls of its driver return |
| `math_dec` | the same | **violation** |
| `bench` | the eleven modules from `Kbc` on, one at a time, with the values of `MCBench` | their thirteen invariants, three action properties, and progress of ready threads |

Why the bounds are enough. Cold start takes four kernel descriptors and three
entries, so five slots and three or four entries leave one or two to fight for: tables
are full, entries are reused, and a register of 16 values wraps descriptor
numbers as 256 does. Three clusters let two files grow in turns, fill the
volume and take each other's clusters. With blocks of three bytes a call starts
at the first, a middle or the last byte of a block and may need a part, a
whole, and a part of a block; 5-bit positions lie outside the device as well.
Bytes of two bits still have a sign bit, a carry and a value between. In
`FatIo` clusters of two bytes, counts up to 5 and a neighbour in the second
cluster of the volume give calls that fill, cross and leave a cluster, from its
start and from inside it; registers of 6 values and bytes of 3 make both wraps
happen within 17 bytes, and 8 clusters run out. Three calls are two writes and
a read; after a write that is not fair the file is only read (a bound).

`bench` explores each module from its own initial state while the variables of
the others stay as they are (`OthersStay`), so that one run answers eleven
independent questions and the state spaces add up instead of multiplying; no
module reads another's variables, so nothing is lost by it. `volume` does the same
for the three parts between a file and the card. Bounds of both:

* `Sd`: a card of two blocks of three bytes, two looks at the card per response,
  three driver calls (an init and two transfers, or transfers on a card that was
  never initialised), ejection and insertion at every byte; a block whose bytes a
  card that waits for a command takes for SET_BLOCKLEN;
* `Kbc`: two codes that differ in bits and parity, any number of frames (the bit
  count is taken modulo its period), the Z80 at any moment;
* `Threads`: four slots, slices of two ticks, three threads with main: one runs,
  one waits, one is created in a slot that was used before;
* `Debugger`: four addresses, a program with a call, a store, a jump and a
  return, up to three points out of four kinds, two of which are watchpoints of
  two and of three bytes that overlap, so that lists close on themselves in one
  order and end in the other, every mode with arguments up to 2, one call deep;
* `Stdio`: two streams, two descriptors, a file of three bytes with a 0 and a
  line end in it, seeks to its start, its middle and behind its end;
* `Vga`: two rows of one byte, which is two pixels, and two bytes, every
  interleaving;
* `Snake`: a field of 2 x 3 inside its border, small enough to be filled, which
  is the end a player seldom sees; `Mines`: 3 x 2 fields, one mine; `Tetris`:
  four columns, five rows, the pieces I, O and J, until two lines are cleared;
* `Regex`: all expressions of one or two pieces from a set of nine, and groups of
  such bodies under every multiplier, groups in groups, three groups in a row
  (one more than fit), and all texts of up to four characters, most of them special, matched
  against all strings of a and b up to length three;
* `Cpu`: operands at the ends of digits, signs and widths, where carries arise;
* `TicTacToe`: the whole game, the levels that differ in behaviour.

The runs with histories carry a CONSTRAINT (`UntilDrift`, `WhileWhole`) that
stops behind the state in which the history ends: that state is still checked,
and nothing is claimed about what follows it. `WhileWhole` also bounds what is
explored after a stale descriptor was used: a write through one follows no more
than one link less than other writes do, which is what keeps the run within
minutes; the theorem of `FatProofs` has no such bound.

Fairness is stated where something must come to an end, and nowhere else.

* `BlockIo`: `WF_vars(Kernel)`. While a call runs nothing else can, and each of
  its steps is straight-line code around one driver call, which returns as `Sd`
  shows. `CallsReturn` then says that the loops of `block.org` end for every
  position and count, with or without device errors.
* `Sd`: weak fairness of the driver's own step. It is a busy loop on a processor
  that does nothing else; the card answers within the exchange. The user is not
  fair: `SdReturns` holds though cards come and go, except that `sd_init` needs
  a card that stays from some time on.
* `Threads`: weak fairness of `Tick`, since the timer keeps running and no
  routine leaves interrupts off, and of the retry of a waiter that the tick has
  resumed, which is straight-line code. Threads themselves are not fair: one may
  compute for ever. `ThreadsProgress` says that the others still get their turn.

## Where the code differs from what it says

* **dup** (`vfs_dup`): redirecting a stream that is in use leaves the old
  file's count too high and closes an unrelated kernel descriptor or none;
  `vfs.org` line 714 passes the entry index to `k_close`.
* **unlink** (`vfs_unlink`): the descriptor of a removed file keeps naming its
  entry, which the next open takes over (`vfs.org` line 1098).
* **Clearing a chain** (`fat_leak`): only the first two clusters of a removed
  file are freed; `fat_setClusterValue` returns with hl = 0 and the loop starts
  from there instead of from the stack (`fatfs.org` line 345).
* **Full volume** (`fat_full`): the search for a free cluster has no end, and
  ENOSPC is never returned.
* **Read errors** (`block_io_error`): `k_read` reports success and moves the
  position by what the failed driver left in de.
* **dec32** (`math_dec`): the borrow goes on whenever the byte became negative
  as a signed number. `DecExactWhere` says exactly for which numbers it is
  right, and `LowClustersPlaced` that clusters with a low byte of 2 to 128 are
  placed right; others are not.

The following were met while modelling; the properties of `bench` and `volume`
state what holds with them, so that they show as exceptions in a property rather than as
runs of their own.

* **SD init without a card**: the counter of the loop at `sd.org` line 243 is in
  a register that the call inside the loop changes; without a card it has no
  end. A card pulled out during a read is reported as a success.
* **FAT reads and writes**: see `FatIo`. `vfs.org` line 437 says that a read
  "commences at the file offset"; one from behind the first cluster delivers
  nothing and returns 2.
* **unlink**: each refused removal leaves a kernel descriptor open (`vfs.org`
  line 1061), and devfs has no routine for it, so that the call jumps to address
  0 (line 1079); `Vfs` has both steps, and neither breaks a table.
* **Threads**: `preempt.h` line 137 promises every thread the same time; a
  thread that was selected last while all others sleep gets none, and a thread
  in an odd slot that is used again starts asleep (`thread_create.c` line 34).
* **Debugger**: a watchpoint whose last two addresses an older one has makes a
  list circular (`emulator.c` line 142); a stop at a breakpoint that was also a hit leaves
  `breakflag` for the next run.
* **Processor**: `ADC` and `SBC` leave a wrong half carry when the low digits
  make 15 with a carry (`z80.c` line 346), and the carry out of the 16-bit forms
  is lost for 0xffff (line 373).
* **Graphics**: an all black frame is not presented.
* **Streams**: `fseek` keeps a pushed-back byte, and takes errors for success.
* **Games**: the flag counter of mines does not come back when the first field
  takes flags away; a cleared line in tetris leaves a copy of the top row; the
  computer of tic-tac-toe misses threats at levels 2 and 3.

## What is proved

### VfsProofs

`VfsProofs` proves, for every number of descriptors and files and every width
of a register that satisfy `SizesFit` (the tables fit a byte and cold start
fits the tables) and every set of arguments:

* `TypeCorrect`, `CountsExact`, `NoDanglingNoLeak`: the invariants `TypeOK`
  (no run checks it apart from this proof), `RefCountExact` and `LiveIffHeld`;
* `KernelHalfSafe`: if programs pass numbers of their own half and let `dup`
  choose (`OwnArgs`), no call changes an open kernel slot;
* `MountedDevicesOpen`: under the same discipline, and if the address the shell
  passes as descriptor selects no file system, mounted devices stay open.

The inductive invariant is `IInv == TypeOK /\ (clean => Consistent(tab))`:
counts exact *and* entries in use exactly while held. Neither half is inductive
alone: an open sets the count of a free entry to 1, which is right only if no
descriptor names a free entry; a close frees an entry when the count reaches
0, which is right only if the count was exact. `CountsExact` also shows that the
8-bit count never wraps, since an entry has fewer holders than a byte has
values. The proof has one lemma per table operator (what `Claim`, `CloseFd`,
`CopyFd`, `Udup` preserve), one per action, and combines them in `NextIInv`.
The delicate action is `Execv`: its three copies may drift and be set right
again by the load that follows, which the lemmas `UdupSpare` and `LoadAfterUdup`
follow through. `KernelHalfSafe` needs no invariant beyond types: it looks at
every operator's effect on the kernel half (`StepKeeps`); `MountedDevicesOpen`
adds that drives keep kernel descriptors only.

Three theorems are about steps. `OpenFilesStay`: no call gives an entry in use
another kind; every operator either keeps a mode or frees it (`ModesKept`), and
who still refers to an entry refers to the same file. `DriftsBreak`: each step
that ends `clean` leaves a count or a mode wrong (`Broken`); the delicate one is
`execv` again, whose three copies may count entry 0 up or down before the load,
which `Ahead` counts. `ImplementsOpenFilesHolds`: up to the first drift the two
tables implement `OpenFiles`, with one lemma per action of the abstract
specification (`ClaimAcquires`, `CloseReleases`, `CopiesShare`,
`UDupToRedirects`) and `StepImplements` for the calls.

### FatProofs

`NoCrossLinksHolds`: for every size of volume and any number of files and
descriptors, no cluster belongs to two files as long as no removal is cut in
two. The assumption is `VolumeFits`. The property speaks of whole chains, which
no induction over steps can handle directly; the inductive invariant speaks of
single links of the first FAT instead (`Linked`):

* `Apart`: no two clusters have the same successor, nothing leads to the first
  cluster of a file, and no two files have the same one;
* `InUse`: what a link or a directory entry leads to is not free;
* `InHand`: the cluster that a call is about to link is led to by nothing, and
  so is the one a removal is to free next.

`InUse` is needed because allocation takes a free cluster: only if nothing leads
to free clusters does it keep `Apart`. `InHand` is needed because between
`Add1` and `Link1` the new cluster is in no chain. The weak point is a removal:
between its first freed cluster and the mark in the directory the entry does
lead to a free cluster (`Freed`), which nobody can take meanwhile because the
call runs alone; cut it there and the invariant is lost, which is what `torn`
records. `ApartNoMeet` goes from links to chains: of two chains that meet take
the first common cluster; followed back one link it would be an earlier common
one, and at the start of a chain it has no predecessor. `PathExists` shows that
the recursive function `Path` exists, by a least counterexample.

`ChainsEndHolds`: unless a removal was torn, every chain ends, stale descriptors
or not. A chain of N links that does not end would visit N + 1 clusters: since
no two have the same successor and none leads to the start, they would be
different (`ApartNoRepeat`), and there are only N. `ChainsKeptHolds`: no step
changes the clusters of a file it does not remove. It needs a second invariant,
`Held`: the cluster a new one is hung on is the last of its chain, and the entry
that gets a first cluster has none; the latter is what a stale descriptor
breaks.

### FatIoProofs

`FioAsFileHolds`: for clusters and volumes of every size `FileFits` allows, the
clusters hold the bytes of the file, no byte of the neighbour changes, and reads
deliver what was written, up to the first write `fat_write` is not right for.
The invariant `Sound` has the chain made of different clusters, none of them the
neighbour's (`Linked`), so that different positions have different places; each
byte written lies in its place (`InPlace`); and while a call runs the device
stands where the next byte belongs (`Aimed`). With that each of the four
transfers comes down to `Covered`: a part that fits its cluster is written to
the places of its positions and to no others. Extending the chain needs that a
free cluster is left (`OneIsFree`, by counting) and that the chain built one
cluster at a time exists for every length (`GrownExist`).

### Math32Proofs

For words of four bytes of every even base: `SumsExactHolds`,
`ShiftsExactHolds`, `CompareExactHolds`, `DecExactWhereHolds`, and
`LowClustersPlacedHolds` for clusters of every power of two. One fact carries
them all, `Columns`: if each place of a sum balances with the carry it takes and
the carry it gives, the whole balances with the first and the last. Each routine
then needs its carries named (`CarriesExist`, `BorrowsExist`) and its places
balanced. The loop of shifts in `fat_clusterToAddr` runs any number of times:
`ShiftsExist` and `CountsExist` build it step by step, and `ShiftedValue` follows
the value through it.

### BlockIoProofs

For every size of block, device, count and position that satisfies `BlocksFit`:
`AllMovedHolds`, `WritePrefixHolds` and `ImplementsFlatHolds`, the last one the
refinement of `FlatDevice` as a whole (initial states, every step a step or a
stutter). The invariant ties the counters of `block.org` together: the block in
hand and the place in it are where the next byte belongs (`Placed`), the last
block is the one of the last byte (`LastBlock`), and each label knows whether
the end lies ahead (`Ahead`). With it the arithmetic of a partial first block,
whole blocks and a partial last one comes out at every label.

### ProgramProofs

The library and the games.

`SleepersListedHolds`: for every number of slots and every slice, a thread that
sleeps is on the list that the next post wakes, or was born asleep.

`StdioInOrderHolds` and `StdioFdsHeldHolds`: for every number of streams, every
set of descriptors and every file (`StdioFits`; positions behind the end
included), a stream that no oddity has touched delivers the bytes of the file
one after the other, every open descriptor belongs to a stream unless `freopen`
forgot it, and no two streams hold one. The invariant `StdioIInv` has one part
per stream (`InLine`, `Usable`), per descriptor (`Kept`) and per pair of streams
(`Apart`), so that a call on one stream is looked at where it acts and nowhere
else (`StreamStep`). `InLine` knows besides the order that a pushed-back byte is
one of the file. What a read does is `Gives(r, q, n)`: it takes the reader r to q
and the program n bytes further. `FgetcGives` shows it for a byte, `GivesMore`
composes it, and so `fread` and `fgets`, which are loops over `fgetc`, come out
for every length (`LinesExist` for the recursive function). `ClosedCases` says
what closing leaves, in the three cases that differ in which descriptor is
freed.

`SnakeWholeHolds`: for every grid (`SnakeFits`), wherever food appears, the
directions in the grid lead from the tail over each field of the snake once to
the head, and the game hangs only when nothing is free. The property is about
fields reached by following directions; the invariant has a numbering of the
fields from tail to head instead (`Lies`). A move of the head adds a number
(`Grows`), one of the tail takes the first away and shifts the rest (`Follows`),
and `WayIs` shows that the way the property follows is that numbering. The
border keeps every step inside the grid (`Inside`).

`TetrisWholeHolds`: for every field and every set of pieces
(`TetrisAssumption`, which asks nothing of their shape but that a piece has a cell), no sequence of
keys takes a piece out of the field or over a taken cell, and locking one
removes the full rows and lets the others fall, with the exception that
something stands in the top row. `clearLines` looks at the rows one by one;
`RowsFall` says where every cell is after each: as much lower as there are full
rows below it that were looked at (`Between`).

`MinesFairHolds`: on boards of every size the counters agree with the board, so
that a game is lost exactly when a mine is revealed and won exactly when nothing
but mines is left. The proof needs of `revealField` only that what it reaches is
hidden, contains the first field, and contains a mine just when that is one
(`ReachedSafe`); the rest is counting with finite sets.

### MachineProofs

The machine below: the keyboard controller and the emulator.

`KbcInStepHolds`: whatever codes the keyboard sends, whatever the Z80 reads and
writes and wherever in a frame the controller starts, it keeps its distance to the
keyboard, holds in its buffer the bits it has seen and, at distance 0, hands over
the last whole code. `KbcInStep` speaks of the moments without a pending routine
only, so the induction needs the ones between (`KbcIInv`): an edge waits for
its routine just when the edge expected and the level of the line differ
(`Edges`), a rising edge that waits is one count ahead (`Late` in `Counts`), and
after the eleventh bit the frame seen is compared with the code the keyboard has
finished, because its next one may already have begun (`Whole` in `FramesKept`).
The buffer is followed bit by bit (`ShiftedBits`); that eight equal bits make an
equal byte is `SameBits`. The assumption `BytesAre` says that codes and
written values are bytes and that there are two address lines.

`VgaPresentsHolds`: for pictures of every size (`VgaFits`) and with the machine
drawing between any two pixels, the window shows the last frame that was drawn,
except one that is all black. Why black is special is the invariant: the loop
clears the left pixel of the old byte when it has drawn the right one
(`Forgotten`), so that each pixel is compared with black and not with what it
was, and a frame is presented exactly when something in it is bright
(`UpdateIfBright`).

`DebuggerListsEndHolds` and `DebuggerStopsJustifiedHolds`: for every program, any
number of points of any size and every order of runs and prompt lines
(`DebuggerFits`), each point is in the lists of its addresses, lists end except
where stated, a run that ends with a break had a reason, and a write to a watched
byte ends a run. `ListsSound` is the invariant: heads and successors are points
of the right kind (`WatchHeads`, `WatchLinks`), successors are never older,
a point leads to itself exactly where an older one has its last two addresses
(`WatchCircles`), and no link crosses a gap between two addresses that no
watchpoint spans (`WatchSides`). The last two are needed for the exact statement:
with successors that only rise, a list either ends or ends in a point that leads
to itself (`TerminalMet`, `TerminalOnly`). A new watchpoint is followed address by address
(`Registered`, `StepHolds`), because between two addresses it is in some of its
lists only. The attempt found that the exception as it was first stated, two
watchpoints with two addresses in common, is false for watchpoints of three
bytes.

`CpuLongHolds`, `CpuDecimalHolds`, `CpuShiftsHolds`: for all 16-bit operands, all
pairs of decimal digits and all bytes (`CpuFits`) the chains give the result and
the flags arithmetic demands, except at the operands named. `SumRight` and
`SignRight` compare the wrapped sum and its overflow flag with the exact number.
The decimal adjustment is done digit by digit (`AddDigits`, `SubDigits`), where
the one wrong case appears: a carry came in and the low digits make 15. The
table of parities is read row by row (`RowIs`) and equals the number of bits set
(`SetInMasks`, `ParityRight`).

### SdProofs

`SdWritePrefixHolds` and `SdReadExactHolds`, for every length of a block, every
payload and every number of tries. `Exchanges` is the invariant behind them. Two
machines count the same bytes, each on its own, and nothing tells either where
the other stands; `Agreed` says for every label of the driver in which status
the card is then, at which byte of the block and with how much of the frame.
It holds while the card is in and none was inserted during a call (`InStep`):
a card that is out stays where it is and is met again only by the next command.
`WriteKept` and `ReadKept` add how much of the block is written or read there.
The driver's own course (`OnCourse`) needs nothing of the card, so it also holds
after an insertion, when the card may do anything a card can do
(`TransferTyped`). One lemma per action; a step of the driver is cut into what the card
answers (`IdleTakes`, `CommandParsed`, `ReadByte`, `WriteByte`, ...) and what the
driver does with it (`LookedIs`, `AwaitIs`, ...). The proof attempt found the
hole that `upset` now covers: a card inserted in the middle of a write could take
data for SET_BLOCKLEN, and the invariant was lost at the *next* call.

### Model-checked only

Of `bench`: `RegexAgrees`, `RegexSpans` and `TttTakesAndBlocks`, which are about
recursive operators, where the prover loses its arithmetic; induction over
expression trees, which `Regex` would need, is out of reach besides. Liveness and
fairness (`CallsReturn`, `SdReturns`, `ThreadsProgress`) stay with TLC, because
the proof system does not handle them. Induction over numbers is done where it
is needed by a least counterexample in a set (`Lowest` and `UpTo` in the last two modules,
`Counting` in `Math32Proofs`, `PathExists` in `FatProofs`).

## What is not modelled

Listed per component in `PROJECT.json`. In short: directory search and names; the tree of the drive table; paths; the
shell's line splitting and its `test` command; the system call dispatch, banks
and heap; of the emulator the opcode tables, consoles, ports and memory dumps;
of the C library the output half of stdio and the glue of one system call per
function. Console drivers, strings, the monitor and the font hold no state worth
a model.

How much of the source the models stand for is hard to say in lines. The core of
the system, `Vfs`, `Fat`, `FatIo`, `BlockIo`, `Math32` and the driver half of `Sd`, is
assembly inside org-mode files, which a count of C files does not see. Of the C
files and headers more than half are headers of other machines that came with
the z88dk compiler (`include/X11`, `include/spectrum.h` and the like), without
any behaviour; then come the generator of the processor's tables and the tables
it writes, and screens and consoles. What is left, with state and control in
it, is what the modules above model.

## Plan

Order: what decides whether files survive comes first.

1. Done: `Vfs`/`OpenFiles`, `Fat`, `BlockIo`/`FlatDevice` with their proofs,
   `Math32`, `FatIo`; `Sd`, `Kbc`, `Threads`, `Debugger`, `Cpu`, `Vga`, `Stdio`, `Regex`
   and the games.
2. Reads that fail and stale values in `Fat` and `FatIo`, directories in `FatIo`,
   the shell's `test` command in `Vfs`.
3. `DriveTable`: tree of mount points, the search for an entry, entries left
   half made, composed with the descriptors `Vfs` keeps for it.
4. `Cli`, `Path`, `SysCall`: buffers at their limits, dispatch bounds.
5. `BlockIo` on top of `Sd` instead of its abstract device, with blocks that are
   half written.
6. Proofs: every invariant and every step property a run checks is a theorem,
   except the three about recursive operators. What items 2 to 5 add should be
   proved as it is modelled: most of all that `BlockIo` over `Sd`, with blocks half
   written, still leaves a first part.

Runs are kept few: a later module joins `bench` unless it shares state with the
kernel, and a run of its own is added only for a disagreement with the source's
own words.
