# BestOS (x64-): specification and verification

TLA+ modules, TLC models and TLAPS proofs for the kernel in this repository: a
32-bit hobby operating system with preemptive threads, a keyboard-driven
command line and a FAT16 file system on an ATA disk, and a user-level thread
library kept beside it. Paths below are relative to `src/`.

Run from this directory:

    tlc -workers 2 -config MCScheduler.cfg MCScheduler.tla
    tlapm SchedulerProofs.tla

## 1. The system

| part | code | state | operations |
|---|---|---|---|
| boot | `fe-boot.asm`, `kernel_entry.asm`, `kernel.c` | the machine | load, protected mode, initialise drivers, create three threads, `sti`, `hlt` for ever |
| timer interrupt | `functions.asm`, `arch/isr.c`, `arch/timer.c` | `ticks_elapsed`, `total_ticks`, `interrupt_handlers` | `isr32`, `common_isr_handler`, `generic_isr_handler`, `timer_callback` |
| scheduler | `scheduler/scheduler.c` | `gt_table`, `gt_current` | `schedule_create`, `schedule_tick` |
| partitions | `scheduler/memory.c` | `partition_table` | `memory_find_free_partition` |
| keyboard | `drivers/keyboard.c` | ring, modifier flags, `currentEvent` | `keyboard_callback` (IRQ 1), `keyboard_getchar`, `keyboard_getEvent` |
| file system | `diskAccess/*.c` | FAT copies, directories and data on disk; `fileSystem.fatTable`, `currentDir` in memory | `write_`, `touch_`, `create_`, `delete_`, `rmCurrentDir_`, `changeDirAbsolute_`, `read_`, `list_` ... |
| FUSE front end | `diskAccess/main.c` | none of its own | the same operations as callbacks of a user-level file system |
| disk driver | `drivers/ide.c` | device registers | `ataReadSector`, `ataWriteSector` (polled) |
| console | `drivers/vga.c` | video memory, cursor registers | `displayString`, `console_write`, scrolling |
| serial line | `drivers/serial.c` | UART | `serial_print` (polled) |
| command line | `cli/cli.c`, `cli/commands.c` | line buffer, `stringSplit`'s static index | read a line, split it, run a command |
| descriptor table, PIC | `arch/idt.c`, `arch/pic.c` | IDT, masks | set-up, end of interrupt |
| user-level threads | `gthreads/*` | `gt_table`, priority queues, signal mask | create, switch on `SIGALRM`, three scheduling policies |

How they interact. There is one processor and one interrupt level: every gate
clears IF, so an interrupt handler is never interrupted, and a thread can be
interrupted anywhere. IRQ 0 preempts (module Scheduler). IRQ 1 only fills the
keyboard ring. The thread of the command line is the only one that uses the
keyboard, the file system and, after boot, `schedule_create`; the console and the
serial line are shared by threads and interrupt handlers, without locks: the screen by
three threads, of which only that of the command line uses the cursor, the serial line by
that thread and the handlers. The only persistent state is the disk, which the disk driver
polls although the disk also interrupts.

What is hard in this code: the stores of `schedule_create` and `execCommand`
interleaved with preemption; the double call of the timer callback; the ring
between IRQ 1 and the reader with its check-then-`hlt`; the order in which directory,
FAT and data sectors are written when the power can fail; full tables, full
directories, full disk; polling a status register that an interrupt handler reads too; a
transmitter stored into by a thread and a handler; scrolling while other threads paint; a
path that is taken apart in three different ways. `PROJECT.json` lists each under "hazards", with its line
and the properties that would catch it.

What makes each part correct:

* scheduler: the processor runs the thread the table calls current; whatever is
  Ready can be resumed; stacks are not shared; nobody starves; `exec` runs the
  program it loaded;
* keyboard: a bounded queue whatever the interleaving; no lost wake-up; the
  modifiers follow the keys; an EOF belongs to its character;
* file system: no two files share a cluster, no cluster of a file is free, files
  read back as written, at any moment at which the power may fail; the copies of
  the FAT agree; no free space is lost except for named causes;
* user-level threads: one thread runs, on its own stack; an ended thread stays ended;
  the priority queues, which are out of step with the threads, lose nobody; nobody
  starves;
* command line: what is executed is the line that was typed; what the splitter remembers
  of earlier lines does limited harm;
* disk driver: a read returns what was stored last in that sector or an error, a write to a
  sound sector is stored before it is answered, and every call returns;
* interrupts: every request accepted gets its end of interrupt, so no line stays shut out;
* serial line: the characters of each writer arrive once and in order;
* console: text goes on where the last one ended, rows move up, and the line that is being
  typed stands on the screen as it is in the buffer;
* names, numbers, paths: what is written can be read back, and a path leads to the entry it
  names and to no other.

## 2. Modules

| module | what it is | status |
|---|---|---|
| `RoundRobin` | what multitasking promises: the processor passes to the next living thread | done |
| `Scheduler` | the timer interrupt, the switch, thread creation, `exec`; implements `RoundRobin` | done |
| `SchedulerProofs` | its inductive invariant, safety properties and refinement | proved |
| `BoundedFifo` | what a buffer between a handler and a thread promises | done |
| `Keyboard` | ring, interrupt handler, `keyboard_getchar`; implements `BoundedFifo` | done |
| `KeyboardProofs` | its inductive invariant, safety properties and refinement | proved |
| `FatFs` | the file system on a disk that may lose power between two sectors | done |
| `FatFsProofs` | its inductive invariant and safety properties | proved |
| `GThreads` | the user-level threads under three policies, with the alarm | done |
| `GThreadsProofs` | their inductive invariant, safety and action properties | proved |
| `Cli` | line editor, splitter and parser of the command line | done |
| `CliProofs` | its inductive invariant and safety properties | proved |
| `Formats` | 8.3 names, numbers and dates as text, written and read | done |
| `Paths` | the commands of the shell and the FUSE callbacks on a tree of directories | done |
| `TextsProofs` | that what `Formats` writes is read, and what `Paths` looks for is found | proved |
| `Disk` | what `ataReadSector` and `ataWriteSector` promise | done |
| `Ata` | the two functions, register by register, against a device; implements `Disk` | done |
| `Serial` | the transmitter and its two polling writers | done |
| `Interrupts` | interrupt controllers, gates and handlers, composed with `Ata` and `Serial` | done |
| `InterruptsProofs` | the inductive invariant of the composition, its safety properties and refinement | proved |
| `Terminal` | what the console promises | done |
| `Console` | `vga.c` and the echo of `cliReadline`, store by store; implements `Terminal` | done |
| `ConsoleProofs` | its inductive invariant, safety property and refinement | proved |
| `MCScheduler`, `MCKeyboard`, `MCFatFs`, `MCGThreads`, `MCInterrupts`, `MCShell`, `MCFuse` | sizes and bounds for TLC | done |
| `MCPaths` | the trees of the last two | done |

Plan for what follows, most important first:

1. `Cli` composed with `Keyboard`; the errors of `Ata` composed with `FatFs`, whose
   operations ignore most of them.
2. Threads created while others run.

### 2.1 Scheduler

State: one variable per field of `gt_table` (`gt_state`, `gt_esp`, `gt_base`),
`gt_current`, `partition_used`, the two tick counters, and the processor: `cpu`, the
stack it executes on, and `frame[s]`, whether stack s has a complete interrupt frame
on top. A stack is named by its partition and a stack pointer by the stack it points
into; pushes inside one stack are below this level. `loaded` and `entry` say which
program was read where and where a thread begins. `interrupts` is not in the code: it
counts what `total_ticks` should count.

Actions: an interrupt is `TimerInterrupt` (isr32 and the pushes), `HandlerCall` and
`TimerCall` (the two calls of `timer_callback` in `generic_isr_handler`),
`InterruptReturn` (`mov esp, eax`, `popa`, `iret`). Interrupts are off in it, so
nothing else runs between these. `schedule_create` is `FindSlot`, `FindPartition`,
`ClaimPartition`, `BuildFrame`, `StoreEsp`, `MakeReady`: the groups of stores between
which it matters where the timer strikes. `execCommand` is `ExecChoose`, `ExecLoad`, then
`schedule_create`, then perhaps `CreateFailed`. `BootCreate` and `EnableInterrupts` are
`main()`. A thread does something only when `cpu` is its stack.

### 2.2 Keyboard

State: `kbd_buffer`, `kbd_head`, `kbd_tail`, the flags, `currentEvent`, and where
`keyboard_getchar` is: before the test, between the empty test and `hlt`, halted,
between the three accesses of `kbd_dequeue`, decoding. `down` (the modifiers physically
held) and `dropped` are not in the code. Keys are represented by one for each treatment:
two shifts, ctrl, the letter d, one without character. `KeyboardInterrupt` is IRQ 1
with any code the keyboard can send at that moment; `TimerInterrupt` is what the driver
sees of IRQ 0, the end of a `hlt`.

The mapping to `BoundedFifo`: the queue is the content of the ring from tail to head;
`Advance`, which moves the tail, is the `Take`. `dropped` is its `refused`, so the first code
that is dropped must find the ring full (mutant `kbd_enqueue_Early`).

### 2.3 FatFs

State: on the disk `dirs` (slots of the root and of one subdirectory), `fat` (two
copies) and `data`; in memory `fatTable` and `cwd`; `op` and `pc` for the operation in
progress. `events` and `losses` are not in the code: they record what has happened that
the properties make an exception for. A step of an operation ends with one sector
written. `WriteFat` writes one sector of one copy of the table, alternately, as
`updateFatTable` does; `next` says where the operation goes on after it. `Erase` is
`delete_`, which every operation passes through (`findFirstFreeEntry` calls it), and
`WriteEntry` the rest of `findFirstFreeEntry`. `PowerLoss` forgets the memory and
reads the first copy, as `initFileSystem` does.

Names are atoms, sizes count sectors, a data sector carries the file and number it was
written for. The label of a sector is removed when its file is deleted, although the
bytes stay on the disk; nothing reads them as that file again. The model has one
subdirectory, with which the disk comes, because the kernel has no mkdir.

### 2.4 GThreads

State: `gt_table` (`gt_state`, `ctx`, `priority`), `gt_current`, `priorityQueues`, and
the process: `cpu`, the stack it is on, and `calls`, the calls of `gt_schedule` in
progress on that stack, innermost first. A context saved by `gt_switch` is the
stack and its calls. `gt_schedule` is one of the three `Choose` actions (from its
beginning to the choice of `p`; aging and the rotation of the queue are part of
`ChoosePriority`), then `Suspend`, `Run`, `SetCurrent`, `Switch`, and, when somebody
switches back, `Return`. `Alarm` calls it from the signal handler, `End` from a
thread function that returns, and main's loop is in `Return`. Times are abstracted
to what they decide: a thread that was never scheduled nor promoted (`last_start` is
zero) is promoted for certain, another one may be.

`priority_create` does not store the priority in the thread, so the first
`priority_age` looks for every thread in the queue of priority 0; `Removed` is what
`priority_remove` does when the thread is not there. `ExitsLast` says that all the
same nobody is lost.

### 2.5 Cli

State: `line` (what is in `BUFFER` up to its end), `nextTokenIndex` (static in
`stringSplit`), `cmd`, and `pc`: reading, before the first and the later calls of
`stringSplit` in `cliParse`, executing. A step reads one character or takes one token.
`SplitFails` is the result -1, at the end of the line, where the index is set back, and at
an empty token, where it is not: after `a  b` the next line is split from its fourth
character, and `touch x` would execute `ch`. `tidy` is not in the code; it says that no
line had an empty token so far, and as long as it holds `CommandIsLine` promises that what
was typed is executed. A store beyond an array (`StoreOutside`) ends the model.

### 2.6 Disk driver, serial line and interrupts

`Ata`: `content` is the disk; `status` (BSY, DRQ, ERR), `command`, `address`, `latch` and
`intrq` are the device, which is external: it executes a command when its last register is
written, is BSY for a while, and then offers data, wants data, fails or is done. The
driver's `pc` stands between two accesses to registers: `SelectDrive`, `SetAddress`,
`SendCommand`, the polling loop, the transfer, the last look at ERR, and for a write the
flush and the loop that waits for the end of BSY (`Settle`). A sector number is split as in
the code: four bits go with the drive, the others into the address registers, and what is
above them is lost (`Disk!Sector`). The mapping to `Disk` stores when the device stores.
Two weaknesses are part of the promise: after the data of a write the driver does not look
at ERR, and the commands report success whatever is returned. The command 0xE7 is sent
while the device may still be busy with the write; the device modelled ignores it then, as
disks do, so writes are in order only on a disk that writes through.

`Serial`: a character is stored in two steps, `Poll` and `Put`. When the handler comes
between those of the thread both store into the FIFO on the strength of the same test,
which is safe because the test is for an empty FIFO of 16 and not for one free place
(mutant `Capacity_NoFifo`).

`Interrupts` composes them: `irr` and `inService` are those of the two controllers,
`vector` is the handler that runs, `calls` how often the registered handler is still called
(the timer's twice). Gates clear IF, so `Accept...` needs `vector = 0`. `Gate` gives all
vectors without their own the number 48, for which `generic_isr_handler` sends no end of
interrupt. Reading the status takes back the disk's request: when that happens between
the request and its acceptance, the controller delivers its line 7, vector 47 on the second
controller (`AcceptSpurious`), which has a gate and the handler of the disk. Handlers do
what touches the shared devices: `disk_callback` reads the status and prints (`DiskPrints`), both
calls of `timer_callback` print (`TimerPrints`); what else those of timer and keyboard do is in
their own modules. CPU exceptions are left out.

### 2.7 Console

State: video memory, the cursor registers, and the displaying function: what is left
of its text, its local `offset`, and the next row that scrolling moves. A step stores one
character or moves one row. `Paint` is one character of `displayStringAt`, at any moment: it
is called only for row 0, by `timer_uptime` and `cliPrintCPUVendor`. `Type`, `EraseChar`
and `ReadLine` are the echo of `cliReadline`. The mapping to `Terminal` shows the screen as
it will be when the rows still to be moved have been (`Settled`). `Terminal` does not
promise row 0, nor what a text contains behind its first pass of the end of the screen: the
code scrolls once per call, and stores outside the visible memory are lost.

### 2.8 Formats and Paths

`Formats`: the functions, and an entry or a line they write to (`written`); `meant`, which is
not in the code, is what was to be written. `formatFat16FileName` does not look at sizes, and
`ReadsBack` says for exactly which names that is harmless; a longer name is listed under
another one and cannot be found again. `SectorOf` is the parameter of `read` and `wr`.
The int of `stringToInt` overflows when more is typed than it holds; the kernel is compiled
without optimization, so it wraps around. `ReadsBack` is about numbers that an int holds, for
which no step of the loop overflows.

`Paths`: `disk` maps directories to sequences of entries, `currentDir` is the variable of the
code. The kernel and the FUSE program compile the same file with two versions of
`stringCompare`, `SameText` and `SameBeginning`, which is the constant `Same`. The shell
(`ShellSpec`) types any of the paths of `Lines` behind `cd`, and names behind `touch` and
`rm`; the FUSE front end (`FuseSpec`) gets the paths of entries that are there, because Linux
asks for them first, and for `create` one that is not there. `ShellFindsPaths`,
`PromptIsPath` and `TreeShowsAll` compare `changeDirAbsolute_`, `exec`, the prompt and
`printTree` with what a tree is: the paths of its entries (`Contents`).
`CallbacksFindPaths` and `CallbacksFollowPath` do so for the callbacks, which take the parent
of the path, walk to it, and search the last name, each with its own loop over the
slashes. Their preconditions are those of the code: names that are not taken for one another
beside each other (`SiblingsApart`), and, for what erases, anywhere in the tree
(`AllApart`), because an erasing search in the root goes into all directories below it. For
the same reason `touch x` in the root erases an x below it first and leaves an older x beside
the new one, so that a sequence of commands may leave the precondition; `MaxEntries` bounds how
many entries a directory then gets. The finding about `rm` (run `fatfs_remove`) is this search.

Limits of the code that lie outside these properties, by the choice of their inputs, and that
nothing in the repository contradicts:
`cd abc` without a slash ignores the first letter; in a directory of the root `..` has
cluster 0, and `cd` with it leads to sectors before the data area (`Nowhere`); `exec /name`
finds the file by the last part of the path and then reads it by the whole, so nothing is
loaded.

## 3. Model checking

| run | instance | shows |
|---|---|---|
| `scheduler` | 8 slots, slice 12 (the sizes of the code), counters modulo 24 | `TypeOK`, `CpuRunsCurrent`, `ContextsIntact`, `OwnPartition`, `ExecRunsWhatItLoaded`, that the interrupt path implements `RoundRobin`, and, with fairness, that no Ready thread starves and creating threads returns |
| `uptime_double` | the same | *violation*: `total_ticks` counts twice |
| `keyboard` | 3 slots, 3 keys | the ring is a bounded queue, the reader's slot is stable, no wake-up is lost, modifiers follow the keys, EOF is never stale |
| `fatfs` | below | `NothingBehindEnd`, `TablesAgree`, `CurrentDirExists`, `ChainsDisjoint`, `FilesReadBack`, `NoLeaks` |
| `fatfs_overwrite` | the same, no power loss | *violation*: a file written over does not read back |
| `fatfs_remove` | the same, no power loss | *violation*: rm leaves the file it reports deleted |
| `gthreads` | 3 slots, priorities -1 .. 1, the three policies, no alarm within the switch | `OnlyCurrentRuns`, `ContextsIntact`, `ExitsLast`, `EndedStaysEnded`, `ReadyRuns` |
| `gthreads_assert` | the same with priorities -2 .. 1 | *violation*: with priorities the last thread that ends meets `assert(!"reachable")` |
| `gthreads_reentrant` | round robin, one alarm within the switch | *violation*: the same assertion |
| `shell` | below | `Cli`: `CommandIsLine`, `NothingInvented`, `IndexLeftAtSeparator`; `Console` implements `Terminal`, `LineOnScreen`; `Formats`: `ReadsBack`; `Paths`: `ShellFindsPaths`, `PromptIsPath`, `TreeShowsAll` |
| `fuse` | trees of 3 directories, 3 names of which one begins another, a new one | `CallbacksFindPaths`, `CallbacksFollowPath` |
| `devices` | 2 sectors of which 1 is damaged, sector numbers modulo 4, texts of 2 | `Ata` implements `Disk`, `TextsInOrder`, `NothingInService`, `EveryWaitEnds` |

Bounds.

* Scheduler. The table sizes and the slice are those of the code, and all eight slots
  are filled, so `exec` also fails for want of a slot. The tick counter wraps after two
  slices; nothing but the display depends on it.
* Keyboard. A ring of three slots is empty, partly full and full, and head and tail wrap
  in every position. The keys are a shift, ctrl and d; a second shift (releasing one
  clears the flag of both, so `ModifiersFollowKeys` is one-sided for shift) is covered by
  the proofs, which hold for every size and every set of keys.
* FatFs. A root directory of two slots (one holds the subdirectory, so a directory
  becomes full with one file), a subdirectory of one, two file names, one of them also
  the name of the subdirectory, four clusters in two FAT sectors, files of up to two
  sectors: enough for chains across FAT sectors, a full directory, a full disk, a file
  shadowed by one in the subdirectory, and the subdirectory deleted with a file in it.
  `MaxLosses = 1`: a boot rebuilds all of the memory from the disk, so a second loss
  starts from a state of the same kind. `UpToDamage` stops a behaviour after damage that
  stays (a file written over, a torn touch) and follows leaked clusters and a power
  loss separately. Deadlock is not checked there: after the store outside the table
  (`StoreOutside`) nothing is promised, and no further boot may be left.

* GThreads. Main and two threads are what a queue needs to rotate and to hold a thread
  twice; with three priorities a thread starts above, in and below the queue it is
  removed from, and is promoted more than once.
  `Nesting` bounds the alarms between `gt_reset_sig` and the end of the switch: they
  need a process that is kept waiting there for 500 microseconds. The passing runs
  assume that this does not happen; `gthreads_reentrant` shows what it does.
  Deadlock is not checked because the process exits.

* `shell`. `Cli`, `Console`, `Formats` and `Paths` share no variable and every property is
  about one of them. In this run they take turns: one moves while the others stand where they
  begin, so that the run has the sum of their states and not the product, and no behaviour
  of any of them is lost.
* Cli. With lines of seven characters, words of four and two parameters, a line is cut, a
  word does not fit and a parameter is too many, and lines are long enough for two
  words behind an index left by another line. Deadlock is not checked because
  `StoreOutside` ends the model.
* Formats. Names are all of up to six characters (letters, dots, spaces) for base names and
  extensions of two, so that each part is too short, fits and is too long; numbers are those
  of 12 bits, dates all of FAT.
* Paths. Trees have the root and two directories, beside each other or nested, and two files,
  under all choices from two names for the shell (one begins the other) and three for FUSE;
  typed paths are all of up to five characters, with doubled and trailing slashes. For FUSE two
trees are added with four names that are apart, so that `CallbacksFollowPath` has its
precondition in full trees and not only in what removals leave. A directory
  with four entries becomes full. A disk that was just formatted is another tree. `Depth` is
  how deep the properties look; four is more than the trees have. Deadlock is not checked
  because an emptied disk offers FUSE nothing, and `cd` may change nothing.
* Interrupts. Two sectors distinguish the right one from another, four sector numbers a
  sector, one that does not exist and one that wraps. Requests are a read and a write of a good
  and of the damaged sector, the write through a number that wraps, and a write to none.
  Lines 0, 1 and 14 are those in use, 4 is masked. The FIFO has its 16 places.
* Console. Three rows are the least with a row that is neither painted over nor last; the
  longest line is one row less than the screen, as 77 characters are less than 24 rows.

Each property of a passing run has a mutant in `PROJECT.json`: a change to one action,
of a kind that could be made in the C code, under which TLC finds the property violated.
The mutated actions stand before the original, marked "Mutation".

Fairness. `Scheduler`: weak fairness of the boot code and of the timer path (the PIT runs
in periodic mode and interrupts stay enabled), strong fairness of the steps inside
`schedule_create` and `execCommand`, since their thread gets a slice again and again
(`EveryReadyThreadRuns`, which needs only the fairness of the boot code and the timer)
and executes instructions in it. Nothing obliges a user to type `exec`. `Keyboard`:
weak fairness of the timer and of the reader's steps; no fairness of key presses or of
calls. `FatFs` has safety properties only. `GThreads`: weak fairness of the steps of
`gt_schedule` and of the alarm (a periodic timer), no fairness of ending, and strong
fairness of the promotion of each thread, since a waiting time exceeds two seconds in
the end and only a promotion or the processor resets it. The lottery is left out of
`ReadyRuns`: its fairness is probabilistic. `Interrupts`: weak fairness of the handlers (they
run with interrupts off), of the disk (it ends every command it has begun) and of the
transmitter; strong fairness of accepting the timer and the keyboard, and of the thread's
steps in the driver, because handlers end well before the next tick and the thread
executes in between; no fairness of requests, of new calls or of printing. `Console` has
safety properties only; a text ends after finitely many stores.

What the violations say. (1) `generic_isr_handler` calls the handler of vector 32 through
the table and then again; the uptime runs at twice real time. The same double call is
harmless for the switch only because 12 is even: `SliceOver_OffByOne` breaks
`CpuRunsCurrent`. (2) `write_` over an existing file puts all its sectors into the
first cluster and frees that cluster; of a file of two sectors the last is then read once, and
what follows comes from before the data area. (3) `rm` in the root prefers a file of the same
name in a subdirectory. (4) Main is in no priority queue until it has been promoted, so
`priority_schedule` cannot choose it when the last other thread ends. (5) `gt_schedule`
unblocks the alarm before it updates the table; a second call in between can leave main
marked Running for ever.

`FilesReadBack` and `ChainsDisjoint` make exactly these exceptions: a file written over,
and a power loss between entry and table in `touch_`. `FilesReadBack` holds for one sector
per cluster, because `write_` fills only the first sector of a cluster, and on a disk that
has every cluster its table describes, because `write_` ignores that a sector was not there.

## 4. Proofs

All theorems hold for every value of the constants under the assumptions of the module
that declares them:

* `SchedulerAssumption`: at least two slots, an even slice;
* `KeyboardAssumption`: at least two slots in the ring;
* `FatAssumption`: at most 16 entries in a directory (`overflow entries[16]` on the stack
  of the kernel), a table whose clusters have 16-bit numbers below those that end a chain,
  and which describes at least one cluster;
* `GThreadsAssumption`: main and at least one more slot, priorities around 0;
* `CliAssumption`: a line and a token of at least one character;
* `FormatsAssumption`: an extension of at least one character, numbers that fit an unsigned
  int, dates with the days, months and years of FAT;
* `PathsAssumption`: a disk comes with a tree as the program makes them (`WellFormed`), and
  names have no slash and do not begin with a dot;
* `InterruptsAssumption`: a transmitter with at least two places, because the thread and a
  handler may both have seen it empty;
* `ConsoleAssumption`: a line fits on the screen below row 0.

`SchedulerProofs`: `IInv` is inductive (`Invariance`), and implies `TypeOK`,
`CpuRunsCurrent`, `ContextsIntact`, `OwnPartition`, `ExecRunsWhatItLoaded`; every step
of `Scheduler` is a step of `RoundRobin` or changes nothing there (`Refinement`). The
properties alone are not inductive. What `IInv` adds: exactly the current slot is Running;
slot 0 alone is on the boot stack; `ticks_elapsed` is even outside the pair of callback
calls, so a slice never ends in the first call, whose result is dropped; during an
interrupt `regs` and `final_esp` point where the pushed frame is; and, between two steps of
`schedule_create`, what it has established so far. `ExecPartition` says that the partition
`exec` chose is still the first free one when `schedule_create` looks again, which holds
because only one thread creates.

`KeyboardProofs`: `IInv` adds that the slots between tail and head hold real codes and that
for every modifier the last of its codes still on the way, or else the flag, tells where the
key is (`ModifiersTracked`). It implies `TypeOK`, `ReaderKeepsSlot`, `EofBelongsToChar`
and `ModifiersFollowKeys`; `Refinement` shows that reader and handler implement
`BoundedFifo`. The arithmetic of the ring is in lemmas without state.

`FatFsProofs`: that files do not share clusters is inductive only together with the copies
of the table (`CopiesInv`: which sectors of which copy already agree with the memory while
`updateFatTable` runs), with the clusters of a file that has no entry yet (`NewChain`,
`ChainsInv`) and with the exact account of allocated clusters (`AccountInv`). A chain is
an intersection of sets, so facts about chains need no induction: what `delete_` frees, what
`write_` links, and that a change outside a chain leaves it as it is, are lemmas about
closed sets. `IInv` implies `TypeOK`, `NothingBehindEnd`, `CurrentDirExists`,
`TablesAgree`, `ChainsDisjoint` and `NoLeaks`.

What a file contains is in `LabelsInv`, without a word about positions: the first cluster has
label 1, a link leads from each label to the next, and while `write_` works its last cluster
has the greatest label of the new chain (`LastWritten`). `FilesInOrder` follows: in every
file whose clusters the disk has, cluster j holds the j-th sector written, for any number of
sectors per cluster and clusters in the table. Its proof needs that `Walk`, a recursive
function, is what its recursion says (`WalkIs`): finite walks exist and agree, so the
function made of their ends solves the recursion; then a least position with a wrong label
is a contradiction. `FilesAreRead`, that is `FilesReadBack`, has two hypotheses, one sector per
cluster and a table of no more clusters than the disk has. They are those of the passing run,
and the property is false without either.

`GThreadsProofs`: every theorem has the hypothesis `Nesting = 0`, that no alarm strikes in
`gt_schedule` between `gt_reset_sig` and the end of the switch. It is the value of the passing
run, and it is needed: with one such alarm TLC finds every one of these properties
violated. `IInv` says what calls of `gt_schedule` may be on a stack (`Control`,
`Resumable`), who is marked Running at which of its steps (`InStep`), and where the queues
have each thread (`Queued`). The last is why nobody is lost (`ExitsLast`) although
`priority_create` puts a thread in one queue and `priority_age` looks for it in another:
the first call of `priority_age` promotes everybody, because nobody was ever scheduled, and
from then on a thread is in the queue of its priority. The loop of `priority_age` is a
recursive function; that it does what its body does once for every slot is proved by
taking the least slot for which it does not. `EndedStaysEnded` is an action property, proved
from the same invariant.

`CliProofs`: `IInv` says that what `cliParse` has taken of a line is, word by word, what is
before the index in a tail of the line (`InParams`, `InExecute`), that this tail is the
whole line as long as no line had an empty token (`Tidy`), and that the index is behind a
separator. That a token is a word, and the next one, are the lemmas `WordHere`, `OneMore`
and `WordAdded`; the number of a word is the number of word starts up to it.

`InterruptsProofs`: `IInv` has a part for each component: what the device may be doing while
the driver stands at each register access (`DriveInv`), what the two writers may have
seen (`LineInv`) and what is in service for each vector (`CpuInv`). They meet where a handler
that has seen the transmitter empty is known to run, so that the thread cannot fill
it. The order of the texts follows from what is on the line, character by character. The
refinement of `Disk` needs that address registers hold the sector number of the request
from the moment they are set, and that nothing else than the driver changes them.

`ConsoleProofs`: `LineOnScreen` is about a screen at rest; `IInv` says where the line is seen
while a character is displayed and while rows are moved (`Seen`, `Shown`, `Settled`), and
that the last character of the line is the one being echoed (`Control`). `Refinement` shows
that every store of `vga.c` is a step of `Terminal` or changes nothing that is seen.

`TextsProofs`: all loops over texts, numbers, entries and trees are recursive functions, and
for each there is a lemma that it is what its loop computes: a loop of N rounds has a result
(`LoopsEnd`, by a least round without one), and two that start and go on alike are alike
(`LoopsAgree`). For `Formats`, `WrittenAsMeant` is the inductive invariant, and the theorems
without a property are about the functions: that a listed name is the name if and only if it
fits needs what is stored for it, character by character (`StoredIs`); that addresses read
back, that a number below 16 to the n has n digits (`ShiftedFits`). For `Paths` the invariant
is `PathsTypeOK`, which is inductive: `delete_`, `create_` and `rmCurrentDir_` leave the same
directories with good entries (`After`), and what the callbacks are given is taken apart into
a directory of the tree and a legal name (`GivenPaths`). That paths are found follows from it: the
names of a path spelled out are read back, also with a slash before or behind it
(`PathsReadBack`), the three ways to take a path apart agree (`SplitAgain`,
`ContextIs`), a walk is extended by its last name (`WalkAppend`), and by induction over levels
every entry is where its path leads (`LevelsAre`). The prompt needs more than the current
state of `Paths` shows: `Standing` says that its text is the path of a directory of some
level, and a rank of the directories (`Ranked`) that nothing listed on the way to a
directory lies in it, so that removing an entry of the current directory leaves the way
(`WayStays`); that the removal from the root, which searches everything, does no harm
follows because nothing is on the way to the root. `PromptIsAlwaysPath` has two hypotheses
about the inputs, that the trees a disk comes with are `Ranked` and that "." and ".." are
not typed (`NoDots`); the run `shell` evaluates both for its own. That `tree` shows
everything once is a bijection between the positions of what is shown and the paths below
the root (`Lists`): the loop of `printTree` joins, entry by entry, sequences that show
different places (`ListsJoined`, `BlocksApart`), and a path taken apart at its first step is
the same as at its last (`FirstStep`, `LastStep`). Five theorems have a hypothesis about the
constant `Same`: `KernelsSame` says that it is `SameText`, `FusesSame` that it is
`SameBeginning`, as the runs `shell` and `fuse` set it.

`CallbacksAlwaysFollowPath` compares all paths of a tree before and after a callback, and needs
the invariant `Proper`: no directory lies in two places or as deep as trees are looked at, and
none has more entries than fit. It is inductive, because a removal only takes entries
(`Fewer`) and `create_` adds only a file. The erasing search from the root looks at exactly the
slots of the directories that have a path (`SearchedRoot`); as long as names are apart it takes
the entry that is meant (`HitIs`) or nothing (`NothingHit`). Taking out an entry, with whatever
is taken below it, leaves the paths that do not begin with its own (`LevelsCut`, `CutOut`), and
a file that is written or created leaves the directories and adds its path (`PathAdded`).
That the trees a disk comes with are `Proper` is a hypothesis, without which the property is
false: a directory in two places is emptied in both. The run `fuse` evaluates it for its own
trees.

Only model-checked:

* the liveness properties (`EveryReadyThreadRuns`, `CreateReturns`, `NoLostWakeup`,
  `ReadyRuns`, `EveryWaitEnds`), which the prover does not reach;
* the violations of the five runs that expect one.

## 5. Not modelled

The boot loader and protected-mode switch (one fixed path); the layout and colours of what is
displayed, the uptime clock and the hexadecimal dump among it (its table of digits lacks
"23"); what `load`, `run` and `hexdump` do to memory; CPU exceptions; statistics that are
only written; `kernel.asm` and `test.c`, which no rule of the Makefile builds into the
image. Of the FUSE program: `main`, the offset that `writeCallback` ignores, and the copying in
`readCallback`; at this commit its Makefile does not link a disk driver. A disk that stays
busy for ever. In `FatFs`: disk errors, `write_`
over a directory, directories inside the subdirectory, the second cluster of a
directory, and `changeDir` by name (only its use for "/" matters here). In `GThreads`:
statistics, `SIGINT`, the sleeping loop, and threads created by threads; the lottery is
modelled although `gthreads/main.c:48` selects round robin for its option. Memory errors
with a fixed outcome (`memZero` beyond its buffer in `cliLoop`, more than 16 entries in
`findEntryInCurrentDir`, the padding of `printTree` at depth seven) are not questions of
states and steps.
