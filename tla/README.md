# NedoOS in TLA+

NedoOS is a small 32-bit x86 kernel in C and assembly.  This directory holds TLA+
models of its parts, TLC configurations that check them on small instances, and
proofs, checked by TLAPS, of what holds for every value of the constants.

`tlc -config X.cfg M` runs a configuration, `tlapm M.tla` checks the proofs of a
module.  `PROJECT.json` lists the runs, the mutants each property must catch, the
source lines behind every definition, the findings, the hazards and the theorems.

## 1. The system

The repository holds more than one kernel.  `kernel/kernel.c` (1047 lines) is the one
`build.sh` links into the image, with the network stack (`kernel/net`) and a stub of its
card: console, virtual terminals, keyboard, shell and FAT disk in one file, polling its
devices.  Around it lie libraries for which no build has a caller yet or only a draft of
one: the memory managers (`kernel/mm`), the preemptive scheduler and the cooperative
tasks (`kernel/task`), descriptor tables, interrupts and the PIC (`kernel/arch/i386`),
drivers (`kernel/drivers`), a FAT library (`kernel/fs`) and a subset of the C library
(`libc`).  Each is modelled, if it is, as its own header offers it to a caller.

| component | state | operations | meets |
|---|---|---|---|
| physical memory (`pmm.c`) | bitmap, search cursor | init, alloc, free | its callers, `vmm.c` first |
| virtual memory (`vmm.c`) | page directory and tables in pages of `pmm.c`, cr0 | init, enable, map | `pmm.c`, the MMU |
| network (`net/network.c`) | ARP table, one pending ping | ping, handler of ARP and ICMP frames | the card, other hosts, `kernel_main`'s loop |
| scheduler (`task/scheduler.c`, `switch.S`) | task table, current task, stacks | create, switch on each tick | the timer tick, all tasks |
| interrupts (`isr.c`, `isr_asm.S`, `idt.c`, `pic.c`, `timer.c`) | descriptor table, handler table, both 8259s | set-up, register, mask, dispatch, EOI | devices, handlers |
| console, terminals, keyboard (`kernel.c`) | screen, cursor, saved screens, modifier keys | putchar, vt_switch, getchar | the shell, the bytes of the mouse |
| shell (`kernel.c`) | line, history | edit, recall, enter | console, file commands, network |
| file commands (`kernel.c`) | volume, current cluster and path, FAT and directories on the disk, the text of the editor | mount, ls, cd, cat, pwd, edit with fat_alloc_cluster | ata_read, ata_write |
| disk access (`kernel.c`) | the call being made; the drive | ata_read, ata_write | the drive, which answers in its own time |
| cooperative tasks (`task.c`) | task table that nothing starts | create, yield | |
| `fat.c`, `ata.c`, `tty.c`, `e1000.c`, boot, GDT, libc, build scripts | | | |

What is hard in this code, and hard to test: a timer tick between any two statements of
`scheduler_create_task`; interrupts and exceptions on top of each other, between any two
port accesses of the PIC code; frames that are lost, overtaken or sent unasked while a ping waits; a drive that answers
after its call gave up, or loses power between the write of the FAT and the write of the
data; bytes of the mouse that come up where `getchar` expects a key; the page allocator
placing a page table where the kernel cannot reach it, or failing without its caller
noticing; stubs and processor disagreeing on what lies on the stack; and long sequences
of legal calls (allocate and free, type, wrap, scroll and switch, change directory and
back) that must keep two copies of one fact equal.  `hazards` of `PROJECT.json` lists
each at its line, with the properties that would catch it.

## 2. The modules

| module | models | kind |
|---|---|---|
| `PageAllocator` | what `pmm.h` promises | abstract |
| `Pmm` | `pmm.c`; refines `PageAllocator` | detailed |
| `PmmProofs` | | proofs |
| `AddressSpace` | what `vmm.h` promises | abstract |
| `Vmm` | `vmm.c` composed with `Pmm` and the MMU; refines `AddressSpace` | composed |
| `VmmProofs` | | proofs |
| `Network` | `net/network.c`, with card, wire and hosts | detailed |
| `NetworkProofs` | | proofs |
| `Scheduler` | `scheduler.c`, statement by statement | detailed |
| `SchedulerProofs` | | proofs |
| `ContextSwitch` | the stacks of `scheduler.c` and `switch.S`, word by word | detailed |
| `Interrupts` | stubs, dispatch, PIC code and timer set-up, with the 8259 pair | detailed |
| `InterruptsProofs` | | proofs |
| `Terminals` | what virtual terminals promise | abstract |
| `Console` | `putchar`, `newline`, `vt_switch` | operators and state |
| `Shell` | `getchar`, the line, the history, over `Console`; refines `Terminals` | composed |
| `ShellProofs` | | proofs |
| `Ata` | `ata_read`, `ata_write` and the drive | detailed |
| `Files` | `mount`, `ls`, `cd`, `cat`, `pwd`, `edit` and the FAT, over `Ata` | composed |
| `FilesProofs` | | proofs |
| `LeastNumber` | induction, for `ShellProofs` and `FilesProofs` | proofs |
| `MC*` | sets and functions for TLC, and the claims of comments that fail | model checking |

Definitions keep the names of the source where they can.  A definition called
"Mutant of X" is X with one plausible slip; it is used by no specification and stands
there to show that the property listed with it can fail.

### Pmm, Vmm

A page number stands for its address.  `memory_bitmap` is the set of pages whose bit is
set; `held` is what callers have.  The two loops of `pmm_alloc_page` are the relation
`NextFit`: the lowest free page from the cursor on, else the lowest below it.  `Alloc`,
`OutOfMemory` and `Free` are the three outcomes of the two functions.

In `Vmm`, `mem` gives each physical page the table it would be read as, so a table lies
in the page the allocator chose and nowhere else, pages of other callers hold their data
(`Junk`), and `Walk` is the walk of the MMU.  `Reach` is where a pointer of the kernel
leads: the page itself before `vmm_enable`, the walk's answer afterwards.  With a `Fault`
the kernel gets no further: `isr_handler` stops it, or, reading another number than the
exception's (see Interrupts), returns to the instruction, which faults again.  Memory holds anything to begin with,
so a table that nothing cleared is read as mappings.  The answers of the allocator, which
neither `vmm_init` nor `vmm_map_page` tests, are taken as they come: page 0 may become a
table.  The history variable `atNull` counts how many did; two share the page, every
mapping in one is then a mapping in the other, and the model goes no further (`GoesOn`).

`vmm_map_page` takes the physical address of a table for the one to reach it by.  Its
callers could map another frame over a page the allocator gives out, or over page 0, and
cut it off; `MapPage` leaves them the identity there and everything elsewhere.

`AddressSpace` is the map a caller of `vmm.h` counts on: the identity over 4 MB, then each
mapping where it was asked for, with `rw` as asked and with access of the user only if it
was asked, and no other page changed.  `Translated` is that map as the MMU sees it; `void`
stands for a caller whose memory has run out twice.

### Network

`rx` is what the card holds, `tx` what is on the wire, as a set: frames overtake each
other, `Lose` drops them, `Chat` has hosts send on their own, `NewCard` changes a host's
card.  `network_handler` is one call for one frame, with everything it calls:
`arp_handler` learns an entry, answers requests, and sends the waiting ping after a
reply; `icmp_handler` answers echoes and completes the ping.  Byte order is kept by what
it does: a frame holds an address as the processor reads the bytes, `Swap` is `ntohl`
and `htonl`.  History variables record which pairs of address and card ever existed and
which echo requests were sent.

### Scheduler, ContextSwitch

A flow of control is a slot of the table or `Boot`.  `scheduler_create_task` is seven
steps, from `Call` to `Back`; `scheduler_switch` may come before each.  `next_task_id++`
reads and writes apart (`Number`, `Count`).  Overlapping calls are allowed; once one has
overwritten a live stack nothing more is said (`clobbered`).

`Scheduler` takes `task_switch` for what `scheduler.c` expects.  `ContextSwitch` is what
`switch.S` does with the frame that `scheduler_create_task` lays out.

### Interrupts

`pic` is the pair of controllers, driven through `Command` and `Data`, the writes to
their two ports; a byte is the set of its bits.  `pic_remap` and the mask functions put
their `outb` calls into `todo`, and `Outb` makes them one by one, so that interrupts,
requests and exceptions come between any two.  A `Frame` is what the processor and a stub
push: eflags and eip, the number of the stub, and how many words lie above eflags, eip and
cs when `Leave`, the way back of the common stubs, drops two and executes iret.  With another
count than two the processor goes `astray`.

`isr_handler` and `irq_handler` take a pointer `r` to the frame, and no stub pushes one.
Where they look for it lies the word `isr_common_stub` and `irq_common_stub` push last: ds
in the low half, what was in the upper half of eax above it.  `r->int_no` is then whatever
memory holds at an address made of the two, and nothing in the repository decides what that
is.  The model has each C function read any number of the set `Found`, and not the frame's
but by chance.  So `isr_handler` may stop the processor, or return to where the exception
came from; `irq_handler` may serve the interrupt that came, or another one, or none.  The
history variable `mistakes` keeps which number was read for which; `Left` has the lines of
every interrupt that was misread.  The word itself lies where gcc has the
argument, and neither function assigns `r`, so it comes back from the call as it was
pushed.  Reads are those of a kernel with paging off, where no address faults; nothing in
the repository turns on both paging and interrupts.

`irq_handler` is four steps: the test, the handler, the EOI of the slave, the EOI of the
master.  `nmi` is set while a non-maskable interrupt is served; one may come anywhere but
then.  What comes after the processor has stopped or gone astray is left out.  No code of
the repository calls the set-up functions; `Sti` is a caller that enables interrupts after
`idt_install` and `pic_remap`, in either order.

### Console, Shell

A screen is a record of video memory, cursor and colour, which is what `vt_switch` saves
and restores; the colours of cells are left out.  `putchar` is by cases on the character,
`Written` and `Erased` being the cell it sets and the one it blanks, and `print` the
recursive function of its loop.  A step of `Shell` is one scan code:
what `getchar` makes of it and what `kernel_main` does with the character.  `Enter` runs
`history_add` and the command; of commands only what they do to the screen is kept.
`char` is signed in the build: `ToChar`.

`mouse_init` turns the mouse on, and `getchar` does not ask which device a byte of port
0x60 came from.  `MouseByte` is such a byte where it meets a modifier's scan code: the
flag changes and no key moved.  `byMouse` is a history variable, the flags such a byte has
set; `NoStuckModifier` says that any other flag that is set has a key held down.  A byte of
the mouse that reads as a letter is, for the line, a letter typed.

### Ata, Files

`Ata` is one call at a time: a wait for the drive and the command (`Issue`), a second
wait and the 256 words (`Transfer`).  Each wait ends after 1000 polls whether or not the
drive is ready, the code goes on, and always returns 0; so a call may read the port with
nothing behind it (`Garbage`), write its command to a busy drive, or leave an answer for
the next call to find.  The drive (`DriveStep`) is external: it reads, asks, and writes to
`medium` in its own time, and a sector it does not have leaves it idle.  `late` counts
waits given up, `call.missed` says that this call did.

A command of `Files` is a job with the call it waits for: `Mount` asks for sector 0 and
`Mounted` goes on with what came back; `ls`, `cd`, `cat` and `edit` read the directory;
`cat` and `edit` then the cluster; a save of the editor looks for a free cluster one FAT
entry and one read after the other (`Looked`), then reads and writes the FAT sector
(`Marked`) and writes the data (`Allocated`).  Between any two the drive moves, gives the
wrong answer, or the power goes (`PowerOff`): what was being written is lost, what was
written stays, and the kernel boots again.

A directory is its cluster, a name a sequence of characters, a path the sequence of the
parts `path_join` appended.  Of a file longer than a sector, what lies behind the sector on
the stack of `edit` follows it into the editor's buffer (`kernel.c:765-768`); the text of
the model is the sector alone, for a save writes the first 512 bytes and no more.
`DirSector` keeps the limit of one sector per directory,
`Matches` the comparison up to the length typed.  The entries of the FAT are three
four-bit digits, two digits to a byte, so that an entry shares a byte with its neighbour
and may lie across two sectors, of which `fat_get_next_cluster` has one in its buffer:
the digits beyond are any (`beyond`), and are not written back.  Only the first copy of
the FAT is written, and a save makes no directory entry, as in the code.

`kernel_main` calls `edit` for no command, and `getchar` returns neither of the codes of
Ctrl+S and Ctrl+Q that `kernel.c:711` tells the user to press.  It is modelled as a
function for a caller, whose keys `Save` and `Quit` are.

`Disks` is any set of disks a formatter makes and files are put on (`VolumesAssumption`):
FAT, root directory and data after each other, a FAT long enough for the clusters
`fat_alloc_cluster` tries, names in capitals, no two the same among the entries of a
sector, directories without an extension and on clusters that are in use.  The code checks
none of it.  A FAT that is shorter is read on into the root directory, `ls` prints small
letters that `cd` and `cat`, which search in capitals, never meet, and a directory on a cluster
the FAT has as free is given out by the next save.  `Follow` is the directory a path leads
to from the root.

Two history variables: `first`, the disk before anything was written, and `saved`, what
`edit` reported as saved while the drive kept up, less what a power cut then took from
the drive's buffer, which the code can not know of.

## 3. The runs

| run | instance | states | shows |
|---|---|---|---|
| `pmm` | 9 pages, 2 low, 1 beyond memory | 769 | `Accounting`, `OnlyRealMemory`; `Pmm` implements `PageAllocator` |
| `vmm` | 16 pages, 4 entries to a table, 4 frames, up to 4 pages of other callers | 1.6e5 | `TablesOwned`, `FaultsOnlyBeyondIdentity`; `Vmm` implements `AddressSpace` |
| `network` | 2 hosts, 3 cards, table of 2, 2 pings, 2 unasked events | 6.4e4 | `TableSound`, `NoMisdelivery`, `BindingStable`, `CompletionJustified`, `PingAnswered` |
| `network_order` | 1 host whose address is no palindrome | | violated: `EveryPingAnswered` |
| `scheduler` | 3 slots, 4 calls | 4.7e3 | `OneRunning`, `BoundedWait`, `LiveTaskKept`, `CreateKeepsPromise`, `EveryTaskRuns` |
| `switch` | 2 slots | | violated: `FirstReturnIsEntry` |
| `interrupts` | irq 7 and 8, line 8 masked at will; NMI and the alignment check; 3 numbers to read | 1.6e6 | `InterruptLeavesNoTrace`, `CalledOnlyOnRequest`, `ReturnsWhereInterrupted`, `MasksAsAsked`, `EveryRequestServed` |
| `interrupts_eoi` | the same, no spurious interrupt | | violated: `EveryIrqGetsItsEoi` |
| `shell` | screen of 4 by 2, 2 terminals, lines of 4, history of 2, 9 scan codes or bytes of the mouse | 1.6e6 | `EchoMatchesLine`, `HistoryKeepsLatest`, `NoStuckModifier`; `Shell` implements `Terminals` |
| `shell_recall` | 5 scan codes | | violated: `RecallWorks` |
| `files` | 2 disks of 5 directories, names that begin alike, 3 steps deep, 6 clusters for the editor, 1 wait given up | 2.5e6 | `TimelyIsRight`, `PathLeadsHere`, `ListedCanBeOpened`, `FilesKept`, `EntriesKept` |
| `files_pwd` | the same | | violated: `PwdNamesCurrentDirectory` |

Each passing run also checks the type invariant of its module.

Why the bounds are enough:

- *pmm*: six frames, so the cursor passes the end, wraps, and meets every pattern of
  free pages on both sides; the last page is beyond memory, and memory runs out.
- *vmm*: the fourth page the allocator gives out is the first the kernel cannot reach
  once paging is on; three virtual pages lie under three tables, one of them a frame that is
  mapped at its own address; other callers can take every page, so memory runs out before
  `vmm_init`, between its two allocations and under `vmm_map_page`, once and twice; they
  leave their data in a page a table will get.
- *network*: the table is full with two of the three cards; one ping can wait while
  another is typed; two unasked events allow an announcement that crosses a reply, and a
  host that changes its card after it was learned.
- *scheduler*: more calls than slots, so the table fills and calls fail; three slots are
  the least at which a search may start after, at and before a ready task.
- *interrupts*: 7 and 8 are the lines on both sides of the boundary between the
  controllers, 7 is also where spurious interrupts arrive, 2 is the cascade.  One request
  each suffices, since the second of a line waits until the first is in service.  A C
  handler reads 39 or 40, the number of either device, so the right one or the other's, or
  31, the last that `isr_handler` takes for an exception and `irq_handler` for no irq.  The
  NMI has no error code and comes anywhere; the alignment check is the one exception at
  which processor and stub disagree.
- *shell*: the prompt and three letters fill a row, so a line wraps and scrolls, Backspace
  reaches the left edge, and three commands overrun the ring.
- *files*: the disk has a deleted entry, an entry past the sector, a name that is the
  beginning of another in both orders, a file and an empty one.  A FAT sector of 8 bytes
  holds five entries and a third, so entry 5 straddles the two sectors, as entry 341 does
  in sectors of 512; it is free on one disk and a link of a chain on the other.  After one
  wait given up nothing more is asked of the shell: the command that runs goes on, and
  every later call of it meets what the late drive left; a second would add no new state
  of the drive.  `FilesKept`, `EntriesKept`, `PathLeadsHere` and `ListedCanBeOpened` speak
  of drives that keep up (`late = 0`): a FAT sector that is not one gives out clusters in
  use, which no order of calls could prevent.

Bounds in the models, by name: `MaxPings`, `MaxChatter` and `RingSize` (Network),
`MaxCreates` (Scheduler), `StackWords` (ContextSwitch), `MaxRequests` and `MaxSpurious`
(Interrupts), `MaxKeys` (Shell), `MaxLate` (Ata), `MaxDepth` (Files),
`ClientMax` (Vmm).  Deadlock is
checked where the system may not stop; each configuration that turns it off says why.

### Fairness

- `Network`: weak fairness of `network_handler`, which `kernel_main` calls once for each
  key, so of a user who keeps typing, and of `Deliver`, the wire.  None of `Lose`, of the
  user's commands or of other hosts.
- `Scheduler`: weak fairness of `scheduler_switch` alone, the timer.  None of the tasks.
- `Interrupts`: weak fairness of `Deliver`, the processor's answer to a PIC that asks, and
  of `Return`, the code from `irq_handler` on, handlers included: they return, as
  `timer_handler` does.  None of the devices and of what Main calls.
- `Files`: none.  That a command ends needs only that two waits of 1000 polls do, which no
  state of the drive can prevent; the graph of `files` is too large to check it on top.

## 4. What is proved

| module | theorems |
|---|---|
| `PmmProofs` | `TypeCorrect`, `AccountingHolds`, `OnlyRealMemoryHolds`, `ImplementsContractHolds` |
| `NetworkProofs` | `NetTypeCorrect`, `TableSoundHolds`, `NoMisdeliveryHolds`, `BindingStableHolds`, `CompletionJustifiedHolds` |
| `SchedulerProofs` | `SchedTypeCorrect`, `OneRunningHolds`, `BoundedWaitHolds`, `LiveTaskKeptHolds`, `CreateKeepsPromiseHolds` |
| `InterruptsProofs` | `IrqTypeCorrect`, `InterruptLeavesNoTraceHolds`, `MasksAsAskedHolds`, `ReturnsWhereInterruptedHolds`, `CalledOnlyOnRequestHolds` |
| `VmmProofs` | `VmmTypeCorrect`, `TablesOwnedHolds`, `FaultsOnlyBeyondIdentityHolds`, `ImplementsAddressSpaceHolds` |
| `ShellProofs` | `ShellTypeCorrect`, `EchoMatchesLineHolds`, `NoStuckModifierHolds`, `HistoryKeepsLatestHolds`, `ImplementsTerminalsHolds` |
| `FilesProofs` | `FilesTypeCorrect`, `TimelyIsRightHolds`, `FilesKeptHolds`, `EntriesKeptHolds`, `PathLeadsHereHolds`, `ListedCanBeOpenedHolds` |

Every invariant, action property and refinement that a passing run checks is one of these
theorems.  The only assumptions are the named ones on the constants (`PmmAssumption`,
`VmmAssumption`, `NetworkAssumption`, `SchedulerAssumption`, `InterruptsAssumption`,
`ConsoleAssumption`, `ShellAssumption`, `AtaAssumption`, `FilesAssumption`,
`VolumesAssumption`), which TLC evaluates on each run.  Most say that a number is one.
`ShellAssumption` adds that a line is no longer than the screen but one row, and that no
letter is a newline or a backspace; `AtaAssumption` that a wait may be given up at all and
that what comes from a port with nothing behind it is not taken for the lack of data; `VolumesAssumption` is in section 2.

- **Pmm.**  `TypeOK`, `Accounting` and `OnlyRealMemory` together are inductive.  That NULL
  means "no page left", which the refinement needs, rests on `Accounting`: the two loops
  look at bits, the contract speaks of frames, and the invariant says the clear bits are
  exactly the frames nobody holds.
- **Vmm.**  `VInv` says where every table is: directory and tables each in a page of
  their own that `vmm.c` holds, all but one, at most, in page 0 (`Apart`); and that the
  pages they lie in are, for the MMU, at their own addresses or nowhere, and at their own
  within 4 MB (`Straight`).  The second is what makes a write through a physical address
  land in the table, and is what the obligation of `MapPage`'s caller keeps.  That a
  mapping changes no other translation then follows from the two indices: pages that
  differ have another directory entry, so another table, or another slot of one.  The
  allocator enters as `PmmInv`, the invariant of `PmmProofs`, so what was proved of `Pmm`
  is used and not proved again.
- **Network.**  `TableSound` and `NoMisdelivery` are about the table and the wire, but what
  enters the table comes from frames, so the inductive `IInv` adds that every frame on its
  way, in either direction, tells the truth (`RxTruthful`, and `TxRecorded` for what we
  sent), that a host's card is among the pairs that ever existed (`Cards`) and that ids
  are those of pings (`IdsInUse`).  `BindingStable` and `CompletionJustified` are action
  properties of steps from `IInv`.  `arp_lookup` takes the first match of a sequence; that
  it exists is by well-foundedness of the natural numbers, not by induction over tables.
- **Scheduler.**  `OneRunning` needs that a call never fills the slot of the task that made
  it (`OwnSlotKept`).  `BoundedWait` is by a measure: the switches a ready slot has waited
  plus its distance from `current_task` never exceed `MAX_TASKS` (`WaitInv`);
  `DistanceSplit` shows that moving on to the first ready slot takes from the distance of
  any other at least as much as it adds to its wait.  `LiveTaskKept` and
  `CreateKeepsPromise` hold while calls do not overlap; `CreateInv` says that then at most
  one call is open, that the slot it found is still dead and what it has filled so far is
  there, and that every number returned is kept.
- **Interrupts.**  None of the properties is inductive.  `IInv` adds what lies on the
  stack (`FrameInv`): the frame of an irq is the lowest and was pushed in Main, for it alone
  runs with the flag set; exceptions lie on top of it, or of Main.  It adds what each PIC
  can have in service at each step of `irq_handler` (`ServiceInv`), all relative to `Left`,
  what earlier misreadings left there.  A PIC interrupts only for a line above all that is
  in service, so an EOI ends the service of the irq being served, or, when that irq was
  misread or spurious, one of a line in `Left` or none.  `SetUpInv` has the tables: a mask
  function has one or two `outb` left, or `pic_remap` has made `k` of its ten with
  interrupts off, and then the controllers are in the state of `RemappedMaster(k)` and
  `RemappedSlave(k)`.  `ReturnsWhereInterrupted` is about the top frame in any state, by
  cases on which of processor and stub push a code.  `CalledOnlyOnRequest` needs that an
  entry of the table of handlers is that of its own irq and that `calls` grows for the irq
  read, which is that of the frame or makes an entry in `mistakes` (`CallInv`).  The
  theorems hold for any set `Found` of numbers the C functions may read.

- **Shell.**  `HistoryKeepsLatest` is inductive with the shapes of the ring and of
  `accepted` and `history_count` being its length (`RingInv`): a new command goes to slot
  `history_count % MAX_HISTORY`, and `SlotsApart` says that two numbers less than
  `MAX_HISTORY` apart have different slots, so it overwrites only the one that leaves the
  window.  `NoStuckModifier` is inductive alone.  `ImplementsTerminals` needs that
  `terminals` and `current_terminal` move together, in `vt_switch` only: a step that
  writes the screen is an output to the terminal shown, and the switch maps to `Show`.
  `EchoMatchesLine` is inductive with the cursor on its screen (`SInv`).  A character put
  either moves the cursor on and no other cell (`Advances`), or moves everything up by a
  row (`Scrolls`), and both keep the cells before the cursor for a text of up to all rows
  but one; what `print` makes of a text is by induction over its length.
- **Files.**  `TimelyIsRight` is inductive with where the drive is at each step of a call:
  between the two waits of a call that did not give up, the drive is at the very sector
  and with the very command of that call (`CallInv`), for whatever earlier calls left was
  either finished or made the first wait give up.  The proof takes what the commands do to
  the disk as one action (`Caller`), so it holds of any caller of `ata_read` and
  `ata_write` that makes one call after the other.  `FilesTypeOK` adds what a job relies
  on across its calls (`JobInv`: a save still has its buffer and a cluster below the
  limit, `cd` the room in the path it saw before it asked for the directory).
  The other four hold while the drive keeps up, on any disk of `VolumesAssumption`, and
  rest on one invariant, `KInv`.  It says that each entry of the FAT is as it was or marks
  a cluster that was free, or seemed so, and was given out (`MediumOK`), and that a write
  the drive has pending either marks the entry of the save that waits for it, or puts data
  into a cluster already marked (`PendingOK`); that order is what no power cut can
  undo.  A save is followed through its calls: the entry was read as 0 and the drive is at
  rest (`SetOK`), the sector to be written is the one read with one entry changed
  (`MarkOK`), and data go out only to a marked cluster in which nothing was saved before
  (`SaveOK`, `FreshOK`).  That a mark leaves the neighbour's digits in a shared byte is
  arithmetic of digits (`MarkKeeps`).  `PathLeadsHere` is by `Wanders`: where the shell
  is, no save writes, so the directory is the one of the first disk, and `cd` takes one
  more step of `Follow`.

Induction over data is by the least counterexample: `LeastNat` finds, in a set of numbers
at which a claim fails, the least one, and the step from the number before refutes it.  In
this way the proofs reason about `print` and `Follow`, which are recursive functions.

Only model-checked: liveness (`PingAnswered`, `EveryTaskRuns`, `EveryRequestServed`), which
needs fairness and ENABLED, beyond this prover.  The five runs of section 5 are
counterexamples, found by TLC.

## 5. Findings

Five runs end in a violation; each checks a statement of a comment, of the help text or
of a message, against what the code does.

1. `isr.c:53` "Send EOI to PIC if this is an IRQ (0-15)": `irq_handler` is passed no
   pointer to the frame, reads the number from elsewhere, and may send no EOI or that of
   another line; Main goes on with the line in service (`interrupts_eoi`).
2. `network.c:238` "Got reply, sending ping...": the address is converted twice and the
   ping goes out only for addresses that read the same both ways (`network_order`).
3. `scheduler.c:71` "Setup initial stack frame for task_switch return": `switch.S` pops
   another frame, and the first switch returns to address 0 (`switch`).
4. `kernel.c:928` "Alt+Up/Down - history": a signed `char` is compared with 0x80 and 0x81
   and the keys do nothing (`shell_recall`).
5. `kernel.c:952` "pwd - print path": `cd` takes the first directory whose name begins
   with what was typed, and `pwd` prints what was typed (`files_pwd`).

Seen while modelling and stated by no run:

- `pmm.c:34` "Mark first 1MB as used (kernel + BIOS)": the kernel is linked at 1 MB
  (`linker.ld:5`), so the first page `pmm_alloc_page` hands out is the one it starts in.
- the stub of the alignment check pushes a zero on top of the processor's error code
  (`isr_asm.S:139`); `ReturnsWhereInterrupted` states it as the one exception.
- `irq_handler` sends the EOI after its handler returns (`isr.c:59-66`), so a handler that
  calls `scheduler_switch`, as `scheduler.c:25` expects of the timer's, and switches to a task that never ran, ends without one.

## 6. Not modelled

- `task.c` (four copies): `task_yield` returns at once while `current_task` is -1, and
  nothing sets it.
- `mkdir`, `write_file`, `rm` and `rmdir` only print.
- the environment: filled at boot, read by no command.
- `mouse_handler`, which nothing calls; the bytes it would read are `MouseByte`.
- the 256 characters of `current_path`, which every `cd` adds to and nothing checks:
  `MaxDepth` stands for the room there is.
- the first switch writes a word before the task table (`scheduler.c:45`), and a length
  below 20 in an IP header wraps (`network.c:273`): both reach memory outside the models.
- `fat.c` does not compile; `include/net` is an older draft of the network stack.
- `ata.c`, `tty.c`, `e1000.c`, boot code, GDT, libc, build scripts: port I/O on devices a
  model would have to invent, straight-line set-up, or sequential string loops.
- of `timer_install`, the rate of the timer; of frames, lengths and checksums.

## 7. Plan

Done: the modules above in the order Pmm, Vmm, Network, Scheduler, ContextSwitch, Shell
with Console, Interrupts, Ata with Files, with their runs, and the proofs of section 4.

Next, in this order:

1. Composition of `Interrupts` and `Scheduler` through a handler that switches tasks, to
   state the finding at the end of section 5.
2. Of a drive that falls behind, what still holds of the disk: `FilesKept` for saves made
   before the first wait that was given up.
3. The steps that liveness rests on, as theorems: that a waiting ping's frame, once
   handled, completes it; that a request stays pending until it is delivered.
