# A verification project for JOS (lab 5)

The repository holds five stages of the MIT JOS operating system; `lab5/lab` is
the complete one and contains the code of all the others. The models here follow
`lab5/lab`: the kernel (`kern/`), the user library (`lib/`), the file server
(`fs/`) and the headers they share (`inc/`). Paths below are relative to it.

## 1. Inventory

### Components, their state and their operations

| Component | State | Operations | Correct when |
|---|---|---|---|
| Start-up (`kern/init.c`, `mpentry.S`) | `mpentry_kstack`, `cpu_status`, the stack of each CPU | `i386_init`, `boot_aps`, `mp_main`, `env_create` | every AP comes up on its own stack and enters the scheduler under the lock |
| Big kernel lock (`kern/spinlock.c`) | `kernel_lock` | `lock_kernel`, `unlock_kernel` | kernel code runs exactly under the lock; nobody takes it twice or releases it for somebody else |
| Environment table (`kern/env.c`) | `envs[]`: status, id, parent, IPC flag; `env_free_list` | `env_init`, `env_alloc`, `env_free`, `env_destroy`, `env_run`, `envid2env` | free list = free slots; stale ids name nothing; an environment is on one CPU |
| Scheduler (`kern/sched.c`) | `curenv`, `cr3`, `cpu_status` of each CPU | `sched_yield`, `sched_halt` | no starvation; the monitor is entered only when nothing runs |
| Traps (`kern/trap.c`) | where each CPU is | `trap`, `trap_dispatch`, `page_fault_handler` | zombies are collected by their CPU; a halted CPU locks again before it dispatches |
| Physical memory (`kern/pmap.c`) | `page_free_list`, `pp_ref`, page tables | `page_alloc`, `page_free`, `page_decref`, `pgdir_walk`, `page_insert`, `page_lookup`, `page_remove` | counts are exact, no leak, no page freed in use, page tables belong to one environment |
| System calls (`kern/syscall.c`) | all of the above | 16 calls | each call, and each failure in the middle of one, keeps the above |
| IPC (`sys_ipc_*`, `lib/ipc.c`) | `env_ipc_*` | `ipc_recv`, `ipc_send` | a message goes to one receiver, with its page and its permission |
| Copy-on-write fork (`lib/fork.c`, `lib/pgfault.c`) | `uvpt`, the upcall | `fork`, `duppage`, `pgfault` | parent and child have separate memories |
| File descriptors and pipes (`lib/fd.c`, `lib/pipe.c`, `lib/pageref.c`) | fd pages and pipe pages shared by reference | `dup`, `close`, `pipe`, `devpipe_*` | bytes arrive once, in order; end of file exactly when the writers are gone |
| File system (`fs/fs.c`, `fs/bc.c`) | block bitmap, inodes, block cache, disk | `alloc_block`, `file_get_block`, `file_create`, `file_set_size`, `file_flush`, ... | a block belongs to one file or is free; what was flushed is on the disk |
| File server (`fs/serv.c`, `lib/file.c`) | open-file table shared by page references | `serve_open`, `serve_read`, `serve_write`, ... | an open-file entry is reused only when no client has it |
| Console (`kern/console.c`) | 512-byte ring | `cons_intr`, `cons_getc` | characters come out in order |

Not candidates: the boot loader, device programming (`lapic.c`, `picirq.c`,
`mpconfig.c`, `kclock.c`, `ide.c`), formatting and symbol tables, string
functions, the shell and the demonstration programs, generated files under
`obj/`, and the earlier snapshots `lab2` to `lab4`.

### How they interact

User code enters the kernel by a trap. `trap` takes the big kernel lock, handles
the trap and leaves through `env_run` (unlock, then `iret`) or `sched_halt`
(unlock, then `hlt`). All kernel state is therefore changed by one CPU at a time;
concurrency is in what lies outside the lock: start-up, user code, the entry of
`trap` before the lock, the `iret` and the halted state. Above the kernel,
programs interact by IPC and by pages they share on purpose; the file server is a
program, and it and the pipes learn who holds what by reading page reference
counts (`pageref`), outside any lock.

### What is hard to test here

`PROJECT.json` lists each hazard at its line. In short: destroying or restarting
an environment while another CPU runs it; reading state after the lock is gone;
losing the CPU on the way to the monitor; memory running out in the middle of a
call; reference counts that drift or wrap; ids that come round again; starvation.
Some are covered in part only, as their notes say: that a stale id gives rights over
the new owner of its slot once the generation wraps, page tables spent on addresses
that were never mapped, which no promise made here forbids, the counts that
`_pipeisclosed` compares while another CPU changes them, and a second destruction
of one environment, which `Spec` leaves out.

## 2. Plan

1. `EnvTable`, `JosKernel`: environments, CPUs, lock, scheduler, traps (done).
2. Proof of the inductive invariant of `JosKernel` (done).
3. `PhysMem`, refining `AddrSpaces`: pages and page tables (done).
4. `Pipe`, refining `Channel`, and its proofs: pipes and file descriptors over
   page reference counts (done).
5. `Fork`, refining `Memories`: copy-on-write over the page-fault upcall, and
   spawn; its proofs (done).
6. `FileSys`, refining `Files`: bitmap, files, the directory, the block cache and
   the order of its writes; its proofs, the cache and the disk (done).
7. `FileServer`, refining `OpenFiles`: the open-file table, its clients, and their
   IPC; its proofs (done).
8. Proofs about `PhysMem`, and that `PhysMem`, `Pipe`, `Fork`, `FileServer` and
   `FileSys` implement their abstract specifications (done).
9. Open: TLBs composed with `PhysMem` (`Fork` has what programs can notice of them).

## 3. Modules

| Module | Models |
|---|---|
| `EnvTable` | `envs[]`, free list, ids, `env_alloc`, `env_free`, `envid2env` |
| `JosKernel` | all CPUs from power-up on: boot, lock, scheduler, traps, system calls on environments (EXTENDS `EnvTable`) |
| `EnvTableProofs`, `JosKernelProofs` | the inductive invariant and the theorems |
| `AddrSpaces` | abstract: what the memory calls promise to programs |
| `PhysMem` | detailed: free list, counts, two-level tables inside the pages |
| `PhysMemProofs` | the invariant of `PhysMem`, the theorems, and that it implements `AddrSpaces` |
| `Channel` | abstract: a bounded queue of bytes whose ends are held or not |
| `Pipe` | detailed: descriptor and pipe pages, `dup`, `close`, the byte loops, the reference counts |
| `PipeProofs` | the invariants of `Pipe`, the theorems, and that it implements `Channel` |
| `Files` | abstract: named strings of bytes |
| `FileSys` | detailed: block cache and disk, bitmap, direct and indirect blocks, the root directory, the calls of the server |
| `FileSysProofs` | the invariant of cache and disk of `FileSys`, the theorems, and that it implements `Files` |
| `Memories` | abstract: a memory of its own for every program |
| `Fork` | detailed: page tables, `fork`, `duppage`, the page-fault upcall, `spawn`, one system call a step |
| `ForkProofs` | the invariants of `Fork`, the theorems, and that it implements `Memories` |
| `OpenFiles` | abstract: open files with their offsets, and calls that act once |
| `FileServer` | detailed: `opentab`, the pages of `struct Fd` and their counts, requests and answers, programs that fork and die |
| `FileServerProofs` | the invariants of `FileServer`, the theorems, and that it implements `OpenFiles` |
| `Induction` | induction and recursion over numbers as facts about sets, which a proof can cite |
| `MCJosKernel`, `MCPhysMem`, `MCPipe`, `MCFileSys`, `MCFork`, `MCFileServer` | instances for TLC |

Correspondence. In `JosKernel` the program counter `pc[c]` names the places where
another CPU can see CPU `c`: the spinning states `i386_init`, `mp_lock`,
`trap_lock`, `woken_lock`; the places under the lock, `enter` (zombie test of
`trap`), `dispatch`, `ret` (end of `trap`), `sched`; and `iret`, `user`,
`halted`. Each action is a whole handler from one such place to the next.
`curenv`, `cr3` and `cpuStatus` are the per-CPU fields, `NoEnv` is NULL, `Kern`
is `kern_pgdir`. An `envid_t` is a pair of generation and slot; the sign test of
`env_alloc` is the wrap from `MaxGen` to 1. `envid2env` returns a set of at most
one slot. A call that fails changes nothing and is `NoEffect`.

`PhysMem` writes each function of `pmap.c` as an operator from memory to memory
and each system call as the composition the code makes of them, so that a call
that fails half-way leaves what the code leaves. Page tables are contents of
pages: a page table that is written as data, or data that is walked as a table,
shows. `UserWrite` is the store of a program where the MMU admits it.

In `Pipe` a system call, or a load or store of shared memory, is one step;
`frame[e]` holds the locals of the call environment `e` is in. `fd[e][k]` and
`data[e]` are its mappings of descriptor number `k`, and a reference count is the
number of such mappings. `on` is who has a CPU. `env_runs` is not counted:
`frame[e].fresh` says whether it still has the value read into `n`, which a
dispatch ends. An environment is destroyed while it runs itself, or by a call
of a running one that is in none of these library calls. `rpos` and `wpos` are
unbounded (the code's are 32 bits wide). One environment reads and one writes,
all of them dup and close. `Spec` lets nobody fork while the pipe is in use;
`ForkSpec` does.

`FileSys` writes each function of `fs.c` as an operator on a call under way: the
cache, the disk, the list of writes so far, and whether the call has failed. The
server takes one request at a time, so that a call changes the cache in one step;
`WriteBack` then takes its writes to the disk one by one, and the next call waits
for them. The states in between are what a machine that stops there leaves. A
block holds a record of the kind its last writer put there; `FilesIn`, `PtrsIn`
and `BytesIn` say what it reads as, for the right reader and for the wrong one.
`up` is FALSE after a panic: a full disk is one, since `alloc_block`'s
`-E_NO_DISK` is compared as unsigned (`fs/fs.c:173`, `fs/fs.c:217`; the comment at
`fs/fs.c:143` promises the error). `synced`, `flushing` and `stale` are history.

In `Fork` every program may be on a CPU of its own and a step is one system call,
or the user code between two. `call[e]` is the place in `fork` or `spawn` with
their locals, `fault[e]` the place in the page-fault handler, which may come
between any two steps since the program stands on one of the pages it edits. A
call that takes memory may fail at any time. `pt[e]` is the page table, with one
page each for the data, the stack, a descriptor (`PTE_SHARE`), `UTEMP`, `PFTEMP`
and the exception stack, in the order the loop of `fork` meets them. Which page a
program gets is of no consequence, so a page is named by the number of the first
entry that maps it, and `Remap` renames after each change. The return from the
upcall pushes to the stack it interrupted; when that faults it is here a second
fault, after the first. `stale[e]` holds the addresses where `e` lost a writable
entry that was not flushed. After a panic (`Stopped`) the monitor keeps the lock.

In `FileServer` a program builds its request and sends it in one step (`Call`),
because `ipc_send` tries until the server is in `ipc_recv` and nobody else changes
the request meanwhile; `IpcRecv`, and the unmapping that ends a close, are steps of
their own. `Destroy` may come anywhere. The server's steps are `Scan` (one entry of
`openfile_alloc`), `ServeOpen`, `ServeInvalid`, `Serve` with the file, `Move` of the
offset, which lies on a page programs write as well, and `Reply`. `Refs` is
`pageref`: one for the server and one for each descriptor that has the page. A
file is its size here; a new one has any size up to `Capacity`, which is the
finding of `fs_create`. `srv.up` is FALSE after a panic of the server: when it
answers a program that is gone (`serve` calls `ipc_send`), when the answer finds no
memory for a page table, and on a full disk. `OpenFiles` has a call asked, moving
and done, and `orphans`: calls whose caller died, which may still act.

## 4. Runs

| Run | Question | Bounds |
|---|---|---|
| `kern` | all safety properties of the kernel | 3 CPUs, 3 slots, ids that wrap at once (`MaxGen = 1`): every reuse of a slot is also a reuse of its id. Three CPUs let one CPU act between two others; three slots let the search skip one |
| `sched` | no starvation, zombies collected | 2 CPUs, 3 slots, each slot allocated once (`NoReuse`) |
| `pmap` | counts, free list, private tables, refinement of `AddrSpaces` | 5 pages, 2 environments, 2-entry tables: two directories and a table leave two pages, so every call can run out of memory at every allocation |
| `pipe` | no false end of file, descriptors backed, refinement of `Channel`; waiting reads and writes return when the other end is gone | 2 environments, 1 CPU, 2 descriptor numbers (a closed one is free for a dup), 2-byte buffer, 3 bytes: the buffer is filled and both positions wrap |
| `pipe_eof` | end of file over unread bytes: violation | as `pipe` |
| `pipe_fork` | a fork in progress makes the pipe look closed: violation | 3 environments, one of them the child |
| `reuse_starvation` | starvation when slots are reused for ever: violation | 1 CPU, 3 slots |
| `fs` | bitmap and pointers, the disk between any two writes, durability, refinement of `Files` | 2 files, 6 blocks, 1 direct and 2 indirect pointers, 1-byte blocks: two blocks are left for data and indirect blocks, so every allocation can fail, blocks change hands and both files compete for them; calls write one 1, so that a byte is new or what the disk held |
| `fs_bytes` | calls that begin and end inside a block | 1 file, 2-byte blocks, up to 3 bytes at a time: a write covers parts of two blocks; sizes reach past the capacity |
| `fork` | separate memories, every store succeeds, faults are resolved, TLBs, refinement of `Memories` | 2 slots, 1 value to store: a child forks and spawns in its turn once its parent is gone, and finds what the parent's failures left |
| `serv` | no entry given away, no call lost, doubled or done to another's file, refinement of `OpenFiles` | 2 programs with 2 descriptors each, 1 file, 2 entries whose numbers wrap at the second turn (`Generations = 2`), 1 byte of room, seeks to 0, three ways to open: entries run out, change hands, and are inherited |
| `fs_create` | a new file that is not empty, with pointers that were another file's bytes: violation | directory blocks of one entry (the code's have 16), so that the second file makes the directory grow; stale bytes (`Stale`) name the last block of the disk |

`Spec` of `JosKernel` keeps two calls to the discipline of the programs of `lib/`
and `user/`: `sys_env_set_status` is called on oneself or on a child that has not
run, and a child is destroyed once. Nothing in the kernel enforces it: `RawSpec`
drops it, and no property is claimed for it.

Fairness (`LiveSpec`): a CPU that is not waiting goes on executing; in user mode
or halted it traps, since `lapic_init` sets a periodic timer; among its traps the
timer comes again and again (strong fairness of `Yield`). The lock is a bare
`xchg` loop: some spinning CPU gets a free lock, no particular one, so
`ZombieCollected` is stated for executions in which no CPU spins for ever.

Fairness of `pipe`: every environment is dispatched again and again (what
`sched` shows of the scheduler), and one that is gets library steps done (strong
fairness, as it loses the CPU in between). `LongSlice`, the premise of
`ReleasedInTime`, says that a time slice is longer than the few loads of
`_pipeisclosed`; without it a timer that always strikes there would make the loop
start over for ever. `Released` also supposes that
the other environments are not in the middle of `dup` and `close` for ever, as
every such moment makes the counts differ.

With `NCPU = 2` `NoFalseEof` fails as well, by the very interleaving
`user/testpiperace2.c` describes: `env_runs` does not notice what another CPU does.

The runs of `FileSys`, `fork` and `serv` do not check deadlock: after a panic
nothing is left to do; nor do those of `Pipe`, where all may have exited.
`serv` has no liveness of its own, for the server waits for one thing only, that
the program it answers calls `sys_ipc_recv`; `Attended` says that it is this one
the server works for. Which of several programs gets its request in first is left
to chance, as in the code: `ipc_send` just tries again.
In `fs` the names are symmetric, in `serv` the programs: no action and no property
tells them apart.

`DiskSound` has one exception, the entries in `stale`. Truncation clears entries of
an indirect block in the cache only; if the file is then extended, its size reaches
the disk before the indirect block does, and the entries that count again on the
disk name blocks that are free or another file's. They stay in `stale` until their
indirect block is written. To except an entry for as long as cache and disk differ
in its block is not enough, although no small instance shows it: with a fifth block
for data the cache can give the entry the very block it had, and the two agree
again while the bitmap on the disk still has the block free. The proof showed it.

The mutants in the modules ("The bug ...") each change one definition as a
plausible mistake in the code would; every property of a passing run is violated
by one of them.

## 5. Proofs

`JosKernelProofs` proves, for any number of CPUs, slots and generations, that
`IInv` is an invariant of `Spec`, and from it the properties of the `kern` run.
Assumed: at least one CPU, two slots, one generation.

None of the properties is inductive alone. That a CPU executes a live environment
needs to know that no other CPU has it as `curenv` (`NeverOnTwoCpus`), which needs
that the scheduler only picks RUNNABLE slots and that a RUNNABLE slot is nobody's
`curenv` outside the lock (`CurenvInv`, by location); the lock discipline needs
that a halted CPU carries the mark (`HaltInv`); that a child whose status its
parent sets is on no CPU needs `FreshInv`; the boot stacks need the hand-shake
(`BootInv`). `IInv` is the conjunction; there is one lemma per action, over frame
lemmas for the steps that move only `pc`, only the boot state, or one status.

`PhysMemProofs` follows the functions of `pmap.c` through a system call. Inside one
the counts are not exact: a page that was allocated has no reference yet, and
`page_insert` counts its page once more before it takes away what was mapped
there. `Good(m, D, a, k)` says what holds of any memory `m` with page directories
`D` then: counts and free list are exact but for the page `a` in hand, which nothing
refers to, and the page `k`, counted once too often; and a page directory or table
has one owner and is in nobody's memory, without which a store through one mapping
could change another. Each function has a lemma that says how it moves the page in
hand, the loops of `env_free` are an induction over the entries it has passed
(`Induction`), and a system call begins and ends with no page in hand:
`IInv` is `Good` of the state. It yields `RefExact`, `FreeListExact`,
`TablesPrivate` and `TypeOK`. What it needs is room in `pp_ref`, 16 bits in the code,
and nothing in the code keeps a page from being mapped 2^16 times: the theorems are
about executions in which no page has `RefMod` references at once (`NoWrap`). Where
it has, the hazard at `kern/pmap.c:415` is met.
`ImplementsAddrSpaces` follows what each function shows of the address spaces:
one entry changes, or none; data changes through a writable mapping only. Assumed:
finitely many pages and environments; a count that can tell 0 from 1.

`PipeProofs` proves three properties of `Pipe` for any number of environments,
descriptors and bytes. `Struct` is what a call knows about the descriptors it works
on, and gives `FdBacked` on any number of CPUs. On it rests the comparison itself
(`EqualCounts`): the descriptor pages of one end are among the pages with a pipe
page behind them, so if they are as many, they are all, and nobody holds the other
end. With one CPU the counts in a fresh snapshot are those of now (`SnapInv`): the
only step another environment could take is one that follows a dispatch, which
ends freshness. `NoFalseEofSafe` combines the two, with `NoRevival`: an end that
nobody holds stays so. `PosInv` gives the bounds of `PipeTypeOK`.
`ImplementsChannel` adds what the buffer holds (`ByteInv`): each byte between the
two positions is the one written, as positions less than the buffer apart have
places of their own; the byte a writer is about to count is in its place before it
is counted, and a reader has taken at most one that is not counted yet. It is for
one CPU, as the ends the channel promises are.

`ForkProofs` proves the properties of `Fork` for any number of programs, in three
parts. The first is about what may be stored to, and its invariant (`IInv`) speaks of
permissions only and is blind to how pages are named. `Sound(e)` holds for a program
that runs: each page of its own is writable, or copy-on-write with the upcall and a
writable exception stack in place, or just being replaced by the handler. It is not
inductive alone, since a child becomes a running program with whatever it has been
given: `Made(e, c)` says, for each place of `fork` and `spawn`, what the child has
so far, that it does not run, and that nobody else makes it. `TlbCurrent` is part
of the invariant as well: the entries a program loses are its own doing, or those
of a child that does not run. `StoresSucceed` and `FaultResolved` follow.

The second part is about pages (`JInv`), and yields `Isolated`. Whoever can store to
a page has it alone (`Apart`), but where both entries are `PTE_SHARE` or the page is
being handed over (`Hand`: by `duppage` to the child, by `pgfault` from `PFTEMP`, by
`spawn` from `UTEMP`). Each exception ends with the step that takes the first entry
away, because `TempInv` knows which entry that is: something is mapped at `PFTEMP`
in the handler only, the page being filled is the caller's own, and `duppage`'s
permissions are still those of the page. The frame lemmas say which entries share a
page after `Remap` has renamed them: those that did before, but for the one changed.

The third part is about what pages hold (`KInv`), and yields `ImplementsMemories`.
What the child has been given so far is what the parent reads now, although the
parent, which stands on one of these pages, may fault and copy in between: the
pages are copy-on-write for both by then, so that it is the parent that moves. In
the handler the page at `PFTEMP` holds what the address held when it is unmapped.
Only descriptors are `PTE_SHARE`, the child's is the parent's, and every program has
one. All steps of `fork`, `spawn` and the handler before the child starts are seen
by nobody; then the child appears with its parent's memory, or its own file's.

`FileServerProofs` proves three invariants of `FileServer` for any number of
programs, descriptors, entries and generations. `EntryHeld` rests on the reference
counts: a count of one or less means that nobody has the page (`FreeLemma`, where
the finiteness of the programs is needed), one of two or more that somebody has
(`LookupLemma`). It needs to know that an entry the server has claimed stays
nobody's until the answer, and that the one it is about to hand out has a file:
`ServerInv`, by the place of the server. `TypeOK` includes that `o_fileid % MAXOPEN`
leads to the entry however often the numbers have wrapped (`NextIdLemma`), and the
bounds of offsets and sizes, to which a seek that comes between a read and the
addition of what it has read contributes. Assumed: `None` and `Absent` are told
from the values they stand beside, counts are positive, programs are finite.

`ImplementsOpenFiles` needs one more invariant (`ViewInv`): while the server works for
a program that lives, the descriptor of the call stays as it was at the call, so that
the number in the request leads to the open file the program asked about
(`WorkingLemma`); such a flush succeeds, and an entry that is claimed has been
cleared. Programs see an entry as an open file as long as somebody has its page or is
about to get it (`UsedLemma`), which is why clearing a page in `openfile_alloc` is
seen by nobody. There is one lemma per action, for a program and for an orphan: a call
whose caller dies becomes an orphan and acts as the server goes on with it, or lapses
where `openfile_lookup` no longer finds the entry or nobody has it when the offset
moves.

`FileSysProofs` proves `TypeOK`, `BitmapExact`, `DiskSound` and `Durable` for any number
of blocks, pointers, entries and names; all but `TypeOK` under a condition, below.
Of the cache the invariant is `Whole`. `BitmapExact` is not inductive alone: for `file_truncate_blocks` to free a block once, nothing else may
point to it (`Owned`), an indirect block must hold pointers and not data that read as
pointers (`Indirects`), and nothing a file has may lie behind its end, where
truncation does not look (`Ends`).

None of this survives one thing that the code does. `dir_alloc_file` does not clear
the block it appends to the directory, and `file_create` fills in the name only
(`fs/fs.c:283-284`, `:373`). When the block had another file's bytes, they are read
as `File`s: as whatever the constant `JunkFiles` says, any names, sizes and pointers,
the same for every block. (Left out are pointers past the disk, where `diskaddr`
panics.) A file made there follows these pointers and truncation frees what they
name. With directory blocks of one entry (`FsCreate.cfg`), each of `BitmapExact`,
`DiskSound`, `Durable`, `CreatedEmpty` and `FilesSpec` then fails; the run `fs_create`
shows it of `CreatedEmpty`. So the theorems about them say what holds of behaviours
with `CleanGrowth`: each block that the directory grows by is zero, as one that no
file has had is. That is a condition on what happens and not on the constants: the
directory may have as many blocks as a file can, and every other block may be used
again by any file. `FileSysTypeOK` alone needs no condition. What the invariant
takes from `CleanGrowth` is that only directory blocks hold `File`s (`Kinds`) and that
an entry without a name has no pointers (`Blank`).

While a function is between `alloc_block` and the pointer to it, the block is in hand:
`Good(m, n, x)` is the invariant of a memory `m` whose directory has `n` blocks while
the blocks `x` are in hand, and each function of `fs.c` has a lemma that says how it
moves them; a loop over the blocks of a file is a recursive function that stays among
the good memories (`StaysLemma`). The directory cannot grow past the capacity of a
file, because each of its blocks has the entry of a name (`Listed`, `RoomLemma`): the
assumption is that there are at most so many names, and they are finitely many. A call
that fails, on a full disk or past the capacity, leaves the invariant as well.

Of the disk the invariant is about the writes a call has still to do: it must pass,
write by write, through disks with what is due (`Trail`, `Due`), and end in one
that is as the next call has to find it (`Settled`). Due is that the disk is clear of
blocks shown twice or free (`Clear`, which is `DiskSound`) and has the files of
`synced` (`Kept`). A disk is as a call has to find it when the pointers it shows are
those of the cache or 0, but for stale ones (`Behind`), when it has no block free
that the cache has in use (`Marked`, what the flush in `alloc_block` is for), and when
the root directory on it is the one of the cache. `Behind` and `Marked` imply `Clear`
(`ClearLemma`), so that each function of `fs.c` needs one lemma for what it does to
them, at each of its writes, while the cache moves on as well. `Durable` follows from what a call leaves alone: for a file it was
not asked about the File, the pointers and the blocks stay (`Agrees`), in the cache and on the
disk, although a write of its directory block carries the Files of its neighbours
along, whose pointers the disk then shows for the first time. For the file that is
flushed the writes put its blocks, its File and its indirect block on the disk, and
in a cache that a call no longer changes they stay so.

That `FileSys` implements `Files` is proved from the same lemmas, asked for the bytes
as well: each function of `fs.c` `Alters` one file at most, and leaves the Files,
pointers and data blocks of the others, which read the same afterwards because no
block has two owners (`OthersSame`). What the call does to its own file is one
lemma per call: truncation keeps the bytes before the new end, extension reads as
zero or what the disk held, a write puts its byte wherever the file can have a
block (`Puts`), and a call that the full disk ends in a panic changes nothing, as the
cache is lost. One promise
needs more than the invariant: that a file just created is empty. An entry
without a name has size 0 (`Fresh`), because no call takes a name away from an entry
and `CleanGrowth` lets none appear that is not blank: hence `CreatedEmptyTheorem`, and
with it `ImplementsFiles`. The directory of the runs `fs` and `fs_bytes` never
has a second block; those of `fs_create` do.

Only model-checked: liveness, which is out of the prover's reach with its fairness.

## 6. Not modelled

- Trap frames, register contents, `load_icode`, the exception-stack frame; the
  keyboard and serial lines, for which `trap_init` sets no gate (`kern/trap.c:119`).
- TLBs, but for the entries a program may still hold after it lost them
  (`TlbCurrent`).
- Counters at their width: a reference count that wraps at 2^16
  (`kern/pmap.c:415`), pipe positions past 2^31 (`lib/pipe.c:133`).
- Devices, with their interrupts and errors; a write of a block that stops
  half-way; the console ring.
- IPC in general: a message of a third program to one that waits for the server's
  answer (`fsipc` accepts any sender), an `env_ipc_perm` left from an earlier
  message (`kern/syscall.c:420`), a sender that never finds its receiver waiting.
- In the file server: `sync` (it is in `FileSys`), access modes, requests without
  a page. In `spawn`: the file's headers and the child's registers.
- What the inventory excludes. `lab2` to `lab4` hold earlier states of the files
  that are modelled here, and a large part of the repository is generated tables
  (`entrypgdir.c`), library code and demonstrations; the models stand for the
  parts of `lab5/lab` that keep state.
