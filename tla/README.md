# Verification of xv6-Loongson3A

TLA+ models of the kernel under `src/`: memory management, scheduling, traps and
task switches, the loader, and the data structures and library they rest on;
with the TLC runs that check them on small instances, and proofs that TLAPS
checks for every instance.  `PROJECT.json` is the index: components, runs,
mutants, the source lines behind each definition, findings, hazards, theorems.

To repeat a check: `tlc -config MCKernel.cfg MCKernel`; to repeat the proofs of a
component: `tlapm SchedProofs.tla`, and so on for each `*Proofs` module.

## The system

A small kernel for one MIPS64 machine (Loongson 3A).  It boots, builds its
physical page allocator, `kmalloc`, page tables and virtual memory areas, loads
an embedded ELF image as `init`, enables interrupts and switches tasks at every
clock tick.  The configuration allows several processors (`NR_CPUS`, a run
queue each), but no code starts a second core.  The kernel is not preemptible:
interrupts are off inside every handler, system call and boot step.

| part | state | operations | uses |
|---|---|---|---|
| page allocator (`kern/mm/pgalloc.c`) | `page_array`, the sorted free list, `nr_free_pages`, rings of allocated pages | `alloc_pages`, `alloc_cont_pages`, `free_pages`, `free_all_pages` | `ds/list.h` |
| slab, `kmalloc` (`kern/mm/slab.c`, `kmalloc.c`) | a cache per size with `avail` and `full` queues of slabs, a chain of free chunks in each slab | `kmalloc`, `kfree` | page allocator |
| page table (`arch/mips/mm/hier/`) | three levels of directories, an entry count per directory | insert, replace, remove, create, destroy | page allocator, TLB |
| virtual memory areas (`kern/mm/vm.c`) | a sorted list of areas per mm and the area last found | `mm_new`, `mm_destroy`, `mm_create_uvm`, `unmap_pages`, `mm_destroy_uvm` | `kmalloc`, page allocator, page table |
| TLB and ASIDs (`tlbops.c`, `hier/pgfault.c`, `hier/tlbex.S`) | TLB, `next_asid`, `online_hpt`, `online_tasks`, `task->asid`, the saved EntryHi | refill, TLB fault, `asid_flush`, `tlb_remove` | page table, trap frames |
| scheduler (`kern/sched/o1.c`, `sched.c`) | two lists and a `payload` per run queue, `se.rq`, `se.slice`, `current_task` | enqueue, dequeue, pick, tick, `sched` | clock |
| task list (`kern/sched/tasklist.c`) | process tree, thread lists, hash of pids | add and remove a process or a thread | |
| task creation (`kern/sched/task.c`) | a task, its kernel stack, its mm | `task_new`, `set_task_ustack`, `initproc_init` | areas, page table, scheduler |
| traps (`arch/mips/traps.c`, `except.S`, `stackframe.h`, `switch.S`) | trap frames and contexts on kernel stacks, `kernelsp` | enter, dispatch, return, `switch_context`, branch emulation | clock, TLB |
| clock (`arch/mips/clock.c`) | COUNT, COMPARE | re-arm, tick | scheduler |
| execve (`kern/syscall/execve.c`) | the segments of an image | load, roll back | areas |
| library (`lib/libc`, `lib/rbtree.c`) | none of its own; the tree's nodes | `vsnprintf`, `strtoul`, `strlcpy`, ...; insert, erase, replace, walk | |

What is hard here is seldom concurrency: it is long sequences of legal calls
(partial frees that cut lists apart, chains of free chunks in any order of
frees, splits of areas), memory that runs out in the middle of an operation,
values that outlive their meaning (page types, the cached area, saved ASIDs)
and loops that end only if the data is as expected.  The properties that make
each part correct:

- page allocator: every page is in exactly one list, the free list is sorted
  and complete, every block knows its first page and its length, calls return;
- slab: a chunk is handed out once, queues agree with the fill of the slabs,
  no page leaks, `kfree` finds the right allocator;
- page table: a map from addresses to pages; counts exact, no page leaks;
- areas: sorted, disjoint, and equal to what is mapped; a cached area exists;
- TLB: no translation survives the mapping it came from, or the task it
  belongs to; no two entries for one page;
- scheduler: no task is lost, queued twice or starved;
- traps and switches: a task goes on with its own registers and stack; an
  emulated branch goes where the processor would have gone; the timer never
  falls silent;
- loader: a program finds its segments, stack and arguments, one that cannot be
  loaded leaves nothing;
- process tree: the ring a process points to is its children, all of them;
- library: results agree with a reference definition, buffers are not exceeded,
  the tree stays balanced, ordered and correctly augmented.

## Modules

| module | models |
|---|---|
| `DList` | the doubly linked rings of `include/ds/list.h` as functions on next and prev |
| `PageAlloc` | the page allocator, one step per loop iteration, on page structures and rings |
| `PageSets` | abstract: a set of free pages and a set of blocks |
| `PageAllocImpl` | `PageAlloc` implements `PageSets` |
| `Slab` | `kmalloc`, `kfree` and the slab allocator on the behaviour of `PageSets` |
| `Sched` | run queues, `sched`, `switch_task`, the tick |
| `PageTable` | the three-level table on the behaviour of `PageSets` |
| `PageMap` | abstract: the PGD in use and a map from addresses to pages; `PageTable` implements it |
| `VmArea` | areas on the behaviour of `PageMap`, `PageSets` and `kmalloc` |
| `Exec` | the ELF loader, the user stack and arguments, `write`; extends `VmArea` and interleaves with nothing: an mm is used either by any caller or by the loader |
| `Trap` | traps, trap frames, task switches, ASIDs and the TLB |
| `Branch` | `skip_victim` and `branch_target`, against the architecture's definition |
| `Clock` | `handle_clock` with Count and Compare |
| `TaskList` | the process tree of `tasklist.c` |
| `RbTree` | `lib/rbtree.c`, with augmented values |
| `Buffers` | `strlcpy`, `strlcat`, `memcpy` |
| `Libc` | `vsnprintf`, `strtoul`, `parse_env`; extends `Buffers` |
| `PageAllocProofs`, `SlabProofs`, `SchedProofs`, `PageTableProofs`, `VmAreaProofs`, `ExecProofs`, `TrapProofs` | theorems, each about the module it is named after; `PageAllocProofs` also about `PageAllocImpl` |
| `LibProofs` | theorems about `Clock`, `Branch`, `Buffers` and `TaskList` |
| `MCPageAlloc`, `MCPageTable`, `MCSched`, `MCTrap`, `MCExec` | values of constants for TLC |
| `MCKernel` | chooses one of `Sched`, `Trap`, `Slab`, `RbTree`, `TaskList`, `Branch`, `Clock`, `Libc`, which share no state |

How they correspond to the code:

- **`PageAlloc`.**  A page is its index in `page_array`.  `nxt`, `prv`,
  `reserved`, `type`, `first_page_of` and `page_count_of` are the fields of
  `struct page`; `pc` is the loop a call is in; `num`, `i`, `p`, ... are the
  locals.  The callers hold any allocated list, may set its type as the slab
  allocator does (only on the pages in `Typed`, a bound), and free any section
  or all of it.  `size_t` is `0..SizeMax`, so that `--i` on 0 wraps as in the
  code.  `"panic"` is a failed assert; `"wild"` a call about to use the list
  head as a page, where the model stops.
- **`Sched`.**  `head[0]` and `head[1]` of a run queue are sequences, `run` is
  the index that is swapped at a pick.  Tasks start as `task_init_sched` starts
  `init`; the repository itself creates only IDLE and `init`, further tasks are
  what its `fork` would add.  The asserts on `se.rq` are guards, so a false one
  is a deadlock, and TLC checks for deadlock.  `switch_context` is the change of
  `current_task`.
- **`Slab`.**  A call is one step.  `chunk` holds the first word of each chunk,
  which is the link of the free chain; a caller writes `InUse` over it.
  `kmalloc_large` takes any run of free pages, which is what `PageSets` promises
  of `alloc_cont_pages`; a request that no run can serve is not made, since that
  call would not return (finding 1).
- **`PageTable`.**  A call is one step, computed through records for the states
  inside it.  An address is the triple of its indices.  Directories and mapped
  pages come from the same memory, the lowest free page first, as the sorted
  free list gives them; so an insertion may fail at each level.
  `arch_mm_new_pgtable` may be called for an mm that has a table, as
  `task_setup_mm` (`kern/sched/task.c:52`) does after `mm_new`: the PGD is
  replaced and the old one leaks.  `lost` records directories that a call has
  unlinked while they were in use, this PGD and the PMD of finding 2.
- **`VmArea`.**  A call is one step.  An area is a structure named by an `Id`
  that can be handed out again, so a stale pointer would be seen.  `page_perm`
  turns the flags of an area into the bits of the page table.  `Fail` says
  where memory may run out: for the area in `map_pages`, for a directory in
  `arch_map_page`, for the head or tail in `unmap_pages`.  Addresses are grouped
  by page table (`PtPages`) and PMD (`PmdPages`), and a mapping that gets no page
  table takes with it all that is mapped below the PMD, of whichever area
  (finding 2).  Its own area is then freed and stays in the list (`stale`), with
  its start overwritten by `kfree`: by 0, by an address inside a page (`"odd"`),
  or by one above its end (`"invalid"`).  What a search that comes to this area
  does is modelled as well: an assert fails (`status = "assert"`), or the area is
  unlinked and freed a second time with all pages below its end (`"twice"`).
  Callers ask for vacant addresses: the assert against overlap at
  `kern/mm/vm.c:114` is in the body of a loop that only visits areas that end
  before the new one, so nothing enforces it.  They unmap within an area, or over
  two neighbours leaving something of both: taken to the very edge, the code
  leaves an area without pages in the list.  `Walks` lifts these restrictions.
  `bare`, `dropped` and `gone` are history variables: addresses mapped without
  an area, addresses in areas that the failure of another mapping unmapped, and
  pages that nothing refers to any more.
- **`Exec`.**  One step per call of `VmArea` and per copy; `phase` is the place
  in `task_load_elf_kmem`, `task_load_segs_kmem`, `set_task_ustack` and
  `set_task_argv`.  Addresses count 8-byte words.  `word` is the contents of
  the physical pages, each word named by where it came from (the file or an
  argument, and the position in it), so that a later copy over an earlier one is
  seen.  The rollback goes on after any failure, also over the freed area that a
  failed mapping has left (finding 7).  A page holds the stack and a `BUFSIZ`
  above it (with the 16K pages of the configuration there is room for more), an
  executable has a program header, and a string takes a word at least.  Headers
  have a `p_offset`, and as in the code it is not used: every segment is filled
  from the beginning of the file (finding 8).  `elf_to_vmaflags` and `page_perm`
  convert the flags, and no page is ever executable by them.  `do_write` reads `BUFSIZ` whatever the length.
- **`Trap`.**  `cpu` is the processor's state, with the registers in the classes
  that `SAVE_SOME`, `SAVE_AT`, ... save; `mem` is what lies on the kernel stacks,
  by address, so that a frame in the wrong place overwrites another one.  Inside
  a handler interrupts are off, so entering with the handler is one step and
  returning another; in between `sched` may switch to any task (module `Sched`
  tells which).  A program may read and write any address, execute a `break` with
  any kind of code, and raise the exceptions for which `handle_exception` has no
  case of its own; an interrupt may come from a line without a handler.  All that
  ends in `panic` is an action, and `bad` is what it was about: the task, the
  address and the cause.  `Writable` are the pages of `Maps` with `PTE_DIRTY`.
  The machine first runs the page-table tests of
  `kern/mm/test.c`, whose entries stay in the TLB.  A TLB entry holds a pair of
  pages; the refill chooses any index; a probe that misses leaves any index,
  which `tlb_remove` then uses.  The architecture's part (match, refill, probe)
  is modelled by how the code uses it.
- **`Branch`.**  An instruction is a record of its fields; registers and
  addresses have `W` bits.  `Goes`, `Target` and `ProcessorLink` are the
  reference: signed registers, region of the delay slot, a link whether or not a
  linking branch is taken.  `Misjudged` are the tests of a sign, on a register
  with the sign bit (finding 5).  Inputs are all jumps and branches, all
  offsets, addresses next to the ends of a region and of the address space (the
  last word of a region, where the code takes the region of the jump and the
  processor that of the delay slot, is left out).
- **`Clock`.**  Count goes on at any moment, also between the write of Compare
  and the check, and the interrupt may be taken arbitrarily late.
- **`TaskList`.**  `sib` is `proc_sib.next`; the loops are run with the counters
  they change, as the code does.  `num_sibling` does not tell the number of
  siblings: for the second child of a process with one child, the loop of
  `add_process` raises its own bound at every turn and goes on until the `int`
  index overflows; the model stops there (`listState = "loops"`).
  Rings of several children come about only when `init` takes over orphans.  The counters
  are unsigned and wrap around at `UintSize`; as a loop changes its own bound,
  `Count` looks for its last turn, among twice as many as the counters at the
  call (`MaxCount`), which is enough on a ring of two or more.
- **`RbTree`.**  The mirrored cases of the code are one, with the side as a
  parameter; two nodes per key make replacement visible.
- **`Buffers`.**  Each turn of a loop is a step; the destination is memory that
  goes on behind its size, `dpos`, `spos` and `left` are the pointers and the
  counter.  `memcpy` is given any alignment of both addresses; what it copies is
  left out, only where is kept.
- **`Libc`.**  A character is its value as a digit.  As in the code, a width is
  the exact number of digits (it cuts high digits off), blanks are never used
  for padding, an unknown conversion does not reset the width, and the result is
  `size` already when text and NUL just fit.

## Runs

| run | instance | distinct states | shows |
|---|---|---|---|
| `pagealloc` | 5 pages, 1 of them for `page_array`; types on pages 2 and 4 | 514,581 | rings closed at every iteration (`Linked`), free list sorted, complete and counted (`FreeListExact`), blocks exact between calls (`BlocksExact`), no assert fails (`NoPanic`), calls return (`CallsReturn`), `PageSets` implemented (`Implements`) |
| `pagecont_hang` | 4 pages | violation | finding 1 |
| `pagetable` | 6 pages, 2 of them held by callers, 4 addresses | 269,378 | `EntriesExact`, `TreeExact`, `NoDangling`, and `PageMap` implemented |
| `pagetable_drop` | 5 pages | violation | finding 2 |
| `exec` | 5 virtual pages, 4 pages of 8 words, 3 structures, every failure; 9 programs, 4 argument lists | 252,769 | for any caller of an mm, and for the loader: `AreasOrdered`, `MapsMatchAreas`, `CacheLinked`, `PagesExact`; for the loader: `RollbackExact`, `StackIsolated`, `ArgvExact`, `LoadedExact` |
| `vmarea_walk` | 6 virtual pages, 4 pages | violation | finding 3 |
| `exec_assert`, `exec_offset` | as `exec` | violations | findings 7 and 8 |
| `kernel` | one part at a time, see below | 262,542 | |
| - scheduler | IDLE, init, 3 more tasks, 2 processors | | `OnePlace`, `PayloadExact`, `OnlyBootQueues`, and `NoStarvation` |
| - traps | 2 user tasks and IDLE, 4 virtual pages, 2 TLB entries, 3 ASIDs | | `ResumeExact`, `OwnPages`, `NoDuplicates`, `PanicOnlyOnFault` |
| - slab | 3 pages, requests of 4000, 8192, 9000 and 20000 bytes, 6 held at once | | `ChainExact`, `QueuesExact`, `OwnedExact`, `NoLeak`, `NoHalt` for any order of `kmalloc` and `kfree` |
| - library, kin, branches, clock | 7 keys; 6 processes; 6-bit registers, counters and numbers; strings up to 3 characters | | `RbBalanced`, `RbOrdered`, `RbAugmented`; `KinExact`; `BranchExact`; `ClockAlive`; `NumbersExact`, `BuffersExact` |
| `tlb_stale` | the traps with 1 ASID | violation | finding 4 |
| `branch_sign` | the branches | violation | finding 5 |
| `sched_minload` | the scheduler | violation | finding 6 |

`MCKernel` starts with the choice of a part; the variables of the others keep
their initial value, so the parts add to the states and do not multiply them, and
the invariants of the others are evaluated in that one state.

Every property of a passing run has a mutant in `PROJECT.json`: a change of one
definition, as a plausible bug would make it, under which TLC finds the property
violated.

### Bounds and why they are enough

- `pagealloc`: a block of four pages can lose a section at its start, in its
  middle, at its end, or all of it, so all three sections of `free_pages` occur,
  empty and not; free pages can lie before, between and after a block.
  `SizeMax` is larger than any counter but small enough for `--i` to wrap.
- slab: caches of two and of four chunks per page reach a slab that is empty,
  partly used and full; two caches compete for pages and for `last_accessed`;
  large chunks of one and of two pages reuse former slabs.  Six allocations fill
  one slab and part of a second one, so queues of two slabs occur.
- scheduler: three late tasks give queues in which both lists hold tasks; a second
  processor is what `sched_enqueue_minload` could wrongly choose.
- `pagetable`: the addresses are 0 (which the code treats apart), a neighbour in
  the same page table, one in another page table of the same PMD, and one in
  another PMD.  With six pages a table of two branches fits and memory still
  runs out at each level.
- `exec`: three pages make an area that can be split into head, hole and tail,
  four allow a region that ends in two areas and leaves something of both; five
  virtual pages leave room for areas with and without gaps.  Two pages to a page
  table and four to a PMD put two page tables under the first PMD and the last
  page under another one, so that a failing mapping drops its own pages, those
  of other areas, and not all.  The programs have
  one or two segments, one that starts inside a page, one larger than memory,
  one whose file size exceeds its pages, one with a second segment at another
  file offset, one in page 0, an empty one, and
  headers that are not loaded, before and after the others; argument lists fit
  exactly, almost, or not.
- traps: the maps have a whole pair, half a pair and an address that both tasks
  map and only one may write.  Two TLB entries make every refill evict something; three ASIDs are
  enough that each task gets one without a flush (with `asid_flush`, `OwnPages`
  fails as a consequence of finding 4).  Two register values tell an old frame
  from a new one.
- the rest of `kernel`: seven keys make trees in which recolouring climbs to the root and both
  rotations occur on both sides.  Four processes beside IDLE and init give a
  parent and children handed over to init in rings.  Six bits keep the ratio of
  offsets, regions and address space, and of the clock's period (a 16th) to
  Count.

Deadlock is checked for the scheduler, the traps (where `panic`, an endless loop,
is a step), the slab allocator, the tree and the clock.  The others may stop:
`alloc_cont_pages` at `"wild"`, the page table when bounds and memory are
exhausted, an mm when an assert has failed, when an area has been freed twice
(only the rollback goes on from there) or when a program is loaded or refused,
the process list, and functions that have returned (`Stop` in `MCKernel`).

### Fairness

- `PageAlloc`: weak fairness of the steps inside a call.  They run with
  interrupts off on the only processor, so nothing else can run instead.
  Nothing is assumed of the callers.
- `Sched`: weak fairness of `Tick`.  `handle_clock` re-arms the timer at every
  interrupt, and interrupts are on whenever a task runs in user mode or IDLE
  loops (`ClockAlive` shows that the timer never falls silent).  Nothing is
  assumed of `Start`.

The other parts are checked for safety only and assume no fairness.

### Findings

1. `kern/mm/pgalloc.c:99`: the search of `alloc_cont_pages` continues while the
   current page is the end of the free list.  When the run asked for ends at the
   last free page, or there is none, it passes through the list head for ever;
   `return NULL` cannot be reached.
2. `arch/mips/mm/hier/pgtable.c:143`: if there is no memory for a page table,
   the clean-up of `pgtable_get` unlinks the PMD even when it existed before,
   with every mapping below it.  The other properties hold apart from this:
   `PageMap` allows it as `Drop`, `TreeExact` counts what it leaks, and `VmArea`
   has the same effect on areas (`dropped`, `gone`).
3. `kern/mm/vm.c:79` and `216-224`: the loops of `mm_destroy` and `unmap_pages`
   take the successor of an area they have just unlinked and freed.
4. `arch/mips/mm/hier/pgtable.c:44`: when the ASIDs are used up, `asid_flush`
   resets `task->asid`, which nothing reads.  A task that is switched out keeps
   its ASID in the EntryHi of its trap frame and uses it again, when it belongs
   to another task.
5. `arch/mips/traps.c:316`: registers are `unsigned long`, so `< 0` never holds
   and `>= 0` always does in `branch_target`.  `BranchExact` says that everything
   else about emulated branches is right.  (A linking branch that is not taken
   does not write RA, which the processor does; the code's own comment raises the
   question.  `BranchExact` asks for the link of taken branches, and that nothing
   else is written.)
6. `kern/sched/o1.c:67`: `sched_enqueue_minload` chooses the greatest payload,
   not the minimum that `include/sched/sched.h:33` announces.  With one processor
   executing, this is what keeps tasks on the queue that is served
   (`OnlyBootQueues`, whose mutant is the comparison as announced).
7. `kern/mm/vm.c:164`: when `arch_map_page` fails, the area is freed and stays in
   the list.  The rollback of the loader finds it, and depending on what `kfree`
   wrote over its start an assert stops the kernel, or the area is freed again
   with all pages below its end.  `RollbackExact` says that nothing is left when
   no assert stops the rollback.
8. `kern/syscall/execve.c:48`: every segment is filled from the beginning of the
   file, whatever its `p_offset`.

Beside these, without a run of their own:

- `arch/mips/mm/pgtable.c:30`: `page_perm` sets `PTE_NOEXEC` for every page, also
  those of an area with `VMA_EXEC`.  The model does so too (`page_perm` in
  `VmArea`).  The processor of this machine runs such pages unless it is told to
  check the bit.
- `kern/sched/tasklist.c:66`: the loop of `add_process` raises its own bound when
  a process with one child gets a second one; `TaskList` stops there.  The
  repository adds only IDLE and `init`, which have no parent.
- The notes on `do_write` and on widths above.

## Proofs

From `PageAssumption` (at least one page can be allocated, and the counters do
not reach the largest `size_t`), for any number of pages:

- `TypeCorrect`: every pointer is a page or the list head.
- `AlwaysLinked`: `Linked`, that is, next and prev are inverse on all nodes
  between any two loop iterations.  `Linked` is not inductive.  `list_add_before`
  keeps rings closed only if the node it adds is a ring of its own, so `LinkInv`
  adds that the page about to be inserted by `free_all_pages` is one (it was
  unlinked in the step before), and how the first page of a list under
  construction is related to the page that `alloc_pages` or `alloc_cont_pages`
  moves next, so that no page is put before itself.  What the list operations do is in four lemmas (`DelClosed`,
  `AddClosed`, `MoveClosed`, `SplitClosed`) on arbitrary sets of nodes.
- `FreeListIsExact`: `FreeListExact`; `BlocksAreExact`: `BlocksExact`;
  `NoAssertFails`: `NoPanic`.  Closed rings say nothing of which pages are on
  which ring, so these rest on a second invariant, `ListInv`: there is a set `C`
  of pages, the list that the current call works on, such that `Steady(C)` (the
  free pages and the list head are one ring in ascending order, and every
  allocated page outside `C` is on a complete list) and `Working(C)` (for each
  loop, what it has done so far to `C`).  `C` is bound by a quantifier and not
  computed from the state, so that a step only has to name the new one.
  The loops of `free_pages` keep three sections of `C` (`Before`, `Freed`,
  `After`), with the page counts of each right once `update_page_list` has been
  through it.  The search of `alloc_cont_pages` (`Running`, `Wrapped`) either
  ends at a page that closes a run of free pages of the right length, or has
  wrapped its counter at the list head (finding 1), and then comes by the list
  head again, which sets the counter back, before it has counted down to 0; so
  it never takes a run that it did not find.
- A ring is described by what each page's next is (`Ring`: the least page above
  it, or the least of all), so no lemma needs induction along the list;
  `RingDel`, `RingAdd`, `RingSplit` and `RingMove` say what the operations of
  `list.h` do to such a ring, and the lemmas `...Good`, one for each
  action, put them together.

- `PagesAreSets`: `PageAlloc` implements `PageSets`,
  initial state and every step.  The invariant `ImplInv` adds to `ListInv` what
  is left to do of the call (`Pending`): the pages of `C` are taken from the free
  pages but no block yet (`Taking`), or still one block of which nothing is freed
  (`Cutting`), or what remains of a section to be freed (`Giving`).  So a step in
  the middle of a call is a stutter of `PageSets`, and a return is one of its
  actions.  `ListsJoin` is the fact all of them use: a list apart from the others
  is one more block.  `Slab`, `PageTable` and `VmArea` are modelled on the
  behaviour of `PageSets`, which this theorem justifies.

From `SlabAssumption` (at least one page, requests are not of zero bytes), for
any number of pages, any requests and any number of allocations held at once,
in `SlabProofs`:

- `FreeChainsAreExact`: `ChainExact`; `SlabQueuesAreExact`: `QueuesExact`;
  `ChunksHaveOneOwner`: `OwnedExact`; `NoPageLeaks`: `NoLeak`;
  `SlabNeverHalts`: `NoHalt`.
- They need each other: a chain is right after a free only if the chunk was not
  on it, which is what holding it means; an available slab has a chunk to give
  only if queue and count agree; a page is given back safely only if the last
  chunk in use was the one freed.  So `SlabInv` joins them, in a form that a
  step can be carried through.  `ChainInv` says that there is a sequence that
  runs along the free chain, instead of computing it: a chunk taken drops the
  first element and one returned puts one in front (`ChainPop`, `ChainPush`,
  `ChainFill`).  `QueueInv` numbers the queues of all caches, gives each page
  the number of its queue, and describes a queue as a set closed under next and
  prev of which no part is (`QueueIs`): deleting and adding are short
  arguments about sets (`QueueDel`, `QueueAdd`), and the three operations
  of `slab.c` are moves of a page to another number (`SetAvailable`,
  `SetFull`, `SetEmpty`).  `OwnInv` adds that large chunks are apart.
- `ChainExact` and `QueuesExact` walk the chain and the rings by recursive
  functions.  `ChainIs` and `RingIs` show that these walks compute the sequence
  and the set, from the least counterexample (`LeastNat`) and, for rings, the
  pigeonhole principle.  `CacheFound` evaluates the thirteen sizes: every number
  of words up to a half page has a cache, since the least request of a cache is
  the size of the one before plus a word.

From `SchedAssumption` (IDLE and init are different tasks, processors are
numbers that include 0 and `Boot`, `NULL` is not a processor), for any tasks and
processors, finite or not:

- `TasksKept`: `OnePlace`; `PayloadCounts`: `TypeOK` and `PayloadExact`;
  `OnlyBootServed`: `OnlyBootQueues` and `AlwaysAnother`; the choice of
  finding 6 keeps every task on the served queue.
- They are proved together as `SchedInv`, since none is inductive alone: that a
  task goes back to a served queue needs that `minload` chooses `Boot`; that
  needs `Boot` to be the one processor with payload; that needs payload to count
  the queues, and the queues of the others to be empty; and that a dequeue
  removes the right task needs each task to be queued once.  `QueueInv` states
  this for the values of the queues, so that it can be used between the enqueue
  and the dequeue inside `sched`.  `EnqueueKeeps` and `DequeueKeeps` are the two
  halves, `BootChosen` the argument about `minload`.

From `TableAssumption` (at least one page, finitely many addresses), for any
memory and any addresses, in `PageTableProofs`:

- `EntryCountsAreExact`: `EntriesExact`; `DirectoriesFormATree`: `TreeExact`;
  `NoEntryDangles`: `NoDangling`; `WalksAreAMap`: `PageTable` implements
  `PageMap`, initial state and every step.
- The invariant gives each page a kind (`free`, `data`, a directory of one of
  the three levels, or a PGD or PMD unlinked while in use, with the page tables
  under it).  `Shape` says of the kinds: an entry of a directory refers to a page of
  the kind below (`Links`), no two entries to the same directory (`Single`),
  some entry to every directory (`Reached`), counts are right (`Counted`), and
  every walk that ends at a page is that of an address in use (`Named`).  The
  properties speak of what can be reached from the PGD, which is awkward to
  carry through a change; the kinds are local, and `TablesAre` derives the one
  from the other.  `Filled` is apart since a directory may be empty in the
  middle of a call.  `Named` is what makes freeing safe: a page that no address
  maps is in no page table.
- `LinkDir`, `UnlinkDir`, `LosePmd` and `SetLeaf` say what the four primitives of
  `pgdir.c` do to the kinds and to the walks, in any state in the middle of a
  call; `Get`, `InsertStep`, `RemovePteStep` and `RemoveStep` put the calls
  together.  The clean-up of finding 2 (`LosePmd`, `DropsWalks`) and a new table
  for an mm that has one are the cases that change walks at other addresses.

From `VmAssumption` and `Walks = FALSE`, for any pages, addresses, structures
and failures, in `VmAreaProofs`:

- `AreaListStaysOrdered`: `AreasOrdered`; `PageTableMatchesAreas`:
  `MapsMatchAreas`; `CacheNeverDangles`: `CacheLinked`; `PagesHaveOneOwner`:
  `PagesExact`; `WalksEndForCallers`: `WalksEnd`.
- `Walks = FALSE` is what the code's callers do: they unmap within one area, or
  over two neighbours of which something remains.  With `Walks = TRUE` the loops
  of finding 3 follow freed areas, and there is nothing to prove.
- `Inv` joins the order of the list, the agreement of list and page table, the
  ownership of pages and the cached area: a split keeps the order because the
  remaining parts lie inside the old area, and they agree with the page table
  because order makes the area of an address unique.  `Agree` has two exceptions,
  `bare` and `dropped`, and says that they are just that: a bare page is mapped
  and in no area, a dropped address is in an area and not mapped.  The freed area
  of a failed mapping is not one of `live`; what is unmapped through it
  (`UnmapStale`) becomes dropped, and its pages free.  `InsertOrdered` and
  `RemoveOrdered` are about the insertion point that `vm_area_insert` finds in
  any sorted list.

From `ExecAssumption`, `VmAssumption` and `Walks = FALSE`, for any programs and
arguments, any address space and memory, and wherever memory runs out, in
`ExecProofs`, which uses the step lemmas of `VmAreaProofs`:

- `LoaderLeavesNothing`: `RollbackExact`; `StackStaysIsolated`: `StackIsolated`;
  `ArgumentsArrive`: `ArgvExact`; `SegmentsLoaded`: `LoadedExact`;
  `LoaderKeepsAreas`: the four invariants of `VmArea` under `ExecSpec`.
- `LoadInv` says what has been done in each phase.  While segments are created
  (`Segments`), every mapped page is in a segment of an earlier header, these
  are backed with their permissions and apart, every area starts where one of
  the headers does, and a page is mapped without an area only if memory has run
  out, so the loader then goes no further.  From there the
  rollback takes an area of a later header at every step, until none is left
  (`Unloading`).  After a failed mapping the freed area in the list is of the
  header that failed, which the rollback has still to come to and whose address
  is in no other area (`StaleFrom`): so unless an assert fails, it is taken out
  before the loader returns.
  `Beyond` keeps `progtop` above all headers, so the stack lands above an
  unmapped page (`Gap`); `Stack` and `Arguments` then say where the strings and
  their addresses are.
- That a copy does not disturb an earlier one needs two facts: no page is mapped
  at two addresses (`PageState`, from `VmArea`), so different addresses are
  different words (`PlacesDiffer`, `CopyIs`), and the addresses of the copies are
  apart: segments by `Separate`, the stack by `Gap`, the pushed words by the
  order in which `set_task_argv` lays them out (`ArgumentPushed`).
- `SegmentsLoaded` speaks of the beginning of the file, for any `p_offset`, and
  of the permission to write; what is wrong with the offset is finding 8.  It
  assumes `FilesFit`: no header has more of the file than fits
  into its pages, which the ELF standard asks for and the loader does not check.
  Otherwise a copy may run into the pages of the segment before or behind it.
  The programs of the run satisfy it as well (`MCFilesFit`).

From `TrapAssumption`, for any tasks, any mapped and writable pages and any TLB,
in `TrapProofs`:

- `TasksResumeExactly`: `ResumeExact`, from `StackInv`: the frame of a task in
  the kernel is at `task->tf`, the context of a task that is switched out leads
  to it, and `kernelsp` is the top of the current task's stack, so that the next
  frame lands where nothing else lies.
- `TlbHasNoDuplicates`: `NoDuplicates`, from `TlbInv`: a cleared entry has the
  address made from its own index.
- `TasksSeeOwnPages`: `OwnPages`; `PanicsAreFaults`: `PanicOnlyOnFault`;
  `FramesNameOwnAsid`: `AsidsReverted`; all under `EnoughAsids`, that is, fewer
  user tasks than ASIDs.  Without it they are false (finding 4), so the theorems
  say that running out of ASIDs is the only way to finding 4.  `BootInv` follows
  what the tests of `kern/mm/test.c` leave in the TLB, `AsidInv` says that what
  the TLB holds under an ASID is what the task of this ASID has mapped.
  `PanicOnlyOnFault` is about all panics of
  `handle_exception` and of interrupts: each one is the program's own doing (an
  address it has not mapped, a write that its own page forbids, an instruction
  without a handler) or an interrupt of an unknown source.  It needs that a
  translation a program meets is its own (`HitsOwnPage`), or a program could be
  stopped for the permissions of another's page.

About the sequential parts, in `LibProofs`:

- From `ClockAssumption` (a sixteenth of a round of Count is not zero), for every
  width of Count: `ClockStaysAlive`, by an invariant on the distance of Compare
  from Count in each place of the handler.
- From `BranchAssumption`, for every width of registers: `EmulationExact` says
  where `branch_target` goes and what it links, for any registers, offsets and
  addresses: where the architecture goes, except for the tests of finding 5
  (`Misjudged`), which go exactly the other way; and the link that the processor
  makes if the code takes the branch, none otherwise.  It needs no state, and
  `BranchesAreExact` follows, as `skip_victim` applies them to the registers that
  were saved.  One condition is left: the branch is not in the last word of a
  region.  That powers of two are
  positive numbers and the sizes of words and regions fit together is part of
  the assumption, since the provers know no law of exponentiation; TLC evaluates
  it.
- From `BuffersAssumption`, for strings of any length, any size and any word:
  `BuffersAreExact`.  The invariant says for each loop what is written (the
  beginning of the destination's string and the source together, then what was
  there, `Contents`) and that position and counter make up the size
  (`StringsInv`), or for `memcpy` the length, with both addresses aligned
  wherever words follow (`WordsInv`).
- From `TaskListAssumption`, for any processes in any order of `add_process` and
  `remove_process`: `KinIsExact`.  The invariant (`Family`) has to say why the
  counters, wrong as they are, do no harm: every process but `init` has at most
  one child, which is alone on its ring with the counter 1, so the hand-over of
  `remove_process` takes exactly the one turn it needs; the ring of `init` may be
  cut open anywhere, so what its counters say does not matter.  A ring is the
  least set that is closed under `sib`, and stays one under each of the three
  list operations (`AddBeforeIs`, `DelInitIs`, `ConcatIs`).  As in the run,
  nothing is claimed once `add_process` does not return, which is what happens
  when a process other than `init` gets a second child; with `init` it depends on
  the counter of the first.

Only model-checked:

- liveness (`CallsReturn`, `NoStarvation`), which is out of the prover's reach;
- `RbTree` and the numbers of `Libc`, which are recursive: what a recursively
  defined function computes for every argument is out of reach as well.

## Not modelled

- Threads of a process (`add_thread`, `remove_thread`), which nothing calls.
- `fork` is not implemented in the repository; what `write` prints is left out.
- The dumps of `traps.c`.  The index of `__syscalls[]`, the number in `v0`, is
  not checked by the code, and nothing can be said of a call with another one.
- Replacing an entry of the page table does not flush the TLB
  (`arch/mips/mm/hier/pgtable.c:177`); its callers map vacant addresses, so
  `Trap` has no such step.
- `mm_new` with no memory writes to address 0 and there is no later state to
  check.
- Boot (but for `parse_env`), cache, CPU and interrupt controller set-up is
  straight-line register code whose results are the initial states.  Drivers and
  the console are I/O.
- `memset`, `strlen`, `strcmp` and `rand` are loops of a line or two.
- The allocator tests of `kern/mm/test.c` are scripts of calls that the models'
  callers subsume.
- Second processors: the code has run queues for them but never starts one.

## Plan

Every component of the core is modelled, and every invariant of a run is a
theorem but those of `RbTree` and `NumbersExact`.  These would need `RbTree` to
be written without recursive operators, with one step per turn of
`rb_insert_color` and `__rb_erase_color` and the shape of the tree given by
orders on nodes instead of by descent, as rings here are given by closed sets;
and a `vsnprintf` and `strtoul` with one step per character.
