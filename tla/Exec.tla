-------------------------------- MODULE Exec ---------------------------------
(***************************************************************************)
(* Starting a program: the ELF loader of kern/syscall/execve.c, then the   *)
(* user stack and the arguments (kern/sched/task.c and                     *)
(* arch/mips/sched/task.c), as initproc_init calls them, and the write     *)
(* system call of the program; on top of VmArea.                           *)
(*                                                                         *)
(* Addresses count the 8-byte words of which the loader's stack layout is  *)
(* made, PG to a page.  The thread that loads the program does one call of *)
(* VmArea, or one copy, at a step; phase tells where it is.                *)
(***************************************************************************)
EXTENDS VmArea

CONSTANTS PG,         \* words of a page
          USTACK,     \* USTACK_SIZE
          BUFSIZ,
          Programs,   \* ELF files: [ok, ph]: the program headers
          Argvs       \* argument lists: the words that each string takes

(* A program header.  p_flags has PF_R, PF_W and PF_X, and bits that the   *)
(* processor or the system may use.                                        *)
Header == [load: BOOLEAN, vaddr: Nat, offset: Nat, filesz: Nat, memsz: Nat,
           flags: SUBSET {"r", "w", "x", "other"}]

(* CONFIG_16KPAGES makes a page of 2048 words, of which USTACK_SIZE takes  *)
(* 1024 and BUFSIZ 128.  An executable has a program header.  A string     *)
(* takes a word at least, as it ends with a null byte.                     *)
ASSUME ExecAssumption ==
  /\ {PG, USTACK, BUFSIZ} \subseteq Nat \ {0} /\ USTACK + BUFSIZ <= PG
  /\ \A p \in Programs :
       /\ p.ph \in Seq(Header) /\ p.ph # << >>
       /\ \A k \in DOMAIN p.ph : p.ph[k].load => p.ph[k].vaddr > 0
  /\ Argvs \subseteq Seq(Nat \ {0})

VARIABLES prog, argv,  \* arguments of the call
          phase,       \* "other": another user of the mm; "start", "create",
                       \* "copy", "unload", "ustack", "argv", "ready",
                       \* "failed" (the loader returned an error) or "panic"
          i,           \* index of the loop
          progtop, ustacktop,
          sp,          \* start of the stack, and of argv, in the trap frame
          strtop,      \* set_task_argv: where the next string goes
          word,        \* what was copied into the pages, by page and offset
          errno        \* of the last write; "none": no error

execVars == <<prog, argv, phase, i, progtop, ustacktop, sp, strtop, word, errno>>
taskVars == <<progtop, ustacktop, sp, strtop, errno>>
args == <<prog, argv>>

elf_to_vmaflags(f) == f \cap {"r", "w", "x"}
USTACK_PERM == {"r", "w"}

PageOf(a) == a \div PG
Seg == prog.ph[i]

(* NR_PAGES_SPANNED; none for no bytes at the beginning of a page *)
Spanned(a, n) == PageOf(a)..PageOf(a + n - 1)

(* __uvaddr_to_kvaddr finds nothing *)
Absent(p) == p \notin V \/ map[p] = Unmapped

-----------------------------------------------------------------------------
Phys(a) == <<map[PageOf(a)].page, a % PG>>

(* Mutant: every page gets the words from the first one on *)
Offset_page(a, b) == IF PageOf(b) = PageOf(a) THEN b - a ELSE b % PG

(* The word that goes to address b in a copy to a *)
Offset(a, b) == b - a

(* A word is named by where it was copied from and its position there. *)
File == <<"file">>
Arg(k) == <<"arg", k>>
Pointer == <<"pointer">>
Word(source, at) == [source |-> source, at |-> at]

(* copy_uvm goes page by page until one is not mapped (EACCES): how far *)
Reached(a, n) ==
  LET holes == {p \in Spanned(a, n) : Absent(p)}
  IN a..((IF holes = {} THEN a + n ELSE Min(holes) * PG) - 1)

Copied(a, n, source) ==
  LET at == {Phys(b) : b \in Reached(a, n)}
  IN [x \in at \cup DOMAIN word |->
        IF x \in at THEN Word(source, Offset(a, CHOOSE b \in Reached(a, n) : Phys(b) = x))
        ELSE word[x]]

CopyFails(a, n) == \E p \in Spanned(a, n) : Absent(p)

(* progtop after a header, also one that is not loaded *)
Top(t) == IF t < Seg.vaddr + Seg.memsz THEN Seg.vaddr + Seg.memsz ELSE t

PGROUNDUP(a) == ((a + PG - 1) \div PG) * PG

(* Mutant: no page between program and stack *)
Above_next(t) == PGROUNDUP(t)

Above(t) == PGROUNDUP(t) + PG

(* The next header; after the last one, the stack is next *)
Advance ==
  IF i = Len(prog.ph)
  THEN phase' = "ustack" /\ i' = 1 /\ progtop' = Above(Top(progtop))
  ELSE phase' = "create" /\ i' = i + 1 /\ progtop' = Top(progtop)

GiveUp == phase' = "unload" /\ i' = 1 /\ UNCHANGED progtop

-----------------------------------------------------------------------------
(* The mm is used by some caller, or is that of a new task *)
ExecInit ==
  /\ Init
  /\ prog \in Programs /\ argv \in Argvs
  /\ \/ /\ phase = "other"
        /\ prog = (CHOOSE p \in Programs : TRUE) /\ argv = (CHOOSE a \in Argvs : TRUE)
     \/ phase = "start"
  /\ i = 1 /\ progtop = 0 /\ ustacktop = 0 /\ sp = 0 /\ strtop = 0 /\ errno = "none"
  /\ word = << >>

OtherUse == phase = "other" /\ Next /\ UNCHANGED execVars

(* task_setup_mm, and the checks of the ELF header *)
task_load_elf_kmem ==
  /\ phase = "start" /\ mm_new
  /\ phase' = IF prog.ok THEN "create" ELSE "failed"
  /\ UNCHANGED <<args, i, word>> /\ UNCHANGED taskVars

(* Nothing is created for an empty segment, and for one in page 0 *)
Nothing == Seg.memsz = 0 \/ PageOf(Seg.vaddr) = 0

(* A header of the loop: mm_create_uvm if it is a segment to load *)
task_load_segs_kmem ==
  LET n == Cardinality(Spanned(Seg.vaddr, Seg.memsz))
  IN /\ phase = "create" /\ status = "run"
     /\ \/ ~Seg.load /\ Advance /\ UNCHANGED vars
        \/ /\ Seg.load /\ Nothing
           /\ phase' = "copy" /\ UNCHANGED <<i, progtop>> /\ UNCHANGED vars
        \/ Seg.load /\ ~Nothing /\ n > Cardinality(free) /\ GiveUp /\ UNCHANGED vars
        \/ Seg.load /\ ~Nothing /\ CreateFails(PageOf(Seg.vaddr), n) /\ GiveUp
        \/ /\ Seg.load /\ ~Nothing
           /\ Creates(PageOf(Seg.vaddr), n, elf_to_vmaflags(Seg.flags))
           /\ phase' = "copy" /\ UNCHANGED <<i, progtop>>
     /\ UNCHANGED <<args, ustacktop, sp, strtop, word, errno>>

(* The area that contains a, if any.  Address 0 is not above the start of  *)
(* an area that begins inside page 0.                                      *)
Destroy(a) ==
  \E above \in BOOLEAN : (above => a > 0) /\ mm_destroy_uvm(PageOf(a), above)

(* copy_to_uvm, from the beginning of the file whatever p_offset is, and   *)
(* the rollback of the segment that could not be filled                    *)
task_load_seg_kmem ==
  /\ phase = "copy" /\ status = "run"
  /\ word' = Copied(Seg.vaddr, Seg.filesz, File)
  /\ IF CopyFails(Seg.vaddr, Seg.filesz)
     THEN Destroy(Seg.vaddr) /\ GiveUp
     ELSE Advance /\ UNCHANGED vars
  /\ UNCHANGED <<args, ustacktop, sp, strtop, errno>>

(* Mutant: the first header is left out *)
Unloaded_later(k) == k > 1

Unloaded(k) == TRUE

(* The areas of all headers go, loaded or not, also when the mapping of    *)
(* one has failed and left its freed area in the list                      *)
task_unload_seg ==
  /\ phase = "unload" /\ status \in {"run", "dangling", "twice"}
  /\ IF Unloaded(i) THEN Destroy(Seg.vaddr) ELSE UNCHANGED vars
  /\ IF i = Len(prog.ph) THEN phase' = "failed" /\ i' = 1
     ELSE phase' = "unload" /\ i' = i + 1
  /\ UNCHANGED <<args, word>> /\ UNCHANGED taskVars

(* Mutant: no room for the addresses *)
StringsAt_none(top) == top

StringsAt(top) == top + Len(argv)

(* One page, of which the lower USTACK words are the stack; pgalloc's      *)
(* result is not checked.  The assert in initproc_init stops the kernel    *)
(* when the page cannot be mapped.                                         *)
set_task_ustack ==
  /\ phase = "ustack" /\ status = "run"
  /\ \/ free = {} /\ phase' = "panic" /\ UNCHANGED vars /\ UNCHANGED <<ustacktop, sp, strtop>>
     \/ CreateFails(PageOf(progtop), 1) /\ phase' = "panic" /\ UNCHANGED <<ustacktop, sp, strtop>>
     \/ /\ Creates(PageOf(progtop), 1, USTACK_PERM)
        /\ phase' = "argv"
        /\ ustacktop' = progtop + USTACK /\ sp' = progtop + USTACK
        /\ strtop' = StringsAt(progtop + USTACK)
  /\ UNCHANGED <<args, i, progtop, word, errno>>

(* An argument: the string, then its address; the assert in initproc_init  *)
(* stops the kernel when they do not fit                                   *)
set_task_argv ==
  LET n == argv[i]
      ptr == sp + i - 1
      w1 == Copied(strtop, n, Arg(i))
  IN /\ phase = "argv" /\ status = "run"
     /\ IF i > Len(argv)
        THEN phase' = "ready" /\ ustacktop' = strtop /\ UNCHANGED <<i, strtop, word>>
        ELSE IF CopyFails(strtop, n) \/ CopyFails(ptr, 1)
        THEN phase' = "panic" /\ word' = w1 /\ UNCHANGED <<i, ustacktop, strtop>>
        ELSE /\ word' = [x \in {Phys(ptr)} \cup DOMAIN w1 |->
                           IF x = Phys(ptr) THEN Word(Pointer, strtop) ELSE w1[x]]
             /\ i' = i + 1 /\ strtop' = strtop + n
             /\ UNCHANGED <<phase, ustacktop>>
     /\ UNCHANGED vars /\ UNCHANGED <<args, progtop, sp, errno>>

(* sys_write and do_write: BUFSIZ bytes are read from user space, however  *)
(* many the program wants to write                                         *)
do_write(fd, buf) ==
  /\ phase = "ready"
  /\ errno' = IF fd \notin {1, 2} THEN "EBADF"
              ELSE IF CopyFails(buf, BUFSIZ) THEN "E2BIG" ELSE "none"
  /\ UNCHANGED vars /\ UNCHANGED <<args, phase, i, progtop, ustacktop, sp, strtop, word>>

ExecNext ==
  \/ OtherUse
  \/ task_load_elf_kmem \/ task_load_segs_kmem \/ task_load_seg_kmem
  \/ task_unload_seg \/ set_task_ustack \/ set_task_argv
  \/ \E fd \in {0, 1}, buf \in {sp - 1, sp + PG - USTACK - 1} : do_write(fd, buf)

ExecSpec == ExecInit /\ [][ExecNext]_<<vars, execVars>>

(* No segment has more of the file than fits into its pages.  The ELF      *)
(* standard asks for it; the loader does not check it.                     *)
FilesFit ==
  \A p \in Programs : \A k \in DOMAIN p.ph :
    LET h == p.ph[k]
    IN h.load => IF h.memsz = 0 THEN h.filesz = 0
                 ELSE Spanned(h.vaddr, h.filesz) \subseteq Spanned(h.vaddr, h.memsz)

-----------------------------------------------------------------------------
Contents(a) == IF Phys(a) \in DOMAIN word THEN word[Phys(a)] ELSE Word(<<"?">>, 0)
Started == phase \in {"argv", "ready"} /\ status = "run"
Loads(k) == prog.ph[k].load /\ prog.ph[k].memsz > 0 /\ PageOf(prog.ph[k].vaddr) > 0
SegPages(k) == Spanned(prog.ph[k].vaddr, prog.ph[k].memsz)

(* A program that cannot be loaded, at whichever header and for whatever   *)
(* failure, leaves nothing in the mm unless an assert has stopped the      *)
(* kernel: no area, also not the freed one that a failed mapping left in   *)
(* the list, and no page mapped but those that map_pages put nowhere in    *)
(* the list.                                                               *)
RollbackExact ==
  phase = "failed" /\ status # "assert" =>
    /\ list = << >> /\ live = {} /\ stale = NoStale
    /\ {a \in V : map[a] # Unmapped} \subseteq bare

(* "For preventing the consequences where the user stack is overrun": the  *)
(* page below the stack is not mapped, the stack's own page is in no       *)
(* segment, and do_write can read a whole BUFSIZ from any address in it.   *)
StackIsolated ==
  Started =>
    /\ map[PageOf(progtop) - 1] = Unmapped
    /\ map[PageOf(progtop)].perm = page_perm(USTACK_PERM)
    /\ \A k \in DOMAIN prog.ph : Loads(k) => PageOf(progtop) \notin SegPages(k)
    /\ \A a \in progtop..(sp - 1) : ~CopyFails(a, BUFSIZ)

(* main finds its arguments: argv[k] points to the k-th string, no string  *)
(* and no pointer has overwritten another, and all are above the stack.    *)
ArgvExact ==
  phase = "ready" => \A k \in DOMAIN argv :
    /\ Contents(sp + k - 1).source = Pointer
    /\ LET s == Contents(sp + k - 1).at
       IN s >= sp /\ s + argv[k] <= ustacktop
          /\ \A o \in 0..(argv[k] - 1) : Contents(s + o) = Word(Arg(k), o)

(* When the program starts, every segment still has what was copied into   *)
(* it, the file from its beginning on, whatever was loaded and pushed      *)
(* after it, and its pages can be written if its flags say so and not      *)
(* otherwise.                                                              *)
LoadedExact ==
  phase = "ready" => \A k \in DOMAIN prog.ph : Loads(k) =>
    /\ \A a \in SegPages(k) : "dirty" \in map[a].perm <=> "w" \in prog.ph[k].flags
    /\ \A o \in 0..(prog.ph[k].filesz - 1) : Contents(prog.ph[k].vaddr + o) = Word(File, o)

(* p_offset is the "Segment file offset": a segment has the part of the    *)
(* file that begins there.                                                 *)
OffsetRespected ==
  phase = "ready" => \A k \in DOMAIN prog.ph : Loads(k) =>
    \A o \in 0..(prog.ph[k].filesz - 1) :
      Contents(prog.ph[k].vaddr + o) = Word(File, prog.ph[k].offset + o)
=============================================================================
