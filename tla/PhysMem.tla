------------------------------ MODULE PhysMem -------------------------------
(***************************************************************************)
(* Physical memory as kern/pmap.c manages it: reference-counted pages, the *)
(* free list, and the two-level page tables that live in those same pages; *)
(* env_setup_vm and env_free of kern/env.c, and the system calls on memory *)
(* of kern/syscall.c.  All of it runs under the big kernel lock, so that   *)
(* one call is one step; what goes wrong here goes wrong over a sequence   *)
(* of calls, and when memory runs out in the middle of one.                *)
(*                                                                         *)
(* A page holds a table of entries, or data.  Which environment may name   *)
(* which is EnvTable's Envid2Env: here any two live ones may.              *)
(***************************************************************************)
EXTENDS Integers, Sequences, SequencesExt

CONSTANTS
    Pages,     \* the pages page_init puts on the free list
    NoPage,    \* the address part of an entry without PTE_P
    Envs,      \* the slots of envs[]
    NPT,       \* NPDENTRIES and NPTENTRIES
    RefMod     \* pp_ref counts modulo this (2^16)

ASSUME NPTAssumption == NPT \in Nat \ {0}
ASSUME RefModAssumption == RefMod \in Nat \ {0, 1}
ASSUME NoPageAssumption == NoPage \notin Pages
ASSUME FiniteAssumption == IsFiniteSet(Pages) /\ IsFiniteSet(Envs)

VARIABLES
    phys,      \* the physical memory: free, ref, mem
    pgdir      \* envs[s].env_pgdir: the page that is its page directory

vars == <<phys, pgdir>>

Idx     == 0 .. NPT - 1
VA      == Idx \X Idx               \* PDX(va), PTX(va) of the addresses below UTOP
None    == <<NoPage, FALSE>>        \* an entry without PTE_P
Entry   == (Pages \X BOOLEAN) \cup {None}        \* the page, and PTE_W
Cleared == [i \in Idx |-> None]
Garbage(p) == [i \in Idx |-> <<p, TRUE>>]        \* what data looks like as a table

-----------------------------------------------------------------------------
(* pmap.c.  Each operator is a function of the memory m it is called in.    *)

\* page_alloc(ALLOC_ZERO) takes the head of the list; callers test for NULL.
NewPage(m) == Head(m.free)
PageAllocDirty(m) == [m EXCEPT !.free = Tail(@)]  \* the bug "no ALLOC_ZERO"
PageAlloc(m) == [m EXCEPT !.free = Tail(@), !.mem[NewPage(m)] = Cleared]

PageFree(m, p) == [m EXCEPT !.free = <<p>> \o @]

Incref(m, p) == [m EXCEPT !.ref[p] = (@ + 1) % RefMod]
\* The bug "a page is freed with its last but one reference".
PageDecrefEarly(m, p) ==
    LET n == (m.ref[p] - 1) % RefMod IN
    IF n <= 1 THEN PageFree([m EXCEPT !.ref[p] = n], p) ELSE [m EXCEPT !.ref[p] = n]
PageDecref(m, p) ==
    LET n == (m.ref[p] - 1) % RefMod IN
    IF n = 0 THEN PageFree([m EXCEPT !.ref[p] = n], p) ELSE [m EXCEPT !.ref[p] = n]

\* The page table that covers va, NoPage if there is none; and the entry.
TableOf(m, pd, va) == m.mem[pd][va[1]][1]
EntryOf(m, pd, va) ==
    IF TableOf(m, pd, va) = NoPage THEN None ELSE m.mem[TableOf(m, pd, va)][va[2]]
SetEntry(m, pd, va, ent) == [m EXCEPT !.mem[TableOf(m, pd, va)][va[2]] = ent]

\* The bug "the new page table is not counted".
WalkUncounted(m, pd, va) ==
    IF TableOf(m, pd, va) # NoPage \/ m.free = <<>> THEN m
    ELSE [PageAlloc(m) EXCEPT !.mem[pd][va[1]] = <<NewPage(m), TRUE>>]
\* pgdir_walk(create = 1): the table is there afterwards unless memory ran out.
Walk(m, pd, va) ==
    IF TableOf(m, pd, va) # NoPage \/ m.free = <<>> THEN m
    ELSE [Incref(PageAlloc(m), NewPage(m)) EXCEPT !.mem[pd][va[1]] = <<NewPage(m), TRUE>>]
WalkFails(m, pd, va) == TableOf(Walk(m, pd, va), pd, va) = NoPage

\* page_lookup walks with create = 1, and so does page_remove through it.
PageRemove(m, pd, va) ==
    LET m1  == Walk(m, pd, va)
        ent == EntryOf(m1, pd, va)
    IN  IF ent = None THEN m1
        ELSE PageDecref(SetEntry(m1, pd, va, None), ent[1])

\* The bug "the old mapping is removed before the new one is counted".
PageInsertLate(m, pd, p, va, w) ==
    LET m1 == PageRemove(Walk(m, pd, va), pd, va)
    IN  SetEntry(Incref(m1, p), pd, va, <<p, w>>)
\* page_insert, when pgdir_walk succeeds: counts, then removes what was there.
PageInsert(m, pd, p, va, w) ==
    LET m1 == Incref(Walk(m, pd, va), p)
        m2 == IF EntryOf(m1, pd, va) = None THEN m1 ELSE PageRemove(m1, pd, va)
    IN  SetEntry(m2, pd, va, <<p, w>>)

-----------------------------------------------------------------------------
(* page_init and env_init.                                                  *)
Init ==
    /\ \E order \in SetToSeqs(Pages) :
        phys = [free |-> order,
                ref |-> [p \in Pages |-> 0],
                mem |-> [p \in Pages |-> Cleared]]
    /\ pgdir = [e \in Envs |-> NoPage]

Live == {e \in Envs : pgdir[e] # NoPage}

(* env_setup_vm, from env_alloc: a zeroed page directory, or -E_NO_MEM.      *)
EnvSetupVm(e) ==
    /\ e \notin Live
    /\ phys.free # <<>>
    /\ pgdir' = [pgdir EXCEPT ![e] = NewPage(phys)]
    /\ phys' = Incref(PageAlloc(phys), NewPage(phys))

\* env_free: the pages of one page table, in the order of the entries; a
\* recursive function stands for each of its two loops.
UnmapPresent(m, pd, va) == IF EntryOf(m, pd, va) = None THEN m ELSE PageRemove(m, pd, va)
EmptyTable(m, pd, d) ==
    LET after[n \in 0 .. NPT] ==
            IF n = 0 THEN m ELSE UnmapPresent(after[n - 1], pd, <<d, n - 1>>)
    IN  after[NPT]

\* The bug "the table is not freed".
FreeTableKept(m, pd, d) ==
    IF m.mem[pd][d] = None THEN m ELSE [EmptyTable(m, pd, d) EXCEPT !.mem[pd][d] = None]
\* The table itself, after all that is in it.
FreeTable(m, pd, d) ==
    IF m.mem[pd][d] = None THEN m
    ELSE PageDecref([EmptyTable(m, pd, d) EXCEPT !.mem[pd][d] = None], m.mem[pd][d][1])

FreeTables(m, pd) ==
    LET after[n \in 0 .. NPT] == IF n = 0 THEN m ELSE FreeTable(after[n - 1], pd, n - 1)
    IN  after[NPT]

(* env_free: unmaps everything, then frees the tables and the directory.     *)
EnvFree(e) ==
    /\ e \in Live
    /\ phys' = PageDecref(FreeTables(phys, pgdir[e]), pgdir[e])
    /\ pgdir' = [pgdir EXCEPT ![e] = NoPage]

-----------------------------------------------------------------------------
(* syscall.c                                                                *)

(* sys_page_alloc: the new page goes back if there is no room for a table.  *)
SysPageAlloc(e, va, w) ==
    /\ e \in Live
    /\ phys.free # <<>>
    /\ LET p == NewPage(phys)
           m == PageAlloc(phys)
       IN  phys' = IF WalkFails(m, pgdir[e], va) THEN PageFree(m, p)
                   ELSE PageInsert(m, pgdir[e], p, va, w)
    /\ UNCHANGED pgdir

\* The bug "the page looked up is inserted without a test".
MapPageBlind(src, sva, dst, dva, w) ==
    LET m   == Walk(phys, pgdir[src], sva)
        ent == EntryOf(m, pgdir[src], sva)
    IN  phys' = IF WalkFails(m, pgdir[dst], dva) THEN m
                ELSE PageInsert(m, pgdir[dst], ent[1], dva, w)
(* What sys_page_map and sys_ipc_try_send share: look the source page up,    *)
(* test PTE_W, and insert the page at the destination.                      *)
MapPage(src, sva, dst, dva, w) ==
    LET m   == Walk(phys, pgdir[src], sva)
        ent == EntryOf(m, pgdir[src], sva)
    IN  phys' = IF ent = None \/ (w /\ ~ ent[2]) \/ WalkFails(m, pgdir[dst], dva) THEN m
                ELSE PageInsert(m, pgdir[dst], ent[1], dva, w)

SysPageMap(src, sva, dst, dva, w) ==
    /\ {src, dst} \subseteq Live
    /\ MapPage(src, sva, dst, dva, w)
    /\ UNCHANGED pgdir

(* A page sent along with a message; the receiver, another environment, may *)
(* have asked for none, but the lookup has then been done all the same.     *)
SysIpcTrySendPage(src, sva, dst, dva, w) ==
    /\ {src, dst} \subseteq Live /\ src # dst
    /\ \/ MapPage(src, sva, dst, dva, w)
       \/ phys' = Walk(phys, pgdir[src], sva)
    /\ UNCHANGED pgdir

SysPageUnmap(e, va) ==
    /\ e \in Live
    /\ phys' = PageRemove(phys, pgdir[e], va)
    /\ UNCHANGED pgdir

(* A program writes to a page that the hardware finds writable.             *)
UserWrite(e, va) ==
    /\ e \in Live
    /\ LET ent == EntryOf(phys, pgdir[e], va) IN
        /\ ent # None /\ ent[2]
        /\ phys' = [phys EXCEPT !.mem[ent[1]] = Garbage(ent[1])]
    /\ UNCHANGED pgdir

Next ==
    \E e \in Envs :
        \/ EnvSetupVm(e) \/ EnvFree(e)
        \/ \E va \in VA :
            \/ SysPageUnmap(e, va) \/ UserWrite(e, va)
            \/ \E w \in BOOLEAN : SysPageAlloc(e, va, w)
            \/ \E d \in Envs, dva \in VA, w \in BOOLEAN :
                SysPageMap(e, va, d, dva, w) \/ SysIpcTrySendPage(e, va, d, dva, w)

Spec == Init /\ [][Next]_vars

-----------------------------------------------------------------------------
(* Properties                                                               *)

TypeOK ==
    /\ phys.free \in Seq(Pages)
    /\ phys.ref \in [Pages -> 0 .. RefMod - 1]
    /\ phys.mem \in [Pages -> [Idx -> Entry]]
    /\ pgdir \in [Envs -> Pages \cup {NoPage}]

\* The references to page p from the structures of live environments.
DirRefs(p)   == {e \in Live : pgdir[e] = p}
TableRefs(p) == {x \in Live \X Idx : phys.mem[pgdir[x[1]]][x[2]][1] = p}
DataRefs(p)  == {x \in Live \X VA : EntryOf(phys, pgdir[x[1]], x[2])[1] = p}

(* pp_ref is the number of page directories, page-table pointers and        *)
(* mappings that name the page (inc/memlayout.h:182): it never drifts.      *)
RefExact ==
    \A p \in Pages :
        phys.ref[p] = Cardinality(DirRefs(p)) + Cardinality(TableRefs(p))
                        + Cardinality(DataRefs(p))

(* The free list holds each page that nothing refers to, once, and no other *)
(* one: no leak, no double free, and nothing freed while it is in use.      *)
FreeListExact ==
    /\ \A i, j \in 1 .. Len(phys.free) : phys.free[i] = phys.free[j] => i = j
    /\ \A p \in Pages :
        (\E i \in 1 .. Len(phys.free) : phys.free[i] = p)
            <=> DirRefs(p) = {} /\ TableRefs(p) = {} /\ DataRefs(p) = {}

(* A page directory or page table has one owner and is mapped in no program.*)
TablesPrivate ==
    \A p \in Pages :
        DirRefs(p) # {} \/ TableRefs(p) # {} =>
            /\ Cardinality(DirRefs(p)) + Cardinality(TableRefs(p)) = 1
            /\ DataRefs(p) = {}

-----------------------------------------------------------------------------
(* The memory system calls implement address spaces: a program sees only    *)
(* what it or another environment mapped on purpose, new pages read as      *)
(* zeroes, and the kernel's own bookkeeping never shows in anyone's memory. *)
Unborn == [va \in {} |-> None]     \* no address space at all
SpaceOf(e) ==
    IF e \in Live THEN [va \in VA |-> EntryOf(phys, pgdir[e], va)] ELSE Unborn
ContentOf(p) ==
    IF DataRefs(p) = {} THEN "none"
    ELSE IF phys.mem[p] = Cleared THEN "zero" ELSE "data"

AS == INSTANCE AddrSpaces WITH
        space <- [e \in Envs |-> SpaceOf(e)],
        content <- [p \in Pages |-> ContentOf(p)]

AddrSpacesSpec == AS!Spec
=============================================================================
