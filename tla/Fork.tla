-------------------------------- MODULE Fork --------------------------------
(***************************************************************************)
(* How programs make programs: fork with copy-on-write (lib/fork.c), the   *)
(* page-fault upcall that resolves it (lib/pgfault.c, page_fault_handler   *)
(* of kern/trap.c) and spawn (lib/spawn.c).  All of it is user code, which *)
(* edits page tables by system calls while it runs on the very pages it    *)
(* edits: its stack is one of them, so that a fault, and with it the whole *)
(* handler, may come between any two steps of fork itself.                 *)
(*                                                                         *)
(* One step is one system call, or the user code between two of them.      *)
(* Every program may be on a CPU of its own.                               *)
(***************************************************************************)
EXTENDS Integers, Sequences, FiniteSetsExt

CONSTANTS
    Envs,      \* slots of envs[]
    Root,      \* the program that is there first
    Written,   \* the values programs store
    Zero,      \* what a new page reads as
    Image      \* what the file and the arguments of a spawned program read as

ASSUME EnvsAssumption == Envs \subseteq Nat /\ Root \in Envs

VARIABLES
    pt,        \* pt[e][va]: the page table entry
    content,   \* content[f]: what page f holds
    stale,     \* stale[e]: where e lost a writable entry its CPU's TLB may still hold
    life,      \* env_status; "panicked" and "killed" are ends a program should not meet
    upcall,    \* env_pgfault_upcall is set
    handler,   \* _pgfault_handler is set, in the program's data
    call,      \* where the program is: in fork, in spawn, or in its own code
    fault      \* where its page-fault handler is, and the address it resolves

memVars == <<pt, content, stale>>
vars    == <<memVars, life, upcall, handler, call, fault>>

(* The addresses below USTACKTOP in their order, then the exception stack.  *)
(* One page stands for the data, one for the stack, one for a descriptor.   *)
Order   == <<"utemp", "pftemp", "data", "fd", "stack", "xstack">>
Below   == Len(Order) - 1
Private == {"data", "stack"}
VA      == {Order[i] : i \in 1 .. Len(Order)}

(* Which page a program gets is of no consequence.  A page is named by the  *)
(* number of the first entry that maps it.                                  *)
Number   == [e \in Envs |-> [va \in VA |->
               e * Len(Order) + (CHOOSE i \in 1 .. Len(Order) : Order[i] = va)]]
Frames   == UNION {{Number[e][va] : va \in VA} : e \in Envs}
Entry    == [f \in Frames |-> CHOOSE x \in Envs \X VA : Number[x[1]][x[2]] = f]
NoFrame  == 0
NewFrame == -1    \* a page on its way to its first entry, no page's name
Vals     == Written \cup {Zero, Image}

\* W, PTE_COW and PTE_SHARE; PTE_P and PTE_U are set in every entry.
Pte      == [frame : Frames \cup {NoFrame}, perm : SUBSET {"W", "COW", "SHARE"}]
Unmapped == [frame |-> NoFrame, perm |-> {}]
Nothing  == [va \in VA |-> Unmapped]

\* A panic ends in the monitor, which keeps the kernel's lock.
Stopped     == \E e \in Envs : life[e] = "panicked"
Alive(e)    == life[e] = "alive"
Runs(e)     == Alive(e) /\ ~ Stopped
CanStore(e, va) == "W" \in pt[e][va].perm

NoCall  == [pc |-> "run", child |-> 0, at |-> 0, perm |-> {}]
NoFault == [pc |-> "none", va |-> "stack"]

Init ==
    /\ pt = [e \in Envs |->
                IF e # Root THEN Nothing
                ELSE [va \in VA |->
                        IF va \notin Private \cup {"fd"} THEN Unmapped
                        ELSE [frame |-> Number[e][va],
                              perm |-> IF va = "fd" THEN {"W", "SHARE"} ELSE {"W"}]]]
    /\ life = [e \in Envs |-> IF e = Root THEN "alive" ELSE "free"]
    /\ content = [f \in Frames |-> Zero]
    /\ stale = [e \in Envs |-> {}]
    /\ upcall = [e \in Envs |-> FALSE]
    /\ handler = [e \in Envs |-> FALSE]
    /\ call = [e \in Envs |-> NoCall]
    /\ fault = [e \in Envs |-> NoFault]

-----------------------------------------------------------------------------
(* The system calls on memory (PhysMem has their detail).  A call that takes*)
(* a page, for the program or for one of its tables, may find none at any   *)
(* time: the rest of the system uses memory too.                            *)

(* The tables become p; what a page named f in p holds is c[f].  The pages  *)
(* get their names; those nobody has any more are gone.                     *)
Remap(p, c) ==
    LET Page(n) == p[Entry[n][1]][Entry[n][2]].frame
        Name(f) == Min({n \in Frames : Page(n) = f}) IN
    /\ pt' = [e \in Envs |-> [va \in VA |->
                IF p[e][va] = Unmapped THEN Unmapped
                ELSE [p[e][va] EXCEPT !.frame = Name(@)]]]
    /\ content' = [n \in Frames |->
                IF Page(n) = NoFrame \/ Name(Page(n)) < n THEN Zero ELSE c[Page(n)]]

InvalidatesOthers(by, e) == by # e          \* the bug "the test is the wrong way round"
\* tlb_invalidate flushes the entry if the page table is the caller's own.
Invalidates(by, e) == by = e

SetEntry(by, e, va, entry, c) ==
    /\ Remap([pt EXCEPT ![e][va] = entry], c)
    /\ stale' = [stale EXCEPT ![e] =
                    IF Invalidates(by, e) THEN @ \ {va}
                    ELSE IF Alive(e) /\ CanStore(e, va) THEN @ \cup {va} ELSE @]

SysPageAlloc(by, e, va, perm) ==
    SetEntry(by, e, va, [frame |-> NewFrame, perm |-> perm],
             [f \in Frames \cup {NewFrame} |-> IF f = NewFrame THEN Zero ELSE content[f]])

SysPageMap(by, src, sva, e, va, perm) ==
    /\ pt[src][sva] # Unmapped
    /\ "W" \in perm => CanStore(src, sva)
    /\ SetEntry(by, e, va, [frame |-> pt[src][sva].frame, perm |-> perm], content)

SysPageUnmap(by, e, va) == SetEntry(by, e, va, Unmapped, content)

EnvFreeLow(e) ==              \* the bug "the loop ends below the table of the stack"
    /\ Remap([pt EXCEPT ![e] = [Nothing EXCEPT !["stack"] = pt[e]["stack"]]], content)
    /\ stale' = [stale EXCEPT ![e] = {}]
\* env_free, once e no longer runs.
EnvFree(e) ==
    /\ Remap([pt EXCEPT ![e] = Nothing], content)
    /\ stale' = [stale EXCEPT ![e] = {}]

-----------------------------------------------------------------------------
(* Programs.  User code stores to its stack all the time, and cannot go on  *)
(* while a store faults.                                                    *)
StoresTo(e) == IF call[e].pc \in {"set_handler", "this_env"} THEN {"stack", "data"} ELSE {"stack"}

At(e, l) ==
    /\ Runs(e) /\ fault[e].pc = "none" /\ call[e].pc = l
    /\ \A va \in StoresTo(e) : CanStore(e, va)

Child(e)   == call[e].child
Goto(e, l) == call' = [call EXCEPT ![e].pc = l]
Return(e)  == call' = [call EXCEPT ![e] = NoCall]

Panic(e) ==
    /\ life' = [life EXCEPT ![e] = "panicked"]
    /\ UNCHANGED <<memVars, upcall, handler, call, fault>>

\* The program's own stores; one that faults is made again after the handler.
Store(e, va, v) ==
    /\ At(e, "run")
    /\ CanStore(e, va)
    /\ content' = [content EXCEPT ![pt[e][va].frame] = v]
    /\ UNCHANGED <<pt, stale, life, upcall, handler, call, fault>>

(* exit, or sys_env_destroy from its parent wherever it is.                 *)
Destroy(e) ==
    /\ Runs(e)
    /\ EnvFree(e)
    /\ life' = [life EXCEPT ![e] = "free"]
    /\ call' = [call EXCEPT ![e] = NoCall]
    /\ fault' = [fault EXCEPT ![e] = NoFault]
    /\ UNCHANGED <<upcall, handler>>

-----------------------------------------------------------------------------
(* trap.c, pfentry.S, fork.c: a store to a page that is not writable.  The   *)
(* return from the upcall pushes to the stack, which may fault in its turn: *)
(* that is here a second fault, after the first.                            *)

(* page_fault_handler: to the upcall, with the frame on the exception stack;*)
(* without either, the environment is destroyed.                            *)
PageFault(e, va) ==
    LET delivered == upcall[e] /\ CanStore(e, "xstack") IN
    /\ Runs(e) /\ fault[e].pc = "none"
    /\ va \in StoresTo(e) \/ (call[e].pc = "run" /\ va \in Private)
    /\ ~ CanStore(e, va)
    /\ fault' = [fault EXCEPT ![e] = IF delivered THEN [pc |-> "alloc", va |-> va] ELSE NoFault]
    /\ life' = [life EXCEPT ![e] = IF delivered THEN @ ELSE "killed"]
    /\ IF delivered THEN UNCHANGED memVars ELSE EnvFree(e)
    /\ UNCHANGED <<upcall, handler, call>>

InHandler(e, l)  == Runs(e) /\ fault[e].pc = l
FaultVa(e)       == fault[e].va
HandlerTo(e, l)  == fault' = [fault EXCEPT ![e].pc = l]

(* pgfault: the test of the entry, and the new page at PFTEMP.  It panics    *)
(* without memory; "killed" is what ends a program whose store is refused.  *)
PgfaultAlloc(e) ==
    LET isCow == "COW" \in pt[e][FaultVa(e)].perm IN
    /\ InHandler(e, "alloc")
    /\ \/ /\ isCow
          /\ SysPageAlloc(e, e, "pftemp", {"W"})
          /\ HandlerTo(e, "copy")
          /\ UNCHANGED life
       \/ /\ life' = [life EXCEPT ![e] = IF isCow THEN "panicked" ELSE "killed"]
          /\ UNCHANGED <<memVars, fault>>
    /\ UNCHANGED <<upcall, handler, call>>

PgfaultCopy(e) ==
    /\ InHandler(e, "copy")
    /\ content' = [content EXCEPT ![pt[e]["pftemp"].frame] = content[pt[e][FaultVa(e)].frame]]
    /\ HandlerTo(e, "unmap")
    /\ UNCHANGED <<pt, stale, life, upcall, handler, call>>

PgfaultUnmap(e) ==
    /\ InHandler(e, "unmap")
    /\ SysPageUnmap(e, e, FaultVa(e))
    /\ HandlerTo(e, "map")
    /\ UNCHANGED <<life, upcall, handler, call>>

PgfaultMapCow(e) ==                              \* the bug "the copy keeps the permissions"
    /\ InHandler(e, "map")
    /\ SysPageMap(e, e, "pftemp", e, FaultVa(e), {"COW"})
    /\ HandlerTo(e, "untemp")
    /\ UNCHANGED <<life, upcall, handler, call>>
(* The table of the address is there: this map needs no page.               *)
PgfaultMap(e) ==
    /\ InHandler(e, "map")
    /\ SysPageMap(e, e, "pftemp", e, FaultVa(e), {"W"})
    /\ HandlerTo(e, "untemp")
    /\ UNCHANGED <<life, upcall, handler, call>>

PgfaultUntemp(e) ==
    /\ InHandler(e, "untemp")
    /\ SysPageUnmap(e, e, "pftemp")
    /\ fault' = [fault EXCEPT ![e] = NoFault]
    /\ UNCHANGED <<life, upcall, handler, call>>

Handler(e) ==
    PgfaultAlloc(e) \/ PgfaultCopy(e) \/ PgfaultUnmap(e) \/ PgfaultMap(e) \/ PgfaultUntemp(e)

-----------------------------------------------------------------------------
(* fork.c                                                                   *)

(* fork: set_pgfault_handler, which needs an exception stack the first time.*)
ForkCall(e) ==
    /\ At(e, "run")
    /\ \/ /\ handler[e]
          /\ UNCHANGED <<memVars, life>> /\ Goto(e, "set_handler")
       \/ /\ ~ handler[e]
          /\ SysPageAlloc(e, e, "xstack", {"W"})
          /\ UNCHANGED life /\ Goto(e, "set_handler")
       \/ ~ handler[e] /\ Panic(e)
    /\ UNCHANGED <<upcall, handler, fault>>

SetHandler(e) ==
    /\ At(e, "set_handler")
    /\ handler' = [handler EXCEPT ![e] = TRUE]
    /\ Goto(e, "set_upcall")
    /\ UNCHANGED <<memVars, life, upcall, fault>>

SetUpcall(e) ==
    /\ At(e, "set_upcall")
    /\ upcall' = [upcall EXCEPT ![e] = TRUE]
    /\ Goto(e, "exofork")
    /\ UNCHANGED <<memVars, life, handler, fault>>

\* sys_exofork: an environment without memory and upcall, or an error.
Exofork(e, l) ==
    \/ \E c \in Envs :
        /\ life[c] = "free"
        /\ life' = [life EXCEPT ![c] = "embryo"]
        /\ upcall' = [upcall EXCEPT ![c] = FALSE]
        /\ call' = [call EXCEPT ![e] = [pc |-> l, child |-> c, at |-> 0, perm |-> {}]]
        /\ UNCHANGED <<memVars, handler, fault>>
    \/ /\ Return(e)
       /\ UNCHANGED <<memVars, life, upcall, handler, fault>>

ForkExofork(e) == At(e, "exofork") /\ Exofork(e, "next_page")

\* The first of the places from which a loop goes on that satisfies its test.
NextAt(e, Wanted(_)) ==
    Min({i \in call[e].at + 1 .. Below : Wanted(pt[e][Order[i]])} \cup {Below + 1})
Va(e) == Order[call[e].at]

\* duppage: the permissions under which parent and child will share the page.
DupPerm(entry) ==
    IF "SHARE" \in entry.perm THEN entry.perm
    ELSE IF entry.perm \cap {"W", "COW"} # {} THEN {"COW"} ELSE {}

(* The loop of fork: the next page that is mapped, its permissions as uvpt  *)
(* has them now.                                                            *)
NextPageAll(e) ==                    \* the bug "the loop goes up to the exception stack"
    /\ At(e, "next_page")
    /\ LET i == NextAt(e, LAMBDA entry : entry # Unmapped) IN
        IF i <= Below
        THEN call' = [call EXCEPT ![e] = [pc |-> "dup_child", child |-> Child(e), at |-> i,
                                           perm |-> DupPerm(pt[e][Order[i]])]]
             /\ UNCHANGED memVars
        ELSE /\ SysPageMap(e, e, "xstack", Child(e), "xstack", {"COW"})
             /\ Goto(e, "child_upcall")
    /\ UNCHANGED <<life, upcall, handler, fault>>
NextPage(e) ==
    /\ At(e, "next_page")
    /\ LET i == NextAt(e, LAMBDA entry : entry # Unmapped) IN
        IF i <= Below
        THEN call' = [call EXCEPT ![e] = [pc |-> "dup_child", child |-> Child(e), at |-> i,
                                           perm |-> DupPerm(pt[e][Order[i]])]]
        ELSE Goto(e, "child_xstack")
    /\ UNCHANGED <<memVars, life, upcall, handler, fault>>

(* duppage: the child's entry first, one's own after it.                    *)
DupChild(e) ==
    /\ At(e, "dup_child")
    /\ \/ /\ SysPageMap(e, e, Va(e), Child(e), Va(e), call[e].perm)
          /\ Goto(e, IF "COW" \in call[e].perm THEN "dup_own" ELSE "next_page")
          /\ UNCHANGED <<life, upcall, handler, fault>>
       \/ Panic(e)

DupOwnSkipped(e) ==                             \* the bug "one's own entry stays writable"
    /\ At(e, "dup_own")
    /\ Goto(e, "next_page")
    /\ UNCHANGED <<memVars, life, upcall, handler, fault>>
DupOwn(e) ==
    /\ At(e, "dup_own")
    /\ SysPageMap(e, e, Va(e), e, Va(e), call[e].perm)
    /\ Goto(e, "next_page")
    /\ UNCHANGED <<life, upcall, handler, fault>>

(* An exception stack of the child's own; an error returns and leaves the   *)
(* child as it is.                                                          *)
ChildXstack(e) ==
    /\ At(e, "child_xstack")
    /\ \/ SysPageAlloc(e, Child(e), "xstack", {"W"}) /\ Goto(e, "child_upcall")
       \/ Return(e) /\ UNCHANGED memVars
    /\ UNCHANGED <<life, upcall, handler, fault>>

ChildUpcall(e) ==
    /\ At(e, "child_upcall")
    /\ upcall' = [upcall EXCEPT ![Child(e)] = upcall[e]]
    /\ Goto(e, "start")
    /\ UNCHANGED <<memVars, life, handler, fault>>

\* sys_env_set_status: the child begins with the parent's data, where its
\* registers say: in fork, about to set thisenv, or at its own entry point.
Starts(e, l, withHandler) ==
    /\ life' = [life EXCEPT ![Child(e)] = "alive"]
    /\ handler' = [handler EXCEPT ![Child(e)] = withHandler]
    /\ call' = [call EXCEPT ![e] = NoCall, ![Child(e)] = [NoCall EXCEPT !.pc = l]]
    /\ UNCHANGED <<memVars, upcall, fault>>

ForkStart(e) == At(e, "start") /\ Starts(e, "this_env", handler[e])

ThisEnv(e) ==
    /\ At(e, "this_env")
    /\ Return(e)
    /\ UNCHANGED <<memVars, life, upcall, handler, fault>>

Forking(e) ==
    \/ SetHandler(e) \/ SetUpcall(e) \/ ForkExofork(e)
    \/ NextPage(e) \/ DupChild(e) \/ DupOwn(e)
    \/ ChildXstack(e) \/ ChildUpcall(e) \/ ForkStart(e) \/ ThisEnv(e)

-----------------------------------------------------------------------------
(* spawn.c, after the header of the file has been read.                     *)
SpawnExofork(e) == At(e, "run") /\ Exofork(e, "args")

\* A page at UTEMP that is filled here and then given to the child.
TempAlloc(e, l) == SysPageAlloc(e, e, "utemp", {"W"}) /\ Goto(e, l)
Fill(e, v) == content' = [content EXCEPT ![pt[e]["utemp"].frame] = v]
Give(e, va) == SysPageMap(e, e, "utemp", Child(e), va, {"W"})

(* init_stack: an error here returns from spawn and leaves the child.       *)
InitStack(e) ==
    /\ \/ At(e, "args") /\ TempAlloc(e, "args_fill")
       \/ At(e, "args") /\ Return(e) /\ UNCHANGED memVars
       \/ At(e, "args_map") /\ Give(e, "stack") /\ Goto(e, "args_unmap")
       \/ At(e, "args_map") /\ SysPageUnmap(e, e, "utemp") /\ Return(e)
       \/ At(e, "args_unmap") /\ SysPageUnmap(e, e, "utemp") /\ Goto(e, "segment")
    /\ UNCHANGED <<life, upcall, handler, fault>>
ArgsFill(e) ==
    /\ At(e, "args_fill")
    /\ Fill(e, Image)
    /\ Goto(e, "args_map")
    /\ UNCHANGED <<pt, stale, life, upcall, handler, fault>>

(* spawn's error path: the child is destroyed, UTEMP stays mapped.          *)
SpawnError(e) ==
    /\ EnvFree(Child(e))
    /\ life' = [life EXCEPT ![Child(e)] = "free"]
    /\ Return(e)

(* map_segment: a page of bss, or one read from the file.                   *)
MapSegment(e) ==
    /\ \/ /\ \/ At(e, "segment") /\ SysPageAlloc(e, Child(e), "data", {"W"})
                                 /\ Goto(e, "next_shared")
             \/ At(e, "segment") /\ TempAlloc(e, "read")
             \/ At(e, "seg_map") /\ Give(e, "data") /\ Goto(e, "seg_unmap")
             \/ At(e, "seg_unmap") /\ SysPageUnmap(e, e, "utemp") /\ Goto(e, "next_shared")
          /\ UNCHANGED life
       \/ At(e, "segment") /\ SpawnError(e)
       \/ At(e, "read") /\ SpawnError(e)
       \/ At(e, "seg_map") /\ Panic(e)
    /\ UNCHANGED <<upcall, handler, fault>>
SegmentRead(e) ==
    /\ At(e, "read")
    /\ Fill(e, Image)
    /\ Goto(e, "seg_map")
    /\ UNCHANGED <<pt, stale, life, upcall, handler, fault>>

(* copy_shared_pages: every page marked PTE_SHARE, as it is.                *)
CopySharedAll(e) ==                         \* the bug "PTE_SHARE is not tested"
    /\ At(e, "next_shared")
    /\ LET i == NextAt(e, LAMBDA entry : entry # Unmapped) IN
        \/ /\ i <= Below
           /\ SysPageMap(e, e, Order[i], Child(e), Order[i], pt[e][Order[i]].perm)
           /\ call' = [call EXCEPT ![e].at = i]
           /\ UNCHANGED life
        \/ i <= Below /\ Panic(e)
        \/ i > Below /\ Goto(e, "spawned") /\ UNCHANGED <<memVars, life>>
    /\ UNCHANGED <<upcall, handler, fault>>
CopyShared(e) ==
    /\ At(e, "next_shared")
    /\ LET i == NextAt(e, LAMBDA entry : "SHARE" \in entry.perm) IN
        \/ /\ i <= Below
           /\ SysPageMap(e, e, Order[i], Child(e), Order[i], pt[e][Order[i]].perm)
           /\ call' = [call EXCEPT ![e].at = i]
           /\ UNCHANGED life
        \/ i <= Below /\ Panic(e)
        \/ i > Below /\ Goto(e, "spawned") /\ UNCHANGED <<memVars, life>>
    /\ UNCHANGED <<upcall, handler, fault>>

SpawnStart(e) == At(e, "spawned") /\ Starts(e, "run", FALSE)

Spawning(e) ==
    InitStack(e) \/ ArgsFill(e) \/ MapSegment(e) \/ SegmentRead(e) \/ CopyShared(e) \/ SpawnStart(e)

-----------------------------------------------------------------------------
Program(e) ==
    \/ ForkCall(e) \/ SpawnExofork(e) \/ Destroy(e)
    \/ \E va \in {"data", "fd"}, v \in Written : Store(e, va, v)

Library(e) == Handler(e) \/ Forking(e) \/ Spawning(e) \/ (\E va \in VA : PageFault(e, va))

Next == \E e \in Envs : Program(e) \/ Library(e)

Spec == Init /\ [][Next]_vars

-----------------------------------------------------------------------------
(* Properties                                                               *)

(* Types; a slot nobody uses has no memory.                                 *)
TypeOK ==
    /\ pt \in [Envs -> [VA -> Pte]]
    /\ content \in [Frames -> Vals]
    /\ stale \in [Envs -> SUBSET VA]
    /\ life \in [Envs -> {"free", "embryo", "alive", "panicked", "killed"}]
    /\ upcall \in [Envs -> BOOLEAN] /\ handler \in [Envs -> BOOLEAN]
    /\ \A e \in Envs : life[e] \in {"free", "killed"} => pt[e] = Nothing

\* A page that is being handed over: the steps of duppage, of pgfault and of
\* spawn between the second mapping and the end of the first.
InHand(f) ==
    \E e \in Envs :
        \/ call[e].pc = "dup_own" /\ pt[e][Va(e)].frame = f
        \/ fault[e].pc = "untemp" /\ pt[e]["pftemp"].frame = f
        \/ call[e].pc \in {"args_unmap", "seg_unmap"} /\ pt[e]["utemp"].frame = f

(* No program can store to a page another one reads, except where PTE_SHARE *)
(* asks for it: through no interleaving of forks, faults and spawns.        *)
Isolated ==
    \A e \in Envs : \A va \in {a \in VA : CanStore(e, a)} :
        LET f == pt[e][va].frame IN
        InHand(f) \/ \A y \in {x \in Envs \X VA : pt[x[1]][x[2]].frame = f} :
            y = <<e, va>> \/ "SHARE" \in pt[e][va].perm \cap pt[y[1]][y[2]].perm

(* No program that runs has lost a writable entry its TLB may still hold:   *)
(* tlb_invalidate flushes this CPU's only, and that is enough.              *)
TlbCurrent == \A e \in Envs : stale[e] = {}

(* A store to one's own memory always succeeds: the upcall and a writable   *)
(* exception stack are there whenever a page is copy-on-write, and the      *)
(* handler finds the page it was called for.                                *)
StoresSucceed == \A e \in Envs : life[e] # "killed"

(* When the handler returns, the store that faulted succeeds: it does not   *)
(* fault for ever, and the memory below the handler has not changed back.   *)
FaultResolved ==
    [][\A e \in Envs :
        fault[e].pc # "none" /\ fault'[e].pc = "none" =>
            life'[e] # "alive" \/ "W" \in pt'[e][FaultVa(e)].perm]_vars

-----------------------------------------------------------------------------
(* Programs see separate memories.  What a program reads at an address that *)
(* pgfault has just unmapped is in the copy at PFTEMP.                      *)
Reads(e, va) ==
    content[pt[e][IF fault[e].pc = "map" /\ FaultVa(e) = va THEN "pftemp" ELSE va].frame]
Sharers(e) == {x \in Envs : Alive(x) /\ Alive(e) /\ pt[x]["fd"].frame = pt[e]["fd"].frame}

M == INSTANCE Memories WITH
        Images <- {[a \in Private |-> IF a = "stack" THEN Image ELSE v] : v \in {Zero, Image}},
        alive <- {e \in Envs : Alive(e)},
        mem <- [e \in Envs |-> [a \in Private |-> IF Alive(e) THEN Reads(e, a) ELSE Zero]],
        sharers <- [e \in Envs |-> Sharers(e)],
        value <- [e \in Envs |-> IF Alive(e) THEN content[pt[e]["fd"].frame] ELSE Zero]

MemoriesSpec == M!Spec
=============================================================================
