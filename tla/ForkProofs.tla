----------------------------- MODULE ForkProofs -----------------------------
(***************************************************************************)
(* Proofs about Fork for any number of programs.                           *)
(*                                                                         *)
(* The first part is about what may be stored to; it needs to know nothing *)
(* of pages: Perm is all it sees of a page table.  The second is about     *)
(* pages: who can store to one has it alone, but for what PTE_SHARE shares *)
(* and what a program is just handing over.  The third is about what the   *)
(* pages hold: the programs have the memories of Memories.                 *)
(***************************************************************************)
EXTENDS Fork, Induction, TLAPS

\* p is made of entries; where they lead does not matter here.
Memory(p) ==
    /\ p = [e \in Envs |-> [va \in VA |-> p[e][va]]]
    /\ \A e \in Envs, va \in VA :
        p[e][va] = [frame |-> p[e][va].frame, perm |-> p[e][va].perm]
Perm(e, va) == pt[e][va].perm

(* The addresses, in their order.                                           *)
LEMMA VALemma ==
    /\ VA = {"utemp", "pftemp", "data", "fd", "stack", "xstack"}
    /\ Below = 5
    /\ \A i \in 1 .. 5 : Order[i] \in VA /\ Order[i] # "xstack"
    /\ Order[3] = "data" /\ Order[5] = "stack"
    /\ \A i \in 1 .. 5 : Order[i] \in Private => i \in {3, 5}
<1>1. Len(Order) = 6 /\ DOMAIN Order = 1 .. 6
  BY DEF Order
<1>2. /\ Order[1] = "utemp" /\ Order[2] = "pftemp" /\ Order[3] = "data"
      /\ Order[4] = "fd" /\ Order[5] = "stack" /\ Order[6] = "xstack"
  BY DEF Order
<1>3. \A i \in 1 .. 6 : i = 1 \/ i = 2 \/ i = 3 \/ i = 4 \/ i = 5 \/ i = 6
  OBVIOUS
<1>4. VA = {"utemp", "pftemp", "data", "fd", "stack", "xstack"}
  BY <1>1, <1>2, <1>3 DEF VA
<1>5. Below = 5
  BY <1>1 DEF Below
<1>6. QED
  BY <1>2, <1>4, <1>5 DEF Private

(* Naming the pages anew changes no permission.                             *)
LEMMA RemapLemma ==
    ASSUME NEW p, Memory(p), NEW c, Remap(p, c)
    PROVE  Memory(pt') /\ \A e \in Envs, va \in VA : Perm(e, va)' = p[e][va].perm
<1> DEFINE Q(e, va) == [frame |-> p[e][va].frame, perm |-> p[e][va].perm]
           Page(n) == p[Entry[n][1]][Entry[n][2]].frame
           Name(f) == Min({n \in Frames : Page(n) = f})
           R(e, va) == IF p[e][va] = Unmapped THEN Unmapped
                       ELSE [p[e][va] EXCEPT !.frame = Name(@)]
<1>1. pt' = [e \in Envs |-> [va \in VA |-> R(e, va)]]
  BY DEF Remap
<1>2. ASSUME NEW e \in Envs, NEW va \in VA
      PROVE  R(e, va) = [frame |-> R(e, va).frame, perm |-> p[e][va].perm]
  <2>1. p[e][va] = Q(e, va)
    BY DEF Memory
  <2> HIDE DEF Page, Name
  <2>2. CASE p[e][va] = Unmapped
    BY <2>2 DEF Unmapped
  <2>3. CASE p[e][va] # Unmapped
    <3>1. R(e, va) = [Q(e, va) EXCEPT !.frame = Name(@)]
      BY <2>1, <2>3
    <3>2. R(e, va) = [frame |-> Name(p[e][va].frame), perm |-> p[e][va].perm]
      BY <3>1
    <3>3. QED  BY <3>2
  <2>4. QED  BY <2>2, <2>3
<1> HIDE DEF R
<1>3. \A e \in Envs, va \in VA : pt'[e][va] = R(e, va)
  BY <1>1
<1>4. \A e \in Envs, va \in VA : pt'[e][va].perm = p[e][va].perm
  BY <1>2, <1>3
<1>5. /\ pt' = [e \in Envs |-> [va \in VA |-> pt'[e][va]]]
      /\ \A e \in Envs, va \in VA :
            pt'[e][va] = [frame |-> pt'[e][va].frame, perm |-> pt'[e][va].perm]
  BY <1>1, <1>2, <1>3, <1>4
<1>6. QED  BY <1>4, <1>5 DEF Memory, Perm

-----------------------------------------------------------------------------
\* Where a program is in fork, before and after it has a child; where a spawned
\* child has a stack, and its data; where a program has a child at all.
Forked   == {"next_page", "dup_child", "dup_own", "child_xstack", "child_upcall", "start"}
InFork   == {"set_handler", "set_upcall", "exofork"} \cup Forked
Stacked  == {"args_unmap", "segment", "read", "seg_map", "seg_unmap", "next_shared", "spawned"}
Loaded   == {"seg_unmap", "next_shared", "spawned"}
Building == Forked \cup {"args", "args_fill", "args_map"} \cup Stacked

\* The records of call and fault, whatever their fields hold.
Calls(c) ==
    /\ c = [e \in Envs |-> c[e]]
    /\ \A e \in Envs : /\ c[e] = [pc |-> c[e].pc, child |-> c[e].child, at |-> c[e].at, perm |-> c[e].perm]
                       /\ c[e].at \in 0 .. 5
Faults(f) ==
    /\ f = [e \in Envs |-> f[e]]
    /\ \A e \in Envs : f[e] = [pc |-> f[e].pc, va |-> f[e].va]

TypeInv ==
    /\ Memory(pt)
    /\ stale \in [Envs -> SUBSET VA]
    /\ life \in [Envs -> {"free", "embryo", "alive", "panicked", "killed"}]
    /\ upcall \in [Envs -> BOOLEAN]
    /\ handler \in [Envs -> BOOLEAN]
    /\ Calls(call)
    /\ Faults(fault)

Ready(e) == upcall[e] /\ CanStore(e, "xstack")

\* What makes every store of a program succeed: its memory is writable or
\* copy-on-write, and in the second case the upcall and its stack are there.
Sound(e) ==
    /\ \A va \in Private :
        /\ "SHARE" \notin Perm(e, va)
        /\ \/ "W" \in Perm(e, va)
           \/ "COW" \in Perm(e, va)
           \/ fault[e].pc = "map" /\ fault[e].va = va
        /\ "W" \in Perm(e, va) \/ Ready(e)
    /\ handler[e] \/ call[e].pc \in InFork => "W" \in Perm(e, "xstack")
    /\ call[e].pc \in Forked \cup {"exofork"} => upcall[e]
    /\ fault[e].pc # "none" => fault[e].va \in Private /\ Ready(e)
    /\ fault[e].pc \in {"alloc", "copy", "unmap"} => "COW" \in Perm(e, fault[e].va)
    /\ fault[e].pc = "untemp" => "W" \in Perm(e, fault[e].va)

\* The loop of fork has given the child the page at Order[i].
Copied(e, i) ==
    \/ i < call[e].at
    \/ i = call[e].at /\ call[e].pc # "dup_child"
    \/ call[e].pc \in {"child_xstack", "child_upcall", "start"}

\* What e has made of the child c so far.  Nobody else makes it, and it does not run.
Made(e, c) ==
    /\ life[c] = "embryo"
    /\ \A d \in Envs \ {e} : call[d].pc \in Building => Child(d) # c
    /\ call[e].pc \in Forked => \A i \in 1 .. 5 : Order[i] \in Private /\ Copied(e, i) =>
          "COW" \in Perm(c, Order[i]) /\ "SHARE" \notin Perm(c, Order[i])
    /\ call[e].pc \in {"dup_child", "dup_own"} =>
          call[e].at \in 1 .. 5 /\ (Va(e) \in Private => call[e].perm = {"COW"})
    /\ call[e].pc \in {"child_upcall", "start"} => "W" \in Perm(c, "xstack")
    /\ call[e].pc = "start" => upcall[c]
    /\ call[e].pc \in Stacked => Perm(c, "stack") = {"W"}
    /\ call[e].pc \in Loaded => Perm(c, "data") = {"W"}

Growing(e) == \E c \in Envs : c = Child(e) /\ Made(e, c)

\* The inductive invariant.
EnvInv(e) ==
    /\ life[e] # "killed"
    /\ life[e] \in {"free", "embryo"} => fault[e].pc = "none" /\ call[e].pc = "run"
    /\ life[e] = "alive" => Sound(e)
    /\ call[e].pc \in Building => Growing(e)

IInv == TypeInv /\ TlbCurrent /\ \A e \in Envs : EnvInv(e)

(* The first program has its memory, and no child.                          *)
LEMMA InitLemma == Init => IInv
<1> SUFFICES ASSUME Init  PROVE IInv
  OBVIOUS
<1> USE EnvsAssumption, VALemma
<1>1. Memory(pt)
  BY DEF Init, Memory, Nothing, Unmapped
<1>2. TypeInv /\ TlbCurrent
  BY <1>1 DEF Init, TypeInv, NoCall, NoFault, TlbCurrent, Calls, Faults
<1>3. ASSUME NEW e \in Envs PROVE EnvInv(e)
  BY DEF Init, EnvInv, Sound, Perm, CanStore, Ready, Private, NoCall, NoFault,
         Building, Forked, Stacked, InFork
<1>4. QED  BY <1>2, <1>3 DEF IInv

(* A changed entry is the only one that changes.  No TLB holds what was     *)
(* there: the memory is the caller's own, or that of a child that does not *)
(* run.                                                                     *)
LEMMA SetEntryLemma ==
    ASSUME TypeInv, TlbCurrent, NEW by \in Envs, NEW e \in Envs, NEW va \in VA,
           NEW entry, entry = [frame |-> entry.frame, perm |-> entry.perm], NEW c,
           SetEntry(by, e, va, entry, c), by = e \/ life[e] # "alive"
    PROVE  /\ Memory(pt)' /\ stale' = stale
           /\ \A x \in Envs, a \in VA :
                Perm(x, a)' = IF x = e /\ a = va THEN entry.perm ELSE Perm(x, a)
<1> DEFINE p == [pt EXCEPT ![e][va] = entry]
<1>1. /\ Memory(p)
      /\ \A x \in Envs, a \in VA :
            p[x][a].perm = IF x = e /\ a = va THEN entry.perm ELSE Perm(x, a)
  <2>1. \A x \in Envs, a \in VA : p[x][a] = IF x = e /\ a = va THEN entry ELSE pt[x][a]
    BY DEF TypeInv, Memory
  <2>2. p = [x \in Envs |-> [a \in VA |-> p[x][a]]]
    BY DEF TypeInv, Memory
  <2>3. QED  BY <2>1, <2>2 DEF TypeInv, Memory, Perm
<1>2. Remap(p, c)
  BY DEF SetEntry
<1> HIDE DEF p
<1>3. Memory(pt') /\ \A x \in Envs, a \in VA : Perm(x, a)' = p[x][a].perm
  BY <1>1, <1>2, RemapLemma
<1>4. stale' = stale
  BY DEF SetEntry, Invalidates, Alive, TlbCurrent, TypeInv
<1>5. QED  BY <1>1, <1>3, <1>4 DEF Memory

(* The same for the three system calls.                                     *)
LEMMA SysPageAllocLemma ==
    ASSUME TypeInv, TlbCurrent, NEW by \in Envs, NEW e \in Envs, NEW va \in VA,
           NEW perm, by = e \/ life[e] # "alive", SysPageAlloc(by, e, va, perm)
    PROVE  /\ Memory(pt)' /\ stale' = stale
           /\ \A x \in Envs, a \in VA :
                Perm(x, a)' = IF x = e /\ a = va THEN perm ELSE Perm(x, a)
  BY SetEntryLemma DEF SysPageAlloc

\* sys_page_map.
LEMMA SysPageMapLemma ==
    ASSUME TypeInv, TlbCurrent, NEW by \in Envs, NEW e \in Envs, NEW va \in VA,
           NEW perm, by = e \/ life[e] # "alive",
           NEW src \in Envs, NEW sva \in VA, SysPageMap(by, src, sva, e, va, perm)
    PROVE  /\ Memory(pt)' /\ stale' = stale
           /\ \A x \in Envs, a \in VA :
                Perm(x, a)' = IF x = e /\ a = va THEN perm ELSE Perm(x, a)
<1>1. PICK f : f = pt[src][sva].frame
  OBVIOUS
<1> DEFINE entry == [frame |-> f, perm |-> perm]
<1>2. entry = [frame |-> entry.frame, perm |-> entry.perm] /\ entry.perm = perm
  OBVIOUS
<1>3. SetEntry(by, e, va, entry, content)
  BY <1>1 DEF SysPageMap
<1> HIDE DEF entry
<1>4. QED  BY <1>2, <1>3, SetEntryLemma

\* sys_page_unmap.
LEMMA SysPageUnmapLemma ==
    ASSUME TypeInv, TlbCurrent, NEW by \in Envs, NEW e \in Envs, NEW va \in VA,
           by = e \/ life[e] # "alive", SysPageUnmap(by, e, va)
    PROVE  /\ Memory(pt)' /\ stale' = stale
           /\ \A x \in Envs, a \in VA :
                Perm(x, a)' = IF x = e /\ a = va THEN {} ELSE Perm(x, a)
  BY SetEntryLemma DEF SysPageUnmap, Unmapped

(* env_free changes the entries of one environment only.                    *)
LEMMA EnvFreeLemma ==
    ASSUME TypeInv, TlbCurrent, NEW e \in Envs, EnvFree(e)
    PROVE  /\ Memory(pt)' /\ stale' = stale
           /\ \A x \in Envs \ {e}, a \in VA : Perm(x, a)' = Perm(x, a)
<1> DEFINE p == [pt EXCEPT ![e] = Nothing]
<1>1. Memory(p) /\ \A x \in Envs \ {e}, a \in VA : p[x][a].perm = Perm(x, a)
  <2>1. \A x \in Envs, a \in VA : p[x][a] = IF x = e THEN Unmapped ELSE pt[x][a]
    BY DEF TypeInv, Memory, Nothing
  <2>2. p = [x \in Envs |-> [a \in VA |-> p[x][a]]]
    BY DEF TypeInv, Memory, Nothing
  <2>3. QED  BY <2>1, <2>2 DEF TypeInv, Memory, Perm, Unmapped
<1>2. Remap(p, content)
  BY DEF EnvFree
<1> HIDE DEF p
<1>3. Memory(pt') /\ \A x \in Envs, a \in VA : Perm(x, a)' = p[x][a].perm
  BY <1>1, <1>2, RemapLemma
<1>4. stale' = stale
  BY DEF EnvFree, TlbCurrent, TypeInv
<1>5. QED  BY <1>1, <1>3, <1>4 DEF Memory

-----------------------------------------------------------------------------
\* A step leaves program x alone.
Same(x) ==
    /\ life'[x] = life[x] /\ upcall'[x] = upcall[x] /\ handler'[x] = handler[x]
    /\ call'[x] = call[x] /\ fault'[x] = fault[x]
    /\ \A a \in VA : Perm(x, a)' = Perm(x, a)

(* A step of e that leaves all others alone, save perhaps a child c of its  *)
(* own, keeps the invariant for them.                                       *)
LEMMA OthersLemma ==
    ASSUME IInv, NEW e \in Envs, life[e] = "alive", NEW c \in Envs,
           \/ c = e
           \/ life[c] = "free" /\ life'[c] = "embryo"
           \/ call[e].pc \in Building /\ c = Child(e),
           c # e => call'[c].pc \notin Building,
           \A y \in Envs \ {e, c} : Same(y),
           call'[e].pc \in Building =>
             \/ call[e].pc \in Building /\ Child(e)' = Child(e)
             \/ life[c] = "free" /\ Child(e)' = c,
           NEW x \in Envs \ {e, c}
    PROVE  EnvInv(x)'
<1> USE VALemma DEF Same, IInv
<1>1. EnvInv(x)
  OBVIOUS
<1>2. life[x] = "alive" => Sound(x)'
  BY <1>1 DEF EnvInv, Sound, Ready, CanStore, Perm, Private
<1>3. ASSUME call[x].pc \in Building  PROVE Growing(x)'
  <2>1. PICK k \in Envs : k = Child(x) /\ Made(x, k)
    BY <1>1, <1>3 DEF EnvInv, Growing
  <2>2. k # e /\ k # c
    BY <1>3, <2>1 DEF Made
  <2>3. Same(k) /\ call'[x] = call[x]
    BY <2>2
  <2>4. \A d \in Envs \ {x} : call'[d].pc \in Building => call'[d].child # k
    BY <1>3, <2>1, <2>2 DEF Made, Child
  <2>5. \A i \in 1 .. 5 : Copied(x, i)' = Copied(x, i) /\ Perm(k, Order[i])' = Perm(k, Order[i])
    BY <2>3 DEF Copied
  <2>6. Made(x, k)'
    BY <2>1, <2>3, <2>4, <2>5 DEF Made, Child, Va
  <2>7. QED
    BY <2>1, <2>3, <2>6 DEF Growing, Child
<1>4. QED  BY <1>1, <1>2, <1>3 DEF EnvInv

(* It then suffices to look at e,                                           *)
LEMMA OwnStepLemma ==
    ASSUME IInv, NEW e \in Envs, life[e] = "alive",
           \A y \in Envs \ {e} : Same(y),
           call'[e].pc \in Building => call[e].pc \in Building /\ Child(e)' = Child(e),
           TypeInv', TlbCurrent', EnvInv(e)'
    PROVE  IInv'
<1>1. \A x \in Envs \ {e} : EnvInv(x)'
  BY OthersLemma
<1>2. QED  BY <1>1 DEF IInv

(* or at e and its child.                                                   *)
LEMMA ChildStepLemma ==
    ASSUME IInv, NEW e \in Envs, life[e] = "alive", NEW c \in Envs \ {e},
           \/ life[c] = "free" /\ life'[c] = "embryo" /\ Child(e)' = c
           \/ call[e].pc \in Building /\ c = Child(e) /\ Child(e)' = Child(e)
           \/ call[e].pc \in Building /\ c = Child(e) /\ call'[e].pc \notin Building,
           call'[c].pc \notin Building,
           \A y \in Envs \ {e, c} : Same(y),
           TypeInv', TlbCurrent', EnvInv(e)', EnvInv(c)'
    PROVE  IInv'
<1>1. \A x \in Envs \ {e, c} : EnvInv(x)'
  BY OthersLemma
<1>2. QED  BY <1>1 DEF IInv

(* Going to a place changes nothing else of a call.                         *)
LEMMA GotoLemma ==
    ASSUME TypeInv, NEW e \in Envs, NEW l, Goto(e, l)
    PROVE  /\ Calls(call)' /\ \A x \in Envs \ {e} : call'[x] = call[x]
           /\ call'[e].pc = l /\ call'[e].child = call[e].child
           /\ call'[e].at = call[e].at /\ call'[e].perm = call[e].perm
<1>1. \A x \in Envs : call'[x] = IF x = e THEN [call[e] EXCEPT !.pc = l] ELSE call[x]
  BY DEF TypeInv, Calls, Goto
<1>2. call' = [x \in Envs |-> call'[x]]
  BY DEF TypeInv, Calls, Goto
<1>3. call[e] = [pc |-> call[e].pc, child |-> call[e].child, at |-> call[e].at, perm |-> call[e].perm]
  BY DEF TypeInv, Calls
<1>4. call'[e] = [pc |-> l, child |-> call[e].child, at |-> call[e].at, perm |-> call[e].perm]
  BY <1>1, <1>3
<1>5. QED  BY <1>1, <1>2, <1>4 DEF TypeInv, Calls

(* Returning ends it.                                                       *)
LEMMA ReturnCallLemma ==
    ASSUME TypeInv, NEW e \in Envs, Return(e)
    PROVE  /\ Calls(call)' /\ \A x \in Envs \ {e} : call'[x] = call[x]
           /\ call'[e] = NoCall /\ call'[e].pc = "run"
<1>1. \A x \in Envs : call'[x] = IF x = e THEN NoCall ELSE call[x]
  BY DEF TypeInv, Calls, Return
<1>2. call' = [x \in Envs |-> call'[x]]
  BY DEF TypeInv, Calls, Return
<1>5. QED  BY <1>1, <1>2 DEF TypeInv, Calls, NoCall

(* A step of e that changes no entry of e.                                  *)
LEMMA SoundLemma ==
    ASSUME NEW e \in Envs, Sound(e), \A a \in VA : Perm(e, a)' = Perm(e, a),
           fault'[e] = fault[e], upcall[e] => upcall'[e],
           handler'[e] \/ call'[e].pc \in InFork => "W" \in Perm(e, "xstack"),
           call'[e].pc \in Forked \cup {"exofork"} => upcall'[e]
    PROVE  Sound(e)'
<1>1. Private \subseteq VA /\ "xstack" \in VA
  BY VALemma DEF Private
<1>2. Ready(e) => Ready(e)'
  BY <1>1 DEF Ready, CanStore, Perm
<1>3. fault[e].pc \in {"alloc", "copy", "unmap", "untemp"} => fault[e].va \in VA
  BY <1>1 DEF Sound
<1>4. QED  BY <1>1, <1>2, <1>3 DEF Sound, Perm

(* A store changes what a page holds, and no more.                          *)
LEMMA StoreLemma ==
    ASSUME IInv, NEW e \in Envs, NEW va \in VA, NEW v, Store(e, va, v) PROVE IInv'
<1>1. TypeInv' /\ TlbCurrent'
  BY DEF IInv, TypeInv, TlbCurrent, Store, Memory, Calls, Faults
<1>2. \A y \in Envs : Same(y)
  BY DEF Store, Same, Perm
<1>3. life[e] = "alive" 
  BY DEF Store, At, Runs, Alive
<1>4. EnvInv(e)'
  BY SMTT(30) DEF IInv, EnvInv, Sound, Growing, Made, Store, Perm, Ready, CanStore, Child, Va, Copied
<1>5. QED  BY <1>1, <1>2, <1>3, <1>4, OwnStepLemma DEF Store, Child

(* A panic ends the program.                                                *)
LEMMA PanicLemma ==
    ASSUME IInv, NEW e \in Envs, life[e] = "alive", Panic(e) PROVE IInv'
<1>1. TypeInv' /\ TlbCurrent'
  BY DEF IInv, TypeInv, TlbCurrent, Panic, Memory, memVars, Calls, Faults
<1>2. \A y \in Envs \ {e} : Same(y)
  BY DEF IInv, TypeInv, Panic, Same, Perm, memVars
<1>4. EnvInv(e)'
  <2>1. life'[e] = "panicked"
    BY DEF IInv, TypeInv, Panic
  <2>2. ASSUME call[e].pc \in Building PROVE Growing(e)'
    <3>1. PICK c \in Envs : c = Child(e) /\ Made(e, c)
      BY <2>2, SMTT(30) DEF IInv, EnvInv, Growing
    <3>2. Made(e, c)'
      BY <3>1 DEF Made, Panic, memVars, Child, Va, Copied, Perm, IInv, TypeInv
    <3>3. QED  BY <3>1, <3>2 DEF Growing, Child, Panic
  <2>3. QED  BY <2>1, <2>2 DEF EnvInv, Panic
<1>5. QED  BY <1>1, <1>2, <1>4, OwnStepLemma DEF Panic, Child

(* The beginning of fork: the handler,                                      *)
LEMMA SetHandlerLemma ==
    ASSUME IInv, NEW e \in Envs, SetHandler(e) PROVE IInv'
<1>1. TypeInv' /\ TlbCurrent'
  BY GotoLemma DEF IInv, TypeInv, TlbCurrent, SetHandler, Memory, Faults, memVars
<1>2. \A y \in Envs \ {e} : Same(y)
  BY GotoLemma DEF IInv, TypeInv, SetHandler, Same, Perm, memVars
<1>3. life[e] = "alive" /\ call[e].pc = "set_handler" /\ call'[e].pc = "set_upcall"
  BY GotoLemma DEF SetHandler, At, Runs, Alive, IInv
<1>4. EnvInv(e)'
  <2>1. Sound(e)
    BY <1>3 DEF IInv, EnvInv
  <2>2. "W" \in Perm(e, "xstack")
    BY <1>3, <2>1 DEF Sound, InFork
  <2>3. upcall[e] => upcall'[e]
    BY DEF SetHandler, IInv, TypeInv
  <2>4. call'[e].pc \in Forked \cup {"exofork"} => upcall'[e]
    BY <1>3 DEF SetHandler, Forked, IInv, TypeInv
  <2>5. Sound(e)'
    BY <2>1, <2>2, <2>3, <2>4, SoundLemma DEF SetHandler, memVars, Perm
  <2>6. QED
    BY <1>3, <2>5 DEF EnvInv, SetHandler, Building, Forked, Stacked
<1>5. QED  BY <1>1, <1>2, <1>3, <1>4, OwnStepLemma DEF Building, Forked, Stacked

(* the upcall,                                                              *)
LEMMA SetUpcallLemma ==
    ASSUME IInv, NEW e \in Envs, SetUpcall(e) PROVE IInv'
<1>1. TypeInv' /\ TlbCurrent'
  BY GotoLemma DEF IInv, TypeInv, TlbCurrent, SetUpcall, Memory, Faults, memVars
<1>2. \A y \in Envs \ {e} : Same(y)
  BY GotoLemma DEF IInv, TypeInv, SetUpcall, Same, Perm, memVars
<1>3. life[e] = "alive" /\ call[e].pc = "set_upcall" /\ call'[e].pc = "exofork"
  BY GotoLemma DEF SetUpcall, At, Runs, Alive, IInv
<1>4. EnvInv(e)'
  <2>1. Sound(e)
    BY <1>3 DEF IInv, EnvInv
  <2>2. "W" \in Perm(e, "xstack")
    BY <1>3, <2>1 DEF Sound, InFork
  <2>3. upcall[e] => upcall'[e]
    BY DEF SetUpcall, IInv, TypeInv
  <2>4. call'[e].pc \in Forked \cup {"exofork"} => upcall'[e]
    BY <1>3 DEF SetUpcall, Forked, IInv, TypeInv
  <2>5. Sound(e)'
    BY <2>1, <2>2, <2>3, <2>4, SoundLemma DEF SetUpcall, memVars, Perm
  <2>6. QED
    BY <1>3, <2>5 DEF EnvInv, SetUpcall, Building, Forked, Stacked
<1>5. QED  BY <1>1, <1>2, <1>3, <1>4, OwnStepLemma DEF Building, Forked, Stacked

(* and, as in many places, the return with an error.                        *)
LEMMA ReturnLemma ==
    ASSUME IInv, NEW e \in Envs, life[e] = "alive", Return(e),
           UNCHANGED <<memVars, life, upcall, handler, fault>>
    PROVE  IInv'
<1>1. TypeInv' /\ TlbCurrent'
  BY ReturnCallLemma DEF IInv, TypeInv, TlbCurrent, Memory, Faults, memVars
<1>2. \A y \in Envs \ {e} : Same(y)
  BY ReturnCallLemma DEF IInv, TypeInv, Same, Perm, memVars
<1>3. call'[e].pc = "run"
  BY ReturnCallLemma DEF IInv
<1>4. EnvInv(e)'
  <2>1. Sound(e)
    BY DEF IInv, EnvInv
  <2>2. handler[e] => "W" \in Perm(e, "xstack")
    BY <2>1 DEF Sound
  <2>3. Sound(e)'
    BY <1>3, <2>1, <2>2, SoundLemma DEF memVars, Perm, Forked, InFork
  <2>4. QED
    BY <1>3, <2>3 DEF EnvInv, Building, Forked, Stacked
<1>5. QED  BY <1>1, <1>2, <1>3, <1>4, OwnStepLemma DEF Building, Forked, Stacked

(* A new child belongs to the program that asked for it, and has nothing.   *)
LEMMA ExoforkLemma ==
    ASSUME IInv, NEW e \in Envs, NEW l,
           \/ l = "args" /\ At(e, "run")
           \/ l = "next_page" /\ At(e, "exofork"), 
           Exofork(e, l)
    PROVE  IInv'
<1>1. life[e] = "alive"
  BY DEF At, Runs, Alive
<1>2. CASE /\ Return(e)
           /\ UNCHANGED <<memVars, life, upcall, handler, fault>>
  BY <1>1, <1>2, ReturnLemma
<1>3. ASSUME NEW c \in Envs, life[c] = "free",
             life' = [life EXCEPT ![c] = "embryo"],
             upcall' = [upcall EXCEPT ![c] = FALSE],
             call' = [call EXCEPT ![e] = [pc |-> l, child |-> c, at |-> 0, perm |-> {}]],
             UNCHANGED <<memVars, handler, fault>>
      PROVE  IInv'
  <2>1. TypeInv' /\ TlbCurrent'
    <3>1. Calls(call)'
      <4>2. call' = [x \in Envs |-> IF x = e THEN [pc |-> l, child |-> c, at |-> 0, perm |-> {}] ELSE call[x]]
        BY <1>3 DEF IInv, TypeInv, Calls
      <4>3. \A x \in Envs :
              call'[x] = IF x = e THEN [pc |-> l, child |-> c, at |-> 0, perm |-> {}] ELSE call[x]
        BY <4>2
      <4>4. call' = [x \in Envs |-> call'[x]]
        BY <4>2
      <4>5. QED  BY <4>3, <4>4 DEF IInv, TypeInv, Calls
    <3>2. QED  BY <1>3, <3>1 DEF IInv, TypeInv, TlbCurrent, Memory, Faults, memVars
  <2>2. \A y \in Envs \ {e, c} : Same(y)
    BY <1>3 DEF IInv, TypeInv, Calls, Same, Perm, memVars
  <2>3. /\ c # e /\ call'[e].pc = l /\ call'[e].child = c /\ call'[e].at = 0
        /\ call'[c] = call[c] /\ life'[c] = "embryo" /\ life'[e] = "alive"
        /\ upcall'[e] = upcall[e] /\ call[c].pc = "run" /\ fault[c].pc = "none"
    BY <1>1, <1>3 DEF IInv, TypeInv, Calls, NoCall, EnvInv
  <2>4. EnvInv(c)'
    BY <1>3, <2>3 DEF EnvInv, Building, Forked, Stacked
  <2>5. Sound(e)'
    <3>1. Sound(e)
      BY <1>1 DEF IInv, EnvInv
    <3>2. l = "next_page" => "W" \in Perm(e, "xstack") /\ upcall[e]
      BY <3>1 DEF Sound, At, InFork
    <3>3. handler[e] => "W" \in Perm(e, "xstack")
      BY <3>1 DEF Sound
    <3>4. l = "args" => l \notin InFork /\ l \notin Forked \cup {"exofork"}
      BY DEF InFork, Forked
    <3>5. QED
      BY <1>3, <2>3, <3>1, <3>2, <3>3, <3>4, SoundLemma DEF memVars, Perm
  <2>6. \A d \in Envs \ {e} : call'[d].pc \in Building => call'[d].child # c
    <3>1. ASSUME NEW d \in Envs \ {e}, call[d].pc \in Building  PROVE call[d].child # c
      BY <1>3, <3>1 DEF IInv, EnvInv, Growing, Made, Child
    <3>2. QED  BY <3>1, <1>3 DEF IInv, TypeInv, Calls
  <2>7. Made(e, c)'
    BY <2>3, <2>6 DEF Made, Forked, Stacked, Loaded, Child, Copied
  <2>8. EnvInv(e)'
    BY <2>3, <2>5, <2>7 DEF EnvInv, Growing, Child
  <2>9. QED
    BY <1>1, <1>3, <2>1, <2>2, <2>3, <2>4, <2>8, ChildStepLemma DEF Child, Building, Forked, Stacked
<1>4. QED  BY <1>2, <1>3 DEF Exofork

(* What is known of a program that may take a step of its library.          *)
LEMMA AtLemma ==
    ASSUME IInv, NEW e \in Envs, NEW l, At(e, l)
    PROVE  /\ life[e] = "alive" /\ fault[e].pc = "none" /\ call[e].pc = l /\ Sound(e)
           /\ l \in Building => \E c \in Envs \ {e} :
                 /\ c = Child(e) /\ Made(e, c) /\ life[c] = "embryo"
                 /\ call[c].pc = "run" /\ fault[c].pc = "none"
<1>1. life[e] = "alive" /\ fault[e].pc = "none" /\ call[e].pc = l /\ Sound(e)
  BY DEF At, Runs, Alive, IInv, EnvInv
<1>2. ASSUME l \in Building
      PROVE  \E c \in Envs \ {e} :
                 /\ c = Child(e) /\ Made(e, c) /\ life[c] = "embryo"
                 /\ call[c].pc = "run" /\ fault[c].pc = "none"
  <2>1. PICK c \in Envs : c = Child(e) /\ Made(e, c)
    BY <1>1, <1>2 DEF IInv, EnvInv, Growing
  <2>2. c # e /\ life[c] = "embryo"
    BY <1>1, <2>1 DEF Made
  <2>3. QED  BY <2>1, <2>2 DEF IInv, EnvInv
<1>3. QED  BY <1>1, <1>2

(* The least element of a small set of numbers.                             *)
LEMMA MinLemma ==
    ASSUME NEW T, T \subseteq 1 .. 6, 6 \in T
    PROVE  Min(T) \in T /\ \A y \in T : Min(T) <= y
<1>1. \E x \in T : \A y \in T : x <= y
  <2>1. \A x \in T : x = 1 \/ x = 2 \/ x = 3 \/ x = 4 \/ x = 5 \/ x = 6
    OBVIOUS
  <2>2. 1 \in T \/ (2 \in T /\ 1 \notin T) \/ (3 \in T /\ 1 \notin T /\ 2 \notin T)
        \/ (4 \in T /\ 1 \notin T /\ 2 \notin T /\ 3 \notin T)
        \/ (5 \in T /\ 1 \notin T /\ 2 \notin T /\ 3 \notin T /\ 4 \notin T)
        \/ (1 \notin T /\ 2 \notin T /\ 3 \notin T /\ 4 \notin T /\ 5 \notin T)
    OBVIOUS
  <2>3. QED  BY <2>1, <2>2
<1>2. QED  BY <1>1 DEF Min

(* Steps that change no entry keep the types.                               *)
LEMMA TypeLemma ==
    ASSUME IInv, Calls(call)', UNCHANGED <<pt, stale, fault>>,
           life' \in [Envs -> {"free", "embryo", "alive", "panicked", "killed"}],
           handler' \in [Envs -> BOOLEAN], upcall' \in [Envs -> BOOLEAN]
    PROVE  TypeInv' /\ TlbCurrent'
  BY DEF IInv, TypeInv, TlbCurrent, Memory, Faults

(* So do those that change the calls only.                                  *)
LEMMA QuietLemma ==
    ASSUME IInv, Calls(call)', UNCHANGED <<pt, stale, life, upcall, handler, fault>>
    PROVE  TypeInv' /\ TlbCurrent'
  BY DEF IInv, TypeInv, TlbCurrent, Memory, Faults

(* The loop of fork passes over no page of the program's memory, since all  *)
(* are mapped.                                                              *)
LEMMA NextPageLemma ==
    ASSUME IInv, NEW e \in Envs, NextPage(e) PROVE IInv'
<1> DEFINE T == {i \in call[e].at + 1 .. Below : pt[e][Order[i]] # Unmapped} \cup {Below + 1}
           n == Min(T)
<1> USE VALemma
<1>1. /\ life[e] = "alive" /\ fault[e].pc = "none" /\ call[e].pc = "next_page" /\ Sound(e)
      /\ call[e].pc \in Building /\ call[e].pc \in Forked
  BY AtLemma DEF NextPage, Building, Forked
<1>2. PICK c \in Envs \ {e} : c = Child(e) /\ Made(e, c)
  BY <1>1, AtLemma DEF NextPage
<1>3. /\ n \in 1 .. 6 /\ n > call[e].at
      /\ n <= 5 => pt[e][Order[n]] # Unmapped
      /\ \A i \in call[e].at + 1 .. 5 : i < n => pt[e][Order[i]] = Unmapped
  <2>1. call[e].at \in 0 .. 5
    BY DEF IInv, TypeInv, Calls
  <2>2. T \subseteq 1 .. 6 /\ 6 \in T
    BY <2>1
  <2>3. n \in T /\ \A y \in T : n <= y
    BY <2>2, MinLemma
  <2> HIDE DEF n
  <2>4. QED  BY <2>1, <2>2, <2>3
<1>4. \A i \in 1 .. 5 : Order[i] \in Private /\ i < n => Copied(e, i)
  <2>1. \A i \in 1 .. 5 : Order[i] \in Private => pt[e][Order[i]] # Unmapped
    BY <1>1 DEF Sound, Perm, Unmapped
  <2> HIDE DEF n
  <2>2. call[e].at \in 0 .. 5
    BY DEF IInv, TypeInv, Calls
  <2>3. QED  BY <1>1, <1>3, <2>1, <2>2 DEF Copied
<1>5. n <= 5 /\ Order[n] \in Private => DupPerm(pt[e][Order[n]]) = {"COW"}
  <2> HIDE DEF n
  <2>1. QED  BY <1>1, <1>3 DEF Sound, DupPerm, Perm
<1>6. /\ n <= 5 => call' = [call EXCEPT ![e] = [pc |-> "dup_child", child |-> Child(e), at |-> n,
                                               perm |-> DupPerm(pt[e][Order[n]])]]
      /\ n > 5 => Goto(e, "child_xstack")
      /\ UNCHANGED <<memVars, life, upcall, handler, fault>>
  <2>1. NextAt(e, LAMBDA entry : entry # Unmapped) = n
    BY DEF NextAt
  <2> HIDE DEF n
  <2>2. QED  BY <1>3, <2>1 DEF NextPage
<1> HIDE DEF n
<1>7. /\ Calls(call)' /\ call'[e].child = c /\ call'[e].at \in 0 .. 5
      /\ n <= 5 => call'[e].pc = "dup_child" /\ call'[e].at = n /\ call'[e].perm = DupPerm(pt[e][Order[n]])
      /\ n > 5 => call'[e].pc = "child_xstack"
      /\ \A x \in Envs \ {e} : call'[x] = call[x]
  <2>1. CASE n <= 5
    <3>1. \A x \in Envs : call'[x] = IF x = e THEN [pc |-> "dup_child", child |-> Child(e), at |-> n,
                                               perm |-> DupPerm(pt[e][Order[n]])] ELSE call[x]
      BY <1>6, <2>1 DEF IInv, TypeInv, Calls
    <3>2. call' = [x \in Envs |-> call'[x]]
      BY <1>6, <2>1 DEF IInv, TypeInv, Calls
    <3>3. QED  BY <1>2, <1>3, <2>1, <3>1, <3>2 DEF IInv, TypeInv, Calls
  <2>2. CASE n > 5
    BY <1>2, <1>3, <1>6, <2>2, GotoLemma DEF IInv, TypeInv, Calls, Child
  <2>3. QED  BY <1>3, <2>1, <2>2
<1>8. TypeInv' /\ TlbCurrent'
  BY <1>6, <1>7, QuietLemma DEF memVars
<1>9. \A y \in Envs \ {e} : Same(y)
  BY <1>6, <1>7 DEF Same, Perm, memVars
<1>10. call'[e].pc \in Forked
  BY <1>3, <1>7 DEF Forked
<1>11. Sound(e)'
  <2>1. "W" \in Perm(e, "xstack") /\ upcall[e]
    BY <1>1 DEF Sound, InFork
  <2>2. QED  BY <1>1, <1>6, <2>1, SoundLemma DEF memVars, Perm
<1>12. Made(e, c)'
  <2>1. \A i \in 1 .. 5 : Order[i] \in Private /\ Copied(e, i)' => Copied(e, i)
    BY <1>3, <1>4, <1>7 DEF Copied
  <2>2. \A d \in Envs \ {e} : call'[d].pc \in Building => call'[d].child # c
    BY <1>2, <1>7 DEF Made, Child
  <2>3. \A i \in 1 .. 5 : Order[i] \in Private /\ Copied(e, i)' =>
          "COW" \in Perm(c, Order[i])' /\ "SHARE" \notin Perm(c, Order[i])'
    BY <1>1, <1>2, <1>6, <2>1 DEF Made, memVars, Perm
  <2>4. call'[e].pc = "dup_child" \/ call'[e].pc = "child_xstack"
    BY <1>3, <1>7
  <2>5. call'[e].pc = "dup_child" =>
          /\ call'[e].at \in 1 .. 5
          /\ Order[call'[e].at] \in Private => call'[e].perm = {"COW"}
    BY <1>3, <1>5, <1>7
  <2>6. QED
    BY <1>2, <1>6, <2>2, <2>3, <2>4, <2>5 DEF Made, Stacked, Loaded, Child, Va
<1>13. EnvInv(e)'
  BY <1>1, <1>2, <1>6, <1>7, <1>11, <1>12 DEF EnvInv, Growing, Child
<1>14. QED
  BY <1>1, <1>2, <1>7, <1>8, <1>9, <1>13, OwnStepLemma DEF Child

(* Steps that change entries and calls keep the types.                      *)
LEMMA MemStepLemma ==
    ASSUME IInv, Memory(pt)', stale' = stale, Calls(call)',
           UNCHANGED <<life, upcall, handler, fault>>
    PROVE  TypeInv' /\ TlbCurrent'
  BY DEF IInv, TypeInv, TlbCurrent, Faults

(* A step of e that changes its own memory, and what it is in.              *)
LEMMA OwnMemLemma ==
    ASSUME IInv, NEW e \in Envs, life[e] = "alive",
           Memory(pt)', stale' = stale, Calls(call)', Faults(fault)',
           UNCHANGED <<life, upcall, handler>>,
           \A x \in Envs \ {e} : /\ call'[x] = call[x] /\ fault'[x] = fault[x]
                                 /\ \A a \in VA : Perm(x, a)' = Perm(x, a),
           Sound(e)',
           call'[e].pc \in Building =>
             /\ call[e].pc \in Building /\ Child(e)' = Child(e)
             /\ \A c \in Envs \ {e} : c = Child(e) => Made(e, c)'
    PROVE  IInv'
<1>1. TypeInv' /\ TlbCurrent'
  BY DEF IInv, TypeInv, TlbCurrent
<1>2. \A y \in Envs \ {e} : Same(y)
  BY DEF Same
<1>3. ASSUME call'[e].pc \in Building  PROVE Growing(e)'
  <2>1. PICK c \in Envs : c = Child(e) /\ Made(e, c)
    BY <1>3 DEF IInv, EnvInv, Growing
  <2>2. c # e
    BY <2>1 DEF Made
  <2>3. Made(e, c)' /\ Child(e)' = c
    BY <1>3, <2>1, <2>2
  <2>4. QED  BY <2>3 DEF Growing
<1>4. EnvInv(e)'
  BY <1>3 DEF EnvInv
<1>5. QED  BY <1>1, <1>2, <1>4, OwnStepLemma

(* A step of e that gives its child an entry.                               *)
LEMMA ChildMemLemma ==
    ASSUME IInv, NEW e \in Envs, life[e] = "alive", call[e].pc \in Building,
           NEW c \in Envs \ {e}, c = Child(e), Made(e, c),
           NEW w \in VA, NEW q,
           \/ SysPageAlloc(e, c, w, q)
           \/ \E v \in VA : SysPageMap(e, e, v, c, w, q),
           Calls(call)', \A x \in Envs \ {e} : call'[x] = call[x],
           UNCHANGED <<life, upcall, handler, fault>>,
           call'[e].child = c, call'[e].pc \in Building,
           call'[e].pc \in Forked => "W" \in Perm(e, "xstack") /\ upcall[e],
           (\A x \in Envs, a \in VA :
              Perm(x, a)' = IF x = c /\ a = w THEN q ELSE Perm(x, a)) => Made(e, c)'
    PROVE  IInv'
<1>1. life[c] = "embryo" /\ call[c].pc = "run" /\ fault[c].pc = "none"
  BY DEF Made, IInv, EnvInv
<1>2. TypeInv /\ TlbCurrent /\ life[c] # "alive" /\ c \in Envs
  BY <1>1 DEF IInv
<1>3. /\ Memory(pt)' /\ stale' = stale
      /\ \A x \in Envs, a \in VA :
           Perm(x, a)' = IF x = c /\ a = w THEN q ELSE Perm(x, a)
  <2>1. CASE SysPageAlloc(e, c, w, q)
    BY ONLY <1>2, <2>1, w \in VA, e \in Envs, SysPageAllocLemma
  <2>2. CASE \E v \in VA : SysPageMap(e, e, v, c, w, q)
    <3>1. PICK v \in VA : SysPageMap(e, e, v, c, w, q)
      BY <2>2
    <3>2. QED  BY ONLY <1>2, <3>1, v \in VA, w \in VA, e \in Envs, SysPageMapLemma
  <2>3. QED  BY <2>1, <2>2
<1>4. TypeInv' /\ TlbCurrent'
  BY <1>3, MemStepLemma
<1>5. \A y \in Envs \ {e, c} : Same(y)
  BY <1>3 DEF Same
<1>6. Sound(e)'
  <2>1. \A a \in VA : Perm(e, a)' = Perm(e, a)
    BY <1>3
  <2>2. Sound(e)
    BY DEF IInv, EnvInv
  <2>3. handler[e] \/ call'[e].pc \in InFork => "W" \in Perm(e, "xstack")
    BY <2>2 DEF Sound, InFork, Building, Forked, Stacked
  <2>4. call'[e].pc \in Forked \cup {"exofork"} => upcall[e]
    BY DEF Building, Forked, Stacked
  <2>5. QED  BY <2>1, <2>2, <2>3, <2>4, SoundLemma
<1>7. Made(e, c)'
  BY <1>3
<1>8. EnvInv(e)' /\ EnvInv(c)'
  BY <1>1, <1>6, <1>7 DEF EnvInv, Growing, Child, Building, Forked, Stacked
<1>9. QED
  BY <1>1, <1>4, <1>5, <1>8, ChildStepLemma DEF Child, Building, Forked, Stacked

(* Nobody else gets the child of e by a step of e.                          *)
LEMMA OthersChildLemma ==
    ASSUME IInv, NEW e \in Envs, NEW c, Made(e, c), call[e].pc \in Building,
           \A x \in Envs \ {e} : call'[x] = call[x]
    PROVE  \A d \in Envs \ {e} : call'[d].pc \in Building => call'[d].child # c
  BY DEF Made, Child

(* duppage gives the child an entry that is copy-on-write, if it is memory. *)
LEMMA DupChildLemma ==
    ASSUME IInv, NEW e \in Envs, DupChild(e) PROVE IInv'
<1>1. /\ life[e] = "alive" /\ fault[e].pc = "none" /\ call[e].pc = "dup_child" /\ Sound(e)
      /\ call[e].pc \in Building
  BY AtLemma DEF DupChild, Building, Forked
<1>2. PICK c \in Envs \ {e} : /\ c = Child(e) /\ Made(e, c) /\ life[c] = "embryo"
                            /\ call[c].pc = "run" /\ fault[c].pc = "none"
  BY AtLemma DEF DupChild, Building, Forked
<1>3. CASE Panic(e)
  BY <1>1, <1>3, PanicLemma
<1>4. CASE /\ SysPageMap(e, e, Va(e), Child(e), Va(e), call[e].perm)
           /\ Goto(e, IF "COW" \in call[e].perm THEN "dup_own" ELSE "next_page")
           /\ UNCHANGED <<life, upcall, handler, fault>>
  <2>1. PICK n, q : n = call[e].at /\ q = call[e].perm
    OBVIOUS
  <2>2. n \in 1 .. 5 /\ Va(e) = Order[n] /\ (Order[n] \in Private => q = {"COW"})
    BY <1>1, <1>2, <2>1 DEF Made, Va
  <2>3. PICK w \in VA : w = Order[n]
    BY <2>2, VALemma
  <2>4. SysPageMap(e, e, w, c, w, q)
    BY <1>2, <1>4, <2>1, <2>2, <2>3
  <2>5. /\ Calls(call)' /\ \A x \in Envs \ {e} : call'[x] = call[x]
        /\ call'[e].pc = (IF "COW" \in q THEN "dup_own" ELSE "next_page")
        /\ call'[e].child = c /\ call'[e].at = n /\ call'[e].perm = q
    BY <1>2, <1>4, <2>1, GotoLemma DEF IInv, Child
  <2>6. call'[e].pc \in Building /\ "W" \in Perm(e, "xstack") /\ upcall[e]
    BY <1>1, <2>5 DEF Building, Forked, InFork, Sound
  <2>7. ASSUME \A x \in Envs, a \in VA : Perm(x, a)' = IF x = c /\ a = w THEN q ELSE Perm(x, a)
        PROVE  Made(e, c)'
    <3>1. \A d \in Envs \ {e} : call'[d].pc \in Building => call'[d].child # c
      BY <1>1, <1>2, <2>5, OthersChildLemma
    <3>2. ASSUME NEW i \in 1 .. 5, Order[i] \in Private, Copied(e, i)'
          PROVE  "COW" \in Perm(c, Order[i])' /\ "SHARE" \notin Perm(c, Order[i])'
      <4>1. Order[i] \in VA
        BY VALemma
      <4>2. CASE Copied(e, i)
        BY <1>1, <1>2, <2>2, <2>3, <2>7, <3>2, <4>1, <4>2 DEF Made, Forked
      <4>3. CASE ~ Copied(e, i)
        <5>1. i = n
          BY <1>1, <2>1, <2>2, <2>5, <3>2, <4>3 DEF Copied
        <5>2. QED  BY <2>2, <2>3, <2>7, <3>2, <4>1, <5>1
      <4>4. QED  BY <4>2, <4>3
    <3>3. /\ call'[e].at \in 1 .. 5
          /\ Order[call'[e].at] \in Private => call'[e].perm = {"COW"}
      BY <2>2, <2>5
    <3>4. QED
      BY <1>2, <1>4, <2>5, <3>1, <3>2, <3>3 DEF Made, Stacked, Loaded, Child, Va
  <2>8. QED
    BY <1>1, <1>2, <1>4, <2>3, <2>4, <2>5, <2>6, <2>7, ChildMemLemma
<1>5. QED  BY <1>3, <1>4 DEF DupChild

(* It then makes its own entry copy-on-write, when the upcall is ready.     *)
LEMMA DupOwnLemma ==
    ASSUME IInv, NEW e \in Envs, DupOwn(e) PROVE IInv'
<1>1. /\ life[e] = "alive" /\ fault[e].pc = "none" /\ call[e].pc = "dup_own" /\ Sound(e)
      /\ call[e].pc \in Building
  BY AtLemma DEF DupOwn, Building, Forked
<1>2. PICK c \in Envs \ {e} : c = Child(e) /\ Made(e, c)
  BY AtLemma DEF DupOwn, Building, Forked
<1>3. PICK n, q : n = call[e].at /\ q = call[e].perm
  OBVIOUS
<1>4. n \in 1 .. 5 /\ Va(e) = Order[n] /\ (Order[n] \in Private => q = {"COW"})
  BY <1>1, <1>2, <1>3 DEF Made, Va
<1>5. PICK w \in VA : w = Order[n] /\ w # "xstack"
  BY <1>4, VALemma
<1>6. /\ Memory(pt)' /\ stale' = stale
      /\ \A x \in Envs, a \in VA :
           Perm(x, a)' = IF x = e /\ a = w THEN q ELSE Perm(x, a)
  <2>1. SysPageMap(e, e, w, e, w, q)
    BY <1>3, <1>4, <1>5 DEF DupOwn
  <2>2. TypeInv /\ TlbCurrent
    BY DEF IInv
  <2>3. QED  BY ONLY <2>1, <2>2, w \in VA, e \in Envs, SysPageMapLemma
<1>7. /\ Calls(call)' /\ \A x \in Envs \ {e} : call'[x] = call[x]
      /\ call'[e].pc = "next_page"
      /\ call'[e].child = c /\ call'[e].at = n
  BY <1>2, <1>3, GotoLemma DEF DupOwn, IInv, Child
<1>8. Sound(e)'
  <2>1. "xstack" \in VA /\ Private \subseteq VA
    BY VALemma DEF Private
  <2>2. "W" \in Perm(e, "xstack") /\ upcall[e]
    BY <1>1 DEF Sound, Forked, InFork
  <2>3. Perm(e, "xstack")' = Perm(e, "xstack")
    BY <1>5, <1>6, <2>1
  <2>4. \A a \in Private : "SHARE" \notin Perm(e, a)' /\ ("W" \in Perm(e, a)' \/ "COW" \in Perm(e, a)')
    BY <1>1, <1>4, <1>5, <1>6, <2>1 DEF Sound
  <2>5. Ready(e)' /\ fault'[e].pc = "none" /\ upcall'[e]
    BY <1>1, <2>2, <2>3 DEF Ready, CanStore, Perm, DupOwn
  <2>6. QED  BY <2>2, <2>3, <2>4, <2>5 DEF Sound
<1>9. Made(e, c)'
  <2>1. \A d \in Envs \ {e} : call'[d].pc \in Building => call'[d].child # c
    BY <1>1, <1>2, <1>7, OthersChildLemma
  <2>2. \A i \in 1 .. 5 : Copied(e, i)' => Copied(e, i)
    BY <1>1, <1>3, <1>7 DEF Copied
  <2>3. \A i \in 1 .. 5 : Perm(c, Order[i])' = Perm(c, Order[i])
    BY <1>6, VALemma
  <2>4. QED
    BY <1>1, <1>2, <1>7, <2>1, <2>2, <2>3 DEF Made, DupOwn, Stacked, Loaded, Child, Va, Forked
<1>10. QED
  BY <1>1, <1>2, <1>6, <1>7, <1>8, <1>9, OwnMemLemma DEF DupOwn, IInv, TypeInv, Child, Faults

(* The child's exception stack,                                             *)
LEMMA ChildXstackLemma ==
    ASSUME IInv, NEW e \in Envs, ChildXstack(e) PROVE IInv'
<1>1. /\ life[e] = "alive" /\ call[e].pc = "child_xstack" /\ Sound(e) /\ call[e].pc \in Building
  BY AtLemma DEF ChildXstack, Building, Forked
<1>2. PICK c \in Envs \ {e} : c = Child(e) /\ Made(e, c)
  BY AtLemma DEF ChildXstack, Building, Forked
<1>3. CASE Return(e) /\ UNCHANGED memVars
  BY <1>1, <1>3, ReturnLemma DEF ChildXstack
<1>4. CASE SysPageAlloc(e, Child(e), "xstack", {"W"}) /\ Goto(e, "child_upcall")
  <2>1. /\ Calls(call)' /\ \A x \in Envs \ {e} : call'[x] = call[x]
        /\ call'[e].pc = "child_upcall" /\ call'[e].child = c
    BY <1>2, <1>4, GotoLemma DEF IInv, Child
  <2>2. "W" \in Perm(e, "xstack") /\ upcall[e]
    BY <1>1 DEF Sound, Forked, InFork
  <2>3. ASSUME \A x \in Envs, a \in VA : Perm(x, a)' = IF x = c /\ a = "xstack" THEN {"W"} ELSE Perm(x, a)
        PROVE  Made(e, c)'
    <3>1. \A d \in Envs \ {e} : call'[d].pc \in Building => call'[d].child # c
      BY <1>1, <1>2, <2>1, OthersChildLemma
    <3>2. \A i \in 1 .. 5 : Perm(c, Order[i])' = Perm(c, Order[i]) /\ Copied(e, i)
      BY <1>1, <2>3, VALemma DEF Copied
    <3>3. "W" \in Perm(c, "xstack")'
      BY <2>3, VALemma
    <3>4. QED
      BY <1>1, <1>2, <2>1, <3>1, <3>2, <3>3 DEF Made, Forked, Stacked, Loaded, Child, ChildXstack
  <2>4. SysPageAlloc(e, c, "xstack", {"W"}) /\ "xstack" \in VA
    BY <1>2, <1>4, VALemma
  <2>5. QED
    BY <1>1, <1>2, <2>1, <2>2, <2>3, <2>4, ChildMemLemma DEF ChildXstack, Building, Forked
<1>5. QED  BY <1>3, <1>4 DEF ChildXstack

(* and its upcall.                                                          *)
LEMMA ChildUpcallLemma ==
    ASSUME IInv, NEW e \in Envs, ChildUpcall(e) PROVE IInv'
<1>1. /\ life[e] = "alive" /\ call[e].pc = "child_upcall" /\ Sound(e) /\ call[e].pc \in Building
  BY AtLemma DEF ChildUpcall, Building, Forked
<1>2. PICK c \in Envs \ {e} : /\ c = Child(e) /\ Made(e, c) /\ life[c] = "embryo"
                            /\ call[c].pc = "run" /\ fault[c].pc = "none"
  BY AtLemma DEF ChildUpcall, Building, Forked
<1>3. /\ Calls(call)' /\ \A x \in Envs \ {e} : call'[x] = call[x]
      /\ call'[e].pc = "start" /\ call'[e].child = c
  BY <1>2, GotoLemma DEF IInv, Child, ChildUpcall
<1>4. "W" \in Perm(e, "xstack") /\ upcall[e]
  BY <1>1 DEF Sound, Forked, InFork
<1>5. upcall' = [upcall EXCEPT ![c] = TRUE]
  BY <1>2, <1>4 DEF ChildUpcall
<1>6. TypeInv' /\ TlbCurrent'
  <2>1. upcall' \in [Envs -> BOOLEAN]
    BY <1>5 DEF IInv, TypeInv
  <2>2. UNCHANGED <<pt, stale, life, handler, fault>>
    BY DEF ChildUpcall, memVars
  <2>3. QED  BY <1>3, <2>1, <2>2, TypeLemma DEF IInv, TypeInv
<1>7. upcall'[c] /\ \A x \in Envs \ {c} : upcall'[x] = upcall[x]
  BY <1>5 DEF IInv, TypeInv
<1>8. \A y \in Envs \ {e, c} : Same(y)
  BY <1>3, <1>7 DEF ChildUpcall, Same, memVars, Perm
<1>9. Sound(e)'
  BY <1>1, <1>4, <1>7, SoundLemma DEF ChildUpcall, memVars, Perm
<1>10. Made(e, c)'
  <2>1. \A d \in Envs \ {e} : call'[d].pc \in Building => call'[d].child # c
    BY <1>1, <1>2, <1>3, OthersChildLemma
  <2>2. \A i \in 1 .. 5 : Copied(e, i)
    BY <1>1 DEF Copied
  <2>3. QED
    BY <1>1, <1>2, <1>3, <1>7, <2>1, <2>2 DEF Made, Forked, Stacked, Loaded, Child, ChildUpcall, memVars, Perm
<1>11. EnvInv(e)' /\ EnvInv(c)'
  BY <1>1, <1>2, <1>3, <1>9, <1>10 DEF EnvInv, Growing, Child, Building, Forked, Stacked, ChildUpcall
<1>12. QED
  BY <1>1, <1>2, <1>3, <1>6, <1>8, <1>11, ChildStepLemma DEF Child, Building, Forked, Stacked

(* The child starts: what its maker has given it is what a program needs.   *)
LEMMA StartsLemma ==
    ASSUME IInv, NEW e \in Envs, NEW l, NEW h \in BOOLEAN, Starts(e, l, h),
           \/ At(e, "start") /\ l = "this_env"
           \/ At(e, "spawned") /\ l = "run" /\ ~ h
    PROVE  IInv'
<1>1. /\ life[e] = "alive" /\ fault[e].pc = "none" /\ Sound(e) /\ call[e].pc \in Building
      /\ call[e].pc = "start" \/ (call[e].pc = "spawned" /\ ~ h)
      /\ l \in {"run", "this_env"}
  BY AtLemma DEF Building, Forked, Stacked
<1>2. PICK c \in Envs \ {e} : /\ c = Child(e) /\ Made(e, c) /\ life[c] = "embryo"
                            /\ call[c].pc = "run" /\ fault[c].pc = "none"
  BY AtLemma DEF Building, Forked, Stacked
<1>3. \A x \in Envs : call'[x] = IF x = c THEN [NoCall EXCEPT !.pc = l] ELSE IF x = e THEN NoCall ELSE call[x]
  BY <1>2 DEF Starts, IInv, TypeInv, Calls
<1>4. [NoCall EXCEPT !.pc = l] = [pc |-> l, child |-> 0, at |-> 0, perm |-> {}]
  BY DEF NoCall
<1>5. Calls(call)'
  <2>1. call' = [x \in Envs |-> call'[x]]
    BY DEF Starts, IInv, TypeInv, Calls
  <2>2. QED  BY <1>3, <1>4, <2>1 DEF IInv, TypeInv, Calls, NoCall
<1>6. /\ call'[e].pc = "run" /\ call'[c].pc = l
      /\ life'[e] = "alive" /\ life'[c] = "alive"
      /\ handler'[e] = handler[e] /\ handler'[c] = h
      /\ \A x \in Envs \ {e, c} : call'[x] = call[x] /\ life'[x] = life[x] /\ handler'[x] = handler[x]
  <2>1. life' = [life EXCEPT ![c] = "alive"] /\ handler' = [handler EXCEPT ![c] = h]
    BY <1>2 DEF Starts
  <2>2. /\ life'[e] = "alive" /\ life'[c] = "alive" /\ handler'[e] = handler[e] /\ handler'[c] = h
        /\ \A x \in Envs \ {e, c} : life'[x] = life[x] /\ handler'[x] = handler[x]
    BY <1>1, <2>1 DEF IInv, TypeInv
  <2>3. call'[c] = [NoCall EXCEPT !.pc = l] /\ call'[e] = NoCall
        /\ \A x \in Envs \ {e, c} : call'[x] = call[x]
    BY <1>3
  <2>4. call'[c].pc = l /\ call'[e].pc = "run"
    BY <1>4, <2>3 DEF NoCall
  <2>5. QED  BY <2>2, <2>3, <2>4
<1>7. TypeInv' /\ TlbCurrent'
  <2>1. /\ life' \in [Envs -> {"free", "embryo", "alive", "panicked", "killed"}]
        /\ handler' \in [Envs -> BOOLEAN]
    BY <1>2 DEF Starts, IInv, TypeInv
  <2>2. UNCHANGED <<pt, stale, upcall, fault>>
    BY DEF Starts, memVars
  <2>3. QED  BY <1>5, <2>1, <2>2, TypeLemma DEF IInv, TypeInv
<1>8. \A y \in Envs \ {e, c} : Same(y)
  BY <1>6 DEF Starts, Same, memVars, Perm
<1>9. Sound(e)'
  <2>1. handler[e] => "W" \in Perm(e, "xstack")
    BY <1>1 DEF Sound
  <2>2. QED
    BY <1>1, <1>6, <2>1, SoundLemma DEF Starts, memVars, Perm, InFork, Forked
<1>10. Sound(c)'
  <2>1. fault'[c].pc = "none" /\ call'[c].pc \notin InFork /\ call'[c].pc \notin Forked \cup {"exofork"}
    BY <1>1, <1>2, <1>6 DEF Starts, InFork, Forked
  <2>2. CASE call[e].pc = "start"
    <3>1. upcall[c] /\ "W" \in Perm(c, "xstack")
      BY <1>2, <2>2 DEF Made
    <3>2. \A i \in 1 .. 5 : Order[i] \in Private =>
            "COW" \in Perm(c, Order[i]) /\ "SHARE" \notin Perm(c, Order[i])
      BY <1>2, <2>2 DEF Made, Copied, Forked
    <3>3. \A a \in Private : "COW" \in Perm(c, a) /\ "SHARE" \notin Perm(c, a)
      BY <3>2, VALemma DEF Private
    <3>4. QED
      BY <2>1, <3>1, <3>3 DEF Sound, Ready, CanStore, Perm, Starts, memVars
  <2>3. CASE call[e].pc = "spawned"
    <3>1. \A a \in Private : Perm(c, a) = {"W"}
      BY <1>2, <2>3 DEF Made, Stacked, Loaded, Private
    <3>2. ~ handler'[c]
      BY <1>1, <1>6, <2>3
    <3>3. QED
      BY <2>1, <3>1, <3>2 DEF Sound, Perm, Starts, memVars
  <2>4. QED  BY <1>1, <2>2, <2>3
<1>11. EnvInv(e)' /\ EnvInv(c)'
  BY <1>1, <1>6, <1>9, <1>10 DEF EnvInv, Building, Forked, Stacked
<1>12. QED
  BY <1>1, <1>2, <1>6, <1>7, <1>8, <1>11, ChildStepLemma DEF Child, Building, Forked, Stacked

(* A step of e that changes an entry of its own that no program stores to.  *)
LEMMA OwnTempLemma ==
    ASSUME IInv, NEW e \in Envs, life[e] = "alive",
           NEW w \in VA \ Private, NEW q,
           \/ SysPageAlloc(e, e, w, q)
           \/ SysPageUnmap(e, e, w) /\ q = {},
           w = "xstack" => "W" \in q,
           Calls(call)', \A x \in Envs \ {e} : call'[x] = call[x],
           UNCHANGED <<life, upcall, handler, fault>>,
           handler[e] \/ call'[e].pc \in InFork => w = "xstack" \/ "W" \in Perm(e, "xstack"),
           call'[e].pc \in Forked \cup {"exofork"} => upcall[e],
           call'[e].pc \in Building =>
             /\ call[e].pc \in Building /\ Child(e)' = Child(e)
             /\ \A c \in Envs \ {e} :
                  c = Child(e) /\ (\A a \in VA : Perm(c, a)' = Perm(c, a)) => Made(e, c)'
    PROVE  IInv'
<1>1. TypeInv /\ TlbCurrent
  BY DEF IInv
<1>2. /\ Memory(pt)' /\ stale' = stale
      /\ \A x \in Envs, a \in VA :
           Perm(x, a)' = IF x = e /\ a = w THEN q ELSE Perm(x, a)
  <2>1. CASE SysPageAlloc(e, e, w, q)
    BY ONLY <1>1, <2>1, w \in VA \ Private, e \in Envs, SysPageAllocLemma
  <2>2. CASE SysPageUnmap(e, e, w) /\ q = {}
    BY ONLY <1>1, <2>2, w \in VA \ Private, e \in Envs, SysPageUnmapLemma
  <2>3. QED  BY <2>1, <2>2
<1>3. Sound(e)'
  <2>1. Private \subseteq VA /\ "xstack" \in VA
    BY VALemma DEF Private
  <2>2. Sound(e)
    BY DEF IInv, EnvInv
  <2>3. \A a \in Private : Perm(e, a)' = Perm(e, a)
    BY <1>2, <2>1
  <2>4. "W" \in Perm(e, "xstack") \/ w = "xstack" => "W" \in Perm(e, "xstack")'
    BY <1>2, <2>1
  <2>5. Ready(e) => Ready(e)'
    BY <2>4 DEF Ready, CanStore, Perm
  <2>6. fault'[e] = fault[e] /\ upcall'[e] = upcall[e] /\ handler'[e] = handler[e]
    OBVIOUS
  <2>7. fault[e].pc \in {"alloc", "copy", "unmap", "untemp"} => fault[e].va \in Private
    BY <2>2 DEF Sound
  <2>8. QED  BY <2>2, <2>3, <2>4, <2>5, <2>6, <2>7 DEF Sound, Perm
<1>4. call'[e].pc \in Building => \A c \in Envs \ {e} : c = Child(e) => Made(e, c)'
  BY <1>2
<1>5. QED
  BY <1>2, <1>3, <1>4, OwnMemLemma DEF IInv, TypeInv, Faults

(* What spawn's places say of its child.                                    *)
LEMMA SpawnMadeLemma ==
    ASSUME NEW e \in Envs, NEW c \in Envs \ {e}, c = Child(e), Made(e, c), call[e].pc \in Building,
           \A x \in Envs \ {e} : call'[x] = call[x], life'[c] = life[c],
           call'[e].pc \notin Forked,
           call'[e].pc \in Stacked => Perm(c, "stack")' = {"W"},
           call'[e].pc \in Loaded => Perm(c, "data")' = {"W"}
    PROVE  Made(e, c)'
<1>1. \A d \in Envs \ {e} : call'[d].pc \in Building => call'[d].child # c
  BY OthersChildLemma DEF Made, Child
<1>2. QED  BY <1>1 DEF Made, Forked, Child

(* fork has an exception stack when it goes on.                             *)
LEMMA ForkCallLemma ==
    ASSUME IInv, NEW e \in Envs, ForkCall(e) PROVE IInv'
<1>1. life[e] = "alive" /\ Sound(e)
  BY AtLemma DEF ForkCall
<1>2. CASE handler[e] /\ Goto(e, "set_handler") /\ UNCHANGED <<memVars, life>>
  <2>1. /\ Calls(call)' /\ \A x \in Envs \ {e} : call'[x] = call[x]
        /\ call'[e].pc = "set_handler"
    BY <1>2, GotoLemma DEF IInv
  <2>2. TypeInv' /\ TlbCurrent'
    BY <1>2, <2>1, QuietLemma DEF ForkCall, memVars
  <2>3. \A y \in Envs \ {e} : Same(y)
    BY <1>2, <2>1 DEF Same, Perm, ForkCall, memVars
  <2>4. Sound(e)'
    <3>1. "W" \in Perm(e, "xstack")
      BY <1>1, <1>2 DEF Sound
    <3>2. QED  BY <1>1, <1>2, <2>1, <3>1, SoundLemma DEF ForkCall, memVars, Perm, Forked
  <2>5. EnvInv(e)'
    BY <1>1, <1>2, <2>1, <2>4 DEF EnvInv, Building, Forked, Stacked
  <2>6. QED
    BY <1>1, <2>1, <2>2, <2>3, <2>5, OwnStepLemma DEF Building, Forked, Stacked
<1>3. CASE SysPageAlloc(e, e, "xstack", {"W"}) /\ Goto(e, "set_handler") /\ UNCHANGED life
  <2>1. /\ Calls(call)' /\ \A x \in Envs \ {e} : call'[x] = call[x]
        /\ call'[e].pc = "set_handler"
    BY <1>3, GotoLemma DEF IInv
  <2>2. "xstack" \in VA \ Private
    BY VALemma DEF Private
  <2>3. QED
    BY <1>1, <1>3, <2>1, <2>2, OwnTempLemma DEF ForkCall, Building, Forked, Stacked
<1>4. CASE Panic(e)
  BY <1>1, <1>4, PanicLemma
<1>5. QED  BY <1>2, <1>3, <1>4 DEF ForkCall

(* Steps of spawn, at a place of its own.                                   *)
LEMMA SpawnAtLemma ==
    ASSUME IInv, NEW e \in Envs, NEW l, At(e, l), l \in {"args", "args_fill", "args_map"} \cup Stacked
    PROVE  /\ life[e] = "alive" /\ call[e].pc = l /\ Sound(e)
           /\ call[e].pc \in Building /\ call[e].pc \notin Forked
           /\ \E c \in Envs \ {e} : c = Child(e) /\ Made(e, c)
  BY AtLemma DEF Building, Forked, Stacked

\* UTEMP is mapped or unmapped, and spawn goes on.
LEMMA SpawnTempLemma ==
    ASSUME IInv, NEW e \in Envs, NEW l, At(e, l), NEW m, Goto(e, m),
           \/ l = "args" /\ m = "args_fill"
           \/ l = "segment" /\ m = "read"
           \/ l = "args_unmap" /\ m = "segment"
           \/ l = "seg_unmap" /\ m = "next_shared",
           SysPageAlloc(e, e, "utemp", {"W"}) \/ SysPageUnmap(e, e, "utemp"),
           UNCHANGED <<life, upcall, handler, fault>>
    PROVE  IInv'
<1>1. /\ life[e] = "alive" /\ call[e].pc = l /\ Sound(e) /\ call[e].pc \in Building
      /\ \E c \in Envs \ {e} : c = Child(e) /\ Made(e, c)
  BY SpawnAtLemma DEF Stacked
<1>2. PICK c \in Envs \ {e} : c = Child(e) /\ Made(e, c)
  BY <1>1
<1>3. /\ Calls(call)' /\ \A x \in Envs \ {e} : call'[x] = call[x]
      /\ call'[e].pc = m /\ Child(e)' = c
  BY <1>2, GotoLemma DEF IInv, Child
<1>4. /\ m \notin Forked \cup {"exofork"} /\ m \notin InFork
      /\ m \in Stacked => l \in Stacked
      /\ m \in Loaded => l \in Loaded
  BY DEF Forked, InFork, Stacked, Loaded
<1>5. (\A a \in VA : Perm(c, a)' = Perm(c, a)) => Made(e, c)'
  <2>1. "stack" \in VA /\ "data" \in VA
    BY VALemma
  <2>2. m \in Stacked => Perm(c, "stack") = {"W"}
    BY <1>1, <1>2, <1>4 DEF Made
  <2>3. m \in Loaded => Perm(c, "data") = {"W"}
    BY <1>1, <1>2, <1>4 DEF Made
  <2>4. QED  BY <1>1, <1>2, <1>3, <1>4, <2>1, <2>2, <2>3, SpawnMadeLemma
<1>6. handler[e] => "W" \in Perm(e, "xstack")
  BY <1>1 DEF Sound
<1>7. "utemp" \in VA \ Private
  BY VALemma DEF Private
<1>8. QED
  BY <1>1, <1>2, <1>3, <1>4, <1>5, <1>6, <1>7, OwnTempLemma, ZenonT(60)

\* spawn gives its child a page, its stack or its data.
LEMMA SpawnGiveLemma ==
    ASSUME IInv, NEW e \in Envs, NEW l, At(e, l), NEW m, Goto(e, m), NEW va,
           \/ l = "args_map" /\ m = "args_unmap" /\ va = "stack"
           \/ l = "segment" /\ m = "next_shared" /\ va = "data"
           \/ l = "seg_map" /\ m = "seg_unmap" /\ va = "data",
           SysPageAlloc(e, Child(e), va, {"W"}) \/ Give(e, va),
           UNCHANGED <<life, upcall, handler, fault>>
    PROVE  IInv'
<1>1. /\ life[e] = "alive" /\ call[e].pc = l /\ call[e].pc \in Building
      /\ \E c \in Envs \ {e} : c = Child(e) /\ Made(e, c)
  BY SpawnAtLemma DEF Stacked
<1>2. PICK c \in Envs \ {e} : c = Child(e) /\ Made(e, c)
  BY <1>1
<1>3. /\ Calls(call)' /\ \A x \in Envs \ {e} : call'[x] = call[x]
      /\ call'[e].pc = m /\ call'[e].child = c
  BY <1>2, GotoLemma DEF IInv, Child
<1>4. m \in Building /\ m \notin Forked
  BY DEF Building, Stacked, Forked
<1>5. "utemp" \in VA /\ va \in VA /\ "stack" \in VA /\ "data" \in VA
  BY VALemma
<1>6. SysPageAlloc(e, c, va, {"W"}) \/ \E v \in VA : SysPageMap(e, e, v, c, va, {"W"})
  BY <1>2, <1>5 DEF Give
<1>7. ASSUME \A x \in Envs, a \in VA : Perm(x, a)' = IF x = c /\ a = va THEN {"W"} ELSE Perm(x, a)
      PROVE  Made(e, c)'
  <2>1. Perm(c, "stack")' = {"W"}
    BY <1>1, <1>2, <1>5, <1>7 DEF Made, Stacked
  <2>2. m \in Loaded => Perm(c, "data")' = {"W"}
    BY <1>5, <1>7 DEF Loaded
  <2>3. QED  BY <1>1, <1>2, <1>3, <1>4, <2>1, <2>2, SpawnMadeLemma
<1>8. /\ call'[e].pc \in Building
      /\ call'[e].pc \in Forked => "W" \in Perm(e, "xstack") /\ upcall[e]
  BY <1>3, <1>4
<1>9. PICK q : q = {"W"}
  OBVIOUS
<1>10. QED
  BY ONLY IInv, e \in Envs, UNCHANGED <<life, upcall, handler, fault>>,
     <1>1, <1>2, <1>3, <1>5, <1>6, <1>7, <1>8, <1>9, ChildMemLemma

\* spawn goes on without a change to any entry.
LEMMA SpawnGotoLemma ==
    ASSUME IInv, NEW e \in Envs, NEW l, At(e, l), NEW m, Goto(e, m),
           \/ l = "args_fill" /\ m = "args_map"
           \/ l = "read" /\ m = "seg_map"
           \/ l = "next_shared" /\ m = "spawned",
           UNCHANGED <<pt, stale, life, upcall, handler, fault>>
    PROVE  IInv'
<1>1. /\ life[e] = "alive" /\ call[e].pc = l /\ Sound(e) /\ call[e].pc \in Building
      /\ \E c \in Envs \ {e} : c = Child(e) /\ Made(e, c)
  BY SpawnAtLemma DEF Stacked
<1>2. PICK c \in Envs \ {e} : c = Child(e) /\ Made(e, c)
  BY <1>1
<1>3. /\ Calls(call)' /\ \A x \in Envs \ {e} : call'[x] = call[x]
      /\ call'[e].pc = m /\ Child(e)' = c
  BY <1>2, GotoLemma DEF IInv, Child
<1>4. /\ m \notin Forked \cup {"exofork"} /\ m \notin InFork /\ m \in Building
      /\ m \in Stacked => l \in Stacked
      /\ m \in Loaded => l \in Loaded
  BY DEF Forked, InFork, Stacked, Loaded, Building
<1>5. Made(e, c)'
  <2>1. m \in Stacked => Perm(c, "stack")' = {"W"}
    BY <1>1, <1>2, <1>4 DEF Made, Perm
  <2>2. m \in Loaded => Perm(c, "data")' = {"W"}
    BY <1>1, <1>2, <1>4 DEF Made, Perm
  <2>3. QED  BY <1>1, <1>2, <1>3, <1>4, <2>1, <2>2, SpawnMadeLemma
<1>6. Sound(e)'
  <2>1. handler[e] => "W" \in Perm(e, "xstack")
    BY <1>1 DEF Sound
  <2>2. QED  BY <1>1, <1>3, <1>4, <2>1, SoundLemma DEF Perm
<1>7. EnvInv(e)'
  BY <1>1, <1>2, <1>3, <1>5, <1>6 DEF EnvInv, Growing
<1>8. TypeInv' /\ TlbCurrent'
  BY <1>3, QuietLemma
<1>9. \A y \in Envs \ {e} : Same(y)
  BY <1>3 DEF Same, Perm
<1>10. QED
  BY <1>1, <1>2, <1>3, <1>7, <1>8, <1>9, OwnStepLemma

(* A failed spawn takes its child with it.                                  *)
LEMMA SpawnErrorLemma ==
    ASSUME IInv, NEW e \in Envs, NEW l, At(e, l), l \in {"segment", "read"},
           SpawnError(e), UNCHANGED <<upcall, handler, fault>>
    PROVE  IInv'
<1>1. /\ life[e] = "alive" /\ call[e].pc = l /\ Sound(e) /\ call[e].pc \in Building
      /\ fault[e].pc = "none"
  BY AtLemma, SpawnAtLemma DEF Stacked
<1>2. PICK c \in Envs \ {e} : /\ c = Child(e) /\ Made(e, c) /\ life[c] = "embryo"
                            /\ call[c].pc = "run" /\ fault[c].pc = "none"
  BY <1>1, AtLemma
<1>3. /\ Calls(call)' /\ \A x \in Envs \ {e} : call'[x] = call[x]
      /\ call'[e].pc = "run"
  BY ReturnCallLemma DEF SpawnError, IInv
<1>4. /\ Memory(pt)' /\ stale' = stale
      /\ \A x \in Envs \ {c}, a \in VA : Perm(x, a)' = Perm(x, a)
  <2>1. EnvFree(c) /\ TypeInv /\ TlbCurrent
    BY <1>2 DEF SpawnError, IInv
  <2>2. QED  BY ONLY <2>1, c \in Envs \ {e}, EnvFreeLemma
<1>5. /\ life' \in [Envs -> {"free", "embryo", "alive", "panicked", "killed"}]
      /\ life'[c] = "free" /\ \A x \in Envs \ {c} : life'[x] = life[x]
  BY <1>2 DEF SpawnError, IInv, TypeInv
<1>6. TypeInv' /\ TlbCurrent'
  BY <1>3, <1>4, <1>5 DEF IInv, TypeInv, TlbCurrent, Faults
<1>7. \A y \in Envs \ {e, c} : Same(y)
  BY <1>3, <1>4, <1>5 DEF Same
<1>8. Sound(e)'
  <2>1. handler[e] => "W" \in Perm(e, "xstack")
    BY <1>1 DEF Sound
  <2>2. call'[e].pc \notin InFork /\ call'[e].pc \notin Forked \cup {"exofork"}
    BY <1>3 DEF InFork, Forked
  <2>3. \A a \in VA : Perm(e, a)' = Perm(e, a)
    BY <1>4
  <2>4. QED  BY <1>1, <2>1, <2>2, <2>3, SoundLemma
<1>9. EnvInv(e)' /\ EnvInv(c)'
  BY <1>1, <1>2, <1>3, <1>5, <1>8 DEF EnvInv, Building, Forked, Stacked
<1>10. QED
  BY <1>1, <1>2, <1>3, <1>6, <1>7, <1>9, ChildStepLemma DEF Building, Forked, Stacked

(* A page marked PTE_SHARE is none of the program's memory: the child keeps *)
(* what it has been given.                                                  *)
LEMMA CopySharedLemma ==
    ASSUME IInv, NEW e \in Envs, CopyShared(e) PROVE IInv'
<1> DEFINE T == {i \in call[e].at + 1 .. Below : "SHARE" \in pt[e][Order[i]].perm} \cup {Below + 1}
<1>1. /\ life[e] = "alive" /\ fault[e].pc = "none" /\ call[e].pc = "next_shared" /\ Sound(e)
      /\ call[e].pc \in Building
  BY AtLemma, SpawnAtLemma DEF CopyShared, Stacked
<1>2. PICK c \in Envs \ {e} : c = Child(e) /\ Made(e, c)
  BY SpawnAtLemma DEF CopyShared, Stacked
<1>3. PICK n : n = NextAt(e, LAMBDA entry : "SHARE" \in entry.perm)
  OBVIOUS
<1>4. n \in 1 .. 6 /\ (n <= 5 => "SHARE" \in pt[e][Order[n]].perm)
  <2>1. call[e].at \in 0 .. 5
    BY DEF IInv, TypeInv, Calls
  <2>2. T \subseteq 1 .. 6 /\ 6 \in T
    BY <2>1, VALemma
  <2>3. n = Min(T)
    BY <1>3 DEF NextAt
  <2>4. n \in T
    BY <2>2, <2>3, MinLemma
  <2>5. QED  BY <2>1, <2>2, <2>4, VALemma
<1>5. /\ At(e, "next_shared")
      /\ \/ /\ n <= Below
            /\ SysPageMap(e, e, Order[n], Child(e), Order[n], pt[e][Order[n]].perm)
            /\ call' = [call EXCEPT ![e].at = n]
            /\ UNCHANGED life
         \/ n <= Below /\ Panic(e)
         \/ n > Below /\ Goto(e, "spawned") /\ UNCHANGED <<memVars, life>>
      /\ UNCHANGED <<upcall, handler, fault>>
  BY <1>3 DEF CopyShared
<1>6. CASE Panic(e)
  BY <1>1, <1>6, PanicLemma
<1>7. CASE Goto(e, "spawned") /\ UNCHANGED <<memVars, life>>
  BY <1>5, <1>7, SpawnGotoLemma DEF memVars
<1>8. CASE /\ n <= Below
           /\ SysPageMap(e, e, Order[n], Child(e), Order[n], pt[e][Order[n]].perm)
           /\ call' = [call EXCEPT ![e].at = n]
           /\ UNCHANGED life
  <2>1. n \in 1 .. 5 /\ Below = 5
    BY <1>4, <1>8, VALemma
  <2>2. PICK w \in {Order[n]}, q \in {pt[e][Order[n]].perm} : w \in VA
    BY <2>1, VALemma
  <2>3. w \notin Private
    BY <1>1, <1>4, <2>1, <2>2 DEF Sound, Perm
  <2>4. \E v \in VA : SysPageMap(e, e, v, c, w, q)
    BY <1>2, <1>8, <2>2
  <2>5. /\ Calls(call)' /\ \A x \in Envs \ {e} : call'[x] = call[x]
        /\ call'[e].pc = "next_shared" /\ call'[e].child = c
    <3>1. call[e] = [pc |-> call[e].pc, child |-> call[e].child, at |-> call[e].at, perm |-> call[e].perm]
      BY DEF IInv, TypeInv, Calls
    <3>2. [call[e] EXCEPT !.at = n] =
            [pc |-> call[e].pc, child |-> call[e].child, at |-> n, perm |-> call[e].perm]
      BY <3>1
    <3>3. \A x \in Envs : call'[x] = IF x = e THEN [call[e] EXCEPT !.at = n] ELSE call[x]
      BY <1>8 DEF IInv, TypeInv, Calls
    <3>4. call' = [x \in Envs |-> call'[x]]
      BY <1>8 DEF IInv, TypeInv, Calls
    <3>5. call'[e] = [pc |-> call[e].pc, child |-> call[e].child, at |-> n, perm |-> call[e].perm]
      BY <3>2, <3>3
    <3>6. \A x \in Envs \ {e} : call'[x] = call[x]
      BY <3>3
    <3>7. Calls(call)'
      BY <2>1, <3>4, <3>5, <3>6 DEF IInv, TypeInv, Calls
    <3>8. QED  BY <1>1, <1>2, <3>5, <3>6, <3>7 DEF Child
  <2>6. ASSUME \A x \in Envs, a \in VA : Perm(x, a)' = IF x = c /\ a = w THEN q ELSE Perm(x, a)
        PROVE  Made(e, c)'
    <3>1. "stack" \in VA /\ "data" \in VA /\ "stack" \in Private /\ "data" \in Private
      BY VALemma DEF Private
    <3>2. Perm(c, "stack")' = {"W"} /\ Perm(c, "data")' = {"W"}
      BY <1>1, <1>2, <2>3, <2>6, <3>1 DEF Made, Stacked, Loaded
    <3>3. call'[e].pc \notin Forked
      BY <2>5 DEF Forked
    <3>4. QED  BY <1>1, <1>2, <1>8, <2>5, <3>2, <3>3, SpawnMadeLemma
  <2>7. call'[e].pc \in Building /\ call'[e].pc \notin Forked
    BY <2>5 DEF Building, Stacked, Forked
  <2>8. UNCHANGED <<life, upcall, handler, fault>>
    BY <1>5, <1>8
  <2>9. QED
    BY ONLY IInv, e \in Envs, <2>8, <1>1, <1>2, <2>4, <2>5, <2>6, <2>7, w \in VA, ChildMemLemma
<1>9. QED  BY <1>5, <1>6, <1>7, <1>8

(* The end of a program.                                                    *)
LEMMA DestroyLemma ==
    ASSUME IInv, NEW e \in Envs, Destroy(e) PROVE IInv'
<1>1. life[e] = "alive"
  BY DEF Destroy, Runs, Alive
<1>2. /\ Memory(pt)' /\ stale' = stale
      /\ \A x \in Envs \ {e}, a \in VA : Perm(x, a)' = Perm(x, a)
  <2>1. EnvFree(e) /\ TypeInv /\ TlbCurrent
    BY DEF Destroy, IInv
  <2>2. QED  BY ONLY <2>1, e \in Envs, EnvFreeLemma
<1>3. /\ Calls(call)' /\ \A x \in Envs \ {e} : call'[x] = call[x]
      /\ call'[e].pc = "run"
  BY ReturnCallLemma DEF Destroy, IInv, Return
<1>4. /\ fault'[e] = NoFault /\ \A x \in Envs \ {e} : fault'[x] = fault[x]
      /\ fault' = [x \in Envs |-> fault'[x]]
  BY DEF Destroy, IInv, TypeInv, Faults
<1>5. /\ life' \in [Envs -> {"free", "embryo", "alive", "panicked", "killed"}]
      /\ life'[e] = "free" /\ \A x \in Envs \ {e} : life'[x] = life[x]
  BY DEF Destroy, IInv, TypeInv
<1>6. TypeInv' /\ TlbCurrent'
  <2>1. Faults(fault)' /\ fault'[e].pc = "none"
    BY <1>4 DEF IInv, TypeInv, Faults, NoFault
  <2>2. QED  BY <1>2, <1>3, <1>5, <2>1 DEF Destroy, IInv, TypeInv, TlbCurrent
<1>7. \A y \in Envs \ {e} : Same(y)
  BY <1>2, <1>3, <1>4, <1>5 DEF Same, Destroy
<1>8. EnvInv(e)'
  BY <1>3, <1>4, <1>5 DEF EnvInv, NoFault, Building, Forked, Stacked
<1>9. QED
  BY <1>1, <1>3, <1>6, <1>7, <1>8, OwnStepLemma DEF Building, Forked, Stacked

(* A fault on one's own memory is always delivered, at a page that is       *)
(* copy-on-write.                                                           *)
LEMMA PageFaultLemma ==
    ASSUME IInv, NEW e \in Envs, NEW va \in VA, PageFault(e, va) PROVE IInv'
<1>1. /\ life[e] = "alive" /\ fault[e].pc = "none" /\ Sound(e)
      /\ va \in Private /\ "W" \notin Perm(e, va)
  BY DEF PageFault, Runs, Alive, StoresTo, Private, CanStore, Perm, IInv, EnvInv
<1>2. "COW" \in Perm(e, va) /\ Ready(e)
  BY <1>1 DEF Sound
<1>3. /\ fault' = [fault EXCEPT ![e] = [pc |-> "alloc", va |-> va]]
      /\ life' = life /\ UNCHANGED <<memVars, upcall, handler, call>>
  BY <1>2 DEF PageFault, Ready, IInv, TypeInv
<1>4. /\ fault'[e].pc = "alloc" /\ fault'[e].va = va /\ Faults(fault)'
      /\ \A x \in Envs \ {e} : fault'[x] = fault[x]
  BY <1>3 DEF IInv, TypeInv, Faults
<1>5. Memory(pt)' /\ Calls(call)'
  BY <1>3 DEF IInv, TypeInv, memVars, Memory, Calls
<1>6. Sound(e)'
  BY <1>1, <1>2, <1>3, <1>4 DEF Sound, memVars, Perm, Ready, CanStore
<1>7. \A x \in Envs : \A a \in VA : Perm(x, a)' = Perm(x, a)
  BY <1>3 DEF memVars, Perm
<1>8. call[e].pc \in Building => \A c \in Envs \ {e} : c = Child(e) => Made(e, c)'
  <2>1. ASSUME call[e].pc \in Building, NEW c \in Envs \ {e}, c = Child(e)
        PROVE  Made(e, c)'
    <3>1. Made(e, c)
      BY <2>1 DEF IInv, EnvInv, Growing
    <3>2. QED  BY <1>3, <3>1 DEF Made, memVars, Perm, Child, Va, Copied
  <2>2. QED  BY <2>1
<1>9. QED
  BY <1>1, <1>3, <1>4, <1>5, <1>6, <1>7, <1>8, OwnMemLemma DEF memVars, Child

(* The steps of pgfault.                                                    *)
LEMMA HandlerMadeLemma ==
    ASSUME IInv, NEW e \in Envs, UNCHANGED <<life, upcall, call>>,
           \A x \in Envs \ {e}, a \in VA : Perm(x, a)' = Perm(x, a)
    PROVE  call[e].pc \in Building => \A c \in Envs \ {e} : c = Child(e) => Made(e, c)'
<1>1. ASSUME call[e].pc \in Building, NEW c \in Envs \ {e}, c = Child(e)
      PROVE  Made(e, c)'
  <2>1. Made(e, c)
    BY <1>1 DEF IInv, EnvInv, Growing
  <2>2. \A i \in 1 .. 5 : Perm(c, Order[i])' = Perm(c, Order[i])
    BY VALemma
  <2>3. /\ Perm(c, "xstack")' = Perm(c, "xstack") /\ Perm(c, "stack")' = Perm(c, "stack")
        /\ Perm(c, "data")' = Perm(c, "data")
    BY VALemma
  <2>4. \A i \in 1 .. 5 : Copied(e, i)' = Copied(e, i)
    BY DEF Copied
  <2>5. QED  BY <2>1, <2>2, <2>3, <2>4 DEF Made, Child, Va
<1>2. QED  BY <1>1

(* The handler goes on.                                                     *)
LEMMA HandlerToLemma ==
    ASSUME TypeInv, NEW e \in Envs, NEW l, HandlerTo(e, l)
    PROVE  /\ Faults(fault)' /\ fault'[e].pc = l /\ fault'[e].va = fault[e].va
           /\ \A x \in Envs \ {e} : fault'[x] = fault[x]
<1>1. fault[e] = [pc |-> fault[e].pc, va |-> fault[e].va]
  BY DEF TypeInv, Faults
<1>2. [fault[e] EXCEPT !.pc = l] = [pc |-> l, va |-> fault[e].va]
  BY <1>1
<1>3. \A x \in Envs : fault'[x] = IF x = e THEN [fault[e] EXCEPT !.pc = l] ELSE fault[x]
  BY DEF HandlerTo, TypeInv, Faults
<1>4. fault' = [x \in Envs |-> fault'[x]]
  BY DEF HandlerTo, TypeInv, Faults
<1>5. QED  BY <1>2, <1>3, <1>4 DEF TypeInv, Faults

\* What each step has to show: the program's own entries stay as they must be.
LEMMA HandlerStepLemma ==
    ASSUME IInv, NEW e \in Envs, NEW l, InHandler(e, l), l # "none",
           Memory(pt)', stale' = stale,
           \A x \in Envs \ {e}, a \in VA : Perm(x, a)' = Perm(x, a),
           Faults(fault)', \A x \in Envs \ {e} : fault'[x] = fault[x],
           UNCHANGED <<life, upcall, handler, call>>,
           Perm(e, "xstack")' = Perm(e, "xstack"),
           \A a \in Private :
             /\ "SHARE" \notin Perm(e, a)'
             /\ \/ "W" \in Perm(e, a)'
                \/ "COW" \in Perm(e, a)'
                \/ fault'[e].pc = "map" /\ fault'[e].va = a,
           \/ fault'[e].pc = "none"
           \/ fault'[e].va = fault[e].va,
           fault'[e].pc \in {"alloc", "copy", "unmap"} => "COW" \in pt'[e][fault'[e].va].perm,
           fault'[e].pc = "untemp" => "W" \in pt'[e][fault'[e].va].perm
    PROVE  IInv'
<1>1. life[e] = "alive" /\ fault[e].pc = l /\ Sound(e)
  BY DEF InHandler, Runs, Alive, IInv, EnvInv
<1>2. Ready(e) /\ fault[e].va \in Private
  BY <1>1 DEF Sound
<1>3. Ready(e)'
  BY <1>2 DEF Ready, CanStore, Perm
<1>4. Sound(e)'
  <2>1. handler[e] \/ call[e].pc \in InFork => "W" \in Perm(e, "xstack")
    BY <1>1 DEF Sound
  <2>2. call[e].pc \in Forked \cup {"exofork"} => upcall[e]
    BY <1>1 DEF Sound
  <2>3. QED  BY <1>2, <1>3, <2>1, <2>2 DEF Sound, Perm
<1>5. call[e].pc \in Building => \A c \in Envs \ {e} : c = Child(e) => Made(e, c)'
  BY HandlerMadeLemma
<1>6. Calls(call)'
  BY DEF IInv, TypeInv, Calls
<1>7. QED
  BY <1>1, <1>4, <1>5, <1>6, OwnMemLemma DEF Child

(* What is known of a program in its handler.                               *)
LEMMA InHandlerLemma ==
    ASSUME IInv, NEW e \in Envs, NEW l, InHandler(e, l), l # "none"
    PROVE  /\ life[e] = "alive" /\ fault[e].pc = l /\ Sound(e)
           /\ fault[e].va \in Private /\ fault[e].va \in VA
           /\ TypeInv /\ TlbCurrent
           /\ Private \subseteq VA /\ {"pftemp", "xstack"} \subseteq VA \ Private
<1>1. life[e] = "alive" /\ fault[e].pc = l /\ Sound(e)
  BY DEF InHandler, Runs, Alive, IInv, EnvInv
<1>2. Private \subseteq VA /\ {"pftemp", "xstack"} \subseteq VA \ Private
  BY VALemma DEF Private
<1>3. QED  BY <1>1, <1>2 DEF Sound, IInv

(* The handler finds the page it was called for copy-on-write,              *)
LEMMA PgfaultAllocLemma ==
    ASSUME IInv, NEW e \in Envs, PgfaultAlloc(e) PROVE IInv'
<1>1. /\ InHandler(e, "alloc") /\ life[e] = "alive" /\ fault[e].pc = "alloc" /\ Sound(e)
      /\ fault[e].va \in Private /\ fault[e].va \in VA /\ TypeInv /\ TlbCurrent
      /\ Private \subseteq VA /\ {"pftemp", "xstack"} \subseteq VA \ Private
  BY InHandlerLemma DEF PgfaultAlloc
<1>2. "COW" \in pt[e][FaultVa(e)].perm
  BY <1>1 DEF Sound, Perm, FaultVa
<1>3. CASE life' = [life EXCEPT ![e] = "panicked"] /\ UNCHANGED <<memVars, fault>>
  BY <1>1, <1>3, PanicLemma DEF Panic, PgfaultAlloc
<1>4. CASE SysPageAlloc(e, e, "pftemp", {"W"}) /\ HandlerTo(e, "copy") /\ UNCHANGED life
  <2>1. /\ Memory(pt)' /\ stale' = stale
        /\ \A x \in Envs, a \in VA :
             Perm(x, a)' = IF x = e /\ a = "pftemp" THEN {"W"} ELSE Perm(x, a)
    BY ONLY <1>1, <1>4, e \in Envs, SysPageAllocLemma
  <2>2. /\ Faults(fault)' /\ fault'[e].pc = "copy" /\ fault'[e].va = fault[e].va
        /\ \A x \in Envs \ {e} : fault'[x] = fault[x]
    BY <1>1, <1>4, HandlerToLemma
  <2>3. UNCHANGED <<life, upcall, handler, call>>
    BY <1>4 DEF PgfaultAlloc
  <2>4. \A a \in Private \cup {"xstack"} : Perm(e, a)' = Perm(e, a)
    BY <1>1, <2>1
  <2>5. \A a \in Private : "SHARE" \notin Perm(e, a)' /\ ("W" \in Perm(e, a)' \/ "COW" \in Perm(e, a)')
    BY <1>1, <2>4 DEF Sound
  <2>6. "COW" \in pt'[e][fault'[e].va].perm
    BY <1>1, <1>2, <2>2, <2>4 DEF Perm, FaultVa
  <2>7. QED
    BY <1>1, <2>1, <2>2, <2>3, <2>4, <2>5, <2>6, HandlerStepLemma
<1>5. QED  BY <1>2, <1>3, <1>4 DEF PgfaultAlloc

(* copies it,                                                               *)
LEMMA PgfaultCopyLemma ==
    ASSUME IInv, NEW e \in Envs, PgfaultCopy(e) PROVE IInv'
<1>1. /\ InHandler(e, "copy") /\ fault[e].pc = "copy" /\ Sound(e)
      /\ fault[e].va \in Private /\ TypeInv /\ Private \subseteq VA
  BY InHandlerLemma DEF PgfaultCopy
<1>2. /\ Faults(fault)' /\ fault'[e].pc = "unmap" /\ fault'[e].va = fault[e].va
      /\ \A x \in Envs \ {e} : fault'[x] = fault[x]
  BY <1>1, HandlerToLemma DEF PgfaultCopy
<1>3. UNCHANGED <<pt, stale, life, upcall, handler, call>>
  BY DEF PgfaultCopy
<1>4. Memory(pt)'
  BY <1>1, <1>3 DEF TypeInv, Memory
<1>5. \A x \in Envs, a \in VA \cup {"xstack"} : Perm(x, a)' = Perm(x, a)
  BY <1>3 DEF Perm
<1>6. \A a \in Private : "SHARE" \notin Perm(e, a)' /\ ("W" \in Perm(e, a)' \/ "COW" \in Perm(e, a)')
  BY <1>1, <1>5 DEF Sound
<1>7. "COW" \in pt'[e][fault'[e].va].perm
  BY <1>1, <1>2, <1>3 DEF Sound, Perm
<1>8. QED
  BY <1>1, <1>2, <1>3, <1>4, <1>5, <1>6, <1>7, HandlerStepLemma

(* unmaps it,                                                               *)
LEMMA PgfaultUnmapLemma ==
    ASSUME IInv, NEW e \in Envs, PgfaultUnmap(e) PROVE IInv'
<1>1. /\ InHandler(e, "unmap") /\ fault[e].pc = "unmap" /\ Sound(e)
      /\ fault[e].va \in Private /\ TypeInv /\ TlbCurrent
      /\ Private \subseteq VA /\ "xstack" \in VA \ Private
  BY InHandlerLemma DEF PgfaultUnmap
<1>2. PICK w \in VA : w = fault[e].va
  BY <1>1
<1>3. /\ Memory(pt)' /\ stale' = stale
      /\ \A x \in Envs, a \in VA :
           Perm(x, a)' = IF x = e /\ a = w THEN {} ELSE Perm(x, a)
  <2>1. SysPageUnmap(e, e, w)
    BY <1>2 DEF PgfaultUnmap, FaultVa
  <2>2. QED  BY ONLY <1>1, <2>1, w \in VA, e \in Envs, SysPageUnmapLemma
<1>4. /\ Faults(fault)' /\ fault'[e].pc = "map" /\ fault'[e].va = w
      /\ \A x \in Envs \ {e} : fault'[x] = fault[x]
  BY <1>1, <1>2, HandlerToLemma DEF PgfaultUnmap
<1>5. UNCHANGED <<life, upcall, handler, call>>
  BY DEF PgfaultUnmap
<1>6. Perm(e, "xstack")' = Perm(e, "xstack")
  BY <1>1, <1>2, <1>3
<1>7. \A a \in Private : "SHARE" \notin Perm(e, a)' /\ ("W" \in Perm(e, a)' \/ "COW" \in Perm(e, a)' \/ a = w)
  BY <1>1, <1>3 DEF Sound
<1>8. QED
  BY <1>1, <1>2, <1>3, <1>4, <1>5, <1>6, <1>7, HandlerStepLemma

(* maps the copy, writable,                                                 *)
LEMMA PgfaultMapLemma ==
    ASSUME IInv, NEW e \in Envs, PgfaultMap(e) PROVE IInv'
<1>1. /\ InHandler(e, "map") /\ fault[e].pc = "map" /\ Sound(e)
      /\ fault[e].va \in Private /\ TypeInv /\ TlbCurrent
      /\ Private \subseteq VA /\ "xstack" \in VA \ Private /\ "pftemp" \in VA
  BY InHandlerLemma DEF PgfaultMap
<1>2. PICK w \in VA : w = fault[e].va
  BY <1>1
<1>3. /\ Memory(pt)' /\ stale' = stale
      /\ \A x \in Envs, a \in VA :
           Perm(x, a)' = IF x = e /\ a = w THEN {"W"} ELSE Perm(x, a)
  <2>1. SysPageMap(e, e, "pftemp", e, w, {"W"})
    BY <1>2 DEF PgfaultMap, FaultVa
  <2>2. PICK v \in {"pftemp"}, q \in {{"W"}} : v \in VA
    BY <1>1
  <2>3. SysPageMap(e, e, v, e, w, q) /\ TypeInv /\ TlbCurrent
    BY <1>1, <2>1, <2>2
  <2>4. /\ Memory(pt)' /\ stale' = stale
        /\ \A x \in Envs, a \in VA : Perm(x, a)' = IF x = e /\ a = w THEN q ELSE Perm(x, a)
    BY ONLY <2>3, v \in VA, w \in VA, e \in Envs, SysPageMapLemma
  <2>5. QED  BY <2>2, <2>4
<1>4. /\ Faults(fault)' /\ fault'[e].pc = "untemp" /\ fault'[e].va = w
      /\ \A x \in Envs \ {e} : fault'[x] = fault[x]
  BY <1>1, <1>2, HandlerToLemma DEF PgfaultMap
<1>5. UNCHANGED <<life, upcall, handler, call>>
  BY DEF PgfaultMap
<1>6. Perm(e, "xstack")' = Perm(e, "xstack") /\ "W" \in pt'[e][w].perm
  BY <1>1, <1>2, <1>3 DEF Perm
<1>7. \A a \in Private : "SHARE" \notin Perm(e, a)' /\ ("W" \in Perm(e, a)' \/ "COW" \in Perm(e, a)')
  BY <1>1, <1>2, <1>3 DEF Sound
<1>8. QED
  BY <1>1, <1>2, <1>3, <1>4, <1>5, <1>6, <1>7, HandlerStepLemma

(* and returns to a store that succeeds.                                    *)
LEMMA PgfaultUntempLemma ==
    ASSUME IInv, NEW e \in Envs, PgfaultUntemp(e)
    PROVE  IInv' /\ "W" \in pt'[e][FaultVa(e)].perm
<1>1. /\ InHandler(e, "untemp") /\ fault[e].pc = "untemp" /\ Sound(e)
      /\ fault[e].va \in Private /\ TypeInv /\ TlbCurrent
      /\ Private \subseteq VA /\ {"xstack", "pftemp"} \subseteq VA \ Private
  BY InHandlerLemma DEF PgfaultUntemp
<1>2. SysPageUnmap(e, e, "pftemp") /\ fault' = [fault EXCEPT ![e] = NoFault]
      /\ UNCHANGED <<life, upcall, handler, call>>
  BY DEF PgfaultUntemp
<1>3. /\ Memory(pt)' /\ stale' = stale
      /\ \A x \in Envs, a \in VA :
           Perm(x, a)' = IF x = e /\ a = "pftemp" THEN {} ELSE Perm(x, a)
  BY ONLY <1>1, <1>2, e \in Envs, SysPageUnmapLemma
<1>4. /\ Faults(fault)' /\ fault'[e].pc = "none"
      /\ \A x \in Envs \ {e} : fault'[x] = fault[x]
  BY <1>1, <1>2 DEF TypeInv, Faults, NoFault
<1>5. \A a \in Private \cup {"xstack"} : Perm(e, a)' = Perm(e, a)
  BY <1>1, <1>3
<1>6. \A a \in Private : "SHARE" \notin Perm(e, a)' /\ ("W" \in Perm(e, a)' \/ "COW" \in Perm(e, a)')
  BY <1>1, <1>5 DEF Sound
<1>7. "W" \in pt'[e][FaultVa(e)].perm
  BY <1>1, <1>5 DEF Sound, Perm, FaultVa
<1>8. QED
  BY <1>1, <1>2, <1>3, <1>4, <1>5, <1>6, <1>7, HandlerStepLemma

-----------------------------------------------------------------------------
(* All steps of spawn,                                                      *)
LEMMA SpawningLemma ==
    ASSUME IInv, NEW e \in Envs, Spawning(e) PROVE IInv'
<1>1. CASE InitStack(e)
  <2>1. UNCHANGED <<life, upcall, handler, fault>>
    BY <1>1 DEF InitStack
  <2>2. CASE At(e, "args") /\ TempAlloc(e, "args_fill")
    BY <2>1, <2>2, SpawnTempLemma DEF TempAlloc
  <2>3. CASE At(e, "args") /\ Return(e) /\ UNCHANGED memVars
    BY <2>1, <2>3, ReturnLemma, AtLemma
  <2>4. CASE At(e, "args_map") /\ Give(e, "stack") /\ Goto(e, "args_unmap")
    BY <2>1, <2>4, SpawnGiveLemma
  <2>5. CASE At(e, "args_map") /\ SysPageUnmap(e, e, "utemp") /\ Return(e)
    <3>1. life[e] = "alive" /\ Sound(e)
      BY <2>5, AtLemma
    <3>2. Calls(call)' /\ call'[e].pc = "run" /\ \A x \in Envs \ {e} : call'[x] = call[x]
      BY <2>5, ReturnCallLemma DEF IInv
    <3>3. "utemp" \in VA \ Private /\ "utemp" # "xstack"
      BY VALemma DEF Private
    <3>4. handler[e] => "W" \in Perm(e, "xstack")
      BY <3>1 DEF Sound
    <3>5. "run" \notin InFork /\ "run" \notin Forked \cup {"exofork"} /\ "run" \notin Building
      BY DEF InFork, Forked, Building, Stacked
    <3>6. QED
      BY <2>1, <2>5, <3>1, <3>2, <3>3, <3>4, <3>5, OwnTempLemma
  <2>6. CASE At(e, "args_unmap") /\ SysPageUnmap(e, e, "utemp") /\ Goto(e, "segment")
    BY <2>1, <2>6, SpawnTempLemma
  <2>7. QED  BY <1>1, <2>2, <2>3, <2>4, <2>5, <2>6 DEF InitStack
<1>2. CASE ArgsFill(e)
  BY <1>2, SpawnGotoLemma DEF ArgsFill
<1>3. CASE MapSegment(e)
  <2>1. UNCHANGED <<upcall, handler, fault>>
    BY <1>3 DEF MapSegment
  <2>2. CASE /\ At(e, "segment") /\ SysPageAlloc(e, Child(e), "data", {"W"})
             /\ Goto(e, "next_shared") /\ UNCHANGED life
    BY <2>1, <2>2, SpawnGiveLemma
  <2>3. CASE At(e, "segment") /\ TempAlloc(e, "read") /\ UNCHANGED life
    BY <2>1, <2>3, SpawnTempLemma DEF TempAlloc
  <2>4. CASE At(e, "seg_map") /\ Give(e, "data") /\ Goto(e, "seg_unmap") /\ UNCHANGED life
    BY <2>1, <2>4, SpawnGiveLemma
  <2>5. CASE /\ At(e, "seg_unmap") /\ SysPageUnmap(e, e, "utemp")
             /\ Goto(e, "next_shared") /\ UNCHANGED life
    BY <2>1, <2>5, SpawnTempLemma
  <2>6. CASE (At(e, "segment") \/ At(e, "read")) /\ SpawnError(e)
    BY <2>1, <2>6, SpawnErrorLemma
  <2>7. CASE At(e, "seg_map") /\ Panic(e)
    BY <2>7, AtLemma, PanicLemma
  <2>8. QED  BY <1>3, <2>2, <2>3, <2>4, <2>5, <2>6, <2>7 DEF MapSegment
<1>4. CASE SegmentRead(e)
  BY <1>4, SpawnGotoLemma DEF SegmentRead
<1>5. CASE CopyShared(e)
  BY <1>5, CopySharedLemma
<1>6. CASE SpawnStart(e)
  BY <1>6, StartsLemma DEF SpawnStart
<1>7. QED  BY <1>1, <1>2, <1>3, <1>4, <1>5, <1>6 DEF Spawning

(* of fork,                                                                 *)
LEMMA ForkingLemma ==
    ASSUME IInv, NEW e \in Envs, Forking(e) PROVE IInv'
<1>1. CASE ForkExofork(e)
  BY <1>1, ExoforkLemma DEF ForkExofork
<1>2. CASE ForkStart(e)
  <2>1. handler[e] \in BOOLEAN
    BY DEF IInv, TypeInv
  <2>2. PICK h \in BOOLEAN : h = handler[e]
    BY <2>1
  <2>3. QED  BY <1>2, <2>2, StartsLemma DEF ForkStart
<1>3. CASE ThisEnv(e)
  BY <1>3, ReturnLemma, AtLemma DEF ThisEnv
<1>4. QED
  BY <1>1, <1>2, <1>3, SetHandlerLemma, SetUpcallLemma, NextPageLemma, DupChildLemma,
     DupOwnLemma, ChildXstackLemma, ChildUpcallLemma DEF Forking

(* and of the program itself.                                               *)
LEMMA ProgramLemma ==
    ASSUME IInv, NEW e \in Envs, Program(e) PROVE IInv'
<1>1. {"data", "fd"} \subseteq VA
  BY VALemma
<1>2. CASE SpawnExofork(e)
  BY <1>2, ExoforkLemma DEF SpawnExofork
<1>3. QED
  BY <1>1, <1>2, ForkCallLemma, DestroyLemma, StoreLemma DEF Program

(* Every step keeps the invariant.                                          *)
LEMMA NextLemma == IInv /\ [Next]_vars => IInv'
<1> SUFFICES ASSUME IInv, [Next]_vars  PROVE IInv'
  OBVIOUS
<1>1. CASE UNCHANGED vars
  <2>1. UNCHANGED <<pt, stale, life, upcall, handler, call, fault>>
    BY <1>1 DEF vars, memVars
  <2>2. Calls(call)'
    BY <2>1 DEF IInv, TypeInv, Calls
  <2>3. TypeInv' /\ TlbCurrent'
    BY <2>1, <2>2, QuietLemma
  <2>4. ASSUME NEW e \in Envs  PROVE EnvInv(e)'
    BY <2>1 DEF IInv, EnvInv, Sound, Growing, Made, Perm, Ready, CanStore, Child, Va, Copied
  <2>5. QED  BY <2>3, <2>4 DEF IInv
<1>2. ASSUME NEW e \in Envs, Handler(e)  PROVE IInv'
  BY <1>2, PgfaultAllocLemma, PgfaultCopyLemma, PgfaultUnmapLemma, PgfaultMapLemma,
     PgfaultUntempLemma DEF Handler
<1>3. QED
  BY <1>1, <1>2, ProgramLemma, ForkingLemma, SpawningLemma, PageFaultLemma DEF Next, Library

(* The invariant holds in every state of every execution.                   *)
THEOREM IInvTheorem == Spec => []IInv
  BY InitLemma, NextLemma, PTL DEF Spec

(* No program ever runs with an entry in its TLB that it has lost.          *)
THEOREM TlbCurrentTheorem == Spec => []TlbCurrent
<1>1. IInv => TlbCurrent
  BY DEF IInv
<1>2. QED  BY <1>1, IInvTheorem, PTL

(* No program is killed for a store to its own memory, however forks,       *)
(* faults and failures of its own and of others come between.               *)
THEOREM StoresSucceedTheorem == Spec => []StoresSucceed
<1>1. IInv => StoresSucceed
  BY DEF IInv, EnvInv, StoresSucceed
<1>2. QED  BY <1>1, IInvTheorem, PTL

(* The step that ends a fault leaves its page writable.                     *)
LEMMA FaultStepLemma ==
    ASSUME IInv, [Next]_vars, NEW e \in Envs, fault[e].pc # "none", fault'[e].pc = "none"
    PROVE  life'[e] # "alive" \/ "W" \in pt'[e][FaultVa(e)].perm
<1>1. fault' # fault
  OBVIOUS
<1>2. ASSUME NEW d \in Envs, Program(d) \/ Library(d)
      PROVE  Destroy(d) \/ Handler(d) \/ \E va \in VA : PageFault(d, va)
  <2>1. ~ Forking(d)
    BY <1>1 DEF Forking, SetHandler, SetUpcall, ForkExofork, Exofork, NextPage, DupChild, DupOwn,
                ChildXstack, ChildUpcall, ForkStart, Starts, ThisEnv, Panic
  <2>2. ~ Spawning(d)
    BY <1>1 DEF Spawning, InitStack, ArgsFill, MapSegment, SegmentRead, CopyShared, SpawnStart, Starts
  <2>3. Program(d) => Destroy(d)
    BY <1>1 DEF Program, ForkCall, SpawnExofork, Exofork, Store
  <2>4. QED  BY <1>2, <2>1, <2>2, <2>3 DEF Library
<1>3. PICK d \in Envs : Destroy(d) \/ Handler(d) \/ \E va \in VA : PageFault(d, va)
  BY <1>1, <1>2 DEF Next, vars
<1>4. CASE Destroy(d)
  <2>1. d = e
    BY <1>4 DEF Destroy, IInv, TypeInv, Faults
  <2>2. QED  BY <1>4, <2>1 DEF Destroy, IInv, TypeInv
<1>5. CASE Handler(d)
  <2>1. ~ (PgfaultAlloc(d) \/ PgfaultCopy(d) \/ PgfaultUnmap(d) \/ PgfaultMap(d))
    BY HandlerToLemma DEF PgfaultAlloc, PgfaultCopy, PgfaultUnmap, PgfaultMap, IInv
  <2>2. PgfaultUntemp(d)
    BY <1>5, <2>1 DEF Handler
  <2>3. d = e
    BY <2>2 DEF PgfaultUntemp, IInv, TypeInv, Faults
  <2>4. QED  BY <2>2, <2>3, PgfaultUntempLemma
<1>6. CASE \E va \in VA : PageFault(d, va)
  <2>1. d = e
    BY <1>6 DEF PageFault, IInv, TypeInv, Faults
  <2>2. QED  BY <1>6, <2>1 DEF PageFault
<1>7. QED  BY <1>3, <1>4, <1>5, <1>6

(* When the page-fault handler returns, the store that faulted succeeds.    *)
THEOREM FaultResolvedTheorem == Spec => FaultResolved
<1>1. IInv /\ [Next]_vars =>
        [\A e \in Envs :
           fault[e].pc # "none" /\ fault'[e].pc = "none" =>
             life'[e] # "alive" \/ "W" \in pt'[e][FaultVa(e)].perm]_vars
  BY FaultStepLemma
<1>2. QED
  BY <1>1, IInvTheorem, PTL DEF Spec, FaultResolved

-----------------------------------------------------------------------------
(* Second part: who shares a page with whom.                                *)
Perms == {"W", "COW", "SHARE"}
Shared(x, a, y, b) == pt[x][a].frame = pt[y][b].frame /\ pt[x][a].frame # NoFrame

\* What x has at a.
Held(x, a) == content[pt[x][a].frame]

\* Entry a of program x is handed over, to entry b of y.
Hand(x, a, y, b) ==
    \/ call[x].pc = "dup_own" /\ a = Va(x) /\ y = Child(x) /\ b = a
    \/ fault[x].pc = "untemp" /\ a = "pftemp" /\ y = x /\ b = FaultVa(x)
    \/ call[x].pc = "args_unmap" /\ a = "utemp" /\ y = Child(x) /\ b = "stack"
    \/ call[x].pc = "seg_unmap" /\ a = "utemp" /\ y = Child(x) /\ b = "data"

Excused(x, a, y, b) ==
    \/ "SHARE" \in Perm(x, a) /\ "SHARE" \in Perm(y, b)
    \/ Hand(x, a, y, b)
    \/ Hand(y, b, x, a)

\* Whoever can store to a page has it alone, but for that.
Apart ==
    \A x, y \in Envs, a, b \in VA :
        CanStore(x, a) /\ Shared(x, a, y, b) /\ ~ (x = y /\ a = b) => Excused(x, a, y, b)

Filling == {"args_fill", "args_map", "read", "seg_map"}

\* The pages on their way: a program has one at PFTEMP in its handler only,
HandlerTemp(e) ==
    /\ fault[e].pc \in {"none", "alloc"} => pt[e]["pftemp"] = Unmapped
    /\ fault[e].pc \in {"copy", "unmap", "map"} => Perm(e, "pftemp") = {"W"}
\* and one at UTEMP in spawn; duppage gives away what its page still is.
CallTemp(e) ==
    /\ call[e].pc \in Filling => Perm(e, "utemp") = {"W"}
    /\ call[e].pc \in {"dup_child", "dup_own"} =>
          /\ Va(e) # "pftemp"
          /\ Va(e) \notin Private => call[e].perm = DupPerm(pt[e][Va(e)])
    /\ call[e].pc = "dup_own" => Perm(Child(e), Va(e)) = call[e].perm
    /\ call[e].perm \subseteq Perms
TempInv(e) ==
    /\ HandlerTemp(e)
    /\ CallTemp(e)
    /\ life[e] \in {"free", "killed"} => pt[e] = Nothing

Framed ==
    /\ pt \in [Envs -> [VA -> Pte]]
    /\ content \in [Frames -> Vals]
    /\ \A e \in Envs, va \in VA : pt[e][va].frame = NoFrame => pt[e][va] = Unmapped

JInv == Framed /\ Apart /\ \A e \in Envs : TempInv(e)

(* A number names an entry.                                                 *)
LEMMA NumberLemma ==
    /\ Frames \subseteq Nat \ {0}
    /\ \A e \in Envs, va \in VA : Number[e][va] \in Frames /\ Entry[Number[e][va]] = <<e, va>>
    /\ \A f \in Frames : Entry[f][1] \in Envs /\ Entry[f][2] \in VA
<1> DEFINE I(va) == CHOOSE i \in 1 .. Len(Order) : Order[i] = va
<1>1. Len(Order) = 6
  BY DEF Order
<1>2. \A va \in VA : I(va) \in 1 .. 6 /\ Order[I(va)] = va
  BY <1>1 DEF VA
<1>3. \A e \in Envs, va \in VA : Number[e][va] = e * 6 + I(va)
  BY <1>1 DEF Number
<1> HIDE DEF I
<1>4. \A e \in Envs, va \in VA : Number[e][va] \in Frames /\ Number[e][va] \in Nat \ {0}
  <2> SUFFICES ASSUME NEW e \in Envs, NEW va \in VA
               PROVE  Number[e][va] \in Frames /\ Number[e][va] \in Nat \ {0}
    OBVIOUS
  <2>1. Number[e][va] \in Frames
    BY DEF Frames
  <2>2. e \in Nat /\ I(va) \in 1 .. 6 /\ Number[e][va] = e * 6 + I(va)
    BY <1>2, <1>3, EnvsAssumption
  <2>3. QED  BY <2>1, <2>2
<1>5. \A f \in Frames : \E e \in Envs, va \in VA : f = Number[e][va]
  BY DEF Frames
<1>6. \A e, d \in Envs, va, w \in VA : Number[e][va] = Number[d][w] => e = d /\ va = w
  <2> SUFFICES ASSUME NEW e \in Envs, NEW d \in Envs, NEW va \in VA, NEW w \in VA,
                      Number[e][va] = Number[d][w]
               PROVE  e = d /\ va = w
    OBVIOUS
  <2>1. PICK i, j : i = I(va) /\ j = I(w)
    OBVIOUS
  <2>2. e \in Nat /\ d \in Nat /\ i \in 1 .. 6 /\ j \in 1 .. 6 /\ e * 6 + i = d * 6 + j
    BY <1>2, <1>3, <2>1, EnvsAssumption
  <2>3. e = d /\ i = j
    BY <2>2
  <2>4. QED  BY <1>2, <2>1, <2>3
<1>7. ASSUME NEW f \in Frames
      PROVE  Entry[f] \in Envs \X VA /\ Number[Entry[f][1]][Entry[f][2]] = f
  <2>1. PICK e \in Envs, va \in VA : f = Number[e][va]
    BY <1>5
  <2>2. \E x \in Envs \X VA : Number[x[1]][x[2]] = f
    <3>1. <<e, va>> \in Envs \X VA /\ <<e, va>>[1] = e /\ <<e, va>>[2] = va
      OBVIOUS
    <3>2. QED  BY <2>1, <3>1
  <2>3. Entry[f] = CHOOSE x \in Envs \X VA : Number[x[1]][x[2]] = f
    BY DEF Entry
  <2>4. QED  BY <2>2, <2>3
<1>8. ASSUME NEW e \in Envs, NEW va \in VA
      PROVE  Entry[Number[e][va]] = <<e, va>>
  <2>1. PICK x \in Envs \X VA : x = Entry[Number[e][va]]
    BY <1>4, <1>7
  <2>2. x[1] \in Envs /\ x[2] \in VA /\ x = <<x[1], x[2]>>
    OBVIOUS
  <2>3. Number[x[1]][x[2]] = Number[e][va]
    BY <1>4, <1>7, <2>1
  <2>4. x[1] = e /\ x[2] = va
    BY <1>6, <2>2, <2>3
  <2>5. QED  BY <2>1, <2>2, <2>4
<1>9. Frames \subseteq Nat \ {0}
  BY <1>4, <1>5
<1>10. QED  BY <1>4, <1>7, <1>8, <1>9

(* The least of a set of numbers.                                           *)
LEMMA LeastLemma ==
    ASSUME NEW T, T \subseteq Nat, T # {}
    PROVE  Min(T) \in T /\ \A y \in T : Min(T) <= y
<1>1. \E x \in T : \A y \in T : x <= y
  BY LeastNumber
<1>2. QED  BY <1>1 DEF Min

\* Tables as they are before the pages get their names anew.
Raw(p) ==
    /\ p \in [Envs -> [VA -> [frame : Frames \cup {NoFrame, NewFrame}, perm : SUBSET Perms]]]
    /\ \A e \in Envs, va \in VA : p[e][va].frame = NoFrame => p[e][va] = Unmapped

(* New names for the pages: an entry keeps its permissions, leads to a page *)
(* if it did, and to the same page as another one if it did.                *)
LEMMA NamesLemma ==
    ASSUME NEW p, Raw(p), NEW c, Remap(p, c),
           \A f \in Frames \cup {NewFrame} :
              (\E e \in Envs, va \in VA : p[e][va].frame = f) => c[f] \in Vals
    PROVE  /\ Framed'
           /\ \A e \in Envs, va \in VA :
                /\ Perm(e, va)' = p[e][va].perm
                /\ pt'[e][va] = Unmapped <=> p[e][va] = Unmapped
           /\ \A e, d \in Envs, va, w \in VA :
                Shared(e, va, d, w)' <=> p[e][va].frame = p[d][w].frame /\ p[e][va].frame # NoFrame
           /\ \A e \in Envs, va \in VA : p[e][va] # Unmapped => Held(e, va)' = c[p[e][va].frame]
<1> DEFINE Page(n) == p[Entry[n][1]][Entry[n][2]].frame
           Name(f) == Min({n \in Frames : Page(n) = f})
           R(e, va) == IF p[e][va] = Unmapped THEN Unmapped
                       ELSE [p[e][va] EXCEPT !.frame = Name(@)]
<1>1. /\ pt' = [e \in Envs |-> [va \in VA |-> R(e, va)]]
      /\ content' = [n \in Frames |->
            IF Page(n) = NoFrame \/ Name(Page(n)) < n THEN Zero ELSE c[Page(n)]]
  BY DEF Remap
<1>2. \A e \in Envs, va \in VA : Page(Number[e][va]) = p[e][va].frame
  <2> SUFFICES ASSUME NEW e \in Envs, NEW va \in VA
               PROVE  Page(Number[e][va]) = p[e][va].frame
    OBVIOUS
  <2>1. Entry[Number[e][va]][1] = e /\ Entry[Number[e][va]][2] = va
    BY NumberLemma
  <2>2. QED  BY <2>1
<1>3. \A n \in Frames : \E e \in Envs, va \in VA : Page(n) = p[e][va].frame
  BY NumberLemma
<1> HIDE DEF Page
<1>4. \A e \in Envs, va \in VA :
        Name(p[e][va].frame) \in Frames /\ Page(Name(p[e][va].frame)) = p[e][va].frame
  <2> SUFFICES ASSUME NEW e \in Envs, NEW va \in VA
               PROVE  Name(p[e][va].frame) \in Frames /\ Page(Name(p[e][va].frame)) = p[e][va].frame
    OBVIOUS
  <2> DEFINE T == {n \in Frames : Page(n) = p[e][va].frame}
  <2>1. Number[e][va] \in T /\ T \subseteq Nat
    BY <1>2, NumberLemma
  <2>2. Min(T) \in T
    BY <2>1, LeastLemma
  <2>3. QED  BY <2>2
<1> HIDE DEF Name
<1>5. ASSUME NEW e \in Envs, NEW va \in VA
      PROVE  /\ p[e][va] = [frame |-> p[e][va].frame, perm |-> p[e][va].perm]
             /\ p[e][va].perm \in SUBSET Perms
             /\ p[e][va].frame \in Frames \cup {NoFrame, NewFrame}
             /\ p[e][va] = Unmapped <=> p[e][va].frame = NoFrame
             /\ p[e][va] = Unmapped => R(e, va) = Unmapped /\ p[e][va].perm = {}
             /\ p[e][va] # Unmapped =>
                  R(e, va) = [frame |-> Name(p[e][va].frame), perm |-> p[e][va].perm]
  <2>1. p[e][va] \in [frame : Frames \cup {NoFrame, NewFrame}, perm : SUBSET Perms]
    BY DEF Raw
  <2>2. PICK f, q : f = p[e][va].frame /\ q = p[e][va].perm
    OBVIOUS
  <2>3. p[e][va] = [frame |-> f, perm |-> q] /\ q \in SUBSET Perms
        /\ f \in Frames \cup {NoFrame, NewFrame}
    BY <2>1, <2>2
  <2>4. p[e][va] = Unmapped => f = NoFrame /\ q = {}
    BY <2>2 DEF Unmapped
  <2>5. f = NoFrame => p[e][va] = Unmapped
    BY <2>2 DEF Raw
  <2>6. p[e][va] # Unmapped => R(e, va) = [frame |-> Name(f), perm |-> q]
    BY <2>3
  <2>7. QED  BY <2>2, <2>3, <2>4, <2>5, <2>6
<1> HIDE DEF R
<1>6. \A e \in Envs, va \in VA : pt'[e][va] = R(e, va)
  BY <1>1
<1>7. NoFrame \notin Frames
  BY NumberLemma DEF NoFrame
<1>8. ASSUME NEW e \in Envs, NEW va \in VA
      PROVE  /\ pt'[e][va] \in Pte /\ pt'[e][va].perm = p[e][va].perm
             /\ p[e][va] = Unmapped => pt'[e][va] = Unmapped /\ pt'[e][va].frame = NoFrame
             /\ p[e][va] # Unmapped =>
                  /\ pt'[e][va].frame = Name(p[e][va].frame) /\ pt'[e][va].frame # NoFrame
  <2>1. PICK f, q, n, u : /\ f = p[e][va].frame /\ q = p[e][va].perm
                          /\ n = Name(p[e][va].frame) /\ u = pt'[e][va]
    OBVIOUS
  <2>2. CASE p[e][va] = Unmapped
    <3>1. u = Unmapped /\ q = {}
      BY <1>5, <1>6, <2>1, <2>2, ZenonT(60)
    <3>2. u \in Pte /\ u.frame = NoFrame /\ u.perm = q
      BY <3>1 DEF Unmapped, Pte
    <3>3. QED  BY <2>1, <2>2, <3>1, <3>2
  <2>3. CASE p[e][va] # Unmapped
    <3>1. R(e, va) = [frame |-> Name(p[e][va].frame), perm |-> p[e][va].perm]
          /\ p[e][va].perm \in SUBSET Perms /\ pt'[e][va] = R(e, va)
      BY <1>5, <1>6, <2>3, ZenonT(60)
    <3> HIDE DEF Perms
    <3>5. u = [frame |-> n, perm |-> q] /\ q \in SUBSET Perms
      BY <2>1, <3>1
    <3>2. n \in Frames /\ n # NoFrame
      BY <1>4, <1>7, <2>1
    <3>3. u \in Pte /\ u.frame = n /\ u.perm = q
      BY <3>2, <3>5 DEF Pte, Perms
    <3>4. QED  BY <2>1, <2>3, <3>2, <3>3, <3>5
  <2>4. QED  BY <2>2, <2>3
<1>9. pt' \in [Envs -> [VA -> Pte]]
  BY <1>1, <1>6, <1>8
<1>10. content' \in [Frames -> Vals]
  <2>1. ASSUME NEW n \in Frames, Page(n) # NoFrame  PROVE c[Page(n)] \in Vals
    <3>1. PICK e \in Envs, va \in VA : Page(n) = p[e][va].frame
      BY <1>3
    <3>2. QED  BY <1>5, <2>1, <3>1
  <2>2. Zero \in Vals
    BY DEF Vals
  <2>3. QED  BY <1>1, <2>1, <2>2
<1>11. ASSUME NEW e \in Envs, NEW d \in Envs, NEW va \in VA, NEW w \in VA
       PROVE  Shared(e, va, d, w)' <=> p[e][va].frame = p[d][w].frame /\ p[e][va].frame # NoFrame
  <2>1. Shared(e, va, d, w)' <=> pt'[e][va].frame = pt'[d][w].frame /\ pt'[e][va].frame # NoFrame
    BY DEF Shared
  <2>2. CASE p[e][va] = Unmapped
    BY <1>5, <1>8, <2>1, <2>2
  <2>3. CASE p[e][va] # Unmapped /\ p[d][w] = Unmapped
    BY <1>5, <1>8, <2>1, <2>3
  <2>4. CASE p[e][va] # Unmapped /\ p[d][w] # Unmapped
    <3>1. Shared(e, va, d, w)' <=> Name(p[e][va].frame) = Name(p[d][w].frame)
      BY <1>8, <2>1, <2>4
    <3>2. p[e][va].frame # NoFrame /\ p[d][w].frame # NoFrame
      BY <1>5, <2>4
    <3>3. Name(p[e][va].frame) = Name(p[d][w].frame) <=> p[e][va].frame = p[d][w].frame
      BY <1>4
    <3>4. QED  BY <3>1, <3>2, <3>3
  <2>5. QED  BY <2>2, <2>3, <2>4
<1>12. \A e \in Envs, va \in VA : pt'[e][va] = Unmapped <=> p[e][va] = Unmapped
  <2> SUFFICES ASSUME NEW e \in Envs, NEW va \in VA, p[e][va] # Unmapped
               PROVE  pt'[e][va] # Unmapped
    BY <1>8
  <2>1. pt'[e][va].frame # NoFrame
    BY <1>8
  <2>2. QED  BY <2>1 DEF Unmapped
<1>13. ASSUME NEW e \in Envs, NEW va \in VA, p[e][va] # Unmapped
       PROVE  Held(e, va)' = c[p[e][va].frame]
  <2>1. PICK n \in Frames : n = Name(p[e][va].frame) /\ Page(n) = p[e][va].frame
    BY <1>4
  <2>7. p[e][va].frame # NoFrame
    BY <1>5, <1>13
  <2>8. pt'[e][va].frame = Name(p[e][va].frame)
    BY <1>8, <1>13
  <2>2. pt'[e][va].frame = n /\ Page(n) # NoFrame
    BY <2>1, <2>7, <2>8
  <2>3. Name(Page(n)) = n /\ n \in Nat
    BY <2>1, NumberLemma
  <2>4. ~ (Name(Page(n)) < n)
    BY <2>3
  <2>5. content'[n] = c[Page(n)]
    BY <1>1, <2>2, <2>4
  <2>6. QED  BY <2>1, <2>2, <2>5 DEF Held
<1>14. QED
  BY <1>8, <1>9, <1>10, <1>11, <1>12, <1>13 DEF Framed, Perm

\* One entry changes, w of e; the others share what they shared.
OneEntry(e, w) ==
    /\ Framed'
    /\ \A x \in Envs, a \in VA : ~ (x = e /\ a = w) =>
         Perm(x, a)' = Perm(x, a) /\ (pt'[x][a] = Unmapped <=> pt[x][a] = Unmapped)
    /\ \A x, y \in Envs, a, b \in VA : ~ (x = e /\ a = w) /\ ~ (y = e /\ b = w) =>
         (Shared(x, a, y, b)' <=> Shared(x, a, y, b))
    /\ \A x \in Envs, a \in VA : ~ (x = e /\ a = w) /\ pt[x][a] # Unmapped =>
         Held(x, a)' = Held(x, a)

(* A changed entry leads where the new one does.                            *)
LEMMA EntryFramesLemma ==
    ASSUME Framed, NEW by \in Envs, NEW e \in Envs, NEW w \in VA, NEW entry,
           entry \in [frame : Frames \cup {NoFrame, NewFrame}, perm : SUBSET Perms],
           entry.frame = NoFrame => entry = Unmapped,
           NEW c, SetEntry(by, e, w, entry, c),
           \A f \in Frames : c[f] = content[f], entry.frame = NewFrame => c[NewFrame] \in Vals
    PROVE  /\ OneEntry(e, w)
           /\ Perm(e, w)' = entry.perm /\ (pt'[e][w] = Unmapped <=> entry = Unmapped)
           /\ \A y \in Envs, b \in VA : ~ (y = e /\ b = w) =>
                (Shared(e, w, y, b)' <=> pt[y][b].frame = entry.frame /\ entry.frame # NoFrame)
           /\ entry # Unmapped => Held(e, w)' = c[entry.frame]
<1> DEFINE p == [pt EXCEPT ![e][w] = entry]
<1>1. NewFrame \notin Frames /\ NoFrame \notin Frames /\ NewFrame # NoFrame
  BY NumberLemma DEF NewFrame, NoFrame
<1>2. \A x \in Envs, a \in VA : p[x][a] = IF x = e /\ a = w THEN entry ELSE pt[x][a]
  BY DEF Framed
<1>3. \A x \in Envs, a \in VA :
         /\ pt[x][a] \in [frame : Frames \cup {NoFrame, NewFrame}, perm : SUBSET Perms]
         /\ pt[x][a].frame \in Frames \cup {NoFrame}
  <2> SUFFICES ASSUME NEW x \in Envs, NEW a \in VA
               PROVE  /\ pt[x][a] \in [frame : Frames \cup {NoFrame, NewFrame}, perm : SUBSET Perms]
                      /\ pt[x][a].frame \in Frames \cup {NoFrame}
    OBVIOUS
  <2>1. pt[x][a] \in Pte
    BY DEF Framed
  <2>2. QED  BY <2>1 DEF Pte, Perms
<1>4. Raw(p)
  <2>1. p \in [Envs -> [VA -> [frame : Frames \cup {NoFrame, NewFrame}, perm : SUBSET Perms]]]
    <3>1. p = [x \in Envs |-> [a \in VA |-> p[x][a]]]
      BY DEF Framed
    <3> HIDE DEF p
    <3>2. \A x \in Envs, a \in VA :
            p[x][a] \in [frame : Frames \cup {NoFrame, NewFrame}, perm : SUBSET Perms]
      BY <1>2, <1>3
    <3>3. QED  BY <3>1, <3>2
  <2> HIDE DEF p
  <2>2. \A x \in Envs, va \in VA : p[x][va].frame = NoFrame => p[x][va] = Unmapped
    BY <1>2 DEF Framed
  <2>3. QED  BY <2>1, <2>2 DEF Raw
<1> HIDE DEF p
<1>5. \A f \in Frames \cup {NewFrame} :
        (\E x \in Envs, a \in VA : p[x][a].frame = f) => c[f] \in Vals
  BY <1>1, <1>2, <1>3 DEF Framed
<1>6. Remap(p, c)
  BY DEF SetEntry, p
<1>7. /\ Framed'
      /\ \A x \in Envs, a \in VA :
           /\ Perm(x, a)' = p[x][a].perm
           /\ pt'[x][a] = Unmapped <=> p[x][a] = Unmapped
      /\ \A x, d \in Envs, a, b \in VA :
           Shared(x, a, d, b)' <=> p[x][a].frame = p[d][b].frame /\ p[x][a].frame # NoFrame
      /\ \A x \in Envs, a \in VA : p[x][a] # Unmapped => Held(x, a)' = c[p[x][a].frame]
  BY <1>4, <1>5, <1>6, NamesLemma
<1>8. ASSUME NEW x \in Envs, NEW a \in VA, ~ (x = e /\ a = w), pt[x][a] # Unmapped
      PROVE  Held(x, a)' = Held(x, a)
  <2>1. pt[x][a].frame \in Frames /\ p[x][a] = pt[x][a]
    BY <1>2, <1>3, <1>8 DEF Framed
  <2>2. QED  BY <1>7, <1>8, <2>1 DEF Held
<1>9. entry # Unmapped => Held(e, w)' = c[entry.frame]
  BY <1>2, <1>7
<1>10. QED  BY <1>2, <1>7, <1>8, <1>9 DEF OneEntry, Shared, Perm

(* sys_page_alloc: nobody else has the new page.                            *)
LEMMA AllocFramesLemma ==
    ASSUME Framed, NEW by \in Envs, NEW e \in Envs, NEW w \in VA, NEW q \in SUBSET Perms,
           SysPageAlloc(by, e, w, q)
    PROVE  /\ OneEntry(e, w) /\ Perm(e, w)' = q
           /\ \A y \in Envs, b \in VA : ~ (y = e /\ b = w) => ~ Shared(e, w, y, b)'
           /\ pt'[e][w] # Unmapped /\ Held(e, w)' = Zero
<1> DEFINE entry == [frame |-> NewFrame, perm |-> q]
           c == [f \in Frames \cup {NewFrame} |-> IF f = NewFrame THEN Zero ELSE content[f]]
<1>1. NewFrame \notin Frames /\ NoFrame \notin Frames /\ NewFrame # NoFrame
  BY NumberLemma DEF NewFrame, NoFrame
<1>2. (\A f \in Frames : c[f] = content[f]) /\ c[NewFrame] = Zero /\ Zero \in Vals
  BY <1>1 DEF Framed, Vals
<1>3. /\ entry \in [frame : Frames \cup {NoFrame, NewFrame}, perm : SUBSET Perms]
      /\ entry.frame = NewFrame /\ entry.perm = q /\ entry # Unmapped
  BY <1>1 DEF Unmapped
<1>4. SetEntry(by, e, w, entry, c)
  BY DEF SysPageAlloc
<1> HIDE DEF entry, c
<1>5. /\ OneEntry(e, w) /\ Perm(e, w)' = entry.perm /\ pt'[e][w] # Unmapped
      /\ \A y \in Envs, b \in VA : ~ (y = e /\ b = w) /\ Shared(e, w, y, b)' =>
           pt[y][b].frame = entry.frame
      /\ Held(e, w)' = Zero
  BY <1>1, <1>2, <1>3, <1>4, EntryFramesLemma
<1>6. \A y \in Envs, b \in VA : pt[y][b].frame # NewFrame
  <2> SUFFICES ASSUME NEW y \in Envs, NEW b \in VA  PROVE pt[y][b].frame # NewFrame
    OBVIOUS
  <2>1. pt[y][b] \in Pte
    BY DEF Framed
  <2>2. QED  BY <1>1, <2>1 DEF Pte
<1>7. QED  BY <1>3, <1>5, <1>6

(* sys_page_map: the page is shared with those who share it already.        *)
LEMMA MapFramesLemma ==
    ASSUME Framed, NEW by \in Envs, NEW s \in Envs, NEW v \in VA,
           NEW e \in Envs, NEW w \in VA, NEW q \in SUBSET Perms,
           SysPageMap(by, s, v, e, w, q)
    PROVE  /\ OneEntry(e, w) /\ Perm(e, w)' = q
           /\ \A y \in Envs, b \in VA : ~ (y = e /\ b = w) =>
                (Shared(e, w, y, b)' <=> Shared(s, v, y, b))
           /\ pt'[e][w] # Unmapped /\ Held(e, w)' = Held(s, v)
<1>1. PICK f : f = pt[s][v].frame
  OBVIOUS
<1>2. f \in Frames
  <2>1. pt[s][v] \in Pte /\ pt[s][v] # Unmapped
    BY DEF Framed, SysPageMap
  <2>2. QED  BY <1>1, <2>1 DEF Pte, Framed
<1> DEFINE entry == [frame |-> f, perm |-> q]
<1>3. NewFrame \notin Frames /\ NoFrame \notin Frames
  BY NumberLemma DEF NewFrame, NoFrame
<1>4. /\ entry \in [frame : Frames \cup {NoFrame, NewFrame}, perm : SUBSET Perms]
      /\ entry.frame = f /\ entry.perm = q /\ entry # Unmapped
  BY <1>2, <1>3 DEF Unmapped
<1>5. SetEntry(by, e, w, entry, content)
  BY <1>1 DEF SysPageMap
<1> HIDE DEF entry
<1>6. /\ OneEntry(e, w) /\ Perm(e, w)' = entry.perm /\ pt'[e][w] # Unmapped
      /\ \A y \in Envs, b \in VA : ~ (y = e /\ b = w) =>
           (Shared(e, w, y, b)' <=> pt[y][b].frame = entry.frame)
      /\ Held(e, w)' = content[entry.frame]
  BY <1>2, <1>3, <1>4, <1>5, EntryFramesLemma
<1>7. QED  BY <1>1, <1>2, <1>3, <1>4, <1>6 DEF Shared, Held

(* sys_page_unmap.                                                          *)
LEMMA UnmapFramesLemma ==
    ASSUME Framed, NEW by \in Envs, NEW e \in Envs, NEW w \in VA, SysPageUnmap(by, e, w)
    PROVE  /\ OneEntry(e, w) /\ pt'[e][w] = Unmapped
           /\ \A y \in Envs, b \in VA : ~ (y = e /\ b = w) => ~ Shared(e, w, y, b)'
<1>1. NewFrame # NoFrame
  BY DEF NewFrame, NoFrame
<1>2. /\ Unmapped \in [frame : Frames \cup {NoFrame, NewFrame}, perm : SUBSET Perms]
      /\ Unmapped.frame = NoFrame
  BY DEF Unmapped
<1>3. SetEntry(by, e, w, Unmapped, content)
  BY DEF SysPageUnmap
<1>4. QED  BY <1>1, <1>2, <1>3, EntryFramesLemma

(* env_free: all entries of one program.                                    *)
LEMMA FreeFramesLemma ==
    ASSUME Framed, NEW e \in Envs, EnvFree(e)
    PROVE  /\ Framed' /\ pt'[e] = Nothing
           /\ \A x \in Envs \ {e}, a \in VA :
                Perm(x, a)' = Perm(x, a) /\ (pt'[x][a] = Unmapped <=> pt[x][a] = Unmapped)
           /\ \A x, y \in Envs, a, b \in VA : Shared(x, a, y, b)' <=>
                Shared(x, a, y, b) /\ x # e /\ y # e
           /\ \A x \in Envs \ {e}, a \in VA : pt[x][a] # Unmapped => Held(x, a)' = Held(x, a)
<1> DEFINE p == [pt EXCEPT ![e] = Nothing]
<1>1. \A x \in Envs, a \in VA : p[x][a] = IF x = e THEN Unmapped ELSE pt[x][a]
  BY DEF Framed, Nothing
<1>2. \A x \in Envs, a \in VA :
         /\ pt[x][a] \in [frame : Frames \cup {NoFrame, NewFrame}, perm : SUBSET Perms]
         /\ pt[x][a].frame \in Frames \cup {NoFrame}
  <2> SUFFICES ASSUME NEW x \in Envs, NEW a \in VA
               PROVE  /\ pt[x][a] \in [frame : Frames \cup {NoFrame, NewFrame}, perm : SUBSET Perms]
                      /\ pt[x][a].frame \in Frames \cup {NoFrame}
    OBVIOUS
  <2>1. pt[x][a] \in Pte
    BY DEF Framed
  <2>2. QED  BY <2>1 DEF Pte, Perms
<1>3. /\ Unmapped \in [frame : Frames \cup {NoFrame, NewFrame}, perm : SUBSET Perms]
      /\ Unmapped.frame = NoFrame /\ Unmapped.perm = {}
  BY DEF Unmapped
<1>4. Raw(p)
  <2>1. p = [x \in Envs |-> [a \in VA |-> p[x][a]]]
    BY DEF Framed, Nothing
  <2> HIDE DEF p
  <2>2. \A x \in Envs, a \in VA :
            p[x][a] \in [frame : Frames \cup {NoFrame, NewFrame}, perm : SUBSET Perms]
    BY <1>1, <1>2, <1>3
  <2>3. \A x \in Envs, a \in VA : p[x][a].frame = NoFrame => p[x][a] = Unmapped
    BY <1>1 DEF Framed
  <2>4. p \in [Envs -> [VA -> [frame : Frames \cup {NoFrame, NewFrame}, perm : SUBSET Perms]]]
    BY <2>1, <2>2
  <2>5. QED  BY <2>3, <2>4 DEF Raw
<1> HIDE DEF p
<1>5. NewFrame \notin Frames /\ NewFrame # NoFrame
  BY NumberLemma DEF NewFrame, NoFrame
<1>6. \A f \in Frames \cup {NewFrame} :
        (\E x \in Envs, a \in VA : p[x][a].frame = f) => content[f] \in Vals
  BY <1>1, <1>2, <1>3, <1>5 DEF Framed
<1>7. Remap(p, content)
  BY DEF EnvFree, p
<1>8. /\ Framed'
      /\ \A x \in Envs, a \in VA :
           /\ Perm(x, a)' = p[x][a].perm
           /\ pt'[x][a] = Unmapped <=> p[x][a] = Unmapped
      /\ \A x, d \in Envs, a, b \in VA :
           Shared(x, a, d, b)' <=> p[x][a].frame = p[d][b].frame /\ p[x][a].frame # NoFrame
      /\ \A x \in Envs, a \in VA : p[x][a] # Unmapped => Held(x, a)' = content[p[x][a].frame]
  BY <1>4, <1>6, <1>7, NamesLemma
<1>9. pt'[e] = Nothing
  <2>1. \A a \in VA : pt'[e][a] = Unmapped
    BY <1>1, <1>8
  <2>2. pt'[e] = [a \in VA |-> pt'[e][a]]
    BY <1>8 DEF Framed
  <2>3. QED  BY <2>1, <2>2 DEF Nothing
<1>10. QED  BY <1>1, <1>3, <1>8, <1>9 DEF Shared, Perm, Held

-----------------------------------------------------------------------------
\* Program x goes on handing over what it hands over.
Handing == {"dup_own", "args_unmap", "seg_unmap"}
Still(x) ==
    /\ call'[x] = call[x] \/ call[x].pc \notin Handing
    /\ fault'[x] = fault[x] \/ fault[x].pc # "untemp"

LEMMA StillLemma ==
    ASSUME NEW x \in Envs, Still(x), NEW a, NEW y, NEW b, Hand(x, a, y, b)
    PROVE  Hand(x, a, y, b)'
  BY DEF Still, Hand, Handing, Va, Child, FaultVa

(* A program that runs is handed nothing by another one, and out of its     *)
(* handler nothing by itself.                                               *)
LEMMA NotGivenLemma ==
    ASSUME IInv, NEW e \in Envs, life[e] = "alive", fault[e].pc # "untemp",
           NEW x \in Envs, NEW a, NEW b, Hand(x, a, e, b)
    PROVE  FALSE
<1>1. fault[x].pc # "untemp" \/ x # e
  OBVIOUS
<1>2. call[x].pc \in Building /\ e = Child(x)
  BY <1>1 DEF Hand, Building, Forked, Stacked
<1>3. life[e] = "embryo"
  BY <1>2 DEF IInv, EnvInv, Growing, Made
<1>4. QED  BY <1>3

\* Entry w of d may be shared as it is after the step,
Allowed(d, w) ==
    \A y \in Envs, b \in VA :
        /\ ~ (y = d /\ b = w) /\ Shared(d, w, y, b)'
        /\ CanStore(d, w)' \/ CanStore(y, b)'
        => Excused(d, w, y, b)'
\* and all others hand over what they did.
HandsKept(d, w) ==
    \A x, y \in Envs, a, b \in VA :
        Hand(x, a, y, b) /\ ~ (x = d /\ a = w) /\ ~ (y = d /\ b = w) => Hand(x, a, y, b)'

(* Then the pages stay apart.                                               *)
LEMMA ApartLemma ==
    ASSUME Apart, NEW d \in Envs, NEW w \in VA, OneEntry(d, w), Allowed(d, w), HandsKept(d, w)
    PROVE  Apart'
<1> SUFFICES ASSUME NEW x \in Envs, NEW y \in Envs, NEW a \in VA, NEW b \in VA,
                    CanStore(x, a)', Shared(x, a, y, b)', ~ (x = y /\ a = b)
             PROVE  Excused(x, a, y, b)'
  BY DEF Apart
<1>1. CASE x = d /\ a = w
  BY <1>1 DEF Allowed
<1>2. CASE y = d /\ b = w
  <2>1. Shared(d, w, x, a)'
    BY <1>2 DEF Shared
  <2>2. Excused(d, w, x, a)'
    BY <1>2, <2>1 DEF Allowed
  <2>3. QED  BY <1>2, <2>2 DEF Excused
<1>3. CASE ~ (x = d /\ a = w) /\ ~ (y = d /\ b = w)
  <2>1. /\ Perm(x, a)' = Perm(x, a) /\ Perm(y, b)' = Perm(y, b)
        /\ Shared(x, a, y, b)
    BY <1>3 DEF OneEntry
  <2>2. CanStore(x, a)
    BY <2>1 DEF CanStore, Perm
  <2>3. Excused(x, a, y, b)
    BY <2>1, <2>2 DEF Apart
  <2>4. Hand(x, a, y, b) => Hand(x, a, y, b)'
    BY <1>3 DEF HandsKept
  <2>5. Hand(y, b, x, a) => Hand(y, b, x, a)'
    BY <1>3 DEF HandsKept
  <2>6. QED  BY <2>1, <2>3, <2>4, <2>5 DEF Excused
<1>4. QED  BY <1>1, <1>2, <1>3

(* So they do when no entry changes.                                        *)
LEMMA ApartStillLemma ==
    ASSUME Apart, pt' = pt, \A x \in Envs : Still(x)
    PROVE  Apart'
<1> SUFFICES ASSUME NEW x \in Envs, NEW y \in Envs, NEW a \in VA, NEW b \in VA,
                    CanStore(x, a)', Shared(x, a, y, b)', ~ (x = y /\ a = b)
             PROVE  Excused(x, a, y, b)'
  BY DEF Apart
<1>1. CanStore(x, a) /\ Shared(x, a, y, b)
  BY DEF CanStore, Shared
<1>2. Excused(x, a, y, b)
  BY <1>1 DEF Apart
<1>3. Hand(x, a, y, b) => Hand(x, a, y, b)'
  BY StillLemma
<1>4. Hand(y, b, x, a) => Hand(y, b, x, a)'
  BY StillLemma
<1>5. QED  BY <1>2, <1>3, <1>4 DEF Excused, Perm

\* The entries of x are what they were, but for the names of the pages.
SameEntries(x) ==
    \A a \in VA : Perm(x, a)' = Perm(x, a) /\ (pt'[x][a] = Unmapped <=> pt[x][a] = Unmapped)

(* The step of one program, and of what is its child or becomes it, leaves  *)
(* the pages others have on their way.                                      *)
LEMMA TempOthersLemma ==
    ASSUME IInv, JInv, Framed', NEW e \in Envs, life[e] = "alive", NEW c \in Envs,
           \/ c = e
           \/ life[c] = "free"
           \/ call[e].pc \in Building /\ c = Child(e),
           NEW x \in Envs \ {e, c},
           \A y \in Envs \ {e, c} : SameEntries(y),
           call'[x] = call[x], fault'[x] = fault[x], life'[x] = life[x]
    PROVE  TempInv(x)'
<1> USE VALemma
<1>1. TempInv(x) /\ SameEntries(x)
  BY DEF JInv
<1>2. HandlerTemp(x)'
  BY <1>1 DEF TempInv, HandlerTemp, SameEntries
<1>3. life'[x] \in {"free", "killed"} => pt'[x] = Nothing
  <2>1. SUFFICES ASSUME pt[x] = Nothing  PROVE pt'[x] = Nothing
    BY <1>1 DEF TempInv
  <2>2. \A a \in VA : pt'[x][a] = Unmapped
    BY <1>1, <2>1 DEF SameEntries, Nothing
  <2>3. pt'[x] = [a \in VA |-> pt'[x][a]]
    BY DEF Framed
  <2>4. QED  BY <2>2, <2>3 DEF Nothing
<1>4. CallTemp(x)'
  <2>1. Va(x)' = Va(x) /\ Child(x)' = Child(x)
    BY DEF Va, Child
  <2>2. ASSUME call[x].pc \in {"dup_child", "dup_own"}
        PROVE  /\ Va(x) \in VA /\ DupPerm(pt[x][Va(x)])' = DupPerm(pt[x][Va(x)])
               /\ Perm(Child(x), Va(x))' = Perm(Child(x), Va(x))
    <3>1. PICK k \in Envs : k = Child(x) /\ Made(x, k)
      BY <2>2 DEF IInv, EnvInv, Growing, Building, Forked
    <3>2. k # e /\ k # c
      BY <2>2, <3>1 DEF Made, Building, Forked
    <3>3. Va(x) \in VA
      BY <2>2, <3>1 DEF Made, Va
    <3>4. Perm(k, Va(x))' = Perm(k, Va(x))
      BY <2>1, <3>2, <3>3 DEF SameEntries, Perm
    <3>5. pt'[x][Va(x)].perm = pt[x][Va(x)].perm
      BY <1>1, <3>3 DEF SameEntries, Perm
    <3>6. QED  BY <2>1, <3>1, <3>3, <3>4, <3>5 DEF DupPerm, Perm
  <2>3. Perm(x, "utemp")' = Perm(x, "utemp")
    BY <1>1 DEF SameEntries
  <2>4. CallTemp(x)
    BY <1>1 DEF TempInv
  <2>5. QED  BY <2>1, <2>2, <2>3, <2>4 DEF CallTemp, Perm
<1>5. QED  BY <1>2, <1>3, <1>4 DEF TempInv

(* A step of fork or spawn that changes entry w of d, the program or its    *)
(* child.                                                                   *)
HandsOn(e, d, w) == Still(e) \/ \A y \in Envs, a, b \in VA : Hand(e, a, y, b) => e = d /\ a = w
LEMMA EntryStepLemma ==
    ASSUME IInv, JInv, NEW e \in Envs, life[e] = "alive", fault[e].pc = "none",
           NEW d \in Envs, d = e \/ (call[e].pc \in Building /\ d = Child(e)),
           NEW w \in VA, w # "pftemp", OneEntry(d, w), Allowed(d, w), HandsOn(e, d, w),
           UNCHANGED <<life, fault>>, \A x \in Envs \ {e} : call'[x] = call[x],
           CallTemp(e)'
    PROVE  JInv'
<1>1. HandsKept(d, w)
  <2>1. \A x \in Envs \ {e} : Still(x)
    BY DEF Still
  <2>2. \A x \in Envs \ {e}, y \in Envs, a, b \in VA : Hand(x, a, y, b) => Hand(x, a, y, b)'
    BY <2>1, StillLemma
  <2>3. \A y \in Envs, a, b \in VA : Hand(e, a, y, b) /\ ~ (e = d /\ a = w) => Hand(e, a, y, b)'
    BY StillLemma DEF HandsOn
  <2>4. QED  BY <2>2, <2>3 DEF HandsKept
<1>2. Apart'
  BY <1>1, ApartLemma DEF JInv
<1>3. \A x \in Envs \ {d} : SameEntries(x)
  BY DEF OneEntry, SameEntries
<1>4. "pftemp" \in VA /\ \A x \in Envs : pt'[x]["pftemp"] = Unmapped <=> pt[x]["pftemp"] = Unmapped
  BY VALemma DEF OneEntry
<1>5. TempInv(e)'
  <2>1. HandlerTemp(e) /\ fault'[e].pc = "none" /\ life'[e] = "alive"
    BY DEF JInv, TempInv
  <2>2. HandlerTemp(e)'
    BY <1>4, <2>1 DEF HandlerTemp
  <2>3. QED  BY <2>1, <2>2 DEF TempInv
<1>6. ASSUME d # e  PROVE TempInv(d)'
  <2>1. life[d] = "embryo"
    BY <1>6 DEF IInv, EnvInv, Growing, Made
  <2>2. fault[d].pc = "none" /\ call[d].pc = "run"
    BY <2>1 DEF IInv, EnvInv
  <2>3. TempInv(d)
    BY DEF JInv
  <2>4. HandlerTemp(d)'
    BY <1>4, <2>2, <2>3 DEF HandlerTemp, TempInv
  <2>5. CallTemp(d)'
    BY <1>6, <2>2, <2>3 DEF CallTemp, TempInv, Filling
  <2>6. QED  BY <2>1, <2>4, <2>5 DEF TempInv
<1>7. ASSUME NEW x \in Envs \ {e, d}  PROVE TempInv(x)'
  BY <1>3, TempOthersLemma DEF OneEntry
<1>8. QED  BY <1>2, <1>5, <1>6, <1>7 DEF JInv, OneEntry

(* A step that changes no entry; c is the child that it starts or makes.    *)
LEMMA QuietStepLemma ==
    ASSUME IInv, JInv, NEW e \in Envs, life[e] = "alive", NEW c \in Envs,
           \/ c = e
           \/ life[c] = "free"
           \/ call[e].pc \in Building /\ c = Child(e),
           pt' = pt, content' \in [Frames -> Vals],
           \A y \in Envs \ {e, c} : call'[y] = call[y] /\ fault'[y] = fault[y] /\ life'[y] = life[y],
           Still(e), Still(c), TempInv(e)', TempInv(c)'
    PROVE  JInv'
<1>1. \A x \in Envs : Still(x)
  BY DEF Still
<1>2. Apart'
  BY <1>1, ApartStillLemma DEF JInv
<1>3. Framed'
  BY DEF JInv, Framed
<1>4. \A x \in Envs : SameEntries(x)
  BY DEF SameEntries, Perm
<1>5. ASSUME NEW x \in Envs \ {e, c}  PROVE TempInv(x)'
  BY <1>3, <1>4, TempOthersLemma
<1>6. QED  BY <1>2, <1>3, <1>5 DEF JInv

(* In particular one that changes only where the program is.                *)
LEMMA CallStepLemma ==
    ASSUME IInv, JInv, NEW e \in Envs, life[e] = "alive", call[e].pc \notin Handing,
           pt' = pt, content' \in [Frames -> Vals],
           \A y \in Envs \ {e} : call'[y] = call[y] /\ life'[y] = life[y],
           life'[e] \notin {"free", "killed"},
           fault' = fault, CallTemp(e)'
    PROVE  JInv'
<1>1. Still(e)
  BY DEF Still
<1>2. HandlerTemp(e)'
  BY DEF JInv, TempInv, HandlerTemp, Perm
<1>3. TempInv(e)'
  BY <1>2 DEF TempInv
<1>4. QED  BY <1>1, <1>3, QuietStepLemma

(* A step of the handler, at an entry that fork and spawn do not hand over. *)
LEMMA HandlerJLemma ==
    ASSUME IInv, JInv, NEW e \in Envs, life[e] = "alive",
           NEW w \in Private \cup {"pftemp"}, OneEntry(e, w), Allowed(e, w),
           fault[e].pc = "untemp" => w = "pftemp",
           UNCHANGED <<life, call>>, \A x \in Envs \ {e} : fault'[x] = fault[x],
           HandlerTemp(e)'
    PROVE  JInv'
<1>1. w \in VA /\ "utemp" \in VA /\ w # "utemp"
  BY VALemma DEF Private
<1>2. HandsKept(e, w)
  <2>1. \A x \in Envs \ {e} : Still(x)
    BY DEF Still
  <2>2. \A x \in Envs \ {e}, y \in Envs, a, b \in VA : Hand(x, a, y, b) => Hand(x, a, y, b)'
    BY <2>1, StillLemma
  <2>3. \A y \in Envs, a, b \in VA : Hand(e, a, y, b) /\ a # w => Hand(e, a, y, b)'
    BY StillLemma DEF Still, Hand, Va, Child
  <2>4. QED  BY <2>2, <2>3 DEF HandsKept
<1>3. Apart'
  BY <1>1, <1>2, ApartLemma DEF JInv
<1>4. \A x \in Envs \ {e} : SameEntries(x)
  BY DEF OneEntry, SameEntries
<1>5. CallTemp(e)'
  <2>1. CallTemp(e)
    BY DEF JInv, TempInv
  <2>2. Perm(e, "utemp")' = Perm(e, "utemp")
    BY <1>1 DEF OneEntry
  <2>3. Va(e)' = Va(e) /\ Child(e)' = Child(e)
    BY DEF Va, Child
  <2>4. ASSUME call[e].pc \in {"dup_child", "dup_own"}, Va(e) # "pftemp"
        PROVE  /\ Va(e) \notin Private => DupPerm(pt[e][Va(e)])' = DupPerm(pt[e][Va(e)])
               /\ Perm(Child(e), Va(e))' = Perm(Child(e), Va(e))
    <3>1. PICK k \in Envs : k = Child(e) /\ Made(e, k)
      BY <2>4 DEF IInv, EnvInv, Growing, Building, Forked
    <3>2. k # e
      BY <3>1 DEF Made
    <3>3. Va(e) \in VA
      BY <2>4, <3>1, VALemma DEF Made, Va
    <3>4. Perm(k, Va(e))' = Perm(k, Va(e))
      BY <2>3, <3>2, <3>3 DEF OneEntry, Perm
    <3>5. Va(e) \notin Private => pt'[e][Va(e)].perm = pt[e][Va(e)].perm
      BY <2>4, <3>3 DEF OneEntry, Perm
    <3>6. QED  BY <2>3, <3>1, <3>4, <3>5 DEF DupPerm, Perm
  <2>5. QED  BY <2>1, <2>2, <2>3, <2>4 DEF CallTemp, Perm
<1>6. TempInv(e)'
  BY <1>5 DEF TempInv
<1>7. ASSUME NEW x \in Envs \ {e}  PROVE TempInv(x)'
  BY <1>4, TempOthersLemma DEF OneEntry
<1>8. QED  BY <1>3, <1>6, <1>7 DEF JInv, OneEntry

(* The end of a program, or of the child of a spawn that fails.             *)
LEMMA FreeStepLemma ==
    ASSUME IInv, JInv, NEW e \in Envs, life[e] = "alive",
           NEW d \in Envs, d = e \/ (call[e].pc \in Building /\ d = Child(e)),
           EnvFree(d), d = e \/ call[e].pc \notin Handing,
           call'[e] = NoCall, d = e \/ fault'[e] = fault[e], fault'[d].pc = "none",
           \A x \in Envs \ {e} : call'[x] = call[x],
           \A x \in Envs \ {e, d} : fault'[x] = fault[x] /\ life'[x] = life[x],
           d = e \/ life'[e] = "alive", life'[d] = "free"
    PROVE  JInv'
<1>1. /\ Framed' /\ pt'[d] = Nothing
      /\ \A x \in Envs \ {d} : SameEntries(x)
      /\ \A x, y \in Envs, a, b \in VA : Shared(x, a, y, b)' =>
           Shared(x, a, y, b) /\ x # d /\ y # d
  BY FreeFramesLemma DEF JInv, SameEntries
<1>2. \A x \in Envs \ {d}, y \in Envs \ {d}, a, b \in VA : Hand(x, a, y, b) => Hand(x, a, y, b)'
  <2>1. \A x \in Envs \ {d} : Still(x)
    BY DEF Still
  <2>2. QED  BY <2>1, StillLemma
<1>3. Apart'
  <2> SUFFICES ASSUME NEW x \in Envs, NEW y \in Envs, NEW a \in VA, NEW b \in VA,
                      CanStore(x, a)', Shared(x, a, y, b)', ~ (x = y /\ a = b)
               PROVE  Excused(x, a, y, b)'
    BY DEF Apart
  <2>1. /\ x # d /\ y # d /\ Shared(x, a, y, b)
        /\ Perm(x, a)' = Perm(x, a) /\ Perm(y, b)' = Perm(y, b)
    BY <1>1 DEF SameEntries
  <2>2. CanStore(x, a)
    BY <2>1 DEF CanStore, Perm
  <2>3. Excused(x, a, y, b)
    BY <2>1, <2>2 DEF JInv, Apart
  <2>4. Hand(x, a, y, b) => Hand(x, a, y, b)'
    BY <1>2, <2>1
  <2>5. Hand(y, b, x, a) => Hand(y, b, x, a)'
    BY <1>2, <2>1
  <2>6. QED  BY <2>1, <2>3, <2>4, <2>5 DEF Excused
<1>4. NoCall.pc = "run" /\ NoCall.perm = {}
  BY DEF NoCall
<1>5. CallTemp(e)'
  BY <1>4 DEF CallTemp, Filling
<1>6. TempInv(d)'
  <2>1. HandlerTemp(d)'
    BY <1>1, <1>4, VALemma DEF HandlerTemp, Nothing
  <2>2. CallTemp(d)'
    <3>1. CASE d = e
      BY <1>5, <3>1
    <3>2. CASE d # e
      <4>1. life[d] = "embryo"
        BY <3>2 DEF IInv, EnvInv, Growing, Made
      <4>2. call[d].pc = "run" /\ call'[d] = call[d]
        BY <3>2, <4>1 DEF IInv, EnvInv
      <4>3. QED  BY <4>2 DEF JInv, TempInv, CallTemp, Filling
    <3>3. QED  BY <3>1, <3>2
  <2>3. QED  BY <1>1, <2>1, <2>2 DEF TempInv
<1>7. ASSUME d # e  PROVE TempInv(e)'
  <2>1. HandlerTemp(e) /\ SameEntries(e)
    BY <1>1, <1>7 DEF JInv, TempInv
  <2>2. HandlerTemp(e)'
    BY <1>7, <2>1, VALemma DEF HandlerTemp, SameEntries
  <2>3. QED  BY <1>5, <1>7, <2>2 DEF TempInv
<1>8. ASSUME NEW x \in Envs \ {e, d}  PROVE TempInv(x)'
  BY <1>1, TempOthersLemma
<1>9. QED  BY <1>1, <1>3, <1>6, <1>7, <1>8 DEF JInv

-----------------------------------------------------------------------------
(* The steps of fork.                                                       *)

(* What is known of a program at a place of its own.                        *)
LEMMA AtJLemma ==
    ASSUME IInv, JInv, NEW e \in Envs, NEW l, At(e, l)
    PROVE  /\ life[e] = "alive" /\ fault[e].pc = "none" /\ call[e].pc = l /\ Sound(e)
           /\ Framed /\ CallTemp(e) /\ pt[e]["pftemp"] = Unmapped
           /\ l \in Building => \E c \in Envs \ {e} : c = Child(e) /\ Made(e, c)
           /\ \A x \in Envs, a, b \in VA : ~ Hand(x, a, e, b)
           /\ l \notin Handing => \A y \in Envs, a, b \in VA : ~ Hand(e, a, y, b)
<1>1. life[e] = "alive" /\ fault[e].pc = "none" /\ call[e].pc = l /\ Sound(e)
      /\ (l \in Building => \E c \in Envs \ {e} : c = Child(e) /\ Made(e, c))
  BY AtLemma
<1>2. Framed /\ CallTemp(e) /\ pt[e]["pftemp"] = Unmapped
  BY <1>1 DEF JInv, TempInv, HandlerTemp
<1>3. \A x \in Envs, a, b \in VA : ~ Hand(x, a, e, b)
  BY <1>1, NotGivenLemma
<1>4. l \notin Handing => \A y \in Envs, a, b \in VA : ~ Hand(e, a, y, b)
  BY <1>1 DEF Hand, Handing
<1>5. QED  BY <1>1, <1>2, <1>3, <1>4

(* A panic.                                                                 *)
LEMMA PanicJLemma ==
    ASSUME IInv, JInv, NEW e \in Envs, life[e] = "alive", Panic(e) PROVE JInv'
<1>1. /\ UNCHANGED <<pt, content, fault, call>>
      /\ life'[e] = "panicked" /\ \A y \in Envs \ {e} : life'[y] = life[y]
  BY DEF Panic, memVars, IInv, TypeInv
<1>2. Still(e)
  BY <1>1 DEF Still
<1>3. TempInv(e)'
  BY <1>1 DEF JInv, TempInv, HandlerTemp, CallTemp, Perm, Va, Child
<1>4. content' \in [Frames -> Vals]
  BY <1>1 DEF JInv, Framed
<1>5. QED  BY <1>1, <1>2, <1>3, <1>4, QuietStepLemma

(* duppage gives the child what it finds: where the page can be stored to   *)
(* and is not marked PTE_SHARE, copy-on-write.                              *)
LEMMA DupChildJLemma ==
    ASSUME IInv, JInv, NEW e \in Envs, DupChild(e) PROVE JInv'
<1>1. /\ life[e] = "alive" /\ fault[e].pc = "none" /\ call[e].pc = "dup_child" /\ Sound(e)
      /\ Framed /\ CallTemp(e) /\ pt[e]["pftemp"] = Unmapped
      /\ \A x \in Envs, a, b \in VA : ~ Hand(x, a, e, b)
      /\ \A y \in Envs, a, b \in VA : ~ Hand(e, a, y, b)
  BY AtJLemma DEF DupChild, Handing
<1>2. PICK c \in Envs \ {e} : c = Child(e) /\ Made(e, c)
  BY AtJLemma DEF DupChild, Building, Forked
<1>3. call[e].pc \in Building /\ call[e].pc \notin Handing
  BY <1>1 DEF Building, Forked, Handing
<1>4. CASE Panic(e)
  BY <1>1, <1>4, PanicJLemma
<1>5. CASE /\ SysPageMap(e, e, Va(e), Child(e), Va(e), call[e].perm)
           /\ Goto(e, IF "COW" \in call[e].perm THEN "dup_own" ELSE "next_page")
           /\ UNCHANGED <<life, upcall, handler, fault>>
  <2>1. PICK w \in VA, q \in SUBSET Perms :
          /\ w = Va(e) /\ q = call[e].perm /\ w # "pftemp"
          /\ w \notin Private => q = DupPerm(pt[e][w])
          /\ w \in Private => q = {"COW"}
    <3>1. Va(e) \in VA /\ (Va(e) \in Private => call[e].perm = {"COW"})
      BY <1>1, <1>2, VALemma DEF Made, Va
    <3>2. QED  BY <1>1, <3>1 DEF CallTemp
  <2>2. /\ OneEntry(c, w) /\ Perm(c, w)' = q
        /\ \A y \in Envs, b \in VA : ~ (y = c /\ b = w) /\ Shared(c, w, y, b)' => Shared(e, w, y, b)
    <3>1. SysPageMap(e, e, w, c, w, q) /\ Framed /\ c \in Envs
      BY <1>1, <1>2, <1>5, <2>1
    <3>2. QED  BY ONLY <3>1, e \in Envs, w \in VA, q \in SUBSET Perms, MapFramesLemma
  <2>3. /\ \A x \in Envs \ {e} : call'[x] = call[x]
        /\ call'[e].pc = (IF "COW" \in q THEN "dup_own" ELSE "next_page")
        /\ call'[e].child = c /\ call'[e].at = call[e].at /\ call'[e].perm = q
    BY <1>2, <1>5, <2>1, GotoLemma DEF IInv, Child
  <2>4. Va(e)' = w /\ Child(e)' = c
    BY <2>1, <2>3 DEF Va, Child
  <2>5. /\ "SHARE" \in q <=> "SHARE" \in Perm(e, w)
        /\ "W" \in q => "SHARE" \in q /\ "W" \in Perm(e, w)
        /\ "W" \in Perm(e, w) => "SHARE" \in q \/ "COW" \in q
    BY <1>1, <2>1 DEF DupPerm, Sound, Perm
  <2>6. /\ Perm(e, w)' = Perm(e, w)
        /\ \A y \in Envs, b \in VA : ~ (y = c /\ b = w) => Perm(y, b)' = Perm(y, b)
    BY <2>2 DEF OneEntry
  <2>7. Allowed(c, w)
    <3> SUFFICES ASSUME NEW y \in Envs, NEW b \in VA, ~ (y = c /\ b = w), Shared(c, w, y, b)',
                        CanStore(c, w)' \/ CanStore(y, b)'
                 PROVE  Excused(c, w, y, b)'
      BY DEF Allowed
    <3>1. Shared(e, w, y, b)
      BY <2>2
    <3>2. CASE y = e /\ b = w
      <4>1. CASE "SHARE" \in q
        BY <2>2, <2>5, <2>6, <3>2, <4>1 DEF Excused
      <4>2. CASE "SHARE" \notin q
        <5>1. "COW" \in q
          BY <2>2, <2>5, <2>6, <3>2, <4>2 DEF CanStore, Perm
        <5>2. Hand(e, w, c, w)'
          BY <2>3, <2>4, <5>1 DEF Hand
        <5>3. QED  BY <3>2, <5>2 DEF Excused
      <4>3. QED  BY <4>1, <4>2
    <3>3. CASE ~ (y = e /\ b = w)
      <4>1. CanStore(e, w) \/ CanStore(y, b)
        BY <2>2, <2>5, <2>6 DEF CanStore, Perm
      <4>2. Excused(e, w, y, b)
        <5>1. Shared(y, b, e, w)
          BY <3>1 DEF Shared
        <5>2. QED  BY <3>1, <3>3, <4>1, <5>1 DEF JInv, Apart, Excused
      <4>3. "SHARE" \in Perm(e, w) /\ "SHARE" \in Perm(y, b)
        BY <1>1, <4>2 DEF Excused
      <4>4. QED  BY <2>2, <2>5, <2>6, <4>3 DEF Excused
    <3>4. QED  BY <3>2, <3>3
  <2>8. CallTemp(e)'
    <3>1. w \notin Private => q = DupPerm(pt[e][w])'
      BY <2>1, <2>6 DEF DupPerm, Perm
    <3>2. Perm(Child(e), Va(e))' = q
      BY <2>2, <2>4 DEF Perm
    <3>3. call'[e].pc \notin Filling /\ call'[e].pc # "dup_child"
      BY <2>3 DEF Filling
    <3>4. QED  BY <2>1, <2>3, <2>4, <3>1, <3>2, <3>3 DEF CallTemp
  <2>9. HandsOn(e, c, w)
    BY <1>1 DEF HandsOn
  <2>10. QED
    BY <1>1, <1>2, <1>3, <1>5, <2>1, <2>2, <2>3, <2>7, <2>8, <2>9, EntryStepLemma
<1>6. QED  BY <1>4, <1>5 DEF DupChild

(* and takes the same permissions itself, whoever else has the page.        *)
LEMMA DupOwnJLemma ==
    ASSUME IInv, JInv, NEW e \in Envs, DupOwn(e) PROVE JInv'
<1>1. /\ life[e] = "alive" /\ fault[e].pc = "none" /\ call[e].pc = "dup_own" /\ Sound(e)
      /\ Framed /\ CallTemp(e)
      /\ \A x \in Envs, a, b \in VA : ~ Hand(x, a, e, b)
  BY AtJLemma DEF DupOwn
<1>2. PICK c \in Envs \ {e} : c = Child(e) /\ Made(e, c)
  BY AtJLemma DEF DupOwn, Building, Forked
<1>3. PICK w \in VA, q \in SUBSET Perms :
          /\ w = Va(e) /\ q = call[e].perm /\ w # "pftemp" /\ Perm(c, w) = q
          /\ w \notin Private => q = DupPerm(pt[e][w])
          /\ w \in Private => q = {"COW"}
  <2>1. Va(e) \in VA /\ (Va(e) \in Private => call[e].perm = {"COW"})
    BY <1>1, <1>2, VALemma DEF Made, Va
  <2>2. QED  BY <1>1, <1>2, <2>1 DEF CallTemp
<1>4. /\ OneEntry(e, w) /\ Perm(e, w)' = q
      /\ \A y \in Envs, b \in VA : ~ (y = e /\ b = w) /\ Shared(e, w, y, b)' => Shared(e, w, y, b)
  <2>1. SysPageMap(e, e, w, e, w, q) /\ Framed
    BY <1>1, <1>3 DEF DupOwn
  <2>2. QED  BY ONLY <2>1, e \in Envs, w \in VA, q \in SUBSET Perms, MapFramesLemma
<1>5. /\ \A x \in Envs \ {e} : call'[x] = call[x]
      /\ call'[e].pc = "next_page" /\ call'[e].perm = q
  BY <1>3, GotoLemma DEF IInv, DupOwn
<1>6. /\ "SHARE" \in q <=> "SHARE" \in Perm(e, w)
      /\ "W" \in q => "SHARE" \in q /\ "W" \in Perm(e, w)
  BY <1>1, <1>3 DEF DupPerm, Sound, Perm
<1>7. \A y \in Envs, b \in VA : ~ (y = e /\ b = w) => Perm(y, b)' = Perm(y, b)
  BY <1>4 DEF OneEntry
<1>8. Allowed(e, w)
  <2> SUFFICES ASSUME NEW y \in Envs, NEW b \in VA, ~ (y = e /\ b = w), Shared(e, w, y, b)',
                      CanStore(e, w)' \/ CanStore(y, b)'
               PROVE  Excused(e, w, y, b)'
    BY DEF Allowed
  <2>1. Shared(e, w, y, b) /\ Shared(y, b, e, w)
    BY <1>4 DEF Shared
  <2>2. CASE y = c /\ b = w
    <3>1. Perm(y, b)' = q
      BY <1>2, <1>3, <1>7, <2>2
    <3>2. "SHARE" \in q
      BY <1>4, <1>6, <3>1 DEF CanStore, Perm
    <3>3. QED  BY <1>4, <3>1, <3>2 DEF Excused
  <2>3. CASE ~ (y = c /\ b = w)
    <3>1. CanStore(e, w) \/ CanStore(y, b)
      BY <1>4, <1>6, <1>7 DEF CanStore, Perm
    <3>2. Excused(e, w, y, b)
      BY <2>1, <3>1 DEF JInv, Apart, Excused
    <3>3. ~ Hand(e, w, y, b) /\ ~ Hand(y, b, e, w)
      BY <1>1, <1>2, <1>3, <2>3 DEF Hand
    <3>4. "SHARE" \in Perm(e, w) /\ "SHARE" \in Perm(y, b)
      BY <3>2, <3>3 DEF Excused
    <3>5. QED  BY <1>4, <1>6, <1>7, <3>4 DEF Excused
  <2>4. QED  BY <2>2, <2>3
<1>9. CallTemp(e)'
  BY <1>3, <1>5 DEF CallTemp, Filling
<1>10. HandsOn(e, e, w)
  BY <1>1, <1>3 DEF HandsOn, Hand
<1>11. UNCHANGED <<life, fault>>
  BY DEF DupOwn
<1>12. QED
  BY <1>1, <1>3, <1>4, <1>5, <1>8, <1>9, <1>10, <1>11, EntryStepLemma

(* A new page, for the program or its child.                                *)
LEMMA FreshJLemma ==
    ASSUME IInv, JInv, NEW e \in Envs, NEW l, At(e, l), l \notin Handing,
           NEW d \in Envs, d = e \/ (l \in Building /\ d = Child(e)),
           NEW w \in VA, w # "pftemp", SysPageAlloc(e, d, w, {"W"}), NEW m, Goto(e, m),
           UNCHANGED <<life, fault>>,
           m \notin {"dup_child", "dup_own"},
           m \in Filling => d = e /\ w = "utemp"
    PROVE  JInv'
<1>1. /\ life[e] = "alive" /\ fault[e].pc = "none" /\ call[e].pc = l
      /\ Framed /\ CallTemp(e)
      /\ \A y \in Envs, a, b \in VA : ~ Hand(e, a, y, b)
  BY AtJLemma
<1>2. PICK q \in SUBSET Perms : q = {"W"}
  BY DEF Perms
<1>3. /\ OneEntry(d, w) /\ Perm(d, w)' = q
      /\ \A y \in Envs, b \in VA : ~ (y = d /\ b = w) => ~ Shared(d, w, y, b)'
  <2>1. SysPageAlloc(e, d, w, q) /\ Framed
    BY <1>1, <1>2
  <2>2. QED  BY ONLY <2>1, e \in Envs, d \in Envs, w \in VA, q \in SUBSET Perms, AllocFramesLemma
<1>4. Allowed(d, w) /\ HandsOn(e, d, w)
  BY <1>1, <1>3 DEF Allowed, HandsOn
<1>5. /\ \A x \in Envs \ {e} : call'[x] = call[x]
      /\ call'[e].pc = m /\ call'[e].perm = call[e].perm
  BY GotoLemma DEF IInv
<1>6. CallTemp(e)'
  BY <1>1, <1>2, <1>3, <1>5 DEF CallTemp
<1>7. QED
  BY <1>1, <1>3, <1>4, <1>5, <1>6, EntryStepLemma

(* spawn fills a page at UTEMP, gives it to the child,                      *)
LEMMA GiveJLemma ==
    ASSUME IInv, JInv, NEW e \in Envs, NEW l, At(e, l), NEW m, Goto(e, m), NEW w, Give(e, w),
           \/ l = "args_map" /\ m = "args_unmap" /\ w = "stack"
           \/ l = "seg_map" /\ m = "seg_unmap" /\ w = "data",
           UNCHANGED <<life, fault>>
    PROVE  JInv'
<1>1. /\ life[e] = "alive" /\ fault[e].pc = "none" /\ call[e].pc = l
      /\ Framed /\ CallTemp(e) /\ l \in Building
      /\ \A x \in Envs, a, b \in VA : ~ Hand(x, a, e, b)
      /\ \A y \in Envs, a, b \in VA : ~ Hand(e, a, y, b)
  BY AtJLemma DEF Building, Stacked, Handing
<1>2. PICK c \in Envs \ {e} : c = Child(e) /\ Made(e, c)
  BY <1>1, AtJLemma
<1>3. PICK q \in SUBSET Perms, u \in VA : q = {"W"} /\ u = "utemp" /\ w \in VA /\ w # "pftemp"
  BY VALemma DEF Perms
<1>4. /\ OneEntry(c, w) /\ Perm(c, w)' = q
      /\ \A y \in Envs, b \in VA : ~ (y = c /\ b = w) /\ Shared(c, w, y, b)' => Shared(e, u, y, b)
  <2>1. SysPageMap(e, e, u, c, w, q) /\ Framed /\ c \in Envs /\ w \in VA
    BY <1>1, <1>2, <1>3 DEF Give
  <2>2. QED  BY ONLY <2>1, e \in Envs, u \in VA, q \in SUBSET Perms, MapFramesLemma
<1>5. /\ \A x \in Envs \ {e} : call'[x] = call[x]
      /\ call'[e].pc = m /\ call'[e].perm = call[e].perm /\ call'[e].child = c
  BY <1>2, GotoLemma DEF IInv, Child
<1>6. Perm(e, u) = {"W"}
  BY <1>1, <1>3 DEF CallTemp, Filling
<1>7. Allowed(c, w)
  <2> SUFFICES ASSUME NEW y \in Envs, NEW b \in VA, ~ (y = c /\ b = w), Shared(c, w, y, b)'
               PROVE  Excused(c, w, y, b)'
    BY DEF Allowed
  <2>1. Shared(e, u, y, b)
    BY <1>4
  <2>2. y = e /\ b = u
    <3>1. SUFFICES ASSUME ~ (y = e /\ b = u)  PROVE FALSE
      OBVIOUS
    <3>2. Excused(e, u, y, b)
      BY <1>6, <2>1, <3>1 DEF JInv, Apart, CanStore, Perm
    <3>3. QED  BY <1>1, <1>6, <3>2 DEF Excused
  <2>3. Hand(e, u, c, w)'
    BY <1>3, <1>5 DEF Hand, Child
  <2>4. QED  BY <2>2, <2>3 DEF Excused
<1>8. HandsOn(e, c, w)
  BY <1>1 DEF HandsOn
<1>9. CallTemp(e)'
  BY <1>1, <1>5 DEF CallTemp, Filling
<1>10. QED
  BY <1>1, <1>2, <1>3, <1>4, <1>5, <1>7, <1>8, <1>9, EntryStepLemma

(* and takes it out of its own memory.                                      *)
LEMMA UntempJLemma ==
    ASSUME IInv, JInv, NEW e \in Envs, NEW l, At(e, l), SysPageUnmap(e, e, "utemp"),
           l \in {"args_map", "args_unmap", "seg_unmap"},
           \/ Return(e)
           \/ \E m \in {"segment", "next_shared"} : Goto(e, m),
           UNCHANGED <<life, fault>>
    PROVE  JInv'
<1>1. /\ life[e] = "alive" /\ fault[e].pc = "none" /\ call[e].pc = l
      /\ Framed /\ CallTemp(e)
  BY AtJLemma
<1>2. PICK u \in VA : u = "utemp"
  BY VALemma
<1>3. /\ OneEntry(e, u)
      /\ \A y \in Envs, b \in VA : ~ (y = e /\ b = u) => ~ Shared(e, u, y, b)'
  <2>1. SysPageUnmap(e, e, u) /\ Framed
    BY <1>1, <1>2
  <2>2. QED  BY ONLY <2>1, e \in Envs, u \in VA, UnmapFramesLemma
<1>4. Allowed(e, u) /\ HandsOn(e, e, u)
  BY <1>1, <1>2, <1>3 DEF Allowed, HandsOn, Hand
<1>5. CallTemp(e)' /\ \A x \in Envs \ {e} : call'[x] = call[x]
  <2>1. CASE Return(e)
    BY <2>1, ReturnCallLemma DEF IInv, CallTemp, NoCall, Filling
  <2>2. ASSUME NEW m \in {"segment", "next_shared"}, Goto(e, m)
        PROVE  CallTemp(e)' /\ \A x \in Envs \ {e} : call'[x] = call[x]
    <3>1. /\ \A x \in Envs \ {e} : call'[x] = call[x]
          /\ call'[e].pc = m /\ call'[e].perm = call[e].perm
      BY <2>2, GotoLemma DEF IInv
    <3>2. QED  BY <1>1, <3>1 DEF CallTemp, Filling
  <2>3. QED  BY <2>1, <2>2
<1>6. QED
  BY <1>1, <1>2, <1>3, <1>4, <1>5, EntryStepLemma

(* What changes neither entries nor contents.                               *)
LEMMA GoesOnLemma ==
    ASSUME IInv, JInv, NEW e \in Envs, NEW l, At(e, l), l \notin Handing,
           pt' = pt, content' \in [Frames -> Vals], UNCHANGED <<life, fault>>,
           \/ Return(e)
           \/ \E m : /\ Goto(e, m)
                     /\ m \notin {"dup_child", "dup_own"}
                     /\ m \in Filling => l \in Filling
    PROVE  JInv'
<1>1. life[e] = "alive" /\ call[e].pc = l /\ CallTemp(e)
  BY AtJLemma
<1>2. CallTemp(e)' /\ \A x \in Envs \ {e} : call'[x] = call[x]
  <2>1. CASE Return(e)
    BY <2>1, ReturnCallLemma DEF IInv, CallTemp, NoCall, Filling
  <2>2. ASSUME NEW m, Goto(e, m), m \notin {"dup_child", "dup_own"},
               m \in Filling => l \in Filling
        PROVE  CallTemp(e)' /\ \A x \in Envs \ {e} : call'[x] = call[x]
    <3>1. /\ \A x \in Envs \ {e} : call'[x] = call[x]
          /\ call'[e].pc = m /\ call'[e].perm = call[e].perm
      BY <2>2, GotoLemma DEF IInv
    <3>2. QED  BY <1>1, <2>2, <3>1 DEF CallTemp, Perm
  <2>3. QED  BY <2>1, <2>2
<1>3. QED  BY <1>1, <1>2, CallStepLemma

(* The loop of fork finds a page, which is none at PFTEMP.                  *)
LEMMA NextPageJLemma ==
    ASSUME IInv, JInv, NEW e \in Envs, NextPage(e) PROVE JInv'
<1> DEFINE T == {i \in call[e].at + 1 .. Below : pt[e][Order[i]] # Unmapped} \cup {Below + 1}
<1>1. /\ life[e] = "alive" /\ call[e].pc = "next_page" /\ Framed /\ CallTemp(e)
      /\ pt[e]["pftemp"] = Unmapped
  BY AtJLemma DEF NextPage
<1>2. PICK n : n = NextAt(e, LAMBDA entry : entry # Unmapped)
  OBVIOUS
<1>3. n \in 1 .. 6 /\ (n <= 5 => pt[e][Order[n]] # Unmapped)
  <2>1. call[e].at \in 0 .. 5
    BY DEF IInv, TypeInv, Calls
  <2>2. T \subseteq 1 .. 6 /\ 6 \in T
    BY <2>1, VALemma
  <2>3. n = Min(T)
    BY <1>2 DEF NextAt
  <2>4. n \in T
    BY <2>2, <2>3, MinLemma
  <2>5. QED  BY <2>1, <2>2, <2>4, VALemma
<1>4. /\ n <= 5 => call' = [call EXCEPT ![e] = [pc |-> "dup_child", child |-> Child(e), at |-> n,
                                               perm |-> DupPerm(pt[e][Order[n]])]]
      /\ n > 5 => Goto(e, "child_xstack")
      /\ UNCHANGED <<memVars, life, fault>> /\ At(e, "next_page")
  BY <1>2, <1>3, VALemma DEF NextPage
<1>5. UNCHANGED <<pt, content, life, fault>> /\ content' \in [Frames -> Vals]
  BY <1>1, <1>4 DEF memVars, Framed
<1>6. CASE n > 5
  BY <1>4, <1>5, <1>6, GoesOnLemma DEF Handing, Filling
<1>7. CASE n <= 5
  <2>1. PICK w, q : w = Order[n] /\ q = DupPerm(pt[e][Order[n]])
    OBVIOUS
  <2>2. \A x \in Envs : call'[x] = IF x = e THEN [pc |-> "dup_child", child |-> Child(e), at |-> n,
                                                 perm |-> q] ELSE call[x]
    BY <1>4, <1>7, <2>1 DEF IInv, TypeInv, Calls
  <2>3. /\ call'[e].pc = "dup_child" /\ call'[e].at = n /\ call'[e].perm = q
        /\ \A x \in Envs \ {e} : call'[x] = call[x]
    BY <2>2
  <2>4. w # "pftemp" /\ w \in VA
    BY <1>1, <1>3, <1>7, <2>1, VALemma
  <2>5. q \subseteq Perms
    <3>1. pt[e][w] \in Pte
      BY <1>1, <2>4 DEF Framed
    <3>2. pt[e][w].perm \subseteq Perms
      BY <3>1 DEF Pte, Perms
    <3>3. QED  BY <2>1, <3>2 DEF DupPerm, Perms
  <2>6. CallTemp(e)'
    <3>1. Va(e)' = w
      BY <2>1, <2>3 DEF Va
    <3>2. q = DupPerm(pt[e][w])'
      BY <1>5, <2>1 DEF DupPerm
    <3>3. QED  BY <2>3, <2>4, <2>5, <3>1, <3>2 DEF CallTemp, Filling
  <2>7. QED  BY <1>1, <1>5, <2>3, <2>6, CallStepLemma DEF Handing
<1>8. QED  BY <1>3, <1>6, <1>7

(* copy_shared_pages: the child shares what is marked.                      *)
LEMMA CopySharedJLemma ==
    ASSUME IInv, JInv, NEW e \in Envs, CopyShared(e) PROVE JInv'
<1> DEFINE T == {i \in call[e].at + 1 .. Below : "SHARE" \in pt[e][Order[i]].perm} \cup {Below + 1}
<1>1. /\ life[e] = "alive" /\ fault[e].pc = "none" /\ call[e].pc = "next_shared"
      /\ Framed /\ CallTemp(e) /\ pt[e]["pftemp"] = Unmapped
      /\ \A x \in Envs, a, b \in VA : ~ Hand(x, a, e, b)
      /\ \A y \in Envs, a, b \in VA : ~ Hand(e, a, y, b)
  <2>1. At(e, "next_shared")
    BY DEF CopyShared
  <2>2. QED  BY <2>1, AtJLemma DEF Handing
<1>2. PICK c \in Envs \ {e} : c = Child(e) /\ Made(e, c)
  BY AtJLemma DEF CopyShared, Building, Stacked
<1>3. PICK n : n = NextAt(e, LAMBDA entry : "SHARE" \in entry.perm)
  OBVIOUS
<1>4. n \in 1 .. 6 /\ (n <= 5 => "SHARE" \in pt[e][Order[n]].perm)
  <2>1. call[e].at \in 0 .. 5
    BY DEF IInv, TypeInv, Calls
  <2>2. T \subseteq 1 .. 6 /\ 6 \in T
    BY <2>1, VALemma
  <2>3. n = Min(T)
    BY <1>3 DEF NextAt
  <2>4. n \in T
    BY <2>2, <2>3, MinLemma
  <2>5. QED  BY <2>1, <2>2, <2>4, VALemma
<1>5. /\ At(e, "next_shared")
      /\ \/ /\ n <= Below
            /\ SysPageMap(e, e, Order[n], Child(e), Order[n], pt[e][Order[n]].perm)
            /\ call' = [call EXCEPT ![e].at = n]
            /\ UNCHANGED life
         \/ n <= Below /\ Panic(e)
         \/ n > Below /\ Goto(e, "spawned") /\ UNCHANGED <<memVars, life>>
      /\ UNCHANGED <<upcall, handler, fault>>
  BY <1>3 DEF CopyShared
<1>6. CASE Panic(e)
  BY <1>1, <1>6, PanicJLemma
<1>7. CASE Goto(e, "spawned") /\ UNCHANGED <<memVars, life>>
  <2>1. content' \in [Frames -> Vals] /\ UNCHANGED <<pt, life, fault>>
    BY <1>1, <1>5, <1>7 DEF memVars, Framed
  <2>2. QED  BY <1>5, <1>7, <2>1, GoesOnLemma DEF Handing, Filling
<1>8. CASE /\ n <= Below
           /\ SysPageMap(e, e, Order[n], Child(e), Order[n], pt[e][Order[n]].perm)
           /\ call' = [call EXCEPT ![e].at = n]
           /\ UNCHANGED life
  <2>1. PICK w \in VA, q \in SUBSET Perms :
          w = Order[n] /\ q = Perm(e, w) /\ "SHARE" \in q /\ w # "pftemp"
    <3>1. n \in 1 .. 5 /\ Order[n] \in VA
      BY <1>4, <1>8, VALemma
    <3>2. pt[e][Order[n]] \in Pte /\ "SHARE" \in pt[e][Order[n]].perm
      BY <1>1, <1>4, <3>1 DEF Framed
    <3>3. pt[e][Order[n]].perm \in SUBSET Perms
      BY <3>2 DEF Pte, Perms
    <3>4. Order[n] # "pftemp"
      BY <1>1, <3>2 DEF Unmapped
    <3>5. QED  BY <3>1, <3>2, <3>3, <3>4 DEF Perm
  <2>2. /\ OneEntry(c, w) /\ Perm(c, w)' = q
        /\ \A y \in Envs, b \in VA : ~ (y = c /\ b = w) /\ Shared(c, w, y, b)' => Shared(e, w, y, b)
    <3>1. SysPageMap(e, e, w, c, w, q) /\ Framed /\ c \in Envs
      BY <1>1, <1>2, <1>8, <2>1 DEF Perm
    <3>2. QED  BY ONLY <3>1, e \in Envs, w \in VA, q \in SUBSET Perms, MapFramesLemma
  <2>3. \A y \in Envs, b \in VA : ~ (y = c /\ b = w) => Perm(y, b)' = Perm(y, b)
    BY <2>2 DEF OneEntry
  <2>4. Allowed(c, w)
    <3> SUFFICES ASSUME NEW y \in Envs, NEW b \in VA, ~ (y = c /\ b = w), Shared(c, w, y, b)',
                        CanStore(c, w)' \/ CanStore(y, b)'
                 PROVE  Excused(c, w, y, b)'
      BY DEF Allowed
    <3>1. Shared(e, w, y, b) /\ Shared(y, b, e, w)
      BY <2>2 DEF Shared
    <3>2. CASE y = e /\ b = w
      BY <2>1, <2>2, <2>3, <3>2 DEF Excused
    <3>3. CASE ~ (y = e /\ b = w)
      <4>1. CanStore(e, w) \/ CanStore(y, b)
        BY <2>1, <2>2, <2>3 DEF CanStore, Perm
      <4>2. Excused(e, w, y, b)
        BY <3>1, <3>3, <4>1 DEF JInv, Apart, Excused
      <4>3. "SHARE" \in Perm(y, b)
        BY <1>1, <4>2 DEF Excused
      <4>4. QED  BY <2>1, <2>2, <2>3, <4>3 DEF Excused
    <3>4. QED  BY <3>2, <3>3
  <2>5. HandsOn(e, c, w)
    BY <1>1 DEF HandsOn
  <2>6. /\ \A x \in Envs \ {e} : call'[x] = call[x]
        /\ call'[e].pc = "next_shared" /\ call'[e].perm = call[e].perm
    <3>1. call[e] = [pc |-> call[e].pc, child |-> call[e].child, at |-> call[e].at, perm |-> call[e].perm]
      BY DEF IInv, TypeInv, Calls
    <3>2. [call[e] EXCEPT !.at = n] =
            [pc |-> call[e].pc, child |-> call[e].child, at |-> n, perm |-> call[e].perm]
      BY <3>1
    <3>3. \A x \in Envs : call'[x] = IF x = e THEN [call[e] EXCEPT !.at = n] ELSE call[x]
      BY <1>8 DEF IInv, TypeInv, Calls
    <3>4. call'[e] = [pc |-> call[e].pc, child |-> call[e].child, at |-> n, perm |-> call[e].perm]
      BY <3>2, <3>3
    <3>5. QED  BY <1>1, <3>3, <3>4
  <2>7. CallTemp(e)'
    BY <1>1, <2>6 DEF CallTemp, Filling
  <2>8. UNCHANGED <<life, fault>> /\ call[e].pc \in Building
    BY <1>1, <1>5, <1>8 DEF Building, Stacked
  <2>9. QED
    BY <1>1, <1>2, <2>1, <2>2, <2>4, <2>5, <2>6, <2>7, <2>8, EntryStepLemma
<1>9. QED  BY <1>5, <1>6, <1>7, <1>8

(* A new child has nothing,                                                 *)
LEMMA ExoforkJLemma ==
    ASSUME IInv, JInv, NEW e \in Envs, NEW l, NEW m, At(e, l), l \notin Handing, Exofork(e, m),
           m \in {"next_page", "args"}
    PROVE  JInv'
<1>1. life[e] = "alive" /\ call[e].pc = l /\ Framed /\ fault[e].pc = "none"
  BY AtJLemma
<1>2. CASE Return(e) /\ UNCHANGED <<memVars, life, upcall, handler, fault>>
  <2>1. content' \in [Frames -> Vals] /\ UNCHANGED <<pt, life, fault>>
    BY <1>1, <1>2 DEF memVars, Framed
  <2>2. QED  BY <1>2, <2>1, GoesOnLemma
<1>3. ASSUME NEW c \in Envs, life[c] = "free",
             life' = [life EXCEPT ![c] = "embryo"],
             call' = [call EXCEPT ![e] = [pc |-> m, child |-> c, at |-> 0, perm |-> {}]],
             UNCHANGED <<memVars, fault>>
      PROVE  JInv'
  <2>1. content' \in [Frames -> Vals] /\ UNCHANGED <<pt, fault>>
    BY <1>1, <1>3 DEF memVars, Framed
  <2>2. /\ call'[e].pc = m /\ call'[e].perm = {} /\ \A y \in Envs \ {e} : call'[y] = call[y]
        /\ life'[c] = "embryo" /\ \A y \in Envs \ {c} : life'[y] = life[y]
    BY <1>3 DEF IInv, TypeInv, Calls
  <2>3. c # e /\ call'[c] = call[c] /\ life'[e] = "alive"
    BY <1>1, <1>3, <2>2
  <2>4. Still(e) /\ Still(c)
    BY <1>1, <2>1, <2>3 DEF Still
  <2>5. \A x \in {e, c} : HandlerTemp(x)'
    BY <2>1 DEF JInv, TempInv, HandlerTemp, Perm
  <2>6. CallTemp(e)'
    BY <2>2 DEF CallTemp, Filling
  <2>7. CallTemp(c)'
    <3>1. call[c].pc = "run"
      BY <1>3 DEF IInv, EnvInv
    <3>2. call[c].perm \subseteq Perms
      BY DEF JInv, TempInv, CallTemp
    <3>3. QED  BY <2>3, <3>1, <3>2 DEF CallTemp, Filling
  <2>8. TempInv(e)' /\ TempInv(c)'
    BY <2>2, <2>3, <2>5, <2>6, <2>7 DEF TempInv
  <2>9. QED  BY <1>1, <1>3, <2>1, <2>2, <2>4, <2>8, QuietStepLemma
<1>4. QED  BY <1>2, <1>3 DEF Exofork

(* and starts with the pages it got.                                        *)
LEMMA StartsJLemma ==
    ASSUME IInv, JInv, NEW e \in Envs, NEW k, At(e, k), k \in {"start", "spawned"},
           NEW l \in {"run", "this_env"}, NEW h, Starts(e, l, h)
    PROVE  JInv'
<1>1. life[e] = "alive" /\ call[e].pc = k /\ Framed /\ fault[e].pc = "none"
      /\ call[e].pc \in Building /\ call[e].pc \notin Handing
  BY AtJLemma DEF Building, Forked, Stacked, Handing
<1>2. PICK c \in Envs \ {e} : /\ c = Child(e) /\ Made(e, c) /\ life[c] = "embryo"
                            /\ call[c].pc = "run" /\ fault[c].pc = "none"
  BY <1>1, AtLemma
<1>3. \A x \in Envs : call'[x] = IF x = c THEN [NoCall EXCEPT !.pc = l] ELSE IF x = e THEN NoCall ELSE call[x]
  BY <1>2 DEF Starts, IInv, TypeInv, Calls
<1>4. /\ [NoCall EXCEPT !.pc = l] = [pc |-> l, child |-> 0, at |-> 0, perm |-> {}]
      /\ NoCall.pc = "run" /\ NoCall.perm = {}
  BY DEF NoCall
<1>5. /\ call'[c].pc = l /\ call'[c].perm = {} /\ call'[e].pc = "run" /\ call'[e].perm = {}
      /\ \A x \in Envs \ {e, c} : call'[x] = call[x]
  BY <1>3, <1>4
<1>6. life'[c] = "alive" /\ \A x \in Envs \ {c} : life'[x] = life[x]
  BY <1>2 DEF Starts, IInv, TypeInv
<1>7. content' \in [Frames -> Vals] /\ UNCHANGED <<pt, fault>>
  BY <1>1 DEF Starts, memVars, Framed
<1>8. Still(e) /\ Still(c)
  BY <1>1, <1>2, <1>7 DEF Still, Handing
<1>9. \A x \in {e, c} : HandlerTemp(x)'
  BY <1>7 DEF JInv, TempInv, HandlerTemp, Perm
<1>10. CallTemp(e)' /\ CallTemp(c)'
  BY <1>5 DEF CallTemp, Filling
<1>11. TempInv(e)' /\ TempInv(c)'
  BY <1>1, <1>6, <1>9, <1>10 DEF TempInv
<1>12. QED  BY <1>1, <1>2, <1>5, <1>6, <1>7, <1>8, <1>11, QuietStepLemma

(* A fault is delivered, at a program with nothing at PFTEMP.               *)
LEMMA PageFaultJLemma ==
    ASSUME IInv, JInv, NEW e \in Envs, NEW va \in VA, PageFault(e, va) PROVE JInv'
<1>1. /\ life[e] = "alive" /\ fault[e].pc = "none" /\ Sound(e)
      /\ va \in Private /\ "W" \notin Perm(e, va)
  BY DEF PageFault, Runs, Alive, StoresTo, Private, CanStore, Perm, IInv, EnvInv
<1>2. Ready(e)
  BY <1>1 DEF Sound
<1>3. /\ fault' = [fault EXCEPT ![e] = [pc |-> "alloc", va |-> va]]
      /\ life' = life /\ UNCHANGED <<memVars, upcall, handler, call>>
  BY <1>2 DEF PageFault, Ready, IInv, TypeInv
<1>4. /\ fault'[e].pc = "alloc"
      /\ \A x \in Envs \ {e} : fault'[x] = fault[x]
  BY <1>3 DEF IInv, TypeInv, Faults
<1>5. content' \in [Frames -> Vals] /\ UNCHANGED <<pt, life, call>>
  BY <1>3 DEF memVars, JInv, Framed
<1>6. Still(e)
  BY <1>1, <1>5 DEF Still
<1>7. TempInv(e)'
  BY <1>1, <1>4, <1>5 DEF JInv, TempInv, HandlerTemp, CallTemp, Perm, Va, Child
<1>8. QED  BY <1>1, <1>4, <1>5, <1>6, <1>7, QuietStepLemma

(* The handler takes a page,                                                *)
LEMMA PgfaultAllocJLemma ==
    ASSUME IInv, JInv, NEW e \in Envs, PgfaultAlloc(e) PROVE JInv'
<1>1. /\ InHandler(e, "alloc") /\ life[e] = "alive" /\ fault[e].pc = "alloc" /\ Sound(e)
      /\ fault[e].va \in VA /\ TypeInv
  BY InHandlerLemma DEF PgfaultAlloc
<1>2. "COW" \in pt[e][FaultVa(e)].perm
  BY <1>1 DEF Sound, Perm, FaultVa
<1>3. CASE life' = [life EXCEPT ![e] = "panicked"] /\ UNCHANGED <<memVars, fault>>
  BY <1>1, <1>3, PanicJLemma DEF Panic, PgfaultAlloc
<1>4. CASE SysPageAlloc(e, e, "pftemp", {"W"}) /\ HandlerTo(e, "copy") /\ UNCHANGED life
  <2>1. PICK q \in SUBSET Perms, w \in VA : q = {"W"} /\ w = "pftemp"
    BY VALemma DEF Perms
  <2>2. /\ OneEntry(e, w) /\ Perm(e, w)' = q
        /\ \A y \in Envs, b \in VA : ~ (y = e /\ b = w) => ~ Shared(e, w, y, b)'
    <3>1. SysPageAlloc(e, e, w, q) /\ Framed
      BY <1>4, <2>1 DEF JInv
    <3>2. QED  BY ONLY <3>1, e \in Envs, w \in VA, q \in SUBSET Perms, AllocFramesLemma
  <2>3. /\ fault'[e].pc = "copy" /\ \A x \in Envs \ {e} : fault'[x] = fault[x]
    BY <1>1, <1>4, HandlerToLemma
  <2>4. Allowed(e, w)
    BY <2>2 DEF Allowed
  <2>5. HandlerTemp(e)'
    BY <2>1, <2>2, <2>3 DEF HandlerTemp
  <2>6. UNCHANGED <<life, call>>
    BY <1>4 DEF PgfaultAlloc
  <2>7. QED  BY <1>1, <2>1, <2>2, <2>3, <2>4, <2>5, <2>6, HandlerJLemma
<1>5. QED  BY <1>2, <1>3, <1>4 DEF PgfaultAlloc

(* copies into it,                                                          *)
LEMMA PgfaultCopyJLemma ==
    ASSUME IInv, JInv, NEW e \in Envs, PgfaultCopy(e) PROVE JInv'
<1>1. /\ life[e] = "alive" /\ fault[e].pc = "copy" /\ Sound(e) /\ fault[e].va \in VA /\ TypeInv
  BY InHandlerLemma DEF PgfaultCopy
<1>2. PICK f : f = pt[e][FaultVa(e)].frame
  OBVIOUS
<1>3. f \in Frames
  <2>1. "COW" \in pt[e][FaultVa(e)].perm /\ FaultVa(e) \in VA
    BY <1>1 DEF Sound, Perm, FaultVa
  <2>2. pt[e][FaultVa(e)] # Unmapped
    BY <2>1 DEF Unmapped
  <2>3. pt[e][FaultVa(e)] \in Pte /\ pt[e][FaultVa(e)].frame # NoFrame
    BY <2>1, <2>2 DEF JInv, Framed
  <2>4. QED  BY <1>2, <2>3 DEF Pte
<1>4. content' \in [Frames -> Vals]
  <2>1. content[f] \in Vals
    BY <1>3 DEF JInv, Framed
  <2>2. content' = [content EXCEPT ![pt[e]["pftemp"].frame] = content[f]]
    BY <1>2 DEF PgfaultCopy
  <2>3. QED  BY <2>1, <2>2 DEF JInv, Framed
<1>5. /\ fault'[e].pc = "unmap" /\ \A x \in Envs \ {e} : fault'[x] = fault[x]
  BY <1>1, HandlerToLemma DEF PgfaultCopy
<1>6. UNCHANGED <<pt, life, call>>
  BY DEF PgfaultCopy
<1>7. Still(e)
  BY <1>1, <1>6 DEF Still
<1>8. TempInv(e)'
  BY <1>1, <1>5, <1>6 DEF JInv, TempInv, HandlerTemp, CallTemp, Perm, Va, Child
<1>9. QED  BY <1>1, <1>4, <1>5, <1>6, <1>7, <1>8, QuietStepLemma

(* drops its share of the old page,                                         *)
LEMMA PgfaultUnmapJLemma ==
    ASSUME IInv, JInv, NEW e \in Envs, PgfaultUnmap(e) PROVE JInv'
<1>1. /\ life[e] = "alive" /\ fault[e].pc = "unmap" /\ fault[e].va \in Private /\ TypeInv
      /\ fault[e].va \in VA /\ "pftemp" \in VA /\ "pftemp" \notin Private
  BY InHandlerLemma DEF PgfaultUnmap
<1>2. PICK w \in VA : w = fault[e].va /\ w \in Private
  BY <1>1
<1>3. /\ OneEntry(e, w)
      /\ \A y \in Envs, b \in VA : ~ (y = e /\ b = w) => ~ Shared(e, w, y, b)'
  <2>1. SysPageUnmap(e, e, w) /\ Framed
    BY <1>2 DEF PgfaultUnmap, FaultVa, JInv
  <2>2. QED  BY ONLY <2>1, e \in Envs, w \in VA, UnmapFramesLemma
<1>4. /\ fault'[e].pc = "map" /\ \A x \in Envs \ {e} : fault'[x] = fault[x]
  BY <1>1, HandlerToLemma DEF PgfaultUnmap
<1>5. Allowed(e, w)
  BY <1>3 DEF Allowed
<1>6. HandlerTemp(e)'
  BY <1>1, <1>2, <1>3, <1>4 DEF JInv, TempInv, HandlerTemp, OneEntry
<1>7. UNCHANGED <<life, call>>
  BY DEF PgfaultUnmap
<1>8. QED  BY <1>1, <1>2, <1>3, <1>4, <1>5, <1>6, <1>7, HandlerJLemma

(* maps the new one in its place: nobody else has it,                       *)
LEMMA PgfaultMapJLemma ==
    ASSUME IInv, JInv, NEW e \in Envs, PgfaultMap(e) PROVE JInv'
<1>1. /\ life[e] = "alive" /\ fault[e].pc = "map" /\ fault[e].va \in Private /\ TypeInv
      /\ fault[e].va \in VA /\ "pftemp" \in VA /\ "pftemp" \notin Private
  BY InHandlerLemma DEF PgfaultMap
<1>2. PICK w \in VA, v \in VA, q \in SUBSET Perms :
        w = fault[e].va /\ w \in Private /\ v = "pftemp" /\ q = {"W"}
  BY <1>1 DEF Perms
<1>3. /\ OneEntry(e, w) /\ Perm(e, w)' = q
      /\ \A y \in Envs, b \in VA : ~ (y = e /\ b = w) /\ Shared(e, w, y, b)' => Shared(e, v, y, b)
  <2>1. SysPageMap(e, e, v, e, w, q) /\ Framed
    BY <1>2 DEF PgfaultMap, FaultVa, JInv
  <2>2. QED  BY ONLY <2>1, e \in Envs, v \in VA, w \in VA, q \in SUBSET Perms, MapFramesLemma
<1>4. /\ fault'[e].pc = "untemp" /\ fault'[e].va = w /\ \A x \in Envs \ {e} : fault'[x] = fault[x]
  BY <1>1, <1>2, HandlerToLemma DEF PgfaultMap
<1>5. Perm(e, v) = {"W"} /\ CallTemp(e)
  BY <1>1, <1>2 DEF JInv, TempInv, HandlerTemp
<1>6. Allowed(e, w)
  <2> SUFFICES ASSUME NEW y \in Envs, NEW b \in VA, ~ (y = e /\ b = w), Shared(e, w, y, b)'
               PROVE  Excused(e, w, y, b)'
    BY DEF Allowed
  <2>1. Shared(e, v, y, b)
    BY <1>3
  <2>2. y = e /\ b = v
    <3>1. SUFFICES ASSUME ~ (y = e /\ b = v)  PROVE FALSE
      OBVIOUS
    <3>2. Excused(e, v, y, b)
      BY <1>5, <2>1, <3>1 DEF JInv, Apart, CanStore, Perm
    <3>3. ~ Hand(e, v, y, b)
      BY <1>1, <1>2, <1>5 DEF Hand, CallTemp
    <3>4. ~ Hand(y, b, e, v)
      BY <1>1, NotGivenLemma
    <3>5. QED  BY <1>5, <3>2, <3>3, <3>4 DEF Excused
  <2>3. Hand(e, v, e, w)'
    BY <1>2, <1>4 DEF Hand, FaultVa
  <2>4. QED  BY <2>2, <2>3 DEF Excused
<1>7. HandlerTemp(e)'
  BY <1>4 DEF HandlerTemp
<1>8. UNCHANGED <<life, call>>
  BY DEF PgfaultMap
<1>9. QED  BY <1>1, <1>2, <1>3, <1>4, <1>6, <1>7, <1>8, HandlerJLemma

(* and leaves PFTEMP empty.                                                 *)
LEMMA PgfaultUntempJLemma ==
    ASSUME IInv, JInv, NEW e \in Envs, PgfaultUntemp(e) PROVE JInv'
<1>1. /\ life[e] = "alive" /\ fault[e].pc = "untemp" /\ TypeInv
      /\ "pftemp" \in VA /\ "pftemp" \notin Private
  BY InHandlerLemma DEF PgfaultUntemp
<1>2. PICK w \in VA : w = "pftemp"
  BY <1>1
<1>3. /\ OneEntry(e, w) /\ pt'[e][w] = Unmapped
      /\ \A y \in Envs, b \in VA : ~ (y = e /\ b = w) => ~ Shared(e, w, y, b)'
  <2>1. SysPageUnmap(e, e, w) /\ Framed
    BY <1>2 DEF PgfaultUntemp, JInv
  <2>2. QED  BY ONLY <2>1, e \in Envs, w \in VA, UnmapFramesLemma
<1>4. /\ fault'[e].pc = "none" /\ \A x \in Envs \ {e} : fault'[x] = fault[x]
  BY <1>1 DEF PgfaultUntemp, TypeInv, Faults, NoFault
<1>5. Allowed(e, w)
  BY <1>3 DEF Allowed
<1>6. HandlerTemp(e)'
  BY <1>2, <1>3, <1>4 DEF HandlerTemp
<1>7. UNCHANGED <<life, call>>
  BY DEF PgfaultUntemp
<1>8. QED  BY <1>1, <1>2, <1>3, <1>4, <1>5, <1>6, <1>7, HandlerJLemma

(* A store changes what a page holds.                                       *)
LEMMA StoreJLemma ==
    ASSUME IInv, JInv, NEW e \in Envs, NEW va, NEW v \in Vals, Store(e, va, v) PROVE JInv'
<1>1. life[e] = "alive" /\ call[e].pc = "run" /\ Framed /\ CallTemp(e)
  BY AtJLemma DEF Store
<1>2. content' \in [Frames -> Vals] /\ UNCHANGED <<pt, life, call, fault>>
  BY <1>1 DEF Store, Framed
<1>3. CallTemp(e)'
  BY <1>1, <1>2 DEF CallTemp, Filling
<1>4. QED  BY <1>1, <1>2, <1>3, CallStepLemma DEF Handing

(* The end of a program.                                                    *)
LEMMA DestroyJLemma ==
    ASSUME IInv, JInv, NEW e \in Envs, Destroy(e) PROVE JInv'
<1>1. life[e] = "alive"
  BY DEF Destroy, Runs, Alive
<1>2. /\ EnvFree(e) /\ call'[e] = NoCall /\ fault'[e] = NoFault /\ life'[e] = "free"
      /\ \A x \in Envs \ {e} : call'[x] = call[x] /\ fault'[x] = fault[x] /\ life'[x] = life[x]
  BY DEF Destroy, IInv, TypeInv, Calls, Faults
<1>3. fault'[e].pc = "none"
  BY <1>2 DEF NoFault
<1>4. QED  BY <1>1, <1>2, <1>3, FreeStepLemma

(* A spawn that fails takes its child with it.                              *)
LEMMA SpawnErrorJLemma ==
    ASSUME IInv, JInv, NEW e \in Envs, NEW l, At(e, l), l \in {"segment", "read"},
           SpawnError(e), UNCHANGED fault
    PROVE  JInv'
<1>1. /\ life[e] = "alive" /\ call[e].pc = l /\ call[e].pc \in Building /\ l \notin Handing
      /\ TypeInv
  BY AtJLemma DEF Building, Stacked, Handing, IInv
<1>2. PICK c \in Envs \ {e} : c = Child(e) /\ Made(e, c) /\ fault[c].pc = "none"
  BY <1>1, AtLemma
<1>3. /\ EnvFree(c) /\ call'[e] = NoCall /\ \A x \in Envs \ {e} : call'[x] = call[x]
      /\ life'[c] = "free" /\ \A x \in Envs \ {c} : life'[x] = life[x]
  BY <1>1, <1>2, ReturnCallLemma DEF SpawnError, TypeInv
<1>4. fault'[e] = fault[e] /\ fault'[c].pc = "none" /\ \A x \in Envs : fault'[x] = fault[x]
  BY <1>2
<1>5. QED  BY <1>1, <1>2, <1>3, <1>4, FreeStepLemma

-----------------------------------------------------------------------------
(* All steps of spawn,                                                      *)
LEMMA SpawningJLemma ==
    ASSUME IInv, JInv, NEW e \in Envs, Spawning(e) PROVE JInv'
<1> USE DEF Handing, Filling
<1>1. "utemp" \in VA /\ "data" \in VA /\ Framed
  BY VALemma DEF JInv
<1>2. ASSUME NEW l, At(e, l), l \in {"segment", "read", "seg_map", "args_map"}
      PROVE  \E c \in Envs : l \in Building /\ c = Child(e)
  BY <1>2, AtJLemma DEF Building, Stacked
<1>3. Image \in Vals /\ \A f : [content EXCEPT ![f] = Image] \in [Frames -> Vals]
  BY <1>1 DEF Vals, Framed
<1>4. CASE InitStack(e)
  <2>1. UNCHANGED <<life, fault>>
    BY <1>4 DEF InitStack
  <2>2. CASE At(e, "args") /\ TempAlloc(e, "args_fill")
    BY <1>1, <2>1, <2>2, FreshJLemma DEF TempAlloc
  <2>3. CASE At(e, "args") /\ Return(e) /\ UNCHANGED memVars
    <3>1. pt' = pt /\ content' \in [Frames -> Vals]
      BY <1>1, <2>3 DEF memVars, Framed
    <3>2. QED  BY <2>1, <2>3, <3>1, GoesOnLemma
  <2>4. CASE At(e, "args_map") /\ Give(e, "stack") /\ Goto(e, "args_unmap")
    BY <2>1, <2>4, GiveJLemma
  <2>5. CASE At(e, "args_map") /\ SysPageUnmap(e, e, "utemp") /\ Return(e)
    BY <2>1, <2>5, UntempJLemma
  <2>6. CASE At(e, "args_unmap") /\ SysPageUnmap(e, e, "utemp") /\ Goto(e, "segment")
    BY <2>1, <2>6, UntempJLemma
  <2>7. QED  BY <1>4, <2>2, <2>3, <2>4, <2>5, <2>6 DEF InitStack
<1>5. CASE ArgsFill(e)
  BY <1>3, <1>5, GoesOnLemma DEF ArgsFill, Fill
<1>6. CASE MapSegment(e)
  <2>1. UNCHANGED fault
    BY <1>6 DEF MapSegment
  <2>2. CASE /\ At(e, "segment") /\ SysPageAlloc(e, Child(e), "data", {"W"})
             /\ Goto(e, "next_shared") /\ UNCHANGED life
    <3>1. PICK c \in Envs : "segment" \in Building /\ c = Child(e)
      BY <1>2, <2>2
    <3>2. QED  BY <1>1, <2>1, <2>2, <3>1, FreshJLemma
  <2>3. CASE At(e, "segment") /\ TempAlloc(e, "read") /\ UNCHANGED life
    BY <1>1, <2>1, <2>3, FreshJLemma DEF TempAlloc
  <2>4. CASE At(e, "seg_map") /\ Give(e, "data") /\ Goto(e, "seg_unmap") /\ UNCHANGED life
    BY <2>1, <2>4, GiveJLemma
  <2>5. CASE /\ At(e, "seg_unmap") /\ SysPageUnmap(e, e, "utemp")
             /\ Goto(e, "next_shared") /\ UNCHANGED life
    BY <2>1, <2>5, UntempJLemma
  <2>6. CASE (At(e, "segment") \/ At(e, "read")) /\ SpawnError(e)
    BY <2>1, <2>6, SpawnErrorJLemma
  <2>7. CASE At(e, "seg_map") /\ Panic(e)
    BY <2>7, AtJLemma, PanicJLemma
  <2>8. QED  BY <1>6, <2>2, <2>3, <2>4, <2>5, <2>6, <2>7 DEF MapSegment
<1>7. CASE SegmentRead(e)
  BY <1>3, <1>7, GoesOnLemma DEF SegmentRead, Fill
<1>8. CASE CopyShared(e)
  BY <1>8, CopySharedJLemma
<1>9. CASE SpawnStart(e)
  BY <1>9, StartsJLemma DEF SpawnStart
<1>10. QED  BY <1>4, <1>5, <1>6, <1>7, <1>8, <1>9 DEF Spawning

(* of fork,                                                                 *)
LEMMA ForkingJLemma ==
    ASSUME IInv, JInv, NEW e \in Envs, Forking(e) PROVE JInv'
<1> USE DEF Handing, Filling
<1>1. "xstack" \in VA /\ (UNCHANGED content => content' \in [Frames -> Vals])
  BY VALemma DEF JInv, Framed
<1>2. CASE SetHandler(e)
  BY <1>1, <1>2, GoesOnLemma DEF SetHandler, memVars
<1>3. CASE SetUpcall(e)
  BY <1>1, <1>3, GoesOnLemma DEF SetUpcall, memVars
<1>4. CASE ForkExofork(e)
  BY <1>4, ExoforkJLemma DEF ForkExofork
<1>5. CASE ChildXstack(e)
  <2>1. CASE SysPageAlloc(e, Child(e), "xstack", {"W"}) /\ Goto(e, "child_upcall")
    <3>1. At(e, "child_xstack") /\ UNCHANGED <<life, fault>>
      BY <1>5 DEF ChildXstack
    <3>2. "child_xstack" \in Building
      BY DEF Building, Forked
    <3>3. PICK c \in Envs : c = Child(e)
      BY <3>1, <3>2, AtJLemma
    <3>4. QED  BY <1>1, <2>1, <3>1, <3>2, <3>3, FreshJLemma
  <2>2. CASE Return(e) /\ UNCHANGED memVars
    BY <1>1, <1>5, <2>2, GoesOnLemma DEF ChildXstack, memVars
  <2>3. QED  BY <1>5, <2>1, <2>2 DEF ChildXstack
<1>6. CASE ChildUpcall(e)
  BY <1>1, <1>6, GoesOnLemma DEF ChildUpcall, memVars
<1>7. CASE ForkStart(e)
  BY <1>7, StartsJLemma DEF ForkStart
<1>8. CASE ThisEnv(e)
  BY <1>1, <1>8, GoesOnLemma DEF ThisEnv, memVars
<1>9. QED
  BY <1>2, <1>3, <1>4, <1>5, <1>6, <1>7, <1>8, NextPageJLemma, DupChildJLemma, DupOwnJLemma DEF Forking

(* and of the program itself.                                               *)
LEMMA ProgramJLemma ==
    ASSUME IInv, JInv, NEW e \in Envs, Program(e) PROVE JInv'
<1> USE DEF Handing, Filling
<1>1. CASE ForkCall(e)
  <2>1. At(e, "run") /\ UNCHANGED fault
    BY <1>1 DEF ForkCall
  <2>2. CASE UNCHANGED <<memVars, life>> /\ Goto(e, "set_handler")
    <3>1. pt' = pt /\ content' \in [Frames -> Vals]
      BY <2>2 DEF memVars, JInv, Framed
    <3>2. QED  BY <2>1, <2>2, <3>1, GoesOnLemma
  <2>3. CASE SysPageAlloc(e, e, "xstack", {"W"}) /\ UNCHANGED life /\ Goto(e, "set_handler")
    BY <2>1, <2>3, VALemma, FreshJLemma
  <2>4. CASE Panic(e)
    BY <2>1, <2>4, AtJLemma, PanicJLemma
  <2>5. QED  BY <1>1, <2>2, <2>3, <2>4 DEF ForkCall
<1>2. CASE SpawnExofork(e)
  BY <1>2, ExoforkJLemma DEF SpawnExofork
<1>3. ASSUME NEW va, NEW v \in Written, Store(e, va, v)  PROVE JInv'
  BY <1>3, StoreJLemma DEF Vals
<1>4. QED  BY <1>1, <1>2, <1>3, DestroyJLemma DEF Program

(* Every step keeps the pages apart.                                        *)
LEMMA NextJLemma == IInv /\ JInv /\ [Next]_vars => JInv'
<1> SUFFICES ASSUME IInv, JInv, [Next]_vars  PROVE JInv'
  OBVIOUS
<1>1. CASE UNCHANGED vars
  <2>1. UNCHANGED <<pt, content, life, call, fault>>
    BY <1>1 DEF vars, memVars
  <2>2. Framed'
    BY <2>1 DEF JInv, Framed
  <2>3. Apart'
    BY <2>1, ApartStillLemma DEF JInv, Still
  <2>4. ASSUME NEW e \in Envs  PROVE TempInv(e)'
    BY <2>1 DEF JInv, TempInv, HandlerTemp, CallTemp, Perm, Child, Va
  <2>5. QED  BY <2>2, <2>3, <2>4 DEF JInv
<1>2. ASSUME NEW e \in Envs, Handler(e)  PROVE JInv'
  BY <1>2, PgfaultAllocJLemma, PgfaultCopyJLemma, PgfaultUnmapJLemma, PgfaultMapJLemma,
     PgfaultUntempJLemma DEF Handler
<1>3. QED
  BY <1>1, <1>2, ProgramJLemma, ForkingJLemma, SpawningJLemma, PageFaultJLemma DEF Next, Library

(* The first program has its memory for itself.                             *)
LEMMA InitJLemma == Init => JInv
<1> SUFFICES ASSUME Init  PROVE JInv
  OBVIOUS
<1> DEFINE E(e, va) == IF e # Root THEN Unmapped
                       ELSE IF va \notin Private \cup {"fd"} THEN Unmapped
                       ELSE [frame |-> Number[e][va],
                             perm |-> IF va = "fd" THEN {"W", "SHARE"} ELSE {"W"}]
<1>1. pt = [e \in Envs |-> [va \in VA |-> E(e, va)]]
  <2>1. pt = [e \in Envs |-> IF e # Root THEN Nothing ELSE [va \in VA |->
                        IF va \notin Private \cup {"fd"} THEN Unmapped
                        ELSE [frame |-> Number[e][va],
                              perm |-> IF va = "fd" THEN {"W", "SHARE"} ELSE {"W"}]]]
    BY DEF Init
  <2>2. QED  BY <2>1 DEF Nothing
<1>2. ASSUME NEW e \in Envs, NEW va \in VA
      PROVE  /\ E(e, va) \in Pte
             /\ E(e, va).frame = NoFrame => E(e, va) = Unmapped
             /\ E(e, va).frame # NoFrame => E(e, va).frame = Number[e][va]
  <2>1. Number[e][va] \in Frames /\ Number[e][va] # NoFrame
    BY NumberLemma DEF NoFrame
  <2>2. QED  BY <2>1 DEF Pte, Unmapped
<1> HIDE DEF E
<1>3. \A e \in Envs, va \in VA : pt[e][va] = E(e, va)
  BY <1>1
<1>4. Framed
  <2>1. content \in [Frames -> Vals]
    BY DEF Init, Vals
  <2>2. QED  BY <1>1, <1>2, <1>3, <2>1 DEF Framed
<1>5. Apart
  <2> SUFFICES ASSUME NEW x \in Envs, NEW y \in Envs, NEW a \in VA, NEW b \in VA,
                      Shared(x, a, y, b)
               PROVE  x = y /\ a = b
    BY DEF Apart
  <2>1. Number[x][a] = Number[y][b]
    BY <1>2, <1>3 DEF Shared
  <2>2. <<x, a>> = <<y, b>>
    BY <2>1, NumberLemma
  <2>3. QED  BY <2>2
<1>6. ASSUME NEW e \in Envs  PROVE TempInv(e)
  <2>1. pt[e]["pftemp"] = Unmapped
    BY <1>3, VALemma DEF E, Private
  <2>2. HandlerTemp(e) /\ CallTemp(e)
    BY <2>1 DEF Init, NoCall, NoFault, HandlerTemp, CallTemp, Filling
  <2>3. e # Root => pt[e] = Nothing
    BY DEF Init
  <2>4. QED  BY <2>2, <2>3 DEF TempInv, Init
<1>7. QED  BY <1>4, <1>5, <1>6 DEF JInv

LEMMA JInvLemma == Spec => []JInv
  BY InitJLemma, NextJLemma, IInvTheorem, PTL DEF Spec

(* Types, for any number of programs; a slot nobody uses has no memory.     *)
THEOREM ForkTypeOK == Spec => []TypeOK
<1>1. IInv /\ JInv => TypeOK
  BY DEF IInv, TypeInv, JInv, Framed, TempInv, TypeOK
<1>2. QED  BY <1>1, IInvTheorem, JInvLemma, PTL

(* No program can store to a page another one reads, except where PTE_SHARE *)
(* asks for it or the page is being handed over: for any number of programs *)
(* and through every interleaving of their forks, faults and spawns.        *)
THEOREM IsolatedTheorem == Spec => []Isolated
<1>1. JInv => Isolated
  <2> SUFFICES ASSUME JInv, NEW e \in Envs, NEW va \in VA, CanStore(e, va),
                      ~ InHand(pt[e][va].frame),
                      NEW d \in Envs, NEW w \in VA, pt[d][w].frame = pt[e][va].frame,
                      ~ (d = e /\ w = va)
               PROVE  "SHARE" \in pt[e][va].perm \cap pt[d][w].perm
    BY DEF Isolated
  <2>1. pt[e][va].frame # NoFrame
    BY DEF JInv, Framed, CanStore, Unmapped
  <2>2. Shared(e, va, d, w)
    BY <2>1 DEF Shared
  <2>3. Excused(e, va, d, w)
    BY <2>2 DEF JInv, Apart
  <2>4. ~ Hand(e, va, d, w) /\ ~ Hand(d, w, e, va)
    BY DEF Hand, InHand
  <2>5. QED  BY <2>3, <2>4 DEF Excused, Perm
<1>2. QED  BY <1>1, JInvLemma, PTL

-----------------------------------------------------------------------------
(* Third part: what the pages hold, and that programs with them have the    *)
(* memories of Memories.                                                    *)

\* Only descriptors are marked PTE_SHARE, and every program has its own.
PermInv(e) ==
    /\ \A a \in VA : "SHARE" \in Perm(e, a) => a = "fd"
    /\ pt[e]["fd"] = Unmapped \/ Perm(e, "fd") = {"W", "SHARE"}
    /\ life[e] = "alive" => Perm(e, "fd") = {"W", "SHARE"}

Linked(e, c) == Shared(c, "fd", e, "fd")

\* What the child of e has of e's memory, or of its own file.
Given(e, c) ==
    /\ call[e].pc \in Forked => \A i \in 1 .. 5 :
          Order[i] \in Private /\ Copied(e, i) => Held(c, Order[i]) = Reads(e, Order[i])
    /\ call[e].pc \in Forked /\ Copied(e, 4) => Linked(e, c)
    /\ call[e].pc \in Stacked => Held(c, "stack") = Image
    /\ call[e].pc \in Loaded => Held(c, "data") \in {Zero, Image}
    /\ call[e].pc = "spawned" \/ (call[e].pc = "next_shared" /\ call[e].at > 3) => Linked(e, c)

Early == {"args", "args_fill", "args_map", "args_unmap", "segment", "read", "seg_map", "seg_unmap"}

Pages(e) ==
    /\ fault[e].pc = "unmap" => Held(e, "pftemp") = Held(e, FaultVa(e))
    /\ call[e].pc \in {"args_map", "seg_map"} => Held(e, "utemp") = Image
    /\ call[e].pc \in Early => call[e].at = 0
    /\ call[e].pc = "dup_own" => Va(e) # "fd"
    /\ call[e].pc \in Building => Given(e, Child(e))

KInv == \A e \in Envs : PermInv(e) /\ (life[e] = "alive" => Pages(e))

(* A program reads its memory where it has a page.                          *)
Where(e, a) == IF fault[e].pc = "map" /\ FaultVa(e) = a THEN "pftemp" ELSE a

LEMMA WhereLemma ==
    ASSUME IInv, JInv, NEW e \in Envs, life[e] = "alive", NEW a \in Private
    PROVE  /\ Where(e, a) \in VA /\ pt[e][Where(e, a)] # Unmapped /\ Where(e, a) # "fd"
           /\ Reads(e, a) = Held(e, Where(e, a))
<1>1. "W" \in Perm(e, a) \/ "COW" \in Perm(e, a) \/ (fault[e].pc = "map" /\ fault[e].va = a)
  BY DEF IInv, EnvInv, Sound
<1>2. fault[e].pc = "map" => Perm(e, "pftemp") = {"W"}
  BY DEF JInv, TempInv, HandlerTemp
<1>3. Unmapped.perm = {}
  BY DEF Unmapped
<1>4. pt[e][Where(e, a)] # Unmapped
  BY <1>1, <1>2, <1>3 DEF Perm, Where, FaultVa
<1>5. Where(e, a) \in VA /\ Where(e, a) # "fd"
  BY VALemma DEF Where, Private
<1>6. Reads(e, a) = Held(e, Where(e, a))
  BY DEF Reads, Held, Where
<1>7. QED  BY <1>4, <1>5, <1>6

\* What y has is what it had, but at W and for its descriptor's page.
Kept(y, W) == \A a \in VA \ W : a # "fd" /\ pt[y][a] # Unmapped => Held(y, a)' = Held(y, a)

LEMMA ReadsKeptLemma ==
    ASSUME IInv, JInv, NEW e \in Envs, life[e] = "alive", NEW a \in Private, NEW W,
           Kept(e, W), Where(e, a) \notin W, fault'[e] = fault[e]
    PROVE  Reads(e, a)' = Reads(e, a)
<1>1. /\ Where(e, a) \in VA /\ pt[e][Where(e, a)] # Unmapped /\ Where(e, a) # "fd"
      /\ Reads(e, a) = Held(e, Where(e, a))
  BY WhereLemma
<1>2. Held(e, Where(e, a))' = Held(e, Where(e, a)) /\ Where(e, a)' = Where(e, a)
  <2>1. Where(e, a)' = Where(e, a)
    BY DEF Where, FaultVa
  <2>2. PICK w \in VA : w = Where(e, a)
    BY <1>1
  <2>3. Held(e, w)' = Held(e, w)
    BY <1>1, <2>2 DEF Kept
  <2>4. QED  BY <2>1, <2>2, <2>3 DEF Held
<1>3. Reads(e, a)' = Held(e, Where(e, a))'
  BY DEF Reads, Held, Where
<1>4. QED  BY <1>1, <1>2, <1>3

\* A step that may change the child's pages at W has the pages it says.
Gives(e, c, W) ==
    /\ call'[e].pc \in Forked => \A i \in 1 .. 5 : Order[i] \in Private /\ Copied(e, i)' =>
          \/ call[e].pc \in Forked /\ Copied(e, i) /\ Order[i] \notin W
          \/ Held(c, Order[i])' = Reads(e, Order[i])
    /\ call'[e].pc \in Forked /\ Copied(e, 4)' =>
          (call[e].pc \in Forked /\ Copied(e, 4) /\ "fd" \notin W) \/ Linked(e, c)'
    /\ call'[e].pc \in Stacked =>
          (call[e].pc \in Stacked /\ "stack" \notin W) \/ Held(c, "stack")' = Image
    /\ call'[e].pc \in Loaded =>
          (call[e].pc \in Loaded /\ "data" \notin W) \/ Held(c, "data")' \in {Zero, Image}
    /\ call'[e].pc = "spawned" \/ (call'[e].pc = "next_shared" /\ call'[e].at > 3) =>
          \/ "fd" \notin W /\ call[e].pc = "next_shared" /\ call[e].at > 3
          \/ "fd" \notin W /\ call[e].pc = "spawned"
          \/ Linked(e, c)'

LEMMA GivenLemma ==
    ASSUME NEW e \in Envs, NEW c \in Envs, Made(e, c), Given(e, c), NEW W,
           Kept(c, W), \A a \in Private : Reads(e, a)' = Reads(e, a),
           "fd" \notin W /\ Linked(e, c) => Linked(e, c)', Gives(e, c, W)
    PROVE  Given(e, c)'
<1>1. Unmapped.perm = {} /\ {"stack", "data"} \subseteq VA \ {"fd"}
  BY VALemma DEF Unmapped
<1>2. ASSUME NEW i \in 1 .. 5, call'[e].pc \in Forked, Order[i] \in Private, Copied(e, i)'
      PROVE  Held(c, Order[i])' = Reads(e, Order[i])'
  <2>1. CASE Held(c, Order[i])' = Reads(e, Order[i])
    BY <1>2, <2>1
  <2>2. CASE call[e].pc \in Forked /\ Copied(e, i) /\ Order[i] \notin W
    <3>1. "COW" \in Perm(c, Order[i]) /\ Held(c, Order[i]) = Reads(e, Order[i])
      BY <1>2, <2>2 DEF Made, Given
    <3>2. pt[c][Order[i]] # Unmapped /\ Order[i] \in VA /\ Order[i] # "fd"
      BY <1>1, <1>2, <3>1, VALemma DEF Perm, Private
    <3>3. Held(c, Order[i])' = Held(c, Order[i])
      BY <2>2, <3>2 DEF Kept
    <3>4. QED  BY <1>2, <3>1, <3>3
  <2>3. QED  BY <1>2, <2>1, <2>2 DEF Gives
<1>3. call'[e].pc \in Stacked => Held(c, "stack")' = Image
  <2>1. CASE call[e].pc \in Stacked /\ "stack" \notin W
    <3>1. pt[c]["stack"] # Unmapped /\ Held(c, "stack") = Image
      BY <1>1, <2>1 DEF Made, Given, Perm
    <3>2. QED  BY <1>1, <2>1, <3>1 DEF Kept
  <2>2. QED  BY <2>1 DEF Gives
<1>4. call'[e].pc \in Loaded => Held(c, "data")' \in {Zero, Image}
  <2>1. CASE call[e].pc \in Loaded /\ "data" \notin W
    <3>1. pt[c]["data"] # Unmapped /\ Held(c, "data") \in {Zero, Image}
      BY <1>1, <2>1 DEF Made, Given, Perm
    <3>2. QED  BY <1>1, <2>1, <3>1 DEF Kept
  <2>2. QED  BY <2>1 DEF Gives
<1>5. call'[e].pc \in Forked /\ Copied(e, 4)' => Linked(e, c)'
  BY DEF Gives, Given
<1>6. call'[e].pc = "spawned" \/ (call'[e].pc = "next_shared" /\ call'[e].at > 3) => Linked(e, c)'
  BY DEF Gives, Given
<1>7. QED  BY <1>2, <1>3, <1>4, <1>5, <1>6 DEF Given

(* The pages of a program that takes no step.                               *)
LEMMA PagesKeptLemma ==
    ASSUME IInv, JInv, KInv, NEW x \in Envs, life[x] = "alive", Kept(x, {}),
           \A c \in Envs : c = Child(x) /\ Made(x, c) /\ call[x].pc \in Building =>
              Kept(c, {}) /\ (Linked(x, c) => Linked(x, c)'),
           call'[x] = call[x], fault'[x] = fault[x]
    PROVE  Pages(x)'
<1>1. Pages(x)
  BY DEF KInv
<1>2. FaultVa(x)' = FaultVa(x) /\ Child(x)' = Child(x)
  BY DEF FaultVa, Child
<1>3. fault[x].pc = "unmap" => Held(x, "pftemp")' = Held(x, FaultVa(x))'
  <2>1. SUFFICES ASSUME fault[x].pc = "unmap"  PROVE Held(x, "pftemp")' = Held(x, FaultVa(x))'
    OBVIOUS
  <2>2. PICK w : w = FaultVa(x)
    OBVIOUS
  <2>3. w \in Private /\ "COW" \in Perm(x, w) /\ Perm(x, "pftemp") = {"W"}
    BY <2>1, <2>2 DEF IInv, EnvInv, Sound, JInv, TempInv, HandlerTemp, FaultVa
  <2>4. /\ pt[x][w] # Unmapped /\ pt[x]["pftemp"] # Unmapped
        /\ w \in VA /\ w # "fd" /\ "pftemp" \in VA
    BY <2>3, VALemma DEF Unmapped, Perm, Private
  <2>5. Held(x, w)' = Held(x, w) /\ Held(x, "pftemp")' = Held(x, "pftemp")
    BY <2>4 DEF Kept
  <2>6. Held(x, "pftemp") = Held(x, w)
    BY <1>1, <2>1, <2>2 DEF Pages
  <2>7. Held(x, FaultVa(x))' = Held(x, w)'
    BY <1>2, <2>2 DEF Held
  <2>8. QED  BY <2>5, <2>6, <2>7
<1>4. call[x].pc \in {"args_map", "seg_map"} => Held(x, "utemp")' = Image
  <2>1. SUFFICES ASSUME call[x].pc \in {"args_map", "seg_map"}  PROVE Held(x, "utemp")' = Image
    OBVIOUS
  <2>2. Perm(x, "utemp") = {"W"} /\ Held(x, "utemp") = Image
    BY <1>1, <2>1 DEF JInv, TempInv, CallTemp, Filling, Pages
  <2>3. pt[x]["utemp"] # Unmapped /\ "utemp" \in VA
    BY <2>2, VALemma DEF Unmapped, Perm
  <2>4. QED  BY <2>2, <2>3 DEF Kept
<1>5. call[x].pc \in Building => Given(x, Child(x))'
  <2>1. SUFFICES ASSUME call[x].pc \in Building  PROVE Given(x, Child(x))'
    OBVIOUS
  <2>2. PICK c \in Envs : c = Child(x) /\ Made(x, c)
    BY <2>1 DEF IInv, EnvInv, Growing
  <2>3. Given(x, c)
    BY <1>1, <2>1, <2>2 DEF Pages
  <2>4. \A a \in Private : Reads(x, a)' = Reads(x, a)
    BY ReadsKeptLemma
  <2>5. Gives(x, c, {})
    <3>1. \A i \in 1 .. 5 : Copied(x, i)' <=> Copied(x, i)
      BY DEF Copied
    <3>2. QED  BY <3>1 DEF Gives
  <2>6. Given(x, c)'
    BY <2>1, <2>2, <2>3, <2>4, <2>5, GivenLemma
  <2>7. Given(x, Child(x))' <=> Given(x, c)'
    BY <1>2, <2>2 DEF Given, Linked, Shared, Held
  <2>8. QED  BY <2>6, <2>7
<1>6. call[x].pc = "dup_own" => (Va(x) # "fd")'
  BY <1>1 DEF Pages, Va
<1>7. QED  BY <1>1, <1>3, <1>4, <1>5, <1>6 DEF Pages

-----------------------------------------------------------------------------
\* Two programs have the same descriptor; what e has in its own.
SameObject(x, y) == pt[x]["fd"].frame = pt[y]["fd"].frame

\* No program sees a difference: neither in its object,
SameObjects ==
    /\ \A x \in Envs : Alive(x)' <=> Alive(x)
    /\ \A x \in Envs : Alive(x) => Held(x, "fd")' = Held(x, "fd")
    /\ \A x, y \in Envs : Alive(x) /\ Alive(y) => (SameObject(x, y)' <=> SameObject(x, y))
\* nor in its own memory.
Steady ==
    SameObjects /\ \A x \in Envs, a \in Private : Alive(x) => Reads(x, a)' = Reads(x, a)

LEMMA ObjectsLemma ==
    ASSUME SameObjects
    PROVE  /\ {x \in Envs : Alive(x)}' = {x \in Envs : Alive(x)}
           /\ [x \in Envs |-> Sharers(x)]' = [x \in Envs |-> Sharers(x)]
           /\ [x \in Envs |-> IF Alive(x) THEN content[pt[x]["fd"].frame] ELSE Zero]' =
              [x \in Envs |-> IF Alive(x) THEN content[pt[x]["fd"].frame] ELSE Zero]
<1>1. {x \in Envs : Alive(x)}' = {x \in Envs : Alive(x)}
  BY DEF SameObjects, Alive
<1>2. [x \in Envs |-> Sharers(x)]' = [x \in Envs |-> Sharers(x)]
  <2>1. ASSUME NEW x \in Envs, NEW y \in Envs
        PROVE  (Alive(y) /\ Alive(x) /\ pt[y]["fd"].frame = pt[x]["fd"].frame)'
                 <=> (Alive(y) /\ Alive(x) /\ pt[y]["fd"].frame = pt[x]["fd"].frame)
    BY DEF SameObjects, SameObject
  <2>2. ASSUME NEW x \in Envs  PROVE Sharers(x)' = Sharers(x)
    BY <2>1 DEF Sharers, Alive
  <2>3. QED  BY <2>2
<1>3. [x \in Envs |-> IF Alive(x) THEN content[pt[x]["fd"].frame] ELSE Zero]' =
      [x \in Envs |-> IF Alive(x) THEN content[pt[x]["fd"].frame] ELSE Zero]
  <2>1. \A x \in Envs : /\ Alive(x)' <=> Alive(x)
                        /\ Alive(x) => content'[pt'[x]["fd"].frame] = content[pt[x]["fd"].frame]
    BY DEF SameObjects, Held
  <2>2. QED  BY <2>1 DEF Alive
<1>4. QED  BY <1>1, <1>2, <1>3

LEMMA StutterLemma ==
    ASSUME Steady PROVE UNCHANGED M!mvars
<1>1. [x \in Envs |-> [a \in Private |-> IF Alive(x) THEN Reads(x, a) ELSE Zero]]' =
      [x \in Envs |-> [a \in Private |-> IF Alive(x) THEN Reads(x, a) ELSE Zero]]
  <2> DEFINE A(x) == Alive(x)  R(x, a) == Reads(x, a)
  <2>1. \A x \in Envs, a \in Private : (A(x)' <=> A(x)) /\ (A(x) => R(x, a)' = R(x, a))
    BY DEF Steady, SameObjects
  <2> HIDE DEF A, R
  <2>2. [x \in Envs |-> [a \in Private |-> IF A(x) THEN R(x, a) ELSE Zero]]' =
        [x \in Envs |-> [a \in Private |-> IF A(x) THEN R(x, a) ELSE Zero]]
    BY <2>1
  <2>3. QED  BY <2>2 DEF A, R
<1>2. QED  BY <1>1, ObjectsLemma DEF M!mvars, Steady

(* A changed entry, of a program or of its child, is seen by nobody unless  *)
(* the program itself sees it.                                              *)
LEMMA KeptLemma ==
    ASSUME NEW d \in Envs, NEW w \in VA, OneEntry(d, w)
    PROVE  /\ Kept(d, {w}) /\ \A y \in Envs \ {d} : Kept(y, {})
           /\ \A y, x \in Envs : (y = d \/ x = d => w # "fd") => (Linked(x, y)' <=> Linked(x, y))
  BY VALemma DEF OneEntry, Kept, Linked

LEMMA EntryObjectsLemma ==
    ASSUME IInv, JInv, KInv, NEW d \in Envs, NEW w \in VA, OneEntry(d, w),
           life[d] = "alive" => w # "fd",
           \A x \in Envs : (life'[x] = "alive" <=> life[x] = "alive"),
           \A x \in Envs \ {d} : fault'[x] = fault[x]
    PROVE  /\ SameObjects
           /\ \A x \in Envs \ {d}, a \in Private : Alive(x) => Reads(x, a)' = Reads(x, a)
<1>1. \A x \in Envs : Alive(x)' <=> Alive(x)
  BY DEF Alive
<1>2. ASSUME NEW x \in Envs \ {d}, NEW a \in Private, Alive(x)  PROVE Reads(x, a)' = Reads(x, a)
  <2>1. Kept(x, {})
    BY KeptLemma
  <2>2. QED  BY <1>2, <2>1, ReadsKeptLemma DEF Alive
<1>3. "fd" \in VA /\ Unmapped.perm = {}
  BY VALemma DEF Unmapped
<1>4. ASSUME NEW x \in Envs, Alive(x)
      PROVE  /\ pt[x]["fd"] # Unmapped /\ pt[x]["fd"].frame # NoFrame
             /\ pt'[x]["fd"] # Unmapped /\ pt'[x]["fd"].frame # NoFrame
             /\ ~ (x = d /\ "fd" = w)
             /\ Held(x, "fd")' = Held(x, "fd")
  <2>1. Perm(x, "fd") = {"W", "SHARE"} /\ ~ (x = d /\ "fd" = w)
    BY <1>4 DEF KInv, PermInv, Alive
  <2>2. pt[x]["fd"] # Unmapped
    BY <1>3, <2>1 DEF Perm
  <2>3. pt'[x]["fd"] # Unmapped
    BY <1>3, <2>1, <2>2 DEF OneEntry
  <2>4. Framed /\ Framed'
    BY DEF JInv, OneEntry
  <2>5. pt[x]["fd"].frame # NoFrame /\ pt'[x]["fd"].frame # NoFrame
    BY <1>3, <2>2, <2>3, <2>4 DEF Framed
  <2>6. Held(x, "fd")' = Held(x, "fd")
    BY <1>3, <2>1, <2>2 DEF OneEntry
  <2>7. QED  BY <2>1, <2>2, <2>3, <2>5, <2>6
<1>5. ASSUME NEW x \in Envs, NEW y \in Envs, Alive(x), Alive(y)
      PROVE  SameObject(x, y)' <=> SameObject(x, y)
  <2>1. Shared(x, "fd", y, "fd")' <=> Shared(x, "fd", y, "fd")
    BY <1>3, <1>4, <1>5 DEF OneEntry
  <2>2. SameObject(x, y) <=> Shared(x, "fd", y, "fd")
    BY <1>4, <1>5 DEF SameObject, Shared
  <2>3. SameObject(x, y)' <=> Shared(x, "fd", y, "fd")'
    BY <1>4, <1>5 DEF SameObject, Shared
  <2>4. QED  BY <2>1, <2>2, <2>3
<1>6. QED  BY <1>1, <1>2, <1>4, <1>5 DEF SameObjects

LEMMA EntrySteadyLemma ==
    ASSUME IInv, JInv, KInv, NEW d \in Envs, NEW w \in VA, OneEntry(d, w),
           life[d] = "alive" => w # "fd" /\ \A a \in Private : Reads(d, a)' = Reads(d, a),
           \A x \in Envs : (life'[x] = "alive" <=> life[x] = "alive"),
           \A x \in Envs \ {d} : fault'[x] = fault[x]
    PROVE  Steady
  BY EntryObjectsLemma DEF Steady, Alive

(* The permissions of the entry that changes.                               *)
LEMMA PermLemma ==
    ASSUME KInv, NEW d \in Envs, NEW w \in VA, OneEntry(d, w), life'[d] = life[d],
           "SHARE" \in Perm(d, w)' => w = "fd", w = "fd" => Perm(d, w)' = {"W", "SHARE"}
    PROVE  PermInv(d)'
<1>1. PermInv(d) /\ "fd" \in VA
  BY VALemma DEF KInv
<1>2. \A a \in VA : a # w =>
        Perm(d, a)' = Perm(d, a) /\ (pt'[d][a] = Unmapped <=> pt[d][a] = Unmapped)
  BY DEF OneEntry
<1>3. QED  BY <1>1, <1>2 DEF PermInv

(* The other programs know of no change.                                    *)
LEMMA EntryKLemma ==
    ASSUME IInv, JInv, KInv, NEW e \in Envs, life[e] = "alive",
           NEW d \in Envs, d = e \/ (call[e].pc \in Building /\ d = Child(e)),
           NEW w \in VA, OneEntry(d, w), PermInv(d)',
           life' = life, \A x \in Envs \ {e} : call'[x] = call[x] /\ fault'[x] = fault[x],
           Pages(e)'
    PROVE  KInv'
<1>1. ASSUME NEW x \in Envs \ {d}  PROVE PermInv(x)'
  <2>1. \A a \in VA : Perm(x, a)' = Perm(x, a) /\ (pt'[x][a] = Unmapped <=> pt[x][a] = Unmapped)
    BY DEF OneEntry
  <2>2. QED  BY <2>1, VALemma DEF KInv, PermInv
<1>2. d # e => life[d] = "embryo"
  BY DEF IInv, EnvInv, Growing, Made
<1>3. ASSUME NEW x \in Envs \ {e}, life[x] = "alive"  PROVE Pages(x)'
  <2>1. x # d /\ Kept(x, {})
    BY <1>2, <1>3, KeptLemma
  <2>2. ASSUME NEW c \in Envs, c = Child(x), Made(x, c), call[x].pc \in Building
        PROVE  Kept(c, {}) /\ (Linked(x, c) => Linked(x, c)')
    <3>1. c # d
      <4>1. CASE d = e
        BY <2>2, <4>1 DEF Made
      <4>2. CASE d # e
        BY <1>2, <2>2, <4>2 DEF Made
      <4>3. QED  BY <4>1, <4>2
    <3>2. QED  BY <2>1, <3>1, KeptLemma
  <2>3. QED  BY <1>3, <2>1, <2>2, PagesKeptLemma
<1>4. QED  BY <1>1, <1>2, <1>3 DEF KInv

(* So it is with a step that changes no memory.                             *)
LEMMA QuietPagesLemma ==
    ASSUME KInv, NEW x \in Envs, UNCHANGED <<pt, content>>, life[x] = "alive",
           call'[x] = call[x], fault'[x] = fault[x] \/ (fault[x].pc = "none" /\ fault'[x].pc = "alloc")
    PROVE  Pages(x)'
<1>1. Pages(x)
  BY DEF KInv
<1>2. Child(x)' = Child(x) /\ Va(x)' = Va(x) /\ (fault'[x].pc = "unmap" => FaultVa(x)' = FaultVa(x))
  BY DEF FaultVa, Child, Va
<1>3. \A y, a : Held(y, a)' = Held(y, a)
  BY DEF Held
<1>4. \A i : Copied(x, i)' <=> Copied(x, i)
  BY DEF Copied
<1>5. \A a : Reads(x, a)' = Reads(x, a)
  BY DEF Reads, FaultVa
<1>6. ASSUME NEW c  PROVE Given(x, c)' <=> Given(x, c)
  <2>1. Linked(x, c)' <=> Linked(x, c)
    BY DEF Linked, Shared
  <2>2. QED  BY <1>3, <1>4, <1>5, <2>1 DEF Given
<1>7. PICK c, v : c = Child(x) /\ v = FaultVa(x)
  OBVIOUS
<1>8. /\ Given(x, Child(x))' <=> Given(x, c)'
      /\ fault'[x].pc = "unmap" => Held(x, FaultVa(x))' = Held(x, v)' /\ fault[x].pc = "unmap"
  BY <1>2, <1>7 DEF Given, Linked, Shared, Held
<1>9. QED  BY <1>1, <1>2, <1>3, <1>6, <1>7, <1>8 DEF Pages

LEMMA QuietKLemma ==
    ASSUME KInv, NEW e \in Envs, UNCHANGED <<pt, content>>,
           \A x \in Envs : life'[x] = "alive" => life[x] = "alive",
           \A x \in Envs \ {e} : call'[x] = call[x] /\ fault'[x] = fault[x],
           life'[e] = "alive" => Pages(e)'
    PROVE  KInv'
<1>1. \A x \in Envs : PermInv(x)'
  BY DEF KInv, PermInv, Perm
<1>2. \A x \in Envs \ {e} : life'[x] = "alive" => Pages(x)'
  BY QuietPagesLemma
<1>3. QED  BY <1>1, <1>2 DEF KInv

LEMMA QuietSteadyLemma ==
    ASSUME UNCHANGED <<pt, content>>, \A x \in Envs : (life'[x] = "alive" <=> life[x] = "alive"),
           \A x \in Envs : fault'[x] = fault[x] \/ (fault[x].pc # "map" /\ fault'[x].pc # "map")
    PROVE  Steady
<1>1. \A x \in Envs, a \in Private : Reads(x, a)' = Reads(x, a)
  BY DEF Reads, FaultVa
<1>2. QED  BY <1>1 DEF Steady, SameObjects, Held, SameObject, Alive

(* What a step of fork or spawn has to show of its own pages.               *)
LEMMA OwnPagesLemma ==
    ASSUME NEW e \in Envs, fault'[e].pc = "none", NEW c \in Envs, c = Child(e), Made(e, c),
           KInv, life[e] = "alive", call[e].pc \in Building, call'[e].child = call[e].child,
           NEW W, Kept(c, W), \A a \in Private : Reads(e, a)' = Reads(e, a),
           "fd" \notin W /\ Linked(e, c) => Linked(e, c)', Gives(e, c, W),
           call'[e].pc \in {"args_map", "seg_map"} => Held(e, "utemp")' = Image,
           call'[e].pc \in Early => call'[e].at = 0,
           call'[e].pc = "dup_own" => (Va(e) # "fd")'
    PROVE  Pages(e)'
<1>1. Given(e, c)
  BY DEF KInv, Pages
<1>2. Given(e, c)'
  BY <1>1, GivenLemma
<1>3. Given(e, Child(e))' <=> Given(e, c)'
  BY DEF Child, Given, Linked, Shared, Held
<1>4. QED  BY <1>2, <1>3 DEF Pages

(* Nothing, once it is over.                                                *)
LEMMA NoPagesLemma ==
    ASSUME NEW e \in Envs, fault'[e].pc = "none", call'[e].pc \notin Building PROVE Pages(e)'
  BY DEF Pages, Building, Forked, Stacked, Early

-----------------------------------------------------------------------------
(* The steps of fork and spawn before the child runs: nobody sees them.     *)

\* The pages of the program itself, where it goes on.
OwnPages(e) ==
    /\ call'[e].pc \in {"args_map", "seg_map"} => Held(e, "utemp")' = Image
    /\ call'[e].pc \in Early => call'[e].at = 0
    /\ call'[e].pc = "dup_own" => (Va(e) # "fd")'

(* Out of its handler a program reads its memory where it is.               *)
LEMMA ReadsAtLemma ==
    ASSUME IInv, JInv, NEW e \in Envs, life[e] = "alive", fault[e].pc = "none", fault'[e] = fault[e],
           NEW W, Kept(e, W), \A a \in Private \cap W : Held(e, a)' = Held(e, a)
    PROVE  \A a \in Private : Reads(e, a) = Held(e, a) /\ Reads(e, a)' = Reads(e, a)
<1>1. \A a : Reads(e, a) = Held(e, a) /\ Reads(e, a)' = Held(e, a)'
  BY DEF Reads, Held
<1>2. ASSUME NEW a \in Private, a \notin W  PROVE Reads(e, a)' = Reads(e, a)
  <2>1. Where(e, a) = a
    BY DEF Where
  <2>2. QED  BY <1>2, <2>1, ReadsKeptLemma
<1>3. QED  BY <1>1, <1>2

(* A step that changes one entry,                                           *)
LEMMA BuildStepLemma ==
    ASSUME IInv, JInv, KInv, NEW e \in Envs, NEW l, At(e, l), l \in Building,
           NEW c \in Envs, c = Child(e), Made(e, c), NEW d \in {e, c}, NEW w \in VA,
           OneEntry(d, w),
           d = e => w # "fd" /\ (w \in Private => Held(e, w)' = Held(e, w)),
           "SHARE" \in Perm(d, w)' => w = "fd", w = "fd" => Perm(d, w)' = {"W", "SHARE"},
           UNCHANGED <<life, fault>>, \A x \in Envs \ {e} : call'[x] = call[x],
           call'[e].child = call[e].child, OwnPages(e),
           Gives(e, c, IF d = c THEN {w} ELSE {})
    PROVE  KInv' /\ Steady
<1>1. life[e] = "alive" /\ fault[e].pc = "none" /\ call[e].pc = l
  BY AtJLemma
<1>2. c # e /\ life[c] = "embryo" /\ d \in Envs
  BY <1>1 DEF Made
<1>3. PICK W : W = IF d = c THEN {w} ELSE {}
  OBVIOUS
<1>4. Kept(c, W)
  BY <1>2, <1>3, KeptLemma
<1>5. \A a \in Private : Reads(e, a)' = Reads(e, a)
  <2>1. CASE d = e
    BY <1>1, <2>1, KeptLemma, ReadsAtLemma, SMTT(30)
  <2>2. CASE d = c
    <3>1. Kept(e, {})
      BY <1>2, <2>2, KeptLemma
    <3>2. QED  BY <1>1, <3>1, ReadsAtLemma
  <2>3. QED  BY <2>1, <2>2
<1>6. "fd" \notin W /\ Linked(e, c) => Linked(e, c)'
  BY <1>2, <1>3, KeptLemma
<1>7. Pages(e)'
  BY <1>1, <1>3, <1>4, <1>5, <1>6, OwnPagesLemma DEF OwnPages
<1>8. PermInv(d)'
  BY <1>2, PermLemma
<1>9. KInv'
  BY <1>1, <1>2, <1>7, <1>8, EntryKLemma
<1>10. Steady
  BY <1>1, <1>2, <1>5, EntrySteadyLemma
<1>11. QED  BY <1>9, <1>10

(* or none;                                                                 *)
LEMMA BuildOnLemma ==
    ASSUME IInv, JInv, KInv, NEW e \in Envs, NEW l, At(e, l), l \in Building,
           NEW c \in Envs, c = Child(e), Made(e, c),
           UNCHANGED <<pt, content, life, fault>>, \A x \in Envs \ {e} : call'[x] = call[x],
           call'[e].child = call[e].child, OwnPages(e), Gives(e, c, {})
    PROVE  KInv' /\ Steady
<1>1. life[e] = "alive" /\ fault[e].pc = "none" /\ call[e].pc = l
  BY AtJLemma
<1>2. Kept(c, {}) /\ (Linked(e, c) => Linked(e, c)')
  BY DEF Kept, Held, Linked, Shared
<1>3. \A a \in Private : Reads(e, a)' = Reads(e, a)
  BY DEF Reads, FaultVa
<1>4. Pages(e)'
  BY <1>1, <1>2, <1>3, OwnPagesLemma DEF OwnPages
<1>5. QED  BY <1>4, QuietKLemma, QuietSteadyLemma

(* the same before there is a child, and after an error.                    *)
LEMMA EntryOnLemma ==
    ASSUME IInv, JInv, KInv, NEW e \in Envs, NEW l, At(e, l),
           NEW w \in {"utemp", "xstack"}, OneEntry(e, w), "SHARE" \notin Perm(e, w)',
           UNCHANGED <<life, fault>>, \A x \in Envs \ {e} : call'[x] = call[x],
           call'[e].pc \notin Building
    PROVE  KInv' /\ Steady
<1>1. life[e] = "alive" /\ fault[e].pc = "none" /\ call[e].pc = l
  BY AtJLemma
<1>2. w \in VA /\ w # "fd" /\ w \notin Private
  BY VALemma DEF Private
<1>3. \A a \in Private : Reads(e, a)' = Reads(e, a)
  BY <1>1, <1>2, KeptLemma, ReadsAtLemma
<1>4. PermInv(e)'
  BY <1>2, PermLemma
<1>5. Pages(e)'
  BY <1>1, NoPagesLemma
<1>6. KInv'
  BY <1>1, <1>2, <1>4, <1>5, EntryKLemma
<1>7. Steady
  BY <1>1, <1>2, <1>3, EntrySteadyLemma
<1>8. QED  BY <1>6, <1>7

LEMMA OnLemma ==
    ASSUME IInv, JInv, KInv, NEW e \in Envs, NEW l, At(e, l),
           UNCHANGED <<pt, content, fault>>, \A x \in Envs : (life'[x] = "alive" <=> life[x] = "alive"),
           \A x \in Envs \ {e} : call'[x] = call[x],
           call'[e].pc \notin Building \/ Pages(e)'
    PROVE  KInv' /\ Steady
<1>1. life[e] = "alive" /\ fault[e].pc = "none" /\ call[e].pc = l
  BY AtJLemma
<1>2. Pages(e)'
  BY <1>1, NoPagesLemma
<1>3. QED  BY <1>2, QuietKLemma, QuietSteadyLemma

(* The loop of fork passes over nothing the child needs,                    *)
LEMMA NextPageKLemma ==
    ASSUME IInv, JInv, KInv, NEW e \in Envs, NextPage(e) PROVE KInv' /\ Steady
<1> DEFINE T == {i \in call[e].at + 1 .. Below : pt[e][Order[i]] # Unmapped} \cup {Below + 1}
<1>1. /\ At(e, "next_page") /\ life[e] = "alive" /\ fault[e].pc = "none"
      /\ call[e].pc = "next_page" /\ Sound(e)
      /\ "next_page" \in Building /\ "next_page" \in Forked
  BY AtJLemma DEF NextPage, Building, Forked
<1>2. PICK c \in Envs \ {e} : c = Child(e) /\ Made(e, c)
  BY <1>1, AtJLemma
<1>3. PICK n : n = NextAt(e, LAMBDA entry : entry # Unmapped)
  OBVIOUS
<1>4. call[e].at \in 0 .. 5
  BY DEF IInv, TypeInv, Calls
<1>5. n \in 1 .. 6 /\ \A i \in 1 .. 5 : i < n /\ pt[e][Order[i]] # Unmapped => i <= call[e].at
  <2>1. T \subseteq 1 .. 6 /\ 6 \in T
    BY <1>4, VALemma
  <2>2. n = Min(T)
    BY <1>3 DEF NextAt
  <2>3. n \in T /\ \A i \in T : n <= i
    BY <2>1, <2>2, MinLemma
  <2>4. ASSUME NEW i \in 1 .. 5, i < n, pt[e][Order[i]] # Unmapped  PROVE i <= call[e].at
    <3>1. SUFFICES ASSUME i > call[e].at  PROVE FALSE
      BY <1>4
    <3>2. i \in T
      BY <1>4, <2>4, <3>1, VALemma
    <3>3. QED  BY <2>1, <2>3, <2>4, <3>2
  <2>5. QED  BY <2>1, <2>3, <2>4
<1>6. \A i \in 1 .. 5 : Order[i] \in Private \/ i = 4 => pt[e][Order[i]] # Unmapped
  <2>1. \A a \in Private : "W" \in Perm(e, a) \/ "COW" \in Perm(e, a)
    BY <1>1 DEF Sound
  <2>2. Perm(e, "fd") = {"W", "SHARE"} /\ Order[4] = "fd"
    BY <1>1 DEF KInv, PermInv, Order
  <2>3. Unmapped.perm = {}
    BY DEF Unmapped
  <2>4. QED  BY <2>1, <2>2, <2>3 DEF Perm
<1>7. \A i \in 1 .. 5 : (Order[i] \in Private \/ i = 4) /\ i < n => Copied(e, i)
  BY <1>1, <1>4, <1>5, <1>6 DEF Copied
<1>8. /\ n <= 5 => call' = [call EXCEPT ![e] = [pc |-> "dup_child", child |-> Child(e), at |-> n,
                                               perm |-> DupPerm(pt[e][Order[n]])]]
      /\ n > 5 => Goto(e, "child_xstack")
      /\ UNCHANGED <<memVars, life, fault>>
  BY <1>3, <1>5, VALemma DEF NextPage
<1>9. /\ \A x \in Envs \ {e} : call'[x] = call[x]
      /\ call'[e].child = call[e].child
      /\ call'[e].pc \in {"dup_child", "child_xstack"}
      /\ call'[e].pc = "dup_child" => call'[e].at = n
      /\ call'[e].pc = "child_xstack" => n = 6
  <2>1. CASE n <= 5
    <3>1. PICK q : q = DupPerm(pt[e][Order[n]])
      OBVIOUS
    <3>2. \A x \in Envs : call'[x] = IF x = e THEN [pc |-> "dup_child", child |-> Child(e), at |-> n,
                                                   perm |-> q] ELSE call[x]
      BY <1>8, <2>1, <3>1 DEF IInv, TypeInv, Calls
    <3>3. QED  BY <3>2 DEF Child
  <2>2. CASE n > 5
    BY <1>5, <1>8, <2>2, GotoLemma DEF IInv
  <2>3. QED  BY <1>5, <2>1, <2>2
<1>10. \A i \in 1 .. 5 : Copied(e, i)' => i < n
  BY <1>5, <1>9 DEF Copied
<1>11. Gives(e, c, {})
  <2>1. call'[e].pc \notin Stacked /\ call'[e].pc \notin Loaded /\ call'[e].pc \in Forked
    BY <1>9 DEF Stacked, Loaded, Forked
  <2>2. QED  BY <1>1, <1>7, <1>9, <1>10, <2>1 DEF Gives
<1>12. OwnPages(e)
  BY <1>9 DEF OwnPages, Early
<1>13. UNCHANGED <<pt, content, life, fault>>
  BY <1>8 DEF memVars
<1>14. QED
  BY <1>1, <1>2, <1>9, <1>11, <1>12, <1>13, BuildOnLemma

(* duppage gives the child the page the parent reads,                       *)
LEMMA DupChildKLemma ==
    ASSUME IInv, JInv, KInv, NEW e \in Envs, DupChild(e), ~ Panic(e) PROVE KInv' /\ Steady
<1>1. /\ At(e, "dup_child") /\ life[e] = "alive" /\ fault[e].pc = "none"
      /\ call[e].pc = "dup_child" /\ Sound(e) /\ Framed /\ CallTemp(e)
      /\ "dup_child" \in Building /\ "dup_child" \in Forked
  BY AtJLemma DEF DupChild, Building, Forked
<1>2. PICK c \in Envs \ {e} : c = Child(e) /\ Made(e, c)
  BY <1>1, AtJLemma
<1>3. /\ SysPageMap(e, e, Va(e), Child(e), Va(e), call[e].perm)
      /\ Goto(e, IF "COW" \in call[e].perm THEN "dup_own" ELSE "next_page")
      /\ UNCHANGED <<life, upcall, handler, fault>>
  BY DEF DupChild
<1>4. PICK w \in VA, q \in SUBSET Perms, n \in 1 .. 5 :
        /\ w = Va(e) /\ q = call[e].perm /\ n = call[e].at /\ w = Order[n] /\ w # "pftemp"
        /\ w \notin Private => q = DupPerm(pt[e][w])
        /\ w \in Private => q = {"COW"}
  <2>1. Va(e) \in VA /\ (Va(e) \in Private => call[e].perm = {"COW"}) /\ call[e].at \in 1 .. 5
    BY <1>1, <1>2, VALemma DEF Made, Va
  <2>2. QED  BY <1>1, <2>1 DEF CallTemp, Va
<1>5. /\ OneEntry(c, w) /\ Perm(c, w)' = q
      /\ \A y \in Envs, b \in VA : ~ (y = c /\ b = w) => (Shared(c, w, y, b)' <=> Shared(e, w, y, b))
      /\ Held(c, w)' = Held(e, w) /\ pt[e][w] # Unmapped
  <2>1. SysPageMap(e, e, w, c, w, q) /\ Framed /\ c \in Envs
    BY <1>1, <1>2, <1>3, <1>4
  <2>2. pt[e][w] # Unmapped
    BY <2>1 DEF SysPageMap
  <2>3. QED  BY ONLY <2>1, <2>2, e \in Envs, w \in VA, q \in SUBSET Perms, MapFramesLemma
<1>6. /\ \A x \in Envs \ {e} : call'[x] = call[x]
      /\ call'[e].pc = (IF "COW" \in q THEN "dup_own" ELSE "next_page")
      /\ call'[e].child = call[e].child /\ call'[e].at = n /\ call'[e].perm = q
  BY <1>3, <1>4, GotoLemma DEF IInv
<1>7. Perm(e, "fd") = {"W", "SHARE"} /\ Order[4] = "fd" /\ \A a \in VA : "SHARE" \in Perm(e, a) => a = "fd"
  BY <1>1 DEF KInv, PermInv, Order
<1>8. /\ "SHARE" \in q => w = "fd"
      /\ w = "fd" => q = {"W", "SHARE"} /\ "COW" \notin q
  <2>1. "SHARE" \in DupPerm(pt[e][w]) => "SHARE" \in Perm(e, w)
    BY DEF DupPerm, Perm
  <2>2. w = "fd" => DupPerm(pt[e][w]) = {"W", "SHARE"}
    BY <1>7 DEF DupPerm, Perm
  <2>3. QED  BY <1>4, <1>7, <2>1, <2>2 DEF Private
<1>9. OwnPages(e)
  <2>1. Va(e)' = w
    BY <1>4, <1>6 DEF Va
  <2>2. QED  BY <1>6, <1>8, <2>1 DEF OwnPages, Early
<1>10. Gives(e, c, {w})
  <2>1. call'[e].pc \notin Stacked /\ call'[e].pc \notin Loaded /\ call'[e].pc \in Forked
        /\ call'[e].pc \in {"dup_own", "next_page"}
    BY <1>6 DEF Stacked, Loaded, Forked
  <2>2. \A i \in 1 .. 5 : Copied(e, i)' => i <= n
    BY <1>6, <2>1 DEF Copied
  <2>3. ASSUME NEW i \in 1 .. 5, i < n  PROVE Copied(e, i) /\ Order[i] # w
    <3>1. Order[i] # Order[n]
      BY <2>3 DEF Order
    <3>2. QED  BY <1>4, <2>3, <3>1 DEF Copied
  <2>4. w \in Private => Held(c, w)' = Reads(e, w)
    BY <1>1, <1>5 DEF Reads, Held
  <2>5. w = "fd" => Linked(e, c)'
    <3>1. pt[e][w].frame # NoFrame
      BY <1>1, <1>5 DEF Framed
    <3>2. Shared(e, w, e, w)
      BY <3>1 DEF Shared
    <3>3. QED  BY <1>2, <1>5, <3>2 DEF Linked
  <2>6. ASSUME NEW i \in 1 .. 5, Order[i] \in Private, Copied(e, i)'
        PROVE  (call[e].pc \in Forked /\ Copied(e, i) /\ Order[i] \notin {w})
               \/ Held(c, Order[i])' = Reads(e, Order[i])
    <3>1. CASE i < n
      BY <1>1, <2>3, <3>1
    <3>2. CASE i = n
      BY <1>4, <2>4, <2>6, <3>2
    <3>3. QED  BY <2>2, <2>6, <3>1, <3>2
  <2>7. ASSUME Copied(e, 4)'
        PROVE  (call[e].pc \in Forked /\ Copied(e, 4) /\ "fd" \notin {w}) \/ Linked(e, c)'
    <3>1. CASE 4 < n
      BY <1>1, <1>7, <2>3, <3>1
    <3>2. CASE 4 = n
      BY <1>4, <1>7, <2>5, <3>2
    <3>3. QED  BY <2>2, <2>7, <3>1, <3>2
  <2>8. QED  BY <2>1, <2>6, <2>7 DEF Gives
<1>11. UNCHANGED <<life, fault>>
  BY <1>3
<1>12. QED
  BY <1>1, <1>2, <1>5, <1>6, <1>8, <1>9, <1>10, <1>11, BuildStepLemma

(* and the parent takes it again.                                           *)
LEMMA DupOwnKLemma ==
    ASSUME IInv, JInv, KInv, NEW e \in Envs, DupOwn(e) PROVE KInv' /\ Steady
<1>1. /\ At(e, "dup_own") /\ life[e] = "alive" /\ fault[e].pc = "none"
      /\ call[e].pc = "dup_own" /\ Sound(e) /\ Framed /\ CallTemp(e)
      /\ "dup_own" \in Building /\ "dup_own" \in Forked
  BY AtJLemma DEF DupOwn, Building, Forked
<1>2. PICK c \in Envs \ {e} : c = Child(e) /\ Made(e, c)
  BY <1>1, AtJLemma
<1>3. PICK w \in VA, q \in SUBSET Perms :
        /\ w = Va(e) /\ q = call[e].perm /\ w # "fd"
        /\ w \notin Private => q = DupPerm(pt[e][w])
        /\ w \in Private => q = {"COW"}
  <2>1. Va(e) \in VA /\ (Va(e) \in Private => call[e].perm = {"COW"})
    BY <1>1, <1>2, VALemma DEF Made, Va
  <2>2. Va(e) # "fd"
    BY <1>1 DEF KInv, Pages
  <2>3. QED  BY <1>1, <2>1, <2>2 DEF CallTemp
<1>4. OneEntry(e, w) /\ Perm(e, w)' = q /\ Held(e, w)' = Held(e, w)
  <2>1. SysPageMap(e, e, w, e, w, q) /\ Framed
    BY <1>1, <1>3 DEF DupOwn
  <2>2. QED  BY ONLY <2>1, e \in Envs, w \in VA, q \in SUBSET Perms, MapFramesLemma
<1>5. /\ \A x \in Envs \ {e} : call'[x] = call[x]
      /\ call'[e].pc = "next_page" /\ call'[e].child = call[e].child /\ call'[e].at = call[e].at
  BY GotoLemma DEF IInv, DupOwn
<1>6. "SHARE" \notin q
  <2>1. "SHARE" \in DupPerm(pt[e][w]) => "SHARE" \in Perm(e, w)
    BY DEF DupPerm, Perm
  <2>2. QED  BY <1>3, <2>1 DEF KInv, PermInv
<1>7. OwnPages(e)
  BY <1>5 DEF OwnPages, Early
<1>8. Gives(e, c, {})
  <2>1. call'[e].pc \notin Stacked /\ call'[e].pc \notin Loaded
    BY <1>5 DEF Stacked, Loaded
  <2>2. \A i : Copied(e, i)' => Copied(e, i)
    BY <1>1, <1>5 DEF Copied
  <2>3. QED  BY <1>1, <1>5, <2>1, <2>2 DEF Gives
<1>9. UNCHANGED <<life, fault>>
  BY DEF DupOwn
<1>10. QED
  BY <1>1, <1>2, <1>3, <1>4, <1>5, <1>6, <1>7, <1>8, <1>9, BuildStepLemma

(* A new page reads as zeros.                                               *)
LEMMA FreshFramesLemma ==
    ASSUME JInv, NEW e \in Envs, NEW d \in Envs, NEW w \in VA, SysPageAlloc(e, d, w, {"W"})
    PROVE  OneEntry(d, w) /\ Perm(d, w)' = {"W"} /\ Held(d, w)' = Zero
<1>1. PICK q \in SUBSET Perms : q = {"W"}
  BY DEF Perms
<1>2. SysPageAlloc(e, d, w, q) /\ Framed
  BY <1>1 DEF JInv
<1>3. OneEntry(d, w) /\ Perm(d, w)' = q /\ Held(d, w)' = Zero
  BY ONLY <1>2, e \in Envs, d \in Envs, w \in VA, q \in SUBSET Perms, AllocFramesLemma
<1>4. QED  BY <1>1, <1>3

(* An exception stack or a page of bss for the child;                       *)
LEMMA ChildFreshKLemma ==
    ASSUME IInv, JInv, KInv, NEW e \in Envs, NEW l, At(e, l), NEW m, Goto(e, m),
           NEW w, SysPageAlloc(e, Child(e), w, {"W"}), UNCHANGED <<life, fault>>,
           \/ l = "child_xstack" /\ m = "child_upcall" /\ w = "xstack"
           \/ l = "segment" /\ m = "next_shared" /\ w = "data"
    PROVE  KInv' /\ Steady
<1>1. l \in Building /\ life[e] = "alive" /\ fault[e].pc = "none" /\ call[e].pc = l
  BY AtJLemma DEF Building, Forked, Stacked
<1>2. PICK c \in Envs \ {e} : c = Child(e) /\ Made(e, c)
  BY <1>1, AtJLemma
<1>3. w \in VA /\ w # "fd" /\ w # "stack"
  BY VALemma
<1>4. OneEntry(c, w) /\ Perm(c, w)' = {"W"} /\ Held(c, w)' = Zero
  BY <1>2, <1>3, FreshFramesLemma
<1>5. /\ \A x \in Envs \ {e} : call'[x] = call[x]
      /\ call'[e].pc = m /\ call'[e].child = call[e].child /\ call'[e].at = call[e].at
  BY GotoLemma DEF IInv
<1>6. OwnPages(e)
  BY <1>5 DEF OwnPages, Early
<1>7. Gives(e, c, {w})
  <2>1. CASE l = "child_xstack"
    <3>1. w \notin Private /\ call[e].pc \in Forked
          /\ call'[e].pc \notin Stacked /\ call'[e].pc \notin Loaded
      BY <1>1, <1>5, <2>1 DEF Private, Forked, Stacked, Loaded
    <3>2. \A i : Copied(e, i)
      BY <1>1, <2>1 DEF Copied
    <3>3. QED  BY <1>3, <1>5, <2>1, <3>1, <3>2 DEF Gives
  <2>2. CASE l = "segment"
    <3>1. call[e].at = 0
      BY <1>1, <2>2 DEF KInv, Pages, Early
    <3>2. call'[e].pc \notin Forked /\ call[e].pc \in Stacked
      BY <1>1, <1>5, <2>2 DEF Forked, Stacked
    <3>3. QED  BY <1>3, <1>4, <1>5, <2>2, <3>1, <3>2 DEF Gives
  <2>3. QED  BY <2>1, <2>2
<1>8. QED
  BY <1>1, <1>2, <1>3, <1>4, <1>5, <1>6, <1>7, BuildStepLemma

(* a page at UTEMP,                                                         *)
LEMMA TempAllocKLemma ==
    ASSUME IInv, JInv, KInv, NEW e \in Envs, NEW l, At(e, l), NEW m, TempAlloc(e, m),
           UNCHANGED <<life, fault>>,
           (l = "args" /\ m = "args_fill") \/ (l = "segment" /\ m = "read")
    PROVE  KInv' /\ Steady
<1>1. l \in Building /\ life[e] = "alive" /\ fault[e].pc = "none" /\ call[e].pc = l
  BY AtJLemma DEF Building, Stacked
<1>2. PICK c \in Envs \ {e} : c = Child(e) /\ Made(e, c)
  BY <1>1, AtJLemma
<1>3. PICK w \in VA : w = "utemp" /\ w # "fd" /\ w \notin Private
  BY VALemma DEF Private
<1>4. OneEntry(e, w) /\ Perm(e, w)' = {"W"}
  BY <1>3, FreshFramesLemma DEF TempAlloc
<1>5. /\ \A x \in Envs \ {e} : call'[x] = call[x]
      /\ call'[e].pc = m /\ call'[e].child = call[e].child /\ call'[e].at = call[e].at
  BY GotoLemma DEF IInv, TempAlloc
<1>6. OwnPages(e)
  BY <1>1, <1>5 DEF OwnPages, KInv, Pages, Early
<1>7. Gives(e, c, {})
  BY <1>1, <1>5 DEF Gives, Forked, Stacked, Loaded
<1>8. QED
  BY <1>1, <1>2, <1>3, <1>4, <1>5, <1>6, <1>7, BuildStepLemma

(* the child's share of it,                                                 *)
LEMMA GiveKLemma ==
    ASSUME IInv, JInv, KInv, NEW e \in Envs, NEW l, At(e, l), NEW m, Goto(e, m), NEW w, Give(e, w),
           UNCHANGED <<life, fault>>,
           \/ l = "args_map" /\ m = "args_unmap" /\ w = "stack"
           \/ l = "seg_map" /\ m = "seg_unmap" /\ w = "data"
    PROVE  KInv' /\ Steady
<1>1. l \in Building /\ life[e] = "alive" /\ fault[e].pc = "none" /\ call[e].pc = l /\ Framed
  BY AtJLemma DEF Building, Stacked
<1>2. PICK c \in Envs \ {e} : c = Child(e) /\ Made(e, c)
  BY <1>1, AtJLemma
<1>3. PICK q \in SUBSET Perms, u \in VA : q = {"W"} /\ u = "utemp" /\ w \in VA /\ w # "fd"
  BY VALemma DEF Perms
<1>4. OneEntry(c, w) /\ Perm(c, w)' = q /\ Held(c, w)' = Held(e, u)
  <2>1. SysPageMap(e, e, u, c, w, q) /\ Framed /\ c \in Envs /\ w \in VA
    BY <1>1, <1>2, <1>3 DEF Give
  <2>2. QED  BY ONLY <2>1, e \in Envs, u \in VA, q \in SUBSET Perms, MapFramesLemma
<1>5. /\ \A x \in Envs \ {e} : call'[x] = call[x]
      /\ call'[e].pc = m /\ call'[e].child = call[e].child /\ call'[e].at = call[e].at
  BY GotoLemma DEF IInv
<1>6. Held(c, w)' = Image /\ (m \in Early => call[e].at = 0)
  BY <1>1, <1>3, <1>4 DEF KInv, Pages, Early
<1>7. OwnPages(e)
  BY <1>5, <1>6 DEF OwnPages
<1>8. Gives(e, c, {w})
  BY <1>1, <1>5, <1>6 DEF Gives, Forked, Stacked, Loaded
<1>9. QED
  BY <1>1, <1>2, <1>3, <1>4, <1>5, <1>7, <1>8, BuildStepLemma

(* and its removal.                                                         *)
LEMMA UnmapPermLemma ==
    ASSUME JInv, NEW e \in Envs, NEW w \in VA, SysPageUnmap(e, e, w)
    PROVE  OneEntry(e, w) /\ Perm(e, w)' = {} /\ pt'[e][w] = Unmapped
<1>1. OneEntry(e, w) /\ pt'[e][w] = Unmapped
  <2>1. SysPageUnmap(e, e, w) /\ Framed
    BY DEF JInv
  <2>2. QED  BY ONLY <2>1, e \in Envs, w \in VA, UnmapFramesLemma
<1>2. QED  BY <1>1 DEF Perm, Unmapped

LEMMA UntempKLemma ==
    ASSUME IInv, JInv, KInv, NEW e \in Envs, NEW l, At(e, l), SysPageUnmap(e, e, "utemp"),
           UNCHANGED <<life, fault>>,
           \/ l = "args_map" /\ Return(e)
           \/ l = "args_unmap" /\ Goto(e, "segment")
           \/ l = "seg_unmap" /\ Goto(e, "next_shared")
    PROVE  KInv' /\ Steady
<1>1. l \in Building /\ life[e] = "alive" /\ fault[e].pc = "none" /\ call[e].pc = l
  BY AtJLemma DEF Building, Stacked
<1>2. PICK w \in VA : w = "utemp" /\ w # "fd" /\ w \notin Private
  BY VALemma DEF Private
<1>3. OneEntry(e, w) /\ Perm(e, w)' = {}
  BY <1>2, UnmapPermLemma
<1>4. CASE Return(e)
  <2>1. (\A x \in Envs \ {e} : call'[x] = call[x]) /\ call'[e].pc \notin Building
    BY <1>4, ReturnCallLemma DEF IInv, Building, Forked, Stacked
  <2>2. QED  BY <1>2, <1>3, <2>1, EntryOnLemma
<1>5. ASSUME NEW m, Goto(e, m), \/ l = "args_unmap" /\ m = "segment"
                                \/ l = "seg_unmap" /\ m = "next_shared"
      PROVE  KInv' /\ Steady
  <2>1. PICK c \in Envs \ {e} : c = Child(e) /\ Made(e, c)
    BY <1>1, AtJLemma
  <2>2. /\ \A x \in Envs \ {e} : call'[x] = call[x]
        /\ call'[e].pc = m /\ call'[e].child = call[e].child /\ call'[e].at = call[e].at
    BY <1>5, GotoLemma DEF IInv
  <2>3. call[e].at = 0
    BY <1>1, <1>5 DEF KInv, Pages, Early
  <2>4. OwnPages(e)
    BY <1>5, <2>2, <2>3 DEF OwnPages
  <2>5. Gives(e, c, {})
    BY <1>1, <1>5, <2>2, <2>3 DEF Gives, Forked, Stacked, Loaded
  <2>6. QED
    BY <1>1, <1>2, <1>3, <2>1, <2>2, <2>4, <2>5, BuildStepLemma
<1>6. QED  BY <1>4, <1>5

(* A store is seen at no other entry, when the page is not shared.          *)
LEMMA PokeLemma ==
    ASSUME JInv, NEW e \in Envs, NEW w \in VA, "W" \in Perm(e, w), "SHARE" \notin Perm(e, w),
           \A y \in Envs, b \in VA : ~ Hand(e, w, y, b) /\ ~ Hand(y, b, e, w),
           NEW v \in Vals, pt' = pt, content' = [content EXCEPT ![pt[e][w].frame] = v]
    PROVE  OneEntry(e, w) /\ Held(e, w)' = v /\ Perm(e, w)' = Perm(e, w)
<1>1. PICK f : f = pt[e][w].frame
  OBVIOUS
<1>2. Framed /\ Unmapped.perm = {}
  BY DEF JInv, Unmapped
<1>3. f \in Frames /\ f # NoFrame
  <2>1. pt[e][w] \in Pte /\ pt[e][w] # Unmapped
    BY <1>2 DEF Framed, Perm
  <2>2. QED  BY <1>1, <1>2, <2>1 DEF Framed, Pte
<1>4. /\ content' \in [Frames -> Vals] /\ content'[f] = v
      /\ \A g \in Frames : g # f => content'[g] = content[g]
  BY <1>1, <1>2, <1>3 DEF Framed
<1>5. ASSUME NEW x \in Envs, NEW a \in VA, ~ (x = e /\ a = w), pt[x][a] # Unmapped
      PROVE  Held(x, a)' = Held(x, a)
  <2>1. pt[x][a].frame # f
    <3>1. SUFFICES ASSUME pt[x][a].frame = f  PROVE FALSE
      OBVIOUS
    <3>2. CanStore(e, w) /\ Shared(e, w, x, a)
      BY <1>1, <1>3, <3>1 DEF CanStore, Perm, Shared
    <3>3. Excused(e, w, x, a)
      BY <1>5, <3>2 DEF JInv, Apart
    <3>4. QED  BY <3>3 DEF Excused
  <2>2. pt[x][a].frame \in Frames
    <3>1. pt[x][a] \in Pte
      BY <1>2 DEF Framed
    <3>2. QED  BY <1>2, <1>5, <3>1 DEF Framed, Pte
  <2>3. QED  BY <1>4, <2>1, <2>2 DEF Held
<1>6. Framed'
  BY <1>2, <1>4 DEF Framed
<1>7. QED  BY <1>1, <1>4, <1>5, <1>6 DEF OneEntry, Perm, Shared, Held

(* spawn fills its page at UTEMP.                                           *)
LEMMA FillKLemma ==
    ASSUME IInv, JInv, KInv, NEW e \in Envs, NEW l, At(e, l), NEW m, Goto(e, m), Fill(e, Image),
           UNCHANGED <<pt, life, fault>>,
           (l = "args_fill" /\ m = "args_map") \/ (l = "read" /\ m = "seg_map")
    PROVE  KInv' /\ Steady
<1>1. /\ l \in Building /\ life[e] = "alive" /\ fault[e].pc = "none" /\ call[e].pc = l /\ CallTemp(e)
      /\ \A x \in Envs, a, b \in VA : ~ Hand(x, a, e, b)
      /\ \A y \in Envs, a, b \in VA : ~ Hand(e, a, y, b)
  BY AtJLemma DEF Building, Stacked, Handing
<1>2. PICK c \in Envs \ {e} : c = Child(e) /\ Made(e, c)
  BY <1>1, AtJLemma
<1>3. PICK w \in VA : w = "utemp" /\ w # "fd" /\ w \notin Private
  BY VALemma DEF Private
<1>4. Perm(e, w) = {"W"} /\ Image \in Vals
  BY <1>1, <1>3 DEF CallTemp, Filling, Vals
<1>5. OneEntry(e, w) /\ Held(e, w)' = Image /\ Perm(e, w)' = Perm(e, w)
  BY <1>1, <1>3, <1>4, PokeLemma DEF Fill
<1>6. /\ \A x \in Envs \ {e} : call'[x] = call[x]
      /\ call'[e].pc = m /\ call'[e].child = call[e].child /\ call'[e].at = call[e].at
  BY GotoLemma DEF IInv
<1>7. l \in Early => call[e].at = 0
  BY <1>1 DEF KInv, Pages
<1>8. OwnPages(e)
  BY <1>3, <1>5, <1>6, <1>7 DEF OwnPages, Early
<1>9. Gives(e, c, {})
  BY <1>1, <1>6 DEF Gives, Forked, Stacked, Loaded
<1>10. "SHARE" \notin Perm(e, w)' /\ e # c
  BY <1>4, <1>5
<1>11. QED
  BY <1>1, <1>2, <1>3, <1>5, <1>6, <1>8, <1>9, <1>10, BuildStepLemma

(* copy_shared_pages gives the child the descriptor.                        *)
LEMMA CopySharedKLemma ==
    ASSUME IInv, JInv, KInv, NEW e \in Envs, CopyShared(e), ~ Panic(e) PROVE KInv' /\ Steady
<1> DEFINE T == {i \in call[e].at + 1 .. Below : "SHARE" \in pt[e][Order[i]].perm} \cup {Below + 1}
<1>1. /\ At(e, "next_shared") /\ life[e] = "alive" /\ fault[e].pc = "none"
      /\ call[e].pc = "next_shared" /\ Framed
      /\ "next_shared" \in Building /\ "next_shared" \in Stacked
  <2>1. At(e, "next_shared")
    BY DEF CopyShared
  <2>2. QED  BY <2>1, AtJLemma DEF Building, Stacked
<1>2. PICK c \in Envs \ {e} : c = Child(e) /\ Made(e, c)
  BY <1>1, AtJLemma
<1>3. PICK n : n = NextAt(e, LAMBDA entry : "SHARE" \in entry.perm)
  OBVIOUS
<1>4. call[e].at \in 0 .. 5
  BY DEF IInv, TypeInv, Calls
<1>5. /\ PermInv(e) /\ Perm(e, "fd") = {"W", "SHARE"} /\ Order[4] = "fd" /\ "fd" \in VA
      /\ \A i \in 1 .. 5 : Order[i] = "fd" => i = 4
  BY <1>1, VALemma DEF KInv, PermInv, Order
<1>6. n \in {4, 6} /\ (n = 6 => call[e].at > 3)
  <2>1. T \subseteq 1 .. 6 /\ 6 \in T
    BY <1>4, VALemma
  <2>2. n = Min(T)
    BY <1>3 DEF NextAt
  <2>3. n \in T /\ \A i \in T : n <= i
    BY <2>1, <2>2, MinLemma
  <2>4. ASSUME n # 6  PROVE n = 4
    <3>1. n \in 1 .. 5 /\ "SHARE" \in Perm(e, Order[n])
      BY <2>1, <2>3, <2>4, VALemma DEF Perm
    <3>2. Order[n] = "fd"
      BY <1>5, <3>1, VALemma DEF PermInv
    <3>3. QED  BY <1>5, <3>1, <3>2
  <2>5. ASSUME call[e].at <= 3  PROVE 4 \in T
    BY <1>4, <1>5, <2>5, VALemma DEF Perm
  <2>6. QED  BY <1>4, <2>3, <2>4, <2>5
<1>7. \/ /\ n <= Below
         /\ SysPageMap(e, e, Order[n], Child(e), Order[n], pt[e][Order[n]].perm)
         /\ call' = [call EXCEPT ![e].at = n] /\ UNCHANGED <<life, fault>>
      \/ n > Below /\ Goto(e, "spawned") /\ UNCHANGED <<memVars, life, fault>>
  BY <1>3 DEF CopyShared
<1>8. CASE n = 6
  <2>1. Goto(e, "spawned") /\ UNCHANGED <<pt, content, life, fault>>
    BY <1>7, <1>8, VALemma DEF memVars
  <2>2. /\ \A x \in Envs \ {e} : call'[x] = call[x]
        /\ call'[e].pc = "spawned" /\ call'[e].child = call[e].child
    BY <2>1, GotoLemma DEF IInv
  <2>3. OwnPages(e)
    BY <2>2 DEF OwnPages, Early
  <2>4. Gives(e, c, {})
    BY <1>1, <1>6, <1>8, <2>2 DEF Gives, Forked, Stacked, Loaded
  <2>5. QED
    BY <1>1, <1>2, <2>1, <2>2, <2>3, <2>4, BuildOnLemma
<1>9. CASE n = 4
  <2>1. PICK w \in VA, q \in SUBSET Perms : w = "fd" /\ q = {"W", "SHARE"} /\ w \notin Private
    BY <1>5 DEF Perms, Private
  <2>2. /\ OneEntry(c, w) /\ Perm(c, w)' = q
        /\ \A y \in Envs, b \in VA : ~ (y = c /\ b = w) => (Shared(c, w, y, b)' <=> Shared(e, w, y, b))
        /\ pt[e][w] # Unmapped
    <3>1. 4 <= Below /\ ~ 4 > Below
      BY VALemma
    <3>2. SysPageMap(e, e, Order[4], Child(e), Order[4], pt[e][Order[4]].perm)
      BY <1>7, <1>9, <3>1
    <3>3. Order[4] = w /\ pt[e][w].perm = q
      BY <1>5, <2>1 DEF Perm
    <3>4. SysPageMap(e, e, w, c, w, q) /\ Framed /\ c \in Envs
      BY <1>1, <1>2, <3>2, <3>3
    <3>5. pt[e][w] # Unmapped
      BY <3>4 DEF SysPageMap
    <3>6. QED  BY ONLY <3>4, <3>5, e \in Envs, w \in VA, q \in SUBSET Perms, MapFramesLemma
  <2>3. Linked(e, c)'
    <3>1. pt[e][w].frame # NoFrame
      BY <1>1, <2>2 DEF Framed
    <3>2. Shared(e, w, e, w)
      BY <3>1 DEF Shared
    <3>3. QED  BY <1>2, <2>1, <2>2, <3>2 DEF Linked
  <2>4. /\ \A x \in Envs \ {e} : call'[x] = call[x]
        /\ call'[e].pc = "next_shared" /\ call'[e].child = call[e].child
    <3>1. call[e] = [pc |-> call[e].pc, child |-> call[e].child, at |-> call[e].at, perm |-> call[e].perm]
      BY DEF IInv, TypeInv, Calls
    <3>2. [call[e] EXCEPT !.at = n] =
            [pc |-> call[e].pc, child |-> call[e].child, at |-> n, perm |-> call[e].perm]
      BY <3>1
    <3>3. \A x \in Envs : call'[x] = IF x = e THEN [call[e] EXCEPT !.at = n] ELSE call[x]
      BY <1>7, <1>9, VALemma DEF IInv, TypeInv, Calls
    <3>4. call'[e] = [pc |-> call[e].pc, child |-> call[e].child, at |-> n, perm |-> call[e].perm]
      BY <3>2, <3>3
    <3>5. QED  BY <1>1, <3>3, <3>4
  <2>5. OwnPages(e)
    BY <2>4 DEF OwnPages, Early
  <2>6. Gives(e, c, {w})
    BY <1>1, <2>1, <2>3, <2>4 DEF Gives, Forked, Stacked, Loaded, Private
  <2>7. UNCHANGED <<life, fault>>
    BY <1>7, <1>9, VALemma
  <2>8. QED
    BY <1>1, <1>2, <2>1, <2>2, <2>4, <2>5, <2>6, <2>7, BuildStepLemma
<1>10. QED  BY <1>6, <1>8, <1>9

(* A new child has nothing yet.                                             *)
LEMMA ExoforkKLemma ==
    ASSUME IInv, JInv, KInv, NEW e \in Envs, NEW l, NEW m, At(e, l), Exofork(e, m),
           m \in {"next_page", "args"}
    PROVE  KInv' /\ Steady
<1>1. life[e] = "alive" /\ call[e].pc = l /\ fault[e].pc = "none"
  BY AtJLemma
<1>2. CASE Return(e) /\ UNCHANGED <<memVars, life, upcall, handler, fault>>
  <2>1. (\A x \in Envs \ {e} : call'[x] = call[x]) /\ call'[e].pc \notin Building
    BY <1>2, ReturnCallLemma DEF IInv, Building, Forked, Stacked
  <2>2. QED  BY <1>2, <2>1, OnLemma DEF memVars
<1>3. ASSUME NEW c \in Envs, life[c] = "free",
             life' = [life EXCEPT ![c] = "embryo"],
             call' = [call EXCEPT ![e] = [pc |-> m, child |-> c, at |-> 0, perm |-> {}]],
             UNCHANGED <<memVars, fault>>
      PROVE  KInv' /\ Steady
  <2>1. UNCHANGED <<pt, content, fault>>
    BY <1>3 DEF memVars
  <2>2. /\ call'[e].pc = m /\ call'[e].at = 0 /\ \A y \in Envs \ {e} : call'[y] = call[y]
        /\ \A y \in Envs : life'[y] = "alive" <=> life[y] = "alive"
    BY <1>3 DEF IInv, TypeInv, Calls
  <2>3. Given(e, Child(e))'
    <3>1. \A i \in 1 .. 5 : ~ Copied(e, i)' \/ m # "next_page"
      BY <2>2 DEF Copied
    <3>2. m \notin Stacked /\ m \notin Loaded /\ (m \in Forked => m = "next_page")
      BY DEF Forked, Stacked, Loaded
    <3>3. QED  BY <2>2, <3>1, <3>2 DEF Given
  <2>4. Pages(e)'
    BY <1>1, <2>1, <2>2, <2>3 DEF Pages, Early
  <2>5. QED  BY <2>1, <2>2, <2>4, OnLemma
<1>4. QED  BY <1>2, <1>3 DEF Exofork

-----------------------------------------------------------------------------
(* The handler: what the program reads does not change while it runs.       *)
LEMMA HandlerKLemma ==
    ASSUME IInv, JInv, KInv, NEW e \in Envs, life[e] = "alive",
           NEW w \in Private \cup {"pftemp"}, OneEntry(e, w), "SHARE" \notin Perm(e, w)',
           UNCHANGED <<life, call>>, \A x \in Envs \ {e} : fault'[x] = fault[x],
           \A a \in Private : Reads(e, a)' = Reads(e, a),
           fault'[e].pc = "unmap" => Held(e, "pftemp")' = Held(e, FaultVa(e))'
    PROVE  KInv' /\ Steady
<1>1. w \in VA /\ w # "fd" /\ w # "utemp" /\ "utemp" \in VA
  BY VALemma DEF Private
<1>2. /\ Kept(e, {w}) /\ \A y \in Envs \ {e} : Kept(y, {})
      /\ \A y, x \in Envs : Linked(x, y)' <=> Linked(x, y)
  BY <1>1, KeptLemma
<1>3. call[e].pc \in {"args_map", "seg_map"} => Held(e, "utemp")' = Image
  <2>1. SUFFICES ASSUME call[e].pc \in {"args_map", "seg_map"}  PROVE Held(e, "utemp")' = Image
    OBVIOUS
  <2>2. Perm(e, "utemp") = {"W"} /\ Held(e, "utemp") = Image
    BY <2>1 DEF JInv, TempInv, CallTemp, Filling, KInv, Pages
  <2>3. pt[e]["utemp"] # Unmapped
    BY <2>2 DEF Unmapped, Perm
  <2>4. QED  BY <1>1, <1>2, <2>2, <2>3 DEF Kept
<1>4. call[e].pc \in Building => Given(e, Child(e))'
  <2>1. SUFFICES ASSUME call[e].pc \in Building  PROVE Given(e, Child(e))'
    OBVIOUS
  <2>2. PICK c \in Envs : c = Child(e) /\ Made(e, c)
    BY <2>1 DEF IInv, EnvInv, Growing
  <2>3. Given(e, c) /\ Kept(c, {})
    BY <1>2, <2>1, <2>2 DEF KInv, Pages, Made
  <2>4. Gives(e, c, {})
    <3>1. \A i \in 1 .. 5 : Copied(e, i)' <=> Copied(e, i)
      BY DEF Copied
    <3>2. QED  BY <3>1 DEF Gives
  <2>5. Given(e, c)'
    BY <1>2, <2>2, <2>3, <2>4, GivenLemma
  <2>6. Given(e, Child(e))' <=> Given(e, c)'
    BY <2>2 DEF Child, Given, Linked, Shared, Held
  <2>7. QED  BY <2>5, <2>6
<1>5. Pages(e)'
  <2>1. call[e].pc = "dup_own" => (Va(e) # "fd")'
    BY DEF KInv, Pages, Va
  <2>2. call[e].pc \in Early => call[e].at = 0
    BY DEF KInv, Pages
  <2>3. QED  BY <1>3, <1>4, <2>1, <2>2 DEF Pages
<1>6. PermInv(e)'
  BY <1>1, PermLemma
<1>7. KInv'
  BY <1>1, <1>5, <1>6, EntryKLemma
<1>8. Steady
  BY <1>1, EntrySteadyLemma
<1>9. QED  BY <1>7, <1>8

(* It takes a page                                                          *)
LEMMA PgfaultAllocKLemma ==
    ASSUME IInv, JInv, KInv, NEW e \in Envs, InHandler(e, "alloc"),
           SysPageAlloc(e, e, "pftemp", {"W"}), HandlerTo(e, "copy"), UNCHANGED <<life, call>>
    PROVE  KInv' /\ Steady
<1>1. life[e] = "alive" /\ fault[e].pc = "alloc" /\ TypeInv
  BY InHandlerLemma
<1>2. PICK w \in VA : w = "pftemp" /\ w \notin Private
  BY VALemma DEF Private
<1>3. OneEntry(e, w) /\ Perm(e, w)' = {"W"}
  BY <1>2, FreshFramesLemma
<1>4. /\ fault'[e].pc = "copy" /\ \A x \in Envs \ {e} : fault'[x] = fault[x]
  BY <1>1, HandlerToLemma
<1>5. \A a \in Private : Reads(e, a)' = Reads(e, a)
  <2> SUFFICES ASSUME NEW a \in Private  PROVE Reads(e, a)' = Reads(e, a)
    OBVIOUS
  <2>1. Where(e, a) = a /\ pt[e][Where(e, a)] # Unmapped /\ a # "fd" /\ a \in VA
    BY <1>1, WhereLemma DEF Where
  <2>2. Held(e, a)' = Held(e, a)
    BY <1>2, <1>3, <2>1, KeptLemma DEF Kept
  <2>3. QED  BY <1>1, <1>4, <2>2 DEF Reads, Held
<1>6. QED  BY <1>1, <1>2, <1>3, <1>4, <1>5, HandlerKLemma

(* and copies into it                                                       *)
LEMMA PgfaultCopyKLemma ==
    ASSUME IInv, JInv, KInv, NEW e \in Envs, PgfaultCopy(e) PROVE KInv' /\ Steady
<1>1. /\ life[e] = "alive" /\ fault[e].pc = "copy" /\ TypeInv /\ fault[e].va \in Private /\ Sound(e)
  BY InHandlerLemma DEF PgfaultCopy
<1>2. PICK w \in VA, a \in VA : w = "pftemp" /\ w \notin Private /\ a = fault[e].va /\ a \in Private
  BY <1>1, VALemma DEF Private
<1>3. Perm(e, w) = {"W"} /\ CallTemp(e) /\ Framed
  BY <1>1, <1>2 DEF JInv, TempInv, HandlerTemp
<1>4. "COW" \in Perm(e, a)
  BY <1>1, <1>2 DEF Sound
<1>5. content[pt[e][a].frame] \in Vals
  <2>1. pt[e][a] \in Pte /\ pt[e][a] # Unmapped
    BY <1>3, <1>4 DEF Framed, Perm, Unmapped
  <2>2. pt[e][a].frame \in Frames
    BY <1>3, <2>1 DEF Framed, Pte
  <2>3. QED  BY <1>3, <2>2 DEF Framed
<1>6. PICK v \in Vals : v = Held(e, a)
  BY <1>5 DEF Held
<1>7. \A y \in Envs, b \in VA : ~ Hand(e, w, y, b) /\ ~ Hand(y, b, e, w)
  <2>1. \A y \in Envs, b \in VA : ~ Hand(e, w, y, b)
    BY <1>1, <1>2, <1>3 DEF Hand, CallTemp
  <2>2. \A y \in Envs, b \in VA : ~ Hand(y, b, e, w)
    BY <1>1, NotGivenLemma
  <2>3. QED  BY <2>1, <2>2
<1>8. pt' = pt /\ content' = [content EXCEPT ![pt[e][w].frame] = v]
  BY <1>2, <1>6 DEF PgfaultCopy, FaultVa, Held
<1>9. OneEntry(e, w) /\ Held(e, w)' = v /\ Perm(e, w)' = Perm(e, w)
  BY <1>3, <1>7, <1>8, PokeLemma
<1>10. /\ fault'[e].pc = "unmap" /\ fault'[e].va = a /\ \A x \in Envs \ {e} : fault'[x] = fault[x]
  BY <1>1, <1>2, HandlerToLemma DEF PgfaultCopy
<1>11. ASSUME NEW b \in Private  PROVE Held(e, b)' = Held(e, b) /\ Reads(e, b)' = Reads(e, b)
  <2>1. Where(e, b) = b /\ pt[e][Where(e, b)] # Unmapped /\ b # "fd" /\ b \in VA
    BY <1>1, WhereLemma DEF Where
  <2>2. Held(e, b)' = Held(e, b)
    BY <1>2, <1>9, <2>1, KeptLemma DEF Kept
  <2>3. QED  BY <1>1, <1>10, <2>2 DEF Reads, Held
<1>12. Held(e, "pftemp")' = Held(e, FaultVa(e))'
  <2>1. Held(e, FaultVa(e))' = Held(e, a)'
    BY <1>10 DEF FaultVa, Held
  <2>2. Held(e, a)' = Held(e, a)
    BY <1>2, <1>11
  <2>3. QED  BY <1>2, <1>6, <1>9, <2>1, <2>2
<1>13. "SHARE" \notin Perm(e, w)' /\ UNCHANGED <<life, call>>
  BY <1>3, <1>9 DEF PgfaultCopy
<1>14. QED
  BY <1>1, <1>2, <1>9, <1>10, <1>11, <1>12, <1>13, HandlerKLemma

(* what it reads while the address is not mapped,                           *)
LEMMA PgfaultUnmapKLemma ==
    ASSUME IInv, JInv, KInv, NEW e \in Envs, PgfaultUnmap(e) PROVE KInv' /\ Steady
<1>1. /\ life[e] = "alive" /\ fault[e].pc = "unmap" /\ TypeInv /\ fault[e].va \in Private
  BY InHandlerLemma DEF PgfaultUnmap
<1>2. PICK w \in VA : w = fault[e].va /\ w \in Private /\ w # "pftemp"
  BY <1>1, VALemma DEF Private
<1>3. OneEntry(e, w) /\ Perm(e, w)' = {}
  BY <1>2, UnmapPermLemma DEF PgfaultUnmap, FaultVa
<1>4. /\ fault'[e].pc = "map" /\ fault'[e].va = w /\ \A x \in Envs \ {e} : fault'[x] = fault[x]
  BY <1>1, <1>2, HandlerToLemma DEF PgfaultUnmap
<1>5. Held(e, "pftemp") = Held(e, w) /\ Held(e, "pftemp")' = Held(e, "pftemp")
  <2>1. Held(e, "pftemp") = Held(e, w)
    BY <1>1, <1>2 DEF KInv, Pages, FaultVa, Held
  <2>2. Perm(e, "pftemp") = {"W"}
    BY <1>1 DEF JInv, TempInv, HandlerTemp
  <2>3. pt[e]["pftemp"] # Unmapped /\ "pftemp" \in VA
    BY <2>2, VALemma DEF Unmapped, Perm
  <2>4. QED  BY <1>2, <1>3, <2>1, <2>3, KeptLemma DEF Kept
<1>6. ASSUME NEW a \in Private  PROVE Reads(e, a)' = Reads(e, a)
  <2>1. Where(e, a) = a /\ pt[e][Where(e, a)] # Unmapped /\ a # "fd" /\ a \in VA
    BY <1>1, WhereLemma DEF Where
  <2>2. CASE a = w
    <3>1. Reads(e, a) = Held(e, w) /\ Reads(e, a)' = Held(e, "pftemp")'
      BY <1>1, <1>4, <2>2 DEF Reads, Held, FaultVa
    <3>2. QED  BY <1>5, <3>1
  <2>3. CASE a # w
    <3>1. Held(e, a)' = Held(e, a)
      BY <1>3, <2>1, <2>3, KeptLemma DEF Kept
    <3>2. QED  BY <1>1, <1>4, <2>3, <3>1 DEF Reads, Held, FaultVa
  <2>4. QED  BY <2>2, <2>3
<1>7. UNCHANGED <<life, call>>
  BY DEF PgfaultUnmap
<1>8. QED  BY <1>1, <1>2, <1>3, <1>4, <1>6, <1>7, HandlerKLemma

(* and finds there when it is mapped again.                                 *)
LEMMA PgfaultMapKLemma ==
    ASSUME IInv, JInv, KInv, NEW e \in Envs, PgfaultMap(e) PROVE KInv' /\ Steady
<1>1. /\ life[e] = "alive" /\ fault[e].pc = "map" /\ TypeInv /\ fault[e].va \in Private
  BY InHandlerLemma DEF PgfaultMap
<1>2. PICK w \in VA, v \in VA, q \in SUBSET Perms :
        w = fault[e].va /\ w \in Private /\ v = "pftemp" /\ q = {"W"}
  BY <1>1, VALemma DEF Private, Perms
<1>3. OneEntry(e, w) /\ Perm(e, w)' = q /\ Held(e, w)' = Held(e, v)
  <2>1. SysPageMap(e, e, v, e, w, q) /\ Framed
    BY <1>2 DEF PgfaultMap, FaultVa, JInv
  <2>2. QED  BY ONLY <2>1, e \in Envs, v \in VA, w \in VA, q \in SUBSET Perms, MapFramesLemma
<1>4. /\ fault'[e].pc = "untemp" /\ fault'[e].va = w /\ \A x \in Envs \ {e} : fault'[x] = fault[x]
  BY <1>1, <1>2, HandlerToLemma DEF PgfaultMap
<1>5. ASSUME NEW a \in Private  PROVE Reads(e, a)' = Reads(e, a)
  <2>1. Reads(e, a)' = Held(e, a)'
    BY <1>4 DEF Reads, Held
  <2>2. CASE a = w
    <3>1. Reads(e, a) = Held(e, v)
      BY <1>1, <1>2, <2>2 DEF Reads, Held, FaultVa
    <3>2. QED  BY <1>3, <2>1, <2>2, <3>1
  <2>3. CASE a # w
    <3>1. Where(e, a) = a /\ pt[e][Where(e, a)] # Unmapped /\ a # "fd" /\ a \in VA
      BY <1>2, <1>1, <2>3, WhereLemma DEF Where, FaultVa
    <3>2. Held(e, a)' = Held(e, a)
      BY <1>3, <2>3, <3>1, KeptLemma DEF Kept
    <3>3. Reads(e, a) = Held(e, a)
      BY <1>2, <2>3 DEF Reads, Held, FaultVa
    <3>4. QED  BY <2>1, <3>2, <3>3
  <2>4. QED  BY <2>2, <2>3
<1>6. "SHARE" \notin Perm(e, w)' /\ UNCHANGED <<life, call>>
  BY <1>2, <1>3 DEF PgfaultMap
<1>7. QED  BY <1>1, <1>2, <1>3, <1>4, <1>5, <1>6, HandlerKLemma

LEMMA PgfaultUntempKLemma ==
    ASSUME IInv, JInv, KInv, NEW e \in Envs, PgfaultUntemp(e) PROVE KInv' /\ Steady
<1>1. /\ life[e] = "alive" /\ fault[e].pc = "untemp" /\ TypeInv
  BY InHandlerLemma DEF PgfaultUntemp
<1>2. PICK w \in VA : w = "pftemp" /\ w \notin Private
  BY VALemma DEF Private
<1>3. OneEntry(e, w) /\ Perm(e, w)' = {}
  BY <1>2, UnmapPermLemma DEF PgfaultUntemp
<1>4. /\ fault'[e].pc = "none" /\ \A x \in Envs \ {e} : fault'[x] = fault[x]
  BY <1>1 DEF PgfaultUntemp, TypeInv, Faults, NoFault
<1>5. ASSUME NEW a \in Private  PROVE Reads(e, a)' = Reads(e, a)
  <2>1. Where(e, a) = a /\ pt[e][Where(e, a)] # Unmapped /\ a # "fd" /\ a \in VA
    BY <1>1, WhereLemma DEF Where
  <2>2. Held(e, a)' = Held(e, a)
    BY <1>2, <1>3, <2>1, KeptLemma DEF Kept
  <2>3. QED  BY <1>1, <1>4, <2>2 DEF Reads, Held
<1>6. UNCHANGED <<life, call>>
  BY DEF PgfaultUntemp
<1>7. QED  BY <1>1, <1>2, <1>3, <1>4, <1>5, <1>6, HandlerKLemma

(* The fault itself: the handler is called.                                 *)
LEMMA PageFaultKLemma ==
    ASSUME IInv, JInv, KInv, NEW e \in Envs, NEW va \in VA, PageFault(e, va) PROVE KInv' /\ Steady
<1>1. /\ life[e] = "alive" /\ fault[e].pc = "none" /\ Sound(e)
      /\ va \in Private /\ "W" \notin Perm(e, va)
  BY DEF PageFault, Runs, Alive, StoresTo, Private, CanStore, Perm, IInv, EnvInv
<1>2. Ready(e)
  BY <1>1 DEF Sound
<1>3. /\ fault' = [fault EXCEPT ![e] = [pc |-> "alloc", va |-> va]]
      /\ UNCHANGED <<pt, content, life, call>>
  BY <1>2 DEF PageFault, Ready, IInv, TypeInv, memVars
<1>4. /\ fault'[e].pc = "alloc"
      /\ \A x \in Envs \ {e} : fault'[x] = fault[x]
  BY <1>3 DEF IInv, TypeInv, Faults
<1>5. Pages(e)'
  BY <1>1, <1>3, <1>4, QuietPagesLemma
<1>6. KInv'
  BY <1>1, <1>3, <1>4, <1>5, QuietKLemma
<1>7. Steady
  BY <1>1, <1>3, <1>4, QuietSteadyLemma
<1>8. QED  BY <1>6, <1>7

-----------------------------------------------------------------------------
(* The steps that programs see.                                             *)

(* A child that runs has the memory it was given, and its parent's object.  *)
LEMMA BeginLemma ==
    ASSUME UNCHANGED <<pt, content, fault>>, NEW e \in Envs, NEW c \in Envs,
           Alive(e), ~ Alive(c), \A x \in Envs : (Alive(x)' <=> Alive(x) \/ x = c),
           SameObject(c, e), NEW memory, memory = [a \in Private |-> Reads(c, a)]
    PROVE  M!Begin(e, c, memory)
<1> DEFINE A(x) == Alive(x)
           R(x, a) == Reads(x, a)
           O(x) == pt[x]["fd"].frame
           V(x) == content[pt[x]["fd"].frame]
           mem == [x \in Envs |-> [a \in Private |-> IF A(x) THEN R(x, a) ELSE Zero]]
           sharers == [x \in Envs |-> {y \in Envs : A(y) /\ A(x) /\ O(y) = O(x)}]
           value == [x \in Envs |-> IF A(x) THEN V(x) ELSE Zero]
           together == sharers[e] \cup {c}
<1>1. /\ A(e) /\ ~ A(c) /\ O(c) = O(e) /\ memory = [a \in Private |-> R(c, a)]
      /\ V(c) = V(e)
      /\ \A x \in Envs : A(x)' <=> A(x) \/ x = c
      /\ \A x \in Envs, a \in Private : R(x, a)' = R(x, a)
      /\ \A x \in Envs : O(x)' = O(x) /\ V(x)' = V(x)
  BY DEF SameObject, Reads, FaultVa
<1> HIDE DEF A, R, O, V
<1>2. {x \in Envs : A(x)}' = {x \in Envs : A(x)} \cup {c}
  BY <1>1
<1>3. mem' = [mem EXCEPT ![c] = memory]
  <2>1. ASSUME NEW x \in Envs
        PROVE  [a \in Private |-> IF A(x) THEN R(x, a) ELSE Zero]' =
               IF x = c THEN memory ELSE [a \in Private |-> IF A(x) THEN R(x, a) ELSE Zero]
    BY <1>1
  <2>2. mem' = [x \in Envs |-> IF x = c THEN memory ELSE [a \in Private |-> IF A(x) THEN R(x, a) ELSE Zero]]
    BY <2>1
  <2>3. QED  BY <2>2
<1>4. value' = [value EXCEPT ![c] = value[e]]
  BY <1>1
<1>5. sharers' = [x \in Envs |-> IF x \in together THEN together ELSE sharers[x]]
  <2>1. together = {y \in Envs : A(y) /\ O(y) = O(e)} \cup {c}
    BY <1>1
  <2>2. ASSUME NEW x \in Envs
        PROVE  {y \in Envs : A(y) /\ A(x) /\ O(y) = O(x)}' =
               IF x \in together THEN together ELSE {y \in Envs : A(y) /\ A(x) /\ O(y) = O(x)}
    <3>1. {y \in Envs : A(y) /\ A(x) /\ O(y) = O(x)}' =
          {y \in Envs : (A(y) \/ y = c) /\ (A(x) \/ x = c) /\ O(y) = O(x)}
      BY <1>1
    <3>2. QED  BY <1>1, <2>1, <3>1
  <2>3. QED  BY <2>2
<1>6. /\ e \in {x \in Envs : A(x)} /\ c \notin {x \in Envs : A(x)}
  BY <1>1
<1>7. QED
  BY <1>2, <1>3, <1>4, <1>5, <1>6 DEF M!Begin, A, R, O, V, Sharers

LEMMA StartsKLemma ==
    ASSUME IInv, JInv, KInv, NEW e \in Envs, NEW l, NEW h, Starts(e, l, h),
           \/ At(e, "start") /\ l = "this_env"
           \/ At(e, "spawned") /\ l = "run"
    PROVE  KInv' /\ M!Next
<1>1. /\ life[e] = "alive" /\ fault[e].pc = "none" /\ call[e].pc \in {"start", "spawned"}
      /\ call[e].pc \in Building
  BY AtJLemma DEF Building, Forked, Stacked
<1>2. PICK c \in Envs \ {e} : c = Child(e) /\ Made(e, c) /\ life[c] = "embryo" /\ fault[c].pc = "none"
  BY <1>1, AtLemma
<1>3. Given(e, c)
  BY <1>1, <1>2 DEF KInv, Pages
<1>4. Linked(e, c)
  <2>1. call[e].pc = "start" => Copied(e, 4) /\ call[e].pc \in Forked
    BY DEF Copied, Forked
  <2>2. QED  BY <1>1, <1>3, <2>1 DEF Given
<1>5. UNCHANGED <<pt, content, fault>>
  BY DEF Starts, memVars
<1>6. \A x \in Envs : call'[x] = IF x = c THEN [NoCall EXCEPT !.pc = l] ELSE IF x = e THEN NoCall ELSE call[x]
  BY <1>2 DEF Starts, IInv, TypeInv, Calls
<1>7. \A x \in Envs : life'[x] = IF x = c THEN "alive" ELSE life[x]
  BY <1>2 DEF Starts, IInv, TypeInv
<1>8. /\ call'[e].pc \notin Building /\ call'[c].pc \notin Building
      /\ \A x \in Envs \ {e, c} : call'[x] = call[x]
  <2>1. [NoCall EXCEPT !.pc = l] = [pc |-> l, child |-> 0, at |-> 0, perm |-> {}]
    BY DEF NoCall
  <2>2. call'[c] = [pc |-> l, child |-> 0, at |-> 0, perm |-> {}] /\ call'[e] = NoCall
        /\ \A x \in Envs \ {e, c} : call'[x] = call[x]
    BY <1>2, <1>6, <2>1
  <2>3. call'[c].pc = l /\ call'[e].pc = "run" /\ l \in {"run", "this_env"}
    BY <2>2 DEF NoCall
  <2>4. QED  BY <2>2, <2>3 DEF Building, Forked, Stacked
<1>9. Perm(c, "fd") = {"W", "SHARE"}
  <2>1. Framed /\ "fd" \in VA
    BY VALemma DEF JInv
  <2>2. pt[c]["fd"].frame # NoFrame
    BY <1>4 DEF Linked, Shared
  <2>3. pt[c]["fd"] # Unmapped
    BY <2>2 DEF Unmapped
  <2>4. QED  BY <2>3 DEF KInv, PermInv
<1>10. KInv'
  <2>1. \A x \in Envs : PermInv(x)'
    <3>1. \A x \in Envs : \A a : Perm(x, a)' = Perm(x, a)
      BY <1>5 DEF Perm
    <3>2. QED  BY <1>5, <1>7, <1>9, <3>1 DEF KInv, PermInv
  <2>2. Pages(e)' /\ Pages(c)'
    BY <1>1, <1>2, <1>5, <1>8, NoPagesLemma
  <2>3. \A x \in Envs \ {e, c} : life'[x] = "alive" => Pages(x)'
    BY <1>5, <1>7, <1>8, QuietPagesLemma
  <2>4. QED  BY <2>1, <2>2, <2>3 DEF KInv
<1>11. /\ Alive(e) /\ ~ Alive(c) /\ \A x \in Envs : (Alive(x)' <=> Alive(x) \/ x = c)
       /\ SameObject(c, e)
  BY <1>1, <1>2, <1>4, <1>7 DEF Alive, SameObject, Linked, Shared
<1>12. PICK memory : memory = [a \in Private |-> Reads(c, a)]
  OBVIOUS
<1>13. M!Begin(e, c, memory)
  BY <1>2, <1>5, <1>11, <1>12, BeginLemma
<1>14. \A a : Reads(c, a) = Held(c, a)
  BY <1>2 DEF Reads, Held
<1>15. CASE call[e].pc = "start"
  <2>1. ASSUME NEW a \in Private  PROVE Reads(c, a) = Reads(e, a)
    <3>1. PICK i \in 1 .. 5 : Order[i] = a
      BY VALemma DEF Private
    <3>2. Copied(e, i) /\ call[e].pc \in Forked
      BY <1>15 DEF Copied, Forked
    <3>3. QED  BY <1>3, <1>14, <3>1, <3>2 DEF Given
  <2>2. memory = [x \in Envs |-> [a \in Private |-> IF Alive(x) THEN Reads(x, a) ELSE Zero]][e]
    BY <1>11, <1>12, <2>1
  <2>3. M!Fork(e, c)
    BY ONLY <1>13, <2>2 DEF M!Fork, M!Begin
  <2>4. QED  BY <1>2, <1>10, <2>3 DEF M!Next
<1>16. CASE call[e].pc = "spawned"
  <2>1. call[e].pc \in Stacked /\ call[e].pc \in Loaded
    BY <1>16 DEF Stacked, Loaded
  <2>2. Reads(c, "stack") = Image /\ Reads(c, "data") \in {Zero, Image}
    BY <1>3, <1>14, <2>1 DEF Given
  <2>3. \E v \in {Zero, Image} : memory = [a \in Private |-> IF a = "stack" THEN Image ELSE v]
    BY <1>12, <2>2 DEF Private
  <2>4. memory \in {[a \in Private |-> IF a = "stack" THEN Image ELSE v] : v \in {Zero, Image}}
    BY <2>3
  <2>5. M!Spawn(e, c)
    BY <1>13, <2>4 DEF M!Spawn
  <2>6. QED  BY <1>2, <1>10, <2>5 DEF M!Next
<1>17. QED  BY <1>1, <1>15, <1>16

(* A store to the program's own memory                                      *)
LEMMA StoreDataKLemma ==
    ASSUME IInv, JInv, KInv, NEW e \in Envs, NEW v \in Written, Store(e, "data", v)
    PROVE  KInv' /\ M!Next
<1>1. /\ At(e, "run") /\ life[e] = "alive" /\ fault[e].pc = "none" /\ call[e].pc = "run" /\ Sound(e)
      /\ \A x \in Envs, a, b \in VA : ~ Hand(x, a, e, b)
      /\ \A y \in Envs, a, b \in VA : ~ Hand(e, a, y, b)
  BY AtJLemma DEF Store, Handing
<1>2. PICK w \in VA : w = "data" /\ w \in Private /\ w # "fd"
  BY VALemma DEF Private
<1>3. /\ "W" \in Perm(e, w) /\ "SHARE" \notin Perm(e, w)
      /\ pt' = pt /\ content' = [content EXCEPT ![pt[e][w].frame] = v]
      /\ UNCHANGED <<life, call, fault>>
  BY <1>1, <1>2 DEF Store, CanStore, Perm, Sound
<1>4. v \in Vals
  BY DEF Vals
<1>5. OneEntry(e, w) /\ Held(e, w)' = v /\ Perm(e, w)' = Perm(e, w)
  BY <1>1, <1>3, <1>4, PokeLemma
<1>6. Pages(e)'
  BY <1>1, <1>3, NoPagesLemma DEF Building, Forked, Stacked
<1>7. PermInv(e)'
  BY <1>2, <1>3, <1>5, PermLemma
<1>8. KInv'
  BY <1>1, <1>2, <1>3, <1>5, <1>6, <1>7, EntryKLemma
<1>9. SameObjects /\ \A x \in Envs \ {e}, a \in Private : Alive(x) => Reads(x, a)' = Reads(x, a)
  BY <1>2, <1>3, <1>5, EntryObjectsLemma
<1>10. \A a \in Private : Reads(e, a)' = IF a = w THEN v ELSE Reads(e, a)
  <2>1. \A a : Reads(e, a)' = Held(e, a)' /\ Reads(e, a) = Held(e, a)
    BY <1>1, <1>3 DEF Reads, Held
  <2>2. ASSUME NEW a \in Private, a # w  PROVE Held(e, a)' = Held(e, a)
    <3>1. Where(e, a) = a /\ pt[e][Where(e, a)] # Unmapped /\ a # "fd" /\ a \in VA
      BY <1>1, WhereLemma DEF Where
    <3>2. QED  BY <1>5, <2>2, <3>1, KeptLemma DEF Kept
  <2>3. QED  BY <1>5, <2>1, <2>2
<1>11. M!Store(e, w, v)
  <2> DEFINE A(x) == Alive(x)  R(x, a) == Reads(x, a)
             mem == [x \in Envs |-> [a \in Private |-> IF A(x) THEN R(x, a) ELSE Zero]]
  <2>1. /\ A(e) /\ \A x \in Envs : (A(x)' <=> A(x))
        /\ \A x \in Envs \ {e}, a \in Private : A(x) => R(x, a)' = R(x, a)
        /\ \A a \in Private : R(e, a)' = IF a = w THEN v ELSE R(e, a)
    BY <1>1, <1>9, <1>10 DEF SameObjects, Alive
  <2> HIDE DEF A, R
  <2>2. ASSUME NEW x \in Envs
        PROVE  [a \in Private |-> IF A(x) THEN R(x, a) ELSE Zero]' =
               IF x = e THEN [a \in Private |-> IF a = w THEN v ELSE R(e, a)]
               ELSE [a \in Private |-> IF A(x) THEN R(x, a) ELSE Zero]
    BY <2>1
  <2>3. mem' = [mem EXCEPT ![e][w] = v]
    <3>1. mem' = [x \in Envs |-> IF x = e THEN [a \in Private |-> IF a = w THEN v ELSE R(e, a)]
                                 ELSE [a \in Private |-> IF A(x) THEN R(x, a) ELSE Zero]]
      BY <2>2
    <3>2. [mem[e] EXCEPT ![w] = v] = [a \in Private |-> IF a = w THEN v ELSE R(e, a)]
      BY <2>1
    <3>3. QED  BY <3>1, <3>2
  <2>4. e \in {x \in Envs : A(x)}
    BY <2>1
  <2>5. QED  BY <1>9, <2>3, <2>4, ObjectsLemma DEF M!Store, A, R
<1>12. QED  BY <1>2, <1>8, <1>11 DEF M!Next, Vals

(* is seen by no other, one to the object by all that have it.              *)
LEMMA StoreSharedKLemma ==
    ASSUME IInv, JInv, KInv, NEW e \in Envs, NEW v \in Written, Store(e, "fd", v)
    PROVE  KInv' /\ M!Next
<1>1. /\ At(e, "run") /\ life[e] = "alive" /\ CanStore(e, "fd") /\ Framed
      /\ \A x \in Envs, a, b \in VA : ~ Hand(x, a, e, b)
      /\ \A y \in Envs, a, b \in VA : ~ Hand(e, a, y, b)
  BY AtJLemma DEF Store, Handing
<1>2. PICK f : f = pt[e]["fd"].frame
  OBVIOUS
<1>3. /\ pt' = pt /\ content' = [content EXCEPT ![f] = v] /\ UNCHANGED <<life, call, fault>>
      /\ "fd" \in VA /\ v \in Vals
  BY <1>2, VALemma DEF Store, Vals
<1>4. f \in Frames /\ f # NoFrame
  <2>1. pt[e]["fd"] \in Pte /\ pt[e]["fd"] # Unmapped
    BY <1>1, <1>3 DEF Framed, CanStore, Unmapped
  <2>2. QED  BY <1>1, <1>2, <1>3, <2>1 DEF Framed, Pte
<1>5. content'[f] = v /\ \A g \in Frames : g # f => content'[g] = content[g]
  BY <1>1, <1>3, <1>4 DEF Framed
<1>6. ASSUME NEW y \in Envs, NEW a \in VA, pt[y][a] # Unmapped
      PROVE  Held(y, a)' = IF pt[y][a].frame = f THEN v ELSE Held(y, a)
  <2>1. pt[y][a].frame \in Frames
    <3>1. pt[y][a] \in Pte
      BY <1>1 DEF Framed
    <3>2. QED  BY <1>1, <1>6, <3>1 DEF Framed, Pte
  <2>2. QED  BY <1>3, <1>5, <2>1 DEF Held
<1>7. ASSUME NEW y \in Envs  PROVE Kept(y, {})
  <2>1. SUFFICES ASSUME NEW a \in VA, a # "fd", pt[y][a] # Unmapped  PROVE Held(y, a)' = Held(y, a)
    BY DEF Kept
  <2>2. pt[y][a].frame # f
    <3>1. SUFFICES ASSUME pt[y][a].frame = f  PROVE FALSE
      OBVIOUS
    <3>2. Shared(e, "fd", y, a)
      BY <1>2, <1>4, <3>1 DEF Shared
    <3>3. Excused(e, "fd", y, a)
      BY <1>1, <1>3, <2>1, <3>2 DEF JInv, Apart
    <3>4. "SHARE" \in Perm(y, a)
      BY <1>1, <1>3, <3>3 DEF Excused
    <3>5. QED  BY <2>1, <3>4 DEF KInv, PermInv
  <2>3. QED  BY <1>6, <2>1, <2>2
<1>8. \A x, y \in Envs : Linked(x, y)' <=> Linked(x, y)
  BY <1>3 DEF Linked, Shared
<1>9. KInv'
  <2>1. ASSUME NEW x \in Envs  PROVE PermInv(x)'
    BY <1>3 DEF KInv, PermInv, Perm
  <2>2. ASSUME NEW x \in Envs, life[x] = "alive"  PROVE Pages(x)'
    BY <1>3, <1>7, <1>8, <2>2, PagesKeptLemma
  <2>3. QED  BY <1>3, <2>1, <2>2 DEF KInv
<1>10. M!StoreShared(e, v)
  <2> DEFINE A(x) == Alive(x)
             R(x, a) == Reads(x, a)
             O(x) == pt[x]["fd"].frame
             V(x) == content[pt[x]["fd"].frame]
             mem == [x \in Envs |-> [a \in Private |-> IF A(x) THEN R(x, a) ELSE Zero]]
             sharers == [x \in Envs |-> {y \in Envs : A(y) /\ A(x) /\ O(y) = O(x)}]
             value == [x \in Envs |-> IF A(x) THEN V(x) ELSE Zero]
  <2>1. \A x \in Envs, a \in Private : A(x) => R(x, a)' = R(x, a)
    BY <1>3, <1>7, ReadsKeptLemma DEF Alive
  <2>2. A(e) /\ \A x \in Envs : (A(x)' <=> A(x)) /\ O(x)' = O(x)
    BY <1>1, <1>3 DEF Alive
  <2>3. ASSUME NEW x \in Envs, A(x)  PROVE V(x)' = IF O(x) = O(e) THEN v ELSE V(x)
    <3>1. Perm(x, "fd") = {"W", "SHARE"}
      BY <2>3 DEF KInv, PermInv, Alive
    <3>2. pt[x]["fd"] # Unmapped
      BY <3>1 DEF Perm, Unmapped
    <3>3. QED  BY <1>2, <1>3, <1>6, <3>2 DEF Held
  <2> HIDE DEF A, R, O, V
  <2>4. mem' = mem
    BY <2>1, <2>2
  <2>5. {x \in Envs : A(x)}' = {x \in Envs : A(x)} /\ e \in {x \in Envs : A(x)}
    BY <2>2
  <2>6. sharers' = sharers
    <3>1. ASSUME NEW x \in Envs
          PROVE  {y \in Envs : A(y) /\ A(x) /\ O(y) = O(x)}' = {y \in Envs : A(y) /\ A(x) /\ O(y) = O(x)}
      BY <2>2
    <3>2. QED  BY <3>1
  <2>7. value' = [x \in Envs |-> IF x \in sharers[e] THEN v ELSE value[x]]
    BY <2>2, <2>3
  <2>8. QED  BY <2>4, <2>5, <2>6, <2>7 DEF M!StoreShared, A, R, O, V, Sharers
<1>11. QED  BY <1>3, <1>9, <1>10 DEF M!Next

\* The others see no difference when d is gone.
OthersSteady(d) ==
    /\ \A x \in Envs : (Alive(x)' <=> Alive(x) /\ x # d)
    /\ \A x \in Envs \ {d} : Alive(x) =>
         Held(x, "fd")' = Held(x, "fd") /\ \A a \in Private : Reads(x, a)' = Reads(x, a)
    /\ \A x, y \in Envs \ {d} : Alive(x) /\ Alive(y) => (SameObject(x, y)' <=> SameObject(x, y))

LEMMA EndLemma ==
    ASSUME NEW e \in Envs, Alive(e), OthersSteady(e) PROVE M!End(e)
<1> DEFINE A(x) == Alive(x)
           R(x, a) == Reads(x, a)
           O(x) == pt[x]["fd"].frame
           V(x) == content[pt[x]["fd"].frame]
           mem == [x \in Envs |-> [a \in Private |-> IF A(x) THEN R(x, a) ELSE Zero]]
           sharers == [x \in Envs |-> {y \in Envs : A(y) /\ A(x) /\ O(y) = O(x)}]
           value == [x \in Envs |-> IF A(x) THEN V(x) ELSE Zero]
           blank == [a \in Private |-> Zero]
<1>1. /\ A(e)
      /\ \A x \in Envs : A(x)' <=> A(x) /\ x # e
      /\ \A x \in Envs : A(x) /\ x # e => V(x)' = V(x)
      /\ \A x \in Envs, a \in Private : A(x) /\ x # e => R(x, a)' = R(x, a)
      /\ \A x, y \in Envs : A(x) /\ A(y) /\ x # e /\ y # e => (O(x)' = O(y)' <=> O(x) = O(y))
  BY DEF OthersSteady, SameObject, Held
<1> HIDE DEF A, R, O, V
<1>2. {x \in Envs : A(x)}' = {x \in Envs : A(x)} \ {e} /\ e \in {x \in Envs : A(x)}
  BY <1>1
<1>3. mem' = [mem EXCEPT ![e] = blank]
  <2>1. ASSUME NEW x \in Envs
        PROVE  [a \in Private |-> IF A(x) THEN R(x, a) ELSE Zero]' =
               IF x = e THEN blank ELSE [a \in Private |-> IF A(x) THEN R(x, a) ELSE Zero]
    BY <1>1
  <2>2. mem' = [x \in Envs |-> IF x = e THEN blank ELSE [a \in Private |-> IF A(x) THEN R(x, a) ELSE Zero]]
    BY <2>1
  <2>3. QED  BY <2>2
<1>4. value' = [value EXCEPT ![e] = Zero]
  BY <1>1
<1>5. sharers' = [x \in Envs |-> IF x = e THEN {} ELSE sharers[x] \ {e}]
  <2>1. ASSUME NEW x \in Envs
        PROVE  {y \in Envs : A(y) /\ A(x) /\ O(y) = O(x)}' =
               IF x = e THEN {} ELSE {y \in Envs : A(y) /\ A(x) /\ O(y) = O(x)} \ {e}
    <3>1. {y \in Envs : A(y) /\ A(x) /\ O(y) = O(x)}' = {y \in Envs : A(y)' /\ A(x)' /\ O(y)' = O(x)'}
      OBVIOUS
    <3>2. QED  BY <1>1, <3>1
  <2>2. QED  BY <2>1
<1>6. QED  BY <1>2, <1>3, <1>4, <1>5 DEF M!End, M!Blank, A, R, O, V, Sharers

(* The pages of a program that ends, or of a child that never ran, were its *)
(* own, or are still there for the others.                                  *)
LEMMA FreeKLemma ==
    ASSUME IInv, JInv, KInv, NEW e \in Envs, life[e] = "alive",
           NEW d \in Envs, d = e \/ (call[e].pc \in Building /\ d = Child(e)), EnvFree(d),
           life'[d] = "free", \A x \in Envs \ {d} : life'[x] = life[x] /\ fault'[x] = fault[x],
           \A x \in Envs \ {e} : call'[x] = call[x], d = e \/ Pages(e)'
    PROVE  KInv' /\ OthersSteady(d)
<1>1. /\ Framed' /\ pt'[d] = Nothing
      /\ \A x \in Envs \ {d}, a \in VA :
           Perm(x, a)' = Perm(x, a) /\ (pt'[x][a] = Unmapped <=> pt[x][a] = Unmapped)
      /\ \A x, y \in Envs, a, b \in VA : Shared(x, a, y, b)' <=>
           Shared(x, a, y, b) /\ x # d /\ y # d
      /\ \A x \in Envs \ {d}, a \in VA : pt[x][a] # Unmapped => Held(x, a)' = Held(x, a)
  BY FreeFramesLemma DEF JInv
<1>2. "fd" \in VA /\ Unmapped.perm = {} /\ Framed
  BY VALemma DEF Unmapped, JInv
<1>3. \A x \in Envs \ {d} : Kept(x, {})
  BY <1>1 DEF Kept
<1>4. \A x, y \in Envs \ {d} : Linked(x, y)' <=> Linked(x, y)
  BY <1>1, <1>2 DEF Linked
<1>5. d # e => life[d] = "embryo"
  BY DEF IInv, EnvInv, Growing, Made
<1>6. \A x \in Envs : PermInv(x)'
  <2>1. ASSUME NEW x \in Envs \ {d}  PROVE PermInv(x)'
    BY <1>1, <1>2 DEF KInv, PermInv
  <2>2. PermInv(d)'
    <3>1. \A a \in VA : pt'[d][a] = Unmapped
      BY <1>1 DEF Nothing
    <3>2. QED  BY <1>2, <3>1 DEF PermInv, Perm
  <2>3. QED  BY <2>1, <2>2
<1>7. ASSUME NEW x \in Envs, life'[x] = "alive"  PROVE Pages(x)'
  <2>1. x # d /\ life[x] = "alive"
    BY <1>7
  <2>2. CASE x = e
    BY <2>1, <2>2
  <2>3. CASE x # e
    <3>1. ASSUME NEW c \in Envs, c = Child(x), Made(x, c), call[x].pc \in Building
          PROVE  Kept(c, {}) /\ (Linked(x, c) => Linked(x, c)')
      <4>1. c # d
        <5>1. CASE d = e
          BY <3>1, <5>1 DEF Made
        <5>2. CASE d # e
          BY <2>3, <3>1, <5>2 DEF Made
        <5>3. QED  BY <5>1, <5>2
      <4>2. QED  BY <1>3, <1>4, <2>1, <4>1
    <3>2. QED  BY <1>3, <2>1, <2>3, <3>1, PagesKeptLemma
  <2>4. QED  BY <2>2, <2>3
<1>8. OthersSteady(d)
  <2>1. \A x \in Envs : Alive(x)' <=> Alive(x) /\ x # d
    BY DEF Alive
  <2>2. ASSUME NEW x \in Envs \ {d}, Alive(x)
        PROVE  /\ pt[x]["fd"].frame # NoFrame /\ pt'[x]["fd"].frame # NoFrame
               /\ Held(x, "fd")' = Held(x, "fd")
               /\ \A a \in Private : Reads(x, a)' = Reads(x, a)
    <3>1. Perm(x, "fd") = {"W", "SHARE"}
      BY <2>2 DEF KInv, PermInv, Alive
    <3>2. pt[x]["fd"] # Unmapped /\ pt'[x]["fd"] # Unmapped
      BY <1>1, <1>2, <3>1 DEF Perm
    <3>3. pt[x]["fd"].frame # NoFrame /\ pt'[x]["fd"].frame # NoFrame
      BY <1>1, <1>2, <3>2 DEF Framed
    <3>4. \A a \in Private : Reads(x, a)' = Reads(x, a)
      BY <1>3, <2>2, ReadsKeptLemma DEF Alive
    <3>5. QED  BY <1>1, <1>2, <3>2, <3>3, <3>4
  <2>3. ASSUME NEW x \in Envs \ {d}, NEW y \in Envs \ {d}, Alive(x), Alive(y)
        PROVE  SameObject(x, y)' <=> SameObject(x, y)
    <3>1. Shared(x, "fd", y, "fd")' <=> Shared(x, "fd", y, "fd")
      BY <1>1, <1>2
    <3>2. QED  BY <2>2, <2>3, <3>1 DEF SameObject, Shared
  <2>4. QED  BY <2>1, <2>2, <2>3 DEF OthersSteady
<1>9. QED  BY <1>6, <1>7, <1>8 DEF KInv

LEMMA DestroyKLemma ==
    ASSUME IInv, JInv, KInv, NEW e \in Envs, Destroy(e) PROVE KInv' /\ M!Next
<1>1. life[e] = "alive" /\ Alive(e)
  BY DEF Destroy, Runs, Alive
<1>2. /\ EnvFree(e) /\ life'[e] = "free"
      /\ \A x \in Envs \ {e} : call'[x] = call[x] /\ fault'[x] = fault[x] /\ life'[x] = life[x]
  BY DEF Destroy, IInv, TypeInv, Calls, Faults
<1>3. KInv' /\ OthersSteady(e)
  BY <1>1, <1>2, FreeKLemma
<1>4. QED  BY <1>1, <1>3, EndLemma DEF M!Next

LEMMA PanicKLemma ==
    ASSUME IInv, KInv, NEW e \in Envs, life[e] = "alive",
           UNCHANGED <<pt, content, call, fault>>, life' = [life EXCEPT ![e] = "panicked"]
    PROVE  KInv' /\ M!Next
<1>1. life'[e] = "panicked" /\ \A x \in Envs \ {e} : life'[x] = life[x]
  BY DEF IInv, TypeInv
<1>2. KInv'
  BY <1>1, QuietKLemma
<1>3. OthersSteady(e)
  BY <1>1 DEF OthersSteady, Alive, Held, Reads, FaultVa, SameObject
<1>4. QED  BY <1>2, <1>3, EndLemma DEF M!Next, Alive

(* A spawn that fails takes with it a child that no program knew.           *)
LEMMA SpawnErrorKLemma ==
    ASSUME IInv, JInv, KInv, NEW e \in Envs, NEW l, At(e, l), l \in {"segment", "read"},
           SpawnError(e), UNCHANGED fault
    PROVE  KInv' /\ Steady
<1>1. /\ life[e] = "alive" /\ fault[e].pc = "none" /\ call[e].pc = l /\ call[e].pc \in Building
  BY AtJLemma DEF Building, Stacked
<1>2. PICK c \in Envs \ {e} : c = Child(e) /\ Made(e, c)
  BY <1>1, AtJLemma
<1>3. /\ EnvFree(c) /\ call'[e].pc = "run" /\ \A x \in Envs \ {e} : call'[x] = call[x]
      /\ life'[c] = "free" /\ \A x \in Envs \ {c} : life'[x] = life[x]
  BY <1>1, <1>2, ReturnCallLemma DEF SpawnError, IInv, TypeInv
<1>4. Pages(e)'
  BY <1>1, <1>3, NoPagesLemma DEF Building, Forked, Stacked
<1>5. KInv' /\ OthersSteady(c)
  BY <1>1, <1>2, <1>3, <1>4, FreeKLemma
<1>6. ~ Alive(c)
  BY <1>2 DEF Made, Alive
<1>7. Steady
  BY <1>5, <1>6 DEF Steady, SameObjects, OthersSteady
<1>8. QED  BY <1>5, <1>7

-----------------------------------------------------------------------------
(* Every step keeps the pages, and is one of Memories or seen by nobody.    *)
Maps == KInv' /\ [M!Next]_(M!mvars)

LEMMA UnseenLemma == ASSUME KInv', Steady PROVE Maps
  BY StutterLemma DEF Maps

LEMMA SeenLemma == ASSUME KInv', M!Next PROVE Maps
  BY DEF Maps

LEMMA PanicMapsLemma ==
    ASSUME IInv, KInv, NEW e \in Envs, life[e] = "alive", Panic(e) PROVE Maps
  BY PanicKLemma, SeenLemma DEF Panic, memVars

(* So it is with spawn,                                                     *)
LEMMA SpawningMapsLemma ==
    ASSUME IInv, JInv, KInv, NEW e \in Envs, Spawning(e) PROVE Maps
<1> SUFFICES ASSUME ~ Maps  PROVE FALSE
  OBVIOUS
<1>1. ~ (KInv' /\ Steady) /\ ~ (KInv' /\ M!Next)
  BY UnseenLemma, SeenLemma
<1>2. CASE InitStack(e)
  <2>1. UNCHANGED <<life, fault>>
    BY <1>2 DEF InitStack
  <2>2. CASE At(e, "args") /\ TempAlloc(e, "args_fill")
    BY <1>1, <2>1, <2>2, TempAllocKLemma
  <2>3. CASE At(e, "args") /\ Return(e) /\ UNCHANGED memVars
    <3>1. (\A x \in Envs \ {e} : call'[x] = call[x]) /\ call'[e].pc = "run"
      BY <2>3, ReturnCallLemma DEF IInv
    <3>2. call'[e].pc \notin Building
      BY <3>1 DEF Building, Forked, Stacked
    <3>3. QED  BY <1>1, <2>1, <2>3, <3>1, <3>2, OnLemma DEF memVars
  <2>4. CASE At(e, "args_map") /\ Give(e, "stack") /\ Goto(e, "args_unmap")
    BY <1>1, <2>1, <2>4, GiveKLemma
  <2>5. CASE At(e, "args_map") /\ SysPageUnmap(e, e, "utemp") /\ Return(e)
    BY <1>1, <2>1, <2>5, UntempKLemma
  <2>6. CASE At(e, "args_unmap") /\ SysPageUnmap(e, e, "utemp") /\ Goto(e, "segment")
    BY <1>1, <2>1, <2>6, UntempKLemma
  <2>7. QED  BY <1>2, <2>2, <2>3, <2>4, <2>5, <2>6 DEF InitStack
<1>3. CASE ArgsFill(e)
  BY <1>1, <1>3, FillKLemma DEF ArgsFill
<1>4. CASE MapSegment(e)
  <2>1. UNCHANGED fault
    BY <1>4 DEF MapSegment
  <2>2. CASE /\ At(e, "segment") /\ SysPageAlloc(e, Child(e), "data", {"W"})
             /\ Goto(e, "next_shared") /\ UNCHANGED life
    BY <1>1, <2>1, <2>2, ChildFreshKLemma
  <2>3. CASE At(e, "segment") /\ TempAlloc(e, "read") /\ UNCHANGED life
    BY <1>1, <2>1, <2>3, TempAllocKLemma
  <2>4. CASE At(e, "seg_map") /\ Give(e, "data") /\ Goto(e, "seg_unmap") /\ UNCHANGED life
    BY <1>1, <2>1, <2>4, GiveKLemma
  <2>5. CASE /\ At(e, "seg_unmap") /\ SysPageUnmap(e, e, "utemp")
             /\ Goto(e, "next_shared") /\ UNCHANGED life
    BY <1>1, <2>1, <2>5, UntempKLemma
  <2>6. CASE (At(e, "segment") \/ At(e, "read")) /\ SpawnError(e)
    BY <1>1, <2>1, <2>6, SpawnErrorKLemma
  <2>7. CASE At(e, "seg_map") /\ Panic(e)
    BY <2>7, AtJLemma, PanicMapsLemma
  <2>8. QED  BY <1>4, <2>2, <2>3, <2>4, <2>5, <2>6, <2>7 DEF MapSegment
<1>5. CASE SegmentRead(e)
  BY <1>1, <1>5, FillKLemma DEF SegmentRead
<1>6. CASE CopyShared(e)
  <2>1. At(e, "next_shared")
    BY <1>6 DEF CopyShared
  <2>2. QED  BY <1>1, <1>6, <2>1, AtJLemma, PanicMapsLemma, CopySharedKLemma
<1>7. CASE SpawnStart(e)
  BY <1>1, <1>7, StartsKLemma DEF SpawnStart
<1>8. QED  BY <1>2, <1>3, <1>4, <1>5, <1>6, <1>7 DEF Spawning

(* fork,                                                                    *)
LEMMA ForkingMapsLemma ==
    ASSUME IInv, JInv, KInv, NEW e \in Envs, Forking(e) PROVE Maps
<1> SUFFICES ASSUME ~ Maps  PROVE FALSE
  OBVIOUS
<1>1. ~ (KInv' /\ Steady) /\ ~ (KInv' /\ M!Next)
  BY UnseenLemma, SeenLemma
<1>2. ASSUME NEW l, At(e, l), UNCHANGED <<pt, content, life, fault>>, NEW m \in {"set_upcall", "exofork"},
             Goto(e, m)
      PROVE  FALSE
  <2>1. (\A x \in Envs \ {e} : call'[x] = call[x]) /\ call'[e].pc = m
    BY <1>2, GotoLemma DEF IInv
  <2>2. call'[e].pc \notin Building
    BY <2>1 DEF Building, Forked, Stacked
  <2>3. QED  BY <1>1, <1>2, <2>1, <2>2, OnLemma
<1>3. ASSUME NEW l, At(e, l), UNCHANGED <<pt, content, life, fault>>, Return(e)
      PROVE  FALSE
  <2>1. (\A x \in Envs \ {e} : call'[x] = call[x]) /\ call'[e].pc = "run"
    BY <1>3, ReturnCallLemma DEF IInv
  <2>2. call'[e].pc \notin Building
    BY <2>1 DEF Building, Forked, Stacked
  <2>3. QED  BY <1>1, <1>3, <2>1, <2>2, OnLemma
<1>4. CASE SetHandler(e)
  BY <1>2, <1>4 DEF SetHandler, memVars
<1>5. CASE SetUpcall(e)
  BY <1>2, <1>5 DEF SetUpcall, memVars
<1>6. CASE ForkExofork(e)
  BY <1>1, <1>6, ExoforkKLemma DEF ForkExofork
<1>7. CASE NextPage(e)
  BY <1>1, <1>7, NextPageKLemma
<1>8. CASE DupChild(e)
  <2>1. At(e, "dup_child")
    BY <1>8 DEF DupChild
  <2>2. QED  BY <1>1, <1>8, <2>1, AtJLemma, PanicMapsLemma, DupChildKLemma
<1>9. CASE DupOwn(e)
  BY <1>1, <1>9, DupOwnKLemma
<1>10. CASE ChildXstack(e)
  BY <1>1, <1>3, <1>10, ChildFreshKLemma DEF ChildXstack, memVars
<1>11. CASE ChildUpcall(e)
  <2>1. /\ At(e, "child_upcall") /\ Goto(e, "start") /\ UNCHANGED <<pt, content, life, fault>>
    BY <1>11 DEF ChildUpcall, memVars
  <2>2. call[e].pc = "child_upcall" /\ "child_upcall" \in Building
    BY <2>1, AtJLemma DEF Building, Forked
  <2>3. PICK c \in Envs \ {e} : c = Child(e) /\ Made(e, c)
    BY <2>1, <2>2, AtJLemma
  <2>4. /\ \A x \in Envs \ {e} : call'[x] = call[x]
        /\ call'[e].pc = "start" /\ call'[e].child = call[e].child
    BY <2>1, GotoLemma DEF IInv
  <2>5. OwnPages(e)
    BY <2>4 DEF OwnPages, Early
  <2>6. Gives(e, c, {})
    <3>1. \A i : Copied(e, i)
      BY <2>2 DEF Copied
    <3>2. QED  BY <2>2, <2>4, <3>1 DEF Gives, Forked, Stacked, Loaded
  <2>7. QED  BY <1>1, <2>1, <2>2, <2>3, <2>4, <2>5, <2>6, BuildOnLemma
<1>12. CASE ForkStart(e)
  BY <1>1, <1>12, StartsKLemma DEF ForkStart
<1>13. CASE ThisEnv(e)
  BY <1>3, <1>13 DEF ThisEnv, memVars
<1>14. QED
  BY <1>4, <1>5, <1>6, <1>7, <1>8, <1>9, <1>10, <1>11, <1>12, <1>13 DEF Forking

(* the handler,                                                             *)
LEMMA HandlerMapsLemma ==
    ASSUME IInv, JInv, KInv, NEW e \in Envs, Handler(e) PROVE Maps
<1>1. CASE PgfaultAlloc(e)
  <2>1. InHandler(e, "alloc") /\ UNCHANGED call
    BY <1>1 DEF PgfaultAlloc
  <2>2. life[e] = "alive" /\ "COW" \in pt[e][FaultVa(e)].perm
    BY <2>1, InHandlerLemma DEF Sound, Perm, FaultVa
  <2>3. CASE SysPageAlloc(e, e, "pftemp", {"W"}) /\ HandlerTo(e, "copy") /\ UNCHANGED life
    BY <2>1, <2>3, PgfaultAllocKLemma, UnseenLemma
  <2>4. CASE life' = [life EXCEPT ![e] = "panicked"] /\ UNCHANGED <<memVars, fault>>
    BY <2>1, <2>2, <2>4, PanicKLemma, SeenLemma DEF memVars
  <2>5. QED  BY <1>1, <2>2, <2>3, <2>4 DEF PgfaultAlloc
<1>2. CASE PgfaultCopy(e)
  BY <1>2, PgfaultCopyKLemma, UnseenLemma
<1>3. CASE PgfaultUnmap(e)
  BY <1>3, PgfaultUnmapKLemma, UnseenLemma
<1>4. CASE PgfaultMap(e)
  BY <1>4, PgfaultMapKLemma, UnseenLemma
<1>5. CASE PgfaultUntemp(e)
  BY <1>5, PgfaultUntempKLemma, UnseenLemma
<1>6. QED  BY <1>1, <1>2, <1>3, <1>4, <1>5 DEF Handler

(* and the program.                                                         *)
LEMMA ProgramMapsLemma ==
    ASSUME IInv, JInv, KInv, NEW e \in Envs, Program(e) PROVE Maps
<1>1. CASE ForkCall(e)
  <2>1. At(e, "run") /\ UNCHANGED fault
    BY <1>1 DEF ForkCall
  <2>2. ASSUME Goto(e, "set_handler")
        PROVE  (\A x \in Envs \ {e} : call'[x] = call[x]) /\ call'[e].pc \notin Building
    <3>1. (\A x \in Envs \ {e} : call'[x] = call[x]) /\ call'[e].pc = "set_handler"
      BY <2>2, GotoLemma DEF IInv
    <3>2. QED  BY <3>1 DEF Building, Forked, Stacked
  <2>3. CASE UNCHANGED <<memVars, life>> /\ Goto(e, "set_handler")
    BY <2>1, <2>2, <2>3, OnLemma, UnseenLemma DEF memVars
  <2>4. CASE SysPageAlloc(e, e, "xstack", {"W"}) /\ UNCHANGED life /\ Goto(e, "set_handler")
    <3>1. PICK w \in {"utemp", "xstack"} : w = "xstack" /\ w \in VA
      BY VALemma
    <3>2. OneEntry(e, w) /\ "SHARE" \notin Perm(e, w)'
      BY <2>4, <3>1, FreshFramesLemma
    <3>3. QED  BY <2>1, <2>2, <2>4, <3>2, EntryOnLemma, UnseenLemma
  <2>5. CASE Panic(e)
    BY <2>1, <2>5, AtJLemma, PanicMapsLemma
  <2>6. QED  BY <1>1, <2>3, <2>4, <2>5 DEF ForkCall
<1>2. CASE SpawnExofork(e)
  BY <1>2, ExoforkKLemma, UnseenLemma DEF SpawnExofork
<1>3. ASSUME NEW va \in {"data", "fd"}, NEW v \in Written, Store(e, va, v)  PROVE Maps
  BY <1>3, StoreDataKLemma, StoreSharedKLemma, SeenLemma
<1>4. CASE Destroy(e)
  BY <1>4, DestroyKLemma, SeenLemma
<1>5. QED  BY <1>1, <1>2, <1>3, <1>4 DEF Program

LEMMA NextMapsLemma == IInv /\ JInv /\ KInv /\ [Next]_vars => Maps
<1> SUFFICES ASSUME IInv, JInv, KInv, [Next]_vars  PROVE Maps
  OBVIOUS
<1>1. CASE UNCHANGED vars
  <2>1. UNCHANGED <<pt, content, life, call, fault>>
    BY <1>1 DEF vars, memVars
  <2>2. KInv'
    <3>1. \A x \in Envs : PermInv(x)'
      BY <2>1 DEF KInv, PermInv, Perm
    <3>2. \A x \in Envs : life[x] = "alive" => Pages(x)'
      BY <2>1, QuietPagesLemma
    <3>3. QED  BY <2>1, <3>1, <3>2 DEF KInv
  <2>3. Steady
    BY <2>1, QuietSteadyLemma
  <2>4. QED  BY <2>2, <2>3, UnseenLemma
<1>2. ASSUME NEW e \in Envs, NEW va \in VA, PageFault(e, va)  PROVE Maps
  BY <1>2, PageFaultKLemma, UnseenLemma
<1>3. QED
  BY <1>1, <1>2, ProgramMapsLemma, HandlerMapsLemma, ForkingMapsLemma, SpawningMapsLemma DEF Next, Library

(* The first program has an empty memory, and its object for itself.        *)
LEMMA InitKLemma == Init => KInv
<1> SUFFICES ASSUME Init  PROVE KInv
  OBVIOUS
<1>1. \A e \in Envs : call[e].pc = "run" /\ fault[e].pc = "none"
  BY DEF Init, NoCall, NoFault
<1>2. \A e \in Envs : Pages(e)
  BY <1>1 DEF Pages, Early, Building, Forked, Stacked
<1>3. ASSUME NEW e \in Envs, e # Root  PROVE PermInv(e)
  <2>1. \A a \in VA : pt[e][a] = Unmapped
    BY <1>3 DEF Init, Nothing
  <2>2. QED  BY <1>3, <2>1, VALemma DEF PermInv, Perm, Unmapped, Init
<1>4. PermInv(Root)
  <2>1. \A a \in VA : Perm(Root, a) = IF a \notin Private \cup {"fd"} THEN {}
                                     ELSE IF a = "fd" THEN {"W", "SHARE"} ELSE {"W"}
    BY EnvsAssumption DEF Init, Perm, Unmapped
  <2>2. QED  BY <2>1, VALemma DEF PermInv
<1>5. QED  BY <1>2, <1>3, <1>4 DEF KInv

LEMMA InitMapsLemma == Init => M!Init
<1> SUFFICES ASSUME Init  PROVE M!Init
  OBVIOUS
<1>1. Root \in Envs /\ \A e \in Envs : Alive(e) <=> e = Root
  BY EnvsAssumption DEF Init, Alive
<1>2. \A e \in Envs : fault[e].pc = "none"
  BY DEF Init, NoFault
<1>3. \A a \in Private \cup {"fd"} : content[pt[Root][a].frame] = Zero
  <2>1. ASSUME NEW a \in Private \cup {"fd"}  PROVE content[pt[Root][a].frame] = Zero
    <3>1. a \in VA
      BY VALemma DEF Private
    <3>2. pt[Root][a].frame = Number[Root][a]
      BY <1>1, <3>1 DEF Init
    <3>3. Number[Root][a] \in Frames
      BY <1>1, <3>1, NumberLemma
    <3>4. QED  BY <3>2, <3>3 DEF Init
  <2>2. QED  BY <2>1
<1>4. \A a \in Private : Reads(Root, a) = Zero
  BY <1>1, <1>2, <1>3 DEF Reads
<1>5. {e \in Envs : Alive(e)} = {Root}
  BY <1>1
<1>6. [e \in Envs |-> Sharers(e)] = [e \in Envs |-> IF e = Root THEN {Root} ELSE {}]
  <2>1. \A e \in Envs : Sharers(e) = IF e = Root THEN {Root} ELSE {}
    BY <1>1 DEF Sharers
  <2>2. QED  BY <2>1
<1>7. [e \in Envs |-> [a \in Private |-> IF Alive(e) THEN Reads(e, a) ELSE Zero]] =
      [e \in Envs |-> [a \in Private |-> Zero]]
  BY <1>1, <1>4
<1>8. [e \in Envs |-> IF Alive(e) THEN content[pt[e]["fd"].frame] ELSE Zero] = [e \in Envs |-> Zero]
  BY <1>1, <1>3
<1>9. QED  BY <1>1, <1>5, <1>6, <1>7, <1>8 DEF M!Init, M!Blank

LEMMA KInvLemma == Spec => []KInv
<1>1. IInv /\ JInv /\ KInv /\ [Next]_vars => KInv'
  BY NextMapsLemma DEF Maps
<1>2. QED  BY <1>1, InitKLemma, IInvTheorem, JInvLemma, PTL DEF Spec

(* For any number of programs: whatever pages fork, spawn and the page-fault*)
(* handler share, copy and move, programs see the memories of Memories.     *)
THEOREM ImplementsMemories == Spec => MemoriesSpec
<1>1. IInv /\ JInv /\ KInv /\ [Next]_vars => [M!Next]_(M!mvars)
  BY NextMapsLemma DEF Maps
<1>2. QED
  BY <1>1, InitMapsLemma, KInvLemma, IInvTheorem, JInvLemma, PTL DEF Spec, MemoriesSpec, M!Spec
=============================================================================
