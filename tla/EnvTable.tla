------------------------------ MODULE EnvTable ------------------------------
(***************************************************************************)
(* The table of environments kept by kern/env.c: the slots of envs[], the  *)
(* free list threaded through them, the ids with which user programs name  *)
(* environments, and the allocation, release and lookup operations.  Every *)
(* operation is an action fragment: the system calls of JosKernel combine  *)
(* them with what happens to the CPU that executes them, under the big     *)
(* kernel lock.                                                            *)
(***************************************************************************)
EXTENDS Integers, Sequences

CONSTANTS
    NENV,      \* number of slots of envs[] (inc/env.h)
    MaxGen     \* generations an id can hold before env_alloc starts over

ASSUME NENVAssumption == NENV \in Nat \ {0, 1}
ASSUME MaxGenAssumption == MaxGen \in Nat \ {0}

VARIABLES
    status,    \* envs[s].env_status
    gen,       \* the generation bits of envs[s].env_id
    parent,    \* envs[s].env_parent_id
    recving,   \* envs[s].env_ipc_recving
    ran,       \* envs[s].env_runs # 0
    freeList   \* env_free_list, followed through env_link

envVars == <<status, gen, parent, recving, ran, freeList>>

Slots == 0 .. NENV - 1

\* An envid_t is the pair of its generation bits and its slot, ENVX(id).
EnvId == (0 .. MaxGen) \X Slots
NoId  == <<0, 0>>

Status == {"FREE", "DYING", "RUNNABLE", "RUNNING", "NOT_RUNNABLE"}

\* The id under which slot s is, or was last, allocated.
IdOf(s) == <<gen[s], s>>

-----------------------------------------------------------------------------
(* env_init: every slot is free, slot 0 at the head of the list.            *)
EnvInit ==
    /\ status = [s \in Slots |-> "FREE"]
    /\ gen = [s \in Slots |-> 0]
    /\ parent = [s \in Slots |-> NoId]
    /\ recving = [s \in Slots |-> FALSE]
    /\ ran = [s \in Slots |-> FALSE]
    /\ freeList = [i \in 1 .. NENV |-> i - 1]

\* The bug "a slot is looked up without comparing status and id".
Envid2EnvStale(cur, id, checkperm) ==
    {s \in Slots :
        /\ s = id[2]
        /\ checkperm => s = cur \/ parent[s] = IdOf(cur)}

(* envid2env: the slot id names for the environment in slot cur, as a set    *)
(* of at most one slot; empty stands for -E_BAD_ENV.                        *)
Envid2Env(cur, id, checkperm) ==
    {s \in Slots :
        \/ id = NoId /\ s = cur
        \/ /\ id # NoId
           /\ s = id[2]
           /\ status[s] # "FREE"
           /\ IdOf(s) = id
           /\ checkperm => s = cur \/ parent[s] = IdOf(cur)}

\* The bug "the sign of the new id is not tested".
NextGenUnchecked(g) == g + 1

(* The generation after g; the sign test of env_alloc makes it start over.   *)
NextGen(g) == IF g + 1 > MaxGen THEN 1 ELSE g + 1

\* The bug "a new environment inherits the slot's env_ipc_recving".
EnvAllocKeepsRecving(parentId, newStatus) ==
    /\ freeList # <<>>
    /\ LET e == Head(freeList) IN
        /\ gen' = [gen EXCEPT ![e] = NextGen(gen[e])]
        /\ parent' = [parent EXCEPT ![e] = parentId]
        /\ status' = [status EXCEPT ![e] = newStatus]
        /\ ran' = [ran EXCEPT ![e] = FALSE]
    /\ freeList' = Tail(freeList)
    /\ UNCHANGED recving

(* env_alloc: takes the head of the free list.  newStatus is the status the  *)
(* caller leaves it in: RUNNABLE from env_create, NOT_RUNNABLE from          *)
(* sys_exofork.  Running out of slots or of memory changes nothing.          *)
EnvAlloc(parentId, newStatus) ==
    /\ freeList # <<>>
    /\ LET e == Head(freeList) IN
        /\ gen' = [gen EXCEPT ![e] = NextGen(gen[e])]
        /\ parent' = [parent EXCEPT ![e] = parentId]
        /\ status' = [status EXCEPT ![e] = newStatus]
        /\ recving' = [recving EXCEPT ![e] = FALSE]
        /\ ran' = [ran EXCEPT ![e] = FALSE]
    /\ freeList' = Tail(freeList)

(* env_free: the slot goes back to the head of the list, keeping its id.     *)
EnvFree(s) ==
    /\ status' = [status EXCEPT ![s] = "FREE"]
    /\ freeList' = <<s>> \o freeList
    /\ UNCHANGED <<gen, parent, recving, ran>>

-----------------------------------------------------------------------------
EnvTypeOK ==
    /\ status \in [Slots -> Status]
    /\ gen \in [Slots -> 0 .. MaxGen]
    /\ parent \in [Slots -> EnvId]
    /\ recving \in [Slots -> BOOLEAN]
    /\ ran \in [Slots -> BOOLEAN]
    /\ freeList \in Seq(Slots)

(* The free list of env.c holds exactly the slots whose status is FREE, each *)
(* of them once: freeing a slot twice, or running a freed one, breaks it.    *)
FreeListExact ==
    /\ \A i, j \in 1 .. Len(freeList) : freeList[i] = freeList[j] => i = j
    /\ \A s \in Slots :
        status[s] = "FREE" <=> \E i \in 1 .. Len(freeList) : freeList[i] = s
=============================================================================
