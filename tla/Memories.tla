------------------------------ MODULE Memories ------------------------------
(***************************************************************************)
(* What fork and spawn promise to programs, without pages, page faults or  *)
(* copies: every program has a memory of its own; a forked child starts    *)
(* with its parent's, a spawned one with a fresh one; a store changes the  *)
(* memory of the program that makes it and of no other.  Only an object    *)
(* that is shared on purpose (a page marked PTE_SHARE) is one and the same *)
(* for all that inherited it.  Fork implements this.                       *)
(***************************************************************************)
CONSTANTS
    Envs,      \* environments
    Private,   \* the places of a program's own memory
    Vals,      \* values
    Images,    \* the memories a spawned program may start with
    Zero       \* what memory reads as that nobody has

VARIABLES
    alive,     \* the programs
    mem,       \* mem[e][a]: what e reads at a
    sharers,   \* sharers[e]: the programs that have the same object as e
    value      \* value[e]: what e reads in its object

mvars == <<alive, mem, sharers, value>>

Blank == [a \in Private |-> Zero]

Init ==
    /\ \E root \in Envs :
        /\ alive = {root}
        /\ sharers = [e \in Envs |-> IF e = root THEN {root} ELSE {}]
    /\ mem = [e \in Envs |-> Blank]
    /\ value = [e \in Envs |-> Zero]

Store(e, a, v) ==
    /\ e \in alive
    /\ mem' = [mem EXCEPT ![e][a] = v]
    /\ UNCHANGED <<alive, sharers, value>>

StoreShared(e, v) ==
    /\ e \in alive
    /\ value' = [x \in Envs |-> IF x \in sharers[e] THEN v ELSE value[x]]
    /\ UNCHANGED <<alive, mem, sharers>>

\* The child inherits the parent's object.
Begin(parent, child, memory) ==
    LET together == sharers[parent] \cup {child} IN
    /\ parent \in alive /\ child \notin alive
    /\ alive' = alive \cup {child}
    /\ mem' = [mem EXCEPT ![child] = memory]
    /\ sharers' = [x \in Envs |-> IF x \in together THEN together ELSE sharers[x]]
    /\ value' = [value EXCEPT ![child] = value[parent]]

Fork(parent, child)  == Begin(parent, child, mem[parent])
Spawn(parent, child) == \E memory \in Images : Begin(parent, child, memory)

End(e) ==
    /\ e \in alive
    /\ alive' = alive \ {e}
    /\ mem' = [mem EXCEPT ![e] = Blank]
    /\ sharers' = [x \in Envs |-> IF x = e THEN {} ELSE sharers[x] \ {e}]
    /\ value' = [value EXCEPT ![e] = Zero]

Next ==
    \E e \in Envs :
        \/ End(e)
        \/ \E v \in Vals : StoreShared(e, v) \/ \E a \in Private : Store(e, a, v)
        \/ \E c \in Envs : Fork(e, c) \/ Spawn(e, c)

Spec == Init /\ [][Next]_mvars
=============================================================================
