----------------------------- MODULE AddrSpaces -----------------------------
(***************************************************************************)
(* What the memory system calls promise to programs, without page tables,  *)
(* reference counts or a free list: every environment has an address space *)
(* that maps addresses to pages, pages are shared only by an explicit call *)
(* that cannot add the right to write, and the contents of a page change   *)
(* only when a program that may write it does.  PhysMem implements this.   *)
(***************************************************************************)
CONSTANTS
    Envs,      \* environments
    Pages,     \* pages of memory
    VA,        \* page-aligned addresses below UTOP
    None,      \* "nothing is mapped here"
    Unborn     \* the address space of a free environment

VARIABLES
    space,     \* space[e][va]: what e has mapped at va
    content    \* content[p]: what a program that has p mapped reads in it

avars == <<space, content>>

Entry   == Pages \X BOOLEAN                       \* the page; writable or not
Live    == {e \in Envs : space[e] # Unborn}
Mapped  == {p \in Pages : \E e \in Live, va \in VA : space[e][va] # None /\ space[e][va][1] = p}

\* A page that the step leaves mapped nowhere has no content.
Reading(s, contents) ==
    [p \in Pages |->
        IF \E e \in Envs : s[e] # Unborn /\ \E va \in VA : s[e][va] # None /\ s[e][va][1] = p
        THEN contents[p] ELSE "none"]

Init ==
    /\ space = [e \in Envs |-> Unborn]
    /\ content = [p \in Pages |-> "none"]

Become(s, contents) == space' = s /\ content' = Reading(s, contents)

Create(e) ==
    /\ space[e] = Unborn
    /\ Become([space EXCEPT ![e] = [va \in VA |-> None]], content)

Destroy(e) ==
    /\ e \in Live
    /\ Become([space EXCEPT ![e] = Unborn], content)

\* A page nobody has, reading as zeroes.
Alloc(e, va, w) ==
    /\ e \in Live
    /\ \E p \in Pages \ Mapped :
        Become([space EXCEPT ![e][va] = <<p, w>>], [content EXCEPT ![p] = "zero"])

\* The same page at another address: writable only if it was so for the source.
Share(src, sva, dst, dva, w) ==
    /\ {src, dst} \subseteq Live
    /\ space[src][sva] # None
    /\ w => space[src][sva][2]
    /\ Become([space EXCEPT ![dst][dva] = <<space[src][sva][1], w>>], content)

Unmap(e, va) ==
    /\ e \in Live
    /\ Become([space EXCEPT ![e][va] = None], content)

Write(e, va) ==
    /\ e \in Live
    /\ space[e][va] # None /\ space[e][va][2]
    /\ Become(space, [content EXCEPT ![space[e][va][1]] = "data"])

Next ==
    \E e \in Envs :
        \/ Create(e) \/ Destroy(e)
        \/ \E va \in VA :
            \/ Unmap(e, va) \/ Write(e, va)
            \/ \E w \in BOOLEAN : Alloc(e, va, w)
            \/ \E d \in Envs, dva \in VA, w \in BOOLEAN : Share(e, va, d, dva, w)

Spec == Init /\ [][Next]_avars
=============================================================================
