------------------------------ MODULE OpenFiles -------------------------------
(***************************************************************************)
(* What open files promise to programs, without the file server, its table *)
(* or its messages: open gives an open file, with an offset of its own,    *)
(* that nobody else has unless it inherited it; a call acts on the open    *)
(* file its descriptor names, exactly once, between the request and the    *)
(* answer; a read or write moves the offset by what it answers, at some    *)
(* moment before the answer.  FileServer implements this.                  *)
(***************************************************************************)
EXTENDS Integers

CONSTANTS
    Clients, Descriptors, Files,
    Objects,      \* open files
    Capacity,     \* the bytes a file has room for
    Absent,       \* the size of a file that does not exist
    None

VARIABLES
    size,      \* size[f]
    held,      \* held[c][k]: the open file c has as descriptor k
    object,    \* object[o]: its file and its offset
    asked,     \* asked[c]: the call c is waiting for, and how far it has got
    orphans    \* calls whose caller died: they may still act

ovars == <<size, held, object, asked, orphans>>

Error    == -1
Answers  == Error .. 3 * Capacity
Ops      == {"open", "read", "write", "stat", "set_size", "flush"}
Calls    == [op : Ops, fd : Descriptors, file : Files \cup {None},
             mode : SUBSET {"CREAT", "EXCL", "TRUNC"}, n : 0 .. Capacity,
             stage : {"asked", "moving", "done"}, answer : Answers]
NoneHeld == [k \in Descriptors |-> None]
InUse(o) == \E c \in Clients, k \in Descriptors : held[c][k] = o
Least(a, b) == IF a < b THEN a ELSE b

Init ==
    /\ size \in [Files -> (0 .. Capacity) \cup {Absent}]
    /\ held = [c \in Clients |-> NoneHeld]
    /\ object = [o \in Objects |-> None]
    /\ asked = [c \in Clients |-> None]
    /\ orphans = {}

(* An open file that nobody holds is gone.                                  *)
Forget(h, obj) == [o \in Objects |->
    IF \E c \in Clients, k \in Descriptors : h[c][k] = o THEN obj[o] ELSE None]

-----------------------------------------------------------------------------
(* What a call does to the sizes, and what it answers.                      *)
Resized(f, s) == size' = [size EXCEPT ![f] = s]
Larger(a, b)  == IF a > b THEN a ELSE b

\* An open creates a file that does not exist only if it says so.
MayOpen(call) ==
    IF size[call.file] = Absent THEN "CREAT" \in call.mode
    ELSE ~ {"CREAT", "EXCL"} \subseteq call.mode
Opened(call) == \E s \in 0 .. 3 * Capacity :
    /\ "TRUNC" \in call.mode => s = 0
    /\ "TRUNC" \notin call.mode /\ size[call.file] # Absent => s = size[call.file]
    /\ Resized(call.file, s)

\* A transfer of n bytes from an offset.
Fits(at, n) == IF n = 0 \/ at + n <= Capacity THEN n ELSE Error

(* A call on the open file x.  A write that fails has made the file larger. *)
Act(call, x, r) == \E f \in {x.file}, at \in {x.offset} :
    \/ /\ call.op = "read" /\ size' = size
       /\ r = IF at >= size[f] THEN Fits(at, 0) ELSE Fits(at, Least(call.n, size[f] - at))
    \/ /\ call.op = "write" /\ r = Fits(at, call.n)
       /\ Resized(f, Larger(size[f], at + call.n))
    \/ call.op = "stat"     /\ r = size[f] /\ size' = size
    \/ call.op = "set_size" /\ r = 0 /\ Resized(f, call.n)
    \/ call.op = "flush"    /\ r = 0 /\ size' = size

\* A read or write still has to move the offset.
Later(call, r) ==
    [call EXCEPT !.answer = r,
                 !.stage = IF call.op \in {"read", "write"} /\ r > 0 THEN "moving" ELSE "done"]

-----------------------------------------------------------------------------
(* The steps of one caller.  Stage(c, s) is the call it waits for, if that *)
(* has got so far.                                                          *)
Stage(c, s) == {call \in {asked[c]} \ {None} : call.stage = s}

Given(c) == {call.answer : call \in {asked[c]} \ {None}}

Ask(c) == \E call \in {asked'[c]} :
    /\ asked[c] = None /\ call \in Calls /\ call.stage = "asked"
    /\ (call.op = "open") = (held[c][call.fd] = None)
    /\ asked' = [asked EXCEPT ![c] = call]
    /\ UNCHANGED <<size, held, object, orphans>>

Perform(c) == \E call \in Stage(c, "asked"), r \in Given(c)' :
    /\ call.op # "open" /\ r \in Answers
    /\ Act(call, object[held[c][call.fd]], r)
    /\ asked' = [asked EXCEPT ![c] = Later(call, r)]
    /\ UNCHANGED <<held, object, orphans>>

Move(c) == \E call \in Stage(c, "moving") :
    /\ object' = [object EXCEPT ![held[c][call.fd]].offset = @ + call.answer]
    /\ asked' = [asked EXCEPT ![c].stage = "done"]
    /\ UNCHANGED <<size, held, orphans>>

OpenFile(c) == \E call \in Stage(c, "asked") :
    /\ call.op = "open" /\ MayOpen(call) /\ Opened(call)
    /\ \E o \in Objects :
        /\ ~ InUse(o)
        /\ held' = [held EXCEPT ![c][call.fd] = o]
        /\ object' = [object EXCEPT ![o] = [file |-> call.file, offset |-> 0]]
    /\ asked' = [asked EXCEPT ![c] = Later(call, 0)]
    /\ UNCHANGED orphans

OpenFails(c) == \E call \in Stage(c, "asked") :
    /\ call.op = "open"
    /\ asked' = [asked EXCEPT ![c] = Later(call, Error)]
    /\ UNCHANGED <<size, held, object, orphans>>

\* The call returns; close gives up the descriptor.
Return(c) == \E call \in Stage(c, "done") :
    /\ asked' = [asked EXCEPT ![c] = None]
    /\ held' = IF call.op = "flush" THEN [held EXCEPT ![c][call.fd] = None] ELSE held
    /\ object' = Forget(held', object)
    /\ UNCHANGED <<size, orphans>>

Seek(c) == \E k \in Descriptors, s \in 0 .. Capacity :
    /\ asked[c] = None /\ held[c][k] # None
    /\ object' = [object EXCEPT ![held[c][k]].offset = s]
    /\ UNCHANGED <<size, held, asked, orphans>>

Inherit(c, d) ==
    /\ asked[c] = None /\ asked[d] = None
    /\ held[d] = NoneHeld
    /\ held' = [held EXCEPT ![d] = held[c]]
    /\ UNCHANGED <<size, object, asked, orphans>>

\* The caller dies.  What it asked for last may still happen, or the rest of it.
Die(c) ==
    /\ asked' = [asked EXCEPT ![c] = None]
    /\ held' = [held EXCEPT ![c] = NoneHeld]
    /\ object' = Forget(held', object)
    /\ orphans' \in {orphans} \cup
           {orphans \cup {[call |-> call, on |-> held[c][call.fd]]} :
                call \in Stage(c, "asked") \cup Stage(c, "moving")}
    /\ UNCHANGED size

-----------------------------------------------------------------------------
(* A call without a caller acts as long as somebody has the open file.      *)
OrphanActs == \E x \in orphans, r \in Answers :
    /\ x.call.stage = "asked"
    /\ IF x.call.op = "open" THEN r = 0 /\ MayOpen(x.call) /\ Opened(x.call)
       ELSE InUse(x.on) /\ Act(x.call, object[x.on], r)
    /\ orphans' \in {orphans \ {x}, (orphans \ {x}) \cup {[x EXCEPT !.call = Later(@, r)]}}
    /\ UNCHANGED <<held, object, asked>>

OrphanMoves == \E x \in orphans :
    /\ x.call.stage = "moving" /\ InUse(x.on)
    /\ object' = [object EXCEPT ![x.on].offset = @ + x.call.answer]
    /\ orphans' = orphans \ {x}
    /\ UNCHANGED <<size, held, asked>>

OrphanLapses == \E x \in orphans :
    /\ orphans' = orphans \ {x}
    /\ UNCHANGED <<size, held, object, asked>>

Next ==
    \/ OrphanActs \/ OrphanMoves \/ OrphanLapses
    \/ \E c \in Clients :
        \/ Ask(c) \/ Perform(c) \/ Move(c) \/ OpenFile(c) \/ OpenFails(c) \/ Return(c)
        \/ Seek(c) \/ Die(c) \/ \E d \in Clients : Inherit(c, d)

Spec == Init /\ [][Next]_ovars
=============================================================================
