------------------------------ MODULE FileServer ------------------------------
(***************************************************************************)
(* The file server (fs/serv.c) and the programs that have files open       *)
(* (lib/file.c, lib/fd.c), which talk by IPC (lib/ipc.c).  An open file is *)
(* an entry of opentab and the page of its struct Fd, which the server     *)
(* shares with every program that has the file open: the offset lives      *)
(* there, and the page's reference count tells the server whether anybody  *)
(* still has the file open.  A program closes by unmapping the page; dying *)
(* is enough.                                                              *)
(*                                                                         *)
(* A step is one system call or what the program does between two, but     *)
(* serve_read and serve_write move the offset in a step of its own, for a  *)
(* program on another CPU may seek meanwhile.  The files are their sizes:  *)
(* FileSys models the rest.                                                *)
(***************************************************************************)
EXTENDS Integers, FiniteSets

CONSTANTS
    Clients,     \* the programs
    Files,       \* the paths they open
    Modes,       \* the flags they open with
    MAXOPEN,     \* entries of opentab
    MAXFD,       \* descriptors of a program
    Generations, \* how often o_fileid grows by MAXOPEN before it wraps
    Capacity,    \* the bytes a file has blocks for
    Seeks,       \* bound: the offsets programs seek to
    Absent,      \* the size of a file that does not exist
    None

ASSUME ModesAssumption == Modes \subseteq SUBSET {"CREAT", "EXCL", "TRUNC"}
ASSUME CountsAssumption == {MAXOPEN, MAXFD, Generations, Capacity} \subseteq Nat \ {0}
ASSUME SeeksAssumption == Seeks \subseteq 0 .. Capacity
ASSUME ClientsAssumption == IsFiniteSet(Clients)

VARIABLES
    opentab,   \* opentab[i]: o_fileid and o_file
    page,      \* the page of entry i: whether the server has it, and the struct Fd on it
    size,      \* size[f]: f_size
    fd,        \* fd[c][k]: the entry whose page c has mapped as descriptor k
    pc,        \* where each program is
    call,      \* the call it is in, which is also its fsipcbuf
    srv,       \* the server: up, where it is, and its variables whom, i and r
    fsreq      \* the request page

clientVars == <<fd, pc, call>>
serverVars == <<opentab, page, size, srv, fsreq>>
vars       == <<clientVars, serverVars>>

Entries == 0 .. MAXOPEN - 1
Slots   == 0 .. MAXFD - 1
Ids     == 0 .. MAXOPEN * Generations - 1
Error   == -1
Inval   == -2      \* what openfile_lookup answers
Values  == Inval .. 3 * Capacity

Ops     == {"open", "read", "write", "stat", "set_size", "flush"}
Request == [op : Ops, num : Slots, id : Ids, file : Files \cup {None},
            mode : Modes \cup {{}}, n : 0 .. Capacity]
FdPage  == [id : Ids, offset : 0 .. 2 * Capacity]
NoCall  == None
Closed  == [k \in Slots |-> None]
Blank   == [id |-> 0, offset |-> 0]

ASSUME NoneAssumption == Absent \notin Int /\ None \notin Clients \cup Files \cup FdPage \cup Entries

\* pageref of the struct Fd of entry i.
Holders(i) == {x \in Clients \X Slots : fd[x[1]][x[2]] = i}
Refs(i) == IF page[i] = None THEN 0 ELSE 1 + Cardinality(Holders(i))

\* A panic of the server ends in the kernel's monitor: nothing runs any more.
Runs(c, l) == srv.up /\ pc[c] = l

Receiving == [up |-> TRUE, pc |-> "recv", whom |-> None, i |-> 0, r |-> 0]

Init ==
    /\ opentab = [i \in Entries |-> [fileid |-> i, file |-> None]]
    /\ page = [i \in Entries |-> None]
    /\ size \in [Files -> {Absent, 0}]
    /\ fd = [c \in Clients |-> Closed]
    /\ pc = [c \in Clients |-> "idle"]
    /\ call = [c \in Clients |-> NoCall]
    /\ srv = Receiving
    /\ fsreq = NoCall

-----------------------------------------------------------------------------
(* A program calls: it fills fsipcbuf, with the number it reads in its      *)
(* struct Fd, and ipc_send tries until the server is in ipc_recv.  Nobody   *)
(* else changes these while it tries, so that one step stands for both.     *)
Call(c, request) ==
    /\ Runs(c, "idle") /\ srv.pc = "recv"
    /\ pc' = [pc EXCEPT ![c] = "sent"]
    /\ call' = [call EXCEPT ![c] = request]
    /\ fsreq' = request
    /\ srv' = [Receiving EXCEPT !.whom = c, !.pc = IF request.op = "open" THEN "scan" ELSE "work"]
    /\ UNCHANGED <<fd, opentab, page, size>>

FdAlloc(c, k) == fd[c][k] = None /\ \A j \in 0 .. k - 1 : fd[c][j] # None

Open(c) == \E k \in Slots, f \in Files, m \in Modes :
    /\ FdAlloc(c, k)
    /\ Call(c, [op |-> "open", num |-> k, id |-> 0, file |-> f, mode |-> m, n |-> 0])

\* The calls of struct Dev devfile; close is a flush.
Devfile(c) == \E k \in Slots, op \in Ops \ {"open"}, n \in 0 .. Capacity :
    /\ fd[c][k] # None
    /\ CASE op \in {"read", "write"} -> n > 0 [] op = "set_size" -> TRUE [] OTHER -> n = 0
    /\ Call(c, [op |-> op, num |-> k, id |-> page[fd[c][k]].id, file |-> None,
                mode |-> {}, n |-> n])

Seek(c) == \E k \in Slots, s \in Seeks :
    /\ Runs(c, "idle") /\ fd[c][k] # None
    /\ page' = [page EXCEPT ![fd[c][k]].offset = s]
    /\ UNCHANGED <<clientVars, opentab, size, srv, fsreq>>

IpcRecv(c) ==
    /\ Runs(c, "sent")
    /\ pc' = [pc EXCEPT ![c] = "wait"]
    /\ UNCHANGED <<fd, call, serverVars>>

\* fd_close unmaps the struct Fd, whatever the flush has answered.
CloseUnmap(c) ==
    /\ Runs(c, "unmap")
    /\ pc' = [pc EXCEPT ![c] = "idle"]
    /\ call' = [call EXCEPT ![c] = NoCall]
    /\ fd' = [fd EXCEPT ![c][call[c].num] = None]
    /\ UNCHANGED serverVars

(* fork shares the pages of the parent's descriptors with the child.        *)
Fork(c, d) ==
    /\ Runs(c, "idle") /\ pc[d] = "dead"
    /\ pc' = [pc EXCEPT ![d] = "idle"]
    /\ fd' = [fd EXCEPT ![d] = fd[c]]
    /\ UNCHANGED <<call, serverVars>>

(* A program may be destroyed at any moment, by a fault or by another one.  *)
(* Its envid is not used again, so that a reply to it fails.                *)
Destroy(c) ==
    /\ srv.up /\ pc[c] # "dead"
    /\ pc' = [pc EXCEPT ![c] = "dead"]
    /\ fd' = [fd EXCEPT ![c] = Closed]
    /\ call' = [call EXCEPT ![c] = NoCall]
    /\ srv' = IF srv.whom = c THEN [srv EXCEPT !.whom = None] ELSE srv
    /\ UNCHANGED <<opentab, page, size, fsreq>>

-----------------------------------------------------------------------------
(* The server.                                                              *)
Goto(l)   == srv' = [srv EXCEPT !.pc = l]
Answer(r) == srv' = [srv EXCEPT !.pc = "reply", !.r = r]
Panic     == srv' = [srv EXCEPT !.up = FALSE]

(* openfile_alloc, one entry at a time.  It takes the first whose page      *)
(* nobody else has, or gives it a page, and clears the page.                *)
\* The bug "an entry that one program has open counts as free".
FreeHeld(i) == Refs(i) <= 2
Free(i) == Refs(i) <= 1
\* The bug "a page that is used again is not cleared".
ClearNew(i) == page' = IF page[i] = None THEN [page EXCEPT ![i] = Blank] ELSE page
Clear(i) == page' = [page EXCEPT ![i] = Blank]

Scan ==
    /\ srv.pc = "scan"
    /\ \/ /\ srv.i = MAXOPEN
          /\ Answer(Error)
          /\ UNCHANGED page
       \/ /\ srv.i < MAXOPEN /\ ~ Free(srv.i)
          /\ srv' = [srv EXCEPT !.i = @ + 1]
          /\ UNCHANGED page
       \/ /\ srv.i < MAXOPEN /\ Free(srv.i)
          /\ Goto("claim")
          /\ Clear(srv.i)
       \/ /\ srv.i < MAXOPEN /\ Refs(srv.i) = 0     \* sys_page_alloc fails
          /\ Answer(Error)
          /\ UNCHANGED page
    /\ UNCHANGED <<clientVars, opentab, size, fsreq>>

\* The bug "the numbers of one entry lead to the others".
NextIdOne(id) == (id + 1) % (MAXOPEN * Generations)
NextId(id) == (id + MAXOPEN) % (MAXOPEN * Generations)

(* What file_create, file_open and file_set_size make of the file: its new  *)
(* size, or an error.  A new file has the size its entry happens to hold    *)
(* (CreatedEmpty of FileSys).                                               *)
Exists(f) == size[f] # Absent
Refused(req) ==
    IF Exists(req.file) THEN {"CREAT", "EXCL"} \subseteq req.mode ELSE "CREAT" \notin req.mode
Opened(req) ==
    IF Refused(req) THEN {Error}
    ELSE IF "TRUNC" \in req.mode THEN {0}
    ELSE IF Exists(req.file) THEN {size[req.file]} ELSE 0 .. Capacity

(* The entry gets its new number first, and keeps it when the file cannot   *)
(* be opened.                                                               *)
ServeOpen ==
    /\ srv.pc = "claim"
    /\ \E i \in {srv.i}, id \in {NextId(opentab[srv.i].fileid)}, s \in Opened(fsreq) :
        /\ opentab' = [opentab EXCEPT ![i] =
               [fileid |-> id, file |-> IF s = Error THEN @.file ELSE fsreq.file]]
        /\ size' = IF s = Error THEN size ELSE [size EXCEPT ![fsreq.file] = s]
        /\ page' = IF s = Error THEN page ELSE [page EXCEPT ![i].id = id]
        /\ Answer(IF s = Error THEN Error ELSE 0)
    /\ UNCHANGED <<clientVars, fsreq>>

-----------------------------------------------------------------------------
(* The handlers.                                                            *)
At == fsreq.id % MAXOPEN
Lookup(id) == Refs(At) > 1 /\ opentab[At].fileid = id
File       == opentab[At].file
Offset     == page[At].offset
Least(a, b)  == IF a < b THEN a ELSE b
Larger(a, b) == IF a < b THEN b ELSE a

(* file_read and file_write, of n bytes from the offset, and the rest: what  *)
(* they answer and the size they leave.  There are blocks for Capacity      *)
(* bytes; a write past them has made the file larger when it fails.         *)
Count(n)  == IF Offset >= size[File] THEN 0 ELSE Least(n, size[File] - Offset)
Fits(n)   == IF n = 0 \/ Offset + n <= Capacity THEN n ELSE Error
Handled(req) ==
    CASE req.op = "read"     -> [r |-> Fits(Count(req.n)), size |-> size[File]]
      [] req.op = "write"    -> [r |-> Fits(req.n), size |-> Larger(size[File], Offset + req.n)]
      [] req.op = "stat"     -> [r |-> size[File], size |-> size[File]]
      [] req.op = "set_size" -> [r |-> 0, size |-> req.n]
      [] req.op = "flush"    -> [r |-> 0, size |-> size[File]]

ServeInvalid ==
    /\ srv.pc = "work" /\ ~ Lookup(fsreq.id)
    /\ Answer(Inval)
    /\ UNCHANGED <<clientVars, opentab, page, size, fsreq>>

Serve ==
    /\ srv.pc = "work" /\ Lookup(fsreq.id)
    /\ \E x \in {Handled(fsreq)} :
        /\ size' = [size EXCEPT ![File] = x.size]
        /\ srv' = [srv EXCEPT !.r = x.r,
                   !.pc = IF fsreq.op \in {"read", "write"} /\ x.r > 0 THEN "move" ELSE "reply"]
    /\ UNCHANGED <<clientVars, opentab, page, fsreq>>

\* serve_read and serve_write move the offset.
Move ==
    /\ srv.pc = "move"
    /\ page' = [page EXCEPT ![At].offset = @ + srv.r]
    /\ Goto("reply")
    /\ UNCHANGED <<clientVars, opentab, size, fsreq>>

(* A file that needs a block when the disk is full: the server takes         *)
(* -E_NO_DISK for a block number and panics.                                *)
DiskFull ==
    /\ \/ srv.pc = "claim" /\ ~ Exists(fsreq.file) /\ ~ Refused(fsreq)
       \/ /\ srv.pc = "work" /\ Lookup(fsreq.id) /\ fsreq.op \in {"read", "write"}
          /\ fsreq.op = "read" => Count(fsreq.n) > 0
    /\ Panic
    /\ UNCHANGED <<clientVars, opentab, page, size, fsreq>>

-----------------------------------------------------------------------------
(* ipc_send of the answer waits for the program's sys_ipc_recv.  The server  *)
(* unmaps the request and is back in ipc_recv before anything else matters. *)
Replied == srv' = Receiving /\ fsreq' = NoCall

Deliver(c) ==
    /\ pc' = [pc EXCEPT ![c] = IF fsreq.op = "flush" THEN "unmap" ELSE "idle"]
    /\ call' = [call EXCEPT ![c] = IF fsreq.op = "flush" THEN @ ELSE NoCall]
    /\ fd' = IF fsreq.op = "open" /\ srv.r = 0 THEN [fd EXCEPT ![c][call[c].num] = srv.i] ELSE fd

\* The bug "the server tries once to answer".
ReplyOnce == \E c \in Clients :
    /\ srv.pc = "reply" /\ srv.whom = c
    /\ IF pc[c] = "wait" THEN Deliver(c) ELSE UNCHANGED clientVars
    /\ Replied
    /\ UNCHANGED <<opentab, page, size>>
Reply == \E c \in Clients :
    /\ srv.pc = "reply" /\ srv.whom = c /\ pc[c] = "wait"
    /\ Deliver(c)
    /\ Replied
    /\ UNCHANGED <<opentab, page, size>>

(* It panics if that program is gone, or has no memory for the page table   *)
(* of its descriptors.                                                      *)
ReplyFails ==
    /\ srv.pc = "reply"
    /\ srv.whom # None => pc[srv.whom] = "wait" /\ fsreq.op = "open" /\ srv.r = 0
    /\ Panic
    /\ UNCHANGED <<clientVars, opentab, page, size, fsreq>>

-----------------------------------------------------------------------------
Server ==
    /\ srv.up
    /\ \/ Scan \/ ServeOpen \/ ServeInvalid \/ Serve \/ Move \/ DiskFull
       \/ Reply \/ ReplyFails

Client(c) ==
    \/ Open(c) \/ Devfile(c) \/ Seek(c) \/ IpcRecv(c) \/ CloseUnmap(c)
    \/ Destroy(c) \/ \E d \in Clients : Fork(c, d)

Next == Server \/ \E c \in Clients : Client(c)

Spec == Init /\ [][Next]_vars

-----------------------------------------------------------------------------
(* Types, and what o_fileid % MAXOPEN in openfile_lookup relies on: however *)
(* often an entry has got a new number, it leads to that entry.             *)
TypeOK ==
    /\ opentab \in [Entries -> [fileid : Ids, file : Files \cup {None}]]
    /\ page \in [Entries -> {None} \cup FdPage]
    /\ size \in [Files -> {Absent} \cup 0 .. 3 * Capacity]
    /\ fd \in [Clients -> [Slots -> Entries \cup {None}]]
    /\ pc \in [Clients -> {"dead", "idle", "sent", "wait", "unmap"}]
    /\ call \in [Clients -> Request \cup {NoCall}]
    /\ srv \in [up : BOOLEAN, pc : {"recv", "scan", "claim", "work", "move", "reply"},
                whom : Clients \cup {None}, i : 0 .. MAXOPEN, r : Values]
    /\ fsreq \in Request \cup {NoCall}
    /\ \A i \in Entries : opentab[i].fileid % MAXOPEN = i

(* A program that has a file open has its struct Fd, with the number that   *)
(* leads to it: openfile_alloc gives no entry to a second open while some   *)
(* program, or a child that inherited it, has the first.                    *)
EntryHeld ==
    \A c \in Clients, k \in Slots : fd[c][k] # None =>
        LET i == fd[c][k] IN
        /\ page[i] # None /\ page[i].id = opentab[i].fileid
        /\ opentab[i].file # None /\ size[opentab[i].file] # Absent

(* A program that waits for an answer is the one the server works for, on   *)
(* the request it made.  Since the server never waits for anything but that *)
(* program's sys_ipc_recv, the answer comes.                                *)
Attended ==
    \A c \in Clients : pc[c] \in {"sent", "wait"} => srv.whom = c /\ fsreq = call[c]

-----------------------------------------------------------------------------
(* The files as programs see them: an open file is an entry, from the       *)
(* moment the server has filled it until nobody has its page.               *)
Delivering ==
    srv.pc = "reply" /\ srv.whom # None /\ fsreq.op = "open" /\ srv.r = 0
HeldBy ==
    IF Delivering THEN [fd EXCEPT ![srv.whom][fsreq.num] = srv.i] ELSE fd
Object == [i \in Entries |->
    IF (Delivering /\ srv.i = i) \/ \E c \in Clients : \E k \in Slots : fd[c][k] = i
    THEN [file |-> opentab[i].file, offset |-> page[i].offset] ELSE None]

\* None is neither an open file nor a call.
ASSUME ViewAssumption ==
    None \notin [file : Files, offset : 0 .. 2 * Capacity]
        \cup [op : Ops, fd : Slots, file : Files \cup {None}, mode : Modes \cup {{}},
              n : 0 .. Capacity, stage : {"asked", "moving", "done"}, answer : Values]

AsCall(req, stage, r) ==
    [op |-> req.op, fd |-> req.num, file |-> req.file, mode |-> req.mode, n |-> req.n,
     stage |-> stage, answer |-> r]
ServedCall(req) ==
    CASE srv.pc = "move" -> AsCall(req, "moving", srv.r)
      [] srv.pc = "reply" -> AsCall(req, "done", srv.r)
      [] OTHER -> AsCall(req, "asked", 0)
Asked == [c \in Clients |->
    CASE pc[c] \in {"dead", "idle"} -> None
      [] pc[c] = "unmap" -> AsCall(call[c], "done", 0)
      [] OTHER -> ServedCall(call[c])]
Orphans ==
    IF srv.whom = None /\ srv.pc \in {"scan", "claim", "work", "move"}
    THEN {[call |-> ServedCall(fsreq), on |-> IF fsreq.op = "open" THEN None ELSE At]} ELSE {}

Abstract == INSTANCE OpenFiles WITH
    Descriptors <- Slots, Objects <- Entries,
    held <- HeldBy, object <- Object, asked <- Asked, orphans <- Orphans

(* The server, its table and its messages give programs the open files of   *)
(* OpenFiles: no request is lost, done twice or done to another's file, and *)
(* no answer goes to another program.                                       *)
OpenFilesSpec == Abstract!Spec
=============================================================================
