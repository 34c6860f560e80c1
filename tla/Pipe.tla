-------------------------------- MODULE Pipe --------------------------------
(***************************************************************************)
(* A pipe of lib/pipe.c, and the file descriptors through which several    *)
(* environments hold its ends (lib/fd.c).  An open descriptor is two shared*)
(* pages mapped at the addresses its number gives: the descriptor page of  *)
(* its end, and the pipe page that all descriptors of both ends share.     *)
(* Nobody counts holders: _pipeisclosed compares the reference counts of   *)
(* the two pages (lib/pageref.c), read one after the other by user code    *)
(* that the timer can interrupt and that other CPUs do not wait for.       *)
(*                                                                         *)
(* One environment reads and one writes; all of them dup and close.        *)
(***************************************************************************)
EXTENDS Integers, Sequences, FiniteSets

CONSTANTS
    Envs,       \* environments
    MAXFD,      \* number of descriptors
    NCPU,       \* number of CPUs
    PIPEBUFSIZ, \* bytes the pipe page holds
    MaxBytes,   \* bound: bytes written in all
    Reader,     \* the environment that reads
    Writer      \* the environment that writes

ASSUME EnvsAssumption == IsFiniteSet(Envs)
ASSUME MAXFDAssumption == MAXFD \in Nat \ {0, 1}
ASSUME NCPUAssumption == NCPU \in Nat \ {0}
ASSUME PIPEBUFSIZAssumption == PIPEBUFSIZ \in Nat \ {0}
ASSUME MaxBytesAssumption == MaxBytes \in Nat

VARIABLES
    fd,         \* fd[e][k]: the end whose descriptor page e has mapped as number k
    data,       \* data[e]: the numbers at which e has the pipe page mapped
    pc,         \* where each environment is in the library
    frame,      \* the local variables of the call it is in
    on,         \* environments that are on a CPU
    rpos, wpos, \* p_rpos, p_wpos
    buf,        \* p_buf
    got         \* the bytes the reader has received

fdVars   == <<fd, data>>
byteVars == <<rpos, wpos, buf, got>>
vars     == <<fdVars, pc, frame, on, byteVars>>

Slots == 0 .. MAXFD - 1
Ends  == {"r", "w"}

\* pp_ref of the descriptor page of an end, and of the pipe page.
FdRefs(end) == {x \in Envs \X Slots : fd[x[1]][x[2]] = end}
DataRefs    == {x \in Envs \X Slots : x[2] \in data[x[1]]}

(* num: the descriptor the call works on; old: the one dup copies; seen:    *)
(* what pageref(fd) returned; ret: the comparison; fresh: env_runs has not  *)
(* changed since n; some: the read has a byte.                              *)
Frame ==
    [num : Slots, old : Slots, seen : Nat, ret : BOOLEAN, fresh : BOOLEAN, some : BOOLEAN]
NoFrame ==
    [num |-> 0, old |-> 0, seen |-> 0, ret |-> FALSE, fresh |-> FALSE, some |-> FALSE]

Goto(e, l) == pc' = [pc EXCEPT ![e] = l] /\ UNCHANGED frame
\* Return to the program; enter a call on descriptor k.
Idle(e) == pc' = [pc EXCEPT ![e] = "idle"] /\ frame' = [frame EXCEPT ![e] = NoFrame]
Enter(e, l, k) ==
    pc' = [pc EXCEPT ![e] = l] /\ frame' = [frame EXCEPT ![e] = [NoFrame EXCEPT !.num = k]]

Num(e) == frame[e].num
Old(e) == frame[e].old

(* After pipe: some environments, forked since by the one that called it,   *)
(* hold descriptor 0 of the read end and 1 of the write end.                *)
Holding == [k \in Slots |-> IF k = 0 THEN "r" ELSE IF k = 1 THEN "w" ELSE "none"]
Nothing == [k \in Slots |-> "none"]

Init ==
    /\ \E holders \in (SUBSET Envs) \ {{}} :
        /\ fd = [e \in Envs |-> IF e \in holders THEN Holding ELSE Nothing]
        /\ data = [e \in Envs |-> IF e \in holders THEN {0, 1} ELSE {}]
        /\ pc = [e \in Envs |-> IF e \in holders THEN "idle" ELSE "gone"]
    /\ frame = [e \in Envs |-> NoFrame]
    /\ on = {}
    /\ rpos = 0 /\ wpos = 0
    /\ buf = [i \in 0 .. PIPEBUFSIZ - 1 |-> 0]
    /\ got = <<>>

-----------------------------------------------------------------------------
(* The scheduler, as far as _pipeisclosed sees it: env_runs of an           *)
(* environment changes whenever it gets a CPU.                              *)
Dispatch(e) ==
    /\ e \notin on /\ pc[e] \notin {"gone", "embryo"}
    /\ \E left \in {on} \cup {on \ {d} : d \in on} :
        Cardinality(left) < NCPU /\ on' = left \cup {e}
    /\ frame' = [frame EXCEPT ![e].fresh = FALSE]
    /\ UNCHANGED <<fdVars, pc, byteVars>>

-----------------------------------------------------------------------------
(* fd.c                                                                     *)

(* close: fd_close, then devpipe_close, which unmaps the descriptor page    *)
(* first and the pipe page after it.                                        *)
Close(e, k) ==
    /\ pc[e] = "idle"
    /\ fd[e][k] # "none"
    /\ fd' = [fd EXCEPT ![e][k] = "none"]
    /\ Enter(e, "close_data", k)
    /\ UNCHANGED <<data, on, byteVars>>

\* The bug "devpipe_close leaves the pipe page mapped".
CloseDataNot(e) ==
    /\ pc[e] \in {"close_data", "dup_close"}
    /\ IF pc[e] = "close_data" THEN Idle(e) ELSE Goto(e, "dup_data")
    /\ UNCHANGED <<fdVars, on, byteVars>>
CloseData(e) ==
    /\ pc[e] \in {"close_data", "dup_close"}
    /\ data' = [data EXCEPT ![e] = @ \ {Num(e)}]
    /\ IF pc[e] = "close_data" THEN Idle(e) ELSE Goto(e, "dup_data")
    /\ UNCHANGED <<fd, on, byteVars>>

(* dup: closes the new number, then maps the pipe page and only then the    *)
(* descriptor page; an error unmaps both.                                   *)
Dup(e, k, n) ==
    /\ pc[e] = "idle"
    /\ fd[e][k] # "none"
    /\ fd' = [fd EXCEPT ![e][n] = "none"]
    /\ pc' = [pc EXCEPT ![e] = IF fd[e][n] # "none" THEN "dup_close" ELSE "dup_data"]
    /\ frame' = [frame EXCEPT ![e] = [NoFrame EXCEPT !.old = k, !.num = n]]
    /\ UNCHANGED <<data, on, byteVars>>

\* The bug "dup maps the descriptor page first".
DupDataLast(e) ==
    /\ pc[e] = "dup_data"
    /\ fd' = [fd EXCEPT ![e][Num(e)] = fd[e][Old(e)]]
    /\ Goto(e, "dup_fd")
    /\ UNCHANGED <<data, on, byteVars>>
DupData(e) ==
    /\ pc[e] = "dup_data"
    /\ data' = IF Old(e) \in data[e] THEN [data EXCEPT ![e] = @ \cup {Num(e)}] ELSE data
    /\ Goto(e, "dup_fd")
    /\ UNCHANGED <<fd, on, byteVars>>

DupFd(e) ==
    /\ pc[e] = "dup_fd"
    /\ \/ /\ fd[e][Old(e)] # "none"
          /\ fd' = [fd EXCEPT ![e][Num(e)] = fd[e][Old(e)]]
          /\ UNCHANGED data
       \/ /\ fd[e][Old(e)] = "none"
          /\ fd' = [fd EXCEPT ![e][Num(e)] = "none"]
          /\ data' = [data EXCEPT ![e] = @ \ {Num(e)}]
    /\ Idle(e)
    /\ UNCHANGED <<on, byteVars>>

(* env_free of an environment that a fault, or a call of another one,       *)
(* destroys: every mapping goes, and on one CPU no user code runs meanwhile.*)
Destroy(e) ==
    /\ pc[e] # "gone"
    /\ \E d \in on : d = e \/ pc[d] = "idle"
    /\ fd' = [fd EXCEPT ![e] = Nothing]
    /\ data' = [data EXCEPT ![e] = {}]
    /\ on' = on \ {e}
    /\ pc' = [pc EXCEPT ![e] = "gone"] /\ frame' = [frame EXCEPT ![e] = NoFrame]
    /\ UNCHANGED byteVars

(* fork, and the copy of shared pages that spawn makes: page by page in the *)
(* order of their addresses, where the descriptor pages all come before the *)
(* pipe pages.  The child runs when all of them are there.                  *)
Fork(e, c) ==
    /\ pc[e] = "idle" /\ pc[c] = "gone"
    /\ \A d \in Envs : pc[d] # "embryo"              \* bound: one child at a time
    /\ pc' = [pc EXCEPT ![e] = "fork", ![c] = "embryo"]
    /\ UNCHANGED <<fdVars, frame, on, byteVars>>

ForkPage(e, c) ==
    /\ pc[e] = "fork" /\ pc[c] = "embryo"
    /\ LET fds   == {k \in Slots : fd[e][k] # "none" /\ fd[c][k] = "none"}
           datas == data[e] \ data[c]
       IN  \/ \E k \in fds :
                /\ \A j \in fds : k <= j
                /\ fd' = [fd EXCEPT ![c][k] = fd[e][k]]
                /\ UNCHANGED <<data, pc>>
           \/ \E k \in datas :
                /\ fds = {} /\ \A j \in datas : k <= j
                /\ data' = [data EXCEPT ![c] = @ \cup {k}]
                /\ UNCHANGED <<fd, pc>>
           \/ /\ fds = {} /\ datas = {}
              /\ pc' = [pc EXCEPT ![e] = "idle", ![c] = "idle"]
              /\ UNCHANGED fdVars
    /\ UNCHANGED <<frame, on, byteVars>>

-----------------------------------------------------------------------------
(* pipe.c                                                                   *)

(* _pipeisclosed, entered from an empty read or a full write: n = env_runs, *)
(* the two pagerefs, and nn = env_runs, which starts over unless nn = n.    *)
CheckRuns(e) ==
    /\ pc[e] \in {"rcheck", "wcheck"}
    /\ pc' = [pc EXCEPT ![e] = IF @ = "rcheck" THEN "rfdref" ELSE "wfdref"]
    /\ frame' = [frame EXCEPT ![e].fresh = TRUE]
    /\ UNCHANGED <<fdVars, on, byteVars>>

CheckFdRef(e) ==
    /\ pc[e] \in {"rfdref", "wfdref"}
    /\ pc' = [pc EXCEPT ![e] = IF @ = "rfdref" THEN "rpipe" ELSE "wpipe"]
    /\ frame' = [frame EXCEPT ![e].seen = Cardinality(FdRefs(fd[e][Num(e)]))]
    /\ UNCHANGED <<fdVars, on, byteVars>>

CheckPipeRef(e) ==
    /\ pc[e] \in {"rpipe", "wpipe"}
    /\ pc' = [pc EXCEPT ![e] = IF @ = "rpipe" THEN "ragain" ELSE "wagain"]
    /\ frame' = [frame EXCEPT ![e].ret = frame[e].seen = Cardinality(DataRefs),
                              ![e].seen = 0]
    /\ UNCHANGED <<fdVars, on, byteVars>>

\* sys_yield, from the loops of devpipe_read and devpipe_write.
YieldTo(e, l) ==
    /\ pc' = [pc EXCEPT ![e] = l]
    /\ frame' = [frame EXCEPT ![e] = [NoFrame EXCEPT !.num = Num(e)]]
    /\ on' = on \ {e}

\* The bug "env_runs is not compared".
CheckOnce(e) ==
    /\ pc[e] \in {"ragain", "wagain"}
    /\ \/ ~ frame[e].ret /\ YieldTo(e, IF pc[e] = "ragain" THEN "rtest" ELSE "wtest")
       \/ /\ frame[e].ret /\ UNCHANGED on
          /\ Enter(e, IF pc[e] = "ragain" THEN "eof" ELSE "epipe", Num(e))
    /\ UNCHANGED <<fdVars, byteVars>>
CheckAgain(e) ==
    /\ pc[e] \in {"ragain", "wagain"}
    /\ \/ /\ ~ frame[e].fresh /\ UNCHANGED on
          /\ Enter(e, IF pc[e] = "ragain" THEN "rcheck" ELSE "wcheck", Num(e))
       \/ /\ frame[e].fresh /\ ~ frame[e].ret
          /\ YieldTo(e, IF pc[e] = "ragain" THEN "rtest" ELSE "wtest")
       \/ /\ frame[e].fresh /\ frame[e].ret /\ UNCHANGED on
          /\ Enter(e, IF pc[e] = "ragain" THEN "eof" ELSE "epipe", Num(e))
    /\ UNCHANGED <<fdVars, byteVars>>

\* Back in the program, with 0 for the byte count.
Return(e) ==
    /\ pc[e] \in {"eof", "epipe"}
    /\ Idle(e)
    /\ UNCHANGED <<fdVars, on, byteVars>>

(* devpipe_read.                                                            *)
Read(e, k) ==
    /\ e = Reader /\ pc[e] = "idle"
    /\ fd[e][k] = "r"
    /\ Enter(e, "rtest", k)
    /\ UNCHANGED <<fdVars, on, byteVars>>

ReadTest(e) ==
    /\ pc[e] = "rtest"
    /\ \/ rpos # wpos /\ Goto(e, "rtake")
       \/ rpos = wpos /\ frame[e].some /\ Idle(e)
       \/ rpos = wpos /\ ~ frame[e].some /\ Goto(e, "rcheck")
    /\ UNCHANGED <<fdVars, on, byteVars>>

ReadByte(e) ==
    /\ pc[e] = "rtake"
    /\ got' = Append(got, buf[rpos % PIPEBUFSIZ])
    /\ Goto(e, "rinc")
    /\ UNCHANGED <<fdVars, on, rpos, wpos, buf>>

\* The read has all it was asked for, or goes on.
ReadInc(e) ==
    /\ pc[e] = "rinc"
    /\ rpos' = rpos + 1
    /\ \/ Idle(e)
       \/ pc' = [pc EXCEPT ![e] = "rtest"] /\ frame' = [frame EXCEPT ![e].some = TRUE]
    /\ UNCHANGED <<fdVars, on, wpos, buf, got>>

(* devpipe_write; the n-th byte ever written has the value n.               *)
Write(e, k) ==
    /\ e = Writer /\ pc[e] = "idle"
    /\ fd[e][k] = "w"
    /\ wpos < MaxBytes
    /\ Enter(e, "wtest", k)
    /\ UNCHANGED <<fdVars, on, byteVars>>

\* The bug "the pipe is full one byte too late".
WriteTestLate(e) ==
    /\ pc[e] = "wtest"
    /\ Goto(e, IF wpos > rpos + PIPEBUFSIZ THEN "wcheck" ELSE "wstore")
    /\ UNCHANGED <<fdVars, on, byteVars>>
WriteTest(e) ==
    /\ pc[e] = "wtest"
    /\ Goto(e, IF wpos >= rpos + PIPEBUFSIZ THEN "wcheck" ELSE "wstore")
    /\ UNCHANGED <<fdVars, on, byteVars>>

WriteByte(e) ==
    /\ pc[e] = "wstore"
    /\ buf' = [buf EXCEPT ![wpos % PIPEBUFSIZ] = wpos + 1]
    /\ Goto(e, "winc")
    /\ UNCHANGED <<fdVars, on, rpos, wpos, got>>

WriteInc(e) ==
    /\ pc[e] = "winc"
    /\ wpos' = wpos + 1
    /\ Idle(e) \/ (wpos' < MaxBytes /\ Goto(e, "wtest"))
    /\ UNCHANGED <<fdVars, on, rpos, buf, got>>

-----------------------------------------------------------------------------
Library(e) ==
    \/ CloseData(e) \/ DupData(e) \/ DupFd(e)
    \/ CheckRuns(e) \/ CheckFdRef(e) \/ CheckPipeRef(e) \/ CheckAgain(e)
    \/ ReadTest(e) \/ ReadByte(e) \/ ReadInc(e)
    \/ WriteTest(e) \/ WriteByte(e) \/ WriteInc(e)
    \/ Return(e)

Call(e) ==
    \E k \in Slots :
        \/ Close(e, k) \/ Read(e, k) \/ Write(e, k)
        \/ \E n \in Slots : Dup(e, k, n)

UserStep(e) == e \in on /\ (Library(e) \/ Call(e))

Next == \E e \in Envs : UserStep(e) \/ Dispatch(e) \/ Destroy(e)
ForkNext == Next \/ \E e \in on, c \in Envs : Fork(e, c) \/ ForkPage(e, c)

Spec == Init /\ [][Next]_vars
\* Programs that fork while others use the pipe.
ForkSpec == Init /\ [][ForkNext]_vars

-----------------------------------------------------------------------------
(* Properties                                                               *)

Location ==
    {"idle", "gone", "embryo", "fork", "close_data", "dup_close", "dup_data", "dup_fd",
     "rtest", "rtake", "rinc", "rcheck", "rfdref", "rpipe", "ragain", "eof",
     "wtest", "wstore", "winc", "wcheck", "wfdref", "wpipe", "wagain", "epipe"}

(* Every variable has the shape the code gives it; there are no more        *)
(* environments on CPUs than CPUs, and no more bytes in the pipe than fit.  *)
TypeOK ==
    /\ fd \in [Envs -> [Slots -> Ends \cup {"none"}]]
    /\ data \in [Envs -> SUBSET Slots]
    /\ pc \in [Envs -> Location]
    /\ frame \in [Envs -> Frame]
    /\ on \subseteq Envs /\ Cardinality(on) <= NCPU
    /\ rpos \in Nat /\ wpos \in Nat /\ rpos <= wpos /\ wpos <= rpos + PIPEBUFSIZ
    /\ buf \in [0 .. PIPEBUFSIZ - 1 -> Nat]
    /\ got \in Seq(Nat)

(* A read reports end of file, and pipeisclosed says so, only when no       *)
(* environment has a descriptor of the write end; a write gives up only     *)
(* when none has one of the read end (user/testpiperace2.c:34).             *)
NoFalseEof ==
    \A e \in Envs :
        /\ pc[e] = "eof" => FdRefs("w") = {}
        /\ pc[e] = "epipe" => FdRefs("r") = {}

(* Behind every descriptor page there is a pipe page: what lets the counts  *)
(* be compared at all, in the middle of every dup and close.                *)
FdBacked ==
    \A e \in Envs, k \in Slots : fd[e][k] # "none" => k \in data[e]

(* At end of file the reader has every byte that was written (this is what  *)
(* user/testpipe.c:29 expects of it).                                       *)
EofComplete ==
    \A e \in Envs : pc[e] = "eof" => rpos = wpos

(* A write that waits for room returns once all readers are gone, a read    *)
(* that waits for bytes once all writers are, unless dup and close go on    *)
(* for ever among the others.                                               *)
Waiting(end) ==
    IF end = "r" THEN {"rtest", "rcheck", "rfdref", "rpipe", "ragain"}
                 ELSE {"wtest", "wcheck", "wfdref", "wpipe", "wagain"}
OtherEnd(end) == IF end = "r" THEN "w" ELSE "r"
Released ==
    \A e \in Envs, end \in Ends :
        <>[](\A d \in Envs \ {e} : pc[d] \in {"idle", "gone"}) =>
            (pc[e] \in Waiting(end) /\ FdRefs(OtherEnd(end)) = {}
                ~> pc[e] \notin Waiting(end))

-----------------------------------------------------------------------------
(* The pipe implements the channel: bytes delivered are exactly the bytes   *)
(* written, in order, and neither end gives up too early.                   *)
C == INSTANCE Channel WITH
        Byte <- 1 .. MaxBytes,
        Size <- PIPEBUFSIZ,
        queue <- [i \in 1 .. wpos - Len(got) |-> buf[(Len(got) + i - 1) % PIPEBUFSIZ]],
        delivered <- got,
        open <- {end \in Ends : FdRefs(end) # {}},
        gaveUp <- {end \in Ends : \E e \in Envs :
                    pc[e] = IF end = "r" THEN "eof" ELSE "epipe"}

ChannelSpec == C!Spec
=============================================================================
