----------------------------- MODULE JosKernel ------------------------------
(***************************************************************************)
(* The multiprocessor kernel of lab5/lab/kern: every CPU from power-up     *)
(* (init.c, mpentry.S), through traps (trap.c), the big kernel lock        *)
(* (spinlock.c), the round-robin scheduler (sched.c) and the system calls  *)
(* that change the state of environments (syscall.c over env.c).           *)
(*                                                                         *)
(* The lock is held from trap entry to the return to user mode, so between *)
(* Acquire and EnvRun or SchedHalt no other CPU touches the environment    *)
(* table.  What does interleave is what the code does outside the lock:    *)
(* booting, user code, the trap entry before lock_kernel, the iret after   *)
(* unlock_kernel, and the halted CPU's wake-up.                            *)
(***************************************************************************)
EXTENDS EnvTable

CONSTANT NCPU                       \* number of CPUs; CPU 0 boots (the BSP)
ASSUME NCPUAssumption == NCPU \in Nat \ {0}

VARIABLES
    pc,           \* where each CPU is
    lock,         \* the CPU holding kernel_lock, or NoCpu
    curenv,       \* cpus[c].cpu_env
    cr3,          \* whose page directory CPU c has loaded
    cpuStatus,    \* cpus[c].cpu_status
    apNext,       \* boot_aps: the AP it is starting
    entryStack,   \* mpentry_kstack: whose boot stack it points to
    kstack        \* whose stack CPU c runs on

cpuVars  == <<pc, lock, curenv, cr3, cpuStatus>>
bootVars == <<apNext, entryStack, kstack>>
vars     == <<envVars, cpuVars, bootVars>>

Cpus   == 0 .. NCPU - 1
BSP    == 0
NoCpu  == NCPU                      \* kernel_lock.locked = 0
NoEnv  == NENV                      \* curenv = NULL
Kern   == NENV                      \* kern_pgdir is loaded

\* CPUs between lock_kernel and unlock_kernel.
Locked == {"boot_aps", "wait_ap", "create_fs", "create_user",
           "enter", "dispatch", "ret", "sched", "monitor"}
\* CPUs that spin in lock_kernel.
Spinning == {"i386_init", "mp_lock", "woken_lock", "trap_lock"}
\* CPUs on behalf of which an environment's code or state is in use.
Executing == {"iret", "user", "trap_lock"}
Outside == {"off", "mpentry", "mp_main", "halted"}

InKernel(c) == pc[c] \in Locked

Goto(c, l) == pc' = [pc EXCEPT ![c] = l]

-----------------------------------------------------------------------------
(* Power-up: the BSP enters i386_init, the APs wait for a startup IPI.      *)
Init ==
    /\ EnvInit
    /\ pc = [c \in Cpus |-> IF c = BSP THEN "i386_init" ELSE "off"]
    /\ lock = NoCpu
    /\ curenv = [c \in Cpus |-> NoEnv]
    /\ cr3 = [c \in Cpus |-> Kern]
    /\ cpuStatus = [c \in Cpus |-> IF c = BSP THEN "STARTED" ELSE "UNUSED"]
    /\ apNext = 1
    /\ entryStack = BSP
    /\ kstack = [c \in Cpus |-> IF c = BSP THEN BSP ELSE NoCpu]

(* spin_lock: the xchg that finds 0.  Where the CPU goes on depends on where *)
(* it called lock_kernel.                                                   *)
AfterLock(l) ==
    IF l = "i386_init" THEN "boot_aps"
    ELSE IF l = "mp_lock" THEN "sched"
    ELSE IF l = "woken_lock" THEN "dispatch"
    ELSE "enter"                                      \* trap_lock

Acquire(c) ==
    /\ pc[c] \in Spinning
    /\ lock = NoCpu
    /\ lock' = c
    /\ Goto(c, AfterLock(pc[c]))
    /\ UNCHANGED <<envVars, curenv, cr3, cpuStatus, bootVars>>

-----------------------------------------------------------------------------
(* boot_aps: point mpentry_kstack at the AP's stack, send the startup IPI,  *)
(* then spin on the AP's cpu_status.                                        *)
StartAp(c) ==
    /\ pc[c] = "boot_aps" /\ apNext \in Cpus
    /\ entryStack' = apNext
    /\ pc' = [pc EXCEPT ![c] = "wait_ap", ![apNext] = "mpentry"]
    /\ UNCHANGED <<envVars, lock, curenv, cr3, cpuStatus, apNext, kstack>>

\* The bug "boot_aps does not wait for cpu_status".
WaitApNot(c) ==
    /\ pc[c] = "wait_ap"
    /\ apNext' = apNext + 1
    /\ Goto(c, "boot_aps")
    /\ UNCHANGED <<envVars, lock, curenv, cr3, cpuStatus, entryStack, kstack>>

WaitAp(c) ==
    /\ pc[c] = "wait_ap"
    /\ cpuStatus[apNext] = "STARTED"
    /\ apNext' = apNext + 1
    /\ Goto(c, "boot_aps")
    /\ UNCHANGED <<envVars, lock, curenv, cr3, cpuStatus, entryStack, kstack>>

BootApsDone(c) ==
    /\ pc[c] = "boot_aps" /\ apNext \notin Cpus
    /\ Goto(c, "create_fs")
    /\ UNCHANGED <<envVars, lock, curenv, cr3, cpuStatus, bootVars>>

(* mpentry.S: the AP loads whatever mpentry_kstack holds when it gets there. *)
MpEntry(c) ==
    /\ pc[c] = "mpentry"
    /\ kstack' = [kstack EXCEPT ![c] = entryStack]
    /\ Goto(c, "mp_main")
    /\ UNCHANGED <<envVars, lock, curenv, cr3, cpuStatus, apNext, entryStack>>

(* mp_main: tells boot_aps that it is up, then spins for the lock.           *)
MpMain(c) ==
    /\ pc[c] = "mp_main"
    /\ cpuStatus' = [cpuStatus EXCEPT ![c] = "STARTED"]
    /\ Goto(c, "mp_lock")
    /\ UNCHANGED <<envVars, lock, curenv, cr3, bootVars>>

(* ENV_CREATE of the file server and of the first user environment, then    *)
(* sched_yield (i386_init).                                                 *)
EnvCreate(c) ==
    /\ pc[c] \in {"create_fs", "create_user"}
    /\ EnvAlloc(NoId, "RUNNABLE")
    /\ Goto(c, IF pc[c] = "create_fs" THEN "create_user" ELSE "sched")
    /\ UNCHANGED <<lock, curenv, cr3, cpuStatus, bootVars>>

-----------------------------------------------------------------------------
(* sched.c and env_run.                                                     *)

\* The bug "the environment that was running is left RUNNING".
EnvRunKeepsOld(c, e) ==
    /\ status' = [status EXCEPT ![e] = "RUNNING"]
    /\ curenv' = [curenv EXCEPT ![c] = e]
    /\ ran' = [ran EXCEPT ![e] = TRUE]
    /\ cr3' = [cr3 EXCEPT ![c] = e]
    /\ lock' = NoCpu
    /\ Goto(c, "iret")
    /\ UNCHANGED <<gen, parent, recving, freeList, cpuStatus, bootVars>>

(* env_run: the context switch, unlock_kernel included; the iret is apart.  *)
EnvRun(c, e) ==
    /\ status' = [s \in Slots |->
                    IF s = e THEN "RUNNING"
                    ELSE IF s = curenv[c] /\ status[s] = "RUNNING" THEN "RUNNABLE"
                    ELSE status[s]]
    /\ curenv' = [curenv EXCEPT ![c] = e]
    /\ ran' = [ran EXCEPT ![e] = TRUE]
    /\ cr3' = [cr3 EXCEPT ![c] = e]
    /\ lock' = NoCpu
    /\ Goto(c, "iret")
    /\ UNCHANGED <<gen, parent, recving, freeList, cpuStatus, bootVars>>

(* How many slots after the one curenv names the circular search meets s;   *)
(* with no curenv the search starts at slot 0.                              *)
SearchDistance(c, s) ==
    LET start == IF curenv[c] = NoEnv THEN 0 ELSE curenv[c] + 1
    IN  (s + NENV - start) % NENV

\* The bug "an environment running on another CPU is a candidate".
FirstRunnableOrRunning(c, s) ==
    /\ status[s] \in {"RUNNABLE", "RUNNING"}
    /\ \A t \in Slots :
        status[t] \in {"RUNNABLE", "RUNNING"} =>
            SearchDistance(c, s) <= SearchDistance(c, t)

FirstRunnable(c, s) ==
    /\ status[s] = "RUNNABLE"
    /\ \A t \in Slots :
        status[t] = "RUNNABLE" => SearchDistance(c, s) <= SearchDistance(c, t)

SchedRun(c) ==
    /\ pc[c] = "sched"
    /\ \E s \in Slots : FirstRunnable(c, s) /\ EnvRun(c, s)

NoneRunnable == \A s \in Slots : status[s] # "RUNNABLE"
CurRunning(c) == curenv[c] # NoEnv /\ status[curenv[c]] = "RUNNING"

SchedKeep(c) ==
    /\ pc[c] = "sched"
    /\ NoneRunnable
    /\ CurRunning(c)
    /\ EnvRun(c, curenv[c])

Work == \E s \in Slots : status[s] \in {"RUNNABLE", "RUNNING", "DYING"}

\* The bugs "the dead address space stays loaded" and "cpu_status is not set".
SchedHaltKeepsCr3(c) ==
    /\ pc[c] = "sched"
    /\ NoneRunnable /\ ~CurRunning(c) /\ Work
    /\ curenv' = [curenv EXCEPT ![c] = NoEnv]
    /\ cpuStatus' = [cpuStatus EXCEPT ![c] = "HALTED"]
    /\ lock' = NoCpu
    /\ Goto(c, "halted")
    /\ UNCHANGED <<envVars, cr3, bootVars>>
SchedHaltUnmarked(c) ==
    /\ pc[c] = "sched"
    /\ NoneRunnable /\ ~CurRunning(c) /\ Work
    /\ curenv' = [curenv EXCEPT ![c] = NoEnv]
    /\ cr3' = [cr3 EXCEPT ![c] = Kern]
    /\ lock' = NoCpu
    /\ Goto(c, "halted")
    /\ UNCHANGED <<envVars, cpuStatus, bootVars>>

(* sched_halt with work left somewhere: give the lock up and wait.          *)
SchedHalt(c) ==
    /\ pc[c] = "sched"
    /\ NoneRunnable /\ ~CurRunning(c) /\ Work
    /\ curenv' = [curenv EXCEPT ![c] = NoEnv]
    /\ cr3' = [cr3 EXCEPT ![c] = Kern]
    /\ cpuStatus' = [cpuStatus EXCEPT ![c] = "HALTED"]
    /\ lock' = NoCpu
    /\ Goto(c, "halted")
    /\ UNCHANGED <<envVars, bootVars>>

\* The bug "a zombie is not counted as work".
SchedMonitorForgetsDying(c) ==
    /\ pc[c] = "sched"
    /\ NoneRunnable /\ ~CurRunning(c)
    /\ \A s \in Slots : status[s] \notin {"RUNNABLE", "RUNNING"}
    /\ Goto(c, "monitor")
    /\ UNCHANGED <<envVars, lock, curenv, cr3, cpuStatus, bootVars>>

(* sched_halt with no work at all: the kernel monitor, lock held, for good. *)
SchedMonitor(c) ==
    /\ pc[c] = "sched"
    /\ NoneRunnable /\ ~CurRunning(c) /\ ~Work
    /\ Goto(c, "monitor")
    /\ UNCHANGED <<envVars, lock, curenv, cr3, cpuStatus, bootVars>>

MonitorLoop(c) == pc[c] = "monitor" /\ UNCHANGED vars

(* env_pop_tf: the iret that ends env_run, after the lock is gone.          *)
Iret(c) ==
    /\ pc[c] = "iret"
    /\ Goto(c, "user")
    /\ UNCHANGED <<envVars, lock, curenv, cr3, cpuStatus, bootVars>>

-----------------------------------------------------------------------------
(* trap.c                                                                   *)

(* trap, from user mode: mark the CPU started and go for the lock.          *)
TrapUser(c) ==
    /\ pc[c] = "user"
    /\ cpuStatus' = [cpuStatus EXCEPT ![c] = "STARTED"]
    /\ Goto(c, "trap_lock")
    /\ UNCHANGED <<envVars, lock, curenv, cr3, bootVars>>

(* trap, from the hlt of sched_halt: only the HALTED mark makes it lock.    *)
TrapHalted(c) ==
    /\ pc[c] = "halted"
    /\ cpuStatus' = [cpuStatus EXCEPT ![c] = "STARTED"]
    /\ Goto(c, IF cpuStatus[c] = "HALTED" THEN "woken_lock" ELSE "dispatch")
    /\ UNCHANGED <<envVars, lock, curenv, cr3, bootVars>>

(* trap, just after lock_kernel: an environment that another CPU destroyed  *)
(* while it ran here is collected before anything is done for it.           *)
EnterZombie(c) ==
    /\ pc[c] = "enter" /\ status[curenv[c]] = "DYING"
    /\ EnvFree(curenv[c])
    /\ curenv' = [curenv EXCEPT ![c] = NoEnv]
    /\ cr3' = [cr3 EXCEPT ![c] = Kern]
    /\ Goto(c, "sched")
    /\ UNCHANGED <<lock, cpuStatus, bootVars>>

\* The bug "a zombie is handled like any other environment".
EnterAny(c) ==
    /\ pc[c] = "enter"
    /\ Goto(c, "dispatch")
    /\ UNCHANGED <<envVars, lock, curenv, cr3, cpuStatus, bootVars>>

Enter(c) ==
    /\ pc[c] = "enter" /\ status[curenv[c]] # "DYING"
    /\ Goto(c, "dispatch")
    /\ UNCHANGED <<envVars, lock, curenv, cr3, cpuStatus, bootVars>>

(* The end of trap: back to curenv if it is still RUNNING, else schedule.   *)
TrapRet(c) ==
    /\ pc[c] = "ret"
    /\ \/ CurRunning(c) /\ EnvRun(c, curenv[c])
       \/ /\ ~CurRunning(c)
          /\ Goto(c, "sched")
          /\ UNCHANGED <<envVars, lock, curenv, cr3, cpuStatus, bootVars>>

(* trap_dispatch, for a trap that came from user mode: a system call, a     *)
(* fault or the timer, as the program and the clock have it.  A halted CPU  *)
(* is only ever woken by an interrupt.                                      *)
Dispatching(c) == pc[c] = "dispatch" /\ curenv[c] # NoEnv

(* A trap of a program that does not touch this state: a breakpoint; a      *)
(* system call on memory or the console; any call that returns an error.    *)
NoEffect(c) ==
    /\ Dispatching(c)
    /\ Goto(c, "ret")
    /\ UNCHANGED <<envVars, lock, curenv, cr3, cpuStatus, bootVars>>

\* The bug "the timer interrupt returns to the environment it interrupted".
YieldReturns(c) ==
    /\ pc[c] = "dispatch"
    /\ Goto(c, "ret")
    /\ UNCHANGED <<envVars, lock, curenv, cr3, cpuStatus, bootVars>>

(* The timer, and sys_yield: straight to the scheduler.                     *)
Yield(c) ==
    /\ pc[c] = "dispatch"
    /\ Goto(c, "sched")
    /\ UNCHANGED <<envVars, lock, curenv, cr3, cpuStatus, bootVars>>

(* page_fault_handler with an upcall: env_run(curenv) at the upcall.        *)
FaultUpcall(c) ==
    /\ Dispatching(c)
    /\ EnvRun(c, curenv[c])

(* env_destroy(e): mark an environment that runs elsewhere, free any other; *)
(* an environment destroying itself leaves its CPU to the scheduler.        *)
\* The bug "an environment running elsewhere is freed on the spot".
EnvDestroyAtOnce(c, e) ==
    /\ EnvFree(e)
    /\ IF curenv[c] = e
       THEN /\ curenv' = [curenv EXCEPT ![c] = NoEnv]
            /\ cr3' = [cr3 EXCEPT ![c] = Kern]
            /\ Goto(c, "sched")
       ELSE UNCHANGED <<curenv, cr3>> /\ Goto(c, "ret")
    /\ UNCHANGED <<lock, cpuStatus, bootVars>>

EnvDestroy(c, e) ==
    /\ \/ /\ status[e] = "RUNNING" /\ curenv[c] # e
          /\ status' = [status EXCEPT ![e] = "DYING"]
          /\ Goto(c, "ret")
          /\ UNCHANGED <<gen, parent, recving, ran, freeList, curenv, cr3>>
       \/ /\ status[e] # "RUNNING" /\ curenv[c] # e
          /\ EnvFree(e)
          /\ Goto(c, "ret")
          /\ UNCHANGED <<curenv, cr3>>
       \/ /\ curenv[c] = e
          /\ EnvFree(e)
          /\ curenv' = [curenv EXCEPT ![c] = NoEnv]
          /\ cr3' = [cr3 EXCEPT ![c] = Kern]
          /\ Goto(c, "sched")
    /\ UNCHANGED <<lock, cpuStatus, bootVars>>

(* A fault or exception nobody handles.                                     *)
FaultDestroy(c) ==
    /\ Dispatching(c)
    /\ EnvDestroy(c, curenv[c])

-----------------------------------------------------------------------------
(* syscall.c                                                                *)

SysEnvDestroy(c, id) ==
    /\ Dispatching(c)
    /\ \E e \in Envid2Env(curenv[c], id, TRUE) : EnvDestroy(c, e)

SysExofork(c) ==
    /\ Dispatching(c)
    /\ EnvAlloc(IdOf(curenv[c]), "NOT_RUNNABLE")
    /\ Goto(c, "ret")
    /\ UNCHANGED <<lock, curenv, cr3, cpuStatus, bootVars>>

SysEnvSetStatus(c, id, st) ==
    /\ Dispatching(c)
    /\ \E e \in Envid2Env(curenv[c], id, TRUE) :
        status' = [status EXCEPT ![e] = st]
    /\ Goto(c, "ret")
    /\ UNCHANGED <<gen, parent, recving, ran, freeList>>
    /\ UNCHANGED <<lock, curenv, cr3, cpuStatus, bootVars>>

(* sys_ipc_recv: block, and leave the CPU through sys_yield.                *)
SysIpcRecv(c) ==
    /\ Dispatching(c)
    /\ recving' = [recving EXCEPT ![curenv[c]] = TRUE]
    /\ status' = [status EXCEPT ![curenv[c]] = "NOT_RUNNABLE"]
    /\ Goto(c, "sched")
    /\ UNCHANGED <<gen, parent, ran, freeList, lock, curenv, cr3, cpuStatus, bootVars>>

(* sys_ipc_try_send: wakes a receiver, whoever asks.                        *)
SysIpcTrySend(c, id) ==
    /\ Dispatching(c)
    /\ \E e \in Envid2Env(curenv[c], id, FALSE) :
        /\ recving[e]
        /\ recving' = [recving EXCEPT ![e] = FALSE]
        /\ status' = [status EXCEPT ![e] = "RUNNABLE"]
    /\ Goto(c, "ret")
    /\ UNCHANGED <<gen, parent, ran, freeList, lock, curenv, cr3, cpuStatus, bootVars>>

-----------------------------------------------------------------------------
(* The programs of lib/ and user/ use two of the calls with a discipline the *)
(* kernel does not enforce.  fork and spawn set the status only of a child   *)
(* they created and that has not run yet (here also: of the caller), and no  *)
(* program destroys the same child twice.                                    *)
LibSetStatus(c, id, st) ==
    /\ SysEnvSetStatus(c, id, st)
    /\ \A e \in Envid2Env(curenv[c], id, TRUE) :
        e = curenv[c] \/ (~ ran[e] /\ status[e] \in {"RUNNABLE", "NOT_RUNNABLE"})

LibEnvDestroy(c, id) ==
    /\ SysEnvDestroy(c, id)
    /\ \A e \in Envid2Env(curenv[c], id, TRUE) : status[e] # "DYING"

Boot(c) ==
    \/ StartAp(c) \/ WaitAp(c) \/ BootApsDone(c)
    \/ MpEntry(c) \/ MpMain(c) \/ EnvCreate(c)

Schedule(c) ==
    SchedRun(c) \/ SchedKeep(c) \/ SchedHalt(c) \/ SchedMonitor(c) \/ MonitorLoop(c)

Trap(c) == TrapUser(c) \/ TrapHalted(c)

Handle(c) ==
    \/ EnterZombie(c) \/ Enter(c) \/ TrapRet(c)
    \/ NoEffect(c) \/ Yield(c) \/ FaultUpcall(c) \/ FaultDestroy(c)

Syscall(c) ==
    \/ SysExofork(c) \/ SysIpcRecv(c)
    \/ \E id \in EnvId : SysIpcTrySend(c, id)

LibCall(c) ==
    \E id \in EnvId :
        \/ LibEnvDestroy(c, id)
        \/ \E st \in {"RUNNABLE", "NOT_RUNNABLE"} : LibSetStatus(c, id, st)

\* The same two calls as the kernel accepts them, from any program.
RawCall(c) ==
    \E id \in EnvId :
        \/ SysEnvDestroy(c, id)
        \/ \E st \in {"RUNNABLE", "NOT_RUNNABLE"} : SysEnvSetStatus(c, id, st)

Step(c) ==
    Acquire(c) \/ Boot(c) \/ Schedule(c) \/ Iret(c) \/ Trap(c) \/ Handle(c) \/ Syscall(c)

Next    == \E c \in Cpus : Step(c) \/ LibCall(c)
RawNext == \E c \in Cpus : Step(c) \/ RawCall(c)

\* Programs that keep to the library.
Spec    == Init /\ [][Next]_vars
\* Any program.
RawSpec == Init /\ [][RawNext]_vars

(* Fairness.  A CPU that is not waiting keeps executing; the local APIC's   *)
(* timer is periodic (lapic.c), so a CPU in user mode or halted traps, and  *)
(* among its traps the timer comes again and again.  kernel_lock is a bare  *)
(* xchg loop: some spinning CPU gets a free lock, no particular one.        *)
Fairness ==
    /\ WF_vars(\E c \in Cpus : Acquire(c))
    /\ \A c \in Cpus :
        /\ WF_vars(Boot(c) \/ Schedule(c) \/ Iret(c) \/ Handle(c))
        /\ WF_vars(Trap(c))
        /\ SF_vars(Yield(c))

LiveSpec == Spec /\ Fairness

-----------------------------------------------------------------------------
(* Properties                                                               *)

\* Every variable has the shape the code gives it.
TypeOK ==
    /\ EnvTypeOK
    /\ pc \in [Cpus -> Locked \cup Spinning \cup Executing \cup Outside]
    /\ lock \in Cpus \cup {NoCpu}
    /\ curenv \in [Cpus -> Slots \cup {NoEnv}]
    /\ cr3 \in [Cpus -> Slots \cup {Kern}]
    /\ cpuStatus \in [Cpus -> {"UNUSED", "STARTED", "HALTED"}]
    /\ apNext \in Nat
    /\ entryStack \in Cpus
    /\ kstack \in [Cpus -> Cpus \cup {NoCpu}]

(* Kernel code runs only under the lock: spin_lock never finds "already     *)
(* holding" and spin_unlock never "cannot release" (kern/spinlock.c), on    *)
(* every path into and out of the kernel, the wake-up from hlt included.    *)
LockDiscipline == \A c \in Cpus : InKernel(c) <=> lock = c

(* One environment never runs on two CPUs at once (kern/sched.c:26,         *)
(* user/stresssched.c:25).                                                  *)
NeverOnTwoCpus ==
    \A c, d \in Cpus : c # d /\ curenv[c] = curenv[d] => curenv[c] = NoEnv

(* What a CPU executes is RUNNING, or a zombie it has still to collect: the *)
(* slot is not free and no scheduler may hand it to another CPU.            *)
ExecutesItsOwn ==
    \A c \in Cpus : pc[c] \in Executing =>
        curenv[c] \in Slots /\ status[curenv[c]] \in {"RUNNING", "DYING"}

(* A RUNNING or DYING environment is some CPU's curenv: one that no CPU     *)
(* will give up or collect would stay in that state for ever.               *)
RunningSomewhere ==
    \A s \in Slots :
        status[s] \in {"RUNNING", "DYING"} => \E c \in Cpus : curenv[c] = s

(* No CPU, running or halted, has the page directory of a freed environment *)
(* loaded: env_free, env_run and sched_halt switch cr3 in time.             *)
AddressSpaceAlive ==
    \A c \in Cpus : cr3[c] # Kern => status[cr3[c]] # "FREE"

(* The kernel monitor, entered for want of work with the lock held for ever,*)
(* never cuts off a CPU that is running user code.                          *)
MonitorQuiescent ==
    (\E c \in Cpus : pc[c] = "monitor") => \A d \in Cpus : pc[d] \notin Executing

(* Each AP comes up on the stack boot_aps meant for it, although all of     *)
(* them read the one variable mpentry_kstack.                               *)
OwnBootStack == \A c \in Cpus : kstack[c] \in {c, NoCpu}

(* An environment that waits for a message is blocked: nobody runs it with  *)
(* env_ipc_recving set, when a sender could make it RUNNABLE a second time. *)
ReceiverBlocked ==
    \A s \in Slots :
        recving[s] /\ status[s] # "FREE" => status[s] = "NOT_RUNNABLE"

(* A zombie only dies: no step makes a DYING environment run again.         *)
ZombieOnlyDies ==
    [][\A s \in Slots : status[s] = "DYING" => status'[s] \in {"DYING", "FREE"}]_vars

(* A RUNNABLE environment is not passed over for ever: the circular search  *)
(* of sched_yield, on all CPUs together, comes to it (kern/sched.c:16-20).  *)
NoStarvation ==
    \A s \in Slots : status[s] = "RUNNABLE" ~> status[s] # "RUNNABLE"

(* The zombie that env_destroy leaves to another CPU is collected by that   *)
(* CPU (kern/env.c:501-503), as long as no CPU spins on the lock for ever.  *)
ZombieCollected ==
    (\A c \in Cpus : []<>(pc[c] \notin Spinning)) =>
        \A s \in Slots : status[s] = "DYING" ~> status[s] = "FREE"
=============================================================================
