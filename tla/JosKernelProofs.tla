-------------------------- MODULE JosKernelProofs ---------------------------
(***************************************************************************)
(* Proofs about JosKernel for any number of CPUs, slots and generations:   *)
(* an inductive invariant of Spec, and the safety properties it implies.   *)
(***************************************************************************)
EXTENDS JosKernel, EnvTableProofs

USE NENVAssumption, MaxGenAssumption, NCPUAssumption

(* The inductive invariant, in named parts.                                 *)

\* What a CPU's curenv can be at each of its locations.
BootOnly == {"i386_init", "boot_aps", "wait_ap", "create_fs", "create_user"}
InTrap   == {"dispatch", "ret", "sched", "monitor"}

CurenvOK(c) ==
    /\ curenv[c] # NoEnv =>
        /\ pc[c] \in Executing \cup {"enter"} \cup InTrap
        /\ status[curenv[c]] # "FREE"
        /\ pc[c] \in InTrap => status[curenv[c]] # "DYING"
        /\ pc[c] = "dispatch" => status[curenv[c]] = "RUNNING"
    /\ pc[c] \in Executing \cup {"enter"} =>
        curenv[c] # NoEnv /\ status[curenv[c]] \in {"RUNNING", "DYING"}
    /\ cr3[c] = curenv[c]
CurenvInv == \A c \in Cpus : CurenvOK(c)

\* A halted CPU is marked so; the monitor was entered with nothing to do.
HaltOK(c) ==
    /\ pc[c] = "halted" => cpuStatus[c] = "HALTED"
    /\ pc[c] = "monitor" => ~ Work
HaltInv == \A c \in Cpus : HaltOK(c)

\* A slot that was allocated and has not run yet waits to be started.
FreshInv ==
    \A s \in Slots :
        ~ ran[s] /\ status[s] # "FREE" =>
            status[s] \in {"RUNNABLE", "NOT_RUNNABLE"} /\ ~ recving[s]

\* The hand-shake of boot_aps with the APs.
BootInv ==
    /\ \A c \in Cpus : pc[c] \in BootOnly => c = BSP
    /\ \A c \in Cpus : pc[c] \in {"off", "mpentry", "mp_main"} => cpuStatus[c] # "STARTED"
    /\ \A c \in Cpus : pc[c] \in {"mpentry", "mp_main"} =>
        pc[BSP] = "wait_ap" /\ apNext = c /\ entryStack = c
    /\ \A c \in Cpus : pc[BSP] \in {"i386_init", "boot_aps"} /\ apNext <= c => pc[c] = "off"
    /\ \A c \in Cpus : pc[BSP] = "wait_ap" /\ apNext < c => pc[c] = "off"
    /\ pc[BSP] = "wait_ap" => apNext \in Cpus
    /\ apNext > 0
    /\ pc[BSP] \notin {"off", "mpentry", "mp_main"}

IInv ==
    /\ TypeOK
    /\ FreeListExact
    /\ LockDiscipline
    /\ NeverOnTwoCpus
    /\ CurenvInv
    /\ RunningSomewhere
    /\ HaltInv
    /\ FreshInv
    /\ ReceiverBlocked
    /\ BootInv
    /\ OwnBootStack

-----------------------------------------------------------------------------
(* Facts shared by the actions.                                             *)

\* The locations of a CPU that is still booting, and all the others.
Early == BootOnly \cup {"off", "mpentry", "mp_main"}
Later == (Locked \cup Spinning \cup Executing \cup Outside) \ Early

USE DEF Slots, Cpus, BSP, NoCpu, NoEnv, Kern, Goto

\* A step that changes neither the environments nor who runs them.
LEMMA QuietLemma ==
    ASSUME IInv, UNCHANGED <<envVars, curenv>>
    PROVE  /\ EnvTypeOK' /\ FreeListExact' /\ FreshInv' /\ ReceiverBlocked'
           /\ NeverOnTwoCpus' /\ RunningSomewhere'
BY DEF IInv, TypeOK, envVars, EnvTypeOK, FreeListExact, FreshInv, ReceiverBlocked,
       NeverOnTwoCpus, RunningSomewhere

\* A step of a CPU that has booted: the boot hand-shake is left alone, and
\* the lock is where the CPU's new location says, if the step moves it so.
LEMMA LaterLemma ==
    ASSUME IInv, NEW c \in Cpus, NEW l \in Later,
           pc[c] \in Later, pc' = [pc EXCEPT ![c] = l],
           UNCHANGED bootVars,
           cpuStatus' \in [Cpus -> {"UNUSED", "STARTED", "HALTED"}],
           \A d \in Cpus : d # c => cpuStatus'[d] = cpuStatus[d],
           \/ pc[c] \in Locked /\ l \in Locked /\ lock' = lock
           \/ pc[c] \notin Locked /\ l \notin Locked /\ lock' = lock
           \/ pc[c] \in Locked /\ l \notin Locked /\ lock' = NoCpu
           \/ pc[c] \notin Locked /\ l \in Locked /\ lock = NoCpu /\ lock' = c
    PROVE  /\ BootInv' /\ OwnBootStack' /\ LockDiscipline'
           /\ pc' \in [Cpus -> Locked \cup Spinning \cup Executing \cup Outside]
           /\ lock' \in Cpus \cup {NoCpu}
           /\ apNext' \in Nat /\ entryStack' \in Cpus
           /\ kstack' \in [Cpus -> Cpus \cup {NoCpu}]
<1>1. pc' \in [Cpus -> Locked \cup Spinning \cup Executing \cup Outside]
  BY DEF IInv, TypeOK, Later
<1>2. lock' \in Cpus \cup {NoCpu}
  BY DEF IInv, TypeOK
<1>3. apNext' \in Nat /\ entryStack' \in Cpus /\ kstack' \in [Cpus -> Cpus \cup {NoCpu}]
  BY DEF IInv, TypeOK, bootVars
<1>4. \A d \in Cpus : d # c => pc'[d] = pc[d]
  BY DEF IInv, TypeOK
<1>5. pc'[c] = l
  BY DEF IInv, TypeOK
<1>6. LockDiscipline'
  BY <1>1, <1>4, <1>5 DEF IInv, TypeOK, LockDiscipline, InKernel
<1>7. BootInv'
  <2>1. \A d \in Cpus : pc'[d] \in Early => pc[d] = pc'[d] /\ cpuStatus'[d] = cpuStatus[d]
    BY <1>4, <1>5 DEF Later
  <2>2. \A d \in Cpus : pc[d] \in Early => pc[d] = pc'[d]
    BY <1>4 DEF Later
  <2>3. BSP \in Cpus
    BY NCPUAssumption
  <2>4. apNext' = apNext /\ entryStack' = entryStack
    BY DEF bootVars
  <2>5. pc'[BSP] \notin {"off", "mpentry", "mp_main"}
    BY <2>1, <2>3 DEF IInv, BootInv, Early
  <2> QED
    BY <2>1, <2>2, <2>3, <2>4, <2>5 DEF IInv, BootInv, Early, BootOnly
<1>8. OwnBootStack'
  BY DEF IInv, OwnBootStack, bootVars
<1> QED  BY <1>1, <1>2, <1>3, <1>6, <1>7, <1>8

\* While CPU c is in the kernel, the others are not, and each environment
\* they execute is neither c's nor one a call of c could start or free.
LEMMA OthersLemma ==
    ASSUME IInv, NEW c \in Cpus, pc[c] \in Locked, NEW d \in Cpus, d # c
    PROVE  /\ pc[d] \notin Locked
           /\ curenv[d] # NoEnv =>
                /\ curenv[d] \in Slots /\ curenv[d] # curenv[c]
                /\ pc[d] \in Executing
                /\ status[curenv[d]] \in {"RUNNING", "DYING"}
<1>1. pc[d] \notin Locked
  BY DEF IInv, LockDiscipline, InKernel, TypeOK
<1>2. QED
  BY <1>1 DEF IInv, TypeOK, CurenvInv, CurenvOK, NeverOnTwoCpus, Locked, InTrap

\* What CurenvOK says of a CPU depends only on its own state and on the
\* status of its environment.
LEMMA CurenvFrame ==
    ASSUME IInv, NEW d \in Cpus,
           pc'[d] = pc[d], curenv'[d] = curenv[d], cr3'[d] = cr3[d],
           curenv[d] # NoEnv => status'[curenv[d]] = status[curenv[d]]
    PROVE  CurenvOK(d)'
BY DEF IInv, CurenvInv, CurenvOK

\* A booted CPU that goes to location l and leaves the environments alone
\* keeps the invariant, when l fits what it has in curenv.
LEMMA QuietMove ==
    ASSUME IInv, NEW c \in Cpus, NEW l \in Later,
           pc[c] \in Later, pc' = [pc EXCEPT ![c] = l],
           UNCHANGED <<envVars, curenv, cr3, bootVars>>,
           cpuStatus' \in [Cpus -> {"UNUSED", "STARTED", "HALTED"}],
           \A d \in Cpus : d # c => cpuStatus'[d] = cpuStatus[d],
           \/ pc[c] \in Locked /\ l \in Locked /\ lock' = lock
           \/ pc[c] \notin Locked /\ l \notin Locked /\ lock' = lock
           \/ pc[c] \notin Locked /\ l \in Locked /\ lock = NoCpu /\ lock' = c,
           curenv[c] # NoEnv =>
               /\ l \in Executing \cup {"enter"} \cup InTrap
               /\ l \in InTrap => status[curenv[c]] # "DYING"
               /\ l = "dispatch" => status[curenv[c]] = "RUNNING",
           l \in Executing \cup {"enter"} =>
               curenv[c] # NoEnv /\ status[curenv[c]] \in {"RUNNING", "DYING"},
           l = "halted" => cpuStatus'[c] = "HALTED",
           l = "monitor" => ~ Work
    PROVE  IInv'
<1>1. /\ EnvTypeOK' /\ FreeListExact' /\ FreshInv' /\ ReceiverBlocked'
      /\ NeverOnTwoCpus' /\ RunningSomewhere'
  BY QuietLemma
<1>2. /\ BootInv' /\ OwnBootStack' /\ LockDiscipline'
      /\ pc' \in [Cpus -> Locked \cup Spinning \cup Executing \cup Outside]
      /\ lock' \in Cpus \cup {NoCpu}
      /\ apNext' \in Nat /\ entryStack' \in Cpus
      /\ kstack' \in [Cpus -> Cpus \cup {NoCpu}]
  BY LaterLemma
<1>3. TypeOK'
  BY <1>1, <1>2 DEF IInv, TypeOK
<1>4. status' = status /\ pc'[c] = l /\ \A d \in Cpus : d # c => pc'[d] = pc[d]
  BY DEF IInv, TypeOK, envVars
<1>5. CurenvInv'
  <2>1. CurenvOK(c)'
    BY <1>4 DEF IInv, TypeOK, CurenvInv, CurenvOK
  <2>2. ASSUME NEW d \in Cpus, d # c  PROVE CurenvOK(d)'
    BY <2>2, <1>4, CurenvFrame
  <2>3. QED  BY <2>1, <2>2 DEF CurenvInv
<1>6. HaltInv'
  BY <1>4 DEF IInv, HaltInv, HaltOK, Work
<1> QED  BY <1>1, <1>2, <1>3, <1>5, <1>6 DEF IInv

-----------------------------------------------------------------------------
(* One lemma per action.  First the actions that leave the environments      *)
(* alone.                                                                   *)

USE DEF Locked, Spinning, Executing, Outside, InTrap, BootOnly, Early, Later

\* lock_kernel once booted: the CPU that got the lock is the only one inside the kernel.
LEMMA AcquireStep ==
    ASSUME IInv, NEW c \in Cpus, Acquire(c), pc[c] # "i386_init"
    PROVE  IInv'
<1>1. pc' = [pc EXCEPT ![c] = AfterLock(pc[c])]
  BY DEF Acquire
<1>2. AfterLock(pc[c]) \in {"sched", "dispatch", "enter"}
  BY DEF Acquire, AfterLock
<1>3. pc[c] = "trap_lock" <=> AfterLock(pc[c]) = "enter"
  BY DEF Acquire, AfterLock
<1>4. pc[c] # "trap_lock" => curenv[c] = NoEnv
  BY DEF Acquire, IInv, CurenvInv, CurenvOK
<1>5. pc[c] = "trap_lock" => curenv[c] # NoEnv /\ status[curenv[c]] \in {"RUNNING", "DYING"}
  BY DEF IInv, CurenvInv, CurenvOK
<1> QED
  BY <1>1, <1>2, <1>3, <1>4, <1>5, QuietMove DEF Acquire, IInv, TypeOK

\* Entering the monitor touches no environment, and there is no work at that moment.
LEMMA SchedMonitorStep ==
    ASSUME IInv, NEW c \in Cpus, SchedMonitor(c)  PROVE IInv'
<1>1. curenv[c] # NoEnv => status[curenv[c]] # "DYING"
  BY DEF IInv, CurenvInv, CurenvOK, SchedMonitor
<1> QED
  BY <1>1, QuietMove DEF SchedMonitor, IInv, TypeOK

\* The iret of env_pop_tf leaves the environment, RUNNING or DYING by then, on its CPU.
LEMMA IretStep ==
    ASSUME IInv, NEW c \in Cpus, Iret(c)  PROVE IInv'
<1>1. curenv[c] # NoEnv /\ status[curenv[c]] \in {"RUNNING", "DYING"}
  BY DEF IInv, CurenvInv, CurenvOK, Iret
<1> QED
  BY <1>1, QuietMove DEF Iret, IInv, TypeOK

\* A trap from user mode: the environment stays the CPU's own while it spins for the lock.
LEMMA TrapUserStep ==
    ASSUME IInv, NEW c \in Cpus, TrapUser(c)  PROVE IInv'
<1>1. curenv[c] # NoEnv /\ status[curenv[c]] \in {"RUNNING", "DYING"}
  BY DEF IInv, CurenvInv, CurenvOK, TrapUser
<1> QED
  BY <1>1, QuietMove DEF TrapUser, IInv, TypeOK

\* A halted CPU carries the HALTED mark, so its wake-up goes through lock_kernel.
LEMMA TrapHaltedStep ==
    ASSUME IInv, NEW c \in Cpus, TrapHalted(c)  PROVE IInv'
<1>1. cpuStatus[c] = "HALTED" /\ curenv[c] = NoEnv
  BY DEF IInv, HaltInv, HaltOK, CurenvInv, CurenvOK, TrapHalted
<1> QED
  BY <1>1, QuietMove DEF TrapHalted, IInv, TypeOK

\* Past the zombie test of trap, the environment is RUNNING.
LEMMA EnterStep ==
    ASSUME IInv, NEW c \in Cpus, Enter(c)  PROVE IInv'
<1>1. curenv[c] # NoEnv /\ status[curenv[c]] = "RUNNING"
  BY DEF IInv, CurenvInv, CurenvOK, Enter
<1> QED
  BY <1>1, QuietMove DEF Enter, IInv, TypeOK

\* A call that changes no environment: on to the end of trap.
LEMMA NoEffectStep ==
    ASSUME IInv, NEW c \in Cpus, NoEffect(c)  PROVE IInv'
<1>1. curenv[c] # NoEnv /\ status[curenv[c]] = "RUNNING"
  BY DEF IInv, CurenvInv, CurenvOK, NoEffect, Dispatching
<1> QED
  BY <1>1, QuietMove DEF NoEffect, Dispatching, IInv, TypeOK

\* The timer and sys_yield: curenv, if any, is still RUNNING in the scheduler.
LEMMA YieldStep ==
    ASSUME IInv, NEW c \in Cpus, Yield(c)  PROVE IInv'
<1>1. curenv[c] # NoEnv => status[curenv[c]] # "DYING"
  BY DEF IInv, CurenvInv, CurenvOK, Yield
<1> QED
  BY <1>1, QuietMove DEF Yield, IInv, TypeOK

-----------------------------------------------------------------------------
(* Booting: the actions of the hand-shake between boot_aps and the APs.      *)

\* A boot step that leaves the environments alone: only the hand-shake and
\* the lock are left to look at, since a booting CPU has no environment.
LEMMA BootMove ==
    ASSUME IInv, UNCHANGED <<envVars, curenv, cr3>>,
           pc' \in [Cpus -> Locked \cup Spinning \cup Executing \cup Outside],
           \A d \in Cpus :
               \/ pc'[d] = pc[d] /\ cpuStatus'[d] = cpuStatus[d]
               \/ pc[d] \in Early /\ pc'[d] \in Early \cup {"mp_lock"},
           LockDiscipline', BootInv', OwnBootStack',
           lock' \in Cpus \cup {NoCpu}, apNext' \in Nat, entryStack' \in Cpus,
           cpuStatus' \in [Cpus -> {"UNUSED", "STARTED", "HALTED"}],
           kstack' \in [Cpus -> Cpus \cup {NoCpu}]
    PROVE  IInv'
<1>1. /\ EnvTypeOK' /\ FreeListExact' /\ FreshInv' /\ ReceiverBlocked'
      /\ NeverOnTwoCpus' /\ RunningSomewhere'
  BY QuietLemma
<1>2. TypeOK'
  BY <1>1 DEF IInv, TypeOK
<1>3. CurenvInv'
  <2> SUFFICES ASSUME NEW d \in Cpus PROVE CurenvOK(d)'
    BY DEF CurenvInv
  <2>1. CASE pc'[d] = pc[d]
    BY <2>1, CurenvFrame DEF envVars
  <2>2. CASE pc[d] \in Early /\ pc'[d] \in Early \cup {"mp_lock"}
    BY <2>2 DEF IInv, CurenvInv, CurenvOK
  <2>3. QED  BY <2>1, <2>2
<1>4. HaltInv'
  BY DEF IInv, HaltInv, HaltOK, Work, envVars
<1> QED  BY <1>1, <1>2, <1>3, <1>4 DEF IInv

\* The BSP's lock_kernel in i386_init.
LEMMA BootAcquireStep ==
    ASSUME IInv, NEW c \in Cpus, Acquire(c), pc[c] = "i386_init"
    PROVE  IInv'
<1>1. pc' = [pc EXCEPT ![c] = "boot_aps"] /\ c = BSP
  BY DEF Acquire, AfterLock, IInv, BootInv
<1>2. LockDiscipline'
  BY <1>1 DEF Acquire, IInv, TypeOK, LockDiscipline, InKernel
<1>3. BootInv'
  BY <1>1, NCPUAssumption DEF Acquire, IInv, TypeOK, BootInv, bootVars
<1>4. OwnBootStack'
  BY DEF Acquire, IInv, OwnBootStack, bootVars
<1> QED
  BY <1>1, <1>2, <1>3, <1>4, BootMove DEF Acquire, IInv, TypeOK, bootVars

\* boot_aps starts one AP, with mpentry_kstack pointing at its stack.
LEMMA StartApStep ==
    ASSUME IInv, NEW c \in Cpus, StartAp(c)  PROVE IInv'
<1>1. /\ c = BSP /\ apNext \in Cpus /\ apNext # BSP /\ pc[apNext] = "off"
      /\ pc' = [pc EXCEPT ![c] = "wait_ap", ![apNext] = "mpentry"]
      /\ pc[c] = "boot_aps"
  BY NCPUAssumption DEF StartAp, IInv, TypeOK, BootInv
<1>2. LockDiscipline'
  BY <1>1 DEF StartAp, IInv, TypeOK, LockDiscipline, InKernel
<1>3. BootInv'
  BY <1>1 DEF StartAp, IInv, TypeOK, BootInv
<1>4. OwnBootStack'
  BY DEF StartAp, IInv, OwnBootStack
<1>5. pc' \in [Cpus -> Locked \cup Spinning \cup Executing \cup Outside]
  BY <1>1 DEF IInv, TypeOK
<1>6. \A d \in Cpus : pc'[d] = pc[d] \/ (pc[d] \in Early /\ pc'[d] \in Early)
  BY <1>1 DEF IInv, TypeOK
<1> QED
  BY <1>1, <1>2, <1>3, <1>4, <1>5, <1>6, BootMove DEF StartAp, IInv, TypeOK

\* boot_aps leaves an AP only after it has loaded its stack.
LEMMA WaitApStep ==
    ASSUME IInv, NEW c \in Cpus, WaitAp(c)  PROVE IInv'
<1>1. /\ c = BSP /\ pc' = [pc EXCEPT ![c] = "boot_aps"] /\ pc[c] = "wait_ap"
      /\ apNext \in Cpus /\ apNext' = apNext + 1 /\ cpuStatus[apNext] = "STARTED"
  BY DEF WaitAp, IInv, BootInv
<1>2. LockDiscipline'
  BY <1>1 DEF WaitAp, IInv, TypeOK, LockDiscipline, InKernel
<1>3. apNext' \in Nat /\ apNext' > 0 /\ \A d \in Cpus : apNext' <= d => apNext < d
  BY <1>1, NCPUAssumption
<1>4. BootInv'
  BY <1>1, <1>3, NCPUAssumption DEF WaitAp, IInv, TypeOK, BootInv
<1>5. OwnBootStack'
  BY DEF WaitAp, IInv, OwnBootStack
<1> QED
  BY <1>1, <1>2, <1>3, <1>4, <1>5, BootMove DEF WaitAp, IInv, TypeOK

\* boot_aps is done: every AP is past mp_main.
LEMMA BootApsDoneStep ==
    ASSUME IInv, NEW c \in Cpus, BootApsDone(c)  PROVE IInv'
<1>1. /\ c = BSP /\ pc' = [pc EXCEPT ![c] = "create_fs"] /\ pc[c] = "boot_aps"
  BY DEF BootApsDone, IInv, BootInv
<1>2. LockDiscipline'
  BY <1>1 DEF BootApsDone, IInv, TypeOK, LockDiscipline, InKernel
<1>3. BootInv'
  BY <1>1 DEF BootApsDone, IInv, TypeOK, BootInv, bootVars
<1>4. OwnBootStack'
  BY DEF BootApsDone, IInv, OwnBootStack, bootVars
<1> QED
  BY <1>1, <1>2, <1>3, <1>4, BootMove DEF BootApsDone, IInv, TypeOK, bootVars

\* The AP that loads mpentry_kstack is the one boot_aps waits for.
LEMMA MpEntryStep ==
    ASSUME IInv, NEW c \in Cpus, MpEntry(c)  PROVE IInv'
<1>1. pc' = [pc EXCEPT ![c] = "mp_main"] /\ pc[c] = "mpentry" /\ entryStack = c
  BY DEF MpEntry, IInv, BootInv
<1>2. LockDiscipline'
  BY <1>1 DEF MpEntry, IInv, TypeOK, LockDiscipline, InKernel
<1>3. BootInv'
  BY <1>1 DEF MpEntry, IInv, TypeOK, BootInv
<1>4. OwnBootStack'
  BY <1>1 DEF MpEntry, IInv, TypeOK, OwnBootStack
<1> QED
  BY <1>1, <1>2, <1>3, <1>4, BootMove DEF MpEntry, IInv, TypeOK

\* The AP reports to boot_aps and spins for the lock.
LEMMA MpMainStep ==
    ASSUME IInv, NEW c \in Cpus, MpMain(c)  PROVE IInv'
<1>1. pc' = [pc EXCEPT ![c] = "mp_lock"] /\ pc[c] = "mp_main"
  BY DEF MpMain
<1>2. LockDiscipline'
  BY <1>1 DEF MpMain, IInv, TypeOK, LockDiscipline, InKernel
<1>3. BootInv'
  BY <1>1 DEF MpMain, IInv, TypeOK, BootInv, bootVars
<1>4. OwnBootStack'
  BY DEF MpMain, IInv, OwnBootStack, bootVars
<1> QED
  BY <1>1, <1>2, <1>3, <1>4, BootMove DEF MpMain, IInv, TypeOK, bootVars

-----------------------------------------------------------------------------
(* Actions that allocate, run, block, wake and free environments, all by a   *)
(* CPU that holds the lock.                                                 *)

\* sched_halt: the CPU gives up an environment that is blocked or gone.
LEMMA SchedHaltStep ==
    ASSUME IInv, NEW c \in Cpus, SchedHalt(c)  PROVE IInv'
<1>1. /\ pc[c] = "sched" /\ pc' = [pc EXCEPT ![c] = "halted"]
      /\ curenv' = [curenv EXCEPT ![c] = NoEnv] /\ cr3' = [cr3 EXCEPT ![c] = Kern]
      /\ cpuStatus' = [cpuStatus EXCEPT ![c] = "HALTED"]
      /\ lock' = NoCpu /\ UNCHANGED <<envVars, bootVars>>
  BY DEF SchedHalt
<1>2. /\ BootInv' /\ OwnBootStack' /\ LockDiscipline'
      /\ pc' \in [Cpus -> Locked \cup Spinning \cup Executing \cup Outside]
      /\ lock' \in Cpus \cup {NoCpu}
      /\ apNext' \in Nat /\ entryStack' \in Cpus
      /\ kstack' \in [Cpus -> Cpus \cup {NoCpu}]
  BY <1>1, LaterLemma DEF IInv, TypeOK
<1>3. TypeOK'
  BY <1>1, <1>2 DEF IInv, TypeOK, EnvTypeOK, envVars
<1>4. FreeListExact' /\ FreshInv' /\ ReceiverBlocked'
  BY <1>1 DEF IInv, FreeListExact, FreshInv, ReceiverBlocked, envVars
<1>5. NeverOnTwoCpus'
  BY <1>1 DEF IInv, TypeOK, NeverOnTwoCpus
<1>6. CurenvInv'
  <2>1. CurenvOK(c)'
    BY <1>1 DEF IInv, TypeOK, CurenvOK
  <2>2. ASSUME NEW d \in Cpus, d # c  PROVE CurenvOK(d)'
    BY <1>1, <2>2, CurenvFrame DEF IInv, TypeOK, envVars
  <2>3. QED  BY <2>1, <2>2 DEF CurenvInv
<1>7. RunningSomewhere'
  <2>1. curenv[c] # NoEnv => status[curenv[c]] \notin {"RUNNING", "DYING"}
    BY <1>1 DEF SchedHalt, CurRunning, IInv, CurenvInv, CurenvOK
  <2>2. QED
    BY <1>1, <2>1 DEF IInv, TypeOK, RunningSomewhere, envVars
<1>8. HaltInv'
  BY <1>1 DEF IInv, TypeOK, HaltInv, HaltOK, Work, envVars
<1> QED  BY <1>2, <1>3, <1>4, <1>5, <1>6, <1>7, <1>8 DEF IInv

\* env_run of an environment that is RUNNABLE, or this CPU's own.
LEMMA EnvRunStep ==
    ASSUME IInv, NEW c \in Cpus, pc[c] \in {"sched", "ret", "dispatch"},
           NEW e \in Slots, EnvRun(c, e),
           status[e] = "RUNNABLE" \/ (curenv[c] = e /\ status[e] = "RUNNING")
    PROVE  IInv'
<1>1. /\ pc' = [pc EXCEPT ![c] = "iret"] /\ lock' = NoCpu
      /\ curenv' = [curenv EXCEPT ![c] = e] /\ cr3' = [cr3 EXCEPT ![c] = e]
      /\ ran' = [ran EXCEPT ![e] = TRUE]
      /\ UNCHANGED <<gen, parent, recving, freeList, cpuStatus, bootVars>>
  BY DEF EnvRun
<1>2. status' \in [Slots -> Status]
  BY DEF EnvRun, IInv, TypeOK, EnvTypeOK, Status
<1>3. /\ BootInv' /\ OwnBootStack' /\ LockDiscipline'
      /\ pc' \in [Cpus -> Locked \cup Spinning \cup Executing \cup Outside]
      /\ lock' \in Cpus \cup {NoCpu}
      /\ apNext' \in Nat /\ entryStack' \in Cpus
      /\ kstack' \in [Cpus -> Cpus \cup {NoCpu}]
  BY <1>1, LaterLemma DEF IInv, TypeOK
<1>4. TypeOK'
  BY <1>1, <1>2, <1>3 DEF IInv, TypeOK, EnvTypeOK
<1>5. /\ status'[e] = "RUNNING"
      /\ \A s \in Slots : status'[s] = "FREE" <=> status[s] = "FREE"
      /\ \A s \in Slots : s # e =>
            status'[s] = status[s] \/ (s = curenv[c] /\ status'[s] = "RUNNABLE" /\ status[s] = "RUNNING")
  BY DEF EnvRun
<1>6. FreeListExact'
  BY <1>1, <1>5 DEF IInv, FreeListExact
<1>7. FreshInv' /\ ReceiverBlocked'
  BY <1>1, <1>5 DEF IInv, TypeOK, EnvTypeOK, FreshInv, ReceiverBlocked
<1>8. \A d \in Cpus : d # c /\ curenv[d] # NoEnv =>
        /\ curenv[d] \in Slots /\ curenv[d] # e
        /\ status'[curenv[d]] = status[curenv[d]]
  BY OthersLemma, <1>5
<1>9. NeverOnTwoCpus'
  BY <1>1, <1>8 DEF IInv, TypeOK, NeverOnTwoCpus
<1>10. CurenvInv'
  <2>1. CurenvOK(c)'
    BY <1>1, <1>5 DEF IInv, TypeOK, CurenvOK
  <2>2. ASSUME NEW d \in Cpus, d # c  PROVE CurenvOK(d)'
    BY <1>1, <1>8, <2>2, CurenvFrame DEF IInv, TypeOK
  <2>3. QED  BY <2>1, <2>2 DEF CurenvInv
<1>11. RunningSomewhere'
  <2> SUFFICES ASSUME NEW s \in Slots, status'[s] \in {"RUNNING", "DYING"}
               PROVE  \E d \in Cpus : curenv'[d] = s
    BY DEF RunningSomewhere
  <2>1. CASE s = e
    BY <2>1, <1>1 DEF IInv, TypeOK
  <2>2. CASE s # e
    <3>1. status[s] = status'[s] /\ s # curenv[c]
      BY <2>2, <1>5 DEF EnvRun, IInv, CurenvInv, CurenvOK
    <3>2. PICK d \in Cpus : curenv[d] = s
      BY <3>1 DEF IInv, RunningSomewhere
    <3>3. QED  BY <3>1, <3>2, <1>1 DEF IInv, TypeOK
  <2>3. QED  BY <2>1, <2>2
<1>12. HaltInv'
  <2>1. \A d \in Cpus : pc'[d] # "monitor"
    BY <1>1, OthersLemma DEF IInv, TypeOK
  <2>2. QED  BY <2>1, <1>1 DEF IInv, TypeOK, HaltInv, HaltOK
<1> QED  BY <1>3, <1>4, <1>6, <1>7, <1>9, <1>10, <1>11, <1>12 DEF IInv

\* A CPU in the kernel gives environment e the status st, keeping it in curenv
\* or dropping it, and goes on to l.
LEMMA StatusMove ==
    ASSUME IInv, NEW c \in Cpus, pc[c] \in Locked, NEW l \in {"create_user", "ret", "sched"},
           NEW e \in Slots, NEW st \in Status \ {"RUNNING"},
           pc' = [pc EXCEPT ![c] = l],
           status' = [status EXCEPT ![e] = st],
           UNCHANGED <<lock, cpuStatus, bootVars>>,
           EnvTypeOK', FreeListExact', FreshInv', ReceiverBlocked',
           BootInv', LockDiscipline',
           l = "create_user" => curenv[c] = NoEnv,
           \/ /\ UNCHANGED <<curenv, cr3>>
              /\ curenv[c] # NoEnv => status[curenv[c]] # "DYING"
              /\ curenv[c] = e => st \notin {"FREE", "DYING"}
           \/ /\ curenv[c] = e /\ st # "DYING"
              /\ curenv' = [curenv EXCEPT ![c] = NoEnv]
              /\ cr3' = [cr3 EXCEPT ![c] = Kern],
           IF st = "DYING" THEN status[e] = "RUNNING"
           ELSE status[e] \in {"RUNNING", "DYING"} => curenv[c] = e
    PROVE  IInv'
<1>1. \A d \in Cpus : d # c => pc'[d] = pc[d]
  BY DEF IInv, TypeOK
<1>2. pc'[c] = l
  BY DEF IInv, TypeOK
<1>3. TypeOK' /\ OwnBootStack'
  BY DEF IInv, TypeOK, bootVars, OwnBootStack
<1>4. NeverOnTwoCpus'
  BY DEF IInv, TypeOK, NeverOnTwoCpus
<1>5. CurenvInv'
  <2>1. CurenvOK(c)'
    <3>1. CASE curenv'[c] = NoEnv /\ cr3'[c] = Kern
      BY <1>2, <3>1 DEF CurenvOK
    <3>2. CASE UNCHANGED <<curenv, cr3>> /\ curenv[c] # NoEnv
      <4>1. curenv[c] \in Slots /\ cr3[c] = curenv[c]
            /\ status[curenv[c]] \notin {"FREE", "DYING"}
        BY <3>2 DEF IInv, TypeOK, CurenvInv, CurenvOK
      <4>2. status'[curenv[c]] \notin {"FREE", "DYING"}
        BY <4>1, <3>2 DEF IInv, TypeOK, EnvTypeOK
      <4>3. QED  BY <1>2, <3>2, <4>1, <4>2 DEF CurenvOK
    <3>3. curenv[c] = NoEnv => cr3[c] = Kern
      BY DEF IInv, CurenvInv, CurenvOK
    <3>4. QED  BY <3>1, <3>2, <3>3 DEF IInv, TypeOK
  <2>2. ASSUME NEW d \in Cpus, d # c  PROVE CurenvOK(d)'
    <3>1. curenv'[d] = curenv[d] /\ cr3'[d] = cr3[d]
      BY <2>2 DEF IInv, TypeOK
    <3>2. CASE curenv[d] = e
      <4>1. st = "DYING" /\ pc[d] \in Executing
        BY <2>2, <3>2, OthersLemma
      <4>2. pc'[d] = pc[d] /\ status'[e] = "DYING" /\ status[e] = "RUNNING"
        BY <1>1, <2>2, <4>1 DEF IInv, TypeOK, EnvTypeOK
      <4>3. QED
        BY <3>1, <3>2, <4>1, <4>2 DEF IInv, CurenvInv, CurenvOK
    <3>3. CASE curenv[d] # e
      BY <1>1, <2>2, <3>1, <3>3, CurenvFrame, ZenonT(60) DEF IInv, TypeOK, EnvTypeOK
    <3>4. QED  BY <3>2, <3>3
  <2>3. QED  BY <2>1, <2>2 DEF CurenvInv
<1>6. RunningSomewhere'
  <2> SUFFICES ASSUME NEW s \in Slots, status'[s] \in {"RUNNING", "DYING"}
               PROVE  \E d \in Cpus : curenv'[d] = s
    BY DEF RunningSomewhere
  <2>1. status[s] \in {"RUNNING", "DYING"} /\ (s = e => st = "DYING")
    BY DEF IInv, TypeOK, EnvTypeOK
  <2>2. PICK d \in Cpus : curenv[d] = s
    BY <2>1 DEF IInv, RunningSomewhere
  <2>3. QED
    BY <2>1, <2>2 DEF IInv, TypeOK
<1>7. HaltInv'
  <2>1. \A d \in Cpus : pc'[d] # "monitor"
    BY <1>1, <1>2, OthersLemma
  <2>2. QED
    BY <1>1, <1>2, <2>1 DEF IInv, HaltInv, HaltOK
<1> QED  BY <1>3, <1>4, <1>5, <1>6, <1>7 DEF IInv

\* env_create takes a free slot for an environment that has not run.
LEMMA EnvCreateStep ==
    ASSUME IInv, NEW c \in Cpus, EnvCreate(c)  PROVE IInv'
<1>1. /\ c = BSP /\ pc[c] \in {"create_fs", "create_user"} /\ curenv[c] = NoEnv
      /\ UNCHANGED <<lock, curenv, cr3, cpuStatus, bootVars>>
      /\ EnvAlloc(NoId, "RUNNABLE")
  BY DEF EnvCreate, IInv, BootInv, CurenvInv, CurenvOK
<1>2. PICK l \in {"create_user", "sched"} : pc' = [pc EXCEPT ![c] = l]
  BY DEF EnvCreate
<1>3. EnvTypeOK /\ FreeListExact /\ NoId \in EnvId /\ "RUNNABLE" \in Status \ {"FREE"}
  BY NENVAssumption, MaxGenAssumption DEF IInv, TypeOK, NoId, EnvId, Status
<1>4. EnvTypeOK' /\ FreeListExact'
  BY <1>1, <1>3, EnvAllocLemma
<1>5. PICK e \in Slots :
        /\ status[e] = "FREE" /\ status' = [status EXCEPT ![e] = "RUNNABLE"]
        /\ recving' = [recving EXCEPT ![e] = FALSE]
        /\ ran' = [ran EXCEPT ![e] = FALSE]
  BY <1>1, <1>3, EnvAllocLemma
<1>6. FreshInv' /\ ReceiverBlocked'
  BY <1>5 DEF IInv, TypeOK, EnvTypeOK, FreshInv, ReceiverBlocked
<1>7. BootInv' /\ LockDiscipline'
  BY <1>1, <1>2 DEF IInv, TypeOK, BootInv, LockDiscipline, InKernel, bootVars
<1> QED
  BY <1>1, <1>2, <1>4, <1>5, <1>6, <1>7, StatusMove DEF Status

\* sys_exofork takes a free slot for a child that has not run.
LEMMA SysExoforkStep ==
    ASSUME IInv, NEW c \in Cpus, SysExofork(c)  PROVE IInv'
<1>1. /\ pc[c] = "dispatch" /\ curenv[c] \in Slots /\ status[curenv[c]] = "RUNNING"
      /\ pc' = [pc EXCEPT ![c] = "ret"]
      /\ UNCHANGED <<lock, curenv, cr3, cpuStatus, bootVars>>
      /\ EnvAlloc(IdOf(curenv[c]), "NOT_RUNNABLE")
  BY DEF SysExofork, Dispatching, IInv, TypeOK, CurenvInv, CurenvOK
<1>2. /\ EnvTypeOK /\ FreeListExact /\ IdOf(curenv[c]) \in EnvId
      /\ "NOT_RUNNABLE" \in Status \ {"FREE"}
  BY <1>1 DEF IInv, TypeOK, EnvTypeOK, IdOf, EnvId, Status
<1>3. EnvTypeOK' /\ FreeListExact'
  BY <1>1, <1>2, EnvAllocLemma
<1>4. PICK e \in Slots :
        /\ status[e] = "FREE" /\ status' = [status EXCEPT ![e] = "NOT_RUNNABLE"]
        /\ recving' = [recving EXCEPT ![e] = FALSE]
        /\ ran' = [ran EXCEPT ![e] = FALSE]
  BY <1>1, <1>2, EnvAllocLemma
<1>5. FreshInv' /\ ReceiverBlocked'
  BY <1>4 DEF IInv, TypeOK, EnvTypeOK, FreshInv, ReceiverBlocked
<1>6. BootInv' /\ LockDiscipline'
  BY <1>1, LaterLemma DEF IInv, TypeOK
<1> QED
  BY <1>1, <1>3, <1>4, <1>5, <1>6, StatusMove DEF Status

\* The zombie's own CPU frees it and drops both curenv and its page directory.
LEMMA EnterZombieStep ==
    ASSUME IInv, NEW c \in Cpus, EnterZombie(c)  PROVE IInv'
<1>1. /\ pc[c] = "enter" /\ curenv[c] \in Slots /\ status[curenv[c]] = "DYING"
      /\ pc' = [pc EXCEPT ![c] = "sched"]
      /\ curenv' = [curenv EXCEPT ![c] = NoEnv] /\ cr3' = [cr3 EXCEPT ![c] = Kern]
      /\ UNCHANGED <<lock, cpuStatus, bootVars>>
      /\ EnvFree(curenv[c])
  BY DEF EnterZombie, IInv, TypeOK, CurenvInv, CurenvOK
<1>2. EnvTypeOK' /\ FreeListExact'
  BY <1>1, EnvFreeLemma DEF IInv, TypeOK
<1>3. FreshInv' /\ ReceiverBlocked'
  BY <1>1 DEF EnvFree, IInv, TypeOK, EnvTypeOK, FreshInv, ReceiverBlocked
<1>4. BootInv' /\ LockDiscipline'
  BY <1>1, LaterLemma DEF IInv, TypeOK
<1> QED
  BY <1>1, <1>2, <1>3, <1>4, StatusMove DEF EnvFree, Status

\* env_destroy by a CPU that handles a trap, of anything but a zombie.
LEMMA EnvDestroyStep ==
    ASSUME IInv, NEW c \in Cpus, Dispatching(c),
           NEW e \in Slots, status[e] \notin {"FREE", "DYING"}, EnvDestroy(c, e)
    PROVE  IInv'
<1>1. pc[c] = "dispatch" /\ curenv[c] \in Slots /\ status[curenv[c]] = "RUNNING"
  BY DEF Dispatching, IInv, TypeOK, CurenvInv, CurenvOK
<1>2. UNCHANGED <<lock, cpuStatus, bootVars>>
  BY DEF EnvDestroy
<1>3. PICK l \in {"ret", "sched"} : pc' = [pc EXCEPT ![c] = l]
  BY DEF EnvDestroy
<1>4. BootInv' /\ LockDiscipline'
  BY <1>1, <1>2, <1>3, LaterLemma DEF IInv, TypeOK
<1>5. CASE /\ status[e] = "RUNNING" /\ curenv[c] # e
           /\ status' = [status EXCEPT ![e] = "DYING"]
           /\ UNCHANGED <<gen, parent, recving, ran, freeList, curenv, cr3>>
  <2>1. ran[e] /\ ~ recving[e]
    BY <1>5 DEF IInv, TypeOK, EnvTypeOK, FreshInv, ReceiverBlocked
  <2>2. EnvTypeOK'
    BY <1>5 DEF IInv, TypeOK, EnvTypeOK, Status
  <2>3. \A s \in Slots : s # e => status'[s] = status[s]
    BY <1>5 DEF IInv, TypeOK, EnvTypeOK
  <2>4. FreshInv' /\ ReceiverBlocked'
    BY <1>5, <2>1, <2>3 DEF IInv, FreshInv, ReceiverBlocked
  <2>5. \A s \in Slots : status'[s] = "FREE" <=> status[s] = "FREE"
    BY <1>5, <2>3 DEF IInv, TypeOK, EnvTypeOK
  <2>6. FreeListExact'
    BY <1>5, <2>5 DEF IInv, FreeListExact
  <2>7. QED
    BY <1>1, <1>2, <1>3, <1>4, <1>5, <2>2, <2>4, <2>6, StatusMove DEF Status
<1>6. CASE /\ EnvFree(e)
           /\ \/ status[e] # "RUNNING" /\ curenv[c] # e /\ UNCHANGED <<curenv, cr3>>
              \/ /\ curenv[c] = e
                 /\ curenv' = [curenv EXCEPT ![c] = NoEnv]
                 /\ cr3' = [cr3 EXCEPT ![c] = Kern]
  <2>1. EnvTypeOK' /\ FreeListExact'
    BY <1>6, EnvFreeLemma DEF IInv, TypeOK
  <2>2. FreshInv' /\ ReceiverBlocked'
    BY <1>6 DEF EnvFree, IInv, TypeOK, EnvTypeOK, FreshInv, ReceiverBlocked
  <2>3. QED
    BY <1>1, <1>2, <1>3, <1>4, <1>6, <2>1, <2>2, StatusMove DEF EnvFree, Status
<1> QED
  BY <1>5, <1>6 DEF EnvDestroy

\* A receiver blocks: nobody schedules it while env_ipc_recving is set.
LEMMA SysIpcRecvStep ==
    ASSUME IInv, NEW c \in Cpus, SysIpcRecv(c)  PROVE IInv'
<1>1. /\ pc[c] = "dispatch" /\ curenv[c] \in Slots /\ status[curenv[c]] = "RUNNING"
      /\ pc' = [pc EXCEPT ![c] = "sched"]
      /\ recving' = [recving EXCEPT ![curenv[c]] = TRUE]
      /\ status' = [status EXCEPT ![curenv[c]] = "NOT_RUNNABLE"]
      /\ UNCHANGED <<gen, parent, ran, freeList, lock, curenv, cr3, cpuStatus, bootVars>>
  BY DEF SysIpcRecv, Dispatching, IInv, TypeOK, CurenvInv, CurenvOK
<1>2. EnvTypeOK' /\ FreeListExact'
  <2>1. EnvTypeOK'
    BY <1>1 DEF IInv, TypeOK, EnvTypeOK, Status
  <2>2. \A s \in Slots : status'[s] = "FREE" <=> status[s] = "FREE"
    BY <1>1 DEF IInv, TypeOK, EnvTypeOK
  <2>3. QED  BY <1>1, <2>1, <2>2 DEF IInv, FreeListExact
<1>3. ran[curenv[c]]
  BY <1>1 DEF IInv, FreshInv
<1>4. FreshInv' /\ ReceiverBlocked'
  BY <1>1, <1>3 DEF IInv, TypeOK, EnvTypeOK, FreshInv, ReceiverBlocked
<1>5. BootInv' /\ LockDiscipline'
  BY <1>1, LaterLemma DEF IInv, TypeOK
<1> QED
  BY <1>1, <1>2, <1>4, <1>5, StatusMove DEF Status

\* A sender wakes a blocked receiver, which no CPU runs.
LEMMA SysIpcTrySendStep ==
    ASSUME IInv, NEW c \in Cpus, NEW id \in EnvId, SysIpcTrySend(c, id)  PROVE IInv'
<1>1. /\ pc[c] = "dispatch" /\ curenv[c] \in Slots /\ status[curenv[c]] = "RUNNING"
      /\ pc' = [pc EXCEPT ![c] = "ret"]
      /\ UNCHANGED <<gen, parent, ran, freeList, lock, curenv, cr3, cpuStatus, bootVars>>
  BY DEF SysIpcTrySend, Dispatching, IInv, TypeOK, CurenvInv, CurenvOK
<1>2. PICK e \in Envid2Env(curenv[c], id, FALSE) :
        /\ recving[e]
        /\ recving' = [recving EXCEPT ![e] = FALSE]
        /\ status' = [status EXCEPT ![e] = "RUNNABLE"]
  BY DEF SysIpcTrySend
<1>3. e \in Slots /\ status[e] = "NOT_RUNNABLE"
  BY <1>1, <1>2 DEF Envid2Env, IInv, ReceiverBlocked
<1>4. EnvTypeOK' /\ FreeListExact'
  BY <1>1, <1>2, <1>3, ZenonT(60) DEF IInv, TypeOK, EnvTypeOK, FreeListExact, Status
<1>5. FreshInv' /\ ReceiverBlocked'
  BY <1>1, <1>2, <1>3 DEF IInv, TypeOK, EnvTypeOK, FreshInv, ReceiverBlocked
<1>6. BootInv' /\ LockDiscipline'
  BY <1>1, LaterLemma DEF IInv, TypeOK
<1> QED
  BY <1>1, <1>2, <1>3, <1>4, <1>5, <1>6, StatusMove DEF Status

\* A parent sets the status of a child that has not run, or of itself.
LEMMA LibSetStatusStep ==
    ASSUME IInv, NEW c \in Cpus, NEW id \in EnvId, NEW st \in {"RUNNABLE", "NOT_RUNNABLE"},
           LibSetStatus(c, id, st)
    PROVE  IInv'
<1>1. /\ pc[c] = "dispatch" /\ curenv[c] \in Slots /\ status[curenv[c]] = "RUNNING"
      /\ pc' = [pc EXCEPT ![c] = "ret"]
      /\ UNCHANGED <<gen, parent, recving, ran, freeList, lock, curenv, cr3, cpuStatus, bootVars>>
  BY DEF LibSetStatus, SysEnvSetStatus, Dispatching, IInv, TypeOK, CurenvInv, CurenvOK
<1>2. PICK e \in Envid2Env(curenv[c], id, TRUE) : status' = [status EXCEPT ![e] = st]
  BY DEF LibSetStatus, SysEnvSetStatus
<1>3. /\ e \in Slots
      /\ e = curenv[c] \/ (~ ran[e] /\ status[e] \in {"RUNNABLE", "NOT_RUNNABLE"})
      /\ status[e] # "FREE"
  BY <1>1, <1>2 DEF LibSetStatus, Envid2Env
<1>4. ~ recving[e] /\ (ran[e] => e = curenv[c])
  BY <1>1, <1>3 DEF IInv, TypeOK, EnvTypeOK, FreshInv, ReceiverBlocked
<1>5. EnvTypeOK' /\ FreeListExact'
  <2>1. EnvTypeOK'
    BY <1>1, <1>2, <1>3 DEF IInv, TypeOK, EnvTypeOK, Status
  <2>2. \A s \in Slots : status'[s] = "FREE" <=> status[s] = "FREE"
    BY <1>2, <1>3 DEF IInv, TypeOK, EnvTypeOK
  <2>3. FreeListExact'
    BY <1>1, <2>2 DEF IInv, FreeListExact
  <2>4. QED  BY <2>1, <2>3
<1>6. FreshInv' /\ ReceiverBlocked'
  BY <1>1, <1>2, <1>3, <1>4 DEF IInv, TypeOK, EnvTypeOK, FreshInv, ReceiverBlocked
<1>7. BootInv' /\ LockDiscipline'
  BY <1>1, LaterLemma DEF IInv, TypeOK
<1> QED
  BY <1>1, <1>2, <1>3, <1>5, <1>6, <1>7, StatusMove DEF Status

-----------------------------------------------------------------------------
(* The theorems.                                                            *)

\* The end of trap: straight back to the environment, or to the scheduler.
LEMMA TrapRetStep ==
    ASSUME IInv, NEW c \in Cpus, TrapRet(c)  PROVE IInv'
<1>1. pc[c] = "ret"
  BY DEF TrapRet
<1>2. CASE CurRunning(c) /\ EnvRun(c, curenv[c])
  BY <1>1, <1>2, EnvRunStep DEF CurRunning, IInv, TypeOK
<1>3. CASE /\ Goto(c, "sched")
           /\ UNCHANGED <<envVars, lock, curenv, cr3, cpuStatus, bootVars>>
  <2>1. curenv[c] # NoEnv => status[curenv[c]] # "DYING"
    BY <1>1 DEF IInv, CurenvInv, CurenvOK
  <2>2. QED
    BY <1>1, <1>3, <2>1, QuietMove DEF IInv, TypeOK
<1>4. QED  BY <1>2, <1>3 DEF TrapRet

\* A step that changes no variable, the monitor's read loop among them.
LEMMA StutterStep ==
    ASSUME IInv, UNCHANGED vars  PROVE IInv'
<1>1. UNCHANGED <<status, gen, parent, recving, ran, freeList>>
  BY DEF vars, envVars
<1>2. UNCHANGED <<pc, lock, curenv, cr3, cpuStatus, apNext, entryStack, kstack>>
  BY DEF vars, cpuVars, bootVars
<1>3. TypeOK'
  BY <1>1, <1>2 DEF IInv, TypeOK, EnvTypeOK
<1>4. FreeListExact'
  BY <1>1 DEF IInv, FreeListExact
<1>5. LockDiscipline' /\ NeverOnTwoCpus'
  BY <1>2 DEF IInv, LockDiscipline, InKernel, NeverOnTwoCpus
<1>6. CurenvInv'
  BY <1>1, <1>2 DEF IInv, CurenvInv, CurenvOK
<1>7. RunningSomewhere' /\ FreshInv' /\ ReceiverBlocked'
  BY <1>1, <1>2 DEF IInv, RunningSomewhere, FreshInv, ReceiverBlocked
<1>8. HaltInv'
  BY <1>1, <1>2 DEF IInv, HaltInv, HaltOK, Work
<1>9. BootInv' /\ OwnBootStack'
  BY <1>1, <1>2 DEF IInv, BootInv, OwnBootStack, InKernel
<1> QED
  BY <1>3, <1>4, <1>5, <1>6, <1>7, <1>8, <1>9 DEF IInv

\* Running the environment found by the search, or going on with one's own.
LEMMA ScheduleStep ==
    ASSUME IInv, NEW c \in Cpus, Schedule(c)  PROVE IInv'
<1>1. CASE SchedRun(c)
  BY <1>1, EnvRunStep DEF SchedRun, FirstRunnable
<1>2. CASE SchedKeep(c)
  BY <1>2, EnvRunStep DEF SchedKeep, CurRunning, IInv, TypeOK
<1>3. CASE SchedHalt(c)
  BY <1>3, SchedHaltStep
<1>4. CASE SchedMonitor(c)
  BY <1>4, SchedMonitorStep
<1>5. CASE MonitorLoop(c)
  BY <1>5, StutterStep DEF MonitorLoop
<1>6. QED  BY <1>1, <1>2, <1>3, <1>4, <1>5 DEF Schedule

\* The handlers of a trap other than the system calls.
LEMMA HandleStep ==
    ASSUME IInv, NEW c \in Cpus, Handle(c)  PROVE IInv'
<1>1. Dispatching(c) =>
        pc[c] = "dispatch" /\ curenv[c] \in Slots /\ status[curenv[c]] = "RUNNING"
  BY DEF Dispatching, IInv, TypeOK, CurenvInv, CurenvOK
<1>2. CASE FaultUpcall(c)
  BY <1>1, <1>2, EnvRunStep DEF FaultUpcall
<1>3. CASE FaultDestroy(c)
  BY <1>1, <1>3, EnvDestroyStep DEF FaultDestroy
<1>4. QED
  BY <1>2, <1>3, EnterZombieStep, EnterStep, TrapRetStep, NoEffectStep, YieldStep DEF Handle

(* Power-up establishes the inductive invariant.                            *)
LEMMA InitIInv == Init => IInv
<1> SUFFICES ASSUME Init  PROVE IInv
  OBVIOUS
<1> USE NENVAssumption, MaxGenAssumption, NCPUAssumption DEF Init, EnvInit
<1>1. freeList \in Seq(Slots) /\ Len(freeList) = NENV
  OBVIOUS
<1>2. TypeOK
  BY <1>1 DEF TypeOK, EnvTypeOK, Status, EnvId, NoId
<1>3. FreeListExact
  <2>1. ASSUME NEW s \in Slots  PROVE \E i \in 1 .. Len(freeList) : freeList[i] = s
    <3>1. s + 1 \in 1 .. Len(freeList) /\ freeList[s + 1] = s
      BY <1>1
    <3>2. QED  BY <3>1
  <2>2. QED  BY <1>1, <2>1 DEF FreeListExact
<1>4. LockDiscipline /\ NeverOnTwoCpus /\ OwnBootStack
  BY DEF LockDiscipline, InKernel, NeverOnTwoCpus, OwnBootStack
<1>5. CurenvInv /\ RunningSomewhere /\ HaltInv
  BY DEF CurenvInv, CurenvOK, RunningSomewhere, HaltInv, HaltOK
<1>6. FreshInv /\ ReceiverBlocked /\ BootInv
  BY DEF FreshInv, ReceiverBlocked, BootInv
<1> QED  BY <1>2, <1>3, <1>4, <1>5, <1>6 DEF IInv

(* Every step of the kernel and of the programs of lib/ preserves it.        *)
LEMMA NextIInv == IInv /\ [Next]_vars => IInv'
<1> SUFFICES ASSUME IInv, [Next]_vars  PROVE IInv'
  OBVIOUS
<1>1. CASE UNCHANGED vars
  BY <1>1, StutterStep
<1>2. ASSUME NEW c \in Cpus, Step(c)  PROVE IInv'
  <2>1. CASE Acquire(c)
    BY <2>1, AcquireStep, BootAcquireStep
  <2>2. CASE Boot(c)
    BY <2>2, StartApStep, WaitApStep, BootApsDoneStep, MpEntryStep, MpMainStep,
       EnvCreateStep DEF Boot
  <2>3. CASE Schedule(c)
    BY <2>3, ScheduleStep
  <2>4. CASE Iret(c) \/ Trap(c)
    BY <2>4, IretStep, TrapUserStep, TrapHaltedStep DEF Trap
  <2>5. CASE Handle(c)
    BY <2>5, HandleStep
  <2>6. CASE Syscall(c)
    BY <2>6, SysExoforkStep, SysIpcRecvStep, SysIpcTrySendStep DEF Syscall
  <2>7. QED
    BY <1>2, <2>1, <2>2, <2>3, <2>4, <2>5, <2>6 DEF Step
<1>3. ASSUME NEW c \in Cpus, LibCall(c)  PROVE IInv'
  <2>1. ASSUME NEW id \in EnvId, LibEnvDestroy(c, id)  PROVE IInv'
    <3>1. Dispatching(c)
      BY <2>1 DEF LibEnvDestroy, SysEnvDestroy
    <3>2. PICK e \in Envid2Env(curenv[c], id, TRUE) : EnvDestroy(c, e)
      BY <2>1 DEF LibEnvDestroy, SysEnvDestroy
    <3>3. e \in Slots /\ status[e] # "FREE" /\ status[e] # "DYING"
      BY <2>1, <3>1, <3>2 DEF LibEnvDestroy, Envid2Env, Dispatching, IInv, CurenvInv, CurenvOK
    <3>4. QED
      BY <3>1, <3>2, <3>3, EnvDestroyStep
  <2>2. QED
    BY <1>3, <2>1, LibSetStatusStep DEF LibCall
<1>4. QED  BY <1>1, <1>2, <1>3 DEF Next

(* The inductive invariant holds in every reachable state.                   *)
THEOREM Invariant == Spec => []IInv
BY InitIInv, NextIInv, PTL DEF Spec

(* Type correctness: in particular what the lookups of env.c index envs[]    *)
(* with is a slot, and a CPU's curenv is one or NULL.                       *)
THEOREM TypeCorrect == Spec => []TypeOK
<1>1. IInv => TypeOK
  BY DEF IInv
<1> QED  BY <1>1, Invariant, PTL

(* kernel_lock: held by exactly the CPU that executes kernel code, for any   *)
(* number of CPUs (kern/spinlock.c, kern/trap.c).                           *)
THEOREM LockIsDisciplined == Spec => []LockDiscipline
<1>1. IInv => LockDiscipline
  BY DEF IInv
<1> QED  BY <1>1, Invariant, PTL

(* No environment is on two CPUs at once (kern/sched.c).                     *)
THEOREM NoEnvOnTwoCpus == Spec => []NeverOnTwoCpus
<1>1. IInv => NeverOnTwoCpus
  BY DEF IInv
<1> QED  BY <1>1, Invariant, PTL

(* A CPU executes only a RUNNING environment, or a zombie it will collect.   *)
THEOREM ExecutesLiveEnv == Spec => []ExecutesItsOwn
<1>1. IInv => ExecutesItsOwn
  BY DEF IInv, TypeOK, CurenvInv, CurenvOK, ExecutesItsOwn
<1> QED  BY <1>1, Invariant, PTL

(* No CPU has the page directory of a freed environment loaded.              *)
THEOREM Cr3Alive == Spec => []AddressSpaceAlive
<1>1. IInv => AddressSpaceAlive
  BY DEF IInv, TypeOK, CurenvInv, CurenvOK, AddressSpaceAlive
<1> QED  BY <1>1, Invariant, PTL

(* The free list of env.c stays exactly the set of free slots.               *)
THEOREM FreeListCorrect == Spec => []FreeListExact
<1>1. IInv => FreeListExact
  BY DEF IInv
<1> QED  BY <1>1, Invariant, PTL

(* The monitor is entered only when no CPU runs user code.                   *)
THEOREM MonitorOnlyWhenIdle == Spec => []MonitorQuiescent
<1>1. IInv => MonitorQuiescent
  <2> SUFFICES ASSUME IInv, NEW c \in Cpus, pc[c] = "monitor",
                      NEW d \in Cpus, pc[d] \in Executing
               PROVE  FALSE
    BY DEF MonitorQuiescent
  <2>1. ~ Work
    BY DEF IInv, HaltInv, HaltOK
  <2>2. curenv[d] \in Slots /\ status[curenv[d]] \in {"RUNNING", "DYING"}
    BY DEF IInv, TypeOK, CurenvInv, CurenvOK
  <2>3. QED  BY <2>1, <2>2 DEF Work
<1> QED  BY <1>1, Invariant, PTL

(* A RUNNING or DYING environment is on some CPU: none is lost between two    *)
(* of them, for any number of CPUs (kern/sched.c, kern/env.c).              *)
THEOREM NoneLost == Spec => []RunningSomewhere
<1>1. IInv => RunningSomewhere
  BY DEF IInv
<1> QED  BY <1>1, Invariant, PTL

(* Each AP comes up on the stack that boot_aps meant for it: the hand-shake  *)
(* on cpu_status keeps the one variable mpentry_kstack from being changed   *)
(* too early, for any number of APs (kern/init.c, kern/mpentry.S).          *)
THEOREM ApsBootOnOwnStack == Spec => []OwnBootStack
<1>1. IInv => OwnBootStack
  BY DEF IInv
<1> QED  BY <1>1, Invariant, PTL

(* An environment that waits for a message is blocked: a sender cannot make  *)
(* RUNNABLE one that some CPU is running (kern/syscall.c).                  *)
THEOREM ReceiversBlocked == Spec => []ReceiverBlocked
<1>1. IInv => ReceiverBlocked
  BY DEF IInv
<1> QED  BY <1>1, Invariant, PTL

(* A zombie only dies: what another CPU marked DYING is never made to run    *)
(* again, by the scheduler, by a system call or by a fault handler.         *)
THEOREM ZombiesOnlyDie == Spec => ZombieOnlyDies
<1> DEFINE Dies == \A s \in Slots : status[s] = "DYING" => status'[s] \in {"DYING", "FREE"}
<1>1. ASSUME IInv, Next  PROVE Dies
  <2> PICK c \in Cpus : Step(c) \/ LibCall(c)
    BY <1>1 DEF Next
  <2> USE <1>1
  <2>1. CASE UNCHANGED status
    BY <2>1
  <2>2. ASSUME NEW e \in Slots, EnvFree(e)  PROVE Dies
    BY <2>2 DEF EnvFree, IInv, TypeOK, EnvTypeOK
  <2>3. ASSUME NEW e \in Slots, EnvRun(c, e), status[e] # "DYING"  PROVE Dies
    BY <2>3 DEF EnvRun, IInv, TypeOK, EnvTypeOK
  <2>4. Dispatching(c) =>
          pc[c] = "dispatch" /\ curenv[c] \in Slots /\ status[curenv[c]] = "RUNNING"
    BY DEF Dispatching, IInv, TypeOK, CurenvInv, CurenvOK
  <2>5. ASSUME NEW e \in Slots, EnvDestroy(c, e)  PROVE Dies
    <3>1. CASE status' = [status EXCEPT ![e] = "DYING"]
      BY <3>1 DEF IInv, TypeOK, EnvTypeOK
    <3>2. QED  BY <2>2, <2>5, <3>1 DEF EnvDestroy
  <2>6. CASE Boot(c)
    <3>1. CASE EnvCreate(c)
      <4>1. EnvTypeOK /\ FreeListExact /\ NoId \in EnvId /\ "RUNNABLE" \in Status \ {"FREE"}
        BY NENVAssumption, MaxGenAssumption DEF IInv, TypeOK, NoId, EnvId, Status
      <4>2. PICK e \in Slots :
              status[e] = "FREE" /\ status' = [status EXCEPT ![e] = "RUNNABLE"]
        BY <3>1, <4>1, EnvAllocLemma DEF EnvCreate
      <4>3. QED  BY <4>2 DEF IInv, TypeOK, EnvTypeOK
    <3>2. QED
      BY <2>6, <2>1, <3>1 DEF Boot, StartAp, WaitAp, BootApsDone, MpEntry, MpMain, envVars
  <2>7. CASE Schedule(c)
    <3>1. CASE SchedRun(c)
      BY <3>1, <2>3 DEF SchedRun, FirstRunnable
    <3>2. CASE SchedKeep(c)
      BY <3>2, <2>3 DEF SchedKeep, CurRunning, IInv, TypeOK
    <3>3. QED
      BY <2>7, <2>1, <3>1, <3>2 DEF Schedule, SchedHalt, SchedMonitor, MonitorLoop, vars, envVars
  <2>8. CASE Handle(c)
    <3>1. CASE EnterZombie(c)
      BY <3>1, <2>2 DEF EnterZombie, IInv, TypeOK, CurenvInv, CurenvOK
    <3>2. CASE TrapRet(c)
      BY <3>2, <2>1, <2>3 DEF TrapRet, CurRunning, envVars, IInv, TypeOK
    <3>3. CASE FaultUpcall(c)
      BY <3>3, <2>3, <2>4 DEF FaultUpcall
    <3>4. CASE FaultDestroy(c)
      BY <3>4, <2>4, <2>5 DEF FaultDestroy
    <3>5. QED
      BY <2>8, <2>1, <3>1, <3>2, <3>3, <3>4 DEF Handle, Enter, NoEffect, Yield, envVars
  <2>9. CASE SysExofork(c)
    <3>1. /\ EnvTypeOK /\ FreeListExact /\ IdOf(curenv[c]) \in EnvId
          /\ "NOT_RUNNABLE" \in Status \ {"FREE"}
      BY <2>4, <2>9 DEF SysExofork, IInv, TypeOK, EnvTypeOK, IdOf, EnvId, Status
    <3>2. PICK e \in Slots :
            status[e] = "FREE" /\ status' = [status EXCEPT ![e] = "NOT_RUNNABLE"]
      BY <2>9, <3>1, EnvAllocLemma DEF SysExofork
    <3>3. QED  BY <3>2 DEF IInv, TypeOK, EnvTypeOK
  <2>10. CASE SysIpcRecv(c)
    BY <2>4, <2>10 DEF SysIpcRecv, IInv, TypeOK, EnvTypeOK
  <2>11. ASSUME NEW id \in EnvId, SysIpcTrySend(c, id)  PROVE Dies
    <3>1. PICK e \in Envid2Env(curenv[c], id, FALSE) :
            recving[e] /\ status' = [status EXCEPT ![e] = "RUNNABLE"]
      BY <2>11 DEF SysIpcTrySend
    <3>2. e \in Slots /\ status[e] = "NOT_RUNNABLE"
      BY <2>4, <2>11, <3>1 DEF SysIpcTrySend, Envid2Env, IInv, ReceiverBlocked
    <3>3. QED  BY <3>1, <3>2 DEF IInv, TypeOK, EnvTypeOK
  <2>12. ASSUME NEW id \in EnvId, NEW st \in {"RUNNABLE", "NOT_RUNNABLE"},
                LibSetStatus(c, id, st)
         PROVE  Dies
    <3>1. PICK e \in Envid2Env(curenv[c], id, TRUE) : status' = [status EXCEPT ![e] = st]
      BY <2>12 DEF LibSetStatus, SysEnvSetStatus
    <3>2. e \in Slots /\ status[e] # "DYING"
      BY <2>4, <2>12, <3>1 DEF LibSetStatus, SysEnvSetStatus, Envid2Env
    <3>3. QED  BY <3>1, <3>2 DEF IInv, TypeOK, EnvTypeOK
  <2>13. ASSUME NEW id \in EnvId, LibEnvDestroy(c, id)  PROVE Dies
    <3>1. PICK e \in Envid2Env(curenv[c], id, TRUE) : EnvDestroy(c, e)
      BY <2>13 DEF LibEnvDestroy, SysEnvDestroy
    <3>2. e \in Slots
      BY <2>4, <2>13, <3>1 DEF LibEnvDestroy, SysEnvDestroy, Envid2Env
    <3>3. QED  BY <3>1, <3>2, <2>5
  <2>14. CASE Syscall(c)
    BY <2>14, <2>9, <2>10, <2>11 DEF Syscall
  <2>15. CASE LibCall(c)
    BY <2>15, <2>12, <2>13 DEF LibCall
  <2>16. QED
    BY <2>1, <2>6, <2>7, <2>8, <2>14, <2>15
    DEF Step, Acquire, Iret, Trap, TrapUser, TrapHalted, envVars
<1>2. IInv /\ [Next]_vars => [Dies]_vars
  BY <1>1
<1> QED
  BY <1>2, Invariant, PTL DEF Spec, ZombieOnlyDies
=============================================================================
