----------------------------- MODULE PipeProofs -----------------------------
(***************************************************************************)
(* Proofs about Pipe for any number of environments, descriptors and bytes.*)
(***************************************************************************)
EXTENDS Pipe, FiniteSetTheorems, SequenceTheorems, TLAPS

USE EnvsAssumption, MAXFDAssumption, NCPUAssumption, PIPEBUFSIZAssumption, MaxBytesAssumption

Reading == {"rtest", "rtake", "rinc", "rcheck", "rfdref", "rpipe", "ragain"}
Writing == {"wtest", "wstore", "winc", "wcheck", "wfdref", "wpipe", "wagain"}

ShapeInv ==
    /\ fd \in [Envs -> [Slots -> Ends \cup {"none"}]]
    /\ data \in [Envs -> SUBSET Slots]
    /\ pc \in [Envs -> Location]
    /\ frame \in [Envs -> Frame]
    /\ on \subseteq Envs

\* What a call knows of the descriptors it works on.
CallOK(e) ==
    /\ pc[e] \in Reading => e = Reader /\ fd[e][Num(e)] = "r"
    /\ pc[e] \in Writing => e = Writer /\ fd[e][Num(e)] = "w"
    /\ pc[e] \in {"close_data", "dup_close"} => fd[e][Num(e)] = "none"
    /\ pc[e] = "dup_fd" /\ fd[e][Old(e)] # "none" => Num(e) \in data[e]
CallInv == \A e \in Envs : CallOK(e)

Struct == ShapeInv /\ CallInv /\ FdBacked

(* An action of environment e on the mappings of e alone keeps Struct when   *)
(* it keeps it for e.                                                        *)
OnlyOf(e) ==
    /\ \A d \in Envs \ {e} :
        fd'[d] = fd[d] /\ data'[d] = data[d] /\ pc'[d] = pc[d] /\ frame'[d] = frame[d]
    /\ CallOK(e)'
    /\ \A k \in Slots : fd'[e][k] # "none" => k \in data'[e]

LEMMA NoFrameType == NoFrame \in Frame
  <1>1. 0 \in Slots
    BY SMT DEF Slots
  <1>. QED BY <1>1, SMT DEF NoFrame, Frame

LEMMA StructOf ==
  ASSUME NEW e \in Envs, Struct, ShapeInv', OnlyOf(e)
  PROVE  Struct'
  <1>1. ASSUME NEW d \in Envs PROVE CallOK(d)'
    <2>1. CASE d = e
      BY <2>1 DEF OnlyOf
    <2>2. CASE d # e
      <3>1. fd'[d] = fd[d] /\ data'[d] = data[d] /\ pc'[d] = pc[d] /\ frame'[d] = frame[d]
        BY <2>2 DEF OnlyOf
      <3>2. CallOK(d)
        BY DEF Struct, CallInv
      <3>. QED BY <3>1, <3>2 DEF CallOK, Num, Old
    <2>. QED BY <2>1, <2>2
  <1>2. ASSUME NEW d \in Envs, NEW k \in Slots, fd'[d][k] # "none" PROVE k \in data'[d]
    BY <1>2 DEF OnlyOf, Struct, FdBacked
  <1>. QED BY <1>1, <1>2 DEF Struct, CallInv, FdBacked

\* The shape of the initial states, and that nobody is in a call there.
LEMMA StructInit == Init => Struct
  <1>. SUFFICES ASSUME Init PROVE Struct
    OBVIOUS
  <1>0. 0 \in Slots /\ 1 \in Slots
    BY SMT DEF Slots
  <1>1. PICK holders \in SUBSET Envs :
            /\ fd = [e \in Envs |-> IF e \in holders THEN Holding ELSE Nothing]
            /\ data = [e \in Envs |-> IF e \in holders THEN {0, 1} ELSE {}]
            /\ pc = [e \in Envs |-> IF e \in holders THEN "idle" ELSE "gone"]
    BY DEF Init
  <1>2. Holding \in [Slots -> Ends \cup {"none"}] /\ Nothing \in [Slots -> Ends \cup {"none"}]
    BY DEF Holding, Nothing, Ends
  <1>3. ShapeInv
    BY <1>0, <1>1, <1>2, NoFrameType DEF ShapeInv, Init, Location
  <1>4. CallInv
    BY <1>1, Zenon DEF CallInv, CallOK, Reading, Writing
  <1>5. FdBacked
    BY <1>1, SMT DEF FdBacked, Holding, Nothing
  <1>. QED BY <1>3, <1>4, <1>5 DEF Struct

(* What the operators that move an environment do to pc and frame.          *)
LEMMA GotoShape ==
  ASSUME NEW e \in Envs, ShapeInv, NEW l \in Location, Goto(e, l)
  PROVE  /\ pc' \in [Envs -> Location] /\ frame' \in [Envs -> Frame]
         /\ \A d \in Envs \ {e} : pc'[d] = pc[d] /\ frame'[d] = frame[d]
         /\ pc'[e] = l /\ frame'[e] = frame[e]
  BY DEF Goto, ShapeInv

LEMMA IdleShape ==
  ASSUME NEW e \in Envs, ShapeInv, Idle(e)
  PROVE  /\ pc' \in [Envs -> Location] /\ frame' \in [Envs -> Frame]
         /\ \A d \in Envs \ {e} : pc'[d] = pc[d] /\ frame'[d] = frame[d]
         /\ pc'[e] = "idle" /\ frame'[e] = NoFrame
  <1>1. "idle" \in Location
    BY DEF Location
  <1>. QED BY <1>1, NoFrameType DEF Idle, ShapeInv

LEMMA EnterShape ==
  ASSUME NEW e \in Envs, ShapeInv, NEW l \in Location, NEW k \in Slots, Enter(e, l, k)
  PROVE  /\ pc' \in [Envs -> Location] /\ frame' \in [Envs -> Frame]
         /\ \A d \in Envs \ {e} : pc'[d] = pc[d] /\ frame'[d] = frame[d]
         /\ pc'[e] = l /\ frame'[e].num = k /\ ~ frame'[e].fresh /\ ~ frame'[e].ret
  <1>1. [NoFrame EXCEPT !.num = k] \in Frame
    BY NoFrameType DEF Frame
  <1>2. frame'[e] = [NoFrame EXCEPT !.num = k]
    BY DEF Enter, ShapeInv
  <1>3. frame'[e].num = k /\ ~ frame'[e].fresh /\ ~ frame'[e].ret
    BY <1>2 DEF NoFrame
  <1>. QED BY <1>1, <1>3 DEF Enter, ShapeInv

LEMMA NumOld ==
  ASSUME NEW e \in Envs, ShapeInv
  PROVE  Num(e) \in Slots /\ Old(e) \in Slots
  BY DEF ShapeInv, Num, Old, Frame

-----------------------------------------------------------------------------
(* Each operation keeps Struct.                                             *)

LEMMA StructClose ==
  ASSUME NEW e \in Envs, NEW k \in Slots, Struct, Close(e, k)
  PROVE  Struct'
  <1>1. ShapeInv /\ "close_data" \in Location /\ Enter(e, "close_data", k)
    BY DEF Struct, Close, Location
  <1>2. /\ fd' \in [Envs -> [Slots -> Ends \cup {"none"}]]
        /\ fd'[e] = [fd[e] EXCEPT ![k] = "none"]
        /\ \A d \in Envs \ {e} : fd'[d] = fd[d]
        /\ data' = data /\ on' = on
    BY <1>1 DEF Close, ShapeInv
  <1>3. ShapeInv'
    BY <1>1, <1>2, EnterShape DEF ShapeInv
  <1>4. pc'[e] = "close_data" /\ frame'[e].num = k
    BY <1>1, EnterShape
  <1>5. CallOK(e)'
    BY <1>1, <1>2, <1>4 DEF CallOK, Num, Old, Reading, Writing, ShapeInv
  <1>6. \A j \in Slots : fd'[e][j] # "none" => j \in data'[e]
    BY <1>1, <1>2 DEF Struct, FdBacked, ShapeInv
  <1>7. OnlyOf(e)
    BY <1>1, <1>2, <1>5, <1>6, EnterShape DEF OnlyOf
  <1>. QED BY <1>3, <1>7, StructOf

LEMMA StructCloseData ==
  ASSUME NEW e \in Envs, Struct, CloseData(e)
  PROVE  Struct'
  <1>1. ShapeInv /\ CallOK(e) /\ Num(e) \in Slots
    BY NumOld DEF Struct, CallInv
  <1>2. /\ data' \in [Envs -> SUBSET Slots]
        /\ data'[e] = data[e] \ {Num(e)}
        /\ \A d \in Envs \ {e} : data'[d] = data[d]
        /\ fd' = fd /\ on' = on
        /\ fd[e][Num(e)] = "none"
    BY <1>1 DEF CloseData, ShapeInv, CallOK
  <1>3. \A j \in Slots : fd'[e][j] # "none" => j \in data'[e]
    BY <1>1, <1>2 DEF Struct, FdBacked
  <1>4. CASE pc[e] = "close_data"
    <2>1. Idle(e)
      BY <1>4 DEF CloseData
    <2>2. ShapeInv' /\ CallOK(e)'
      BY <1>1, <1>2, <2>1, IdleShape DEF ShapeInv, CallOK, Reading, Writing
    <2>. QED BY <1>1, <1>2, <1>3, <2>1, <2>2, IdleShape, StructOf DEF OnlyOf
  <1>5. CASE pc[e] = "dup_close"
    <2>1. Goto(e, "dup_data") /\ "dup_data" \in Location
      BY <1>5 DEF CloseData, Location
    <2>2. ShapeInv' /\ CallOK(e)'
      BY <1>1, <1>2, <2>1, GotoShape DEF ShapeInv, CallOK, Reading, Writing
    <2>. QED BY <1>1, <1>2, <1>3, <2>1, <2>2, GotoShape, StructOf DEF OnlyOf
  <1>. QED BY <1>4, <1>5 DEF CloseData

LEMMA StructDup ==
  ASSUME NEW e \in Envs, NEW k \in Slots, NEW n \in Slots, Struct, Dup(e, k, n)
  PROVE  Struct'
  <1>1. ShapeInv
    BY DEF Struct
  <1>2. /\ fd' \in [Envs -> [Slots -> Ends \cup {"none"}]]
        /\ fd'[e] = [fd[e] EXCEPT ![n] = "none"]
        /\ \A d \in Envs \ {e} : fd'[d] = fd[d]
        /\ data' = data /\ on' = on
    BY <1>1 DEF Dup, ShapeInv
  <1>3. [NoFrame EXCEPT !.old = k, !.num = n] \in Frame
    BY NoFrameType DEF Frame
  <1>4. /\ frame' \in [Envs -> Frame]
        /\ frame'[e] = [NoFrame EXCEPT !.old = k, !.num = n]
        /\ \A d \in Envs \ {e} : frame'[d] = frame[d]
    BY <1>1, <1>3 DEF Dup, ShapeInv
  <1>5. frame'[e].num = n
    BY <1>4 DEF NoFrame
  <1>6. /\ pc' \in [Envs -> Location]
        /\ pc'[e] \in {"dup_close", "dup_data"}
        /\ \A d \in Envs \ {e} : pc'[d] = pc[d]
    <2>1. "dup_close" \in Location /\ "dup_data" \in Location
      BY DEF Location
    <2>. QED BY <1>1, <2>1 DEF Dup, ShapeInv
  <1>7. CallOK(e)'
    BY <1>1, <1>2, <1>5, <1>6 DEF CallOK, Num, Old, Reading, Writing, ShapeInv
  <1>8. \A j \in Slots : fd'[e][j] # "none" => j \in data'[e]
    BY <1>1, <1>2 DEF Struct, FdBacked, ShapeInv
  <1>9. ShapeInv'
    BY <1>1, <1>2, <1>4, <1>6 DEF ShapeInv
  <1>. QED BY <1>2, <1>4, <1>6, <1>7, <1>8, <1>9, StructOf DEF OnlyOf

LEMMA StructDupData ==
  ASSUME NEW e \in Envs, Struct, DupData(e)
  PROVE  Struct'
  <1>1. ShapeInv /\ Num(e) \in Slots /\ Old(e) \in Slots
    BY NumOld DEF Struct
  <1>2. Goto(e, "dup_fd") /\ "dup_fd" \in Location /\ fd' = fd /\ on' = on
    BY DEF DupData, Location
  <1>3. /\ data' \in [Envs -> SUBSET Slots]
        /\ data[e] \subseteq data'[e]
        /\ Old(e) \in data[e] => Num(e) \in data'[e]
        /\ \A d \in Envs \ {e} : data'[d] = data[d]
    BY <1>1 DEF DupData, ShapeInv
  <1>4. \A j \in Slots : fd[e][j] # "none" => j \in data[e]
    BY DEF Struct, FdBacked
  <1>5. pc'[e] = "dup_fd" /\ frame'[e] = frame[e]
    BY <1>1, <1>2, GotoShape
  <1>6. CallOK(e)'
    BY <1>1, <1>2, <1>3, <1>4, <1>5 DEF CallOK, Num, Old, Reading, Writing
  <1>7. ShapeInv'
    BY <1>1, <1>2, <1>3, GotoShape DEF ShapeInv
  <1>. QED BY <1>1, <1>2, <1>3, <1>4, <1>6, <1>7, GotoShape, StructOf DEF OnlyOf

LEMMA StructDupFd ==
  ASSUME NEW e \in Envs, Struct, DupFd(e)
  PROVE  Struct'
  <1>1. ShapeInv /\ Num(e) \in Slots /\ Old(e) \in Slots /\ CallOK(e)
    BY NumOld DEF Struct, CallInv
  <1>2. Idle(e) /\ on' = on
    BY DEF DupFd
  <1>3. \A j \in Slots : fd[e][j] # "none" => j \in data[e]
    BY DEF Struct, FdBacked
  <1>4. /\ fd' \in [Envs -> [Slots -> Ends \cup {"none"}]]
        /\ data' \in [Envs -> SUBSET Slots]
        /\ \A d \in Envs \ {e} : fd'[d] = fd[d] /\ data'[d] = data[d]
    <2>1. fd[e][Old(e)] \in Ends \cup {"none"}
      BY <1>1 DEF ShapeInv
    <2>2. fd' = [fd EXCEPT ![e] = [fd[e] EXCEPT ![Num(e)] = fd[e][Old(e)]]]
      BY <1>1, <2>1 DEF DupFd, ShapeInv
    <2>3. [fd[e] EXCEPT ![Num(e)] = fd[e][Old(e)]] \in [Slots -> Ends \cup {"none"}]
      BY <1>1, <2>1 DEF ShapeInv
    <2>4. fd' \in [Envs -> [Slots -> Ends \cup {"none"}]] /\ \A d \in Envs \ {e} : fd'[d] = fd[d]
      BY <1>1, <2>2, <2>3 DEF ShapeInv
    <2>5. data' \in [Envs -> SUBSET Slots] /\ \A d \in Envs \ {e} : data'[d] = data[d]
      BY <1>1 DEF DupFd, ShapeInv
    <2>. QED BY <2>4, <2>5
  <1>5. \A j \in Slots : fd'[e][j] # "none" => j \in data'[e]
    <2>1. CASE fd[e][Old(e)] # "none"
      <3>1. Num(e) \in data[e]
        BY <1>1, <2>1 DEF CallOK, DupFd
      <3>. QED BY <1>1, <1>3, <2>1, <3>1 DEF DupFd, ShapeInv
    <2>2. CASE fd[e][Old(e)] = "none"
      BY <1>1, <1>3, <2>2 DEF DupFd, ShapeInv
    <2>. QED BY <2>1, <2>2
  <1>6. CallOK(e)'
    BY <1>1, <1>2, IdleShape DEF CallOK, Reading, Writing
  <1>7. ShapeInv'
    BY <1>1, <1>2, <1>4, IdleShape DEF ShapeInv
  <1>. QED BY <1>1, <1>2, <1>4, <1>5, <1>6, <1>7, IdleShape, StructOf DEF OnlyOf

LEMMA StructDestroy ==
  ASSUME NEW e \in Envs, Struct, Destroy(e)
  PROVE  Struct'
  <1>1. ShapeInv
    BY DEF Struct
  <1>2. Nothing \in [Slots -> Ends \cup {"none"}] /\ "gone" \in Location
    BY DEF Nothing, Location
  <1>3. /\ fd' = [fd EXCEPT ![e] = Nothing] /\ data' = [data EXCEPT ![e] = {}]
        /\ on' = on \ {e} /\ pc' = [pc EXCEPT ![e] = "gone"]
        /\ frame' = [frame EXCEPT ![e] = NoFrame]
    BY DEF Destroy
  <1>4. ShapeInv'
    BY <1>1, <1>2, <1>3, NoFrameType DEF ShapeInv
  <1>5. CallOK(e)' /\ \A j \in Slots : fd'[e][j] # "none" => j \in data'[e]
    BY <1>1, <1>3 DEF CallOK, Reading, Writing, Nothing, ShapeInv
  <1>. QED BY <1>1, <1>3, <1>4, <1>5, StructOf DEF OnlyOf, ShapeInv

-----------------------------------------------------------------------------
(* The reference counts.                                                    *)

LEMMA RefsFinite ==
  ASSUME ShapeInv
  PROVE  /\ IsFiniteSet(DataRefs) /\ Cardinality(DataRefs) \in Nat
         /\ \A end : IsFiniteSet(FdRefs(end)) /\ Cardinality(FdRefs(end)) \in Nat
  <1>1. IsFiniteSet(Slots)
    <2>1. 0 \in Int /\ MAXFD - 1 \in Int
      BY SMT
    <2>. QED BY <2>1, FS_Interval DEF Slots
  <1>2. IsFiniteSet(Envs \X Slots)
    BY <1>1, FS_Product
  <1>3. DataRefs \in SUBSET (Envs \X Slots)
    BY DEF DataRefs
  <1>4. ASSUME NEW end PROVE FdRefs(end) \in SUBSET (Envs \X Slots)
    BY DEF FdRefs
  <1>. QED BY <1>2, <1>3, <1>4, FS_Subset, FS_CardinalityType

(* The comparison of pipe.c: were the counts of an end and of the pipe page *)
(* read at one moment, equality would mean that nobody holds the other end. *)
LEMMA EqualCounts ==
  ASSUME Struct, NEW end \in Ends,
         Cardinality(FdRefs(end)) = Cardinality(DataRefs)
  PROVE  FdRefs(OtherEnd(end)) = {}
  <1>1. ShapeInv
    BY DEF Struct
  <1>2. FdRefs(end) \in SUBSET DataRefs
    BY DEF Struct, FdBacked, FdRefs, DataRefs, Ends
  <1>3. FdRefs(end) = DataRefs
    BY <1>1, <1>2, RefsFinite, FS_Subset
  <1>4. FdRefs(OtherEnd(end)) \subseteq DataRefs
    BY DEF Struct, FdBacked, FdRefs, DataRefs, OtherEnd
  <1>5. OtherEnd(end) # end
    BY DEF OtherEnd, Ends
  <1>. QED BY <1>3, <1>4, <1>5 DEF FdRefs

-----------------------------------------------------------------------------
(* Steps that leave the mappings alone.                                     *)
Quiet(e) ==
    /\ UNCHANGED fdVars
    /\ on' \subseteq Envs
    /\ pc' \in [Envs -> Location] /\ frame' \in [Envs -> Frame]
    /\ \A d \in Envs \ {e} : pc'[d] = pc[d] /\ frame'[d] = frame[d]
    /\ pc'[e] \in {"idle", "eof", "epipe"} \cup Reading \cup Writing
    /\ pc'[e] \in Reading => fd[e][frame'[e].num] = "r"
    /\ pc'[e] \in Writing => fd[e][frame'[e].num] = "w"
    /\ pc'[e] \in Reading => e = Reader
    /\ pc'[e] \in Writing => e = Writer

LEMMA StructQuiet ==
  ASSUME NEW e \in Envs, Struct, Quiet(e)
  PROVE  Struct'
  <1>1. ShapeInv' /\ fd' = fd /\ data' = data
    BY DEF Struct, ShapeInv, Quiet, fdVars
  <1>2. CallOK(e)'
    BY <1>1, Zenon DEF Quiet, CallOK, Num, Old, Reading, Writing
  <1>3. \A j \in Slots : fd[e][j] # "none" => j \in data[e]
    BY DEF Struct, FdBacked
  <1>. QED BY <1>1, <1>2, <1>3, StructOf DEF OnlyOf, Quiet

LEMMA QuietCheckRuns ==
  ASSUME NEW e \in Envs, Struct, CheckRuns(e)
  PROVE  Quiet(e)
  <1>1. ShapeInv /\ CallOK(e)
    BY DEF Struct, CallInv
  <1>2. pc' \in [Envs -> Location] /\ frame' \in [Envs -> Frame]
    BY <1>1, ZenonT(60) DEF ShapeInv, CheckRuns, Location, Frame
  <1>3. \A d \in Envs \ {e} : pc'[d] = pc[d] /\ frame'[d] = frame[d]
    BY <1>1 DEF ShapeInv, CheckRuns
  <1>4. frame'[e].num = Num(e)
    BY <1>1 DEF ShapeInv, CheckRuns, Frame, Num
  <1>. QED BY <1>1, <1>2, <1>3, <1>4
           DEF Quiet, CheckRuns, CallOK, ShapeInv, Reading, Writing, byteVars

LEMMA QuietCheckFdRef ==
  ASSUME NEW e \in Envs, Struct, CheckFdRef(e)
  PROVE  Quiet(e)
  <1>1. ShapeInv /\ CallOK(e)
    BY DEF Struct, CallInv
  <1>2. Cardinality(FdRefs(fd[e][Num(e)])) \in Nat
    BY <1>1, RefsFinite
  <1>3. pc' \in [Envs -> Location] /\ frame' \in [Envs -> Frame]
    BY <1>1, <1>2, ZenonT(60) DEF ShapeInv, CheckFdRef, Location, Frame
  <1>4. \A d \in Envs \ {e} : pc'[d] = pc[d] /\ frame'[d] = frame[d]
    BY <1>1 DEF ShapeInv, CheckFdRef
  <1>5. frame'[e].num = Num(e)
    BY <1>1 DEF ShapeInv, CheckFdRef, Frame, Num
  <1>. QED BY <1>1, <1>3, <1>4, <1>5
           DEF Quiet, CheckFdRef, CallOK, ShapeInv, Reading, Writing, byteVars

LEMMA QuietCheckPipeRef ==
  ASSUME NEW e \in Envs, Struct, CheckPipeRef(e)
  PROVE  Quiet(e)
  <1>1. ShapeInv /\ CallOK(e)
    BY DEF Struct, CallInv
  <1>2. pc' \in [Envs -> Location] /\ frame' \in [Envs -> Frame]
    <2> DEFINE same == frame[e].seen = Cardinality(DataRefs)
    <2>1. same \in BOOLEAN
      OBVIOUS
    <2>2. frame' = [frame EXCEPT ![e].ret = same, ![e].seen = 0]
      BY DEF CheckPipeRef
    <2>3. pc' \in [Envs -> Location]
      BY <1>1 DEF ShapeInv, CheckPipeRef, Location
    <2> HIDE DEF same
    <2>4. frame' \in [Envs -> Frame]
      BY <1>1, <2>1, <2>2, ZenonT(60) DEF ShapeInv, Frame
    <2>. QED BY <2>3, <2>4
  <1>3. \A d \in Envs \ {e} : pc'[d] = pc[d] /\ frame'[d] = frame[d]
    BY <1>1 DEF ShapeInv, CheckPipeRef
  <1>4. frame'[e].num = Num(e)
    BY <1>1 DEF ShapeInv, CheckPipeRef, Frame, Num
  <1>. QED BY <1>1, <1>2, <1>3, <1>4
           DEF Quiet, CheckPipeRef, CallOK, ShapeInv, Reading, Writing, byteVars

LEMMA YieldShape ==
  ASSUME NEW e \in Envs, ShapeInv, NEW l \in Location, YieldTo(e, l)
  PROVE  /\ pc' \in [Envs -> Location] /\ frame' \in [Envs -> Frame]
         /\ \A d \in Envs \ {e} : pc'[d] = pc[d] /\ frame'[d] = frame[d]
         /\ pc'[e] = l /\ frame'[e].num = Num(e) /\ ~ frame'[e].fresh
         /\ on' = on \ {e}
  <1>1. Num(e) \in Slots
    BY NumOld
  <1>2. [NoFrame EXCEPT !.num = Num(e)] \in Frame
    BY <1>1, NoFrameType DEF Frame
  <1>3. frame'[e] = [NoFrame EXCEPT !.num = Num(e)]
    BY DEF YieldTo, ShapeInv
  <1>4. frame'[e].num = Num(e) /\ ~ frame'[e].fresh
    BY <1>3 DEF NoFrame
  <1>. QED BY <1>2, <1>4 DEF YieldTo, ShapeInv

\* The three outcomes of a check: start over, yield, or give up.
LEMMA QuietCheckAgain ==
  ASSUME NEW e \in Envs, Struct, CheckAgain(e)
  PROVE  Quiet(e)
  <1>1. ShapeInv /\ CallOK(e) /\ Num(e) \in Slots
    BY NumOld DEF Struct, CallInv
  <1>2. /\ "rcheck" \in Location /\ "wcheck" \in Location /\ "rtest" \in Location
        /\ "wtest" \in Location /\ "eof" \in Location /\ "epipe" \in Location
    BY DEF Location
  <1>3. UNCHANGED fdVars
    BY DEF CheckAgain
  <1>4. CASE pc[e] = "ragain"
    <2>0. e = Reader /\ fd[e][Num(e)] = "r"
      BY <1>1, <1>4 DEF CallOK, Reading
    <2>1. CASE Enter(e, "rcheck", Num(e)) /\ UNCHANGED on
      BY <1>1, <1>2, <1>3, <2>0, <2>1, EnterShape DEF Quiet, ShapeInv, Reading, Writing
    <2>2. CASE YieldTo(e, "rtest")
      BY <1>1, <1>2, <1>3, <2>0, <2>2, YieldShape DEF Quiet, ShapeInv, Reading, Writing
    <2>3. CASE Enter(e, "eof", Num(e)) /\ UNCHANGED on
      BY <1>1, <1>2, <1>3, <2>3, EnterShape DEF Quiet, ShapeInv, Reading, Writing
    <2>. QED BY <1>4, <2>1, <2>2, <2>3, Zenon DEF CheckAgain
  <1>5. CASE pc[e] = "wagain"
    <2>0. e = Writer /\ fd[e][Num(e)] = "w"
      BY <1>1, <1>5 DEF CallOK, Writing
    <2>1. CASE Enter(e, "wcheck", Num(e)) /\ UNCHANGED on
      BY <1>1, <1>2, <1>3, <2>0, <2>1, EnterShape DEF Quiet, ShapeInv, Reading, Writing
    <2>2. CASE YieldTo(e, "wtest")
      BY <1>1, <1>2, <1>3, <2>0, <2>2, YieldShape DEF Quiet, ShapeInv, Reading, Writing
    <2>3. CASE Enter(e, "epipe", Num(e)) /\ UNCHANGED on
      BY <1>1, <1>2, <1>3, <2>3, EnterShape DEF Quiet, ShapeInv, Reading, Writing
    <2>4. pc[e] # "ragain"
      BY <1>5
    <2>. QED BY <1>5, <2>1, <2>2, <2>3, <2>4, Zenon DEF CheckAgain
  <1>. QED BY <1>4, <1>5 DEF CheckAgain

LEMMA QuietReturn ==
  ASSUME NEW e \in Envs, Struct, Return(e)
  PROVE  Quiet(e)
  <1>1. ShapeInv /\ Idle(e) /\ UNCHANGED fdVars /\ on' = on
    BY DEF Struct, Return
  <1>. QED BY <1>1, IdleShape DEF Quiet, ShapeInv, Reading, Writing

LEMMA QuietEnter ==
  ASSUME NEW e \in Envs, NEW k \in Slots, Struct, Read(e, k) \/ Write(e, k)
  PROVE  Quiet(e)
  <1>1. ShapeInv /\ "rtest" \in Location /\ "wtest" \in Location
    BY DEF Struct, Location
  <1>2. CASE Read(e, k)
    <2>1. Enter(e, "rtest", k) /\ e = Reader /\ fd[e][k] = "r" /\ UNCHANGED <<fdVars, on>>
      BY <1>2 DEF Read
    <2>. QED BY <1>1, <2>1, EnterShape DEF Quiet, ShapeInv, Reading, Writing
  <1>3. CASE Write(e, k)
    <2>1. Enter(e, "wtest", k) /\ e = Writer /\ fd[e][k] = "w" /\ UNCHANGED <<fdVars, on>>
      BY <1>3 DEF Write
    <2>. QED BY <1>1, <2>1, EnterShape DEF Quiet, ShapeInv, Reading, Writing
  <1>. QED BY <1>2, <1>3

\* The loops of devpipe_read and devpipe_write.
LEMMA QuietRead ==
  ASSUME NEW e \in Envs, Struct, ReadTest(e) \/ ReadByte(e) \/ ReadInc(e)
  PROVE  Quiet(e)
  <1>1. /\ ShapeInv /\ "rtest" \in Location /\ "rtake" \in Location
        /\ "rinc" \in Location /\ "rcheck" \in Location
    BY DEF Struct, Location
  <1>2. /\ UNCHANGED <<fdVars, on>> /\ e = Reader /\ fd[e][Num(e)] = "r"
        /\ pc[e] \in {"rtest", "rtake", "rinc"}
    BY Zenon DEF ReadTest, ReadByte, ReadInc, Struct, CallInv, CallOK, Reading
  <1>3. CASE Idle(e)
    BY <1>1, <1>2, <1>3, IdleShape DEF Quiet, ShapeInv, Reading, Writing
  <1>4. CASE \E l \in {"rtake", "rinc", "rcheck"} : Goto(e, l)
    BY <1>1, <1>2, <1>4, GotoShape DEF Quiet, ShapeInv, Reading, Writing, Num
  <1>5. CASE pc' = [pc EXCEPT ![e] = "rtest"] /\ frame' = [frame EXCEPT ![e].some = TRUE]
    <2>1. pc' \in [Envs -> Location] /\ frame' \in [Envs -> Frame]
      BY <1>1, <1>5 DEF ShapeInv, Frame
    <2>2. \A d \in Envs \ {e} : pc'[d] = pc[d] /\ frame'[d] = frame[d]
      BY <1>1, <1>5 DEF ShapeInv
    <2>3. frame'[e].num = Num(e) /\ pc'[e] = "rtest"
      BY <1>1, <1>5 DEF ShapeInv, Frame, Num
    <2>. QED BY <1>1, <1>2, <2>1, <2>2, <2>3 DEF Quiet, ShapeInv, Reading, Writing
  <1>. QED BY <1>3, <1>4, <1>5 DEF ReadTest, ReadByte, ReadInc

LEMMA QuietWrite ==
  ASSUME NEW e \in Envs, Struct, WriteTest(e) \/ WriteByte(e) \/ WriteInc(e)
  PROVE  Quiet(e)
  <1>1. /\ ShapeInv /\ "wtest" \in Location /\ "wstore" \in Location
        /\ "winc" \in Location /\ "wcheck" \in Location
    BY DEF Struct, Location
  <1>2. /\ UNCHANGED <<fdVars, on>> /\ e = Writer /\ fd[e][Num(e)] = "w"
        /\ pc[e] \in {"wtest", "wstore", "winc"}
    BY Zenon DEF WriteTest, WriteByte, WriteInc, Struct, CallInv, CallOK, Writing
  <1>3. CASE Idle(e)
    BY <1>1, <1>2, <1>3, IdleShape DEF Quiet, ShapeInv, Reading, Writing
  <1>4. CASE \E l \in {"wtest", "wstore", "winc", "wcheck"} : Goto(e, l)
    BY <1>1, <1>2, <1>4, GotoShape DEF Quiet, ShapeInv, Reading, Writing, Num
  <1>. QED BY <1>3, <1>4 DEF WriteTest, WriteByte, WriteInc

LEMMA StructDispatch ==
  ASSUME NEW e \in Envs, Struct, Dispatch(e)
  PROVE  Struct'
  <1>1. ShapeInv
    BY DEF Struct
  <1>2. UNCHANGED <<fdVars, pc>> /\ on' \subseteq Envs
    BY <1>1 DEF Dispatch, ShapeInv
  <1>3. frame' \in [Envs -> Frame]
    BY <1>1, ZenonT(60) DEF Dispatch, ShapeInv, Frame
  <1>4. \A d \in Envs : frame'[d].num = frame[d].num /\ frame'[d].old = frame[d].old
    BY <1>1 DEF Dispatch, ShapeInv, Frame
  <1>5. ShapeInv' /\ FdBacked'
    BY <1>1, <1>2, <1>3 DEF ShapeInv, Struct, FdBacked, fdVars
  <1>6. CallInv'
    BY <1>2, <1>4 DEF Struct, CallInv, CallOK, Num, Old, fdVars
  <1>. QED BY <1>5, <1>6 DEF Struct

LEMMA StructStep == Struct /\ [Next]_vars => Struct'
  <1>. SUFFICES ASSUME Struct, [Next]_vars PROVE Struct'
    OBVIOUS
  <1>1. CASE UNCHANGED vars
    BY <1>1 DEF vars, fdVars, Struct, ShapeInv, CallInv, CallOK, FdBacked, Num, Old
  <1>2. ASSUME NEW e \in Envs, Dispatch(e) \/ Destroy(e) PROVE Struct'
    BY <1>2, StructDispatch, StructDestroy
  <1>3. ASSUME NEW e \in Envs, Library(e) PROVE Struct'
    BY <1>3, StructCloseData, StructDupData, StructDupFd, StructQuiet, QuietCheckRuns,
       QuietCheckFdRef, QuietCheckPipeRef, QuietCheckAgain, QuietRead, QuietWrite, QuietReturn
       DEF Library
  <1>4. ASSUME NEW e \in Envs, Call(e) PROVE Struct'
    BY <1>4, StructClose, StructDup, StructQuiet, QuietEnter DEF Call
  <1>. QED BY <1>1, <1>2, <1>3, <1>4 DEF Next, UserStep

(* Behind every descriptor there is a pipe page, on any number of CPUs.     *)
THEOREM FdBackedSafe == Spec => []FdBacked
  <1>1. Struct => FdBacked
    BY DEF Struct
  <1>. QED BY <1>1, StructInit, StructStep, PTL DEF Spec

-----------------------------------------------------------------------------
(* One CPU: what a check saw is still so while its slice lasts.             *)

OneCpu == \A d1, d2 \in on : d1 = d2

Compared(e) == pc[e] \in {"ragain", "wagain"}

SnapOK(e) ==
    e \in on /\ frame[e].fresh =>
        /\ pc[e] \in {"rpipe", "wpipe"} =>
            frame[e].seen = Cardinality(FdRefs(fd[e][Num(e)]))
        /\ Compared(e) /\ frame[e].ret =>
            Cardinality(FdRefs(fd[e][Num(e)])) = Cardinality(DataRefs)
SnapInv == \A e \in Envs : SnapOK(e)

EofInv == Struct /\ OneCpu /\ SnapInv /\ NoFalseEof

InSnap == {"rpipe", "wpipe", "ragain", "wagain"}
GivenUp == {"eof", "epipe"}

(* Only the two steps that read the counts lead to a state with a snapshot, *)
(* only the comparison of env_runs to a state that gives up.                *)
LEMMA WhereTo ==
  ASSUME NEW e \in Envs, Struct, Library(e) \/ Call(e)
  PROVE  /\ on' \subseteq on
         /\ \A d \in Envs \ {e} : pc'[d] = pc[d]
         /\ \/ CheckFdRef(e) \/ CheckPipeRef(e) \/ CheckAgain(e)
            \/ pc'[e] \notin InSnap \cup GivenUp
  <1>1. ShapeInv
    BY DEF Struct
  <1>2. /\ \A l \in {"close_data", "dup_data", "dup_fd", "rtake", "rinc", "rtest", "rcheck",
                    "wtest", "wstore", "winc", "wcheck"} : l \in Location
    BY DEF Location
  <1>3. CASE CloseData(e) \/ DupData(e) \/ DupFd(e) \/ Return(e)
    <2>1. on' = on /\ (Idle(e) \/ Goto(e, "dup_data") \/ Goto(e, "dup_fd"))
      BY <1>3 DEF CloseData, DupData, DupFd, Return
    <2>. QED BY <1>1, <1>2, <2>1, IdleShape, GotoShape DEF InSnap, GivenUp
  <1>4. CASE CheckRuns(e)
    BY <1>1, <1>4 DEF CheckRuns, ShapeInv, InSnap, GivenUp
  <1>5. CASE CheckFdRef(e)
    BY <1>1, <1>5 DEF CheckFdRef, ShapeInv
  <1>6. CASE CheckPipeRef(e)
    BY <1>1, <1>6 DEF CheckPipeRef, ShapeInv
  <1>7. CASE CheckAgain(e)
    BY <1>1, <1>7, Zenon DEF CheckAgain, YieldTo, Enter, ShapeInv
  <1>8. CASE ReadTest(e) \/ ReadByte(e) \/ ReadInc(e)
    <2>1. /\ on' = on
          /\ \/ Idle(e) \/ Goto(e, "rtake") \/ Goto(e, "rcheck") \/ Goto(e, "rinc")
             \/ pc' = [pc EXCEPT ![e] = "rtest"]
      BY <1>8 DEF ReadTest, ReadByte, ReadInc
    <2>. QED BY <1>1, <1>2, <2>1, IdleShape, GotoShape DEF InSnap, GivenUp, ShapeInv
  <1>9. CASE WriteTest(e) \/ WriteByte(e) \/ WriteInc(e)
    <2>1. /\ on' = on
          /\ \/ Idle(e) \/ Goto(e, "wcheck") \/ Goto(e, "wstore") \/ Goto(e, "winc")
             \/ Goto(e, "wtest")
      BY <1>9 DEF WriteTest, WriteByte, WriteInc
    <2>. QED BY <1>1, <1>2, <2>1, IdleShape, GotoShape DEF InSnap, GivenUp
  <1>10. ASSUME NEW k \in Slots, Close(e, k) \/ Read(e, k) \/ Write(e, k)
         PROVE  on' = on /\ \E l \in {"close_data", "rtest", "wtest"} : Enter(e, l, k)
    BY <1>10 DEF Close, Read, Write
  <1>11. ASSUME NEW k \in Slots, NEW n \in Slots, Dup(e, k, n)
         PROVE  /\ on' = on /\ pc'[e] \in {"dup_close", "dup_data"}
                /\ \A d \in Envs \ {e} : pc'[d] = pc[d]
    BY <1>1, <1>11 DEF Dup, ShapeInv
  <1>12. CASE Call(e)
    BY <1>1, <1>2, <1>10, <1>11, <1>12, EnterShape DEF Call, InSnap, GivenUp
  <1>. QED BY <1>3, <1>4, <1>5, <1>6, <1>7, <1>8, <1>9, <1>12 DEF Library

(* An end that nobody holds stays so: a descriptor page that appears was    *)
(* mapped by the same environment before.                                   *)
LEMMA NoRevival ==
  ASSUME Struct, [Next]_vars, NEW end \in Ends, FdRefs(end) = {}
  PROVE  FdRefs(end)' = {}
  <1>0. ShapeInv
    BY DEF Struct
  <1>1. ShapeInv /\ \A d \in Envs, k \in Slots : fd[d][k] # end
    <2>1. ASSUME NEW d \in Envs, NEW k \in Slots, fd[d][k] = end PROVE <<d, k>> \in FdRefs(end)
      BY <2>1 DEF FdRefs
    <2>. QED BY <1>0, <2>1
  <1>2. end # "none"
    BY DEF Ends
  <1>3. \A d \in Envs, k \in Slots : fd'[d][k] # end
    <2>1. CASE fd' = fd
      BY <1>1, <2>1
    <2>2. ASSUME NEW e \in Envs, NEW k \in Slots, Close(e, k)
          PROVE  \A d \in Envs, j \in Slots : fd'[d][j] # end
      BY <1>1, <1>2, <2>2 DEF Close, ShapeInv
    <2>3. ASSUME NEW e \in Envs, NEW k \in Slots, NEW n \in Slots, Dup(e, k, n)
          PROVE  \A d \in Envs, j \in Slots : fd'[d][j] # end
      BY <1>1, <1>2, <2>3 DEF Dup, ShapeInv
    <2>4. ASSUME NEW e \in Envs, DupFd(e)
          PROVE  \A d \in Envs, j \in Slots : fd'[d][j] # end
      <3>1. Num(e) \in Slots /\ Old(e) \in Slots
        BY <1>1, NumOld
      <3>. QED BY <1>1, <1>2, <2>4, <3>1 DEF DupFd, ShapeInv
    <2>5. ASSUME NEW e \in Envs, Destroy(e)
          PROVE  \A d \in Envs, j \in Slots : fd'[d][j] # end
      BY <1>1, <1>2, <2>5 DEF Destroy, Nothing, ShapeInv
    <2>6. ASSUME NEW e \in Envs, Dispatch(e) PROVE fd' = fd
      BY <2>6 DEF Dispatch, fdVars
    <2>7. ASSUME NEW e \in Envs, Library(e) PROVE fd' = fd \/ DupFd(e)
      BY <2>7 DEF Library, CloseData, DupData, CheckRuns, CheckFdRef, CheckPipeRef, CheckAgain,
         Return, ReadTest, ReadByte, ReadInc, WriteTest, WriteByte, WriteInc, fdVars
    <2>8. ASSUME NEW e \in Envs, Call(e)
          PROVE  \/ fd' = fd
                 \/ \E k \in Slots : Close(e, k) \/ \E n \in Slots : Dup(e, k, n)
      BY <2>8 DEF Call, Read, Write, fdVars
    <2>9. CASE UNCHANGED vars
      BY <2>1, <2>9 DEF vars, fdVars
    <2>. QED BY <2>1, <2>2, <2>3, <2>4, <2>5, <2>6, <2>7, <2>8, <2>9 DEF Next, UserStep
  <1>. QED BY <1>3 DEF FdRefs

\* At most one environment is on the one CPU.
LEMMA OneCpuStep ==
  ASSUME NCPU = 1, Struct, OneCpu, [Next]_vars
  PROVE  /\ OneCpu'
         /\ \A d \in Envs : Dispatch(d) => on' = {d}
  <1>1. ASSUME NEW d \in Envs, Dispatch(d) PROVE on' = {d}
    <2>1. PICK left \in {on} \cup {on \ {x} : x \in on} :
              Cardinality(left) < NCPU /\ on' = left \cup {d}
      BY <1>1 DEF Dispatch
    <2>2. left \in SUBSET Envs
      BY DEF Struct, ShapeInv
    <2>3. IsFiniteSet(left) /\ Cardinality(left) \in Nat
      BY <2>2, FS_Subset, FS_CardinalityType
    <2>4. Cardinality(left) = 0
      BY <2>1, <2>3
    <2>5. left = {}
      BY <2>3, <2>4, FS_EmptySet
    <2>. QED BY <2>1, <2>5
  <1>2. ASSUME NEW d \in Envs, Dispatch(d) PROVE OneCpu'
    BY <1>1, <1>2 DEF OneCpu
  <1>3. ASSUME NEW d \in Envs, Destroy(d) PROVE on' \subseteq on
    BY <1>3 DEF Destroy
  <1>4. ASSUME NEW d \in Envs, UserStep(d) PROVE on' \subseteq on
    BY <1>4, WhereTo DEF UserStep
  <1>5. CASE UNCHANGED vars
    <2>1. on' = on
      BY <1>5 DEF vars
    <2>. QED BY <1>1, <2>1 DEF OneCpu
  <1>6. on' \subseteq on => OneCpu'
    BY DEF OneCpu
  <1>. QED BY <1>1, <1>2, <1>3, <1>4, <1>5, <1>6 DEF Next

(* The two steps that read the counts, and nothing else, fill the snapshot. *)
LEMMA SnapStep ==
  ASSUME NCPU = 1, Struct, OneCpu, SnapInv, [Next]_vars
  PROVE  SnapInv'
  <1>. SUFFICES ASSUME NEW e \in Envs PROVE SnapOK(e)'
    BY DEF SnapInv
  <1>0. ShapeInv /\ SnapOK(e)
    BY DEF Struct, SnapInv
  <1>1. CASE UNCHANGED vars
    BY <1>0, <1>1 DEF vars, fdVars, SnapOK, Compared, Num, FdRefs, DataRefs
  <1>2. ASSUME NEW d \in Envs, Dispatch(d) PROVE SnapOK(e)'
    <2>1. on' = {d}
      BY <1>2, OneCpuStep
    <2>2. ~ frame'[d].fresh
      BY <1>0, <1>2 DEF Dispatch, ShapeInv, Frame
    <2>. QED BY <2>1, <2>2 DEF SnapOK
  <1>3. ASSUME NEW d \in Envs, Destroy(d) PROVE SnapOK(e)'
    <2>1. CASE d = e
      BY <1>3, <2>1 DEF Destroy, SnapOK
    <2>2. CASE d # e
      <3>1. e \in on' => pc[e] = "idle"
        BY <1>3, <2>2 DEF Destroy, OneCpu
      <3>2. pc'[e] = pc[e]
        BY <1>0, <1>3, <2>2 DEF Destroy, ShapeInv
      <3>. QED BY <3>1, <3>2 DEF SnapOK, Compared
    <2>. QED BY <2>1, <2>2
  <1>4. ASSUME NEW d \in Envs, d # e, UserStep(d) PROVE SnapOK(e)'
    <2>1. d \in on /\ on' \subseteq on
      BY <1>4, WhereTo DEF UserStep
    <2>2. e \notin on'
      BY <1>4, <2>1 DEF OneCpu
    <2>. QED BY <2>2 DEF SnapOK
  <1>5. CASE CheckFdRef(e)
    <2>1. Cardinality(FdRefs(fd[e][Num(e)])) \in Nat
      BY <1>0, RefsFinite
    <2>2. /\ fd' = fd /\ pc'[e] \in {"rpipe", "wpipe"}
          /\ frame'[e].seen = Cardinality(FdRefs(fd[e][Num(e)]))
          /\ frame'[e].num = frame[e].num
      BY <1>0, <1>5, <2>1 DEF CheckFdRef, ShapeInv, Frame, fdVars
    <2>3. FdRefs(fd[e][Num(e)])' = FdRefs(fd[e][Num(e)])
      BY <2>2 DEF FdRefs, Num
    <2>. QED BY <2>2, <2>3 DEF SnapOK, Compared
  <1>6. CASE CheckPipeRef(e) /\ e \in on
    <2>1. /\ fd' = fd /\ data' = data /\ pc'[e] \in {"ragain", "wagain"}
          /\ pc[e] \in {"rpipe", "wpipe"}
          /\ frame'[e].ret <=> frame[e].seen = Cardinality(DataRefs)
          /\ frame'[e].fresh <=> frame[e].fresh
          /\ frame'[e].num = frame[e].num
      BY <1>0, <1>6, ZenonT(60) DEF CheckPipeRef, ShapeInv, Frame, fdVars
    <2>2. FdRefs(fd[e][Num(e)])' = FdRefs(fd[e][Num(e)]) /\ DataRefs' = DataRefs
      BY <2>1 DEF FdRefs, DataRefs, Num
    <2>. QED BY <1>0, <1>6, <2>1, <2>2 DEF SnapOK, Compared
  <1>7. CASE CheckAgain(e)
    <2>1. pc'[e] \notin InSnap
      BY <1>0, <1>7 DEF CheckAgain, YieldTo, Enter, ShapeInv, InSnap
    <2>. QED BY <2>1 DEF SnapOK, Compared, InSnap
  <1>8. CASE UserStep(e)
    <2>1. CASE pc'[e] \notin InSnap
      BY <2>1 DEF SnapOK, Compared, InSnap
    <2>. QED BY <1>5, <1>6, <1>7, <1>8, <2>1, WhereTo DEF UserStep
  <1>. QED BY <1>1, <1>2, <1>3, <1>4, <1>8 DEF Next

(* A step to a state that gives up comes from a comparison of two counts    *)
(* that were both as they are now.                                          *)
LEMMA EofStep ==
  ASSUME Struct, SnapInv, NoFalseEof, [Next]_vars
  PROVE  NoFalseEof'
  <1>0. ShapeInv
    BY DEF Struct
  <1>1. "r" \in Ends /\ "w" \in Ends
    BY DEF Ends
  <1>2. /\ FdRefs("w") = {} => FdRefs("w")' = {}
        /\ FdRefs("r") = {} => FdRefs("r")' = {}
    BY <1>1, NoRevival
  <1>3. ASSUME NEW e \in Envs, CheckAgain(e), e \in on
        PROVE  /\ pc'[e] = "eof" => FdRefs("w") = {}
               /\ pc'[e] = "epipe" => FdRefs("r") = {}
    <2>0. CallOK(e) /\ SnapOK(e)
      BY DEF Struct, CallInv, SnapInv
    <2>1. ASSUME pc'[e] \in GivenUp PROVE frame[e].fresh /\ frame[e].ret
      BY <1>0, <1>3, <2>1, Zenon DEF CheckAgain, YieldTo, Enter, ShapeInv, GivenUp
    <2>2. CASE pc[e] = "ragain"
      <3>1. pc'[e] # "epipe"
        BY <1>0, <1>3, <2>2 DEF CheckAgain, YieldTo, Enter, ShapeInv
      <3>2. fd[e][Num(e)] = "r"
        BY <2>0, <2>2 DEF CallOK, Reading
      <3>3. ASSUME pc'[e] = "eof" PROVE FdRefs(OtherEnd("r")) = {}
        BY <1>1, <1>3, <2>0, <2>1, <2>2, <3>2, <3>3, EqualCounts DEF SnapOK, Compared, GivenUp
      <3>. QED BY <3>1, <3>3 DEF OtherEnd
    <2>3. CASE pc[e] = "wagain"
      <3>1. pc'[e] # "eof"
        BY <1>0, <1>3, <2>3 DEF CheckAgain, YieldTo, Enter, ShapeInv
      <3>2. fd[e][Num(e)] = "w"
        BY <2>0, <2>3 DEF CallOK, Writing
      <3>3. ASSUME pc'[e] = "epipe" PROVE FdRefs(OtherEnd("w")) = {}
        BY <1>1, <1>3, <2>0, <2>1, <2>3, <3>2, <3>3, EqualCounts DEF SnapOK, Compared, GivenUp
      <3>. QED BY <3>1, <3>3 DEF OtherEnd
    <2>. QED BY <1>3, <2>2, <2>3 DEF CheckAgain
  <1>4. ASSUME NEW e \in Envs
        PROVE  /\ pc'[e] = "eof" => FdRefs("w") = {}
               /\ pc'[e] = "epipe" => FdRefs("r") = {}
    <2>0. /\ pc[e] = "eof" => FdRefs("w") = {}
          /\ pc[e] = "epipe" => FdRefs("r") = {}
      BY DEF NoFalseEof
    <2>1. CASE pc'[e] = pc[e]
      BY <2>0, <2>1
    <2>2. CASE pc'[e] \notin GivenUp
      BY <2>2 DEF GivenUp
    <2>3. ASSUME NEW d \in Envs, Dispatch(d) \/ (d # e /\ UserStep(d)) PROVE pc'[e] = pc[e]
      BY <2>3, WhereTo DEF Dispatch, UserStep
    <2>4. ASSUME NEW d \in Envs, Destroy(d) PROVE pc'[e] = pc[e] \/ pc'[e] = "gone"
      BY <1>0, <2>4 DEF Destroy, ShapeInv
    <2>5. CASE UserStep(e)
      <3>1. CASE CheckFdRef(e) \/ CheckPipeRef(e)
        BY <1>0, <2>2, <3>1 DEF CheckFdRef, CheckPipeRef, ShapeInv, GivenUp
      <3>. QED BY <1>3, <2>2, <2>5, <3>1, WhereTo DEF UserStep
    <2>6. CASE UNCHANGED vars
      BY <2>1, <2>6 DEF vars
    <2>. QED BY <2>1, <2>2, <2>3, <2>4, <2>5, <2>6 DEF Next, GivenUp
  <1>. QED BY <1>2, <1>4 DEF NoFalseEof

LEMMA EofInit == Init => OneCpu /\ SnapInv /\ NoFalseEof
  <1>. SUFFICES ASSUME Init PROVE OneCpu /\ SnapInv /\ NoFalseEof
    OBVIOUS
  <1>1. on = {}
    BY DEF Init
  <1>2. \A e \in Envs : pc[e] \in {"idle", "gone"}
    BY DEF Init
  <1>. QED BY <1>1, <1>2 DEF OneCpu, SnapInv, SnapOK, NoFalseEof

(* On one CPU, with any number of environments and descriptors, no read     *)
(* reports end of file while somebody holds the write end, and no write     *)
(* gives up while somebody holds the read end.                              *)
THEOREM NoFalseEofSafe == NCPU = 1 => (Spec => []NoFalseEof)
  <1>. SUFFICES ASSUME NCPU = 1 PROVE Spec => []NoFalseEof
    OBVIOUS
  <1>1. Init => EofInv
    BY StructInit, EofInit DEF EofInv
  <1>2. EofInv /\ [Next]_vars => EofInv'
    BY StructStep, OneCpuStep, SnapStep, EofStep DEF EofInv
  <1>3. EofInv => NoFalseEof
    BY DEF EofInv
  <1>. QED BY <1>1, <1>2, <1>3, PTL DEF Spec

-----------------------------------------------------------------------------
(* The positions, and the number of environments on CPUs.                   *)

AtByte == {"rtake", "rinc", "wstore", "winc"}

\* Between the test of the loop and the increment there is a byte, or room.
PosOK(e) ==
    /\ pc[e] \in {"rtake", "rinc"} => rpos < wpos
    /\ pc[e] \in {"wstore", "winc"} => wpos < rpos + PIPEBUFSIZ

PosInv ==
    /\ rpos \in Nat /\ wpos \in Nat /\ rpos <= wpos /\ wpos <= rpos + PIPEBUFSIZ
    /\ buf \in [0 .. PIPEBUFSIZ - 1 -> Nat]
    /\ got \in Seq(Nat)
    /\ \A e \in Envs : PosOK(e)

OnInv == Cardinality(on) <= NCPU

LEMMA OnStep == Struct /\ OnInv /\ [Next]_vars => OnInv'
  <1>. SUFFICES ASSUME Struct, OnInv, [Next]_vars PROVE OnInv'
    OBVIOUS
  <1>1. on \in SUBSET Envs /\ IsFiniteSet(on) /\ Cardinality(on) \in Nat
    <2>1. on \in SUBSET Envs
      BY DEF Struct, ShapeInv
    <2>. QED BY <2>1, FS_Subset, FS_CardinalityType
  <1>2. ASSUME on' \subseteq on PROVE OnInv'
    <2>1. on' \in SUBSET on
      BY <1>2
    <2>2. Cardinality(on') <= Cardinality(on) /\ Cardinality(on') \in Nat
      BY <1>1, <2>1, FS_Subset, FS_CardinalityType
    <2>. QED BY <1>1, <2>2 DEF OnInv
  <1>3. ASSUME NEW d \in Envs, Dispatch(d) PROVE OnInv'
    <2>1. PICK left \in {on} \cup {on \ {x} : x \in on} :
              Cardinality(left) < NCPU /\ on' = left \cup {d}
      BY <1>3 DEF Dispatch
    <2>2. left \in SUBSET Envs
      BY <1>1
    <2>3. IsFiniteSet(left) /\ Cardinality(left) \in Nat
      BY <2>2, FS_Subset, FS_CardinalityType
    <2>4. Cardinality(left \cup {d}) <= Cardinality(left) + 1
      <3>1. Cardinality(left \cup {d}) = IF d \in left THEN Cardinality(left) ELSE Cardinality(left) + 1
        BY <2>3, FS_AddElement
      <3>. QED BY <2>3, <3>1
    <2>5. Cardinality(left \cup {d}) \in Nat
      BY <2>3, FS_AddElement, FS_CardinalityType
    <2>. QED BY <2>1, <2>3, <2>4, <2>5 DEF OnInv
  <1>4. ASSUME NEW d \in Envs, Destroy(d) PROVE on' \subseteq on
    BY <1>4 DEF Destroy
  <1>5. ASSUME NEW d \in Envs, UserStep(d) PROVE on' \subseteq on
    BY <1>5, WhereTo DEF UserStep
  <1>6. CASE UNCHANGED vars
    BY <1>2, <1>6 DEF vars
  <1>. QED BY <1>2, <1>3, <1>4, <1>5, <1>6 DEF Next

\* A step that moves no byte and enters no copy keeps the positions.
LEMMA PosFrame ==
  ASSUME NEW e \in Envs, PosInv, UNCHANGED byteVars,
         \A d \in Envs \ {e} : pc'[d] = pc[d],
         pc'[e] \in AtByte => pc'[e] = pc[e] \/ PosOK(e)'
  PROVE  PosInv'
  <1>1. rpos' = rpos /\ wpos' = wpos /\ buf' = buf /\ got' = got
    BY DEF byteVars
  <1>2. ASSUME NEW d \in Envs PROVE PosOK(d)'
    <2>1. PosOK(d)
      BY DEF PosInv
    <2>2. CASE d = e
      BY <1>1, <2>1, <2>2, Zenon DEF PosOK, AtByte
    <2>3. CASE d # e
      BY <1>1, <2>1, <2>3 DEF PosOK
    <2>. QED BY <2>2, <2>3
  <1>. QED BY <1>1, <1>2 DEF PosInv

LEMMA PosRead ==
  ASSUME NEW e \in Envs, Struct, PosInv, ReadTest(e) \/ ReadByte(e) \/ ReadInc(e)
  PROVE  PosInv'
  <1>1. ShapeInv /\ \A d \in Envs : CallOK(d) /\ PosOK(d)
    BY DEF Struct, CallInv, PosInv
  <1>2. \A d \in Envs \ {e} : pc'[d] = pc[d]
    BY <1>1, WhereTo DEF Library
  <1>3. CASE ReadTest(e)
    <2>1. UNCHANGED byteVars
      BY <1>3 DEF ReadTest
    <2>2. rpos' = rpos /\ wpos' = wpos /\ rpos \in Nat /\ wpos \in Nat /\ rpos <= wpos
      BY <2>1 DEF byteVars, PosInv
    <2>3. /\ "rtake" \in Location /\ "rcheck" \in Location
      BY DEF Location
    <2>4. CASE rpos # wpos /\ Goto(e, "rtake")
      <3>1. pc'[e] = "rtake"
        BY <1>1, <2>3, <2>4, GotoShape
      <3>2. PosOK(e)'
        BY <2>2, <2>4, <3>1 DEF PosOK
      <3>. QED BY <1>2, <2>1, <3>2, PosFrame
    <2>5. CASE Idle(e) \/ Goto(e, "rcheck")
      <3>1. pc'[e] \in {"idle", "rcheck"}
        BY <1>1, <2>3, <2>5, GotoShape, IdleShape
      <3>2. pc'[e] \notin AtByte
        BY <3>1 DEF AtByte
      <3>. QED BY <1>2, <2>1, <3>2, PosFrame
    <2>. QED BY <1>3, <2>4, <2>5 DEF ReadTest
  <1>4. CASE ReadByte(e)
    <2>1. UNCHANGED <<rpos, wpos, buf>> /\ Goto(e, "rinc") /\ "rinc" \in Location
      BY <1>4 DEF ReadByte, Location
    <2>2. pc'[e] = "rinc" /\ pc[e] = "rtake"
      BY <1>1, <1>4, <2>1, GotoShape DEF ReadByte
    <2>3. \A d \in Envs : PosOK(d)'
      BY <1>1, <1>2, <2>1, <2>2 DEF PosOK
    <2>4. got' \in Seq(Nat)
      <3>1. rpos % PIPEBUFSIZ \in 0 .. PIPEBUFSIZ - 1
        BY SMT DEF PosInv
      <3>2. buf[rpos % PIPEBUFSIZ] \in Nat
        BY <3>1 DEF PosInv
      <3>. QED BY <1>4, <3>2 DEF ReadByte, PosInv
    <2>. QED BY <2>1, <2>3, <2>4 DEF PosInv
  <1>5. CASE ReadInc(e)
    <2>1. /\ rpos' = rpos + 1 /\ UNCHANGED <<wpos, buf, got>>
          /\ pc[e] = "rinc" /\ pc'[e] \in {"idle", "rtest"}
      BY <1>1, <1>5, IdleShape DEF ReadInc, ShapeInv
    <2>2. e = Reader /\ rpos < wpos
      BY <1>1, <2>1 DEF CallOK, PosOK, Reading
    <2>3. \A d \in Envs \ {e} : pc[d] \notin {"rtake", "rinc"}
      BY <1>1, <2>2 DEF CallOK, Reading
    <2>4. \A d \in Envs : PosOK(d)'
      BY <1>1, <1>2, <2>1, <2>3, PIPEBUFSIZAssumption DEF PosOK, PosInv
    <2>. QED BY <2>1, <2>2, <2>4 DEF PosInv
  <1>. QED BY <1>3, <1>4, <1>5

LEMMA PosWrite ==
  ASSUME NEW e \in Envs, Struct, PosInv, WriteTest(e) \/ WriteByte(e) \/ WriteInc(e)
  PROVE  PosInv'
  <1>1. ShapeInv /\ \A d \in Envs : CallOK(d) /\ PosOK(d)
    BY DEF Struct, CallInv, PosInv
  <1>2. \A d \in Envs \ {e} : pc'[d] = pc[d]
    BY <1>1, WhereTo DEF Library
  <1>3. CASE WriteTest(e)
    <2>1. UNCHANGED byteVars /\ "wstore" \in Location /\ "wcheck" \in Location
      BY <1>3 DEF WriteTest, Location
    <2>2. rpos' = rpos /\ wpos' = wpos /\ rpos \in Nat /\ wpos \in Nat
      BY <2>1 DEF byteVars, PosInv
    <2>3. CASE wpos >= rpos + PIPEBUFSIZ
      <3>1. pc'[e] = "wcheck"
        BY <1>1, <1>3, <2>1, <2>3, GotoShape DEF WriteTest
      <3>. QED BY <1>2, <2>1, <3>1, PosFrame DEF AtByte
    <2>4. CASE ~ (wpos >= rpos + PIPEBUFSIZ)
      <3>1. pc'[e] = "wstore"
        BY <1>1, <1>3, <2>1, <2>4, GotoShape DEF WriteTest
      <3>2. PosOK(e)'
        BY <2>2, <2>4, <3>1 DEF PosOK
      <3>. QED BY <1>2, <2>1, <3>2, PosFrame
    <2>. QED BY <2>3, <2>4
  <1>4. CASE WriteByte(e)
    <2>1. UNCHANGED <<rpos, wpos, got>> /\ Goto(e, "winc") /\ "winc" \in Location
      BY <1>4 DEF WriteByte, Location
    <2>2. pc'[e] = "winc" /\ pc[e] = "wstore"
      BY <1>1, <1>4, <2>1, GotoShape DEF WriteByte
    <2>3. \A d \in Envs : PosOK(d)'
      BY <1>1, <1>2, <2>1, <2>2 DEF PosOK
    <2>4. buf' \in [0 .. PIPEBUFSIZ - 1 -> Nat]
      BY <1>4 DEF WriteByte, PosInv
    <2>. QED BY <2>1, <2>3, <2>4 DEF PosInv
  <1>5. CASE WriteInc(e)
    <2>1. "wtest" \in Location
      BY DEF Location
    <2>2. /\ wpos' = wpos + 1 /\ UNCHANGED <<rpos, buf, got>>
          /\ pc[e] = "winc" /\ pc'[e] \in {"idle", "wtest"}
      BY <1>1, <1>5, <2>1, IdleShape, GotoShape DEF WriteInc
    <2>3. e = Writer /\ wpos < rpos + PIPEBUFSIZ
      BY <1>1, <2>2 DEF CallOK, PosOK, Writing
    <2>4. \A d \in Envs \ {e} : pc[d] \notin {"wstore", "winc"}
      BY <1>1, <2>3 DEF CallOK, Writing
    <2>5. \A d \in Envs : PosOK(d)'
      BY <1>1, <1>2, <2>2, <2>4 DEF PosOK, PosInv
    <2>. QED BY <2>2, <2>3, <2>5 DEF PosInv
  <1>. QED BY <1>3, <1>4, <1>5

LEMMA PosStep == Struct /\ PosInv /\ [Next]_vars => PosInv'
  <1>. SUFFICES ASSUME Struct, PosInv, [Next]_vars PROVE PosInv'
    OBVIOUS
  <1>0. ShapeInv
    BY DEF Struct
  <1>1. CASE UNCHANGED vars
    BY <1>1 DEF vars, byteVars, PosInv, PosOK
  <1>2. ASSUME NEW e \in Envs, Dispatch(e) PROVE PosInv'
    BY <1>2, PosFrame DEF Dispatch
  <1>3. ASSUME NEW e \in Envs, Destroy(e) PROVE PosInv'
    <2>1. UNCHANGED byteVars /\ pc'[e] = "gone" /\ \A d \in Envs \ {e} : pc'[d] = pc[d]
      BY <1>0, <1>3 DEF Destroy, ShapeInv
    <2>. QED BY <2>1, PosFrame DEF AtByte
  <1>4. ASSUME NEW e \in Envs, Call(e) PROVE PosInv'
    <2>1. UNCHANGED byteVars /\ pc'[e] \in {"close_data", "rtest", "wtest", "dup_close", "dup_data"}
      <3>1. \A l \in {"close_data", "rtest", "wtest"} : l \in Location
        BY DEF Location
      <3>2. ASSUME NEW k \in Slots, Close(e, k) \/ Read(e, k) \/ Write(e, k)
            PROVE  UNCHANGED byteVars /\ pc'[e] \in {"close_data", "rtest", "wtest"}
        BY <1>0, <3>1, <3>2, EnterShape DEF Close, Read, Write
      <3>3. ASSUME NEW k \in Slots, NEW n \in Slots, Dup(e, k, n)
            PROVE  UNCHANGED byteVars /\ pc'[e] \in {"dup_close", "dup_data"}
        BY <1>0, <3>3 DEF Dup, ShapeInv
      <3>. QED BY <1>4, <3>2, <3>3 DEF Call
    <2>2. pc'[e] \notin AtByte
      BY <2>1 DEF AtByte
    <2>. QED BY <1>4, <2>1, <2>2, WhereTo, PosFrame
  <1>5. ASSUME NEW e \in Envs, Library(e) PROVE PosInv'
    <2>1. CASE ReadTest(e) \/ ReadByte(e) \/ ReadInc(e)
      BY <2>1, PosRead
    <2>2. CASE WriteTest(e) \/ WriteByte(e) \/ WriteInc(e)
      BY <2>2, PosWrite
    <2>3. CASE CloseData(e) \/ DupData(e) \/ DupFd(e) \/ Return(e)
      <3>1. "dup_data" \in Location /\ "dup_fd" \in Location
        BY DEF Location
      <3>2. UNCHANGED byteVars /\ (Idle(e) \/ Goto(e, "dup_data") \/ Goto(e, "dup_fd"))
        BY <2>3 DEF CloseData, DupData, DupFd, Return
      <3>3. pc'[e] \notin AtByte
        BY <1>0, <3>1, <3>2, IdleShape, GotoShape DEF AtByte
      <3>. QED BY <1>5, <3>2, <3>3, WhereTo, PosFrame
    <2>4. CASE CheckRuns(e) \/ CheckFdRef(e) \/ CheckPipeRef(e) \/ CheckAgain(e)
      <3>1. UNCHANGED byteVars
        BY <2>4 DEF CheckRuns, CheckFdRef, CheckPipeRef, CheckAgain
      <3>2. pc'[e] \notin AtByte
        BY <1>0, <2>4 DEF CheckRuns, CheckFdRef, CheckPipeRef, CheckAgain, YieldTo, Enter,
           ShapeInv, AtByte
      <3>. QED BY <1>5, <3>1, <3>2, WhereTo, PosFrame
    <2>. QED BY <1>5, <2>1, <2>2, <2>3, <2>4 DEF Library
  <1>. QED BY <1>1, <1>2, <1>3, <1>4, <1>5 DEF Next, UserStep

LEMMA PosInit == Init => PosInv /\ OnInv
  <1>. SUFFICES ASSUME Init PROVE PosInv /\ OnInv
    OBVIOUS
  <1>1. \A e \in Envs : pc[e] \in {"idle", "gone"}
    BY DEF Init
  <1>2. /\ rpos = 0 /\ wpos = 0 /\ got = <<>> /\ on = {}
        /\ buf = [i \in 0 .. PIPEBUFSIZ - 1 |-> 0]
    BY DEF Init
  <1>3. Cardinality({}) = 0
    BY FS_EmptySet
  <1>. QED BY <1>1, <1>2, <1>3, PIPEBUFSIZAssumption DEF PosInv, PosOK, OnInv

(* Every variable keeps its shape, the positions never cross or run apart   *)
(* by more than the buffer, and no CPU runs two environments.               *)
THEOREM PipeTypeOK == Spec => []TypeOK
  <1>1. Init => Struct /\ PosInv /\ OnInv
    BY StructInit, PosInit
  <1>2. Struct /\ PosInv /\ OnInv /\ [Next]_vars => (Struct /\ PosInv /\ OnInv)'
    BY StructStep, PosStep, OnStep
  <1>3. Struct /\ PosInv /\ OnInv => TypeOK
    BY DEF Struct, ShapeInv, PosInv, OnInv, TypeOK
  <1>. QED BY <1>1, <1>2, <1>3, PTL DEF Spec

-----------------------------------------------------------------------------
(* Pipe implements Channel: bytes arrive once and in order.                 *)

\* What the channel is made of.
Queue  == [i \in 1 .. wpos - Len(got) |-> buf[(Len(got) + i - 1) % PIPEBUFSIZ]]
Open   == {end \in Ends : FdRefs(end) # {}}
GaveUp == {end \in Ends : \E e \in Envs : pc[e] = IF end = "r" THEN "eof" ELSE "epipe"}

(* The reader has as many bytes as rpos says, or one more until it has       *)
(* counted it, which one that is destroyed there never does; the byte being *)
(* written is at its place before it is counted.                            *)
ByteOK(e) ==
    /\ pc[e] = "rinc" => Len(got) = rpos + 1
    /\ e = Reader /\ pc[e] \notin {"rinc", "gone"} => Len(got) = rpos
    /\ pc[e] \in Writing => wpos < MaxBytes
    /\ pc[e] = "winc" => buf[wpos % PIPEBUFSIZ] = wpos + 1

ByteInv ==
    /\ rpos <= Len(got) /\ Len(got) <= rpos + 1 /\ Len(got) <= wpos
    /\ \A e \in Envs : ByteOK(e)

LEMMA RangeModLemma ==
  ASSUME NEW m \in Nat \ {0}, NEW q \in Int, NEW i \in 0 .. m - 1
  PROVE  (m * q + i) % m = i
  BY Z3

LEMMA PlaceLemma ==
  ASSUME NEW x \in Nat PROVE x % PIPEBUFSIZ \in 0 .. PIPEBUFSIZ - 1
  OBVIOUS

LEMMA QuotientLemma ==
  ASSUME NEW m \in Nat \ {0}, NEW x \in Nat
  PROVE  \E q \in Int : \E i \in 0 .. m - 1 : x = m * q + i /\ x % m = i
  BY Z3

(* Positions less than the buffer apart have places of their own in it.     *)
LEMMA PlacesLemma ==
  ASSUME NEW x \in Nat, NEW y \in Nat, x < y, y < x + PIPEBUFSIZ
  PROVE  x % PIPEBUFSIZ # y % PIPEBUFSIZ
  <1>1. PICK m \in Nat \ {0} : m = PIPEBUFSIZ
    OBVIOUS
  <1>2. PICK q \in Int, i \in 0 .. m - 1 : x = m * q + i /\ x % m = i
    BY QuotientLemma
  <1>3. PICK p \in Int, j \in 0 .. m - 1 : y = m * p + j /\ y % m = j
    BY QuotientLemma
  <1>4. ASSUME i = j PROVE FALSE
    <2>1. m * p > m * q /\ m * p < m * q + m
      BY <1>1, <1>2, <1>3, <1>4
    <2>2. p > q => m * p >= m * q + m
      BY Z3
    <2>3. p <= q => m * p <= m * q
      BY Z3
    <2>. QED BY <2>1, <2>2, <2>3
  <1>. QED BY <1>1, <1>2, <1>3, <1>4

-----------------------------------------------------------------------------
(* The steps that move no byte.                                             *)

\* The places an environment leaves and reaches in such a step.
Silent(e) ==
    /\ UNCHANGED byteVars
    /\ \A d \in Envs \ {e} : pc'[d] = pc[d]
    /\ pc'[e] = "gone" \/ pc[e] \notin {"rinc", "gone"}
    /\ pc'[e] \notin {"rinc", "winc"}
    /\ pc'[e] \in Writing => pc[e] \in Writing \/ wpos < MaxBytes

LEMMA SilentByte ==
  ASSUME NEW e \in Envs, ByteInv, Silent(e) PROVE ByteInv'
  <1>1. rpos' = rpos /\ wpos' = wpos /\ buf' = buf /\ got' = got
    BY DEF Silent, byteVars
  <1>2. ASSUME NEW d \in Envs PROVE ByteOK(d)'
    <2>1. ByteOK(d)
      BY DEF ByteInv
    <2>2. CASE d = e
      BY <1>1, <2>1, <2>2, Zenon DEF ByteOK, Silent
    <2>3. CASE d # e
      BY <1>1, <2>1, <2>3, Zenon DEF ByteOK, Silent
    <2>. QED BY <2>2, <2>3
  <1>. QED BY <1>1, <1>2 DEF ByteInv

(* The steps within the library and into it, but for the four on bytes.     *)
LEMMA SilentSteps ==
  ASSUME NEW e \in Envs, Struct, Library(e) \/ Call(e)
  PROVE  ReadByte(e) \/ ReadInc(e) \/ WriteByte(e) \/ WriteInc(e) \/ Silent(e)
  <1>0. ShapeInv /\ \A d \in Envs \ {e} : pc'[d] = pc[d]
    BY WhereTo DEF Struct
  <1>1. \A l \in {"close_data", "dup_data", "dup_fd", "rtake", "rtest", "rcheck", "wtest",
                  "wstore", "wcheck"} : l \in Location
    BY DEF Location
  <1>2. CASE CloseData(e) \/ DupData(e) \/ DupFd(e) \/ Return(e)
    <2>1. /\ UNCHANGED byteVars /\ pc[e] \notin {"rinc", "gone"}
          /\ Idle(e) \/ Goto(e, "dup_data") \/ Goto(e, "dup_fd")
      BY <1>2 DEF CloseData, DupData, DupFd, Return
    <2>2. pc'[e] \in {"idle", "dup_data", "dup_fd"}
      BY <1>0, <1>1, <2>1, IdleShape, GotoShape
    <2>. QED BY <1>0, <2>1, <2>2 DEF Silent, Writing
  <1>3. CASE CheckRuns(e) \/ CheckFdRef(e) \/ CheckPipeRef(e)
    <2>1. UNCHANGED byteVars
      BY <1>3 DEF CheckRuns, CheckFdRef, CheckPipeRef
    <2>2. \/ pc[e] \in {"rcheck", "rfdref", "rpipe"} /\ pc'[e] \in {"rfdref", "rpipe", "ragain"}
          \/ pc[e] \in {"wcheck", "wfdref", "wpipe"} /\ pc'[e] \in {"wfdref", "wpipe", "wagain"}
      BY <1>0, <1>3, Zenon DEF CheckRuns, CheckFdRef, CheckPipeRef, ShapeInv
    <2>. QED BY <1>0, <2>1, <2>2 DEF Silent, Writing
  <1>4. CASE CheckAgain(e)
    <2>1. UNCHANGED byteVars
      BY <1>4 DEF CheckAgain
    <2>2. \/ pc[e] = "ragain" /\ pc'[e] \in {"rcheck", "rtest", "eof"}
          \/ pc[e] = "wagain" /\ pc'[e] \in {"wcheck", "wtest", "epipe"}
      BY <1>0, <1>4, Zenon DEF CheckAgain, YieldTo, Enter, ShapeInv
    <2>. QED BY <1>0, <2>1, <2>2 DEF Silent, Writing
  <1>5. CASE ReadTest(e)
    <2>1. /\ UNCHANGED byteVars /\ pc[e] = "rtest"
          /\ Idle(e) \/ Goto(e, "rtake") \/ Goto(e, "rcheck")
      BY <1>5 DEF ReadTest
    <2>2. pc'[e] \in {"idle", "rtake", "rcheck"}
      BY <1>0, <1>1, <2>1, IdleShape, GotoShape
    <2>. QED BY <1>0, <2>1, <2>2 DEF Silent, Writing
  <1>6. CASE WriteTest(e)
    <2>1. /\ UNCHANGED byteVars /\ pc[e] = "wtest"
          /\ Goto(e, "wstore") \/ Goto(e, "wcheck")
      BY <1>6 DEF WriteTest
    <2>2. pc'[e] \in {"wstore", "wcheck"}
      BY <1>0, <1>1, <2>1, GotoShape
    <2>. QED BY <1>0, <2>1, <2>2 DEF Silent, Writing
  <1>7. CASE Call(e)
    <2>1. ASSUME NEW k \in Slots, Close(e, k) \/ Read(e, k)
          PROVE  /\ UNCHANGED byteVars /\ pc[e] = "idle"
                 /\ pc'[e] \in {"close_data", "rtest"}
      BY <1>0, <1>1, <2>1, EnterShape DEF Close, Read
    <2>2. ASSUME NEW k \in Slots, Write(e, k)
          PROVE  /\ UNCHANGED byteVars /\ pc[e] = "idle" /\ wpos < MaxBytes
                 /\ pc'[e] = "wtest"
      BY <1>0, <1>1, <2>2, EnterShape DEF Write
    <2>3. ASSUME NEW k \in Slots, NEW n \in Slots, Dup(e, k, n)
          PROVE  /\ UNCHANGED byteVars /\ pc[e] = "idle"
                 /\ pc'[e] \in {"dup_close", "dup_data"}
      BY <1>0, <2>3 DEF Dup, ShapeInv
    <2>4. /\ UNCHANGED byteVars /\ pc[e] = "idle"
          /\ \/ pc'[e] \in {"close_data", "rtest", "dup_close", "dup_data"}
             \/ pc'[e] = "wtest" /\ wpos < MaxBytes
      BY <1>7, <2>1, <2>2, <2>3 DEF Call
    <2>. QED BY <1>0, <2>4 DEF Silent, Writing
  <1>. QED BY <1>2, <1>3, <1>4, <1>5, <1>6, <1>7 DEF Library

(* The steps the scheduler and other programs make for an environment.      *)
LEMMA SilentOthers ==
  ASSUME NEW e \in Envs, Struct, Dispatch(e) \/ Destroy(e)
  PROVE  /\ UNCHANGED byteVars /\ \A d \in Envs \ {e} : pc'[d] = pc[d]
         /\ pc'[e] = pc[e] \/ pc'[e] = "gone"
  BY DEF Dispatch, Destroy, Struct, ShapeInv

-----------------------------------------------------------------------------
(* The steps that move a byte.                                              *)
LEMMA ByteSteps ==
  ASSUME NEW e \in Envs, Struct, PosInv, ByteInv, ReadByte(e) \/ ReadInc(e) \/ WriteByte(e) \/ WriteInc(e)
  PROVE  ByteInv'
  <1>0. ShapeInv /\ \A d \in Envs : CallOK(d) /\ PosOK(d) /\ ByteOK(d)
    BY DEF Struct, CallInv, PosInv, ByteInv
  <1>1. /\ \A d \in Envs \ {e} : pc'[d] = pc[d]
        /\ \A l \in {"rinc", "winc", "wtest"} : l \in Location
    BY <1>0, WhereTo DEF Library, Location
  <1>2. /\ rpos \in Nat /\ wpos \in Nat /\ Len(got) \in Nat /\ got \in Seq(Nat)
        /\ rpos <= Len(got) /\ Len(got) <= rpos + 1 /\ Len(got) <= wpos
    BY DEF PosInv, ByteInv
  <1>3. CASE ReadByte(e)
    <2>1. /\ UNCHANGED <<rpos, wpos, buf>> /\ pc[e] = "rtake" /\ pc'[e] = "rinc"
          /\ got' = Append(got, buf[rpos % PIPEBUFSIZ])
      BY <1>0, <1>1, <1>3, GotoShape DEF ReadByte
    <2>2. e = Reader /\ Len(got) = rpos /\ rpos < wpos
      BY <1>0, <2>1 DEF CallOK, PosOK, ByteOK, Reading
    <2>3. Len(got') = Len(got) + 1
      <3>1. rpos % PIPEBUFSIZ \in 0 .. PIPEBUFSIZ - 1
        BY <1>2, PlaceLemma
      <3>2. buf[rpos % PIPEBUFSIZ] \in Nat
        BY <3>1 DEF PosInv
      <3>. QED BY <1>2, <2>1, <3>2
    <2>4. ASSUME NEW d \in Envs PROVE ByteOK(d)'
      <3>1. CASE d = e
        BY <2>1, <2>2, <2>3, <3>1, Zenon DEF ByteOK, Writing
      <3>2. CASE d # e
        <4>1. pc'[d] = pc[d] /\ d # Reader /\ pc[d] # "rinc" /\ ByteOK(d)
          BY <1>0, <1>1, <2>2, <3>2 DEF CallOK, Reading
        <4>. QED BY <2>1, <4>1 DEF ByteOK
      <3>. QED BY <3>1, <3>2
    <2>. QED BY <1>2, <2>1, <2>2, <2>3, <2>4 DEF ByteInv
  <1>4. CASE ReadInc(e)
    <2>1. /\ UNCHANGED <<wpos, buf, got>> /\ rpos' = rpos + 1
          /\ pc[e] = "rinc" /\ pc'[e] \in {"idle", "rtest"}
      BY <1>0, <1>4, IdleShape DEF ReadInc, ShapeInv
    <2>2. e = Reader /\ Len(got) = rpos + 1
      BY <1>0, <2>1 DEF CallOK, ByteOK, Reading
    <2>3. ASSUME NEW d \in Envs PROVE ByteOK(d)'
      <3>1. CASE d = e
        BY <2>1, <2>2, <3>1 DEF ByteOK, Writing
      <3>2. CASE d # e
        <4>1. pc'[d] = pc[d] /\ d # Reader /\ pc[d] # "rinc" /\ ByteOK(d)
          BY <1>0, <1>1, <2>2, <3>2 DEF CallOK, Reading
        <4>. QED BY <2>1, <4>1 DEF ByteOK
      <3>. QED BY <3>1, <3>2
    <2>. QED BY <1>2, <2>1, <2>2, <2>3 DEF ByteInv
  <1>5. CASE WriteByte(e)
    <2>1. /\ UNCHANGED <<rpos, wpos, got>> /\ pc[e] = "wstore" /\ pc'[e] = "winc"
          /\ buf' = [buf EXCEPT ![wpos % PIPEBUFSIZ] = wpos + 1]
      BY <1>0, <1>1, <1>5, GotoShape DEF WriteByte
    <2>2. e = Writer /\ wpos < MaxBytes
      BY <1>0, <2>1 DEF CallOK, ByteOK, Writing
    <2>3. buf'[wpos % PIPEBUFSIZ] = wpos + 1
      <3>1. wpos % PIPEBUFSIZ \in 0 .. PIPEBUFSIZ - 1
        BY <1>2, PlaceLemma
      <3>. QED BY <2>1, <3>1 DEF PosInv
    <2>4. ASSUME NEW d \in Envs PROVE ByteOK(d)'
      <3>1. CASE d = e
        BY <1>0, <2>1, <2>2, <2>3, <3>1, Zenon DEF ByteOK
      <3>2. CASE d # e
        <4>1. pc'[d] = pc[d] /\ pc[d] # "winc" /\ ByteOK(d)
          BY <1>0, <1>1, <2>2, <3>2 DEF CallOK, Writing
        <4>. QED BY <2>1, <4>1 DEF ByteOK
      <3>. QED BY <3>1, <3>2
    <2>. QED BY <1>2, <2>1, <2>4 DEF ByteInv
  <1>6. CASE WriteInc(e)
    <2>1. /\ UNCHANGED <<rpos, buf, got>> /\ wpos' = wpos + 1
          /\ pc[e] = "winc"
          /\ pc'[e] = "idle" \/ (pc'[e] = "wtest" /\ wpos' < MaxBytes)
      BY <1>0, <1>1, <1>6, IdleShape, GotoShape DEF WriteInc
    <2>2. e = Writer /\ pc[e] = "winc"
      BY <1>0, <1>6 DEF WriteInc, CallOK, Writing
    <2>3. ASSUME NEW d \in Envs PROVE ByteOK(d)'
      <3>1. CASE d = e
        BY <1>0, <2>1, <2>2, <3>1, Zenon DEF ByteOK, Writing
      <3>2. CASE d # e
        <4>1. pc'[d] = pc[d] /\ pc[d] \notin Writing /\ pc[d] # "winc" /\ ByteOK(d)
          BY <1>0, <1>1, <2>2, <3>2 DEF CallOK, Writing
        <4>. QED BY <2>1, <4>1 DEF ByteOK
      <3>. QED BY <3>1, <3>2
    <2>. QED BY <1>2, <2>1, <2>3 DEF ByteInv
  <1>. QED BY <1>3, <1>4, <1>5, <1>6

LEMMA ByteStep == Struct /\ PosInv /\ ByteInv /\ [Next]_vars => ByteInv'
  <1>. SUFFICES ASSUME Struct, PosInv, ByteInv, [Next]_vars PROVE ByteInv'
    OBVIOUS
  <1>1. CASE UNCHANGED vars
    BY <1>1 DEF vars, byteVars, ByteInv, ByteOK
  <1>2. ASSUME NEW e \in Envs, Dispatch(e) \/ Destroy(e) PROVE ByteInv'
    <2>1. /\ UNCHANGED byteVars /\ \A d \in Envs \ {e} : pc'[d] = pc[d]
          /\ pc'[e] = pc[e] \/ pc'[e] = "gone"
      BY <1>2, SilentOthers
    <2>2. CASE pc'[e] = "gone"
      <3>1. Silent(e)
        BY <2>1, <2>2 DEF Silent, Writing
      <3>. QED BY <3>1, SilentByte
    <2>3. CASE pc'[e] = pc[e]
      <3>1. /\ \A d \in Envs : pc'[d] = pc[d]
            /\ rpos' = rpos /\ wpos' = wpos /\ buf' = buf /\ got' = got
        BY <2>1, <2>3 DEF byteVars
      <3>. QED BY <3>1 DEF ByteInv, ByteOK
    <2>. QED BY <2>1, <2>2, <2>3
  <1>3. ASSUME NEW e \in Envs, UserStep(e) PROVE ByteInv'
    BY <1>3, SilentSteps, SilentByte, ByteSteps DEF UserStep
  <1>. QED BY <1>1, <1>2, <1>3 DEF Next

LEMMA ByteInit == Init => ByteInv
  <1>. SUFFICES ASSUME Init PROVE ByteInv
    OBVIOUS
  <1>1. /\ \A e \in Envs : pc[e] \in {"idle", "gone"}
        /\ rpos = 0 /\ wpos = 0 /\ Len(got) = 0
    BY DEF Init
  <1>. QED BY <1>1 DEF ByteInv, ByteOK, Writing

-----------------------------------------------------------------------------
(* The steps of the channel.                                                *)

CloseStep ==
    /\ Queue' = Queue /\ got' = got
    /\ Open' \subseteq Open /\ GaveUp' \subseteq GaveUp

LEMMA CloseMaps == CloseStep => C!Next
  <1>. SUFFICES ASSUME CloseStep PROVE C!Next
    OBVIOUS
  <1>1. PICK ends \in SUBSET Open : ends = Open \ Open'
    OBVIOUS
  <1>2. Open' = Open \ ends
    BY <1>1 DEF CloseStep
  <1>3. C!Close(ends)
    BY <1>2 DEF CloseStep, C!Close, Queue, Open, GaveUp, FdRefs
  <1>. QED BY <1>3 DEF C!Next, Open

LEMMA OpenShrinks ==
  ASSUME Struct, [Next]_vars PROVE Open' \subseteq Open
  <1>1. ASSUME NEW end \in Ends, FdRefs(end) = {} PROVE FdRefs(end)' = {}
    BY <1>1, NoRevival
  <1>. QED BY <1>1, SMT DEF Open, FdRefs

(* Sequences as functions.                                                  *)
LEMMA SequenceLemma ==
  ASSUME NEW n \in Nat, NEW f \in [1 .. n -> Nat]
  PROVE  /\ f \in Seq(Nat) /\ Len(f) = n
         /\ n > 0 => f # <<>> /\ Head(f) = f[1] /\ Tail(f) = [i \in 1 .. n - 1 |-> f[i + 1]]
         /\ \A b \in Nat : Append(f, b) = [i \in 1 .. n + 1 |-> IF i = n + 1 THEN b ELSE f[i]]
  <1>1. f \in Seq(Nat) /\ Len(f) = n
    OBVIOUS
  <1>2. ASSUME n > 0
        PROVE  f # <<>> /\ Head(f) = f[1] /\ Tail(f) = [i \in 1 .. n - 1 |-> f[i + 1]]
    <2>1. f # <<>> /\ Head(f) = f[1]
      BY <1>1, <1>2, EmptySeq
    <2>2. /\ Tail(f) \in Seq(Nat) /\ Len(Tail(f)) = n - 1
          /\ \A i \in 1 .. n - 1 : Tail(f)[i] = f[i + 1]
      BY <1>1, <2>1, HeadTailProperties
    <2>3. Tail(f) \in [1 .. n - 1 -> Nat]
      BY <2>2, LenProperties
    <2>. QED BY <2>1, <2>2, <2>3
  <1>3. ASSUME NEW b \in Nat
        PROVE Append(f, b) = [i \in 1 .. n + 1 |-> IF i = n + 1 THEN b ELSE f[i]]
    <2>1. /\ Append(f, b) \in Seq(Nat) /\ Len(Append(f, b)) = n + 1
          /\ \A i \in 1 .. n : Append(f, b)[i] = f[i]
          /\ Append(f, b)[n + 1] = b
      BY <1>1, AppendProperties
    <2>2. Append(f, b) \in [1 .. n + 1 -> Nat]
      BY <2>1, LenProperties
    <2>3. ASSUME NEW i \in 1 .. n + 1
          PROVE  Append(f, b)[i] = IF i = n + 1 THEN b ELSE f[i]
      BY <2>1
    <2>. QED BY <2>2, <2>3
  <1>. QED BY <1>1, <1>2, <1>3

LEMMA QueueLemma ==
  ASSUME PosInv, ByteInv
  PROVE  /\ Len(got) \in Nat /\ wpos \in Nat /\ rpos \in Nat /\ wpos - Len(got) \in Nat
         /\ Queue \in [1 .. wpos - Len(got) -> Nat]
         /\ \A i \in 1 .. wpos - Len(got) : Len(got) + i - 1 \in Nat
  <1>1. Len(got) \in Nat /\ wpos \in Nat /\ rpos \in Nat /\ wpos - Len(got) \in Nat
    BY DEF PosInv, ByteInv
  <1>2. ASSUME NEW i \in 1 .. wpos - Len(got)
        PROVE  Len(got) + i - 1 \in Nat /\ buf[(Len(got) + i - 1) % PIPEBUFSIZ] \in Nat
    <2>1. Len(got) + i - 1 \in Nat
      BY <1>1
    <2>2. (Len(got) + i - 1) % PIPEBUFSIZ \in 0 .. PIPEBUFSIZ - 1
      BY <2>1, PlaceLemma
    <2>. QED BY <2>1, <2>2 DEF PosInv
  <1>. QED BY <1>1, <1>2 DEF Queue

LEMMA HoldsLemma ==
  ASSUME NEW e \in Envs, NEW k \in Slots PROVE FdRefs(fd[e][k]) # {}
  <1>1. <<e, k>> \in FdRefs(fd[e][k])
    BY DEF FdRefs
  <1>. QED BY <1>1

LEMMA QuietMaps ==
  ASSUME Struct, [Next]_vars, UNCHANGED <<wpos, buf, got>>,
         \A d \in Envs : pc'[d] \in GivenUp => pc'[d] = pc[d]
  PROVE  C!Next
  <1>1. GaveUp' \subseteq GaveUp
    BY DEF GaveUp, GivenUp
  <1>2. Queue' = Queue
    BY DEF Queue
  <1>. QED BY <1>1, <1>2, OpenShrinks, CloseMaps DEF CloseStep

(* A byte is stored where none of those waiting is.                         *)
LEMMA WriteByteMaps ==
  ASSUME NEW e \in Envs, Struct, PosInv, ByteInv, [Next]_vars, WriteByte(e)
  PROVE  C!Next
  <1>1. ShapeInv /\ CallOK(e) /\ PosOK(e) /\ "winc" \in Location
    BY DEF Struct, CallInv, PosInv, Location
  <1>2. /\ UNCHANGED <<rpos, wpos, got>> /\ pc[e] = "wstore"
        /\ pc'[e] = "winc" /\ \A d \in Envs \ {e} : pc'[d] = pc[d]
        /\ buf' = [buf EXCEPT ![wpos % PIPEBUFSIZ] = wpos + 1]
    BY <1>1, GotoShape DEF WriteByte
  <1>3. wpos < rpos + PIPEBUFSIZ /\ rpos <= Len(got)
    BY <1>1, <1>2 DEF PosOK, ByteInv
  <1>4. ASSUME NEW i \in 1 .. wpos - Len(got)
        PROVE  buf'[(Len(got) + i - 1) % PIPEBUFSIZ] = buf[(Len(got) + i - 1) % PIPEBUFSIZ]
    <2>1. PICK x \in Nat : x = Len(got) + i - 1
      BY QueueLemma
    <2>2. x < wpos /\ wpos < x + PIPEBUFSIZ
      BY <1>3, <2>1, QueueLemma
    <2>3. x % PIPEBUFSIZ # wpos % PIPEBUFSIZ
      BY <2>2, QueueLemma, PlacesLemma
    <2>4. x % PIPEBUFSIZ \in 0 .. PIPEBUFSIZ - 1
      BY PlaceLemma
    <2>5. buf'[x % PIPEBUFSIZ] = buf[x % PIPEBUFSIZ]
      BY <1>2, <2>3, <2>4 DEF PosInv
    <2>. QED BY <2>1, <2>5
  <1>5. Queue' = Queue
    BY <1>2, <1>4 DEF Queue
  <1>6. GaveUp' \subseteq GaveUp
    BY <1>2 DEF GaveUp
  <1>. QED BY <1>2, <1>5, <1>6, OpenShrinks, CloseMaps DEF CloseStep

LEMMA TakeMaps ==
  ASSUME NEW e \in Envs, Struct, PosInv, ByteInv, ReadByte(e)
  PROVE  C!Take
  <1>1. ShapeInv /\ CallOK(e) /\ PosOK(e) /\ ByteOK(e) /\ "rinc" \in Location
    BY DEF Struct, CallInv, PosInv, ByteInv, Location
  <1>2. /\ UNCHANGED <<fd, wpos, buf>> /\ pc[e] = "rtake"
        /\ pc'[e] = "rinc" /\ \A d \in Envs \ {e} : pc'[d] = pc[d]
        /\ got' = Append(got, buf[rpos % PIPEBUFSIZ])
    BY <1>1, GotoShape DEF ReadByte, fdVars
  <1>3. e = Reader /\ fd[e][Num(e)] = "r" /\ Len(got) = rpos /\ rpos < wpos
    BY <1>1, <1>2 DEF CallOK, PosOK, ByteOK, Reading
  <1>4. "r" \in Open
    BY <1>1, <1>3, NumOld, HoldsLemma DEF Open, Ends
  <1>5. PICK n \in Nat : n = wpos - Len(got) /\ n > 0
    BY <1>3, QueueLemma
  <1>6. /\ Queue # <<>> /\ Head(Queue) = Queue[1]
        /\ Tail(Queue) = [i \in 1 .. n - 1 |-> Queue[i + 1]]
    BY <1>5, QueueLemma, SequenceLemma
  <1>7. Queue[1] = buf[rpos % PIPEBUFSIZ]
    <2>1. 1 \in 1 .. wpos - Len(got) /\ Len(got) + 1 - 1 = rpos
      BY <1>3, <1>5, QueueLemma
    <2>. QED BY <2>1 DEF Queue
  <1>8. Len(got') = Len(got) + 1
    <2>1. buf[rpos % PIPEBUFSIZ] \in Nat /\ got \in Seq(Nat)
      BY <1>3, QueueLemma, PlaceLemma DEF PosInv
    <2>. QED BY <1>2, <2>1
  <1>9. Queue' = Tail(Queue)
    <2>1. Queue' = [i \in 1 .. n - 1 |-> buf[(Len(got) + 1 + i - 1) % PIPEBUFSIZ]]
      <3>1. wpos' - Len(got') = n - 1
        BY <1>2, <1>5, <1>8, QueueLemma
      <3>. QED BY <1>2, <1>8, <3>1 DEF Queue
    <2>2. ASSUME NEW i \in 1 .. n - 1
          PROVE  Queue[i + 1] = buf[(Len(got) + 1 + i - 1) % PIPEBUFSIZ]
      <3>1. i + 1 \in 1 .. wpos - Len(got) /\ Len(got) + (i + 1) - 1 = Len(got) + 1 + i - 1
        BY <1>5, QueueLemma
      <3>. QED BY <3>1 DEF Queue
    <2>. QED BY <1>6, <2>1, <2>2
  <1>10. Open' = Open /\ GaveUp' = GaveUp
    BY <1>2 DEF Open, GaveUp, FdRefs
  <1>. QED BY <1>2, <1>4, <1>6, <1>7, <1>9, <1>10 DEF C!Take, Queue, Open, GaveUp, FdRefs

LEMMA PutMaps ==
  ASSUME NEW e \in Envs, Struct, PosInv, ByteInv, WriteInc(e)
  PROVE  \E b \in 1 .. MaxBytes : C!Put(b)
  <1>1. ShapeInv /\ CallOK(e) /\ PosOK(e) /\ ByteOK(e) /\ "wtest" \in Location
    BY DEF Struct, CallInv, PosInv, ByteInv, Location
  <1>2. /\ UNCHANGED <<fd, got, buf>> /\ pc[e] = "winc" /\ wpos' = wpos + 1
        /\ pc'[e] \in {"idle", "wtest"} /\ \A d \in Envs \ {e} : pc'[d] = pc[d]
    BY <1>1, GotoShape, IdleShape DEF WriteInc, fdVars
  <1>3. /\ fd[e][Num(e)] = "w" /\ wpos < MaxBytes /\ buf[wpos % PIPEBUFSIZ] = wpos + 1
        /\ wpos < rpos + PIPEBUFSIZ /\ rpos <= Len(got)
    BY <1>1, <1>2 DEF CallOK, PosOK, ByteOK, ByteInv, Writing
  <1>4. "w" \in Open
    BY <1>1, <1>3, NumOld, HoldsLemma DEF Open, Ends
  <1>5. PICK n \in Nat : n = wpos - Len(got)
    BY QueueLemma
  <1>6. PICK b \in 1 .. MaxBytes : b = wpos + 1
    BY <1>3, QueueLemma
  <1>7. /\ Len(Queue) = n /\ n < PIPEBUFSIZ
        /\ Append(Queue, b) = [i \in 1 .. n + 1 |-> IF i = n + 1 THEN b ELSE Queue[i]]
    <2>1. Queue \in [1 .. n -> Nat] /\ b \in Nat /\ n < PIPEBUFSIZ
      BY <1>3, <1>5, QueueLemma
    <2>. QED BY <2>1, SequenceLemma
  <1>8. Queue' = Append(Queue, b)
    <2>1. Queue' = [i \in 1 .. n + 1 |-> buf[(Len(got) + i - 1) % PIPEBUFSIZ]]
      <3>1. wpos' - Len(got') = n + 1
        BY <1>2, <1>5, QueueLemma
      <3>. QED BY <1>2, <3>1 DEF Queue
    <2>2. ASSUME NEW i \in 1 .. n + 1
          PROVE  (IF i = n + 1 THEN b ELSE Queue[i]) = buf[(Len(got) + i - 1) % PIPEBUFSIZ]
      <3>1. CASE i = n + 1
        <4>1. Len(got) + i - 1 = wpos
          BY <1>5, <3>1, QueueLemma
        <4>. QED BY <1>3, <1>6, <3>1, <4>1
      <3>2. CASE i # n + 1
        <4>1. i \in 1 .. wpos - Len(got)
          BY <1>5, <3>2
        <4>. QED BY <3>2, <4>1 DEF Queue
      <3>. QED BY <3>1, <3>2
    <2>. QED BY <1>7, <2>1, <2>2
  <1>9. Open' = Open /\ GaveUp' = GaveUp
    BY <1>2 DEF Open, GaveUp, FdRefs
  <1>10. C!Put(b)
    BY <1>2, <1>4, <1>7, <1>8, <1>9 DEF C!Put, Queue, Open, GaveUp, FdRefs
  <1>. QED BY <1>10

(* An operation gives up only when the other end is gone.                   *)
LEMMA GiveUpMaps ==
  ASSUME NEW e \in Envs, Struct, NoFalseEof', [Next]_vars, CheckAgain(e)
  PROVE  C!Next
  <1>1. ShapeInv /\ UNCHANGED <<fdVars, byteVars>> /\ \A d \in Envs \ {e} : pc'[d] = pc[d]
    BY WhereTo DEF CheckAgain, Struct, Library
  <1>2. UNCHANGED <<fd, wpos, buf, got>>
    BY <1>1 DEF fdVars, byteVars
  <1>3. Queue' = Queue /\ Open' = Open
    BY <1>2 DEF Queue, Open, FdRefs
  <1>4. pc[e] \notin GivenUp
    BY DEF CheckAgain, GivenUp
  <1>5. CASE pc'[e] \notin GivenUp
    BY <1>1, <1>2, <1>5, QuietMaps
  <1>6. CASE pc'[e] = "eof"
    <2>1. FdRefs("w") = {}
      BY <1>2, <1>6 DEF NoFalseEof, FdRefs
    <2>2. "w" \notin Open /\ GaveUp' = GaveUp \cup {"r"}
      BY <1>1, <1>4, <1>6, <2>1 DEF Open, GaveUp, Ends, GivenUp
    <2>3. C!GiveUp("r")
      BY <1>2, <1>3, <2>2 DEF C!GiveUp, C!Other, Queue, Open, GaveUp, FdRefs
    <2>. QED BY <2>3 DEF C!Next
  <1>7. CASE pc'[e] = "epipe"
    <2>1. FdRefs("r") = {}
      BY <1>2, <1>7 DEF NoFalseEof, FdRefs
    <2>2. "r" \notin Open /\ GaveUp' = GaveUp \cup {"w"}
      BY <1>1, <1>4, <1>7, <2>1 DEF Open, GaveUp, Ends, GivenUp
    <2>3. C!GiveUp("w")
      BY <1>2, <1>3, <2>2 DEF C!GiveUp, C!Other, Queue, Open, GaveUp, FdRefs
    <2>. QED BY <2>3 DEF C!Next
  <1>. QED BY <1>5, <1>6, <1>7 DEF GivenUp

LEMMA StepMaps ==
  ASSUME Struct, PosInv, ByteInv, NoFalseEof', [Next]_vars
  PROVE  [C!Next]_C!cvars
  <1>0. ShapeInv
    BY DEF Struct
  <1>1. CASE UNCHANGED vars
    BY <1>1 DEF vars, fdVars, byteVars, C!cvars, FdRefs
  <1>2. ASSUME NEW e \in Envs, Dispatch(e) \/ Destroy(e) PROVE C!Next
    <2>1. /\ UNCHANGED byteVars /\ \A d \in Envs \ {e} : pc'[d] = pc[d]
          /\ pc'[e] = pc[e] \/ pc'[e] = "gone"
      BY <1>2, SilentOthers
    <2>. QED BY <2>1, QuietMaps DEF byteVars, GivenUp
  <1>3. ASSUME NEW e \in Envs, UserStep(e) PROVE C!Next
    <2>1. Library(e) \/ Call(e)
      BY <1>3 DEF UserStep
    <2>2. CASE ReadByte(e)
      BY <2>2, TakeMaps DEF C!Next
    <2>3. CASE WriteInc(e)
      BY <2>3, PutMaps DEF C!Next
    <2>4. CASE WriteByte(e)
      BY <2>4, WriteByteMaps
    <2>5. CASE CheckAgain(e)
      BY <2>5, GiveUpMaps
    <2>6. CASE CheckFdRef(e) \/ CheckPipeRef(e) \/ pc'[e] \notin InSnap \cup GivenUp
      <3>1. pc'[e] \notin GivenUp
        BY <1>0, <2>6 DEF CheckFdRef, CheckPipeRef, ShapeInv, GivenUp
      <3>2. \A d \in Envs : pc'[d] \in GivenUp => pc'[d] = pc[d]
        BY <2>1, <3>1, WhereTo
      <3>3. CASE Silent(e) \/ ReadInc(e)
        <4>1. UNCHANGED <<wpos, buf, got>>
          BY <3>3 DEF Silent, byteVars, ReadInc
        <4>. QED BY <3>2, <4>1, QuietMaps
      <3>. QED BY <2>1, <2>2, <2>3, <2>4, <3>3, SilentSteps
    <2>. QED BY <2>1, <2>5, <2>6, WhereTo
  <1>. QED BY <1>1, <1>2, <1>3 DEF Next

LEMMA InitMaps == Init => C!Init
  <1>. SUFFICES ASSUME Init PROVE C!Init
    OBVIOUS
  <1>1. wpos = 0 /\ got = <<>> /\ \A e \in Envs : pc[e] \in {"idle", "gone"}
    BY DEF Init
  <1>2. Queue = <<>>
    BY <1>1 DEF Queue
  <1>3. GaveUp = {}
    BY <1>1 DEF GaveUp
  <1>4. Open = {"r", "w"}
    <2>1. PICK holders \in (SUBSET Envs) \ {{}} :
            fd = [e \in Envs |-> IF e \in holders THEN Holding ELSE Nothing]
      BY DEF Init
    <2>2. PICK e \in holders : e \in Envs
      BY <2>1
    <2>3. fd[e] = Holding
      BY <2>1, <2>2
    <2>4. 0 \in Slots /\ 1 \in Slots /\ Holding[0] = "r" /\ Holding[1] = "w"
      BY DEF Slots, Holding
    <2>. QED BY <2>2, <2>4, <2>3, HoldsLemma DEF Open, Ends
  <1>. QED BY <1>1, <1>2, <1>3, <1>4 DEF C!Init, Queue, Open, GaveUp, FdRefs

(* Pipe implements Channel on one CPU, for any number of environments,      *)
(* descriptors and bytes: what is read is what was written, in order, and    *)
(* neither end gives up while somebody holds the other.                     *)
THEOREM ImplementsChannel == NCPU = 1 => (Spec => ChannelSpec)
  <1>. SUFFICES ASSUME NCPU = 1 PROVE Spec => ChannelSpec
    OBVIOUS
  <1>1. Init => Struct /\ PosInv /\ ByteInv
    BY StructInit, PosInit, ByteInit
  <1>2. Struct /\ PosInv /\ ByteInv /\ [Next]_vars => (Struct /\ PosInv /\ ByteInv)'
    BY StructStep, PosStep, ByteStep
  <1>3. Struct /\ PosInv /\ ByteInv /\ NoFalseEof' /\ [Next]_vars => [C!Next]_C!cvars
    BY StepMaps
  <1>4. Spec => []NoFalseEof
    BY NoFalseEofSafe
  <1>. QED BY <1>1, <1>2, <1>3, <1>4, InitMaps, PTL DEF Spec, ChannelSpec, C!Spec
=============================================================================
