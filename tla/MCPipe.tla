------------------------------- MODULE MCPipe -------------------------------
(* Instances of the pipe.                                                   *)
EXTENDS Pipe

Fairness == \A e \in Envs : SF_vars(e \in on /\ Library(e)) /\ SF_vars(Dispatch(e))
FairSpec == Spec /\ Fairness

\* A time slice is longer than one _pipeisclosed.
InCheck(e) == pc[e] \in {"rfdref", "rpipe", "ragain", "wfdref", "wpipe", "wagain"}
LongSlice == \A e \in on : InCheck(e) /\ pc'[e] = pc[e] => e \in on'

(* A read or write that waits returns when the other end is gone (Released  *)
(* of Pipe), once time slices are long enough for _pipeisclosed.            *)
ReleasedInTime == <>[][LongSlice]_vars => Released
=============================================================================
