---------------------------- MODULE MCJosKernel -----------------------------
(* Instances of the kernel: a few CPUs and slots; MaxGen = 1, so that every  *)
(* reuse of a slot also reuses its id.                                      *)
EXTENDS JosKernel

\* Bound of the liveness run: a slot is allocated once, so that environments
\* are created and destroyed only finitely often.
NoReuse == \A s \in Slots : gen[s] # 0 /\ status[s] = "FREE" => status'[s] = "FREE"

FiniteForksSpec == Init /\ [][Next /\ NoReuse]_vars /\ Fairness
=============================================================================
