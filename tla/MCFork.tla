------------------------------- MODULE MCFork -------------------------------
(* Instance of fork and spawn: two slots, so that a child forks in its turn *)
(* once its parent is gone, and one value to store.                         *)
EXTENDS Fork
=============================================================================
