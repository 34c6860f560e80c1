----------------------------- MODULE MCFileSys ------------------------------
(* Instances of the file system.                                            *)
EXTENDS FileSys

\* No action and no property tells the names apart.
SymmetricNames == Permutations(Names)

\* Whatever file's bytes they are, the last block of the disk is named in them.
Stale == [j \in 0 .. BLKFILES - 1 |->
            [name |-> JunkName, size |-> MaxSize,
             direct |-> [i \in 0 .. NDIRECT - 1 |-> NBLOCKS - 1], indirect |-> NBLOCKS - 1]]
=============================================================================
