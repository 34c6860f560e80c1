------------------------------- MODULE Files --------------------------------
(***************************************************************************)
(* What the file system promises its callers: a file is a string of bytes  *)
(* under a name, a call changes the file it names and no other, a byte     *)
(* once written stays until it is overwritten or cut off.  A byte nobody   *)
(* wrote is whatever the disk held: it is settled, for good, by the first  *)
(* call that touches its block.  FileSys implements this.                  *)
(***************************************************************************)
EXTENDS Integers

CONSTANTS
    Names, Byte,
    Unset,       \* a byte no call has touched
    MaxSize,     \* bound of the model: the largest size asked for
    Capacity     \* the bytes a file has blocks for

VARIABLE files   \* the contents of the files that exist, [0 .. size-1 -> Byte \cup {Unset}]

Init == files = [n \in {} |-> 0]

\* What a call makes of the contents c of its file: d.  A byte outside W that
\* has been touched stays.
Kept(c, d, W) == \A i \in (DOMAIN c \cap DOMAIN d) \ W : c[i] # Unset => d[i] = c[i]

SetSize(c, d, size) == DOMAIN d = 0 .. size - 1 /\ Kept(c, d, {})

\* A write past the capacity extends the size and writes what fits.
Write(c, d, range, b) ==
    /\ DOMAIN d = DOMAIN c \cup UNION {0 .. i : i \in range}
    /\ Kept(c, d, range)
    /\ \A i \in range : i < Capacity => d[i] = b

Read(c, d) == DOMAIN d = DOMAIN c /\ Kept(c, d, {})

\* The steps, as relations between the old and the new files: the others stay.
Create(old, new, n) ==
    /\ n \notin DOMAIN old
    /\ DOMAIN new = DOMAIN old \cup {n}
    /\ DOMAIN new[n] = {}

Call(old, new, n) ==
    /\ n \in DOMAIN old
    /\ DOMAIN new = DOMAIN old
    /\ \/ Read(old[n], new[n])
       \/ \E size \in 0 .. MaxSize : SetSize(old[n], new[n], size)
       \/ \E i \in 0 .. MaxSize - 1 : \E j \in i .. MaxSize - 1, b \in Byte :
             Write(old[n], new[n], i .. j, b)

Next == \E old \in {files}, new \in {files'}, n \in Names :
    /\ Create(old, new, n) \/ Call(old, new, n)
    /\ \A m \in DOMAIN old \ {n} : new[m] = old[m]

Spec == Init /\ [][Next]_files
=============================================================================
