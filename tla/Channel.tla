------------------------------ MODULE Channel -------------------------------
(***************************************************************************)
(* What a pipe promises: bytes arrive once and in order, never more than   *)
(* Size of them in between; a read reports end of file only when nobody    *)
(* holds the write end any more, a write gives up only when nobody holds   *)
(* the read end.  Pipe implements this.                                    *)
(***************************************************************************)
EXTENDS Naturals, Sequences

CONSTANTS Byte, Size

VARIABLES
    queue,       \* bytes written and not yet read
    delivered,   \* bytes read so far
    open,        \* the ends somebody holds
    gaveUp       \* the ends on which an operation just returned for want of the other

cvars == <<queue, delivered, open, gaveUp>>

Other(end) == IF end = "r" THEN "w" ELSE "r"

Init ==
    /\ queue = <<>>
    /\ delivered = <<>>
    /\ open = {"r", "w"}
    /\ gaveUp = {}

Put(b) ==
    /\ "w" \in open
    /\ Len(queue) < Size
    /\ queue' = Append(queue, b)
    /\ UNCHANGED <<delivered, open, gaveUp>>

Take ==
    /\ "r" \in open
    /\ queue # <<>>
    /\ delivered' = Append(delivered, Head(queue))
    /\ queue' = Tail(queue)
    /\ UNCHANGED <<open, gaveUp>>

\* The last holders of some ends let go of them, for good; and programs go on
\* after an operation that gave up.
Close(ends) ==
    /\ open' = open \ ends
    /\ gaveUp' \in SUBSET gaveUp
    /\ UNCHANGED <<queue, delivered>>

GiveUp(end) ==
    /\ Other(end) \notin open
    /\ gaveUp' = gaveUp \cup {end}
    /\ UNCHANGED <<queue, delivered, open>>

Next ==
    \/ \E b \in Byte : Put(b)
    \/ Take
    \/ \E ends \in SUBSET open : Close(ends)
    \/ \E end \in {"r", "w"} : GiveUp(end)

Spec == Init /\ [][Next]_cvars
=============================================================================
