----------------------------- MODULE LossyFifo ------------------------------
(***************************************************************************)
(* What a pointer queue promises its users: pointers come out in the order *)
(* they went in, each at most once; some of the newest may be dropped.     *)
(* Pointers are numbered as they are put, so the queue is the set of the   *)
(* numbers in it and its order is theirs.                                  *)
(***************************************************************************)
EXTENDS Integers, Sequences

VARIABLES
    last,       \* number of the last pointer put
    queue,      \* put and not yet taken
    out         \* taken

vars == <<last, queue, out>>

Init == last = 0 /\ queue = {} /\ out = <<>>

Put ==
    /\ last' = last + 1
    /\ queue' \in {queue, queue \cup {last + 1}}
    /\ UNCHANGED out

\* the newest pointers are dropped
Drop ==
    /\ \E n \in 0..last : queue' = {p \in queue : p <= n}
    /\ UNCHANGED <<last, out>>

\* the oldest pointer is taken
Take ==
    /\ \E p \in queue :
          /\ \A q \in queue : p <= q
          /\ queue' = queue \ {p}
          /\ out' = Append(out, p)
    /\ UNCHANGED last

Next == Put \/ Drop \/ Take

Spec == Init /\ [][Next]_vars
=============================================================================
