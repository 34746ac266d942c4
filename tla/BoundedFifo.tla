----------------------------- MODULE BoundedFifo ----------------------------
(***************************************************************************)
(* What a bounded single-producer single-consumer channel promises: the    *)
(* values come out in the order they went in, each once, and at most Usable*)
(* of them are inside.  The k-th value sent is the number k.  A push or a  *)
(* pop that is refused changes nothing; the promise does not say when one  *)
(* may be refused, because each side decides on what it has last seen of   *)
(* the other.                                                              *)
(***************************************************************************)
EXTENDS Naturals, Sequences

CONSTANT Usable

VARIABLES
  chan,   \* the values inside, oldest first
  sent,   \* how many values were pushed
  got     \* the value of the last successful pop, 0 before the first

fifoVars == <<chan, sent, got>>

Init == chan = <<>> /\ sent = 0 /\ got = 0

Send == /\ Len(chan) < Usable
        /\ sent' = sent + 1
        /\ chan' = Append(chan, sent + 1)
        /\ UNCHANGED got

Receive == /\ chan # <<>>
           /\ got' = Head(chan)
           /\ chan' = Tail(chan)
           /\ UNCHANGED sent

Next == Send \/ Receive

Spec == Init /\ [][Next]_fifoVars
=============================================================================
