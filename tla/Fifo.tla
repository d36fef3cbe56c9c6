-------------------------------- MODULE Fifo --------------------------------
(***************************************************************************)
(* What a chain of queues promises the host: a bounded first-in first-out  *)
(* channel.  The host's puts carry the labels 0, 1, ..., Labels - 1 in     *)
(* rotation, so that a lost, repeated or overtaken value shows.            *)
(***************************************************************************)
EXTENDS Naturals, Sequences

CONSTANTS Bound,   \* values the channel holds at most
          Labels   \* distinct values, more than Bound

VARIABLES buffer,  \* values put and not yet got
          sent,    \* the label of the next put
          got      \* the label the next get must return

fifoVars == <<buffer, sent, got>>

Init == buffer = <<>> /\ sent = 0 /\ got = 0

Put ==
    /\ Len(buffer) < Bound
    /\ buffer' = Append(buffer, sent)
    /\ sent' = (sent + 1) % Labels
    /\ UNCHANGED got

Get ==
    /\ buffer # <<>>
    /\ Head(buffer) = got
    /\ buffer' = Tail(buffer)
    /\ got' = (got + 1) % Labels
    /\ UNCHANGED sent

Clear == buffer' = <<>> /\ sent' = 0 /\ got' = 0

Next == Put \/ Get \/ Clear

Spec == Init /\ [][Next]_fifoVars
=============================================================================
