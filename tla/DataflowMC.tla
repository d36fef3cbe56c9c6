----------------------------- MODULE DataflowMC -----------------------------
(***************************************************************************)
(* Two networks.  Pipe: ingress 8 - queue 0 - link 3 - queue 1 - process 4 *)
(* - queue 2 - egress 9.  Shared: ingress 8 - queue 0 - processes 4 and 5  *)
(* - queue 1 - process 6 - queue 2 - egress 9, and egress 10 also takes    *)
(* from queue 1: processes 4 and 5 compete for both their queues, process  *)
(* 6 and egress 10 for the values of queue 1.                              *)
(***************************************************************************)
EXTENDS Dataflow, TLC

PipeFrom == (3 :> 0) @@ (4 :> 1) @@ (9 :> 2)
PipeTo == (3 :> 1) @@ (4 :> 2) @@ (8 :> 0)
PipeEntries == (0 :> 1) @@ (1 :> 2) @@ (2 :> 2)
PipeBytes == (0 :> 2) @@ (1 :> 2) @@ (2 :> 1)

SharedFrom == (4 :> 0) @@ (5 :> 0) @@ (6 :> 1) @@ (9 :> 2) @@ (10 :> 1)
SharedTo == (4 :> 1) @@ (5 :> 1) @@ (6 :> 2) @@ (8 :> 0)
SharedEntries == (0 :> 2) @@ (1 :> 2) @@ (2 :> 2)
SharedBytes == (0 :> 3) @@ (1 :> 2) @@ (2 :> 1)

-----------------------------------------------------------------------------
(* The pipe as a bounded FIFO channel, oldest value first. *)

Box(v) == IF v = Nothing THEN <<>> ELSE <<v>>

Chain == Box(outbox[9]) \o committed[2] \o Box(proc[4].held) \o committed[1]
         \o committed[0] \o Box(inbox[8])

Channel == INSTANCE Fifo WITH
    Bound <- 3 + Room(0) + Room(1) + Room(2), Labels <- Labels,
    buffer <- Chain, sent <- sent, got <- got

\* The chain of queue, link and process is a FIFO channel: every value the
\* host stages reaches it exactly once and in order.
PipeIsFifo == Channel!Spec
=============================================================================
