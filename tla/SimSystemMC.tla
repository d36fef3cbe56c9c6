---------------------------- MODULE SimSystemMC ----------------------------
(* A process (0), an event queue it consumes (1) and a stateful object (2). *)
EXTENDS SimSystem, TLC

MCKind == (0 :> "Process") @@ (1 :> "EventQueue") @@ (2 :> "Stateful")
MCActivation == (0 :> {0}) @@ (1 :> {0}) @@ (2 :> {0})
Ask(o, d) == [target |-> o, delay |-> d, payload |-> 0]
MCBatches == {<<>>, <<Ask(1, 0)>>, <<Ask(2, 1), Ask(1, 1)>>, <<Ask(2, 1), Ask(1, 0)>>}
LiveBatches == {<<>>, <<Ask(1, 0)>>, <<Ask(0, 1)>>}
LiveKind == (0 :> "Process") @@ (1 :> "EventQueue")
LiveActivation == (0 :> {0}) @@ (1 :> {0})
LiveDomains == << >>
MCDomains == << [period |-> 2, phase |-> 1, limit |-> 0],
                [period |-> 1, phase |-> 0, limit |-> 2] >>
=============================================================================
