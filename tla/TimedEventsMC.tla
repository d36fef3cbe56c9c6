---------------------------- MODULE TimedEventsMC ----------------------------
(* Producers 0 and 1 and consumers 2 and 3 share the event queue 4. *)
EXTENDS TimedEvents, TLC

MCKind == [o \in 0..4 |-> IF o = 4 THEN "EventQueue" ELSE "Process"]
MCActivation == [o \in 0..4 |-> IF o = 4 THEN {2, 3} ELSE {o}]
MCQueueOf == [o \in 0..3 |-> 4]
MCDomains == << >>
MCAsk == [target : {4}, delay : Delays, payload : 0..7]
MCBatches == {<<>>} \cup [1..1 -> MCAsk] \cup [1..2 -> MCAsk]
=============================================================================
