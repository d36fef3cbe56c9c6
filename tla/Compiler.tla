------------------------------ MODULE Compiler ------------------------------
(***************************************************************************)
(* The verifiers and passes of the compiler checked together.  Each run    *)
(* follows one of them from an input to its verdict and then executes what *)
(* was accepted:                                                           *)
(*   Contracts     record types, packets, interfaces and protocols;        *)
(*   AddressMaps   address spaces and their maps;                          *)
(*   QueuePorts    queue endpoints and their arbiters;                     *)
(*   Json          canonical JSON, read and written;                       *)
(*   Freeze        the topology freeze and the passes after it;            *)
(*   PlanAudit     the process state plans and their verifier;             *)
(*   ProcessRules  the control flow of a process;                          *)
(*   RuntimeGraph  the lowered hierarchy and its activation plan.          *)
(* They hand over nothing but an accepted file, so one is followed at a    *)
(* time, in as many of the slots s1, s2, ... as it has variables.          *)
(***************************************************************************)
EXTENDS Integers, Sequences, FiniteSets

CONSTANTS
    MaxOffers, MaxOperations,                       \* of Contracts
    MapFiles, Width, MaxRelations,                  \* of AddressMaps
    PortModules, MaxTokens,                         \* of QueuePorts
    Texts, Constructed, LimitSets,                  \* of Json
    FrozenModels, LaterEdits(_), MaxDepth, MaxOwners, MaxCallDepth, MaxCallEdges,   \* of Freeze
    PlannedModels, ChainLength, MaxProcesses, MaxCallees, MaxPcs, MaxSlots,         \* of PlanAudit
    MaxWakes, MaxTransitions, MaxActions, MaxFairness,
    RuleBodies, RuleTypes, RuleLimits, MaxRounds,   \* of ProcessRules
    LoweredDesigns, ReadFiles, MaxObjects, MaxNodes, MaxWork    \* of RuntimeGraph

VARIABLES
    pass,       \* what is followed
    s1, s2, s3, s4, s5, s6, s7, s8, s9

C == INSTANCE ContractsMC WITH
    file <- s1, verdict <- s2, at <- s3, pending <- s4, account <- s5, packed <- s6,
    fields <- s7
A == INSTANCE AddressMaps WITH
    Files <- MapFiles, file <- s1, stage <- s2, why <- s3, entries <- s4, cursor <- s5,
    active <- s6, relations <- s7
Q == INSTANCE QueuePorts WITH
    module <- s1, verdict <- s2, rr <- s3, denied <- s4, requests <- s5, tokens <- s6,
    popped <- s7, pushed <- s8, todo <- s9
J == INSTANCE Json WITH
    phase <- s1, text <- s2, limits <- s3, value <- s4, pending <- s5, spent <- s6,
    output <- s7
F == INSTANCE Freeze WITH
    Models <- FrozenModels, Edits <- LaterEdits, model <- s1, evidence <- s2, frozen <- s3,
    why <- s4
P == INSTANCE PlanAudit WITH
    Models <- PlannedModels, stage <- s1, model <- s2, source <- s3, damage <- s4,
    plans <- s5, at <- s6
R == INSTANCE ProcessRules WITH
    Bodies <- RuleBodies, Types <- RuleTypes,
    process <- s1, stage <- s2, stack <- s3, env <- s4
G == INSTANCE RuntimeGraph WITH
    Designs <- LoweredDesigns, stage <- s1, design <- s2, file <- s3, run <- s4

-----------------------------------------------------------------------------
(* The small instances, written with operators of the modules that do not  *)
(* depend on the constants given here as empty.                            *)

NoEdits(m) == {}
Maps == INSTANCE AddressMaps WITH
    Files <- {}, file <- s1, stage <- s2, why <- s3, entries <- s4, cursor <- s5,
    active <- s6, relations <- s7
Ports == INSTANCE QueuePorts WITH
    PortModules <- {}, module <- s1, verdict <- s2, rr <- s3, denied <- s4, requests <- s5,
    tokens <- s6, popped <- s7, pushed <- s8, todo <- s9
Values == INSTANCE Json WITH
    Texts <- {}, Constructed <- {}, LimitSets <- {}, phase <- s1, text <- s2, limits <- s3,
    value <- s4, pending <- s5, spent <- s6, output <- s7
Topologies == INSTANCE FreezeMC WITH
    Models <- {}, Edits <- NoEdits, model <- s1, evidence <- s2, frozen <- s3, why <- s4
Processes == INSTANCE PlanAuditMC WITH
    Models <- {}, stage <- s1, model <- s2, source <- s3, damage <- s4, plans <- s5,
    at <- s6
Rules == INSTANCE ProcessRulesMC
Graphs == INSTANCE RuntimeGraph WITH
    Designs <- {}, ReadFiles <- {}, stage <- s1, design <- s2, file <- s3, run <- s4

SmallMapFiles == Maps!SmallFiles
SmallPortModules == Ports!SmallPortModules
SmallTexts == Values!SmallTexts
SmallConstructed == Values!SmallConstructed
SmallLimits == Values!SmallLimits
SmallFrozenModels == Topologies!SmallModels
SmallEdits(m) == Topologies!SmallEdits(m)
SmallPlannedModels == Processes!SmallModels
SmallBodies == Rules!SmallProcesses
SmallTypes == Rules!SmallTypes
SmallRuleLimits == Rules!SmallRuleLimits
SmallLoweredDesigns == Graphs!SmallDesigns
SmallReadFiles == Graphs!SmallFiles

-----------------------------------------------------------------------------
\* The shape of a module, as its parser leaves it (ACIROps.td).
ASSUME PortAssumption == Q!PortsWellFormed

Off == "off"

CompilerInit ==
    \/ /\ pass = "contracts" /\ C!Init
       /\ s8 = Off /\ s9 = Off
    \/ /\ pass = "address maps" /\ A!Init
       /\ s8 = Off /\ s9 = Off
    \/ /\ pass = "queue ports" /\ Q!PortsInit
    \/ /\ pass = "json" /\ J!Init
       /\ s8 = Off /\ s9 = Off
    \/ /\ pass = "freeze" /\ F!FreezeInit
       /\ s5 = Off /\ s6 = Off /\ s7 = Off /\ s8 = Off /\ s9 = Off
    \/ /\ pass = "plan audit" /\ P!Init
       /\ s7 = Off /\ s8 = Off /\ s9 = Off
    \/ /\ pass = "process rules" /\ R!RulesInit
       /\ s5 = Off /\ s6 = Off /\ s7 = Off /\ s8 = Off /\ s9 = Off
    \/ /\ pass = "runtime graph" /\ G!GraphInit
       /\ s5 = Off /\ s6 = Off /\ s7 = Off /\ s8 = Off /\ s9 = Off

CompilerNext ==
    \/ pass = "contracts" /\ C!Next /\ UNCHANGED <<pass, s8, s9>>
    \/ pass = "address maps" /\ A!Next /\ UNCHANGED <<pass, s8, s9>>
    \/ pass = "queue ports" /\ Q!PortsNext /\ UNCHANGED <<pass>>
    \/ pass = "json" /\ J!Next /\ UNCHANGED <<pass, s8, s9>>
    \/ pass = "freeze" /\ F!FreezeNext /\ UNCHANGED <<pass, s5, s6, s7, s8, s9>>
    \/ pass = "plan audit" /\ P!Next /\ UNCHANGED <<pass, s7, s8, s9>>
    \/ pass = "process rules" /\ R!RulesNext /\ UNCHANGED <<pass, s5, s6, s7, s8, s9>>
    \/ pass = "runtime graph" /\ G!GraphNext /\ UNCHANGED <<pass, s5, s6, s7, s8, s9>>

CompilerSpec == CompilerInit /\ [][CompilerNext]_<<pass, s1, s2, s3, s4, s5, s6, s7, s8, s9>>

-----------------------------------------------------------------------------
(* Properties *)

\* What the record, interface and protocol verifiers of ACIROps.cpp accept
\* is safe to execute: each packet offered is transferred once or withdrawn
\* (unless a cancel is itself marked transfer), no run ends with an offer
\* pending, a packet's bytes give back the fields that were put in (unless
\* record.create made a big-endian one), and every type has finitely many bytes.
ContractsSound == pass = "contracts" =>
    C!PacketsAccounted /\ C!PendingRunsOn /\ C!PacketsFaithful /\ C!ValuesFinite

\* An address map that ACIRResources.cpp accepts routes every address to at
\* most one entry and translates it inside the target; a map it rejects as
\* overlapping does overlap, although the sweeps never look at single addresses.
AddressMapsSound == pass = "address maps" =>
    A!RoutingUnambiguous /\ A!RejectionsJustified /\ A!AddressesTranslate

\* In a module whose queue endpoints verify, no two operations of an epoch
\* move the same end of a queue, an arbiter grants what its policy says and
\* only what can proceed, and round robin serves every standing request.
QueuePortsSound == pass = "queue ports" =>
    Q!SoleMovers /\ Q!GrantsRight /\ Q!RoundRobinServes

\* The I-JSON reader accepts exactly the texts the grammar and the limits
\* allow, canonical output read and written again is the same text, and the
\* size that is computed beforehand is the size that is written (Binding.cpp).
JsonSound == pass = "json" => J!ScanExact /\ J!CanonicalOnce /\ J!SizeExact

\* A topology that froze is finite and within its limits, connects every flow
\* once on each side in the copies reached through ac.instance (the copies
\* below an array are not visited) and has no cycle without delay; and no later
\* pass can change its owners, connections and process effects without being
\* found out, except by what a called function computes
\* (ModelAnalysis.cpp, FreezeTopology.cpp).
FreezeSound == pass = "freeze" =>
    F!HierarchyBounded /\ F!FlowsLinear /\ F!NothingGoesRound /\ F!FrozenEffectsKept

\* The plan set that ProcessStatePlan.cpp builds calls the right helper for
\* every action, no activation of a process without local loops executes more
\* than the fairness bound allows, processes are found by their key, and the
\* verifier accepts exactly the sets it should and, besides, a local cycle in a
\* plan that is marked as having bounded loops.
PlanAuditSound == pass = "plan audit" =>
    P!HelpersRight /\ P!WorkBounded /\ P!ProcessesFound /\ P!AuditDecides

\* A process that the verifiers accept suspends in every loop that is not
\* statically bounded, advances a trace cursor only along its own source, and
\* uses no linear value across a suspension (ACIROps.cpp, ProcessLowerability.cpp),
\* except a value from outside a loop over the back edge that the verifier's
\* epochs do not follow, or from the before to the after region of an scf.while.
ProcessRulesSound == pass = "process rules" =>
    R!LoopsRest /\ R!CursorsFromSource /\ R!LinearNotAcross

\* The activation plan of a simulator wakes exactly whom a change concerns:
\* the lowering's edges pass the ACSim verifier (unless a port input precedes a
\* flow input), an accepted file has the edges its values mean (unless both
\* edges of a branch enter one block), builds what contains an object before it, and no activation of a process without local
\* loops executes more than the cap (ACIRToACSim.cpp, ACSimOps.cpp).
RuntimeGraphSound == pass = "runtime graph" =>
    G!PlanRight /\ G!LoweringAccepted /\ G!ParentsFirst /\ G!WorkWithinCap
=============================================================================
