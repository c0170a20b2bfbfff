-------------------------- MODULE ContainerRegistry --------------------------
(***************************************************************************)
(* The process-wide registry of live containers and its two sweeps: the    *)
(* main thread starts and stops containers, a SIGTERM handler interrupts   *)
(* it between any two of its steps, and an atexit hook runs at the end.    *)
(* Both sweeps take _LIVE_LOCK, which is not reentrant; the handler runs   *)
(* on the main thread, which does not go on until the handler returns.     *)
(*                                                                         *)
(* Source: archbench/core/container.py.                                    *)
(***************************************************************************)
EXTENDS FiniteSets

CONSTANT Containers  \* the container names of one process

VARIABLES
    docker,    \* what the engine knows of each name
    registry,  \* _LIVE_CONTAINERS
    lock,      \* holder of _LIVE_LOCK
    main,      \* where the main thread is, and for which container
    handler,   \* where the SIGTERM handler is
    toSweep,   \* names a sweep has still to remove
    stuck,     \* containers whose docker rm -f did not remove them in time
    dropped,   \* containers whose docker run failed or was given up after
               \* docker had created them or while it was at it
    process    \* "alive" or "dead"

leftovers == <<stuck, dropped>>

registryVars ==
    <<docker, registry, lock, main, handler, toSweep, leftovers, process>>

(* A name is creating or removing while docker run or rm works on it, and  *)
(* up as soon as there is a container of that name.                        *)
DockerStates == {"absent", "creating", "up", "removing"}
MainStates == {"idle", "run", "add", "adding", "discard", "discarding", "rm",
               "wait", "sweep", "sweeping"}
Nobody == [at |-> "idle", of |-> {}]
Exists(c) == docker[c] # "absent"

RegistryInit ==
    /\ docker = [c \in Containers |-> "absent"]
    /\ registry = {} /\ lock = "free"
    /\ main = Nobody /\ handler = "off" /\ toSweep = {}
    /\ stuck = {} /\ dropped = {}
    /\ process = "alive"

-----------------------------------------------------------------------------
(* The main thread *)

(* The main thread leaves location from, unless its handler is running.    *)
Go(from, to) ==
    /\ process = "alive" /\ handler = "off"
    /\ main.at = from /\ main' = [main EXCEPT !.at = to]

(* start(): a leftover of the same name is removed, then docker run.  The  *)
(* names carry a uuid: none is used again while docker is at work on it.   *)
StartContainer(c) ==
    /\ process = "alive" /\ handler = "off" /\ main = Nobody
    /\ main' = [at |-> "run", of |-> {c}]
    /\ c \notin registry /\ docker[c] \in {"absent", "up"}
    /\ docker' = [docker EXCEPT ![c] = "creating"]
    /\ stuck' = stuck \ {c} /\ dropped' = dropped \ {c}
    /\ UNCHANGED <<registry, lock, handler, toSweep, process>>

(* docker run returned with the container up.                              *)
RunReturns ==
    /\ Go("run", "add")
    /\ \A c \in main.of : docker[c] = "up"
    /\ UNCHANGED <<docker, registry, lock, handler, toSweep, leftovers, process>>

(* docker run returned an error or ran into its timeout: start() raises,   *)
(* whatever docker has created or goes on to create, and registers nothing. *)
RunFails ==
    /\ process = "alive" /\ handler = "off" /\ main.at = "run" /\ main' = Nobody
    /\ dropped' = dropped \cup {c \in main.of : Exists(c)}
    /\ UNCHANGED <<docker, registry, lock, handler, toSweep, stuck, process>>

Acquire(from, to) ==
    /\ Go(from, to)
    /\ lock = "free" /\ lock' = "main"
    /\ UNCHANGED <<docker, registry, handler, toSweep, leftovers, process>>

(* Mutant: the set is replaced.                                            *)
MutAddName ==
    /\ process = "alive" /\ handler = "off" /\ main.at = "adding" /\ main' = Nobody
    /\ registry' = main.of /\ lock' = "free"
    /\ UNCHANGED <<docker, handler, toSweep, leftovers, process>>

AddName ==
    /\ process = "alive" /\ handler = "off" /\ main.at = "adding" /\ main' = Nobody
    /\ registry' = registry \cup main.of /\ lock' = "free"
    /\ UNCHANGED <<docker, handler, toSweep, leftovers, process>>

(* stop() of a container that was started, or whose start failed: the      *)
(* finally block stops its simulator and its agent in either case.         *)
Stop(c) ==
    /\ process = "alive" /\ handler = "off" /\ main = Nobody
    /\ c \in registry \cup dropped
    /\ main' = [at |-> "discard", of |-> {c}]
    /\ UNCHANGED <<docker, registry, lock, handler, toSweep, leftovers, process>>

(* Mutant: the name stays registered.                                      *)
MutDiscardName ==
    /\ Go("discarding", "rm")
    /\ lock' = "free"
    /\ UNCHANGED <<docker, registry, handler, toSweep, leftovers, process>>

DiscardName ==
    /\ Go("discarding", "rm")
    /\ registry' = registry \ main.of /\ lock' = "free"
    /\ UNCHANGED <<docker, handler, toSweep, leftovers, process>>

(* docker rm -f is started, and may find nothing while docker still        *)
(* creates the container ...                                               *)
RemoveContainer ==
    /\ Go("rm", "wait")
    /\ \/ docker' = [c \in Containers |-> IF c \in main.of /\ Exists(c)
                                          THEN "removing" ELSE docker[c]]
       \/ (\A c \in main.of : docker[c] = "creating") /\ UNCHANGED docker
    /\ UNCHANGED <<registry, lock, handler, toSweep, leftovers, process>>

(* ... and stop() returns when it has ended, or gives up at its timeout.   *)
RemoveReturns ==
    /\ process = "alive" /\ handler = "off" /\ main.at = "wait" /\ main' = Nobody
    /\ stuck' = stuck \cup {c \in main.of : Exists(c)}
    /\ UNCHANGED <<docker, registry, lock, handler, toSweep, dropped, process>>

(* The program ends: the atexit hook sweeps.                               *)
Exit ==
    /\ process = "alive" /\ handler = "off" /\ main = Nobody
    /\ main' = [at |-> "sweep", of |-> {}]
    /\ UNCHANGED <<docker, registry, lock, handler, toSweep, leftovers, process>>

(* The atexit sweep releases the lock before it removes anything.          *)
ExitSnapshot ==
    /\ Go("sweeping", "sweeping")
    /\ lock = "main" /\ lock' = "free" /\ toSweep' = registry
    /\ UNCHANGED <<docker, registry, handler, leftovers, process>>

(* One docker rm -f of a sweep; a timeout is swallowed.                    *)
SweepOne(c) ==
    /\ c \in toSweep /\ toSweep' = toSweep \ {c}
    /\ \/ docker' = [docker EXCEPT ![c] = "absent"] /\ UNCHANGED stuck
       \/ UNCHANGED docker /\ stuck' = stuck \cup {c}
    /\ UNCHANGED <<registry, lock, main, handler, dropped, process>>

ExitSweep ==
    /\ process = "alive" /\ handler = "off" /\ main.at = "sweeping" /\ lock = "free"
    /\ \E c \in toSweep : SweepOne(c)

ExitEnds ==
    /\ process = "alive" /\ handler = "off" /\ main.at = "sweeping" /\ lock = "free"
    /\ toSweep = {} /\ process' = "dead"
    /\ UNCHANGED <<docker, registry, lock, main, handler, toSweep, leftovers>>

MainStep ==
    \/ RunReturns \/ RunFails \/ Acquire("add", "adding") \/ AddName
    \/ Acquire("discard", "discarding") \/ DiscardName
    \/ RemoveContainer \/ RemoveReturns
    \/ Acquire("sweep", "sweeping") \/ ExitSnapshot \/ ExitSweep \/ ExitEnds

-----------------------------------------------------------------------------
(* The SIGTERM handler, on top of the main thread *)

Sigterm ==
    /\ process = "alive" /\ handler = "off" /\ handler' = "sweep"
    /\ UNCHANGED <<docker, registry, lock, main, toSweep, leftovers, process>>

(* The handler takes the lock, copies the registry and releases the lock;  *)
(* a lock the interrupted main thread holds is never released.             *)
HandlerSnapshot ==
    /\ process = "alive" /\ handler = "sweep" /\ handler' = "removing"
    /\ lock = "free" /\ toSweep' = registry
    /\ UNCHANGED <<docker, registry, lock, main, leftovers, process>>

HandlerSweep ==
    /\ process = "alive" /\ handler = "removing"
    /\ \E c \in toSweep : SweepOne(c)

(* Mutant: the default action is not raised again.                         *)
MutDie ==
    /\ process = "alive" /\ handler = "removing" /\ toSweep = {}
    /\ handler' = "off"
    /\ UNCHANGED <<docker, registry, lock, main, toSweep, leftovers, process>>

(* os.kill(os.getpid(), SIGTERM) with the default action.                  *)
Die ==
    /\ process = "alive" /\ handler = "removing" /\ toSweep = {}
    /\ process' = "dead"
    /\ UNCHANGED <<docker, registry, lock, main, handler, toSweep, leftovers>>

HandlerStep == HandlerSnapshot \/ HandlerSweep \/ Die

-----------------------------------------------------------------------------
(* The engine; its commands go on when the process that started them dies  *)

EngineStep(c) ==
    /\ \/ /\ docker[c] = "creating"
          /\ \E s \in {"up", "absent"} : docker' = [docker EXCEPT ![c] = s]
       \/ docker[c] = "removing" /\ docker' = [docker EXCEPT ![c] = "absent"]
    /\ UNCHANGED <<registry, lock, main, handler, toSweep, leftovers, process>>

RegistryNext ==
    \/ \E c \in Containers : StartContainer(c) \/ Stop(c) \/ EngineStep(c)
    \/ Exit \/ MainStep \/ Sigterm \/ HandlerStep

RegistrySpec == RegistryInit /\ [][RegistryNext]_registryVars

(* The main thread and the handler run, and commands of the engine end.    *)
FairRegistrySpec ==
    /\ RegistrySpec
    /\ WF_registryVars(MainStep) /\ WF_registryVars(HandlerStep)
    /\ \A c \in Containers : WF_registryVars(EngineStep(c))

-----------------------------------------------------------------------------
(* Properties *)

RegistryTypeOK ==
    /\ docker \in [Containers -> DockerStates]
    /\ {registry, toSweep, stuck, dropped} \subseteq SUBSET Containers
    /\ lock \in {"free", "main"}
    /\ main \in [at : MainStates, of : SUBSET Containers]
    /\ handler \in {"off", "sweep", "removing"}
    /\ process \in {"alive", "dead"}

(* Between two calls of start and stop the registry is exactly what the    *)
(* engine runs, save containers whose removal was given up and those whose *)
(* start() raised with the container there or on its way: a sweep then     *)
(* misses these and no others.                                             *)
RegistryExact ==
    process = "alive" /\ handler = "off" /\ main = Nobody
        => registry = {c \in Containers : Exists(c)} \ (stuck \cup dropped)

(* A dead process leaves at most the one container behind that its main    *)
(* thread was just starting or stopping, those docker did not remove in    *)
(* time, and those whose start() had raised (container.py:244-260), which  *)
(* were never registered for a sweep.                                      *)
OnlyTransitOrphans ==
    process = "dead" =>
        {c \in Containers : Exists(c)} \subseteq main.of \cup stuck \cup dropped

(* A SIGTERM that does not hit the main thread inside the critical section *)
(* ends the process.                                                       *)
SigtermEnds == (handler = "sweep" /\ lock = "free") ~> (process = "dead")

=============================================================================
