---------------------------- MODULE MCContainers ----------------------------
(* Instances of ContainerRegistry and ImageCache for TLC: two small        *)
(* systems, of which a behaviour has one.                                  *)
EXTENDS ContainerRegistry, ImageCache

CONSTANTS d1, d2, p1, p2

VARIABLE part  \* the system of this behaviour
partVars == <<part, registryVars, vars>>

(* Plain sessions, a reload forced by ARCHBENCH_FORCE_IMAGE_RELOAD in and   *)
(* outside a batch job, and a caller outside one that asks for a digest.   *)
Force == [Plain EXCEPT !.force = TRUE]
ForceAlone == [Force EXCEPT !.batch = FALSE]
AskAlone == [Plain EXCEPT !.expected = d1, !.batch = FALSE]
Mixed == {Plain, Force, ForceAlone, AskAlone}

(* The pairs of requests that are tried, each in one of its two orders.    *)
Tried ==
    {<<Plain, Plain>>, <<Plain, Force>>, <<Force, Force>>, <<Plain, ForceAlone>>,
     <<ForceAlone, ForceAlone>>, <<ForceAlone, AskAlone>>}

MCInit ==
    /\ RegistryInit /\ Init
    /\ \/ part = "registry" /\ local = NoImage /\ tar = NoImage /\ \A p \in Procs : req[p] = Plain
       \/ part = "image" /\ <<req[p1], req[p2]>> \in Tried

InRegistry(A) == part = "registry" /\ A /\ UNCHANGED <<part, vars>>
InImage(A) == part = "image" /\ A /\ UNCHANGED <<part, registryVars>>

MCNext == InRegistry(RegistryNext) \/ InImage(Next)

(* The fairness of the two systems.                                        *)
MCSpec ==
    /\ MCInit /\ [][MCNext]_partVars
    /\ WF_partVars(InRegistry(MainStep)) /\ WF_partVars(InRegistry(HandlerStep))
    /\ \A c \in Containers : WF_partVars(InRegistry(EngineStep(c)))
    /\ \A p \in Procs : WF_partVars(InImage(EnsureStep(p)))

(* Every ensure_image ends, also when a peer fails or dies with the lock.  *)
CallersEnd == part = "image" => EnsureEnds
=============================================================================
