-------------------------- MODULE Containers_proofs --------------------------
(***************************************************************************)
(* Proofs about the containers of a run: what the registry of them misses  *)
(* when the process ends, for any number of containers, and what the flock *)
(* and the second look under it guarantee of the image they are started    *)
(* from, for any number of processes, images and requests.                 *)
(***************************************************************************)
EXTENDS ContainerRegistry, ImageCache, TLAPS

(***************************************************************************)
(* The registry: the two sweeps miss no container but the one the          *)
(* interrupted main thread was starting or stopping, those whose docker rm *)
(* was given up and those whose start() had raised.                        *)
(***************************************************************************)

(* The atexit sweep has taken its copy of the registry.                    *)
Sweeping == main.at = "sweeping" /\ lock = "free"

(* Outside a sweep the registry and the engine differ at most on the       *)
(* container in transit, and there in one way only at each location, and   *)
(* on the leftovers, which no registry holds.                              *)
Left == stuck \cup dropped

ExactInv ==
    /\ main.at \in {"idle", "sweep", "sweeping"} => main.of = {}
    /\ \A c \in Containers \ (main.of \cup Left) : docker[c] \in {"absent", "up"}
    /\ handler # "removing" /\ ~Sweeping =>
         /\ Left \cap registry = {}
         /\ \A c \in Containers \ (main.of \cup Left) :
              Exists(c) <=> c \in registry
         /\ \A c \in main.of :
              /\ main.at \in {"run", "rm", "wait"} => c \notin registry
              /\ main.at \in {"run", "add", "adding"} => c \notin Left
              /\ main.at \in {"add", "adding"} => docker[c] = "up"
              /\ main.at \in {"discard", "discarding"} =>
                   c \in Left \/ docker[c] = "up"

(* During a sweep every other container that exists is still to be removed *)
(* or a leftover.                                                          *)
SweepInv ==
    /\ Sweeping => toSweep \subseteq registry
    /\ handler = "removing" \/ Sweeping =>
         \A c \in Containers : Exists(c) => c \in toSweep \cup main.of \cup Left
    /\ process = "dead" => toSweep = {} /\ (handler = "removing" \/ Sweeping)

RegistryInv == RegistryTypeOK /\ ExactInv /\ SweepInv

-----------------------------------------------------------------------------
(* The invariant holds before any container is started.                    *)
LEMMA RegistryInitInv == RegistryInit => RegistryInv
  BY DEF RegistryInit, RegistryInv, RegistryTypeOK, DockerStates, MainStates,
         Nobody, ExactInv, SweepInv, Sweeping, Exists, Left

(* Every action keeps the variables in their types.                        *)
LEMMA RegistryTypeStep ==
    RegistryTypeOK /\ [RegistryNext]_registryVars => RegistryTypeOK'
<1> SUFFICES ASSUME RegistryTypeOK, [RegistryNext]_registryVars
             PROVE  RegistryTypeOK'
  OBVIOUS
<1> USE DEF RegistryTypeOK, DockerStates, MainStates, Exists, leftovers
<1>1. ASSUME NEW c \in Containers, StartContainer(c) PROVE RegistryTypeOK'
  BY <1>1 DEF StartContainer, Nobody
<1>2. ASSUME NEW c \in Containers, Stop(c) PROVE RegistryTypeOK'
  BY <1>2 DEF Stop, Nobody
<1>3. ASSUME NEW c \in Containers, EngineStep(c) PROVE RegistryTypeOK'
  BY <1>3 DEF EngineStep
<1>4. ASSUME RunReturns PROVE RegistryTypeOK'
  BY <1>4 DEF RunReturns, Go
<1>5. ASSUME RunFails PROVE RegistryTypeOK'
  BY <1>5 DEF RunFails, Nobody
<1>6. ASSUME Acquire("add", "adding") PROVE RegistryTypeOK'
  BY <1>6 DEF Acquire, Go
<1>7. ASSUME AddName PROVE RegistryTypeOK'
  BY <1>7 DEF AddName, Nobody
<1>8. ASSUME Acquire("discard", "discarding") PROVE RegistryTypeOK'
  BY <1>8 DEF Acquire, Go
<1>9. ASSUME DiscardName PROVE RegistryTypeOK'
  BY <1>9 DEF DiscardName, Go
<1>10. ASSUME RemoveContainer PROVE RegistryTypeOK'
  BY <1>10 DEF RemoveContainer, Go
<1>11. ASSUME RemoveReturns PROVE RegistryTypeOK'
  BY <1>11 DEF RemoveReturns, Nobody
<1>12. ASSUME Exit PROVE RegistryTypeOK'
  BY <1>12 DEF Exit, Nobody
<1>13. ASSUME Acquire("sweep", "sweeping") PROVE RegistryTypeOK'
  BY <1>13 DEF Acquire, Go
<1>14. ASSUME ExitSnapshot PROVE RegistryTypeOK'
  BY <1>14 DEF ExitSnapshot, Go
<1>15. ASSUME ExitSweep PROVE RegistryTypeOK'
  BY <1>15 DEF ExitSweep, SweepOne
<1>16. ASSUME ExitEnds PROVE RegistryTypeOK'
  BY <1>16 DEF ExitEnds
<1>17. ASSUME Sigterm PROVE RegistryTypeOK'
  BY <1>17 DEF Sigterm
<1>18. ASSUME HandlerSnapshot PROVE RegistryTypeOK'
  BY <1>18 DEF HandlerSnapshot
<1>19. ASSUME HandlerSweep PROVE RegistryTypeOK'
  BY <1>19 DEF HandlerSweep, SweepOne
<1>20. ASSUME Die PROVE RegistryTypeOK'
  BY <1>20 DEF Die
<1>21. CASE UNCHANGED registryVars
  BY <1>21 DEF registryVars
<1> QED
  BY <1>1, <1>2, <1>3, <1>4, <1>5, <1>6, <1>7, <1>8, <1>9, <1>10, <1>11,
      <1>12, <1>13, <1>14, <1>15, <1>16, <1>17, <1>18, <1>19, <1>20, <1>21
      DEF RegistryNext, MainStep, HandlerStep

(* Every action keeps the registry and the engine in agreement.            *)
LEMMA ExactStep ==
    RegistryTypeOK /\ ExactInv /\ [RegistryNext]_registryVars => ExactInv'
<1> SUFFICES ASSUME RegistryTypeOK, ExactInv, [RegistryNext]_registryVars
             PROVE  ExactInv'
  OBVIOUS
<1> USE DEF RegistryTypeOK, DockerStates, MainStates, ExactInv, Sweeping, Exists,
    Left, leftovers
<1>1. ASSUME NEW c \in Containers, StartContainer(c) PROVE ExactInv'
  BY <1>1 DEF StartContainer, Nobody
<1>2. ASSUME NEW c \in Containers, Stop(c) PROVE ExactInv'
  BY <1>2 DEF Stop, Nobody
<1>3. ASSUME NEW c \in Containers, EngineStep(c) PROVE ExactInv'
  BY <1>3 DEF EngineStep
<1>4. ASSUME RunReturns PROVE ExactInv'
  BY <1>4 DEF RunReturns, Go
<1>5. ASSUME RunFails PROVE ExactInv'
  BY <1>5 DEF RunFails, Nobody
<1>6. ASSUME Acquire("add", "adding") PROVE ExactInv'
  BY <1>6 DEF Acquire, Go
<1>7. ASSUME AddName PROVE ExactInv'
  BY <1>7 DEF AddName, Nobody
<1>8. ASSUME Acquire("discard", "discarding") PROVE ExactInv'
  BY <1>8 DEF Acquire, Go
<1>9. ASSUME DiscardName PROVE ExactInv'
  BY <1>9 DEF DiscardName, Go
<1>10. ASSUME RemoveContainer PROVE ExactInv'
  BY <1>10 DEF RemoveContainer, Go
<1>11. ASSUME RemoveReturns PROVE ExactInv'
  BY <1>11 DEF RemoveReturns, Nobody
<1>12. ASSUME Exit PROVE ExactInv'
  BY <1>12 DEF Exit, Nobody
<1>13. ASSUME Acquire("sweep", "sweeping") PROVE ExactInv'
  BY <1>13 DEF Acquire, Go
<1>14. ASSUME ExitSnapshot PROVE ExactInv'
  BY <1>14 DEF ExitSnapshot, Go
<1>15. ASSUME ExitSweep PROVE ExactInv'
  BY <1>15 DEF ExitSweep, SweepOne
<1>16. ASSUME ExitEnds PROVE ExactInv'
  BY <1>16 DEF ExitEnds
<1>17. ASSUME Sigterm PROVE ExactInv'
  BY <1>17 DEF Sigterm
<1>18. ASSUME HandlerSnapshot PROVE ExactInv'
  BY <1>18 DEF HandlerSnapshot
<1>19. ASSUME HandlerSweep PROVE ExactInv'
  BY <1>19 DEF HandlerSweep, SweepOne
<1>20. ASSUME Die PROVE ExactInv'
  BY <1>20 DEF Die
<1>21. CASE UNCHANGED registryVars
  BY <1>21 DEF registryVars
<1> QED
  BY <1>1, <1>2, <1>3, <1>4, <1>5, <1>6, <1>7, <1>8, <1>9, <1>10, <1>11,
      <1>12, <1>13, <1>14, <1>15, <1>16, <1>17, <1>18, <1>19, <1>20, <1>21
      DEF RegistryNext, MainStep, HandlerStep

(* Every action keeps what a sweep has to remove complete.                 *)
LEMMA SweepStep ==
    RegistryTypeOK /\ ExactInv /\ SweepInv /\ [RegistryNext]_registryVars
    => SweepInv'
<1> SUFFICES ASSUME RegistryTypeOK, ExactInv, SweepInv,
                    [RegistryNext]_registryVars
             PROVE  SweepInv'
  OBVIOUS
<1> USE DEF RegistryTypeOK, DockerStates, MainStates, ExactInv, SweepInv,
    Sweeping, Exists, Left, leftovers
<1>1. ASSUME NEW c \in Containers, StartContainer(c) PROVE SweepInv'
  BY <1>1 DEF StartContainer, Nobody
<1>2. ASSUME NEW c \in Containers, Stop(c) PROVE SweepInv'
  BY <1>2 DEF Stop, Nobody
<1>3. ASSUME NEW c \in Containers, EngineStep(c) PROVE SweepInv'
  BY <1>3 DEF EngineStep
<1>4. ASSUME RunReturns PROVE SweepInv'
  BY <1>4 DEF RunReturns, Go
<1>5. ASSUME RunFails PROVE SweepInv'
  BY <1>5 DEF RunFails, Nobody
<1>6. ASSUME Acquire("add", "adding") PROVE SweepInv'
  BY <1>6 DEF Acquire, Go
<1>7. ASSUME AddName PROVE SweepInv'
  BY <1>7 DEF AddName, Nobody
<1>8. ASSUME Acquire("discard", "discarding") PROVE SweepInv'
  BY <1>8 DEF Acquire, Go
<1>9. ASSUME DiscardName PROVE SweepInv'
  BY <1>9 DEF DiscardName, Go
<1>10. ASSUME RemoveContainer PROVE SweepInv'
  BY <1>10 DEF RemoveContainer, Go
<1>11. ASSUME RemoveReturns PROVE SweepInv'
  BY <1>11 DEF RemoveReturns, Nobody
<1>12. ASSUME Exit PROVE SweepInv'
  BY <1>12 DEF Exit, Nobody
<1>13. ASSUME Acquire("sweep", "sweeping") PROVE SweepInv'
  BY <1>13 DEF Acquire, Go
<1>14. ASSUME ExitSnapshot PROVE SweepInv'
  BY <1>14 DEF ExitSnapshot, Go
<1>15. ASSUME ExitSweep PROVE SweepInv'
  BY <1>15 DEF ExitSweep, SweepOne
<1>16. ASSUME ExitEnds PROVE SweepInv'
  BY <1>16 DEF ExitEnds
<1>17. ASSUME Sigterm PROVE SweepInv'
  BY <1>17 DEF Sigterm
<1>18. ASSUME HandlerSnapshot PROVE SweepInv'
  BY <1>18 DEF HandlerSnapshot
<1>19. ASSUME HandlerSweep PROVE SweepInv'
  BY <1>19 DEF HandlerSweep, SweepOne
<1>20. ASSUME Die PROVE SweepInv'
  BY <1>20 DEF Die
<1>21. CASE UNCHANGED registryVars
  BY <1>21 DEF registryVars
<1> QED
  BY <1>1, <1>2, <1>3, <1>4, <1>5, <1>6, <1>7, <1>8, <1>9, <1>10, <1>11,
      <1>12, <1>13, <1>14, <1>15, <1>16, <1>17, <1>18, <1>19, <1>20, <1>21
      DEF RegistryNext, MainStep, HandlerStep

-----------------------------------------------------------------------------
(* The invariant holds in every reachable state.                           *)
THEOREM RegistryInvariance == RegistrySpec => []RegistryInv
<1>1. RegistryInv /\ [RegistryNext]_registryVars => RegistryInv'
  BY RegistryTypeStep, ExactStep, SweepStep DEF RegistryInv
<1> QED BY RegistryInitInv, <1>1, PTL DEF RegistrySpec

(* The variables of the registry and of the handler keep to their types.   *)
THEOREM RegistryTypeCorrect == RegistrySpec => []RegistryTypeOK
<1>1. RegistryInv => RegistryTypeOK
  BY DEF RegistryInv
<1> QED BY RegistryInvariance, <1>1, PTL

(* A process that ends, normally or by SIGTERM at any point, leaves at     *)
(* most the container its main thread was just starting or stopping, those *)
(* that docker did not remove in time, and those whose start() had raised. *)
THEOREM SweepsAllOthers == RegistrySpec => []OnlyTransitOrphans
<1>1. RegistryInv => OnlyTransitOrphans
  BY DEF RegistryInv, SweepInv, Left, OnlyTransitOrphans
<1> QED BY RegistryInvariance, <1>1, PTL

(* Between two calls the registry is what the engine runs, save what was   *)
(* given up and what start() had raised over.                              *)
THEOREM RegistryIsExact == RegistrySpec => []RegistryExact
<1>1. RegistryInv => RegistryExact
  BY DEF RegistryInv, RegistryTypeOK, ExactInv, Sweeping, Nobody,
         Left, RegistryExact
<1> QED BY RegistryInvariance, <1>1, PTL

(* What a SIGTERM finds is decided when it arrives: while its handler      *)
(* waits nobody touches the lock, and it goes on only if the lock is free. *)
LockIsAsFound ==
    [][process = "alive" /\ handler = "sweep" =>
         /\ process' = "alive" /\ lock' = lock /\ main' = main
         /\ handler' # "sweep" => lock = "free" /\ handler' = "removing"
                                   /\ toSweep' = registry]_registryVars

(* A SIGTERM inside a critical section of the registry is never handled to *)
(* the end, since the lock the handler waits for is its own thread's; any  *)
(* other one takes all that is registered for its sweep                    *)
(* (_signal_cleanup_handler, _cleanup_all_containers).                     *)
THEOREM HandlerMeetsLock == RegistrySpec => LockIsAsFound
<1> DEFINE Kept == /\ process' = "alive" /\ lock' = lock /\ main' = main
                   /\ handler' # "sweep" => lock = "free" /\ handler' = "removing"
                                             /\ toSweep' = registry
<1>1. ASSUME process = "alive", handler = "sweep", [RegistryNext]_registryVars PROVE Kept
  <2>1. CASE HandlerStep
    BY <1>1, <2>1 DEF HandlerStep, HandlerSnapshot, HandlerSweep, SweepOne, Die
  <2>2. ASSUME NEW c \in Containers, EngineStep(c) PROVE Kept
    BY <1>1, <2>2 DEF EngineStep
  <2>3. ~MainStep
    BY <1>1 DEF MainStep, Go, Acquire, RunReturns, RunFails, AddName, DiscardName,
                RemoveContainer, RemoveReturns, ExitSnapshot, ExitSweep, ExitEnds
  <2>4. ~Exit /\ ~Sigterm /\ \A c \in Containers : ~StartContainer(c) /\ ~Stop(c)
    BY <1>1 DEF Exit, Sigterm, StartContainer, Stop
  <2>5. CASE UNCHANGED registryVars
    BY <1>1, <2>5 DEF registryVars
  <2> QED BY <1>1, <2>1, <2>2, <2>3, <2>4, <2>5 DEF RegistryNext
<1> QED BY <1>1, PTL DEF RegistrySpec, LockIsAsFound

-----------------------------------------------------------------------------
(***************************************************************************)
(* The image cache.                                                        *)
(***************************************************************************)

(* The lock is held by whoever is between Lock and the end of its load.    *)
LockInv ==
    \A p \in Procs : at[p] \in {"recheck", "load", "loading"} => flock = p

(* Where nothing is built, inspect answers in time and no load is left to  *)
(* the engine, a load finds no image to replace.                           *)
LoadInv ==
    /\ adrift = {}
    /\ \A p \in Procs :
        /\ at[p] \notin {"build", "built"}
        /\ at[p] \in {"load", "loading"} => local = NoImage

(* The digest with which a process goes on is the one it asked for.        *)
AskedInv ==
    \A p \in Procs : at[p] \in {"run", "ran"} =>
        /\ req[p].expected \in {digest[p], NoImage}
        /\ digest[p] # NoImage

(* Whatever a load may yet bring is as new as the request of anyone who    *)
(* waits for it, or was under way before; and once a forced reload has     *)
(* seen to the image that was there, what it finds is of that kind.        *)
Reach(p) == fresh[p] \cup stale[p]
After == {"find", "lock", "recheck", "load", "loading", "verify", "final",
          "build", "built"}

FreshInv ==
    \A p \in Procs : at[p] # "start" =>
        /\ tar \in fresh[p]
        /\ reading \in Reach(p) \cup {NoImage, WrongTag}
        /\ adrift \subseteq Reach(p)
        /\ req[p].force =>
             /\ at[p] \in After => local \in Reach(p) \cup {NoImage}
             /\ at[p] \in {"run", "ran"} => digest[p] \in Reach(p)

(* Where everybody calls with the image only, nothing is ever removed.     *)
PlainInv ==
    /\ reading = WrongTag => tar = WrongTag
    /\ \A p \in Procs :
        /\ req[p] = Plain
        /\ at[p] \notin {"remove", "build", "built"}
        /\ at[p] = "loading" => reading \in Digests \/ tar = WrongTag
        /\ at[p] = "load" => tar # NoImage
        /\ at[p] = "lock" => tar # NoImage
        /\ at[p] = "recheck" => tar # NoImage
        /\ at[p] = "verify" => local # NoImage \/ tar = WrongTag
        /\ at[p] = "final" => local # NoImage
        /\ at[p] = "run" => local # NoImage /\ digest[p] = local
        /\ at[p] = "ran" => ran[p] = digest[p]
        /\ why[p] \in {"stale", "no_digest"} => tar = WrongTag

Inv ==
    /\ TypeOK /\ LockInv /\ AskedInv /\ FreshInv
    /\ Calm => LoadInv
    /\ AllPlain => PlainInv

-----------------------------------------------------------------------------
(* The invariant holds before anyone asks for the image.                   *)
LEMMA InitInv == Init => Inv
<1> SUFFICES ASSUME Init PROVE Inv
  OBVIOUS
<1>1. TypeOK
  BY DEF Init, TypeOK, Steps, Ends, Reasons
<1>2. LockInv /\ AskedInv /\ LoadInv /\ FreshInv
  BY DEF Init, LockInv, AskedInv, LoadInv, FreshInv
<1>3. AllPlain => PlainInv
  BY CacheAssumption DEF Init, PlainInv, AllPlain
<1> QED BY <1>1, <1>2, <1>3 DEF Inv

(* Requests are fixed, and what went wrong with docker is not forgotten.   *)
LEMMA CalmKept ==
    [Next]_vars => req' = req /\ (calm' => calm)
<1> SUFFICES ASSUME [Next]_vars PROVE req' = req /\ (calm' => calm)
  OBVIOUS
<1> QED
  BY DEF Next, EnsureStep, vars, engineVars, Start, Inspect, Remove, Find, Lock,
     Recheck, LoadBegins, LoadEnds, Abandon, Verify, Final, Settle, Build, Built,
     Run, Dies, Publish, EngineLoads, Answers

(* What is true of all processes and of docker now was true before.        *)
LEMMA CalmStep ==
    [Next]_vars => (Calm' => Calm) /\ (AllPlain' => AllPlain)
  BY CalmKept DEF Calm, AllPlain

(* Every action keeps the variables in their types.                        *)
LEMMA TypeStep ==
    TypeOK /\ [Next]_vars => TypeOK'
<1> SUFFICES ASSUME TypeOK, [Next]_vars
             PROVE  TypeOK'
  OBVIOUS
<1> USE CacheAssumption DEF TypeOK, Goto, Fail, Steps, Ends, Reasons, engineVars,
    history
<1>1. ASSUME NEW p \in Procs, Start(p) PROVE TypeOK'
  BY <1>1 DEF Start
<1>2. ASSUME NEW p \in Procs, Inspect(p) PROVE TypeOK'
  <2>1. PICK found \in Digests \cup {NoImage} :
         /\ Answers(found)
         /\ digest' = [digest EXCEPT ![p] = found]
         /\ \/ found = NoImage /\ Goto(p, "find") /\ Keep(p, local)
            \/ found # NoImage /\ Suits(p, found) /\ Goto(p, "run")
               /\ UNCHANGED history
            \/ found # NoImage /\ ~Suits(p, found) /\ Goto(p, "remove")
               /\ UNCHANGED history
    BY <1>2 DEF Inspect
  <2>2. digest' \in [Procs -> Digests \cup {NoImage}]
    BY <2>1
  <2>3. at' \in [Procs -> Steps \cup Ends] /\ UNCHANGED why
    BY <2>1
  <2>4. {fresh', stale'} \subseteq [Procs -> SUBSET (Digests \cup {NoImage, WrongTag})]
    BY <2>1 DEF Keep
  <2>5. calm' \in BOOLEAN
    BY <2>1 DEF Answers
  <2>6. UNCHANGED <<engineVars, tar, flock, req, ran>>
    BY <1>2 DEF Inspect
  <2> QED BY <2>2, <2>3, <2>4, <2>5, <2>6
<1>3. ASSUME NEW p \in Procs, Remove(p) PROVE TypeOK'
  BY <1>3 DEF Remove, Keep
<1>4. ASSUME NEW p \in Procs, Find(p) PROVE TypeOK'
  BY <1>4 DEF Find
<1>5. ASSUME NEW p \in Procs, Lock(p) PROVE TypeOK'
  BY <1>5 DEF Lock
<1>6. ASSUME NEW p \in Procs, Recheck(p) PROVE TypeOK'
  BY <1>6 DEF Recheck, Answers
<1>7. ASSUME NEW p \in Procs, LoadBegins(p) PROVE TypeOK'
  BY <1>7 DEF LoadBegins
<1>8. ASSUME NEW p \in Procs, LoadEnds(p) PROVE TypeOK'
  BY <1>8 DEF LoadEnds, Abandon
<1>9. ASSUME NEW p \in Procs, Verify(p) PROVE TypeOK'
  BY <1>9 DEF Verify, Answers
<1>10. ASSUME NEW p \in Procs, Final(p) PROVE TypeOK'
  <2>1. at[p] = "final"
    BY <1>10 DEF Final
  <2>2. PICK found \in Digests \cup {NoImage} :
         /\ Answers(found)
         /\ digest' = [digest EXCEPT ![p] = found]
         /\ \/ found = NoImage /\ Fail(p, "no_digest")
            \/ /\ found # NoImage /\ req[p].expected \in {found, NoImage}
               /\ Goto(p, "run")
            \/ /\ found # NoImage /\ req[p].expected \notin {found, NoImage}
               /\ Fail(p, "mismatch")
    BY <1>10 DEF Final, Settle
  <2>3. UNCHANGED <<engineVars, tar, flock, req, ran, history>>
    BY <1>10 DEF Final, Settle
  <2>4. calm' \in BOOLEAN
    BY <2>2 DEF Answers
  <2> QED BY <2>1, <2>2, <2>3, <2>4
<1>11. ASSUME NEW p \in Procs, Build(p) PROVE TypeOK'
  <2>1. fresh' \in [Procs -> SUBSET (Digests \cup {NoImage, WrongTag})]
    <3>1. CASE local' \in Digests /\ Freshen(local')
      BY <3>1 DEF Freshen
    <3>2. CASE UNCHANGED fresh
      BY <3>2
    <3> QED BY <1>11, <3>1, <3>2 DEF Build
  <2>2. local' \in Digests \cup {NoImage}
    BY <1>11 DEF Build
  <2>3. at' \in [Procs -> Steps \cup Ends] /\ why' \in [Procs -> Reasons]
    BY <1>11 DEF Build
  <2> QED BY <1>11, <2>1, <2>2, <2>3 DEF Build
<1>12. ASSUME NEW p \in Procs, Built(p) PROVE TypeOK'
  <2>1. at[p] = "built"
    BY <1>12 DEF Built
  <2>2. PICK found \in Digests \cup {NoImage} :
         /\ Answers(found)
         /\ digest' = [digest EXCEPT ![p] = found]
         /\ \/ found = NoImage /\ Fail(p, "not_found")
            \/ /\ found # NoImage /\ req[p].expected \in {found, NoImage}
               /\ Goto(p, "run")
            \/ /\ found # NoImage /\ req[p].expected \notin {found, NoImage}
               /\ Fail(p, "mismatch")
    BY <1>12 DEF Built, Settle
  <2>3. UNCHANGED <<engineVars, tar, flock, req, ran, history>>
    BY <1>12 DEF Built, Settle
  <2>4. calm' \in BOOLEAN
    BY <2>2 DEF Answers
  <2> QED BY <2>1, <2>2, <2>3, <2>4
<1>13. ASSUME NEW p \in Procs, Run(p) PROVE TypeOK'
  BY <1>13 DEF Run
<1>14. ASSUME NEW p \in Procs, Dies(p) PROVE TypeOK'
  BY <1>14 DEF Dies, Abandon
<1>15. ASSUME NEW image \in Digests, EngineLoads(image) PROVE TypeOK'
  BY <1>15 DEF EngineLoads
<1>16. ASSUME Publish PROVE TypeOK'
  BY <1>16 DEF Publish, Freshen
<1>17. CASE UNCHANGED vars
  BY <1>17 DEF vars
<1> QED
  BY <1>1, <1>2, <1>3, <1>4, <1>5, <1>6, <1>7, <1>8, <1>9,
     <1>10, <1>11, <1>12, <1>13, <1>14, <1>15, <1>16, <1>17
     DEF Next, EnsureStep

(* Every action keeps the flock with its holder.                           *)
LEMMA LockStep ==
    TypeOK /\ LockInv /\ [Next]_vars => LockInv'
<1> SUFFICES ASSUME TypeOK, LockInv, [Next]_vars
             PROVE  LockInv'
  OBVIOUS
<1> USE CacheAssumption DEF TypeOK, Goto, Fail, LockInv, engineVars, history
<1>1. ASSUME NEW p \in Procs, Start(p) PROVE LockInv'
  BY <1>1 DEF Start
<1>2. ASSUME NEW p \in Procs, Inspect(p) PROVE LockInv'
  BY <1>2 DEF Inspect, Suits, Answers, Keep
<1>3. ASSUME NEW p \in Procs, Remove(p) PROVE LockInv'
  BY <1>3 DEF Remove, Keep
<1>4. ASSUME NEW p \in Procs, Find(p) PROVE LockInv'
  BY <1>4 DEF Find
<1>5. ASSUME NEW p \in Procs, Lock(p) PROVE LockInv'
  BY <1>5 DEF Lock
<1>6. ASSUME NEW p \in Procs, Recheck(p) PROVE LockInv'
  BY <1>6 DEF Recheck, Answers
<1>7. ASSUME NEW p \in Procs, LoadBegins(p) PROVE LockInv'
  BY <1>7 DEF LoadBegins
<1>8. ASSUME NEW p \in Procs, LoadEnds(p) PROVE LockInv'
  BY <1>8 DEF LoadEnds, Abandon
<1>9. ASSUME NEW p \in Procs, Verify(p) PROVE LockInv'
  BY <1>9 DEF Verify, Answers
<1>10. ASSUME NEW p \in Procs, Final(p) PROVE LockInv'
  BY <1>10 DEF Final, Settle, Answers
<1>11. ASSUME NEW p \in Procs, Build(p) PROVE LockInv'
  BY <1>11 DEF Build, Freshen
<1>12. ASSUME NEW p \in Procs, Built(p) PROVE LockInv'
  BY <1>12 DEF Built, Settle, Answers
<1>13. ASSUME NEW p \in Procs, Run(p) PROVE LockInv'
  BY <1>13 DEF Run
<1>14. ASSUME NEW p \in Procs, Dies(p) PROVE LockInv'
  BY <1>14 DEF Dies, Abandon
<1>15. ASSUME NEW image \in Digests, EngineLoads(image) PROVE LockInv'
  BY <1>15 DEF EngineLoads
<1>16. ASSUME Publish PROVE LockInv'
  BY <1>16 DEF Publish, Freshen
<1>17. CASE UNCHANGED vars
  BY <1>17 DEF vars
<1> QED
  BY <1>1, <1>2, <1>3, <1>4, <1>5, <1>6, <1>7, <1>8, <1>9,
     <1>10, <1>11, <1>12, <1>13, <1>14, <1>15, <1>16, <1>17
     DEF Next, EnsureStep

(* Every action keeps processes to the digest they asked for.              *)
LEMMA AskedStep ==
    TypeOK /\ AskedInv /\ [Next]_vars => AskedInv'
<1> SUFFICES ASSUME TypeOK, AskedInv, [Next]_vars
             PROVE  AskedInv'
  OBVIOUS
<1> USE CacheAssumption DEF TypeOK, Goto, Fail, AskedInv, engineVars, history
<1>1. ASSUME NEW p \in Procs, Start(p) PROVE AskedInv'
  BY <1>1 DEF Start
<1>2. ASSUME NEW p \in Procs, Inspect(p) PROVE AskedInv'
  BY <1>2 DEF Inspect, Suits, Answers, Keep
<1>3. ASSUME NEW p \in Procs, Remove(p) PROVE AskedInv'
  BY <1>3 DEF Remove, Keep
<1>4. ASSUME NEW p \in Procs, Find(p) PROVE AskedInv'
  BY <1>4 DEF Find
<1>5. ASSUME NEW p \in Procs, Lock(p) PROVE AskedInv'
  BY <1>5 DEF Lock
<1>6. ASSUME NEW p \in Procs, Recheck(p) PROVE AskedInv'
  BY <1>6 DEF Recheck, Answers
<1>7. ASSUME NEW p \in Procs, LoadBegins(p) PROVE AskedInv'
  BY <1>7 DEF LoadBegins
<1>8. ASSUME NEW p \in Procs, LoadEnds(p) PROVE AskedInv'
  BY <1>8 DEF LoadEnds, Abandon
<1>9. ASSUME NEW p \in Procs, Verify(p) PROVE AskedInv'
  BY <1>9 DEF Verify, Answers
<1>10. ASSUME NEW p \in Procs, Final(p) PROVE AskedInv'
  BY <1>10 DEF Final, Settle, Answers
<1>11. ASSUME NEW p \in Procs, Build(p) PROVE AskedInv'
  BY <1>11 DEF Build, Freshen
<1>12. ASSUME NEW p \in Procs, Built(p) PROVE AskedInv'
  BY <1>12 DEF Built, Settle, Answers
<1>13. ASSUME NEW p \in Procs, Run(p) PROVE AskedInv'
  BY <1>13 DEF Run
<1>14. ASSUME NEW p \in Procs, Dies(p) PROVE AskedInv'
  BY <1>14 DEF Dies, Abandon
<1>15. ASSUME NEW image \in Digests, EngineLoads(image) PROVE AskedInv'
  BY <1>15 DEF EngineLoads
<1>16. ASSUME Publish PROVE AskedInv'
  BY <1>16 DEF Publish, Freshen
<1>17. CASE UNCHANGED vars
  BY <1>17 DEF vars
<1> QED
  BY <1>1, <1>2, <1>3, <1>4, <1>5, <1>6, <1>7, <1>8, <1>9,
     <1>10, <1>11, <1>12, <1>13, <1>14, <1>15, <1>16, <1>17
     DEF Next, EnsureStep

(* Every action keeps loads from replacing an image.                       *)
LEMMA LoadStep ==
    TypeOK /\ LockInv /\ LoadInv /\ Calm' /\ [Next]_vars => LoadInv'
<1> SUFFICES ASSUME TypeOK, LockInv, LoadInv, Calm', [Next]_vars
             PROVE  LoadInv'
  OBVIOUS
<1>0. calm' /\ \A p \in Procs : req[p].batch
  BY CalmKept DEF Calm
<1> USE CacheAssumption, <1>0 DEF TypeOK, Goto, Fail, LockInv, LoadInv,
    engineVars, history
<1>1. ASSUME NEW p \in Procs, Start(p) PROVE LoadInv'
  BY <1>1 DEF Start
<1>2. ASSUME NEW p \in Procs, Inspect(p) PROVE LoadInv'
  BY <1>2 DEF Inspect, Suits, Answers, Keep
<1>3. ASSUME NEW p \in Procs, Remove(p) PROVE LoadInv'
  BY <1>3 DEF Remove, Keep
<1>4. ASSUME NEW p \in Procs, Find(p) PROVE LoadInv'
  BY <1>4 DEF Find
<1>5. ASSUME NEW p \in Procs, Lock(p) PROVE LoadInv'
  BY <1>5 DEF Lock
<1>6. ASSUME NEW p \in Procs, Recheck(p) PROVE LoadInv'
  BY <1>6 DEF Recheck, Answers
<1>7. ASSUME NEW p \in Procs, LoadBegins(p) PROVE LoadInv'
  BY <1>7 DEF LoadBegins
<1>8. ASSUME NEW p \in Procs, LoadEnds(p) PROVE LoadInv'
  BY <1>8 DEF LoadEnds, Abandon
<1>9. ASSUME NEW p \in Procs, Verify(p) PROVE LoadInv'
  BY <1>9 DEF Verify, Answers
<1>10. ASSUME NEW p \in Procs, Final(p) PROVE LoadInv'
  BY <1>10 DEF Final, Settle, Answers
<1>11. ASSUME NEW p \in Procs, Build(p) PROVE LoadInv'
  BY <1>11 DEF Build, Freshen
<1>12. ASSUME NEW p \in Procs, Built(p) PROVE LoadInv'
  BY <1>12 DEF Built, Settle, Answers
<1>13. ASSUME NEW p \in Procs, Run(p) PROVE LoadInv'
  BY <1>13 DEF Run
<1>14. ASSUME NEW p \in Procs, Dies(p) PROVE LoadInv'
  BY <1>14 DEF Dies, Abandon
<1>15. ASSUME NEW image \in Digests, EngineLoads(image) PROVE LoadInv'
  BY <1>15 DEF EngineLoads
<1>16. ASSUME Publish PROVE LoadInv'
  BY <1>16 DEF Publish, Freshen
<1>17. CASE UNCHANGED vars
  BY <1>17 DEF vars
<1> QED
  BY <1>1, <1>2, <1>3, <1>4, <1>5, <1>6, <1>7, <1>8, <1>9,
     <1>10, <1>11, <1>12, <1>13, <1>14, <1>15, <1>16, <1>17
     DEF Next, EnsureStep

(* Every action keeps forced reloads fresh.                                *)
LEMMA FreshStep ==
    TypeOK /\ FreshInv /\ [Next]_vars => FreshInv'
<1> SUFFICES ASSUME TypeOK, FreshInv, [Next]_vars
             PROVE  FreshInv'
  OBVIOUS
<1> USE CacheAssumption DEF TypeOK, Goto, Fail, FreshInv, Reach, After,
    engineVars, history
<1>1. ASSUME NEW p \in Procs, Start(p) PROVE FreshInv'
  <2>1. fresh'[p] = {tar} /\ stale'[p] = adrift \cup ({reading} \cap Digests)
    BY <1>1 DEF Start
  <2>2. at'[p] = "inspect" /\ UNCHANGED <<engineVars, tar, req, digest>>
    BY <1>1 DEF Start
  <2>3. \A q \in Procs \ {p} : /\ at'[q] = at[q] /\ fresh'[q] = fresh[q]
                              /\ stale'[q] = stale[q]
    BY <1>1 DEF Start
  <2> QED BY <2>1, <2>2, <2>3
<1>2. ASSUME NEW p \in Procs, Inspect(p) PROVE FreshInv'
  BY <1>2 DEF Inspect, Suits, Answers, Keep
<1>3. ASSUME NEW p \in Procs, Remove(p) PROVE FreshInv'
  BY <1>3 DEF Remove, Keep
<1>4. ASSUME NEW p \in Procs, Find(p) PROVE FreshInv'
  BY <1>4 DEF Find
<1>5. ASSUME NEW p \in Procs, Lock(p) PROVE FreshInv'
  BY <1>5 DEF Lock
<1>6. ASSUME NEW p \in Procs, Recheck(p) PROVE FreshInv'
  BY <1>6 DEF Recheck, Answers
<1>7. ASSUME NEW p \in Procs, LoadBegins(p) PROVE FreshInv'
  BY <1>7 DEF LoadBegins
<1>8. ASSUME NEW p \in Procs, LoadEnds(p) PROVE FreshInv'
  BY <1>8 DEF LoadEnds, Abandon
<1>9. ASSUME NEW p \in Procs, Verify(p) PROVE FreshInv'
  BY <1>9 DEF Verify, Answers
<1>10. ASSUME NEW p \in Procs, Final(p) PROVE FreshInv'
  BY <1>10 DEF Final, Settle, Answers
<1>11. ASSUME NEW p \in Procs, Build(p) PROVE FreshInv'
  BY <1>11 DEF Build, Freshen
<1>12. ASSUME NEW p \in Procs, Built(p) PROVE FreshInv'
  BY <1>12 DEF Built, Settle, Answers
<1>13. ASSUME NEW p \in Procs, Run(p) PROVE FreshInv'
  BY <1>13 DEF Run
<1>14. ASSUME NEW p \in Procs, Dies(p) PROVE FreshInv'
  BY <1>14 DEF Dies, Abandon
<1>15. ASSUME NEW image \in Digests, EngineLoads(image) PROVE FreshInv'
  BY <1>15 DEF EngineLoads
<1>16. ASSUME Publish PROVE FreshInv'
  BY <1>16 DEF Publish, Freshen
<1>17. CASE UNCHANGED vars
  BY <1>17 DEF vars
<1> QED
  BY <1>1, <1>2, <1>3, <1>4, <1>5, <1>6, <1>7, <1>8, <1>9,
     <1>10, <1>11, <1>12, <1>13, <1>14, <1>15, <1>16, <1>17
     DEF Next, EnsureStep

(* Every action of plain callers keeps the image in place.                 *)
LEMMA PlainStep ==
    TypeOK /\ LockInv /\ LoadInv /\ PlainInv /\ AllPlain' /\ [Next]_vars => PlainInv'
<1> SUFFICES ASSUME TypeOK, LockInv, LoadInv, PlainInv, AllPlain', [Next]_vars
             PROVE  PlainInv'
  OBVIOUS
<1>0. calm'
  BY DEF AllPlain, Calm
<1> USE CacheAssumption, <1>0 DEF TypeOK, Goto, Fail, LockInv, LoadInv,
    PlainInv, Plain, engineVars, history
<1>1. ASSUME NEW p \in Procs, Start(p) PROVE PlainInv'
  BY <1>1 DEF Start
<1>2. ASSUME NEW p \in Procs, Inspect(p) PROVE PlainInv'
  BY <1>2 DEF Inspect, Suits, Answers, Keep
<1>3. ASSUME NEW p \in Procs, Remove(p) PROVE PlainInv'
  BY <1>3 DEF Remove, Keep
<1>4. ASSUME NEW p \in Procs, Find(p) PROVE PlainInv'
  BY <1>4 DEF Find
<1>5. ASSUME NEW p \in Procs, Lock(p) PROVE PlainInv'
  BY <1>5 DEF Lock
<1>6. ASSUME NEW p \in Procs, Recheck(p) PROVE PlainInv'
  BY <1>6 DEF Recheck, Answers
<1>7. ASSUME NEW p \in Procs, LoadBegins(p) PROVE PlainInv'
  BY <1>7 DEF LoadBegins
<1>8. ASSUME NEW p \in Procs, LoadEnds(p) PROVE PlainInv'
  <2>1. /\ at[p] = "loading" /\ reading' = NoImage /\ local = NoImage
        /\ UNCHANGED <<tar, req, digest, ran>>
    BY <1>8 DEF LoadEnds
  <2>2. \A q \in Procs \ {p} :
          /\ at[q] \notin {"final", "run"}
          /\ at[q] = "verify" => tar = WrongTag
    BY <2>1
  <2>3. CASE Fail(p, "load") /\ UNCHANGED local
    BY <2>1, <2>2, <2>3
  <2>4. CASE Goto(p, "verify")
             /\ local' = IF reading \in Digests THEN reading ELSE local
    BY <2>1, <2>2, <2>4
  <2> QED BY <1>8, <2>3, <2>4 DEF LoadEnds
<1>9. ASSUME NEW p \in Procs, Verify(p) PROVE PlainInv'
  BY <1>9 DEF Verify, Answers
<1>10. ASSUME NEW p \in Procs, Final(p) PROVE PlainInv'
  BY <1>10 DEF Final, Settle, Answers
<1>11. ASSUME NEW p \in Procs, Build(p) PROVE PlainInv'
  BY <1>11 DEF Build, Freshen
<1>12. ASSUME NEW p \in Procs, Built(p) PROVE PlainInv'
  BY <1>12 DEF Built, Settle, Answers
<1>13. ASSUME NEW p \in Procs, Run(p) PROVE PlainInv'
  BY <1>13 DEF Run
<1>14. ASSUME NEW p \in Procs, Dies(p) PROVE PlainInv'
  BY <1>14 DEF Dies, Abandon
<1>15. ASSUME NEW image \in Digests, EngineLoads(image) PROVE PlainInv'
  BY <1>15 DEF EngineLoads
<1>16. ASSUME Publish PROVE PlainInv'
  BY <1>16 DEF Publish, Freshen
<1>17. CASE UNCHANGED vars
  BY <1>17 DEF vars
<1> QED
  BY <1>1, <1>2, <1>3, <1>4, <1>5, <1>6, <1>7, <1>8, <1>9,
     <1>10, <1>11, <1>12, <1>13, <1>14, <1>15, <1>16, <1>17
     DEF Next, EnsureStep

-----------------------------------------------------------------------------
(* The invariant is kept by every step.                                    *)
LEMMA Step == Inv /\ [Next]_vars => Inv'
<1> SUFFICES ASSUME Inv, [Next]_vars PROVE Inv'
  OBVIOUS
<1>1. TypeOK' /\ LockInv' /\ AskedInv' /\ FreshInv'
  BY TypeStep, LockStep, AskedStep, FreshStep DEF Inv
<1>2. Calm' => LoadInv'
  BY CalmStep, LoadStep DEF Inv
<1>3. AllPlain' => PlainInv'
  BY CalmStep, PlainStep DEF Inv, AllPlain
<1> QED BY <1>1, <1>2, <1>3 DEF Inv

(* The invariant holds in every reachable state.                           *)
THEOREM Invariance == Spec => []Inv
  BY InitInv, Step, PTL DEF Spec

(* Every variable keeps to its type.                                       *)
THEOREM TypeCorrect == Spec => []TypeOK
<1>1. Inv => TypeOK
  BY DEF Inv
<1> QED BY Invariance, <1>1, PTL

(* Whoever asked for a digest goes on with that digest or not at all,      *)
(* whatever the peers do and however the commands fail.                    *)
THEOREM AskedOrFails == Spec => []ExpectedOrFails
<1>1. Inv => ExpectedOrFails
  BY DEF Inv, AskedInv, ExpectedOrFails
<1> QED BY Invariance, <1>1, PTL

(* A forced reload returns what the tarball held, or a build made, since   *)
(* it began, or one of the older images the code leaves within its reach.  *)
THEOREM ReloadsAreFresh == Spec => []ForcedIsFresh
<1>1. Inv => ForcedIsFresh
  BY DEF Inv, FreshInv, Reach, ForcedIsFresh
<1> QED BY Invariance, <1>1, PTL

(* Among plain callers each process runs the image whose digest it was     *)
(* given, and a tarball called stale is one of another tag.                *)
THEOREM PlainCallersAgree == Spec => []PlainUndisturbed
<1>1. Inv => PlainUndisturbed
  BY DEF Inv, PlainInv, PlainUndisturbed
<1> QED BY Invariance, <1>1, PTL

(* A loaded image is never replaced by a load: the flock and the second    *)
(* look under it serialize the loaders.                                    *)
THEOREM LoadsNeverReplace == Spec => NeverReplaced
<1>1. Inv /\ [Next]_vars =>
        [Calm => local' = local \/ NoImage \in {local, local'}]_vars
  <2> SUFFICES ASSUME Inv, [Next]_vars, Calm
               PROVE  local' = local \/ NoImage \in {local, local'}
    OBVIOUS
  <2>1. LockInv /\ LoadInv /\ TypeOK /\ \A p \in Procs : req[p].batch
    BY DEF Inv, Calm
  <2> QED
    BY <2>1 DEF Next, EnsureStep, vars, LoadInv, Start, Inspect, Remove, Find,
       Lock, Recheck, LoadBegins, LoadEnds, Verify, Final, Settle, Build, Built,
       Run, Dies, EngineLoads, Publish, engineVars
<1> QED BY Invariance, <1>1, PTL DEF Spec, NeverReplaced
=============================================================================
