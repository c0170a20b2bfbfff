------------------------------ MODULE ImageCache ------------------------------
(***************************************************************************)
(* Processes of one machine that make sure the same image is loaded and    *)
(* then run a container from its tag: inspect, rmi -f, the search for a    *)
(* tarball, docker load under a flock, and the build of a missing image.   *)
(* The engine's tag and the tarball are shared; the digest a process       *)
(* returns is its own.                                                     *)
(*                                                                         *)
(* Source: archbench/core/container.py.                                    *)
(***************************************************************************)
EXTENDS Naturals, FiniteSets

CONSTANTS
    Procs,       \* processes
    Digests,     \* image contents
    NoImage,     \* no such tag, or no tarball, or no digest asked for
    WrongTag,    \* a tarball of another tag
    NoProc,      \* nobody holds the flock
    Requests     \* how ensure_image is called: with force_reload, with
                 \* expected_digest, in a batch job where nothing is built
                 \* (SLURM_JOB_ID or ARCHBENCH_NO_AUTOBUILD)

ASSUME CacheAssumption ==
    /\ NoImage \notin Digests /\ WrongTag \notin Digests /\ NoImage # WrongTag
    /\ NoProc \notin Procs
    /\ Requests \subseteq [force : BOOLEAN, batch : BOOLEAN,
                            expected : Digests \cup {NoImage}]

VARIABLES
    local,   \* what the tag names in the engine
    tar,     \* what the first tarball found holds
    flock,   \* the process that holds the lock file
    reading, \* what the docker load under the flock has read
    adrift,  \* what loads of the engine have read whose clients have died or
             \* given up
    req,     \* the request of each process
    at,      \* where each process is
    digest,  \* what each process took the digest to be
    why,     \* why a process failed
    ran,     \* the image each process started a container from
    fresh,   \* what the tarball held, or a build made, since a process started
    stale,   \* older images within reach of a process: those of the loads
             \* under way when it started, and the one it did not get removed
    calm     \* no inspect timed out and no load was left to the engine so far

engineVars == <<local, reading, adrift>>
history == <<fresh, stale>>
vars == <<engineVars, tar, flock, req, at, digest, why, ran, history, calm>>

Steps == {"start", "inspect", "remove", "find", "lock", "recheck", "load",
          "loading", "verify", "final", "build", "built", "run"}
Ends == {"ran", "failed", "dead"}
Reasons ==
    {"none", "not_found", "load", "stale", "no_digest", "mismatch", "rmi"}
Plain == [force |-> FALSE, expected |-> NoImage, batch |-> TRUE]

Init ==
    /\ local \in Digests \cup {NoImage}
    /\ tar \in Digests \cup {NoImage, WrongTag}
    /\ flock = NoProc /\ reading = NoImage /\ adrift = {}
    /\ req \in [Procs -> Requests]
    /\ at = [p \in Procs |-> "start"]
    /\ digest = [p \in Procs |-> NoImage]
    /\ why = [p \in Procs |-> "none"]
    /\ ran = [p \in Procs |-> NoImage]
    /\ fresh = [p \in Procs |-> {}] /\ stale = [p \in Procs |-> {}]
    /\ calm = TRUE

Goto(p, there) == at' = [at EXCEPT ![p] = there] /\ UNCHANGED why

Fail(p, reason) ==
    at' = [at EXCEPT ![p] = "failed"] /\ why' = [why EXCEPT ![p] = reason]

(* The engine may go on with a load whose client is gone.                  *)
Abandon ==
    \/ UNCHANGED <<adrift, calm>>
    \/ reading \in Digests /\ adrift' = adrift \cup {reading} /\ calm' = FALSE

(* An older image stays within reach of p.                                 *)
Keep(p, image) ==
    /\ stale' = [stale EXCEPT ![p] = @ \cup ({image} \cap Digests)]
    /\ UNCHANGED fresh

-----------------------------------------------------------------------------
(* _ensure_image_digest *)

Start(p) ==
    /\ at[p] = "start"
    /\ Goto(p, "inspect")
    /\ fresh' = [fresh EXCEPT ![p] = {tar}]
    /\ stale' = [stale EXCEPT ![p] = adrift \cup ({reading} \cap Digests)]
    /\ UNCHANGED <<engineVars, tar, flock, req, digest, ran, calm>>

(* get_image_digest: None also when docker image inspect times out.        *)
Answers(found) ==
    \/ found = local /\ UNCHANGED calm
    \/ found = NoImage /\ local # NoImage /\ calm' = FALSE

(* Mutant: an image is removed unless its digest was asked for.            *)
MutSuits(p, found) == ~req[p].force /\ req[p].expected = found

(* Mutant: an image with the right digest is kept although it was to be    *)
(* reloaded.                                                               *)
MutSuitsForce(p, found) == req[p].expected \in {found, NoImage}

(* A local image that is not to be reloaded is returned as it is.          *)
Suits(p, found) == ~req[p].force /\ req[p].expected \in {found, NoImage}

Inspect(p) ==
    /\ at[p] = "inspect"
    /\ \E found \in Digests \cup {NoImage} :
         /\ Answers(found)
         /\ digest' = [digest EXCEPT ![p] = found]
         /\ \/ found = NoImage /\ Goto(p, "find") /\ Keep(p, local)
            \/ found # NoImage /\ Suits(p, found) /\ Goto(p, "run")
               /\ UNCHANGED history
            \/ found # NoImage /\ ~Suits(p, found) /\ Goto(p, "remove")
               /\ UNCHANGED history
    /\ UNCHANGED <<engineVars, tar, flock, req, ran>>

(* rmi -f: the exit code is not looked at; a timeout is raised, before or  *)
(* after the engine has removed the tag.                                   *)
Remove(p) ==
    /\ at[p] = "remove"
    /\ \/ local' = NoImage /\ Goto(p, "find") /\ UNCHANGED history
       \/ UNCHANGED local /\ Goto(p, "find") /\ Keep(p, local)
       \/ local' \in {local, NoImage} /\ Fail(p, "rmi") /\ UNCHANGED history
    /\ UNCHANGED <<reading, adrift, tar, flock, req, digest, ran, calm>>

Find(p) ==
    /\ at[p] = "find"
    /\ \/ tar # NoImage /\ Goto(p, "lock")
       \/ tar = NoImage /\ ~req[p].batch /\ Goto(p, "build")
       \/ tar = NoImage /\ req[p].batch /\ Fail(p, "not_found")
    /\ UNCHANGED <<engineVars, tar, flock, req, digest, ran, history, calm>>

(* What remains after _load_from_tar, or after a build.                    *)
Settle(p, missing) ==
    /\ \E found \in Digests \cup {NoImage} :
         /\ Answers(found)
         /\ digest' = [digest EXCEPT ![p] = found]
         /\ \/ found = NoImage /\ Fail(p, missing)
            \/ /\ found # NoImage /\ req[p].expected \in {found, NoImage}
               /\ Goto(p, "run")
            \/ /\ found # NoImage /\ req[p].expected \notin {found, NoImage}
               /\ Fail(p, "mismatch")
    /\ UNCHANGED <<engineVars, tar, flock, req, ran, history>>

Final(p) == at[p] = "final" /\ Settle(p, "no_digest")

-----------------------------------------------------------------------------
(* _load_from_tar *)

Lock(p) ==
    /\ at[p] = "lock" /\ flock = NoProc
    /\ flock' = p
    /\ Goto(p, "recheck")
    /\ UNCHANGED <<engineVars, tar, req, digest, ran, history, calm>>

(* A peer may have loaded the image meanwhile.                             *)
Recheck(p) ==
    /\ at[p] = "recheck"
    /\ \E found \in Digests \cup {NoImage} :
         /\ Answers(found)
         /\ \/ found # NoImage /\ Goto(p, "final") /\ flock' = NoProc
            \/ found = NoImage /\ Goto(p, "load") /\ UNCHANGED flock
    /\ UNCHANGED <<engineVars, tar, req, digest, ran, history>>

(* docker load reads the tarball ...                                       *)
LoadBegins(p) ==
    /\ at[p] = "load"
    /\ reading' = tar
    /\ Goto(p, "loading")
    /\ UNCHANGED <<local, adrift, tar, flock, req, digest, ran, history, calm>>

(* Mutant: a load that fails keeps the lock.                               *)
MutLoadEnds(p) ==
    /\ at[p] = "loading" /\ reading' = NoImage
    /\ \/ /\ local' = IF reading \in Digests THEN reading ELSE local
          /\ flock' = NoProc /\ Goto(p, "verify")
       \/ UNCHANGED <<local, flock>> /\ Fail(p, "load")
    /\ UNCHANGED <<adrift, tar, req, digest, ran, history, calm>>

(* ... and minutes later makes the tag name what it has read, unless that  *)
(* is of another tag; or it fails, or its client gives up after 1800 s.    *)
(* The lock is released before anyone looks at the result.                 *)
LoadEnds(p) ==
    /\ at[p] = "loading" /\ reading' = NoImage
    /\ flock' = NoProc
    /\ \/ /\ local' = IF reading \in Digests THEN reading ELSE local
          /\ Goto(p, "verify") /\ UNCHANGED <<adrift, calm>>
       \/ UNCHANGED local /\ Fail(p, "load") /\ Abandon
    /\ UNCHANGED <<tar, req, digest, ran, history>>

(* "The tarball is stale" when the tag is not there after the load.        *)
Verify(p) ==
    /\ at[p] = "verify"
    /\ \E found \in Digests \cup {NoImage} :
         /\ Answers(found)
         /\ \/ found # NoImage /\ Goto(p, "final")
            \/ found = NoImage /\ Fail(p, "stale")
    /\ UNCHANGED <<engineVars, tar, flock, req, digest, ran, history>>

-----------------------------------------------------------------------------
(* _materialize_missing_image, without a lock *)

(* The processes that have asked for the image get what they may find.     *)
Freshen(image) ==
    fresh' = [p \in Procs |->
                IF at[p] = "start" THEN fresh[p] ELSE fresh[p] \cup {image}]

Build(p) ==
    /\ at[p] = "build"
    /\ \/ local' \in Digests /\ Goto(p, "built") /\ Freshen(local')
       \/ UNCHANGED <<local, fresh>> /\ Fail(p, "not_found")
    /\ UNCHANGED <<reading, adrift, tar, flock, req, digest, ran, stale, calm>>

Built(p) == at[p] = "built" /\ Settle(p, "not_found")

-----------------------------------------------------------------------------
(* Around ensure_image *)

(* ContainerManager.start runs the tag, whatever it names by now.          *)
Run(p) ==
    /\ at[p] = "run"
    /\ ran' = [ran EXCEPT ![p] = local]
    /\ Goto(p, "ran")
    /\ UNCHANGED <<engineVars, tar, flock, req, digest, history, calm>>

(* A process that dies releases its flock.                                 *)
Dies(p) ==
    /\ at[p] \in Steps \ {"start"}
    /\ Goto(p, "dead")
    /\ IF flock = p THEN flock' = NoProc /\ reading' = NoImage
                    ELSE UNCHANGED <<flock, reading>>
    /\ \/ at[p] = "loading" /\ Abandon
       \/ at[p] # "loading" /\ UNCHANGED <<adrift, calm>>
    /\ local' = local \/ (at[p] = "remove" /\ local' = NoImage)
    /\ UNCHANGED <<tar, req, digest, ran, history>>

(* The engine ends a load nobody waits for.                                *)
EngineLoads(image) ==
    /\ image \in adrift /\ adrift' = adrift \ {image}
    /\ local' = image
    /\ UNCHANGED <<reading, tar, flock, req, at, digest, why, ran, history, calm>>

(* A rebuilt image is saved over the tarball.                              *)
Publish ==
    /\ \E d \in Digests \ {tar} : tar' = d
    /\ tar \in Digests /\ \A p \in Procs : fresh[p] \subseteq {tar}
    /\ Freshen(tar')
    /\ UNCHANGED <<engineVars, flock, req, at, digest, why, ran, stale, calm>>

EnsureStep(p) ==
    \/ Start(p) \/ Inspect(p) \/ Remove(p) \/ Find(p)
    \/ Lock(p) \/ Recheck(p) \/ LoadBegins(p) \/ LoadEnds(p)
    \/ Verify(p) \/ Final(p)
    \/ Build(p) \/ Built(p) \/ Run(p)

Next ==
    \/ Publish
    \/ \E image \in Digests : EngineLoads(image)
    \/ \E p \in Procs : EnsureStep(p) \/ Dies(p)

Spec == Init /\ [][Next]_vars

(* The commands end (each has a timeout) and flock serves every waiter.    *)
FairSpec == Spec /\ \A p \in Procs : WF_vars(EnsureStep(p))

-----------------------------------------------------------------------------
(* Properties *)

TypeOK ==
    /\ local \in Digests \cup {NoImage}
    /\ tar \in Digests \cup {NoImage, WrongTag}
    /\ flock \in Procs \cup {NoProc}
    /\ req \in [Procs -> Requests]
    /\ at \in [Procs -> Steps \cup Ends]
    /\ digest \in [Procs -> Digests \cup {NoImage}]
    /\ why \in [Procs -> Reasons]
    /\ ran \in [Procs -> Digests \cup {NoImage}]
    /\ reading \in Digests \cup {NoImage, WrongTag}
    /\ adrift \subseteq Digests /\ calm \in BOOLEAN
    /\ {fresh, stale} \subseteq
         [Procs -> SUBSET (Digests \cup {NoImage, WrongTag})]

(* Nothing is built, docker image inspect answered in time so far, and no  *)
(* docker load went on without its client.                                 *)
Calm == calm /\ \A p \in Procs : req[p].batch

(* Everybody calls ensure_image with the image and the search path only, as *)
(* ContainerManager does.                                                  *)
AllPlain == Calm /\ \A p \in Procs : req[p] = Plain

(* Where nothing is built, the tag of a loaded image is never turned to    *)
(* another image under the feet of its users: it is removed first.         *)
NeverReplaced ==
    [][Calm => local' = local \/ NoImage \in {local, local'}]_vars

(* Plain callers do not disturb each other, whoever else loads the image   *)
(* and whatever tarball is published: the container of each is the image   *)
(* whose digest ensure_image gave it, the one the provenance check         *)
(* compared and session.json records, and a tarball that is called stale   *)
(* (container.py:555) is one of another tag.                               *)
PlainUndisturbed ==
    AllPlain => \A p \in Procs :
        /\ at[p] = "ran" => ran[p] = digest[p]
        /\ why[p] \in {"stale", "no_digest"} => tar = WrongTag

(* Whoever asked for a digest never goes on with another one, loaded or    *)
(* built.                                                                  *)
ExpectedOrFails ==
    \A p \in Procs : at[p] \in {"run", "ran"} /\ req[p].expected # NoImage =>
        digest[p] = req[p].expected

(* A forced reload returns what the tarball held, or a build made, at some *)
(* time since it began.  The only older images it can come to are those    *)
(* the code leaves within its reach: what a peer's docker load that was    *)
(* under way when it began had read (found "loaded by a peer",             *)
(* container.py:532), and the image its own rmi -f, or its own inspect,    *)
(* failed on (container.py:771-776).                                       *)
ForcedIsFresh ==
    \A p \in Procs : at[p] \in {"run", "ran"} /\ req[p].force =>
        digest[p] \in fresh[p] \cup stale[p]

(* Every ensure_image ends, also when a peer fails or dies with the lock.  *)
EnsureEnds == \A p \in Procs : <>(at[p] \in Ends)
=============================================================================
