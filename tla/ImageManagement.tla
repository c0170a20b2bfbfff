--------------------------- MODULE ImageManagement ---------------------------
(***************************************************************************)
(* archbench images: commands that build, load, save, pull, remove and     *)
(* name the images of images.yaml, on one machine, with a pool of          *)
(* tarballs. Each goes through its targets one after the other and goes on *)
(* after a failure; several commands may run at once. A combined image is  *)
(* made of others. ensure_image is one step here; ImageCache has the steps *)
(* it is made of.                                                          *)
(*                                                                         *)
(* Source: archbench/image_management (cli.py, manifest.py, site.py,       *)
(* plan.py), and of core/container.py the search for a tarball.            *)
(***************************************************************************)
EXTENDS Naturals, Sequences, FiniteSets, SequencesExt

CONSTANTS
    Categories,   \* CATEGORIES: the categories of images.yaml, in order
    Keys,         \* category -> its images, in order
    Needs,        \* image -> the images it is made of: none for a Dockerfile
    Bumped,       \* combined images whose tag is not v6, as gem5's
    LegacyDirs,   \* number of directories in ARCHBENCH_LEGACY_TAR_DIR
    OldTars,      \* the places where tarballs may be already
    Cmds,         \* processes that run commands
    MaxCommands   \* bound on commands

Images == UNION {Range(Keys[k]) : k \in Range(Categories)}

ASSUME ManagementAssumption ==
    /\ Needs \in [Images -> Seq(Images)]
    /\ \A i \in Images : i \notin Range(Needs[i])
    /\ Bumped \subseteq {i \in Images : Needs[i] # <<>>}
    /\ LegacyDirs \in Nat /\ MaxCommands \in Nat

(* The manifest lists no image twice, and what an image is made of stands  *)
(* in an earlier category, or before it.                                   *)
Apart(i, j) == i # j /\ j \notin Range(Needs[i])

ASSUME OrderAssumption ==
    /\ Categories \in Seq(DOMAIN Keys)
    /\ \A k \in DOMAIN Keys :
         /\ Keys[k] \in Seq(Range(Keys[k]))
         /\ \A m \in 1..Len(Keys[k]), n \in 1..Len(Keys[k]) :
              n < m => Apart(Keys[k][n], Keys[k][m])
    /\ \A m \in 1..Len(Categories), n \in 1..Len(Categories) :
         n < m => \A i \in Range(Keys[Categories[n]]),
                     j \in Range(Keys[Categories[m]]) : Apart(i, j)

VARIABLES
    local,      \* what each tag names in the engine
    pool,       \* the tarball of each image at each place
    saved,      \* what the last save announced to have written
    job,        \* the command of each process
    registry,   \* site.yaml names a registry
    count       \* commands so far, builds so far

imageVars == <<local, pool, saved, job, registry, count>>

(* What an image holds: its own version, or those of its parts.            *)
None == <<>>
Truncated == <<0>>
InRegistry == <<1>>
InOldTar == <<2>>

(* Where a tarball can be: in a directory of the list, 1 of which is       *)
(* tar_dir, under a directory of the image's own, or flat.                 *)
TarDirs == 1..(1 + LegacyDirs)
TarPlaces == {"slug", "flat"} \X TarDirs

-----------------------------------------------------------------------------
(* Where a tarball is looked for, and written                              *)

(* Mutant: the flat form first.                                            *)
MutCandidates ==
    [d \in TarDirs |-> <<"flat", d>>] \o [d \in TarDirs |-> <<"slug", d>>]

(* The same in ensure_image and in images status.                          *)
Candidates == [d \in TarDirs |-> <<"slug", d>>] \o [d \in TarDirs |-> <<"flat", d>>]

SavePlace == <<"slug", 1>>

(* The first tarball there is counts, whatever is in it.                   *)
Found(i) ==
    LET there == {n \in 1..Len(Candidates) : pool[i][Candidates[n]] # None}
    IN IF there = {} THEN None ELSE pool[i][Candidates[Min(there)]]

-----------------------------------------------------------------------------
(* Targets *)

(* Mutant: what is combined comes first.                                   *)
MutOrder(ks) == FlattenSeq([n \in 1..Len(ks) |-> Reverse(Keys[Reverse(ks)[n]])])

(* iter_images: category by category.                                      *)
Order(ks) == FlattenSeq([n \in 1..Len(ks) |-> Keys[ks[n]]])

All == Order(Categories)

(* _resolve_image_targets: all, a category, or an image.                   *)
Targets ==
    {All} \cup {Order(<<k>>) : k \in Range(Categories)}
          \cup {<<i>> : i \in Images}

NoCommand == [verb |-> "none", targets |-> <<>>, todo |-> <<>>, rc |-> 0,
              saving |-> None, alone |-> FALSE, guessed |-> {}]

ManageInit ==
    /\ \E where \in OldTars :
         pool = [i \in Images |-> [p \in TarPlaces |->
                   IF p \in where THEN InOldTar ELSE None]]
    /\ local \in [Images -> {None, InOldTar}]
    /\ saved = [i \in Images |-> None]
    /\ job = [c \in Cmds |-> NoCommand]
    /\ registry \in BOOLEAN
    /\ count = [commands |-> 0, builds |-> 2]

(* Nothing else moves: a command is alone as long as the tags change by    *)
(* its own steps only.                                                     *)
Goes(c, new) ==
    job' = [d \in Cmds |->
              IF d = c THEN new
              ELSE [job[d] EXCEPT !.alone = @ /\ local' = local]]

(* On to the next target; a failure is remembered in rc.                   *)
Step(c, failed) ==
    Goes(c, [job[c] EXCEPT !.todo = Tail(@), !.saving = None,
                           !.rc = IF failed THEN 1 ELSE @])

(* A save that fails may leave a part of the tarball behind.               *)
CutShort(i) ==
    /\ pool' = [pool EXCEPT ![i][SavePlace] = Truncated]
    /\ saved' = [saved EXCEPT ![i] = None]

(* The command ends before its targets are done: no manifest, or a         *)
(* timeout that nobody catches.                                            *)
Abort(c) ==
    /\ job[c].todo # <<>>
    /\ UNCHANGED <<local, registry, count>>
    /\ Goes(c, [job[c] EXCEPT !.todo = <<>>, !.saving = None, !.rc = 1])
    /\ \/ UNCHANGED <<pool, saved>>
       \/ job[c].saving # None /\ CutShort(Head(job[c].todo))

Verbs == {"build", "load", "save", "pull", "rm", "digest"}

Start(c, verb, targets) ==
    /\ job[c].todo = <<>> /\ count.commands < MaxCommands
    /\ count' = [count EXCEPT !.commands = @ + 1]
    /\ UNCHANGED <<local, pool, saved, registry>>
    /\ Goes(c, IF verb = "pull" /\ ~registry
               THEN [NoCommand EXCEPT !.verb = verb, !.targets = targets, !.rc = 1]
               ELSE [NoCommand EXCEPT !.verb = verb, !.targets = targets,
                                      !.todo = targets, !.alone = TRUE])

At(c, verb, i) ==
    job[c].verb = verb /\ job[c].todo # <<>> /\ i = Head(job[c].todo)

-----------------------------------------------------------------------------
(* The verbs *)

SetLocal(i, content) == local' = [local EXCEPT ![i] = content]

Combined(i) == Needs[i] # <<>>

Parts(i) == FlattenSeq([n \in 1..Len(Needs[i]) |-> local[Needs[i][n]]])

(* A Dockerfile gives a new version.                                       *)
BuildImage(i) ==
    /\ ~Combined(i)
    /\ SetLocal(i, <<count.builds + 1>>)
    /\ count' = [count EXCEPT !.builds = @ + 1]

(* build_l2agent_image.sh puts the image on its parts, which have to be    *)
(* there, and sets its tag.                                                *)
CombineImage(i) ==
    /\ Combined(i) /\ \A n \in DOMAIN Needs[i] : local[Needs[i][n]] # None
    /\ SetLocal(i, Parts(i))
    /\ UNCHANGED count

(* The script asks python3.11 for the tag of its base. Without an answer   *)
(* it takes v6, which may be there from before: it builds on that, under a *)
(* tag that is not the manifest's, and ends well.                          *)
Guess(c, i) ==
    /\ i \in Bumped /\ UNCHANGED <<local, count>>
    /\ Goes(c, [job[c] EXCEPT !.todo = Tail(@), !.guessed = @ \cup {i}])

(* The script tries the image out when its tag is set: that may fail, too. *)
Build(c, i) ==
    /\ At(c, "build", i)
    /\ \/ (BuildImage(i) \/ CombineImage(i)) /\ Step(c, FALSE)
       \/ CombineImage(i) /\ Step(c, TRUE)
       \/ Guess(c, i)
       \/ UNCHANGED <<local, count>> /\ Step(c, TRUE)
    /\ UNCHANGED <<pool, saved, registry>>

(* _materialize_missing_image: the registry if there is one, else a build, *)
(* but never of a combined image.                                          *)
Materialize(i) ==
    IF registry THEN SetLocal(i, InRegistry) /\ UNCHANGED count
                ELSE BuildImage(i)

(* ensure_image: a local image is taken as it is; else, and when inspect   *)
(* is not answered, the first tarball; without one the image is made,      *)
(* unless in a batch job. A card that does not match fails an image that   *)
(* is there by now.                                                        *)
Load(c, i) ==
    /\ At(c, "load", i)
    /\ UNCHANGED <<pool, saved, registry>>
    /\ \/ local[i] # None /\ UNCHANGED <<local, count>> /\ Step(c, FALSE)
       \/ /\ Found(i) \notin {None, Truncated}
          /\ SetLocal(i, Found(i)) /\ UNCHANGED count
          /\ \E failed \in BOOLEAN : Step(c, failed)
       \/ /\ Found(i) = None
          /\ Materialize(i)
          /\ \E failed \in BOOLEAN : Step(c, failed)
       \/ UNCHANGED <<local, count>> /\ Step(c, TRUE)

(* What is not local, or does not answer, is skipped: that is no failure.  *)
StartSave(c, i) ==
    /\ At(c, "save", i) /\ job[c].saving = None
    /\ UNCHANGED <<local, pool, saved, registry, count>>
    /\ \/ Step(c, FALSE)
       \/ local[i] # None /\ Goes(c, [job[c] EXCEPT !.saving = local[i]])

EndSave(c, i) ==
    /\ At(c, "save", i) /\ job[c].saving # None
    /\ UNCHANGED <<local, registry, count>>
    /\ \/ /\ pool' = [pool EXCEPT ![i][SavePlace] = job[c].saving]
          /\ saved' = [saved EXCEPT ![i] = job[c].saving]
          /\ Step(c, FALSE)
       \/ CutShort(i) /\ Step(c, TRUE)
       \/ UNCHANGED <<pool, saved>> /\ Step(c, TRUE)

(* Whether the tag could be set is not looked at.                          *)
Pull(c, i) ==
    /\ At(c, "pull", i)
    /\ \/ SetLocal(i, InRegistry) /\ Step(c, FALSE)
       \/ UNCHANGED local /\ \E failed \in BOOLEAN : Step(c, failed)
    /\ UNCHANGED <<pool, saved, registry, count>>

(* An image that cannot be removed is not a failure, either.               *)
Rm(c, i) ==
    /\ At(c, "rm", i)
    /\ SetLocal(i, None) \/ UNCHANGED local
    /\ Step(c, FALSE)
    /\ UNCHANGED <<pool, saved, registry, count>>

(* Also an inspect that is not answered says that there is none.           *)
Digest(c, i) ==
    /\ At(c, "digest", i)
    /\ UNCHANGED <<local, pool, saved, registry, count>>
    /\ \/ local[i] # None /\ Step(c, FALSE)
       \/ Step(c, TRUE)

ManageNext ==
    \E c \in Cmds :
       \/ \E verb \in Verbs, targets \in Targets : Start(c, verb, targets)
       \/ Abort(c)
       \/ \E i \in Images :
             \/ Build(c, i) \/ Load(c, i) \/ StartSave(c, i) \/ EndSave(c, i)
             \/ Pull(c, i) \/ Rm(c, i) \/ Digest(c, i)

ManageSpec == ManageInit /\ [][ManageNext]_imageVars

-----------------------------------------------------------------------------
(* Properties *)

Ended(c) == job[c].verb # "none" /\ job[c].todo = <<>>

(* What was saved last is what a load finds ("writes to the slug-subdir    *)
(* form ensure_image reads first"), whatever older tarballs lie around in  *)
(* the pool or in a directory shared with other checkouts.                 *)
SavedIsLoaded == \A i \in Images : saved[i] # None => Found(i) = saved[i]

(* After images build all went well, and nobody else changed a tag since   *)
(* it began, a combined image is made of the simulator and the agent as    *)
(* they were just built, not of those that were there before; but one      *)
(* whose tag the script had to guess is what it was.                       *)
CombinedIsCurrent ==
    \A c \in Cmds :
       /\ Ended(c) /\ job[c].alone /\ job[c].rc = 0
       /\ job[c].verb = "build" /\ Range(job[c].targets) = Images
       => \A i \in Images :
             Combined(i) => i \in job[c].guessed \/ local[i] = Parts(i)
=============================================================================
