------------------------------ MODULE MCRecords ------------------------------
(***************************************************************************)
(* Four components that meet a session only through what they leave on     *)
(* disk, checked in one run: each behaviour is one of one of them, and the *)
(* others stay in an initial state.                                        *)
(***************************************************************************)
EXTENDS BaselineGate, RunTrail, ChallengeLoader, ImageManagement

VARIABLE part   \* the component that moves

recordVars == <<part, gateVars, trailVars, loaderVars, imageVars>>

(* Names of models in pairs, each the thinking variant of the other.       *)
MCVariant == [m \in Models |-> CHOOSE x \in Models : x # m]

(* A letter once, and a letter twice.                                      *)
MCTexts == {<<"a">>, <<"b", "a", "b">>}

(* A simulator, and the image that is built on it.                         *)
MCCategories == <<"simulators", "sim_agents">>
MCKeys == [k \in Range(MCCategories) |->
             IF k = "simulators" THEN <<"sim">> ELSE <<"l2agent">>]
MCNeeds == [i \in {"sim", "l2agent"} |->
              IF i = "sim" THEN <<>> ELSE <<"sim">>]
MCBumped == {"l2agent"}

(* No old tarballs, or one in each form, a shared directory among them.    *)
MCOldTars == {{}, {<<"slug", 2>>, <<"flat", 1>>}}

(* Commands are alike, in both modules, and so are evaluators.             *)
Symmetry ==
    Permutations(Commands) \cup Permutations(Cmds) \cup Permutations(Evaluators)

(* One initial state of each, for while it does not move.                  *)
GateRests ==
    /\ family = [tiered |-> FALSE, reference |-> FALSE, hidden |-> {},
                 config |-> "none", perTrace |-> "none", pinned |-> FALSE,
                 sims |-> 1]
    /\ GateInit

TrailRests ==
    /\ runtime = "mini" /\ starter = <<>> /\ odd = {}
    /\ files = [p \in Places |-> NoFile]
    /\ TrailInit

LoaderRests ==
    /\ extends = FALSE /\ topic = "modes"
    /\ card = [exists |-> TRUE, public |-> TRUE, auth |-> TRUE,
               type |-> "bundled", allowed |-> Models, default |-> NoModel]
    /\ LoaderInit

ManageRests ==
    /\ pool = [i \in Images |-> [p \in TarPlaces |-> None]]
    /\ local = [i \in Images |-> None] /\ registry = FALSE
    /\ ManageInit

RecordsInit ==
    \/ part = "images" /\ GateRests /\ TrailRests /\ LoaderRests /\ ManageInit
    \/ part = "gate" /\ GateInit /\ TrailRests /\ LoaderRests /\ ManageRests
    \/ part = "loader" /\ GateRests /\ TrailRests /\ LoaderInit /\ ManageRests
    \/ part = "trail" /\ GateRests /\ TrailInit /\ LoaderRests /\ ManageRests

RecordsNext ==
    \/ part = "gate" /\ GateNext
       /\ UNCHANGED <<part, trailVars, loaderVars, imageVars>>
    \/ part = "trail" /\ TrailNext
       /\ UNCHANGED <<part, gateVars, loaderVars, imageVars>>
    \/ part = "loader" /\ LoaderNext
       /\ UNCHANGED <<part, gateVars, trailVars, imageVars>>
    \/ part = "images" /\ ManageNext
       /\ UNCHANGED <<part, gateVars, trailVars, loaderVars>>

RecordsSpec == RecordsInit /\ [][RecordsNext]_recordVars
=============================================================================
