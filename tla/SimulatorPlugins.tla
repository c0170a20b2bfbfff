-------------------------- MODULE SimulatorPlugins --------------------------
(***************************************************************************)
(* What run_submit does with the files of a submission, in the plugins     *)
(* other than ChampSim's: a host-side evaluate.sh with a container of its  *)
(* own, a simulate.sh, or build_and_run.sh in the one container that all   *)
(* submissions of a session share. Nothing calls cleanup_simulator, so     *)
(* what a script leaves in the container is there for the next one.        *)
(*                                                                         *)
(* Source: simulators/<name>/plugin.py and build_and_run.sh, container.py  *)
(* exec, and the classification in champsim/connector/handlers/submit.py.  *)
(* evaluate.sh and simulate.sh belong to a challenge and are external. A   *)
(* simulator that outlives the script that was killed is left out.         *)
(***************************************************************************)
EXTENDS Naturals, Sequences

CONSTANTS
    Plugins,    \* the simulators that are looked at
    Jobs,       \* submissions, each with a worker thread of its own
    Nobody      \* in place of a submission: the image's own file, or none

ASSUME PluginAssumption ==
    /\ Plugins \subseteq {"timeloop", "gem5", "dramsys", "ramulator", "scalesim",
                         "mnsim", "astrasim"}
    /\ Nobody \notin Jobs

VARIABLES
    plugin,     \* the simulator of the session
    layout,     \* the script the challenge ships, if any
    staged,     \* /work/submission: whose file is there
    copies,     \* the copies the script works on
    made,       \* what the last build or simulation left to be used
    task        \* one record per submission

pluginVars == <<plugin, layout, staged, copies, made, task>>

Layouts == {"evaluate", "simulate", "inside"}

(* The main file of a submission and an optional one.                      *)
Files == {"main", "aux"}
NoFiles == [f \in Files |-> Nobody]

(* What becomes of a file: a check refuses it, or finds fields lacking, or *)
(* the simulation of it fails.                                             *)
Qualities == {"absent", "good", "refused", "lacking", "fails"}

-----------------------------------------------------------------------------
(* The steps of build_and_run.sh, and of run_submit                        *)

(* Mutant: the working directory is not wiped.                             *)
MutTimeloopScript == <<"place", "check_copies", "run_copies", "collect">>

(* Ramulator's is that for a component in C++, with the challenge's config. *)
TimeloopScript == <<"wipe", "place", "check_copies", "run_copies", "collect">>
Gem5Script == <<"wipe", "check_staged", "place", "run_copies", "collect">>
DRAMSysScript == <<"check_staged", "place", "run_copies">>
RamulatorScript == <<"wipe", "place", "build", "run_made">>
ScaleSimScript == <<"check_staged", "place", "check_copies", "run_staged">>
MNSIMScript == <<"check_staged", "run_staged">>
AstraSimScript == <<"check_staged", "run_staged">>

EvaluateOnly(l, script) ==
    IF l = "evaluate" THEN <<"evaluate", "parse">>
    ELSE <<"clear", "copy">> \o script \o <<"parse">>

EitherScript(l, script) ==
    EvaluateOnly(l, IF l = "simulate" THEN <<"simulate">> ELSE script)

TimeloopSubmit(l) == EitherScript(l, TimeloopScript)
Gem5Submit(l) == EitherScript(l, Gem5Script)
DRAMSysSubmit(l) == EvaluateOnly(l, DRAMSysScript)
RamulatorSubmit(l) == EvaluateOnly(l, RamulatorScript)
ScaleSimSubmit(l) == EitherScript(l, ScaleSimScript)
MNSIMSubmit(l) == EitherScript(l, MNSIMScript)
AstraSimSubmit(l) == EitherScript(l, AstraSimScript)

Phases ==
    CASE plugin = "timeloop" -> TimeloopSubmit(layout)
      [] plugin = "gem5" -> Gem5Submit(layout)
      [] plugin = "dramsys" -> DRAMSysSubmit(layout)
      [] plugin = "ramulator" -> RamulatorSubmit(layout)
      [] plugin = "scalesim" -> ScaleSimSubmit(layout)
      [] plugin = "mnsim" -> MNSIMSubmit(layout)
      [] plugin = "astrasim" -> AstraSimSubmit(layout)

(* What a script can be at when pkill ends it.                             *)
ScriptPhases ==
    {"wipe", "place", "check_staged", "check_copies", "build", "run_staged",
     "run_copies", "run_made", "collect"}

(* submission_files: a file of a fixed name, or what the challenge says.   *)
Expected == IF plugin \in {"gem5", "scalesim"} THEN {"main"} ELSE Files

(* The files the script looks at, and those it cannot do without.          *)
Reads == IF plugin \in {"mnsim", "astrasim"} THEN {"main"} ELSE Expected
Suffices ==
    CASE plugin = "timeloop" -> {{"main"}, {"aux"}}
      [] plugin = "ramulator" -> {{}}
      [] OTHER -> {{"main"}}

-----------------------------------------------------------------------------
(* parse_output: what counts as metrics in the output. json is a block     *)
(* with numbers between the markers, text what the regular expressions     *)
(* find, cost the line of ScaleSim's check of the constraints.             *)

(* Mutant: the marker of a simulation that ended is not asked for.         *)
MutMarkedMetrics(out) == out \cap {"json", "text"} # {}

MarkedMetrics(out) ==
    "SIMULATION_OK" \in out /\ out \cap {"json", "text"} # {}

TimeloopParse(out) == "json" \in out \/ MarkedMetrics(out)
Gem5Parse(out) == MarkedMetrics(out)
DRAMSysParse(out) == MarkedMetrics(out)
RamulatorParse(out) == MarkedMetrics(out)
ScaleSimParse(out) ==
    MarkedMetrics(out) \/ {"SIMULATION_OK", "cost"} \subseteq out
MNSIMParse(out) == MarkedMetrics(out)
AstraSimParse(out) == MarkedMetrics(out)

HasMetrics(out) ==
    CASE plugin = "timeloop" -> TimeloopParse(out)
      [] plugin = "gem5" -> Gem5Parse(out)
      [] plugin = "dramsys" -> DRAMSysParse(out)
      [] plugin = "ramulator" -> RamulatorParse(out)
      [] plugin = "scalesim" -> ScaleSimParse(out)
      [] plugin = "mnsim" -> MNSIMParse(out)
      [] plugin = "astrasim" -> AstraSimParse(out)

(* handle_submit tells the outcomes apart by what is in the output.        *)
Classify(out) ==
    CASE "VALIDATION_FAILED" \in out -> "validation_reject"
      [] HasMetrics(out) -> "sim_ok"
      [] "BUILD_FAILED" \in out -> "build_fail"
      [] OTHER -> "sim_timeout"

-----------------------------------------------------------------------------
(* A submission *)

(* calm: no other submission at the same time, and nothing timed out;      *)
(* said: the words that the submission's own code has printed.             *)
NoTask == [files |-> [f \in Files |-> "absent"], todo |-> <<>>, copy |-> {},
          out |-> {}, said |-> {}, ran |-> NoFiles, ended |-> "not",
          calm |-> TRUE, verdict |-> "none"]

PluginInit ==
    /\ plugin \in Plugins /\ layout \in Layouts
    /\ plugin \in {"dramsys", "ramulator"} => layout # "simulate"
    /\ staged = NoFiles /\ copies = NoFiles /\ made = NoFiles
    /\ task = [s \in Jobs |-> NoTask]

Active == {s \in Jobs : task[s].todo # <<>>}
Due(s, phase) == task[s].todo # <<>> /\ Head(task[s].todo) = phase

(* Paths of the same name may be given twice, so a file may be left out;   *)
(* the files are copied out of the agent's container beforehand. One file  *)
(* may be at fault, and only AstraSim treats lacking fields as a case of   *)
(* their own.                                                              *)
Faults ==
    {"refused", "fails"} \cup IF plugin = "astrasim" THEN {"lacking"} ELSE {}

Contents ==
    LET sound == {c \in [Expected -> {"absent", "good"}] :
                    \E f \in Expected : c[f] = "good"}
        faulty ==
            {[c EXCEPT ![f] = q] : c \in sound, f \in Reads, q \in Faults}
    IN {[f \in Files |-> IF f \in Expected THEN c[f] ELSE "absent"] :
          c \in sound \cup faulty}

Shipped(s) == {f \in Files : task[s].files[f] # "absent"}

Accept(s, content) ==
    /\ task[s].todo = <<>> /\ task[s].verdict = "none"
    /\ task' = [t \in Jobs |->
                 IF t = s
                 THEN [NoTask EXCEPT
                         !.files = content, !.todo = Phases,
                         !.copy = {f \in Files : content[f] # "absent"},
                         !.calm = Active = {}]
                 ELSE [task[t] EXCEPT !.calm = @ /\ t \notin Active]]
    /\ UNCHANGED <<plugin, layout, staged, copies, made>>

Sets(s, new) == task' = [task EXCEPT ![s] = new]
Onward(s) == [task[s] EXCEPT !.todo = Tail(@)]
Stop(s, out) == [task[s] EXCEPT !.todo = <<"parse">>, !.out = @ \cup out]

(* run_submit raises: handle_submit has an outcome for that.               *)
Raises(s) ==
    [task[s] EXCEPT !.todo = <<>>, !.calm = FALSE, !.verdict = "sim_timeout"]

Running(s) == task[s].todo # <<>> /\ Head(task[s].todo) \in ScriptPhases

(* A timeout of exec ends every build_and_run in the container, whoever's  *)
(* it is; what those printed so far is returned to their own callers.      *)
KillScripts(s, new) ==
    task' = [t \in Jobs |->
              CASE t = s -> new
                [] t # s /\ Running(t) -> Stop(t, {})
                [] OTHER -> task[t]]

(* The result of the command that clears is not looked at.                 *)
Clear(s) ==
    /\ Due(s, "clear")
    /\ \/ staged' = NoFiles /\ Sets(s, Onward(s))
       \/ staged' \in {staged, NoFiles}
          /\ KillScripts(s, [Onward(s) EXCEPT !.calm = FALSE])
    /\ UNCHANGED <<plugin, layout, copies, made>>

CopyIn(s) ==
    /\ Due(s, "copy")
    /\ \/ \E f \in task[s].copy :
            /\ staged' = [staged EXCEPT ![f] = s]
            /\ Sets(s, [task[s] EXCEPT !.copy = @ \ {f},
                          !.todo = IF task[s].copy = {f} THEN Tail(@) ELSE @])
       \/ Sets(s, Raises(s)) /\ UNCHANGED staged
    /\ UNCHANGED <<plugin, layout, copies, made>>

ExecTimesOut(s) ==
    /\ Running(s)
    /\ KillScripts(s, [task[s] EXCEPT !.todo = <<"parse">>, !.out = {},
                                     !.calm = FALSE])
    /\ UNCHANGED <<plugin, layout, staged, copies, made>>

-----------------------------------------------------------------------------
(* The script, step by step *)

Laid(place) == {f \in Reads : place[f] # Nobody}
QualityIn(place, f) == task[place[f]].files[f]
Holds(place, quality) == \E f \in Laid(place) : QualityIn(place, f) = quality

Incomplete(place) == \A n \in Suffices : ~(n \subseteq Laid(place))

Wipe(s) ==
    /\ Due(s, "wipe")
    /\ copies' = NoFiles
    /\ made' = IF plugin = "ramulator" THEN made ELSE NoFiles
    /\ Sets(s, Onward(s))
    /\ UNCHANGED <<plugin, layout, staged>>

(* A file that is not there leaves the copy of an earlier one alone.       *)
PlaceFiles(s) ==
    /\ Due(s, "place")
    /\ copies' = [f \in Files |->
                    IF f \in Laid(staged) THEN staged[f] ELSE copies[f]]
    /\ Sets(s, Onward(s))
    /\ UNCHANGED <<plugin, layout, staged, made>>

(* AstraSim's set -e ends the script before it says BUILD_FAILED.          *)
Checked(s, place) ==
    IF Incomplete(place) \/ Holds(place, "refused")
    THEN Sets(s, Stop(s, {"BUILD_FAILED"}))
    ELSE IF Holds(place, "lacking")
    THEN Sets(s, Stop(s, IF plugin = "astrasim" THEN {} ELSE {"BUILD_FAILED"}))
    ELSE \E cost \in IF plugin = "scalesim" THEN {{}, {"cost"}} ELSE {{}} :
           Sets(s, [Onward(s) EXCEPT !.out = @ \cup cost])

Check(s) ==
    /\ \/ Due(s, "check_staged") /\ Checked(s, staged)
       \/ Due(s, "check_copies") /\ Checked(s, copies)
    /\ UNCHANGED <<plugin, layout, staged, copies, made>>

(* Ramulator's check is its compiler, and what it makes is the simulator.  *)
Compile(s) ==
    /\ Due(s, "build")
    /\ Checked(s, copies)
    /\ made' = IF task'[s].todo = <<"parse">> THEN made ELSE copies
    /\ UNCHANGED <<plugin, layout, staged, copies>>

Looked(place) == [f \in Files |-> IF f \in Reads THEN place[f] ELSE Nobody]

(* gem5's config.py and Ramulator's component are programs that run with   *)
(* the simulator. What they print goes where the script prints, and is not *)
(* told from the words of the script. One of these stands for any number:  *)
(* Classify looks for the first two before it comes to the third.          *)
Sayings == {{"VALIDATION_FAILED"}, {"SIMULATION_OK", "json"}, {"BUILD_FAILED"}}

Speak(s) ==
    /\ plugin \in {"gem5", "ramulator"} /\ task[s].said = {}
    /\ \/ Due(s, "run_copies") /\ Laid(copies) # {}
       \/ Due(s, "run_made") /\ Laid(made) # {}
    /\ \E words \in Sayings :
         Sets(s, [task[s] EXCEPT !.out = @ \cup words, !.said = words])
    /\ UNCHANGED <<plugin, layout, staged, copies, made>>

(* A simulation may fail for reasons of its own, among them its timeout;   *)
(* a part of the numbers may be out by then, besides what was said.        *)
RunBadly(s) ==
    /\ \E part \in SUBSET {"text"} :
         Sets(s, [Stop(s, part) EXCEPT !.ended = "badly"])
    /\ UNCHANGED made

RunWell(s, place) ==
    /\ Laid(place) # {} /\ ~Holds(place, "fails")
    /\ IF plugin \in {"timeloop", "gem5"}
       THEN made' = place /\ Sets(s, [Onward(s) EXCEPT !.ended = "well"])
       ELSE /\ \E some \in {{"json", "text"},
                             IF plugin = "astrasim" THEN {"json"} ELSE {}} :
                 Sets(s, [Stop(s, some \cup {"SIMULATION_OK"})
                            EXCEPT !.ended = "well", !.ran = Looked(place)])
            /\ UNCHANGED made

Run(s) ==
    /\ \/ Due(s, "run_staged") /\ (RunBadly(s) \/ RunWell(s, staged))
       \/ Due(s, "run_copies") /\ (RunBadly(s) \/ RunWell(s, copies))
       \/ Due(s, "run_made") /\ (RunBadly(s) \/ RunWell(s, made))
    /\ UNCHANGED <<plugin, layout, staged, copies>>

(* The numbers are read from what the simulation wrote, if it is there;    *)
(* in gem5's file there may be none of those looked for.                   *)
Collect(s) ==
    /\ Due(s, "collect")
    /\ IF made = NoFiles
       THEN IF plugin = "gem5" THEN Sets(s, Stop(s, {}))
            ELSE \E some \in SUBSET {"text"} :
                   Sets(s, Stop(s, some \cup {"SIMULATION_OK"}))
       ELSE \E some \in {{"json"}, IF plugin = "gem5" THEN {} ELSE {"json"}} :
              Sets(s, [Stop(s, some \cup {"SIMULATION_OK"})
                         EXCEPT !.ran = Looked(made)])
    /\ UNCHANGED <<plugin, layout, staged, copies, made>>

-----------------------------------------------------------------------------
(* The challenge's own scripts *)

(* evaluate.sh has the host's copy of the files and a container of its     *)
(* own, simulate.sh what is in /work/submission. A block without           *)
(* SIMULATION_OK is how a scaffold refuses to score.                       *)
Outside(s, place) ==
    /\ \/ Sets(s, Raises(s))
       \/ \E out \in {{"VALIDATION_FAILED"}, {"BUILD_FAILED"}, {"json"}} :
            Sets(s, Stop(s, out))
       \/ /\ ~Incomplete(place)
          /\ \A q \in {"refused", "lacking", "fails"} : ~Holds(place, q)
          /\ Sets(s, [Stop(s, {"SIMULATION_OK", "json"})
                        EXCEPT !.ended = "well", !.ran = Looked(place)])
    /\ UNCHANGED <<plugin, layout, staged, copies, made>>

Own(s) == [f \in Files |-> IF f \in Shipped(s) THEN s ELSE Nobody]

RunEvaluateSh(s) == Due(s, "evaluate") /\ Outside(s, Own(s))
RunSimulateSh(s) == Due(s, "simulate") /\ Outside(s, staged)

Parse(s) ==
    /\ Due(s, "parse")
    /\ Sets(s, [task[s] EXCEPT !.todo = <<>>,
                               !.verdict = Classify(task[s].out)])
    /\ UNCHANGED <<plugin, layout, staged, copies, made>>

PluginNext ==
    \E s \in Jobs :
        \/ \E content \in Contents : Accept(s, content)
        \/ Clear(s) \/ CopyIn(s) \/ ExecTimesOut(s)
        \/ Wipe(s) \/ PlaceFiles(s) \/ Check(s) \/ Compile(s)
        \/ Speak(s) \/ Run(s)
        \/ Collect(s)
        \/ RunEvaluateSh(s) \/ RunSimulateSh(s) \/ Parse(s)

PluginSpec == PluginInit /\ [][PluginNext]_pluginVars

-----------------------------------------------------------------------------
(* Properties *)

(* Metrics are those of a simulation of the submission's own run that      *)
(* ended well: a failed, killed or timed-out one gives none, though it has *)
(* printed numbers. Timeloop takes any block of a challenge's own script,  *)
(* and gem5 and Ramulator take the marker from the submission's own code,  *)
(* which they run: of these a run that failed may be given as one that did *)
(* not, but only if that code has said so.                                 *)
OkIsEarned ==
    \A s \in Jobs :
        task[s].verdict = "sim_ok" =>
            \/ task[s].ended = "well"
            \/ plugin = "timeloop" /\ layout # "inside"
            \/ plugin \in {"gem5", "ramulator"} /\ "SIMULATION_OK" \in task[s].said

(* A submission that no other disturbed is judged by its own files: what   *)
(* earlier ones left in the container shows neither in the numbers nor in  *)
(* the outcome, with or without evaluate.sh. It is told of a failed build  *)
(* if there was one, and otherwise only if its own code says it. DRAMSys   *)
(* is the exception: for an optional file that is left out it goes on with *)
(* an earlier one.                                                         *)
VerdictIsOwn ==
    \A s \in Jobs :
        LET own == Own(s)
            faulty == \/ Incomplete(own) \/ Holds(own, "refused")
                      \/ Holds(own, "lacking") /\ plugin # "astrasim"
        IN
        task[s].calm /\ task[s].verdict # "none" =>
            /\ task[s].verdict = "sim_ok" /\ task[s].ended = "well" =>
                 \A f \in Reads :
                     \/ task[s].ran[f] = own[f]
                     \/ plugin = "dramsys" /\ own[f] = Nobody
            /\ layout = "inside" /\ faulty => task[s].verdict = "build_fail"
            /\ layout = "inside" /\ task[s].verdict = "build_fail" =>
                 faulty \/ "BUILD_FAILED" \in task[s].said

(* What a submission is told is its own doing, for the seven simulators    *)
(* other than ChampSim.                                                    *)
OwnVerdict == OkIsEarned /\ VerdictIsOwn
=============================================================================
