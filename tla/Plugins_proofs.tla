--------------------------- MODULE Plugins_proofs ---------------------------
(***************************************************************************)
(* Proofs about the two ends of a submission: the prediction gate of the   *)
(* loop that asks for it, what keeps its flag honest, and that none starts *)
(* unpredicted but beside another one whose metrics are outstanding, for   *)
(* any number of submissions, turns and calls; and the plugin that runs    *)
(* it.                                                                     *)
(***************************************************************************)
EXTENDS PredictGate, SimulatorPlugins, TLAPS

(***************************************************************************)
(* The prediction gate                                                     *)
(***************************************************************************)
States == {"none", "running", "ok", "failed", "broken"}

(* What the connector and the loop know of the submissions: metrics were   *)
(* reported only of those that ended well, and the flag is earned.         *)
PredictInv ==
    /\ sub \in [Subs -> States]
    /\ seen \subseteq {x \in Subs : sub[x] = "ok"}
    /\ inFlight \in BOOLEAN
    /\ FlagIsEarned

LEMMA PredictInitInv == Init => PredictInv
BY DEF Init, PredictInv, States, FlagIsEarned

(* A reply about a submission in the state it tells keeps the invariant:   *)
(* metrics lower the flag, a submission that still runs raises it.         *)
LEMMA ReplyKeeps ==
    ASSUME PredictInv, NEW x \in Subs, NEW state \in States \ {"none"},
           sub' \in [Subs -> States], sub'[x] = state,
           \A y \in Subs \ {x} : sub'[y] = sub[y],
           sub[x] \in {"none", state}, Bookkeep(x, ReplyOf(state))
    PROVE  PredictInv'
<1> DEFINE r == ReplyOf(state)
<1>1. IsStarted(r) <=> state = "running"
  BY DEF IsStarted, ReplyOf
<1>2. IsResult(r) => state = "ok"
  BY DEF IsResult, ReplyOf, States
<1>3. seen' \subseteq seen \cup {x} /\ (seen' # seen => IsResult(r))
  BY DEF Bookkeep
<1>4. inFlight' = (~Clears(r) /\ (IsStarted(r) \/ inFlight))
  BY DEF Bookkeep
<1>5. seen' \subseteq {y \in Subs : sub'[y] = "ok"}
  BY <1>2, <1>3 DEF PredictInv
<1>6. ASSUME inFlight' PROVE \E y \in Subs : sub'[y] # "none" /\ y \notin seen'
  <2>1. seen' = seen
    BY <1>3, <1>4, <1>6 DEF Clears
  <2>2. CASE state = "running"
    BY <1>5, <2>2 DEF States
  <2>3. CASE state # "running"
    <3>1. PICK y \in Subs : sub[y] # "none" /\ y \notin seen
      BY <1>1, <1>4, <1>6, <2>3 DEF PredictInv, FlagIsEarned
    <3> QED BY <2>1, <3>1
  <2> QED BY <2>2, <2>3
<1> QED BY <1>4, <1>5, <1>6 DEF PredictInv, FlagIsEarned

(* A submission that starts without a word to the loop keeps it, too.      *)
LEMMA SilenceKeeps ==
    ASSUME PredictInv, sub' \in [Subs -> States], seen' = seen,
           inFlight' \in BOOLEAN, inFlight' => inFlight,
           \A y \in Subs : sub[y] \in {"none", "running"} \/ sub'[y] = sub[y],
           \A y \in Subs : sub[y] # "none" => sub'[y] # "none"
    PROVE  PredictInv'
<1>1. seen' \subseteq {y \in Subs : sub'[y] = "ok"}
  BY DEF PredictInv
<1>2. inFlight' => \E y \in Subs : sub'[y] # "none" /\ y \notin seen'
  BY DEF PredictInv, FlagIsEarned
<1> QED BY <1>1, <1>2 DEF PredictInv, FlagIsEarned

LEMMA PredictNextInv == PredictInv /\ [Next]_vars => PredictInv'
<1> SUFFICES ASSUME PredictInv, [Next]_vars PROVE PredictInv'
  OBVIOUS
<1>1. ASSUME UNCHANGED <<sub, seen, inFlight>> PROVE PredictInv'
  BY <1>1 DEF PredictInv, FlagIsEarned
<1>2. ASSUME NEW r, BookkeepNone(r), UNCHANGED sub PROVE PredictInv'
  BY <1>2, SilenceKeeps DEF BookkeepNone, PredictInv
<1>3. CASE LoopEnds \/ NoAnswer \/ TextOnly \/ ToolCalls \/ LocalCall
            \/ Predict \/ SubmitBlocked \/ SessionEnd \/ DeadlinePasses
            \/ UNCHANGED vars
  <2>1. UNCHANGED <<sub, seen, inFlight>>
    BY <1>3 DEF LoopEnds, NoAnswer, TextOnly, ToolCalls, LocalCall, Predict,
                SubmitBlocked, SessionEnd, DeadlinePasses, BeginTurn, vars,
                gateVars
  <2> QED BY <1>1, <2>1
<1>4. CASE Submit
  <2>1. CASE UNCHANGED sub /\ BookkeepNone(LostReply)
    BY <1>2, <2>1
  <2>2. ASSUME NEW x \in Subs, sub[x] = "none",
               sub' = [sub EXCEPT ![x] = "running"],
               Bookkeep(x, ReplyOf("running")) \/ BookkeepNone(LostReply)
        PROVE  PredictInv'
    <3>1. /\ sub' \in [Subs -> States] /\ sub'[x] = "running"
          /\ \A y \in Subs \ {x} : sub'[y] = sub[y]
      BY <2>2 DEF PredictInv, States
    <3>2. CASE Bookkeep(x, ReplyOf("running"))
      BY <2>2, <3>1, <3>2, ReplyKeeps DEF States
    <3>3. CASE BookkeepNone(LostReply)
      BY <2>2, <3>1, <3>3, SilenceKeeps DEF BookkeepNone, PredictInv
    <3> QED BY <2>2, <3>2, <3>3
  <2> QED BY <1>4, <2>1, <2>2 DEF Submit
<1>5. CASE SubmitAndWait
  <2>1. CASE UNCHANGED sub /\ BookkeepNone(LostReply)
    BY <1>2, <2>1
  <2>2. ASSUME NEW x \in Subs, NEW end \in {"ok", "failed", "broken", "running"},
               sub[x] = "none", sub' = [sub EXCEPT ![x] = end],
               \/ Bookkeep(x, ReplyOf(end))
               \/ BookkeepNone(ErrorReply) \/ BookkeepNone(LostReply)
        PROVE  PredictInv'
    <3>1. /\ sub' \in [Subs -> States] /\ sub'[x] = end
          /\ \A y \in Subs \ {x} : sub'[y] = sub[y]
      BY <2>2 DEF PredictInv, States
    <3>2. CASE Bookkeep(x, ReplyOf(end))
      BY <2>2, <3>1, <3>2, ReplyKeeps DEF States
    <3>3. CASE BookkeepNone(ErrorReply) \/ BookkeepNone(LostReply)
      BY <2>2, <3>1, <3>3, SilenceKeeps DEF BookkeepNone, PredictInv
    <3> QED BY <2>2, <3>2, <3>3
  <2> QED BY <1>5, <2>1, <2>2 DEF SubmitAndWait
<1>6. CASE CheckSubmission
  <2>1. UNCHANGED sub
    BY <1>6 DEF CheckSubmission
  <2>2. CASE BookkeepNone(ErrorReply) \/ BookkeepNone(LostReply)
    BY <1>2, <2>1, <2>2
  <2>3. ASSUME NEW x \in Subs, sub[x] # "none", Bookkeep(x, ReplyOf(sub[x]))
        PROVE  PredictInv'
    <3>1. sub[x] \in States \ {"none"} /\ sub' \in [Subs -> States]
      BY <2>1, <2>3 DEF PredictInv
    <3> QED BY <2>1, <2>3, <3>1, ReplyKeeps
  <2> QED BY <1>6, <2>2, <2>3 DEF CheckSubmission
<1>7. ASSUME NEW x \in Subs, SubmissionEnds(x) PROVE PredictInv'
  <2>1. PICK end \in {"ok", "failed", "broken"} : sub' = [sub EXCEPT ![x] = end]
    BY <1>7 DEF SubmissionEnds
  <2>2. sub' \in [Subs -> States] /\ UNCHANGED <<seen, inFlight>>
    BY <1>7, <2>1 DEF SubmissionEnds, PredictInv, States, gateVars
  <2> QED BY <1>7, <2>1, <2>2, SilenceKeeps DEF SubmissionEnds, PredictInv
<1>8. CASE SubmitPrefixed
  <2>1. UNCHANGED <<seen, inFlight>>
    BY <1>8 DEF SubmitPrefixed, gateVars
  <2>2. CASE UNCHANGED sub
    BY <1>1, <2>1, <2>2
  <2>3. ASSUME NEW x \in Subs, NEW end \in States \ {"none"}, sub[x] = "none",
               sub' = [sub EXCEPT ![x] = end]
        PROVE  PredictInv'
    <3>1. sub' \in [Subs -> States] /\ sub'[x] # "none"
          /\ \A y \in Subs \ {x} : sub'[y] = sub[y]
      BY <2>3 DEF PredictInv
    <3> QED BY <2>1, <2>3, <3>1, SilenceKeeps DEF PredictInv
  <2> QED BY <1>8, <2>2, <2>3 DEF SubmitPrefixed, States
<1> QED BY <1>3, <1>4, <1>5, <1>6, <1>7, <1>8 DEF Next, LoopStep

(* The calls of a turn are of tools that there are.                        *)
Offered ==
    /\ calls \in Seq(LocalCalls \cup advertised)
    /\ advertised \in Discovered

LEMMA OfferedInit == Init => Offered
BY DEF Init, Offered

LEMMA OfferedNext == Offered /\ [Next]_vars => Offered'
<1> SUFFICES ASSUME Offered, [Next]_vars PROVE Offered'
  OBVIOUS
<1>1. advertised' = advertised
  BY DEF Next, LoopStep, vars, LoopEnds, NoAnswer, TextOnly, ToolCalls, BeginTurn,
         LocalCall, Predict, SubmitBlocked, Submit, SubmitAndWait, CheckSubmission,
         SessionEnd, SubmitPrefixed, CallMade, DeadlinePasses, SubmissionEnds
<1> DEFINE S == Seq(LocalCalls \cup advertised)
<1>2. calls \in S /\ <<>> \in S /\ (calls # <<>> => Tail(calls) \in S)
  BY DEF Offered
<1>3. CASE ToolCalls
  <2>1. PICK n \in 1..CallsPerTurn :
               \E s \in [1..n -> LocalCalls \cup advertised] : InOrder(s) /\ calls' = s
    BY <1>3 DEF ToolCalls
  <2>2. n \in Nat
    BY GateAssumption
  <2> QED BY <1>1, <2>1, <2>2 DEF Offered
<1>4. CASE LoopEnds \/ NoAnswer \/ TextOnly \/ DeadlinePasses
             \/ (\E x \in Subs : SubmissionEnds(x)) \/ UNCHANGED vars
  <2>1. calls' = calls
    BY <1>4 DEF LoopEnds, NoAnswer, TextOnly, DeadlinePasses, SubmissionEnds, vars
  <2> QED BY <1>1, <2>1 DEF Offered
<1>5. CASE LocalCall \/ Predict \/ SubmitBlocked \/ Submit \/ SubmitAndWait
             \/ CheckSubmission \/ SessionEnd \/ SubmitPrefixed
  <2>1. calls # <<>>
    BY <1>5 DEF LocalCall, Predict, SubmitBlocked, Submit, SubmitAndWait,
                CheckSubmission, SessionEnd, SubmitPrefixed, CallMade
  <2>2. calls' \in {<<>>, Tail(calls)}
    BY <1>5 DEF LocalCall, Predict, SubmitBlocked, Submit, SubmitAndWait,
                CheckSubmission, SessionEnd, SubmitPrefixed, Bookkeep, BookkeepNone
  <2> QED BY <1>1, <1>2, <2>1, <2>2 DEF Offered
<1> QED BY <1>3, <1>4, <1>5 DEF Next, LoopStep

(* The flag of the loop is up only on account of a submission that was     *)
(* started and whose metrics the agent was not given.                      *)
THEOREM FlagEarned == Spec => []FlagIsEarned
<1>1. PredictInv => FlagIsEarned
  BY DEF PredictInv
<1> QED BY PredictInitInv, PredictNextInv, <1>1, PTL DEF Spec

(* However many submissions there are, one starts only with a prediction   *)
(* that has a value, or beside another whose metrics are outstanding, in   *)
(* every session whose tools have the names the loop knows (those of a     *)
(* session with several simulators have not, and pass ungated).            *)
THEOREM GateHolds == Spec => GateCovers
<1> DEFINE Covered ==
      \A x \in Subs :
         advertised \cap PrefixedTools = {} /\ sub[x] = "none" /\ sub'[x] # "none"
         => \/ prediction = "valued"
            \/ \E y \in Subs \ {x} : sub[y] # "none" /\ y \notin seen
<1>1. PredictInv /\ Offered /\ [Next]_vars => [Covered]_vars
  <2> SUFFICES ASSUME PredictInv, Offered, Next, NEW x \in Subs,
                      advertised \cap PrefixedTools = {},
                      sub[x] = "none", sub'[x] # "none"
               PROVE  \/ prediction = "valued"
                      \/ \E y \in Subs \ {x} : sub[y] # "none" /\ y \notin seen
    OBVIOUS
  <2>1. CASE LoopEnds \/ NoAnswer \/ TextOnly \/ ToolCalls \/ LocalCall
              \/ Predict \/ SubmitBlocked \/ SessionEnd \/ DeadlinePasses
              \/ CheckSubmission
    BY <2>1 DEF LoopEnds, NoAnswer, TextOnly, ToolCalls, LocalCall, Predict,
                SubmitBlocked, SessionEnd, DeadlinePasses, BeginTurn,
                CheckSubmission
  <2>2. CASE Submit \/ SubmitAndWait
    <3>1. inFlight \/ prediction = "valued"
      BY <2>2 DEF Submit, SubmitAndWait, NeedPrediction
    <3>2. inFlight => \E y \in Subs \ {x} : sub[y] # "none" /\ y \notin seen
      BY DEF PredictInv, FlagIsEarned
    <3> QED BY <3>1, <3>2
  <2>3. ASSUME NEW z \in Subs, SubmissionEnds(z) PROVE FALSE
    BY <2>3 DEF SubmissionEnds, PredictInv
  <2>4. CASE SubmitPrefixed
    <3>1. PICK c \in PrefixedTools : CallMade(c)
      BY <2>4 DEF SubmitPrefixed, PrefixedTools
    <3>2. c \in LocalCalls \cup advertised
      BY <3>1 DEF CallMade, Offered
    <3> QED BY <3>2 DEF LocalCalls, PrefixedTools
  <2> QED BY <2>1, <2>2, <2>3, <2>4 DEF Next, LoopStep
<1> QED BY PredictInitInv, PredictNextInv, OfferedInit, OfferedNext, <1>1, PTL
        DEF Spec, GateCovers

(***************************************************************************)
(* The plugins                                                             *)
(***************************************************************************)
PhaseNames == ScriptPhases \cup {"clear", "copy", "evaluate", "simulate", "parse"}
Words == {"BUILD_FAILED", "VALIDATION_FAILED", "SIMULATION_OK", "json", "text", "cost"}
Outcomes == {"none", "validation_reject", "sim_ok", "build_fail", "sim_timeout"}
Holdings == [Files -> Jobs \cup {Nobody}]

Tasks == [files : [Files -> Qualities], todo : Seq(PhaseNames), copy : SUBSET Files,
          out : SUBSET Words, said : SUBSET Words, ran : Holdings, ended : {"not", "well", "badly"},
          calm : BOOLEAN, verdict : Outcomes]
Speaking == {"run_copies", "run_made", "collect"}

(* What is left after k phases, and which those were.                      *)
From(k) == [i \in 1..(Len(Phases) - k) |-> Phases[i + k]]
Passed(k, phase) == \E j \in 1..k : Phases[j] = phase
Checks == {"check_staged", "check_copies", "build"}

(* A submission's own files that are looked at, and what is wrong with     *)
(* them.                                                                   *)
Mine(s) == Reads \cap Shipped(s)
Bad(s) ==
    \/ \A n \in Suffices : ~(n \subseteq Mine(s))
    \/ \E f \in Mine(s) :
         \/ task[s].files[f] = "refused"
         \/ task[s].files[f] = "lacking" /\ plugin # "astrasim"

(* The files at a place are those of the submission.                       *)
Agrees(s, place) ==
    \A f \in Reads : \/ place[f] = Own(s)[f]
                     \/ plugin = "dramsys" /\ f \notin Shipped(s)

(* Nothing has run before the script gets to it, or said anything.         *)
Waiting(s, k) ==
    /\ task[s].todo = From(k)
    /\ task[s].out \subseteq {"cost"} \cup task[s].said
    /\ task[s].said # {} => Phases[k + 1] \in Speaking
    /\ task[s].ended = IF Phases[k + 1] = "collect" THEN "well" ELSE "not"

(* Metrics are said to be of a simulation that ended well.                 *)
EarnedInv(s) ==
    /\ task[s].said # {} => plugin \in {"gem5", "ramulator"} /\ layout = "inside"
    /\ "SIMULATION_OK" \in task[s].out =>
         task[s].ended = "well" \/ "SIMULATION_OK" \in task[s].said
    /\ "json" \in task[s].out =>
         task[s].ended = "well" \/ layout # "inside" \/ task[s].said # {}
    /\ task[s].verdict = "sim_ok" =>
         \/ task[s].ended = "well"
         \/ plugin = "timeloop" /\ layout # "inside"
         \/ "SIMULATION_OK" \in task[s].said

(* What is known of a submission that is judged undisturbed.               *)
JudgedInv(s) ==
    /\ task[s].ended = "well" => Agrees(s, task[s].ran)
    /\ layout = "inside" =>
         /\ Bad(s) => task[s].verdict = "build_fail"
         /\ task[s].verdict = "build_fail" => Bad(s) \/ "BUILD_FAILED" \in task[s].said

(* What a submission's own record says of it.                              *)
LocalInv(s) ==
    /\ task[s] \in Tasks
    /\ \/ task[s].todo \in {<<>>, <<"parse">>}
       \/ \E k \in 0..(Len(Phases) - 2) : Waiting(s, k)
    /\ task[s].todo # <<>> => task[s].verdict = "none"
    /\ task[s].todo # <<>> /\ plugin \in {"gem5", "scalesim"} => "main" \in Shipped(s)
    /\ EarnedInv(s)
    /\ task[s].calm /\ task[s].verdict # "none" => JudgedInv(s)

(* How far the script has got with it, undisturbed.                        *)
Stage(s, k) ==
    /\ k = 0 => task[s].copy = Shipped(s)
    /\ k = 1 => \A f \in Files :
                  staged[f] = IF f \in Shipped(s) \ task[s].copy THEN s ELSE Nobody
    /\ k = 1 => task[s].copy \subseteq Shipped(s)
    /\ k >= 2 => staged = Own(s)
    /\ Passed(k, "wipe") /\ ~Passed(k, "place") => copies = NoFiles
    /\ Passed(k, "place") => Agrees(s, copies)
    /\ (\E c \in Checks : Passed(k, c)) => ~Bad(s)
    /\ Passed(k, "build") => Agrees(s, made)
    /\ Passed(k, "run_copies") => Agrees(s, made) /\ Laid(made) # {}

(* What it has printed, undisturbed.                                       *)
PrintedInv(s) ==
    /\ task[s].ended = "well" => Agrees(s, task[s].ran)
    /\ layout = "inside" =>
         /\ Bad(s) => /\ "BUILD_FAILED" \in task[s].out
                      /\ "VALIDATION_FAILED" \notin task[s].out
                      /\ "SIMULATION_OK" \notin task[s].out
                      /\ "json" \notin task[s].out
         /\ "BUILD_FAILED" \in task[s].out => Bad(s) \/ "BUILD_FAILED" \in task[s].said

(* A submission that is undisturbed is alone, and what has become of it so *)
(* far is its own doing.                                                   *)
AloneInv(s) == task[s].calm /\ task[s].todo # <<>> => Active = {s}
CourseInv(s) ==
    task[s].calm =>
        /\ task[s].todo = <<"parse">> => PrintedInv(s)
        /\ \A k \in 0..(Len(Phases) - 2) : task[s].todo = From(k) => Stage(s, k)

PluginTypes ==
    /\ plugin \in Plugins /\ layout \in Layouts
    /\ plugin \in {"dramsys", "ramulator"} => layout # "simulate"
    /\ staged \in Holdings /\ copies \in Holdings /\ made \in Holdings
    /\ DOMAIN task = Jobs

PluginInv ==
    PluginTypes /\ \A s \in Jobs : LocalInv(s) /\ AloneInv(s) /\ CourseInv(s)

(* What the order of the phases ensures when the next one comes.           *)
Coming(k) ==
    LET next == Phases[k + 1] IN
    /\ next \in PhaseNames \ {"parse"}
    /\ k = 0 => next \in {"clear", "evaluate"}
    /\ k = 1 <=> next = "copy"
    /\ next = "clear" => k = 0
    /\ next \in ScriptPhases => k >= 2 /\ layout = "inside"
    /\ next = "evaluate" => layout = "evaluate"
    /\ next = "simulate" => k >= 2 /\ layout = "simulate"
    /\ \/ next \in {"clear", "copy", "wipe", "place"} \cup Checks
       \/ next = "run_copies" /\ plugin # "dramsys"
       => k + 1 <= Len(Phases) - 2 /\ (Phases[k + 2] = "collect" <=> next = "run_copies")
    /\ next = "wipe" =>
         \A p \in {"place", "build", "run_copies"} : ~Passed(k, p)
    /\ next = "place" =>
         \/ Passed(k, "wipe") /\ ~Passed(k, "place")
         \/ plugin \in {"scalesim", "dramsys"}
    /\ next \in {"check_copies", "build", "run_copies"} => Passed(k, "place")
    /\ next = "check_copies" => plugin # "dramsys"
    /\ next = "build" => plugin = "ramulator" /\ ~Passed(k, "run_copies")
    /\ next = "run_made" => Passed(k, "build")
    /\ next \in {"run_staged", "run_copies", "run_made", "collect"} =>
         \E c \in Checks : Passed(k, c)
    /\ next \in {"run_staged", "run_made"} => plugin \notin {"timeloop", "gem5"}
    /\ next = "run_copies" => plugin \in {"timeloop", "gem5", "dramsys"}
    /\ next = "collect" => Passed(k, "run_copies") /\ plugin \in {"timeloop", "gem5"}

Ordered ==
    /\ Phases \in Seq(PhaseNames) /\ Len(Phases) >= 2
    /\ Phases[Len(Phases)] = "parse"
    /\ \A k \in 0..(Len(Phases) - 2) : Coming(k)

(* In each plugin, and with each kind of script.                            *)
LEMMA EvaluateOrder ==
    ASSUME layout = "evaluate", plugin \in Plugins PROVE Ordered
<1>1. /\ Phases \in Seq(PhaseNames) /\ Len(Phases) = 2
      /\ Phases[1] = "evaluate" /\ Phases[2] = "parse"
  <2>1. CASE plugin = "timeloop"
    BY <2>1 DEF Phases, TimeloopSubmit, TimeloopScript, EitherScript, EvaluateOnly,
              PhaseNames, ScriptPhases
  <2>2. CASE plugin = "gem5"
    BY <2>2 DEF Phases, Gem5Submit, Gem5Script, EitherScript, EvaluateOnly,
              PhaseNames, ScriptPhases
  <2>3. CASE plugin = "dramsys"
    BY <2>3 DEF Phases, DRAMSysSubmit, DRAMSysScript, EvaluateOnly,
              PhaseNames, ScriptPhases
  <2>4. CASE plugin = "ramulator"
    BY <2>4 DEF Phases, RamulatorSubmit, RamulatorScript, EvaluateOnly,
              PhaseNames, ScriptPhases
  <2>5. CASE plugin = "scalesim"
    BY <2>5 DEF Phases, ScaleSimSubmit, ScaleSimScript, EitherScript, EvaluateOnly,
              PhaseNames, ScriptPhases
  <2>6. CASE plugin = "mnsim"
    BY <2>6 DEF Phases, MNSIMSubmit, MNSIMScript, EitherScript, EvaluateOnly,
              PhaseNames, ScriptPhases
  <2>7. CASE plugin = "astrasim"
    BY <2>7 DEF Phases, AstraSimSubmit, AstraSimScript, EitherScript, EvaluateOnly,
              PhaseNames, ScriptPhases
  <2> QED BY <2>1, <2>2, <2>3, <2>4, <2>5, <2>6, <2>7, PluginAssumption
<1>2. \A k \in 0..(Len(Phases) - 2) : Coming(k)
  BY <1>1 DEF Coming, Passed, Checks, ScriptPhases, PhaseNames
<1> QED BY <1>1, <1>2 DEF Ordered

LEMMA SimulateOrder ==
    ASSUME layout = "simulate", plugin \in Plugins \ {"dramsys", "ramulator"} PROVE Ordered
<1>1. /\ Phases \in Seq(PhaseNames) /\ Len(Phases) = 4
      /\ Phases[1] = "clear" /\ Phases[2] = "copy" /\
         Phases[3] = "simulate" /\ Phases[4] = "parse"
  <2>1. CASE plugin = "timeloop"
    BY <2>1 DEF Phases, TimeloopSubmit, TimeloopScript, EitherScript, EvaluateOnly,
              PhaseNames, ScriptPhases
  <2>2. CASE plugin = "gem5"
    BY <2>2 DEF Phases, Gem5Submit, Gem5Script, EitherScript, EvaluateOnly,
              PhaseNames, ScriptPhases
  <2>3. CASE plugin = "scalesim"
    BY <2>3 DEF Phases, ScaleSimSubmit, ScaleSimScript, EitherScript, EvaluateOnly,
              PhaseNames, ScriptPhases
  <2>4. CASE plugin = "mnsim"
    BY <2>4 DEF Phases, MNSIMSubmit, MNSIMScript, EitherScript, EvaluateOnly,
              PhaseNames, ScriptPhases
  <2>5. CASE plugin = "astrasim"
    BY <2>5 DEF Phases, AstraSimSubmit, AstraSimScript, EitherScript, EvaluateOnly,
              PhaseNames, ScriptPhases
  <2> QED BY <2>1, <2>2, <2>3, <2>4, <2>5, PluginAssumption
<1>2. \A k \in 0..(Len(Phases) - 2) : Coming(k)
  BY <1>1 DEF Coming, Passed, Checks, ScriptPhases, PhaseNames
<1> QED BY <1>1, <1>2 DEF Ordered

LEMMA TimeloopOrder ==
    ASSUME layout = "inside", plugin = "timeloop" PROVE Ordered
<1>1. /\ Phases \in Seq(PhaseNames) /\ Len(Phases) = 8
      /\ Phases[1] = "clear" /\ Phases[2] = "copy" /\ Phases[3] = "wipe" /\
         Phases[4] = "place" /\ Phases[5] = "check_copies" /\
         Phases[6] = "run_copies" /\ Phases[7] = "collect" /\
         Phases[8] = "parse"
  BY DEF Phases, TimeloopSubmit, TimeloopScript, EitherScript, EvaluateOnly,
            PhaseNames, ScriptPhases
<1>2. \A k \in 0..(Len(Phases) - 2) : Coming(k)
  BY <1>1 DEF Coming, Passed, Checks, ScriptPhases, PhaseNames
<1> QED BY <1>1, <1>2 DEF Ordered

LEMMA Gem5Order ==
    ASSUME layout = "inside", plugin = "gem5" PROVE Ordered
<1>1. /\ Phases \in Seq(PhaseNames) /\ Len(Phases) = 8
      /\ Phases[1] = "clear" /\ Phases[2] = "copy" /\ Phases[3] = "wipe" /\
         Phases[4] = "check_staged" /\ Phases[5] = "place" /\
         Phases[6] = "run_copies" /\ Phases[7] = "collect" /\
         Phases[8] = "parse"
  BY DEF Phases, Gem5Submit, Gem5Script, EitherScript, EvaluateOnly,
            PhaseNames, ScriptPhases
<1>2. \A k \in 0..(Len(Phases) - 2) : Coming(k)
  BY <1>1 DEF Coming, Passed, Checks, ScriptPhases, PhaseNames
<1> QED BY <1>1, <1>2 DEF Ordered

LEMMA DRAMSysOrder ==
    ASSUME layout = "inside", plugin = "dramsys" PROVE Ordered
<1>1. /\ Phases \in Seq(PhaseNames) /\ Len(Phases) = 6
      /\ Phases[1] = "clear" /\ Phases[2] = "copy" /\
         Phases[3] = "check_staged" /\ Phases[4] = "place" /\
         Phases[5] = "run_copies" /\ Phases[6] = "parse"
  BY DEF Phases, DRAMSysSubmit, DRAMSysScript, EvaluateOnly,
            PhaseNames, ScriptPhases
<1>2. \A k \in 0..(Len(Phases) - 2) : Coming(k)
  BY <1>1 DEF Coming, Passed, Checks, ScriptPhases, PhaseNames
<1> QED BY <1>1, <1>2 DEF Ordered

LEMMA RamulatorOrder ==
    ASSUME layout = "inside", plugin = "ramulator" PROVE Ordered
<1>1. /\ Phases \in Seq(PhaseNames) /\ Len(Phases) = 7
      /\ Phases[1] = "clear" /\ Phases[2] = "copy" /\ Phases[3] = "wipe" /\
         Phases[4] = "place" /\ Phases[5] = "build" /\
         Phases[6] = "run_made" /\ Phases[7] = "parse"
  BY DEF Phases, RamulatorSubmit, RamulatorScript, EvaluateOnly,
            PhaseNames, ScriptPhases
<1>2. \A k \in 0..(Len(Phases) - 2) : Coming(k)
  BY <1>1 DEF Coming, Passed, Checks, ScriptPhases, PhaseNames
<1> QED BY <1>1, <1>2 DEF Ordered

LEMMA ScaleSimOrder ==
    ASSUME layout = "inside", plugin = "scalesim" PROVE Ordered
<1>1. /\ Phases \in Seq(PhaseNames) /\ Len(Phases) = 7
      /\ Phases[1] = "clear" /\ Phases[2] = "copy" /\
         Phases[3] = "check_staged" /\ Phases[4] = "place" /\
         Phases[5] = "check_copies" /\ Phases[6] = "run_staged" /\
         Phases[7] = "parse"
  BY DEF Phases, ScaleSimSubmit, ScaleSimScript, EitherScript, EvaluateOnly,
            PhaseNames, ScriptPhases
<1>2. \A k \in 0..(Len(Phases) - 2) : Coming(k)
  BY <1>1 DEF Coming, Passed, Checks, ScriptPhases, PhaseNames
<1> QED BY <1>1, <1>2 DEF Ordered

LEMMA SimOrder ==
    ASSUME layout = "inside", plugin \in {"mnsim", "astrasim"} PROVE Ordered
<1>1. /\ Phases \in Seq(PhaseNames) /\ Len(Phases) = 5
      /\ Phases[1] = "clear" /\ Phases[2] = "copy" /\
         Phases[3] = "check_staged" /\ Phases[4] = "run_staged" /\
         Phases[5] = "parse"
  <2>1. CASE plugin = "mnsim"
    BY <2>1 DEF Phases, MNSIMSubmit, MNSIMScript, EitherScript, EvaluateOnly,
              PhaseNames, ScriptPhases
  <2>2. CASE plugin = "astrasim"
    BY <2>2 DEF Phases, AstraSimSubmit, AstraSimScript, EitherScript, EvaluateOnly,
              PhaseNames, ScriptPhases
  <2> QED BY <2>1, <2>2, PluginAssumption
<1>2. \A k \in 0..(Len(Phases) - 2) : Coming(k)
  BY <1>1 DEF Coming, Passed, Checks, ScriptPhases, PhaseNames
<1> QED BY <1>1, <1>2 DEF Ordered

LEMMA PhasesOrdered == PluginTypes => Ordered
BY EvaluateOrder, SimulateOrder, TimeloopOrder, Gem5Order, DRAMSysOrder,
   RamulatorOrder, ScaleSimOrder, SimOrder, PluginAssumption
   DEF PluginTypes, Layouts

LEMMA FromPhases ==
    ASSUME Ordered, NEW k \in 0..(Len(Phases) - 2)
    PROVE  /\ k \in Nat /\ Coming(k)
           /\ From(k) \in Seq(PhaseNames) /\ Len(From(k)) = Len(Phases) - k
           /\ From(k) # <<>> /\ From(k) # <<"parse">> /\ Head(From(k)) = Phases[k + 1]
           /\ k + 1 <= Len(Phases) - 2 => Tail(From(k)) = From(k + 1)
           /\ \A j \in 0..(Len(Phases) - 2) : From(j) = From(k) => j = k
<1>1. Len(Phases) \in Nat /\ Phases \in Seq(PhaseNames) /\ Coming(k) /\ k \in Nat
  BY DEF Ordered
<1>2. \A j \in 0..(Len(Phases) - 2) :
        From(j) \in Seq(PhaseNames) /\ Len(From(j)) = Len(Phases) - j
  BY <1>1 DEF From
<1>3. Len(From(k)) >= 2
  BY <1>1, <1>2
<1>4. From(k) # <<>> /\ From(k) # <<"parse">>
  <2>1. Len(From(k)) # 0 /\ Len(From(k)) # 1
    <3>1. Len(From(k)) = Len(Phases) - k
      BY <1>2
    <3> QED BY <1>1, <3>1
  <2>2. Len(<<>>) = 0 /\ Len(<<"parse">>) = 1
    OBVIOUS
  <2>3. From(k) # <<>>
    BY <2>1, <2>2, Zenon
  <2>4. From(k) # <<"parse">>
    BY <2>1, <2>2, Zenon
  <2> QED BY <2>3, <2>4
<1>5. Head(From(k)) = Phases[k + 1]
  BY <1>1, <1>2, <1>3 DEF From
<1>6. ASSUME k + 1 <= Len(Phases) - 2 PROVE Tail(From(k)) = From(k + 1)
  BY <1>1, <1>2, <1>3, <1>6, SMTT(20) DEF From
<1>7. ASSUME NEW j \in 0..(Len(Phases) - 2), From(j) = From(k) PROVE j = k
  BY <1>1, <1>2, <1>7
<1> QED BY <1>1, <1>2, <1>4, <1>5, <1>6, <1>7

LEMMA AllFrom == ASSUME Ordered PROVE 0 \in 0..(Len(Phases) - 2) /\ Phases = From(0)
BY DEF Ordered, From

LEMMA PassedMore ==
    ASSUME NEW k \in Nat, NEW p
    PROVE  Passed(k + 1, p) <=> Passed(k, p) \/ Phases[k + 1] = p
BY DEF Passed

LEMMA PassedNone ==
    ASSUME NEW p
    PROVE  ~Passed(0, p) /\ (Passed(1, p) <=> Phases[1] = p)
           /\ (Passed(2, p) <=> Phases[1] = p \/ Phases[2] = p)
BY DEF Passed

(* The session's simulator and layout stay.                                *)
LEMMA SetupStays ==
    ASSUME plugin' = plugin, layout' = layout
    PROVE  /\ Phases' = Phases /\ Reads' = Reads /\ Suffices' = Suffices
           /\ \A k : From(k)' = From(k)
           /\ \A k, p : Passed(k, p)' <=> Passed(k, p)
<1>1. Phases' = Phases
  BY DEF Phases, TimeloopSubmit, Gem5Submit, DRAMSysSubmit, RamulatorSubmit,
         ScaleSimSubmit, MNSIMSubmit, AstraSimSubmit
<1>2. Reads' = Reads /\ Suffices' = Suffices
  BY DEF Reads, Suffices, Expected
<1> QED BY <1>1, <1>2 DEF From, Passed

LEMMA OwnStays ==
    ASSUME plugin' = plugin, layout' = layout, NEW s, task'[s].files = task[s].files
    PROVE  /\ Shipped(s)' = Shipped(s) /\ Own(s)' = Own(s) /\ Mine(s)' = Mine(s)
           /\ Bad(s)' <=> Bad(s)
<1>1. Shipped(s)' = Shipped(s)
  BY DEF Shipped
<1>2. Own(s)' = Own(s) /\ Mine(s)' = Mine(s)
  BY <1>1, SetupStays DEF Own, Mine
<1> QED BY <1>1, <1>2, SetupStays DEF Bad

LEMMA AgreesStays ==
    ASSUME plugin' = plugin, layout' = layout, NEW s, task'[s].files = task[s].files
    PROVE  \A place : (\A f \in Reads' : \/ place[f] = Own(s)'[f]
                                         \/ plugin' = "dramsys" /\ f \notin Shipped(s)')
                      <=> Agrees(s, place)
BY SetupStays, OwnStays DEF Agrees

LEMMA LocalStays ==
    ASSUME plugin' = plugin, layout' = layout, NEW t,
           task'[t] = task[t], LocalInv(t)
    PROVE  LocalInv(t)'
<1>1. \A k : Waiting(t, k)' <=> Waiting(t, k)
  BY SetupStays DEF Waiting
<1>2. Shipped(t)' = Shipped(t) /\ (JudgedInv(t)' <=> JudgedInv(t))
  BY OwnStays, AgreesStays DEF JudgedInv, Agrees
<1>3. EarnedInv(t)' <=> EarnedInv(t)
  BY DEF EarnedInv
<1> QED BY <1>1, <1>2, <1>3, SetupStays DEF LocalInv, Tasks, Holdings

LEMMA StopFields ==
    ASSUME NEW t, task[t] \in Tasks, NEW out \in SUBSET Words
    PROVE  /\ Stop(t, out) \in Tasks
           /\ Stop(t, out).todo = <<"parse">> /\ Stop(t, out).out = task[t].out \cup out
           /\ Stop(t, out).files = task[t].files /\ Stop(t, out).copy = task[t].copy
           /\ Stop(t, out).said = task[t].said
           /\ Stop(t, out).ran = task[t].ran /\ Stop(t, out).ended = task[t].ended
           /\ Stop(t, out).calm = task[t].calm /\ Stop(t, out).verdict = task[t].verdict
<1>1. <<"parse">> \in Seq(PhaseNames)
  BY DEF PhaseNames
<1>2. task[t].out \cup out \in SUBSET Words
  BY DEF Tasks
<1>3. Stop(t, out) = [task[t] EXCEPT !.todo = <<"parse">>, !.out = task[t].out \cup out]
  BY DEF Stop
<1> HIDE DEF Stop
<1> QED BY <1>1, <1>2, <1>3 DEF Tasks

LEMMA StopsOnly ==
    ASSUME NEW t, task[t] \in Tasks
    PROVE  /\ Stop(t, {}) \in Tasks
           /\ Stop(t, {}).todo = <<"parse">> /\ Stop(t, {}).out = task[t].out
           /\ Stop(t, {}).said = task[t].said
           /\ Stop(t, {}).files = task[t].files /\ Stop(t, {}).ended = task[t].ended
           /\ Stop(t, {}).calm = task[t].calm /\ Stop(t, {}).verdict = task[t].verdict
<1>1. <<"parse">> \in Seq(PhaseNames)
  BY DEF PhaseNames
<1>2. Stop(t, {}) = [task[t] EXCEPT !.todo = <<"parse">>, !.out = task[t].out]
  <2>1. task[t].out \cup {} = task[t].out
    OBVIOUS
  <2> QED BY <2>1 DEF Stop
<1> HIDE DEF Stop
<1> QED BY <1>1, <1>2 DEF Tasks

(* A step of s leaves the others alone, or ends their scripts: it disturbs *)
(* none that was undisturbed.                                              *)
LEMMA PluginFrame ==
    ASSUME PluginInv, NEW s \in Jobs, task[s].todo # <<>>,
           plugin' = plugin, layout' = layout,
           staged' \in Holdings, copies' \in Holdings, made' \in Holdings,
           DOMAIN task' = Jobs,
           \A t \in Jobs \ {s} : \/ task'[t] = task[t]
                                 \/ Running(t) /\ task'[t] = Stop(t, {}),
           LocalInv(s)', task'[s].calm => task[s].calm, CourseInv(s)'
    PROVE  PluginInv'
<1>1. PluginTypes'
  BY SetupStays DEF PluginInv, PluginTypes, Holdings
<1>2. ASSUME NEW t \in Jobs \ {s}
      PROVE  /\ task'[t].calm = task[t].calm
             /\ task[t].todo = <<>> => task'[t].todo = <<>>
             /\ LocalInv(t)'
  <2>1. CASE task'[t] = task[t]
    BY <2>1, LocalStays DEF PluginInv
  <2>2. CASE Running(t) /\ task'[t] = Stop(t, {})
    <3>1. /\ task[t] \in Tasks /\ task[t].todo # <<>> /\ LocalInv(t)
      BY <2>2 DEF PluginInv, LocalInv, Running
    <3>3. task'[t] \in Tasks /\ task'[t].todo = <<"parse">>
          /\ task'[t].out = task[t].out /\ task'[t].files = task[t].files
          /\ task'[t].said = task[t].said
          /\ task'[t].ended = task[t].ended /\ task'[t].verdict = task[t].verdict
          /\ task'[t].calm = task[t].calm
      BY <2>2, <3>1, StopsOnly
    <3>4. Shipped(t)' = Shipped(t)
      BY <3>3 DEF Shipped
    <3>5. LocalInv(t)'
      BY <3>1, <3>3, <3>4 DEF LocalInv, EarnedInv, Tasks, Holdings
    <3> QED BY <3>1, <3>3, <3>5
  <2> QED BY <2>1, <2>2
<1>3. ASSUME NEW t \in Jobs \ {s}, task[t].calm PROVE task[t].todo = <<>>
  BY <1>3 DEF PluginInv, AloneInv, Active
<1>4. ASSUME NEW t \in Jobs \ {s} PROVE AloneInv(t)' /\ CourseInv(t)'
  <2>1. SUFFICES ASSUME task'[t].calm PROVE task'[t].todo = <<>>
    <3>1. \A k \in 0..(Len(Phases) - 2) : From(k) # <<>>
      BY FromPhases, PhasesOrdered DEF PluginInv
    <3>2. \A k \in 0..(Len(Phases') - 2) : From(k)' # <<>>
      BY <3>1, SetupStays
    <3> QED BY <2>1, <3>2, <<>> # <<"parse">> DEF AloneInv, CourseInv
  <2> QED BY <2>1, <1>2, <1>3
<1>5. AloneInv(s)'
  <2>1. SUFFICES ASSUME task'[s].calm, task'[s].todo # <<>> PROVE Active' = {s}
    BY DEF AloneInv
  <2>2. Active = {s}
    BY <2>1 DEF PluginInv, AloneInv
  <2>3. \A t \in Jobs \ {s} : task[t].todo = <<>>
    BY <2>2 DEF Active
  <2> QED BY <1>2, <2>1, <2>3 DEF Active
<1> QED BY <1>1, <1>2, <1>4, <1>5 DEF PluginInv

(* Where a submission is whose next phase is due.                          *)
LEMMA AtPhase ==
    ASSUME PluginInv, NEW s \in Jobs, NEW phase, phase # "parse", Due(s, phase)
    PROVE  /\ PluginTypes /\ Ordered
           /\ task[s] \in Tasks /\ task[s].todo # <<>> /\ task[s].verdict = "none"
           /\ EarnedInv(s)
           /\ \E k \in 0..(Len(Phases) - 2) :
                /\ k \in Nat /\ Waiting(s, k) /\ Phases[k + 1] = phase /\ Coming(k)
                /\ task[s].calm => Stage(s, k)
<1>1. LocalInv(s) /\ CourseInv(s) /\ PluginTypes /\ Ordered
  BY PhasesOrdered DEF PluginInv
<1>2. task[s].todo # <<>> /\ Head(task[s].todo) = phase
  BY DEF Due
<1>3. task[s].todo # <<"parse">>
  BY <1>2
<1>4. PICK k \in 0..(Len(Phases) - 2) : Waiting(s, k)
  BY <1>1, <1>2, <1>3 DEF LocalInv
<1>5. Phases[k + 1] = phase /\ Coming(k) /\ k \in Nat /\ (task[s].calm => Stage(s, k))
  BY <1>1, <1>2, <1>4, FromPhases DEF Waiting, CourseInv
<1> QED BY <1>1, <1>2, <1>4, <1>5 DEF LocalInv

(* A step that ends the script or raises.                                  *)
LEMMA Stopped ==
    ASSUME PluginInv, NEW s \in Jobs, task[s].todo # <<>>,
           plugin' = plugin, layout' = layout,
           task'[s] \in Tasks, task'[s].todo \in {<<>>, <<"parse">>},
           task'[s].files = task[s].files,
           task'[s].verdict = IF task'[s].todo = <<>> THEN "sim_timeout" ELSE "none",
           EarnedInv(s)', task'[s].calm => task'[s].todo # <<>> /\ PrintedInv(s)'
    PROVE  LocalInv(s)' /\ CourseInv(s)'
<1>1. LocalInv(s) /\ Ordered
  BY PhasesOrdered DEF PluginInv
<1>2. Shipped(s)' = Shipped(s)
  BY DEF Shipped
<1>3. LocalInv(s)'
  BY <1>1, <1>2 DEF LocalInv
<1>4. \A k \in 0..(Len(Phases') - 2) : task'[s].todo # From(k)'
  BY <1>1, SetupStays, FromPhases
<1> QED BY <1>3, <1>4 DEF CourseInv

LEMMA SetsFrame ==
    ASSUME PluginInv, NEW s \in Jobs, NEW r, Sets(s, r)
    PROVE  /\ DOMAIN task' = Jobs /\ task'[s] = r
           /\ \A t \in Jobs \ {s} : task'[t] = task[t]
BY DEF PluginInv, PluginTypes, Sets

(* Of a script that is ended undisturbed the output says what was wrong.   *)
LEMMA StopKeeps ==
    ASSUME PluginInv, NEW s \in Jobs, NEW phase, phase # "parse", Due(s, phase),
           plugin' = plugin, layout' = layout,
           staged' \in Holdings, copies' \in Holdings, made' \in Holdings,
           NEW out \in SUBSET Words, NEW ran \in Holdings,
           NEW ended \in {"not", "well", "badly"},
           Sets(s, [Stop(s, out) EXCEPT !.ended = ended, !.ran = ran]),
           "SIMULATION_OK" \in out => ended = "well",
           "json" \in out => ended = "well" \/ layout # "inside",
           task[s].calm =>
             /\ ended = "well" => Agrees(s, ran)
             /\ layout = "inside" =>
                  /\ "BUILD_FAILED" \in out <=> Bad(s)
                  /\ "VALIDATION_FAILED" \notin out
                  /\ "BUILD_FAILED" \in out =>
                       "SIMULATION_OK" \notin out /\ "json" \notin out
    PROVE  PluginInv'
<1> DEFINE r == [Stop(s, out) EXCEPT !.ended = ended, !.ran = ran]
<1>1. /\ task[s] \in Tasks /\ task[s].todo # <<>> /\ task[s].verdict = "none"
      /\ task[s].out \subseteq {"cost"} \cup task[s].said /\ EarnedInv(s)
      /\ task[s].calm => task[s].said = {} \/ ~Bad(s)
  <2>1. PICK k \in 0..(Len(Phases) - 2) :
          /\ Waiting(s, k) /\ Phases[k + 1] = phase /\ Coming(k)
          /\ task[s].calm => Stage(s, k)
    BY AtPhase
  <2>2. /\ task[s] \in Tasks /\ task[s].todo # <<>> /\ task[s].verdict = "none"
        /\ EarnedInv(s)
    BY AtPhase
  <2>3. task[s].out \subseteq {"cost"} \cup task[s].said
    BY <2>1 DEF Waiting
  <2>4. task[s].calm /\ task[s].said # {} => ~Bad(s)
    BY <2>1 DEF Waiting, Coming, Stage, Speaking
  <2> QED BY <2>2, <2>3, <2>4
<1>2. /\ r \in Tasks /\ r.todo = <<"parse">> /\ r.out = task[s].out \cup out
      /\ r.said = task[s].said
      /\ r.files = task[s].files /\ r.ended = ended /\ r.ran = ran
      /\ r.calm = task[s].calm /\ r.verdict = task[s].verdict
  <2>1. Stop(s, out) \in Tasks
    BY <1>1, StopFields
  <2>2. /\ r \in Tasks /\ r.todo = Stop(s, out).todo /\ r.out = Stop(s, out).out
        /\ r.said = Stop(s, out).said
        /\ r.files = Stop(s, out).files /\ r.ended = ended /\ r.ran = ran
        /\ r.calm = Stop(s, out).calm /\ r.verdict = Stop(s, out).verdict
    BY <2>1 DEF Tasks
  <2> HIDE DEF r
  <2> QED BY <1>1, <2>2, StopFields
<1>3. /\ DOMAIN task' = Jobs /\ task'[s] = r
      /\ \A t \in Jobs \ {s} : task'[t] = task[t]
  BY SetsFrame
<1> HIDE DEF r
<1>4. EarnedInv(s)'
  BY <1>1, <1>2, <1>3 DEF EarnedInv
<1>5. ASSUME task[s].calm PROVE PrintedInv(s)'
  <2>1. ended = "well" => Agrees(s, task[s].ran)'
    BY <1>2, <1>3, <1>5, AgreesStays DEF Agrees
  <2>2. Bad(s)' <=> Bad(s)
    BY <1>2, <1>3, OwnStays
  <2> QED BY <1>1, <1>2, <1>3, <1>5, <2>1, <2>2 DEF PrintedInv
<1>6. LocalInv(s)' /\ CourseInv(s)'
  <2>1. task'[s].todo = <<"parse">> /\ task'[s].todo # <<>>
    BY <1>2, <1>3, <<"parse">> # <<>>
  <2> QED BY <1>1, <1>2, <1>3, <1>4, <1>5, <2>1, Stopped
<1> QED BY <1>1, <1>2, <1>3, <1>6, PluginFrame

LEMMA OnwardFields ==
    ASSUME NEW s, task[s] \in Tasks, task[s].todo # <<>>
    PROVE  /\ Onward(s) \in Tasks
           /\ Onward(s).todo = Tail(task[s].todo) /\ Onward(s).out = task[s].out
           /\ Onward(s).said = task[s].said
           /\ Onward(s).files = task[s].files /\ Onward(s).copy = task[s].copy
           /\ Onward(s).ran = task[s].ran /\ Onward(s).ended = task[s].ended
           /\ Onward(s).calm = task[s].calm /\ Onward(s).verdict = task[s].verdict
<1>1. task[s].todo \in Seq(PhaseNames)
  BY DEF Tasks
<1>2. Tail(task[s].todo) \in Seq(PhaseNames)
  BY <1>1
<1>3. Onward(s) = [task[s] EXCEPT !.todo = Tail(task[s].todo)]
  BY DEF Onward
<1> HIDE DEF Onward
<1> QED BY <1>2, <1>3 DEF Tasks

(* A step to the next phase.                                               *)
LEMMA Moves ==
    ASSUME PluginInv, NEW s \in Jobs, plugin' = plugin, layout' = layout,
           NEW k \in 0..(Len(Phases) - 2), Waiting(s, k), Coming(k),
           \/ Phases[k + 1] \in {"clear", "copy", "wipe", "place"} \cup Checks
           \/ Phases[k + 1] = "run_copies" /\ plugin # "dramsys",
           task'[s] \in Tasks, task'[s].todo = Tail(task[s].todo),
           task'[s].files = task[s].files, task'[s].verdict = "none",
           task'[s].out \subseteq {"cost"} \cup task'[s].said,
           task'[s].said = task[s].said,
           task'[s].ended =
             IF Phases[k + 1] = "run_copies" THEN "well" ELSE task[s].ended,
           task'[s].calm => Stage(s, k + 1)'
    PROVE  LocalInv(s)' /\ CourseInv(s)'
<1>1. LocalInv(s) /\ Ordered
  BY PhasesOrdered DEF PluginInv
<1>2. /\ k \in Nat /\ Len(Phases) \in Nat
      /\ task[s].todo = From(k) /\ From(k) # <<>>
  BY <1>1, FromPhases DEF Waiting, Ordered
<1>3. k + 1 <= Len(Phases) - 2 /\ (Phases[k + 2] = "collect" <=> Phases[k + 1] = "run_copies")
  BY DEF Coming
<1>4. k + 1 \in 0..(Len(Phases) - 2) /\ task'[s].todo = From(k + 1)
  <2>1. k + 1 \in 0..(Len(Phases) - 2)
    BY <1>2, <1>3
  <2>2. Tail(From(k)) = From(k + 1)
    BY <1>1, <1>3, FromPhases
  <2> QED BY <1>2, <2>1, <2>2
<1>5. task[s].ended = "not"
  BY DEF Waiting, Checks
<1>6. Waiting(s, k + 1)'
  <2>1. (k + 1) + 1 = k + 2
    BY <1>2
  <2>2. task[s].said # {} => Phases[k + 1] = "run_copies"
    BY DEF Waiting, Speaking, Checks
  <2> QED BY <1>3, <1>4, <1>5, <2>1, <2>2, SetupStays DEF Waiting, Speaking
<1>7. Shipped(s)' = Shipped(s)
  BY DEF Shipped
<1>8. EarnedInv(s)'
  BY <1>1 DEF EarnedInv, LocalInv
<1>9. LocalInv(s)'
  <2>1. k + 1 \in 0..(Len(Phases') - 2)
    BY <1>4, SetupStays
  <2> QED BY <1>1, <1>2, <1>6, <1>7, <1>8, <2>1 DEF LocalInv
<1>10. CourseInv(s)'
  <2>1. /\ task'[s].todo # <<"parse">>
        /\ \A j \in 0..(Len(Phases) - 2) : task'[s].todo = From(j) => j = k + 1
    BY <1>1, <1>4, FromPhases
  <2> QED BY <2>1, SetupStays DEF CourseInv
<1> QED BY <1>9, <1>10

(* What a step of the script may look at is what the submission shipped.   *)
LEMMA SeesOwn ==
    ASSUME PluginTypes, NEW s \in Jobs, task[s] \in Tasks, NEW place \in Holdings,
           Agrees(s, place), plugin # "dramsys" \/ place = Own(s)
    PROVE  /\ Laid(place) = Mine(s)
           /\ \A q : Holds(place, q) <=> \E f \in Mine(s) : task[s].files[f] = q
           /\ Bad(s) <=> \/ Incomplete(place) \/ Holds(place, "refused")
                         \/ Holds(place, "lacking") /\ plugin # "astrasim"
<1>1. Reads \subseteq Files
  BY DEF Reads, Expected, Files
<1>2. \A f \in Reads : place[f] = IF f \in Shipped(s) THEN s ELSE Nobody
  BY <1>1 DEF Agrees, Own
<1>3. Laid(place) = Mine(s)
  BY <1>2, PluginAssumption DEF Laid, Mine
<1>4. \A f \in Mine(s) : place[f] = s
  BY <1>2 DEF Mine
<1>5. \A q : Holds(place, q) <=> \E f \in Mine(s) : task[s].files[f] = q
  BY <1>3, <1>4 DEF Holds, QualityIn
<1> QED BY <1>3, <1>5 DEF Bad, Incomplete

LEMMA OwnAgrees ==
    ASSUME PluginTypes, NEW s \in Jobs PROVE Own(s) \in Holdings /\ Agrees(s, Own(s))
BY DEF Own, Holdings, Agrees

(* The steps, one by one.                                                  *)
LEMMA KillsOthers ==
    ASSUME PluginInv, NEW s \in Jobs, NEW r, KillScripts(s, r)
    PROVE  /\ DOMAIN task' = Jobs /\ task'[s] = r
           /\ \A t \in Jobs \ {s} : \/ task'[t] = task[t]
                                    \/ Running(t) /\ task'[t] = Stop(t, {})
BY DEF KillScripts

LEMMA ClearKeeps == ASSUME PluginInv, NEW s \in Jobs, Clear(s) PROVE PluginInv'
<1>1. /\ Due(s, "clear") /\ plugin' = plugin /\ layout' = layout
      /\ copies' = copies /\ made' = made
  BY DEF Clear
<1>2. /\ PluginTypes /\ Ordered /\ task[s] \in Tasks /\ task[s].todo # <<>>
      /\ task[s].verdict = "none"
  BY <1>1, AtPhase
<1>3. PICK k \in 0..(Len(Phases) - 2) :
        /\ k \in Nat /\ Waiting(s, k) /\ Phases[k + 1] = "clear" /\ Coming(k)
        /\ task[s].calm => Stage(s, k)
  BY <1>1, AtPhase
<1>4. k = 0
  BY <1>3 DEF Coming
<1>5. staged' \in Holdings /\ copies' \in Holdings /\ made' \in Holdings
  BY <1>1, <1>2 DEF Clear, PluginTypes, Holdings, NoFiles
<1>6. Onward(s) \in Tasks /\ Onward(s).todo = Tail(task[s].todo)
      /\ Onward(s).out = task[s].out /\ Onward(s).files = task[s].files
      /\ Onward(s).said = task[s].said
      /\ Onward(s).copy = task[s].copy /\ Onward(s).ended = task[s].ended
      /\ Onward(s).calm = task[s].calm /\ Onward(s).verdict = task[s].verdict
  BY <1>2, OnwardFields
<1>7. CASE staged' = NoFiles /\ Sets(s, Onward(s))
  <2>1. /\ DOMAIN task' = Jobs /\ task'[s] = Onward(s)
        /\ \A t \in Jobs \ {s} : task'[t] = task[t]
    BY <1>7, SetsFrame
  <2>2. ASSUME task[s].calm PROVE Stage(s, 1)'
    <3>1. task'[s].copy = Shipped(s)' /\ task'[s].files = task[s].files
      BY <1>3, <1>4, <1>6, <2>1, <2>2 DEF Stage, Shipped
    <3>2. Phases[1] = "clear"
      BY <1>3, <1>4
    <3>3. \A p : Passed(1, p)' => p = "clear"
      BY <1>1, <3>2, PassedNone, SetupStays
    <3>4. \A f \in Files :
            staged'[f] = IF f \in Shipped(s)' \ task'[s].copy THEN s ELSE Nobody
      BY <1>7, <3>1 DEF NoFiles
    <3> QED BY <3>1, <3>3, <3>4 DEF Stage, Checks
  <2>3. LocalInv(s)' /\ CourseInv(s)'
    <3>1. task'[s].calm => Stage(s, k + 1)'
      BY <1>4, <1>6, <2>1, <2>2
    <3> QED BY <1>1, <1>2, <1>3, <1>6, <2>1, <3>1, Moves DEF Waiting
  <2> QED BY <1>1, <1>2, <1>5, <1>6, <2>1, <2>3, PluginFrame
<1>8. CASE KillScripts(s, [Onward(s) EXCEPT !.calm = FALSE])
  <2> DEFINE r == [Onward(s) EXCEPT !.calm = FALSE]
  <2>1. /\ r \in Tasks /\ r.todo = Tail(task[s].todo)
        /\ r.out = task[s].out /\ r.files = task[s].files /\ r.said = task[s].said
        /\ r.ended = task[s].ended /\ ~r.calm /\ r.verdict = task[s].verdict
    BY <1>6 DEF Tasks
  <2>2. /\ DOMAIN task' = Jobs /\ task'[s] = r
        /\ \A t \in Jobs \ {s} : \/ task'[t] = task[t]
                                 \/ Running(t) /\ task'[t] = Stop(t, {})
    BY <1>8, KillsOthers
  <2> HIDE DEF r
  <2>3. LocalInv(s)' /\ CourseInv(s)'
    BY <1>1, <1>2, <1>3, <2>1, <2>2, Moves DEF Waiting
  <2> QED BY <1>1, <1>2, <1>5, <2>1, <2>2, <2>3, PluginFrame
<1> QED BY <1>7, <1>8 DEF Clear

LEMMA RaisesKeeps ==
    ASSUME PluginInv, NEW s \in Jobs, NEW phase, phase # "parse", Due(s, phase),
           plugin' = plugin, layout' = layout,
           staged' \in Holdings, copies' \in Holdings, made' \in Holdings,
           Sets(s, Raises(s))
    PROVE  PluginInv'
<1>1. /\ task[s] \in Tasks /\ task[s].todo # <<>> /\ EarnedInv(s)
  BY AtPhase
<1>2. /\ Raises(s) \in Tasks /\ Raises(s).todo = <<>> /\ Raises(s).out = task[s].out
      /\ Raises(s).said = task[s].said
      /\ Raises(s).files = task[s].files /\ Raises(s).ended = task[s].ended
      /\ Raises(s).calm = FALSE /\ Raises(s).verdict = "sim_timeout"
  <2>1. <<>> \in Seq(PhaseNames)
    OBVIOUS
  <2>2. Raises(s) = [task[s] EXCEPT !.todo = <<>>, !.calm = FALSE, !.verdict = "sim_timeout"]
    BY DEF Raises
  <2> HIDE DEF Raises
  <2> QED BY <1>1, <2>1, <2>2 DEF Tasks, Outcomes
<1>3. /\ DOMAIN task' = Jobs /\ task'[s] = Raises(s)
      /\ \A t \in Jobs \ {s} : task'[t] = task[t]
  BY SetsFrame
<1>4. EarnedInv(s)'
  BY <1>1, <1>2, <1>3 DEF EarnedInv
<1>5. LocalInv(s)' /\ CourseInv(s)'
  BY <1>1, <1>2, <1>3, <1>4, Stopped
<1> QED BY <1>1, <1>2, <1>3, <1>5, PluginFrame

LEMMA CopyKeeps == ASSUME PluginInv, NEW s \in Jobs, CopyIn(s) PROVE PluginInv'
<1>1. /\ Due(s, "copy") /\ plugin' = plugin /\ layout' = layout
      /\ copies' = copies /\ made' = made
  BY DEF CopyIn
<1>2. /\ PluginTypes /\ Ordered /\ task[s] \in Tasks /\ task[s].todo # <<>>
      /\ task[s].verdict = "none" /\ EarnedInv(s) /\ LocalInv(s)
  BY <1>1, AtPhase DEF PluginInv
<1>3. PICK k \in 0..(Len(Phases) - 2) :
        /\ k \in Nat /\ Waiting(s, k) /\ Phases[k + 1] = "copy" /\ Coming(k)
        /\ task[s].calm => Stage(s, k)
  BY <1>1, AtPhase
<1>4. k = 1 /\ Phases[2] = "copy" /\ Phases[1] \in {"clear", "evaluate"}
  <2>1. k = 1
    BY <1>3 DEF Coming
  <2>2. Coming(0) /\ 0 + 1 = 1
    BY <1>2 DEF Ordered
  <2> QED BY <1>3, <2>1, <2>2 DEF Coming
<1>5. \A p : (Passed(1, p)' \/ Passed(2, p)') => p \in {"clear", "evaluate", "copy"}
  BY <1>1, <1>4, PassedNone, SetupStays
<1>6. copies' \in Holdings /\ made' \in Holdings
  BY <1>1, <1>2 DEF PluginTypes, Holdings
<1>7. CASE Sets(s, Raises(s)) /\ staged' = staged
  <2>1. staged' \in Holdings
    BY <1>2, <1>7 DEF PluginTypes, Holdings
  <2> QED BY <1>1, <1>6, <1>7, <2>1, RaisesKeeps
<1>8. ASSUME NEW f \in task[s].copy, staged' = [staged EXCEPT ![f] = s],
             Sets(s, [task[s] EXCEPT !.copy = @ \ {f},
                        !.todo = IF task[s].copy = {f} THEN Tail(@) ELSE @])
      PROVE  PluginInv'
  <2> DEFINE r == [task[s] EXCEPT !.copy = @ \ {f},
                     !.todo = IF task[s].copy = {f} THEN Tail(@) ELSE @]
  <2>1. staged' \in Holdings
    BY <1>2, <1>8 DEF PluginTypes, Holdings
  <2>2. Tail(task[s].todo) \in Seq(PhaseNames)
    <3>1. task[s].todo \in Seq(PhaseNames)
      BY <1>2 DEF Tasks
    <3> QED BY <1>2, <3>1
  <2>3. /\ r \in Tasks /\ r.copy = task[s].copy \ {f}
        /\ r.todo = IF task[s].copy = {f} THEN Tail(task[s].todo) ELSE task[s].todo
        /\ r.out = task[s].out /\ r.files = task[s].files /\ r.ran = task[s].ran
        /\ r.said = task[s].said /\ r.ended = task[s].ended /\ r.calm = task[s].calm
        /\ r.verdict = task[s].verdict
    BY <1>2, <2>2 DEF Tasks
  <2>4. /\ DOMAIN task' = Jobs /\ task'[s] = r
        /\ \A t \in Jobs \ {s} : task'[t] = task[t]
    BY <1>8, SetsFrame
  <2> HIDE DEF r
  <2>5. Shipped(s)' = Shipped(s) /\ Own(s)' = Own(s)
    BY <1>1, <2>3, <2>4, OwnStays
  <2>6. ASSUME task[s].calm
        PROVE  /\ task'[s].copy \subseteq Shipped(s)'
               /\ \A g \in Files :
                    staged'[g] = IF g \in Shipped(s)' \ task'[s].copy THEN s ELSE Nobody
    <3>1. /\ task[s].copy \subseteq Shipped(s)
          /\ \A g \in Files :
               staged[g] = IF g \in Shipped(s) \ task[s].copy THEN s ELSE Nobody
      BY <1>3, <1>4, <2>6 DEF Stage
    <3>2. staged \in [Files -> Jobs \cup {Nobody}]
      BY <1>2 DEF PluginTypes, Holdings
    <3> QED BY <1>8, <2>3, <2>4, <2>5, <3>1, <3>2
  <2>7. CASE task[s].copy # {f}
    <3>1. task'[s].todo = task[s].todo
      BY <2>3, <2>4, <2>7
    <3>2. Waiting(s, k)' /\ EarnedInv(s)'
      BY <1>1, <1>2, <1>3, <2>3, <2>4, <3>1, SetupStays DEF Waiting, EarnedInv
    <3>3. LocalInv(s)'
      BY <1>1, <1>2, <2>3, <2>4, <2>5, <3>1, <3>2, SetupStays DEF LocalInv
    <3>4. ASSUME task[s].calm PROVE Stage(s, 1)'
      BY <1>5, <2>6, <3>4 DEF Stage, Checks
    <3>5. task'[s].todo # <<"parse">>
          /\ \A j \in 0..(Len(Phases) - 2) : task'[s].todo = From(j) => j = 1
      BY <1>2, <1>3, <1>4, <3>1, FromPhases DEF Waiting
    <3>6. CourseInv(s)'
      BY <1>1, <2>3, <2>4, <3>4, <3>5, SetupStays DEF CourseInv
    <3> QED BY <1>1, <1>2, <1>6, <2>1, <2>3, <2>4, <3>3, <3>6, PluginFrame
  <2>8. CASE task[s].copy = {f}
    <3>1. ASSUME task[s].calm PROVE Stage(s, 2)'
      <4>1. staged' = Own(s)'
        BY <2>1, <2>3, <2>4, <2>6, <2>8, <3>1 DEF Holdings, Own
      <4> QED BY <1>5, <4>1 DEF Stage, Checks
    <3>2. task'[s].calm => Stage(s, k + 1)'
      BY <1>4, <2>3, <2>4, <3>1
    <3>3. LocalInv(s)' /\ CourseInv(s)'
      BY <1>1, <1>2, <1>3, <2>3, <2>4, <2>8, <3>2, Moves DEF Waiting
    <3> QED BY <1>1, <1>2, <1>6, <2>1, <2>3, <2>4, <3>3, PluginFrame
  <2> QED BY <2>7, <2>8
<1> QED BY <1>7, <1>8 DEF CopyIn

LEMMA TimeoutKeeps == ASSUME PluginInv, NEW s \in Jobs, ExecTimesOut(s) PROVE PluginInv'
<1> DEFINE r == [task[s] EXCEPT !.todo = <<"parse">>, !.out = {}, !.calm = FALSE]
<1>1. /\ task[s].todo # <<>> /\ plugin' = plugin /\ layout' = layout
      /\ staged' \in Holdings /\ copies' \in Holdings /\ made' \in Holdings
      /\ task[s] \in Tasks /\ LocalInv(s)
  BY DEF ExecTimesOut, Running, PluginInv, PluginTypes, LocalInv, Holdings
<1>2. /\ r \in Tasks /\ r.todo = <<"parse">> /\ r.out = {} /\ ~r.calm
      /\ r.said = task[s].said /\ r.files = task[s].files /\ r.verdict = task[s].verdict
  <2>1. <<"parse">> \in Seq(PhaseNames)
    BY DEF PhaseNames
  <2> QED BY <1>1, <2>1 DEF Tasks
<1>3. /\ DOMAIN task' = Jobs /\ task'[s] = r
      /\ \A t \in Jobs \ {s} : \/ task'[t] = task[t]
                               \/ Running(t) /\ task'[t] = Stop(t, {})
  BY KillsOthers DEF ExecTimesOut
<1> HIDE DEF r
<1>4. task[s].verdict = "none"
  BY <1>1 DEF LocalInv
<1>5. LocalInv(s)' /\ CourseInv(s)'
  <2>1. task'[s].todo = <<"parse">> /\ task'[s].todo # <<>>
    BY <1>2, <1>3, <<"parse">> # <<>>
  <2>2. EarnedInv(s)'
    BY <1>1, <1>2, <1>3, <1>4 DEF EarnedInv, LocalInv
  <2> QED BY <1>1, <1>2, <1>3, <1>4, <2>1, <2>2, Stopped
<1> QED BY <1>1, <1>2, <1>3, <1>5, PluginFrame

LEMMA WipeKeeps == ASSUME PluginInv, NEW s \in Jobs, Wipe(s) PROVE PluginInv'
<1>1. /\ Due(s, "wipe") /\ plugin' = plugin /\ layout' = layout
      /\ staged' = staged /\ copies' = NoFiles /\ Sets(s, Onward(s))
  BY DEF Wipe
<1>2. /\ PluginTypes /\ Ordered /\ task[s] \in Tasks /\ task[s].todo # <<>>
      /\ task[s].verdict = "none"
  BY <1>1, AtPhase
<1>3. PICK k \in 0..(Len(Phases) - 2) :
        /\ k \in Nat /\ Waiting(s, k) /\ Phases[k + 1] = "wipe" /\ Coming(k)
        /\ task[s].calm => Stage(s, k)
  BY <1>1, AtPhase
<1>4. staged' \in Holdings /\ copies' \in Holdings /\ made' \in Holdings
  BY <1>1, <1>2 DEF Wipe, PluginTypes, Holdings, NoFiles
<1>5. /\ Onward(s) \in Tasks /\ Onward(s).todo = Tail(task[s].todo)
      /\ Onward(s).out = task[s].out /\ Onward(s).files = task[s].files
      /\ Onward(s).said = task[s].said /\ Onward(s).ended = task[s].ended /\ Onward(s).calm = task[s].calm
      /\ Onward(s).verdict = task[s].verdict
  BY <1>2, OnwardFields
<1>6. /\ DOMAIN task' = Jobs /\ task'[s] = Onward(s)
      /\ \A t \in Jobs \ {s} : task'[t] = task[t]
  BY <1>1, SetsFrame
<1>7. \A p : Passed(k + 1, p)' <=> Passed(k, p) \/ p = "wipe"
  BY <1>1, <1>3, PassedMore, SetupStays
<1>8. ASSUME task[s].calm PROVE Stage(s, k + 1)'
  <2>1. Own(s)' = Own(s) /\ (Bad(s)' <=> Bad(s))
    BY <1>1, <1>5, <1>6, OwnStays
  <2>2. /\ k >= 2 /\ staged = Own(s)
        /\ (\E c \in Checks : Passed(k, c)) => ~Bad(s)
        /\ \A p \in {"place", "build", "run_copies"} : ~Passed(k, p)
    BY <1>3, <1>8 DEF Stage, Coming, ScriptPhases
  <2> QED BY <1>1, <1>3, <1>7, <2>1, <2>2 DEF Stage, Checks
<1>9. LocalInv(s)' /\ CourseInv(s)'
  BY <1>1, <1>2, <1>3, <1>5, <1>6, <1>8, Moves DEF Waiting
<1> QED BY <1>1, <1>2, <1>4, <1>5, <1>6, <1>9, PluginFrame

(* A submission without a file of a fixed name is not accepted.            *)
LEMMA ShipsMain ==
    ASSUME PluginInv, NEW s \in Jobs, task[s].todo # <<>>, plugin = "scalesim"
    PROVE  Reads = {"main"} /\ "main" \in Shipped(s)
BY DEF PluginInv, LocalInv, Reads, Expected

LEMMA PlaceKeeps == ASSUME PluginInv, NEW s \in Jobs, PlaceFiles(s) PROVE PluginInv'
<1>1. /\ Due(s, "place") /\ plugin' = plugin /\ layout' = layout
      /\ staged' = staged /\ made' = made /\ Sets(s, Onward(s))
      /\ copies' = [f \in Files |-> IF f \in Laid(staged) THEN staged[f] ELSE copies[f]]
  BY DEF PlaceFiles
<1>2. /\ PluginTypes /\ Ordered /\ task[s] \in Tasks /\ task[s].todo # <<>>
      /\ task[s].verdict = "none"
  BY <1>1, AtPhase
<1>3. PICK k \in 0..(Len(Phases) - 2) :
        /\ k \in Nat /\ Waiting(s, k) /\ Phases[k + 1] = "place" /\ Coming(k)
        /\ task[s].calm => Stage(s, k)
  BY <1>1, AtPhase
<1>4. staged' \in Holdings /\ copies' \in Holdings /\ made' \in Holdings
  BY <1>1, <1>2 DEF PluginTypes, Holdings
<1>5. /\ Onward(s) \in Tasks /\ Onward(s).todo = Tail(task[s].todo)
      /\ Onward(s).out = task[s].out /\ Onward(s).files = task[s].files
      /\ Onward(s).said = task[s].said /\ Onward(s).ended = task[s].ended /\ Onward(s).calm = task[s].calm
      /\ Onward(s).verdict = task[s].verdict
  BY <1>2, OnwardFields
<1>6. /\ DOMAIN task' = Jobs /\ task'[s] = Onward(s)
      /\ \A t \in Jobs \ {s} : task'[t] = task[t]
  BY <1>1, SetsFrame
<1>7. \A p : Passed(k + 1, p)' <=> Passed(k, p) \/ p = "place"
  BY <1>1, <1>3, PassedMore, SetupStays
<1>8. ASSUME task[s].calm PROVE Stage(s, k + 1)'
  <2>1. /\ Own(s)' = Own(s) /\ (Bad(s)' <=> Bad(s)) /\ Shipped(s)' = Shipped(s)
        /\ Reads' = Reads
    BY <1>1, <1>5, <1>6, OwnStays, SetupStays
  <2>2. k >= 2 /\ Stage(s, k) /\ staged = Own(s)
    BY <1>3, <1>8 DEF Stage, Coming, ScriptPhases
  <2>3. Agrees(s, copies)'
    <3>1. Reads \subseteq Files
      BY DEF Reads, Expected, Files
    <3>2. \A f \in Reads : copies'[f] = IF f \in Shipped(s) THEN s ELSE copies[f]
      BY <1>1, <2>2, <3>1, PluginAssumption DEF Laid, Own
    <3>3. CASE plugin = "dramsys"
      BY <1>1, <2>1, <3>1, <3>2, <3>3 DEF Agrees, Own
    <3>4. CASE plugin = "scalesim"
      <4>1. Reads = {"main"} /\ "main" \in Shipped(s)
        BY <1>2, <3>4, ShipsMain
      <4> QED BY <2>1, <3>1, <3>2, <4>1 DEF Agrees, Own
    <3>5. CASE plugin \notin {"dramsys", "scalesim"}
      <4>1. copies = NoFiles
        BY <1>3, <2>2, <3>5 DEF Stage, Coming
      <4> QED BY <2>1, <3>1, <3>2, <4>1 DEF Agrees, Own, NoFiles
    <3> QED BY <3>3, <3>4, <3>5
  <2>4. (\E c \in Checks : Passed(k + 1, c)') => ~Bad(s)'
    BY <1>7, <2>1, <2>2 DEF Stage, Checks
  <2>5. Passed(k + 1, "build")' => Agrees(s, made)'
    BY <1>1, <1>5, <1>6, <1>7, <2>2, AgreesStays DEF Stage, Agrees
  <2>6. Passed(k + 1, "run_copies")' => Agrees(s, made)' /\ Laid(made)' # {}
    BY <1>1, <1>5, <1>6, <1>7, <2>1, <2>2, AgreesStays DEF Stage, Agrees, Laid
  <2> QED BY <1>1, <1>3, <1>7, <2>1, <2>2, <2>3, <2>4, <2>5, <2>6 DEF Stage
<1>9. LocalInv(s)' /\ CourseInv(s)'
  BY <1>1, <1>2, <1>3, <1>5, <1>6, <1>8, Moves DEF Waiting
<1> QED BY <1>1, <1>2, <1>4, <1>5, <1>6, <1>9, PluginFrame

LEMMA StopSame ==
    ASSUME NEW s, task[s] \in Tasks, NEW out \in SUBSET Words
    PROVE  /\ Stop(s, out) = [Stop(s, out) EXCEPT !.ended = task[s].ended,
                                                  !.ran = task[s].ran]
           /\ \A e : [Stop(s, out) EXCEPT !.ended = e]
                       = [Stop(s, out) EXCEPT !.ended = e, !.ran = task[s].ran]
           /\ \A r : [Stop(s, out) EXCEPT !.ran = r]
                       = [Stop(s, out) EXCEPT !.ended = task[s].ended, !.ran = r]
<1>1. Stop(s, out) \in Tasks
  BY StopFields
<1>2. Stop(s, out).ended = task[s].ended /\ Stop(s, out).ran = task[s].ran
  BY StopFields
<1> QED BY <1>1, <1>2 DEF Tasks

(* A check passes what is sound, and says what is not.                     *)
LEMMA CheckedKeeps ==
    ASSUME PluginInv, NEW s \in Jobs, NEW phase \in Checks, Due(s, phase),
           plugin' = plugin, layout' = layout, staged' = staged, copies' = copies,
           NEW place \in Holdings, Checked(s, place),
           task[s].calm => /\ Agrees(s, place)
                           /\ plugin # "dramsys" \/ place = Own(s),
           IF phase = "build"
           THEN made' = IF task'[s].todo = <<"parse">> THEN made ELSE place
           ELSE made' = made
    PROVE  PluginInv'
<1>1. /\ PluginTypes /\ Ordered /\ task[s] \in Tasks /\ task[s].todo # <<>>
      /\ task[s].verdict = "none" /\ phase # "parse"
  BY AtPhase DEF Checks
<1>2. PICK k \in 0..(Len(Phases) - 2) :
        /\ k \in Nat /\ Waiting(s, k) /\ Phases[k + 1] = phase /\ Coming(k)
        /\ task[s].calm => Stage(s, k)
  BY AtPhase DEF Checks
<1>3. staged' \in Holdings /\ copies' \in Holdings /\ made' \in Holdings
  BY <1>1 DEF PluginTypes, Holdings
<1>4. /\ task[s].ended = "not" /\ layout = "inside" /\ task[s].ran \in Holdings
      /\ k + 1 <= Len(Phases) - 2 /\ k >= 2
  BY <1>1, <1>2 DEF Waiting, Coming, Checks, ScriptPhases, Tasks
<1>5. task[s].calm =>
        (Bad(s) <=> \/ Incomplete(place) \/ Holds(place, "refused")
                    \/ Holds(place, "lacking") /\ plugin # "astrasim")
  BY <1>1, SeesOwn
<1>6. ASSUME NEW out \in {{}, {"BUILD_FAILED"}}, Sets(s, Stop(s, out)),
             task[s].calm => ("BUILD_FAILED" \in out <=> Bad(s))
      PROVE  PluginInv'
  <2>1. out \in SUBSET Words
    BY DEF Words
  <2>2. Sets(s, [Stop(s, out) EXCEPT !.ended = task[s].ended, !.ran = task[s].ran])
    BY <1>1, <1>6, <2>1, StopSame
  <2> QED BY <1>1, <1>3, <1>4, <1>6, <2>1, <2>2, StopKeeps
<1>7. ASSUME NEW cost \in {{}, {"cost"}},
             Sets(s, [Onward(s) EXCEPT !.out = @ \cup cost]),
             task[s].calm => ~Bad(s)
      PROVE  PluginInv'
  <2> DEFINE r == [Onward(s) EXCEPT !.out = @ \cup cost]
  <2>1. /\ Onward(s) \in Tasks /\ Onward(s).todo = Tail(task[s].todo)
        /\ Onward(s).out = task[s].out /\ Onward(s).files = task[s].files
        /\ Onward(s).said = task[s].said
        /\ Onward(s).ended = task[s].ended /\ Onward(s).calm = task[s].calm
        /\ Onward(s).verdict = task[s].verdict
    BY <1>1, OnwardFields
  <2>2. /\ r \in Tasks /\ r.todo = Tail(task[s].todo)
        /\ r.out \subseteq {"cost"} \cup r.said /\ r.files = task[s].files
        /\ r.said = task[s].said
        /\ r.ended = task[s].ended /\ r.calm = task[s].calm
        /\ r.verdict = task[s].verdict
    <3>1. /\ task[s].out \subseteq {"cost"} \cup task[s].said
          /\ Onward(s).out \cup cost \in SUBSET Words
      BY <1>2, <2>1 DEF Waiting, Words, Tasks
    <3> QED BY <2>1, <3>1 DEF Tasks
  <2>3. /\ DOMAIN task' = Jobs /\ task'[s] = r
        /\ \A t \in Jobs \ {s} : task'[t] = task[t]
    BY <1>7, SetsFrame
  <2> HIDE DEF r
  <2>4. task'[s].todo # <<"parse">>
    <3>1. task'[s].todo = From(k + 1)
      BY <1>1, <1>2, <1>4, <2>2, <2>3, FromPhases DEF Waiting
    <3>2. k + 1 \in 0..(Len(Phases) - 2)
      BY <1>1, <1>2, <1>4 DEF Ordered
    <3> QED BY <1>1, <3>1, <3>2, FromPhases
  <2>5. \A p : Passed(k + 1, p)' <=> Passed(k, p) \/ p = phase
    BY <1>2, PassedMore, SetupStays
  <2>6. ASSUME task[s].calm PROVE Stage(s, k + 1)'
    <3>1. Own(s)' = Own(s) /\ (Bad(s)' <=> Bad(s)) /\ Reads' = Reads
      BY <2>2, <2>3, OwnStays, SetupStays
    <3>2. Stage(s, k) /\ staged = Own(s)
      BY <1>2, <1>4, <2>6 DEF Stage
    <3>3. Passed(k + 1, "place")' => Agrees(s, copies)'
      BY <2>2, <2>3, <2>5, <3>2, AgreesStays DEF Stage, Agrees, Checks
    <3>4. Passed(k + 1, "build")' => Agrees(s, made)'
      <4>1. CASE phase = "build"
        BY <2>2, <2>3, <2>4, <2>6, <4>1, AgreesStays DEF Agrees
      <4>2. CASE phase # "build"
        BY <2>2, <2>3, <2>5, <3>2, <4>2, AgreesStays DEF Stage, Agrees
      <4> QED BY <4>1, <4>2
    <3>5. Passed(k + 1, "run_copies")' => Agrees(s, made)' /\ Laid(made)' # {}
      <4>1. CASE phase = "build"
        BY <1>2, <2>5, <4>1 DEF Coming
      <4>2. CASE phase # "build"
        BY <2>2, <2>3, <2>5, <3>1, <3>2, <4>2, AgreesStays
           DEF Stage, Agrees, Laid, Checks
      <4> QED BY <4>1, <4>2
    <3> QED BY <1>4, <1>7, <2>5, <2>6, <3>1, <3>2, <3>3, <3>4, <3>5 DEF Stage, Checks
  <2>7. LocalInv(s)' /\ CourseInv(s)'
    <3>1. Phases[k + 1] # "run_copies"
      BY <1>2 DEF Checks
    <3> QED BY <1>1, <1>2, <2>2, <2>3, <2>6, <3>1, Moves
  <2> QED BY <1>1, <1>3, <2>2, <2>3, <2>7, PluginFrame
<1>8. CASE Incomplete(place) \/ Holds(place, "refused")
  BY <1>5, <1>6, <1>8 DEF Checked
<1>9. CASE ~(Incomplete(place) \/ Holds(place, "refused")) /\ Holds(place, "lacking")
  <2>1. CASE plugin = "astrasim"
    BY <1>5, <1>6, <1>9, <2>1 DEF Checked
  <2>2. CASE plugin # "astrasim"
    BY <1>5, <1>6, <1>9, <2>2 DEF Checked
  <2> QED BY <2>1, <2>2
<1>10. CASE /\ ~(Incomplete(place) \/ Holds(place, "refused"))
            /\ ~Holds(place, "lacking")
  <2>1. \E cost \in {{}, {"cost"}} : Sets(s, [Onward(s) EXCEPT !.out = @ \cup cost])
    BY <1>10 DEF Checked
  <2> QED BY <1>5, <1>7, <1>10, <2>1
<1> QED BY <1>8, <1>9, <1>10

LEMMA CheckKeeps == ASSUME PluginInv, NEW s \in Jobs, Check(s) PROVE PluginInv'
<1>1. /\ plugin' = plugin /\ layout' = layout
      /\ staged' = staged /\ copies' = copies /\ made' = made
      /\ staged \in Holdings /\ copies \in Holdings
  BY DEF Check, PluginInv, PluginTypes
<1>2. CASE Due(s, "check_staged") /\ Checked(s, staged)
  <2>1. PICK k \in 0..(Len(Phases) - 2) :
          /\ Phases[k + 1] = "check_staged" /\ Coming(k) /\ PluginTypes
          /\ task[s].calm => Stage(s, k)
    BY <1>2, AtPhase
  <2>2. task[s].calm => staged = Own(s) /\ Agrees(s, staged)
    BY <2>1, OwnAgrees DEF Stage, Coming, ScriptPhases
  <2> QED BY <1>1, <1>2, <2>2, CheckedKeeps DEF Checks
<1>3. CASE Due(s, "check_copies") /\ Checked(s, copies)
  <2>1. PICK k \in 0..(Len(Phases) - 2) :
          /\ Phases[k + 1] = "check_copies" /\ Coming(k)
          /\ task[s].calm => Stage(s, k)
    BY <1>3, AtPhase
  <2>2. task[s].calm => plugin # "dramsys" /\ Agrees(s, copies)
    BY <2>1 DEF Stage, Coming
  <2> QED BY <1>1, <1>3, <2>2, CheckedKeeps DEF Checks
<1> QED BY <1>2, <1>3 DEF Check

LEMMA CompileKeeps == ASSUME PluginInv, NEW s \in Jobs, Compile(s) PROVE PluginInv'
<1>1. /\ plugin' = plugin /\ layout' = layout /\ Due(s, "build") /\ Checked(s, copies)
      /\ staged' = staged /\ copies' = copies /\ copies \in Holdings
      /\ made' = IF task'[s].todo = <<"parse">> THEN made ELSE copies
  BY DEF Compile, PluginInv, PluginTypes
<1>2. PICK k \in 0..(Len(Phases) - 2) :
        /\ Phases[k + 1] = "build" /\ Coming(k)
        /\ task[s].calm => Stage(s, k)
  BY <1>1, AtPhase
<1>3. task[s].calm => plugin # "dramsys" /\ Agrees(s, copies)
  BY <1>2 DEF Stage, Coming
<1> QED BY <1>1, <1>3, CheckedKeeps DEF Checks

(* A submission's code is run once the checks are passed.                  *)
LEMMA SpeakKeeps == ASSUME PluginInv, NEW s \in Jobs, Speak(s) PROVE PluginInv'
<1>1. /\ plugin' = plugin /\ layout' = layout /\ plugin \in {"gem5", "ramulator"}
      /\ staged' = staged /\ copies' = copies /\ made' = made
  BY DEF Speak
<1>2. PICK phase \in {"run_copies", "run_made"} : Due(s, phase)
  BY DEF Speak
<1>3. /\ PluginTypes /\ Ordered /\ task[s] \in Tasks /\ task[s].todo # <<>>
      /\ task[s].verdict = "none" /\ EarnedInv(s) /\ LocalInv(s) /\ CourseInv(s)
  BY <1>2, AtPhase DEF PluginInv
<1>4. PICK k \in 0..(Len(Phases) - 2) :
        /\ k \in Nat /\ Waiting(s, k) /\ Phases[k + 1] = phase /\ Coming(k)
        /\ task[s].calm => Stage(s, k)
  BY <1>2, AtPhase
<1>5. layout = "inside" /\ task[s].ended = "not"
  BY <1>2, <1>4 DEF Coming, ScriptPhases, Waiting
<1>6. PICK words \in Sayings :
        Sets(s, [task[s] EXCEPT !.out = @ \cup words, !.said = words])
  BY DEF Speak
<1> DEFINE r == [task[s] EXCEPT !.out = @ \cup words, !.said = words]
<1>7. /\ r \in Tasks /\ r.out = task[s].out \cup words /\ r.said = words
      /\ r.copy = task[s].copy /\ r.todo = task[s].todo
      /\ r.files = task[s].files /\ r.ran = task[s].ran
      /\ r.ended = task[s].ended /\ r.calm = task[s].calm
      /\ r.verdict = task[s].verdict
  <2>1. words \in SUBSET Words /\ task[s].out \cup words \in SUBSET Words
    BY <1>3, <1>6 DEF Sayings, Words, Tasks
  <2> QED BY <1>3, <2>1 DEF Tasks
<1>8. /\ DOMAIN task' = Jobs /\ task'[s] = r
      /\ \A t \in Jobs \ {s} : task'[t] = task[t]
  BY <1>6, SetsFrame
<1> HIDE DEF r
<1>9. task[s].said = {} /\ task[s].out \subseteq {"cost"}
  BY <1>4 DEF Speak, Waiting
<1>10. Waiting(s, k)' /\ EarnedInv(s)'
  <2>1. Waiting(s, k)'
    BY <1>1, <1>2, <1>4, <1>7, <1>8, <1>9, SetupStays DEF Waiting, Speaking
  <2>2. EarnedInv(s)'
    <3>1. words # {} /\ ("json" \in words => words # {})
      BY <1>6 DEF Sayings
    <3> QED BY <1>1, <1>3, <1>5, <1>7, <1>8, <1>9, <3>1 DEF EarnedInv
  <2> QED BY <2>1, <2>2
<1>11. Shipped(s)' = Shipped(s) /\ Own(s)' = Own(s) /\ (Bad(s)' <=> Bad(s))
  BY <1>1, <1>7, <1>8, OwnStays
<1>12. LocalInv(s)'
  BY <1>1, <1>3, <1>7, <1>8, <1>10, <1>11, SetupStays DEF LocalInv
<1>13. \A j : Stage(s, j)' <=> Stage(s, j)
  BY <1>1, <1>7, <1>8, <1>11, SetupStays DEF Stage, Agrees, Laid
<1>14. CourseInv(s)'
  <2>1. task'[s].todo # <<"parse">>
    BY <1>3, <1>4, <1>7, <1>8, FromPhases DEF Waiting
  <2> QED BY <1>1, <1>3, <1>7, <1>8, <1>13, <2>1, SetupStays DEF CourseInv
<1>15. staged' \in Holdings /\ copies' \in Holdings /\ made' \in Holdings
  BY <1>1, <1>3 DEF PluginTypes, Holdings
<1> QED BY <1>1, <1>3, <1>7, <1>8, <1>12, <1>14, <1>15, PluginFrame

LEMMA LookedAgrees ==
    ASSUME PluginTypes, NEW s, NEW place \in Holdings
    PROVE  /\ Looked(place) \in Holdings
           /\ Agrees(s, place) => Agrees(s, Looked(place))
<1>1. Reads \subseteq Files
  BY DEF Reads, Expected, Files
<1> QED BY <1>1 DEF Looked, Holdings, Agrees

(* A simulation runs on files that are the submission's, and that passed.  *)
LEMMA RunKeeps == ASSUME PluginInv, NEW s \in Jobs, Run(s) PROVE PluginInv'
<1>1. /\ plugin' = plugin /\ layout' = layout
      /\ staged' = staged /\ copies' = copies
      /\ staged \in Holdings /\ copies \in Holdings /\ made \in Holdings
  BY DEF Run, PluginInv, PluginTypes
<1>2. PICK phase \in {"run_staged", "run_copies", "run_made"}, place \in Holdings :
        /\ Due(s, phase) /\ (RunBadly(s) \/ RunWell(s, place))
        /\ \/ phase = "run_staged" /\ place = staged
           \/ phase = "run_copies" /\ place = copies
           \/ phase = "run_made" /\ place = made
  BY <1>1 DEF Run
<1>3. /\ PluginTypes /\ Ordered /\ task[s] \in Tasks /\ task[s].todo # <<>>
      /\ task[s].verdict = "none" /\ phase # "parse"
  BY <1>2, AtPhase
<1>4. PICK k \in 0..(Len(Phases) - 2) :
        /\ k \in Nat /\ Waiting(s, k) /\ Phases[k + 1] = phase /\ Coming(k)
        /\ task[s].calm => Stage(s, k)
  BY <1>2, <1>3, AtPhase
<1>5. /\ layout = "inside" /\ k >= 2
      /\ \E c \in Checks : Passed(k, c)
  BY <1>2, <1>4 DEF Coming, ScriptPhases
<1>6. task[s].calm => ~Bad(s) /\ staged = Own(s) /\ Agrees(s, place)
  BY <1>2, <1>3, <1>4, <1>5, OwnAgrees DEF Stage, Coming
<1>7. ASSUME made' = made, NEW out \in SUBSET Words, "BUILD_FAILED" \notin out,
             "VALIDATION_FAILED" \notin out, NEW ran \in Holdings,
             NEW ended \in {"well", "badly"},
             Sets(s, [Stop(s, out) EXCEPT !.ended = ended, !.ran = ran]),
             "SIMULATION_OK" \in out \/ "json" \in out => ended = "well",
             task[s].calm /\ ended = "well" => Agrees(s, ran)
      PROVE  PluginInv'
  <2>1. staged' \in Holdings /\ copies' \in Holdings /\ made' \in Holdings
    BY <1>1, <1>7 DEF Holdings
  <2> QED BY <1>1, <1>2, <1>3, <1>6, <1>7, <2>1, StopKeeps
<1>8. CASE RunBadly(s)
  <2>1. PICK part \in SUBSET {"text"} :
          Sets(s, [Stop(s, part) EXCEPT !.ended = "badly"])
    BY <1>8 DEF RunBadly
  <2>2. part \in SUBSET Words /\ task[s].ran \in Holdings /\ made' = made
        /\ {"BUILD_FAILED", "VALIDATION_FAILED", "SIMULATION_OK", "json"} \cap part = {}
    BY <1>3, <1>8 DEF Words, Tasks, RunBadly
  <2>3. Sets(s, [Stop(s, part) EXCEPT !.ended = "badly", !.ran = task[s].ran])
    <3>1. \A e : [Stop(s, part) EXCEPT !.ended = e]
                   = [Stop(s, part) EXCEPT !.ended = e, !.ran = task[s].ran]
      BY <1>3, <2>2, StopSame
    <3> QED BY <2>1, <3>1, Zenon
  <2> QED BY <1>7, <2>2, <2>3
<1>9. CASE RunWell(s, place) /\ plugin \notin {"timeloop", "gem5"}
  <2>1. PICK some \in {{"json", "text"}, {"json"}, {}} :
          Sets(s, [Stop(s, some \cup {"SIMULATION_OK"})
                     EXCEPT !.ended = "well", !.ran = Looked(place)])
    BY <1>9 DEF RunWell
  <2>2. made' = made
    BY <1>9 DEF RunWell
  <2>3. /\ some \cup {"SIMULATION_OK"} \in SUBSET Words
        /\ "BUILD_FAILED" \notin some \cup {"SIMULATION_OK"}
        /\ "VALIDATION_FAILED" \notin some \cup {"SIMULATION_OK"}
    BY DEF Words
  <2>4. Looked(place) \in Holdings /\ (task[s].calm => Agrees(s, Looked(place)))
    BY <1>3, <1>6, LookedAgrees
  <2> QED BY <1>7, <2>1, <2>2, <2>3, <2>4
<1>10. CASE RunWell(s, place) /\ plugin \in {"timeloop", "gem5"}
  <2> DEFINE r == [Onward(s) EXCEPT !.ended = "well"]
  <2>1. /\ made' = place /\ Sets(s, r) /\ Laid(place) # {}
    BY <1>10 DEF RunWell
  <2>2. phase = "run_copies" /\ place = copies
    BY <1>2, <1>4, <1>10 DEF Coming
  <2>3. /\ Onward(s) \in Tasks /\ Onward(s).todo = Tail(task[s].todo)
        /\ Onward(s).out = task[s].out /\ Onward(s).files = task[s].files
        /\ Onward(s).said = task[s].said /\ Onward(s).calm = task[s].calm /\ Onward(s).verdict = task[s].verdict
    BY <1>3, OnwardFields
  <2>4. /\ r \in Tasks /\ r.todo = Tail(task[s].todo)
        /\ r.out = task[s].out /\ r.files = task[s].files /\ r.said = task[s].said
        /\ r.ended = "well" /\ r.calm = task[s].calm
        /\ r.verdict = task[s].verdict
    BY <2>3 DEF Tasks
  <2>5. /\ DOMAIN task' = Jobs /\ task'[s] = r
        /\ \A t \in Jobs \ {s} : task'[t] = task[t]
    BY <1>3, <2>1, SetsFrame
  <2> HIDE DEF r
  <2>6. \A p : Passed(k + 1, p)' <=> Passed(k, p) \/ p = "run_copies"
    BY <1>1, <1>4, <2>2, PassedMore, SetupStays
  <2>7. ASSUME task[s].calm PROVE Stage(s, k + 1)'
    <3>1. Own(s)' = Own(s) /\ (Bad(s)' <=> Bad(s)) /\ Reads' = Reads
      BY <1>1, <2>4, <2>5, OwnStays, SetupStays
    <3>2. Stage(s, k) /\ ~Bad(s) /\ staged = Own(s) /\ Agrees(s, copies)
      BY <1>4, <1>6, <2>2, <2>7
    <3>3. Agrees(s, copies)' /\ Agrees(s, made)'
      BY <1>1, <2>1, <2>2, <2>4, <2>5, <3>2, AgreesStays DEF Agrees
    <3>4. Laid(made)' # {}
      BY <2>1, <3>1 DEF Laid
    <3>5. Passed(k + 1, "wipe")' /\ ~Passed(k + 1, "place")' => copies' = NoFiles
      BY <1>1, <2>6, <3>2 DEF Stage
    <3> QED BY <1>1, <1>4, <1>5, <3>1, <3>2, <3>3, <3>4, <3>5 DEF Stage
  <2>8. LocalInv(s)' /\ CourseInv(s)'
    <3>1. plugin # "dramsys" /\ task[s].out \subseteq {"cost"} \cup task[s].said
      BY <1>4, <1>10 DEF Waiting
    <3> QED BY <1>1, <1>3, <1>4, <2>2, <2>4, <2>5, <2>7, <3>1, Moves
  <2>9. staged' \in Holdings /\ copies' \in Holdings /\ made' \in Holdings
    BY <1>1, <2>1 DEF Holdings
  <2> QED BY <1>1, <1>3, <2>4, <2>5, <2>8, <2>9, PluginFrame
<1> QED BY <1>2, <1>8, <1>9, <1>10

(* The numbers collected are those of the simulation that just ended.      *)
LEMMA CollectKeeps == ASSUME PluginInv, NEW s \in Jobs, Collect(s) PROVE PluginInv'
<1>1. /\ plugin' = plugin /\ layout' = layout /\ Due(s, "collect")
      /\ staged' = staged /\ copies' = copies /\ made' = made
      /\ staged \in Holdings /\ copies \in Holdings /\ made \in Holdings
  BY DEF Collect, PluginInv, PluginTypes
<1>2. /\ PluginTypes /\ task[s] \in Tasks
  BY <1>1, AtPhase
<1>3. PICK k \in 0..(Len(Phases) - 2) :
        /\ k \in Nat /\ Waiting(s, k) /\ Phases[k + 1] = "collect" /\ Coming(k)
        /\ task[s].calm => Stage(s, k)
  BY <1>1, AtPhase
<1>4. task[s].ended = "well" /\ layout = "inside" /\ task[s].ran \in Holdings
  BY <1>2, <1>3 DEF Waiting, Coming, ScriptPhases, Tasks
<1>5. task[s].calm => ~Bad(s) /\ Agrees(s, made) /\ made # NoFiles
  <2>1. Passed(k, "run_copies") /\ \E c \in Checks : Passed(k, c)
    BY <1>3 DEF Coming
  <2>2. Reads \subseteq Files
    BY DEF Reads, Expected, Files
  <2>3. Laid(NoFiles) = {}
    BY <2>2 DEF Laid, NoFiles
  <2> QED BY <1>3, <2>1, <2>3 DEF Stage
<1>6. ASSUME NEW out \in SUBSET Words, "BUILD_FAILED" \notin out,
             "VALIDATION_FAILED" \notin out, NEW ran \in Holdings,
             Sets(s, [Stop(s, out) EXCEPT !.ended = task[s].ended, !.ran = ran]),
             task[s].calm => Agrees(s, ran)
      PROVE  PluginInv'
  <2>1. staged' \in Holdings /\ copies' \in Holdings /\ made' \in Holdings
    BY <1>1 DEF Holdings
  <2> QED BY <1>1, <1>4, <1>5, <1>6, <2>1, StopKeeps
<1>7. CASE made = NoFiles
  <2>1. PICK out \in {{}, {"SIMULATION_OK"}, {"text", "SIMULATION_OK"}} :
          Sets(s, Stop(s, out))
    BY <1>1, <1>7 DEF Collect
  <2>2. /\ out \in SUBSET Words /\ "BUILD_FAILED" \notin out
        /\ "VALIDATION_FAILED" \notin out
    BY DEF Words
  <2>3. Sets(s, [Stop(s, out) EXCEPT !.ended = task[s].ended, !.ran = task[s].ran])
    BY <1>2, <2>1, <2>2, StopSame
  <2> QED BY <1>4, <1>5, <1>6, <1>7, <2>2, <2>3
<1>8. CASE made # NoFiles
  <2>1. PICK some \in {{"json"}, {}} :
          Sets(s, [Stop(s, some \cup {"SIMULATION_OK"}) EXCEPT !.ran = Looked(made)])
    BY <1>8 DEF Collect
  <2> DEFINE out == some \cup {"SIMULATION_OK"}
  <2>2. /\ out \in SUBSET Words /\ "BUILD_FAILED" \notin out
        /\ "VALIDATION_FAILED" \notin out
    BY DEF Words
  <2>3. Sets(s, [Stop(s, out) EXCEPT !.ended = task[s].ended, !.ran = Looked(made)])
    <3>1. \A r : [Stop(s, out) EXCEPT !.ran = r]
                   = [Stop(s, out) EXCEPT !.ended = task[s].ended, !.ran = r]
      BY <1>2, <2>2, StopSame
    <3> QED BY <2>1, <3>1, Zenon
  <2>4. Looked(made) \in Holdings /\ (task[s].calm => Agrees(s, Looked(made)))
    BY <1>1, <1>2, <1>5, LookedAgrees
  <2> HIDE DEF out
  <2> QED BY <1>6, <2>2, <2>3, <2>4
<1> QED BY <1>7, <1>8

(* A challenge's own script says of the files it is given what it likes.   *)
LEMMA OutsideKeeps ==
    ASSUME PluginInv, NEW s \in Jobs, NEW phase, phase # "parse", Due(s, phase),
           layout # "inside", NEW place \in Holdings,
           task[s].calm => Agrees(s, place), Outside(s, place)
    PROVE  PluginInv'
<1>1. /\ plugin' = plugin /\ layout' = layout
      /\ staged' \in Holdings /\ copies' \in Holdings /\ made' \in Holdings
  BY DEF Outside, PluginInv, PluginTypes, Holdings
<1>2. /\ PluginTypes /\ task[s] \in Tasks /\ task[s].ran \in Holdings
      /\ task[s].ended = IF phase = "collect" THEN "well" ELSE "not"
  <2>1. /\ PluginTypes /\ task[s] \in Tasks
    BY AtPhase
  <2>2. \E k \in 0..(Len(Phases) - 2) : Waiting(s, k) /\ Phases[k + 1] = phase
    BY AtPhase
  <2> QED BY <2>1, <2>2 DEF Waiting, Tasks
<1>3. phase # "collect"
  <2>1. \E k \in 0..(Len(Phases) - 2) : Coming(k) /\ Phases[k + 1] = phase
    BY AtPhase
  <2> QED BY <2>1 DEF Coming, ScriptPhases
<1>4. CASE Sets(s, Raises(s))
  BY <1>1, <1>4, RaisesKeeps
<1>5. ASSUME NEW out \in {{"VALIDATION_FAILED"}, {"BUILD_FAILED"}, {"json"}},
             Sets(s, Stop(s, out))
      PROVE  PluginInv'
  <2>1. out \in SUBSET Words /\ "SIMULATION_OK" \notin out
    BY DEF Words
  <2>2. Sets(s, [Stop(s, out) EXCEPT !.ended = task[s].ended, !.ran = task[s].ran])
    BY <1>2, <1>5, <2>1, StopSame
  <2> QED BY <1>1, <1>2, <1>3, <2>1, <2>2, StopKeeps
<1>6. CASE Sets(s, [Stop(s, {"SIMULATION_OK", "json"})
                      EXCEPT !.ended = "well", !.ran = Looked(place)])
  <2>1. {"SIMULATION_OK", "json"} \in SUBSET Words
    BY DEF Words
  <2>2. Looked(place) \in Holdings /\ (task[s].calm => Agrees(s, Looked(place)))
    BY <1>2, LookedAgrees
  <2> QED BY <1>1, <1>6, <2>1, <2>2, StopKeeps
<1> QED BY <1>4, <1>5, <1>6 DEF Outside

LEMMA EvaluateKeeps == ASSUME PluginInv, NEW s \in Jobs, RunEvaluateSh(s) PROVE PluginInv'
<1>1. Due(s, "evaluate") /\ Outside(s, Own(s))
  BY DEF RunEvaluateSh
<1>2. PICK k \in 0..(Len(Phases) - 2) : Phases[k + 1] = "evaluate" /\ Coming(k)
  BY <1>1, AtPhase
<1>3. layout # "inside"
  BY <1>2 DEF Coming
<1>4. Own(s) \in Holdings /\ Agrees(s, Own(s))
  BY OwnAgrees DEF PluginInv
<1> HIDE DEF Own
<1> QED BY <1>1, <1>3, <1>4, OutsideKeeps

LEMMA SimulateKeeps == ASSUME PluginInv, NEW s \in Jobs, RunSimulateSh(s) PROVE PluginInv'
<1>1. Due(s, "simulate") /\ Outside(s, staged)
  BY DEF RunSimulateSh
<1>2. PICK k \in 0..(Len(Phases) - 2) :
        /\ Phases[k + 1] = "simulate" /\ Coming(k)
        /\ task[s].calm => Stage(s, k)
  BY <1>1, AtPhase
<1>3. layout # "inside" /\ k >= 2 /\ staged \in Holdings
  BY <1>2 DEF Coming, PluginInv, PluginTypes
<1>4. task[s].calm => Agrees(s, staged)
  BY <1>2, <1>3, OwnAgrees DEF Stage, PluginInv
<1> QED BY <1>1, <1>3, <1>4, OutsideKeeps

LEMMA ParseKeeps == ASSUME PluginInv, NEW s \in Jobs, Parse(s) PROVE PluginInv'
<1> DEFINE r == [task[s] EXCEPT !.todo = <<>>, !.verdict = Classify(task[s].out)]
<1>1. /\ task[s].todo # <<>> /\ Head(task[s].todo) = "parse" /\ Sets(s, r)
      /\ plugin' = plugin /\ layout' = layout
      /\ staged' \in Holdings /\ copies' \in Holdings /\ made' \in Holdings
      /\ LocalInv(s) /\ CourseInv(s) /\ Ordered /\ task[s] \in Tasks
      /\ plugin \in Plugins
  BY PhasesOrdered
     DEF Parse, Due, PluginInv, PluginTypes, Holdings, LocalInv
<1>2. task[s].todo = <<"parse">>
  <2>1. \A k \in 0..(Len(Phases) - 2) : Head(From(k)) # "parse"
    BY <1>1, FromPhases DEF Coming
  <2> QED BY <1>1, <2>1 DEF LocalInv, Waiting
<1>3. Classify(task[s].out) \in Outcomes \ {"none"}
  BY DEF Classify, Outcomes
<1>4. /\ r \in Tasks /\ r.todo = <<>> /\ r.verdict = Classify(task[s].out)
      /\ r.files = task[s].files /\ r.out = task[s].out /\ r.ran = task[s].ran
      /\ r.said = task[s].said /\ r.ended = task[s].ended /\ r.calm = task[s].calm
  <2>1. <<>> \in Seq(PhaseNames)
    OBVIOUS
  <2> HIDE DEF Classify
  <2> QED BY <1>1, <1>3, <2>1 DEF Tasks
<1>5. /\ DOMAIN task' = Jobs /\ task'[s] = r
      /\ \A t \in Jobs \ {s} : task'[t] = task[t]
  BY <1>1, SetsFrame
<1> HIDE DEF r
<1>6. HasMetrics(task[s].out) =>
        "SIMULATION_OK" \in task[s].out \/ (plugin = "timeloop" /\ "json" \in task[s].out)
  BY <1>1, PluginAssumption
     DEF HasMetrics, TimeloopParse, Gem5Parse, DRAMSysParse, RamulatorParse,
         ScaleSimParse, MNSIMParse, AstraSimParse, MarkedMetrics
<1>7. EarnedInv(s)'
  <2>1. Classify(task[s].out) = "sim_ok" => HasMetrics(task[s].out)
    BY DEF Classify
  <2> HIDE DEF Classify
  <2> QED BY <1>1, <1>4, <1>5, <1>6, <2>1 DEF LocalInv, EarnedInv
<1>8. ASSUME task[s].calm PROVE JudgedInv(s)'
  <2>1. PrintedInv(s)
    BY <1>1, <1>2, <1>8 DEF CourseInv
  <2>2. /\ Bad(s)' <=> Bad(s)
        /\ Agrees(s, task[s].ran)' <=> Agrees(s, task[s].ran)
    BY <1>1, <1>4, <1>5, OwnStays, AgreesStays DEF Agrees
  <2>3. /\ Classify(task[s].out) = "build_fail" => "BUILD_FAILED" \in task[s].out
        /\ layout = "inside" /\ Bad(s) => Classify(task[s].out) = "build_fail"
    BY <1>6, <2>1 DEF Classify, PrintedInv
  <2> HIDE DEF Classify
  <2> QED BY <1>1, <1>4, <1>5, <2>1, <2>2, <2>3 DEF PrintedInv, JudgedInv
<1>9. Shipped(s)' = Shipped(s)
  BY <1>4, <1>5 DEF Shipped
<1>10. LocalInv(s)'
  BY <1>1, <1>4, <1>5, <1>7, <1>8, <1>9 DEF LocalInv
<1>11. CourseInv(s)'
  <2>1. \A k \in 0..(Len(Phases') - 2) : task'[s].todo # From(k)'
    BY <1>1, <1>4, <1>5, SetupStays, FromPhases
  <2> QED BY <1>4, <1>5, <2>1, <<>> # <<"parse">> DEF CourseInv
<1> QED BY <1>1, <1>4, <1>5, <1>10, <1>11, PluginFrame

LEMMA ContentsFine ==
    ASSUME NEW content \in Contents
    PROVE  /\ content \in [Files -> Qualities]
           /\ plugin \in {"gem5", "scalesim"} => content["main"] # "absent"
<1> DEFINE sound == {c \in [Expected -> {"absent", "good"}] :
                       \E f \in Expected : c[f] = "good"}
           faulty == {[c EXCEPT ![f] = q] : c \in sound, f \in Reads, q \in Faults}
<1>1. PICK c \in sound \cup faulty :
        content = [f \in Files |-> IF f \in Expected THEN c[f] ELSE "absent"]
  BY DEF Contents
<1>2. /\ "main" \in Files /\ Faults \subseteq Qualities \ {"absent"}
      /\ plugin \in {"gem5", "scalesim"} => Expected = {"main"}
  BY DEF Expected, Faults, Qualities, Files
<1>3. /\ c \in [Expected -> Qualities]
      /\ Expected = {"main"} => c["main"] # "absent"
  <2>1. CASE c \in sound
    BY <2>1 DEF Qualities
  <2>2. CASE c \in faulty
    <3>1. PICK d \in sound, f \in Reads, q \in Faults : c = [d EXCEPT ![f] = q]
      BY <2>2
    <3>2. d \in [Expected -> Qualities] /\ q \in Qualities /\ q # "absent"
      BY <1>2, <3>1 DEF Qualities
    <3>3. Expected = {"main"} => d["main"] = "good"
      OBVIOUS
    <3> HIDE DEF sound, faulty
    <3>4. c \in [Expected -> Qualities]
      BY <3>1, <3>2
    <3>5. ASSUME Expected = {"main"} PROVE c["main"] # "absent"
      <4>1. c["main"] = q \/ c["main"] = d["main"]
        <5>1. DOMAIN d = Expected
          BY <3>2
        <5> QED BY <3>1, <3>5, <5>1
      <4> QED BY <3>2, <3>3, <3>5, <4>1
    <3> QED BY <3>4, <3>5
  <2>3. c \in sound \/ c \in faulty
    BY <1>1
  <2> HIDE DEF sound, faulty
  <2> QED BY <2>1, <2>2, <2>3
<1>4. "absent" \in Qualities
  BY DEF Qualities
<1> QED BY <1>1, <1>2, <1>3, <1>4

(* One that comes while others are at work disturbs them and is disturbed. *)
LEMMA AcceptKeeps ==
    ASSUME PluginInv, NEW s \in Jobs, NEW content \in Contents, Accept(s, content)
    PROVE  PluginInv'
<1> DEFINE copy == {f \in Files : content[f] # "absent"}
           r == [NoTask EXCEPT !.files = content, !.todo = Phases,
                               !.copy = copy, !.calm = Active = {}]
<1>1. /\ plugin' = plugin /\ layout' = layout
      /\ staged' = staged /\ copies' = copies /\ made' = made
      /\ DOMAIN task' = Jobs /\ task'[s] = r
      /\ \A t \in Jobs \ {s} :
           task'[t] = [task[t] EXCEPT !.calm = @ /\ t \notin Active]
      /\ task[s].todo = <<>>
  BY DEF Accept
<1>2. /\ PluginTypes /\ Ordered
      /\ 0 \in 0..(Len(Phases) - 2) /\ Phases = From(0) /\ Coming(0)
  BY PhasesOrdered, AllFrom, FromPhases DEF PluginInv
<1>3. PluginTypes'
  BY <1>1, <1>2 DEF PluginTypes, Holdings
<1>4. /\ r \in Tasks /\ r.files = content /\ r.todo = Phases /\ r.copy = copy
      /\ r.out = {} /\ r.said = {} /\ r.ended = "not" /\ r.calm = (Active = {})
      /\ r.verdict = "none"
  <2>1. /\ Phases \in Seq(PhaseNames) /\ content \in [Files -> Qualities]
        /\ copy \in SUBSET Files /\ NoFiles \in Holdings /\ (Active = {}) \in BOOLEAN
        /\ {} \in SUBSET Words
    BY <1>2, ContentsFine DEF Ordered, NoFiles, Holdings
  <2> DEFINE active == Active = {}
  <2>2. active \in BOOLEAN
    OBVIOUS
  <2>3. r = [NoTask EXCEPT !.files = content, !.todo = Phases, !.copy = copy,
                           !.calm = active]
    OBVIOUS
  <2> HIDE DEF copy, r, active
  <2>4. /\ r \in Tasks /\ r.files = content /\ r.todo = Phases /\ r.copy = copy
        /\ r.out = {} /\ r.said = {} /\ r.ended = "not" /\ r.calm = active
        /\ r.verdict = "none"
    BY <2>1, <2>2, <2>3 DEF NoTask, Tasks, Outcomes
  <2> QED BY <2>4 DEF active
<1> HIDE DEF r
<1>5. ASSUME NEW t \in Jobs \ {s}
      PROVE  /\ LocalInv(t)' /\ task'[t].todo = task[t].todo
             /\ task'[t].calm => task'[t].todo = <<>>
  <2>1. LocalInv(t) /\ task[t] \in Tasks
    BY DEF PluginInv, LocalInv
  <2>2. /\ task'[t] \in Tasks /\ task'[t].files = task[t].files
        /\ task'[t].todo = task[t].todo /\ task'[t].copy = task[t].copy
        /\ task'[t].out = task[t].out /\ task'[t].ran = task[t].ran
        /\ task'[t].said = task[t].said
        /\ task'[t].ended = task[t].ended /\ task'[t].verdict = task[t].verdict
        /\ task'[t].calm => task[t].calm /\ t \notin Active
    <3> DEFINE b == task[t].calm /\ t \notin Active
    <3>1. b \in BOOLEAN /\ task'[t] = [task[t] EXCEPT !.calm = b]
      BY <1>1
    <3>2. b => task[t].calm /\ t \notin Active
      OBVIOUS
    <3> HIDE DEF b
    <3> QED BY <2>1, <3>1, <3>2 DEF Tasks
  <2>3. Shipped(t)' = Shipped(t) /\ (JudgedInv(t)' <=> JudgedInv(t))
    <3>1. \A place : (\A f \in Reads' : \/ place[f] = Own(t)'[f]
                                        \/ plugin' = "dramsys" /\ f \notin Shipped(t)')
                     <=> Agrees(t, place)
      BY <1>1, <2>2, AgreesStays
    <3>2. Bad(t)' <=> Bad(t)
      BY <1>1, <2>2, OwnStays
    <3>3. Agrees(t, task[t].ran)' <=> Agrees(t, task[t].ran)
      BY <2>2, <3>1 DEF Agrees
    <3> QED BY <1>1, <2>2, <3>2, <3>3 DEF JudgedInv, Shipped
  <2>4. EarnedInv(t)' <=> EarnedInv(t)
    BY <1>1, <2>2 DEF EarnedInv
  <2>5. \A k : Waiting(t, k)' <=> Waiting(t, k)
    BY <1>1, <2>2, SetupStays DEF Waiting
  <2>6. LocalInv(t)'
    <3>1. task'[t] \in Tasks'
      BY <2>2 DEF Tasks, Holdings
    <3> QED BY <1>1, <2>1, <2>2, <2>3, <2>4, <2>5, <3>1, SetupStays DEF LocalInv
  <2> QED BY <2>2, <2>6 DEF Active
<1>6. ASSUME NEW t \in Jobs \ {s} PROVE AloneInv(t)' /\ CourseInv(t)'
  <2>1. \A k \in 0..(Len(Phases') - 2) : From(k)' # <<>>
    BY <1>1, <1>2, SetupStays, FromPhases
  <2> QED BY <1>5, <2>1, <<>> # <<"parse">> DEF AloneInv, CourseInv
<1>7. Shipped(s)' = copy
  BY <1>1, <1>4 DEF Shipped
<1>8. Waiting(s, 0)'
  <2>1. Phases[0 + 1] # "collect"
    BY <1>2 DEF Coming
  <2> QED BY <1>1, <1>2, <1>4, <2>1, SetupStays DEF Waiting
<1>9. LocalInv(s)'
  <2>1. plugin \in {"gem5", "scalesim"} => "main" \in copy
    BY ContentsFine DEF Files
  <2>2. EarnedInv(s)'
    BY <1>1, <1>4 DEF EarnedInv
  <2>3. task'[s] \in Tasks'
    BY <1>1, <1>4 DEF Tasks, Holdings
  <2>4. 0 \in 0..(Len(Phases') - 2)
    BY <1>1, <1>2, SetupStays
  <2> QED BY <1>1, <1>4, <1>7, <1>8, <2>1, <2>2, <2>3, <2>4 DEF LocalInv
<1>10. AloneInv(s)'
  <2>1. SUFFICES ASSUME Active = {} PROVE Active' = {s}
    BY <1>1, <1>4 DEF AloneInv
  <2>2. task'[s].todo # <<>>
    BY <1>1, <1>2, <1>4, FromPhases
  <2>3. \A t \in Jobs \ {s} : task'[t].todo = <<>>
    BY <1>5, <2>1 DEF Active
  <2> QED BY <2>2, <2>3 DEF Active
<1>11. CourseInv(s)'
  <2>1. /\ task'[s].todo # <<"parse">>
        /\ \A k \in 0..(Len(Phases') - 2) : task'[s].todo = From(k)' => k = 0
    BY <1>1, <1>2, <1>4, SetupStays, FromPhases
  <2>2. Stage(s, 0)'
    <3>1. \A p : ~Passed(0, p)'
      BY <1>1, PassedNone, SetupStays
    <3> QED BY <1>1, <1>4, <1>7, <3>1 DEF Stage
  <2> QED BY <2>1, <2>2 DEF CourseInv
<1> QED BY <1>3, <1>5, <1>6, <1>9, <1>10, <1>11 DEF PluginInv

LEMMA PluginStarts == ASSUME PluginInit PROVE PluginInv
<1>1. PluginTypes
  BY DEF PluginInit, PluginTypes, NoFiles, Holdings
<1>2. ASSUME NEW s \in Jobs PROVE LocalInv(s) /\ AloneInv(s) /\ CourseInv(s)
  <2>1. task[s] = NoTask
    BY DEF PluginInit
  <2>2. /\ NoTask \in Tasks /\ NoTask.todo = <<>> /\ NoTask.verdict = "none"
        /\ NoTask.out = {} /\ NoTask.said = {}
    <3>1. <<>> \in Seq(PhaseNames)
      OBVIOUS
    <3> QED BY <3>1 DEF NoTask, Tasks, NoFiles, Holdings, Qualities, Outcomes
  <2>3. \A k \in 0..(Len(Phases) - 2) : From(k) # <<>>
    BY <1>1, PhasesOrdered, FromPhases
  <2> QED BY <2>1, <2>2, <2>3, <<>> # <<"parse">>
       DEF LocalInv, EarnedInv, AloneInv, CourseInv
<1> QED BY <1>1, <1>2 DEF PluginInv

LEMMA PluginSteps == ASSUME PluginInv, [PluginNext]_pluginVars PROVE PluginInv'
<1>1. CASE PluginNext
  BY <1>1, AcceptKeeps, ClearKeeps, CopyKeeps, TimeoutKeeps, WipeKeeps, PlaceKeeps,
     CheckKeeps, CompileKeeps, SpeakKeeps, RunKeeps, CollectKeeps, EvaluateKeeps, SimulateKeeps,
     ParseKeeps DEF PluginNext
<1>2. CASE UNCHANGED pluginVars
  <2>1. /\ plugin' = plugin /\ layout' = layout /\ staged' = staged
        /\ copies' = copies /\ made' = made /\ task' = task
    BY <1>2 DEF pluginVars
  <2>2. PluginTypes'
    BY <2>1 DEF PluginInv, PluginTypes, Holdings
  <2>3. ASSUME NEW s \in Jobs PROVE LocalInv(s)' /\ AloneInv(s)' /\ CourseInv(s)'
    <3>1. LocalInv(s) /\ AloneInv(s) /\ CourseInv(s)
      BY DEF PluginInv
    <3>2. LocalInv(s)'
      BY <2>1, <3>1, LocalStays
    <3>3. /\ Own(s)' = Own(s) /\ Shipped(s)' = Shipped(s) /\ (Bad(s)' <=> Bad(s))
          /\ Reads' = Reads
      BY <2>1, OwnStays, SetupStays
    <3>4. \A k : Stage(s, k)' <=> Stage(s, k)
      BY <2>1, <3>3, SetupStays DEF Stage, Agrees, Laid
    <3>5. PrintedInv(s)' <=> PrintedInv(s)
      BY <2>1, <3>3 DEF PrintedInv, Agrees
    <3> QED BY <2>1, <3>1, <3>2, <3>4, <3>5, SetupStays DEF AloneInv, CourseInv, Active
  <2> QED BY <2>2, <2>3 DEF PluginInv
<1> QED BY <1>1, <1>2

LEMMA InvGivesOwnVerdict == ASSUME PluginInv PROVE OwnVerdict
<1>1. OkIsEarned
  BY DEF OkIsEarned, PluginInv, LocalInv, EarnedInv
<1>2. ASSUME NEW s \in Jobs, task[s].calm, task[s].verdict # "none"
      PROVE  /\ task[s].ended = "well" =>
                  \A f \in Reads : \/ task[s].ran[f] = Own(s)[f]
                                   \/ plugin = "dramsys" /\ Own(s)[f] = Nobody
             /\ layout = "inside" /\ Bad(s) => task[s].verdict = "build_fail"
             /\ layout = "inside" /\ task[s].verdict = "build_fail" =>
                  Bad(s) \/ "BUILD_FAILED" \in task[s].said
             /\ Bad(s) <=> \/ Incomplete(Own(s)) \/ Holds(Own(s), "refused")
                           \/ Holds(Own(s), "lacking") /\ plugin # "astrasim"
  <2>1. JudgedInv(s) /\ PluginTypes /\ task[s] \in Tasks
    BY <1>2 DEF PluginInv, LocalInv
  <2>2. Own(s) \in Holdings /\ Agrees(s, Own(s))
    BY <2>1, OwnAgrees
  <2>3. Reads \subseteq Files
    BY DEF Reads, Expected, Files
  <2>4. \A f \in Reads : f \notin Shipped(s) => Own(s)[f] = Nobody
    BY <2>3 DEF Own
  <2>5. Bad(s) <=> \/ Incomplete(Own(s)) \/ Holds(Own(s), "refused")
                   \/ Holds(Own(s), "lacking") /\ plugin # "astrasim"
    <3> HIDE DEF Own
    <3> QED BY <2>1, <2>2, SeesOwn
  <2> QED BY <2>1, <2>4, <2>5 DEF JudgedInv, Agrees
<1> QED BY <1>1, <1>2 DEF OwnVerdict, VerdictIsOwn

(* What run_submit tells a submission is its own doing: metrics are those  *)
(* of a simulation of it that ended well, or were announced by the code of *)
(* a submission that gem5 or Ramulator runs; and one that no other         *)
(* disturbed is judged by its own files, whatever earlier ones left in the *)
(* container that nobody cleans (but for DRAMSys's optional files).        *)
THEOREM VerdictsAreOwn == PluginSpec => []OwnVerdict
<1>1. PluginInit => PluginInv
  BY PluginStarts
<1>2. PluginInv /\ [PluginNext]_pluginVars => PluginInv'
  BY PluginSteps
<1>3. PluginInv => OwnVerdict
  BY InvGivesOwnVerdict
<1> QED BY <1>1, <1>2, <1>3, PTL DEF PluginSpec
=============================================================================
