----------------------------- MODULE RunSession -----------------------------
(***************************************************************************)
(* One evaluation session: run_session starts the containers and servers   *)
(* of a run, lets the agent work, and tears everything down in a finally   *)
(* block that also waits for submissions, copies the workspace, runs the   *)
(* evaluators and writes session.json.                                     *)
(*                                                                         *)
(* Source: archbench/runtimes/session.py, archbench/core/container.py (what *)
(* start and stop do to a container), runtimes/*/runner.py (how the wait   *)
(* for the agent ends).  The submit connector is seen as SubmissionService *)
(* describes it: a call is handled, marked, recorded and unmarked.         *)
(***************************************************************************)
EXTENDS Naturals, FiniteSets

CONSTANTS
    Calls,         \* submit calls of the agent (bounds the run)
    Extras,        \* extra simulator containers of a multi-sim session
    UsesProxy,     \* runtime_type == "byo_model"
    ReportsExit,   \* the runner sets last_session_rc/last_session_timed_out
    Sim, Agent     \* the two containers every session has

ASSUME SessionAssumption ==
    /\ {UsesProxy, ReportsExit} \subseteq BOOLEAN
    /\ Sim # Agent /\ Sim \notin Extras /\ Agent \notin Extras

VARIABLES
    (* run_session *)
    phase,       \* its next step
    rc,          \* its variable rc
    early,       \* the value of an early return, 0 if there was none
    raised,      \* an exception is propagating
    sessionRc,   \* rc in session.json, NoRc before it is written
    judged,      \* submissions whose rows the evaluators have read
    graceOver,   \* the grace wait gave up on markers
    (* resources *)
    containers,  \* containers that exist
    coming,      \* containers docker still creates, its docker run given up
    handles,     \* containers whose manager the finally block can reach
    registry,    \* _LIVE_CONTAINERS, swept at exit
    processes,   \* model proxy and MCP server processes
    lost,        \* resources whose removal docker did not carry out or an
                 \* interrupt of the teardown prevented
    (* the agent and its submissions *)
    client,      \* the agent's process
    ended,       \* how the runner's wait for its client ended
    stray,       \* what outlived its client: the agent, calls of it
    call         \* progress of each submission

rcVars == <<rc, early, raised, sessionRc>>
resources == <<containers, coming, handles, registry, processes, lost>>
agentVars == <<client, ended, stray, call>>
vars == <<phase, rcVars, judged, graceOver, resources, agentVars>>

NoRc == 99
Codes == {0, 3, 4, 5, 6, 7, 8}

TryPhases == {"sim", "verifySim", "extras", "verifyExtra", "proxy", "proxyBind",
              "agent", "verifyAgent", "stage", "mcp", "mcpBind", "session",
              "running"}
FinallyPhases == {"grace", "copyOut", "evaluate", "save", "stopMcp", "stopAgent",
                  "stopProxy", "stopSim", "stopExtras"}
Phases == TryPhases \cup FinallyPhases \cup {"returned", "exited"}

Marked == {c \in Calls : call[c] \in {"running", "recorded"}}
Recorded == {c \in Calls : call[c] \in {"recorded", "finished"}}
Handled == {c \in Calls : call[c] = "handling"}
Quiet == Handled = {}

Init ==
    /\ phase = "sim"
    /\ rc = 0 /\ early = 0 /\ raised = FALSE /\ sessionRc = NoRc
    /\ judged = {} /\ graceOver = FALSE
    /\ containers = {} /\ coming = {} /\ handles = {} /\ registry = {}
    /\ processes = {} /\ lost = {}
    /\ client = "off" /\ ended = "none" /\ stray = {}
    /\ call = [c \in Calls |-> "none"]

-----------------------------------------------------------------------------
(* Leaving the try block *)

Step(from, to) ==
    /\ phase = from /\ phase' = to
    /\ UNCHANGED rcVars

(* except Exception: rc = 6; raise.  A KeyboardInterrupt is no Exception.  *)
Raise(from) ==
    /\ phase = from /\ phase' = "grace"
    /\ rc' \in {6, rc} /\ raised' = TRUE
    /\ UNCHANGED <<early, sessionRc>>

(* return 3 / return 4: the variable rc keeps its value.                   *)
Return(from, code) ==
    /\ phase = from /\ phase' = "grace"
    /\ early' = code
    /\ UNCHANGED <<rc, raised, sessionRc>>

-----------------------------------------------------------------------------
(* Starting containers and servers *)

StartedOk(x) ==
    /\ containers' = containers \cup {x}
    /\ registry' = registry \cup {x}
    /\ UNCHANGED coming

(* docker run failed, with no container or with one it had created, or was *)
(* given up or cut short while docker is at it; either way start() raises  *)
(* before it registers the name.                                           *)
StartFailed(x) ==
    /\ \/ UNCHANGED <<containers, coming>>
       \/ containers' = containers \cup {x} /\ UNCHANGED coming
       \/ coming' = coming \cup {x} /\ UNCHANGED containers
    /\ UNCHANGED registry

(* The engine ends a docker run nobody waits for.                          *)
EngineCreates(x) ==
    /\ x \in coming /\ coming' = coming \ {x}
    /\ containers' \in {containers, containers \cup {x}}
    /\ UNCHANGED <<phase, rcVars, judged, graceOver, handles, registry, processes,
                   lost, agentVars>>

(* The manager of the simulator and of the agent is a variable of          *)
(* run_session before start() is called.                                   *)
StartContainer(x, from, to) ==
    /\ handles' = handles \cup {x}
    /\ \/ Step(from, to) /\ StartedOk(x)
       \/ Raise(from) /\ StartFailed(x)
    /\ UNCHANGED <<judged, graceOver, processes, lost, agentVars>>

StartSim == StartContainer(Sim, "sim", "verifySim")
StartAgent == StartContainer(Agent, "agent", "verifyAgent")

(* An extra simulator joins extra_sim_mgrs only after start() returned: no *)
(* manager of a failed one is kept, and an interrupt may come between.     *)
StartExtra(x) ==
    /\ x \in Extras \ handles
    /\ \/ /\ Step("extras", "verifyExtra") /\ StartedOk(x)
          /\ handles' = handles \cup {x}
       \/ /\ Raise("extras")
          /\ StartFailed(x) \/ StartedOk(x)
          /\ UNCHANGED handles
    /\ UNCHANGED <<judged, graceOver, processes, lost, agentVars>>

ExtrasStarted ==
    /\ Extras \subseteq handles
    /\ Step("extras", IF UsesProxy THEN "proxy" ELSE "agent")
    /\ UNCHANGED <<judged, graceOver, resources, agentVars>>

(* verify_simulator / verify_in_container, and configure_simulator.        *)
Verify(from, to, code) ==
    /\ Step(from, to) \/ Return(from, code) \/ Raise(from)
    /\ UNCHANGED <<judged, graceOver, resources, agentVars>>

VerifyStep ==
    \/ Verify("verifySim", "extras", 3)
    \/ Verify("verifyExtra", "extras", 3)
    \/ Verify("verifyAgent", "stage", 4)

(* A process that is started but never binds its port is an exception.     *)
StartProcess(p, from, bind) ==
    /\ \/ Step(from, bind) /\ processes' = processes \cup {p}
       \/ Raise(from) /\ UNCHANGED processes
    /\ UNCHANGED <<judged, graceOver, containers, coming, handles, registry, lost,
                   agentVars>>

WorkOrRaise(from, to) ==
    /\ Step(from, to) \/ Raise(from)
    /\ UNCHANGED <<judged, graceOver, resources, agentVars>>

StartProxy ==
    StartProcess("proxy", "proxy", "proxyBind") \/ WorkOrRaise("proxyBind", "agent")

StageWorkspace == WorkOrRaise("stage", "mcp")

StartMcp ==
    StartProcess("mcp", "mcp", "mcpBind") \/ WorkOrRaise("mcpBind", "session")

-----------------------------------------------------------------------------
(* The session and the agent *)

StartSession ==
    /\ \/ Step("session", "running") /\ client' = "running"
       \/ (* runtime without start_session: rc = 5 *)
          /\ phase = "session" /\ phase' = "grace" /\ rc' = 5
          /\ UNCHANGED <<early, raised, sessionRc, client>>
       \/ Raise("session") /\ UNCHANGED client
    /\ UNCHANGED <<judged, graceOver, resources, ended, stray, call>>

(* The client is gone, and the server may still be handling a call of it.  *)
ClientGone == client' = "gone" /\ stray' = stray \cup Handled

(* The agent exits by itself.                                              *)
AgentExits(how) ==
    /\ Step("running", "grace")
    /\ ClientGone /\ ended' = how
    /\ UNCHANGED <<judged, graceOver, resources, call>>

(* Killing the docker exec client may leave the process in the container.  *)
KillClient ==
    \/ ClientGone
    \/ client' = "orphan" /\ stray' = stray \cup Handled \cup {Agent}

RoundTimeout ==
    /\ Step("running", "grace")
    /\ KillClient
    /\ ended' = "timeout"
    /\ UNCHANGED <<judged, graceOver, resources, call>>

(* A KeyboardInterrupt in the wait for the client: rc is not set.          *)
Interrupt ==
    /\ phase = "running" /\ phase' = "grace"
    /\ raised' = TRUE
    /\ KillClient
    /\ UNCHANGED <<rc, early, sessionRc, judged, graceOver, resources, ended, call>>

OrphanEnds ==
    /\ client = "orphan" /\ client' = "gone"
    /\ UNCHANGED <<phase, rcVars, judged, graceOver, resources, ended, stray, call>>

Progress(c, from, to) ==
    /\ "mcp" \in processes
    /\ call[c] = from /\ call' = [call EXCEPT ![c] = to]
    /\ UNCHANGED <<phase, rcVars, judged, graceOver, resources, client, ended,
                   stray>>

(* Handlers run one at a time on the server's event loop.                  *)
Submit(c) ==
    /\ client \in {"running", "orphan"} /\ Quiet
    /\ Progress(c, "none", "handling")

(* Mutant: the marker goes before the row is written.                      *)
MutSubmissionStep(c) ==
    \/ Submit(c)
    \/ Progress(c, "handling", "running")
    \/ Progress(c, "running", "unmarked")
    \/ Progress(c, "unmarked", "finished")

SubmissionStep(c) ==
    \/ Submit(c)
    \/ Progress(c, "handling", "running")
    \/ Progress(c, "running", "recorded")
    \/ Progress(c, "recorded", "finished")

(* The server's handlers and workers die with it.                          *)
Cut == call' = [c \in Calls |-> IF call[c] \in {"handling", "running"}
                                THEN "lost" ELSE call[c]]

(* A server may crash at any time.                                         *)
ServerDies(p) ==
    /\ p \in processes /\ processes' = processes \ {p}
    /\ IF p = "mcp" THEN Cut ELSE UNCHANGED call
    /\ UNCHANGED <<phase, rcVars, judged, graceOver, containers, coming,
                   handles, registry, lost, client, ended, stray>>

-----------------------------------------------------------------------------
(* finally *)

(* Mutant: the wait ends as soon as submit_outcomes.jsonl is stable.       *)
MutGraceStable ==
    /\ Step("grace", "copyOut")
    /\ UNCHANGED <<judged, graceOver, resources, agentVars>>

(* Mutant: no deadline.                                                    *)
MutGraceWait ==
    /\ Step("grace", "copyOut")
    /\ ("mcp" \notin processes \/ Marked = {}) /\ UNCHANGED graceOver
    /\ UNCHANGED <<judged, resources, agentVars>>

(* The wait ends when the server is gone, when no marker is left, or, with *)
(* markers left, at the deadline or when they cannot be listed.            *)
GraceWait ==
    /\ Step("grace", "copyOut")
    /\ \/ ("mcp" \notin processes \/ Marked = {}) /\ UNCHANGED graceOver
       \/ "mcp" \in processes /\ Marked # {} /\ graceOver' = TRUE
    /\ UNCHANGED <<judged, resources, agentVars>>

CopyOut ==
    /\ Step("copyOut", "evaluate")
    /\ UNCHANGED <<judged, graceOver, resources, agentVars>>

Evaluate ==
    /\ Step("evaluate", "save")
    /\ judged' = Recorded
    /\ UNCHANGED <<graceOver, resources, agentVars>>

FinalRc ==
    IF rc # 0 \/ ~ReportsExit THEN rc
    ELSE IF ended = "crash" THEN 7
    ELSE IF ended = "timeout" THEN 8 ELSE 0

SaveSession ==
    /\ phase = "save" /\ phase' = "stopMcp"
    /\ rc' = FinalRc /\ sessionRc' = FinalRc
    /\ UNCHANGED <<early, raised, judged, graceOver, resources, agentVars>>

(* Mutant: the server is told to terminate but not waited for.             *)
MutStopMcp ==
    /\ Step("stopMcp", "stopAgent")
    /\ UNCHANGED <<judged, graceOver, resources, agentVars>>

StopMcp ==
    /\ Step("stopMcp", "stopAgent")
    /\ processes' = processes \ {"mcp"}
    /\ IF "mcp" \in processes THEN Cut ELSE UNCHANGED call
    /\ UNCHANGED <<judged, graceOver, containers, coming, handles, registry, lost,
                   client, ended, stray>>

(* docker rm -f: a removal that timed out raises, which is swallowed, and  *)
(* one that comes before the container finds nothing to remove.            *)
RemoveContainers(xs) ==
    \E left \in SUBSET (xs \cap containers) :
        /\ containers' = (containers \ xs) \cup left
        /\ lost' = lost \cup left \cup (xs \cap coming)
        /\ UNCHANGED coming

(* stop() forgets the names, then removes the containers.                  *)
Stop(xs) ==
    /\ registry' = registry \ xs
    /\ RemoveContainers(xs)
    /\ UNCHANGED <<handles, processes>>

(* The agent goes with its container.                                      *)
Survivors ==
    client' = IF Agent \in containers' \/ client = "off" THEN client ELSE "gone"

StopAgent ==
    /\ Step("stopAgent", "stopProxy")
    /\ Stop({Agent} \cap handles)
    /\ Survivors
    /\ UNCHANGED <<judged, graceOver, ended, stray, call>>

(* Mutant: the proxy outlives the session.                                 *)
MutStopProxy ==
    /\ Step("stopProxy", "stopSim")
    /\ UNCHANGED <<judged, graceOver, resources, agentVars>>

StopProxy ==
    /\ Step("stopProxy", "stopSim")
    /\ processes' = processes \ {"proxy"}
    /\ UNCHANGED <<judged, graceOver, containers, coming, handles, registry, lost,
                   agentVars>>

StopSim ==
    /\ Step("stopSim", "stopExtras")
    /\ Stop({Sim} \cap handles)
    /\ UNCHANGED <<judged, graceOver, agentVars>>

StopExtras ==
    /\ Step("stopExtras", "returned")
    /\ Stop(Extras \cap handles)
    /\ UNCHANGED <<judged, graceOver, agentVars>>

(* A KeyboardInterrupt leaves the finally block, and with it the servers;  *)
(* one in stop() comes after the name was forgotten.                       *)
InterruptTeardown ==
    /\ phase \in FinallyPhases /\ phase' = "returned"
    /\ raised' = TRUE
    /\ \/ UNCHANGED registry
       \/ phase = "stopAgent" /\ registry' = registry \ {Agent}
       \/ phase = "stopSim" /\ registry' = registry \ {Sim}
       \/ /\ phase = "stopExtras"
          /\ \E x \in Extras \cap handles : registry' = registry \ {x}
    /\ lost' = lost \cup processes \cup (registry \ registry')
                    \cup (((containers \cup coming) \cap handles) \ registry)
    /\ UNCHANGED <<rc, early, sessionRc, judged, graceOver, containers, coming,
                   handles, processes, agentVars>>

(* The process ends and the atexit hook sweeps the registry.               *)
AtExit ==
    /\ Step("returned", "exited")
    /\ RemoveContainers(registry)
    /\ Survivors
    /\ UNCHANGED <<judged, graceOver, handles, registry, processes, ended, stray,
                   call>>

-----------------------------------------------------------------------------
(* Specification *)

SetupStep ==
    \/ StartSim \/ (\E x \in Extras : StartExtra(x)) \/ ExtrasStarted
    \/ VerifyStep \/ StartProxy \/ StartAgent \/ StageWorkspace \/ StartMcp
    \/ StartSession

TeardownStep ==
    \/ GraceWait \/ CopyOut \/ Evaluate \/ SaveSession
    \/ StopMcp \/ StopAgent \/ StopProxy \/ StopSim \/ StopExtras \/ AtExit

SessionStep == SetupStep \/ RoundTimeout \/ TeardownStep

Environment ==
    \/ (\E how \in {"clean", "crash"} : AgentExits(how))
    \/ Interrupt \/ InterruptTeardown \/ OrphanEnds
    \/ (\E p \in {"proxy", "mcp"} : ServerDies(p))
    \/ (\E x \in {Sim, Agent} \cup Extras : EngineCreates(x))
    \/ \E c \in Calls : SubmissionStep(c)

Next == SessionStep \/ Environment

Spec == Init /\ [][Next]_vars

(* run_session runs, and its waits for the agent and for markers have      *)
(* deadlines.  Nothing is assumed of the agent, its submissions and the    *)
(* server.                                                                 *)
FairSpec == Spec /\ WF_vars(SessionStep)

-----------------------------------------------------------------------------
(* Properties *)

TypeOK ==
    /\ phase \in Phases
    /\ rc \in Codes /\ early \in {0, 3, 4} /\ raised \in BOOLEAN
    /\ sessionRc \in Codes \cup {NoRc}
    /\ judged \subseteq Calls /\ graceOver \in BOOLEAN
    /\ containers \subseteq {Sim, Agent} \cup Extras
    /\ coming \subseteq {Sim, Agent} \cup Extras
    /\ handles \subseteq {Sim, Agent} \cup Extras
    /\ registry \subseteq {Sim, Agent} \cup Extras
    /\ processes \subseteq {"proxy", "mcp"}
    /\ lost \subseteq {Sim, Agent, "proxy", "mcp"} \cup Extras
    /\ client \in {"off", "running", "orphan", "gone"}
    /\ ended \in {"none", "clean", "crash", "timeout"}
    /\ stray \subseteq Calls \cup {Agent}
    /\ call \in [Calls -> {"none", "handling", "running", "recorded", "finished",
                           "lost"}]

(* container.py:8: "Container goes away regardless. No orphans."  Only what *)
(* docker did not remove when told to, or a second interrupt hit, is left. *)
NoOrphans == phase = "exited" => containers \cup processes \subseteq lost

(* Containers no step of the teardown and no sweep knows of.               *)
Unclaimed == containers \ (handles \cup registry)

(* What a session leaves behind although nobody failed to remove it is at  *)
(* most one container: the extra simulator whose docker run failed after   *)
(* it had created it, in a session that raised before its agent ran.  All  *)
(* other containers and servers are gone once the process has exited,      *)
(* wherever the session failed or was interrupted, save those docker did   *)
(* not remove or a second interrupt hit.                                   *)
OneOrphanAtMost ==
    phase = "exited" =>
        /\ containers \cup processes \subseteq lost \cup Unclaimed
        /\ Unclaimed \subseteq Extras
        /\ \A x, y \in Unclaimed : x = y
        /\ Unclaimed # {} => raised /\ client = "off"

(* As long as the process lives, a live MCP server has all its containers: *)
(* it is started after the last of them and stopped before the first, on   *)
(* every path through the setup.                                           *)
ServedWhileUsed ==
    "mcp" \in processes /\ phase # "exited" =>
        {Sim, Agent} \cup Extras \subseteq containers

(* Teardown cuts no submission short unless the grace deadline has passed  *)
(* or the agent outlives its client: the grace period lasts until all      *)
(* workers have completed.                                                 *)
NothingCutShort ==
    [][phase = "stopMcp" /\ phase' = "stopAgent" /\ ~graceOver /\ stray = {} =>
         \A c \in Calls : call'[c] = "lost" => call[c] = "lost"]_vars

(* What the evaluators judged for a session.json that was written is what  *)
(* submit_outcomes.jsonl holds then and ever after, with the same proviso. *)
JudgedIsFinal == sessionRc # NoRc /\ ~graceOver /\ stray = {} => judged = Recorded

(* session.py:280-282: "each `return rc` below already sets rc".           *)
EarlyReturnIsSaved == sessionRc # NoRc /\ early # 0 => sessionRc = early

(* The session ends whatever the agent, the server and the submissions do. *)
SessionEnds == <>(phase = "exited")
=============================================================================
