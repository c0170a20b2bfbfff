-------------------------- MODULE RunSession_proofs --------------------------
(***************************************************************************)
(* What holds of every session, for any number of submissions and of extra *)
(* simulator containers.  The inductive invariant Inv says where in the    *)
(* program each container and server can exist, and, when nothing of the   *)
(* agent outlives its client, where a submission can still be in progress. *)
(***************************************************************************)
EXTENDS RunSession, TLAPS

(* TypeOK in two parts, for two provers.                                   *)
FlagsOK == raised \in BOOLEAN /\ graceOver \in BOOLEAN

DataOK ==
    /\ phase \in Phases
    /\ rc \in Codes /\ early \in {0, 3, 4}
    /\ sessionRc \in Codes \cup {NoRc}
    /\ judged \subseteq Calls
    /\ containers \subseteq {Sim, Agent} \cup Extras
    /\ coming \subseteq {Sim, Agent} \cup Extras
    /\ handles \subseteq {Sim, Agent} \cup Extras
    /\ registry \subseteq {Sim, Agent} \cup Extras
    /\ processes \subseteq {"proxy", "mcp"}
    /\ lost \subseteq {Sim, Agent, "proxy", "mcp"} \cup Extras
    /\ client \in {"off", "running", "orphan", "gone"}
    /\ ended \in {"none", "clean", "crash", "timeout"}
    /\ stray \subseteq Calls \cup {Agent}
    /\ call \in [Calls -> {"none", "handling", "running", "recorded", "finished",
                           "lost"}]

(* Where the setup has reached which container.                            *)
HasExtras == {"proxy", "proxyBind", "agent", "verifyAgent", "stage", "mcp",
              "mcpBind", "session", "running"}
HasAgent == {"verifyAgent", "stage", "mcp", "mcpBind", "session", "running"}

SetupInv ==
    /\ phase \in TryPhases \ {"sim"} => Sim \in containers
    /\ phase \in TryPhases => handles \cap Extras \subseteq containers
    /\ phase \in HasExtras => Extras \subseteq containers
    /\ phase \in HasAgent => Agent \in containers

(* Where the servers can be alive.                                         *)
McpPhases == {"mcpBind", "session", "running", "grace", "copyOut", "evaluate",
              "save", "stopMcp"}
ProxyPhases == {"proxyBind", "agent", "verifyAgent", "stage", "mcp", "stopAgent",
                "stopProxy"} \cup McpPhases

ServerInv ==
    /\ "mcp" \in processes => phase \in McpPhases \/ "mcp" \in lost
    /\ "mcp" \in processes =>
         phase \in McpPhases \cup {"returned", "exited"}
    /\ "proxy" \in processes => phase \in ProxyPhases \/ "proxy" \in lost
    /\ ServedWhileUsed

(* What the teardown has removed where.                                    *)
Stopped ==
    {x \in {Agent} : phase \in {"stopProxy", "stopSim"}}
    \cup {x \in {Sim, Agent} : phase = "stopExtras"}
    \cup {x \in {Sim, Agent} \cup Extras : phase \in {"returned", "exited"}}

(* What exists or is to come, and what of it nobody will remove.           *)
Around == containers \cup coming
Strays == Around \ (handles \cup registry)

(* What the teardown has removed is registered again or lost, and lost     *)
(* after the exit sweep; only an extra simulator that failed to start is   *)
(* known to nobody.                                                        *)
OrphanInv ==
    /\ coming \cap registry = {}
    /\ Around \cap handles \cap Stopped \subseteq registry \cup lost
    /\ phase = "exited" => containers \cap registry \subseteq lost
    /\ Around \ Extras \subseteq handles

(* The setup has no failed start behind it, and starts what is not there.  *)
FreshInv ==
    /\ phase \in TryPhases => coming = {} /\ containers \cup registry \subseteq handles
    /\ phase \in TryPhases \ {"running"} => client = "off"
    /\ phase = "sim" => handles = {}
    /\ phase \in {"verifySim", "extras", "verifyExtra", "proxy", "proxyBind",
                  "agent"} => Agent \notin handles

StrayInv ==
    /\ \A x, y \in Strays : x = y
    /\ Strays # {} => raised /\ client = "off"

(* Once the agent is gone, no handler runs unless it went astray; once the *)
(* grace wait is over, nothing is marked; from then on no row is added.    *)
AgentInv ==
    /\ "mcp" \notin processes =>
         \A c \in Calls : call[c] \notin {"handling", "running"}
    /\ stray = {} => client # "orphan"
    /\ stray = {} /\ phase # "running" => client # "running" /\ Quiet

DrainedInv ==
    /\ sessionRc # NoRc =>
         phase \in {"stopMcp", "stopAgent", "stopProxy", "stopSim", "stopExtras",
                   "returned", "exited"}
    /\ stray = {} /\ ~graceOver
       /\ (phase \in {"copyOut", "evaluate", "save", "stopMcp"} \/ sessionRc # NoRc)
         => "mcp" \notin processes \/ Marked = {}

JudgedInv ==
    /\ stray = {} /\ ~graceOver /\ phase = "save" => judged = Recorded
    /\ JudgedIsFinal

Inv ==
    /\ TypeOK /\ SetupInv /\ ServerInv /\ OrphanInv
    /\ FreshInv /\ StrayInv
    /\ AgentInv /\ DrainedInv /\ JudgedInv

-----------------------------------------------------------------------------
(* Initial states *)

(* The invariant holds before the first container is started.              *)
LEMMA InitInv == Init => Inv
<1> SUFFICES ASSUME Init PROVE Inv
  OBVIOUS
<1> USE SessionAssumption DEF Init
<1>1. TypeOK
  BY DEF TypeOK, Phases, TryPhases, FinallyPhases, Codes, NoRc
<1>2. SetupInv
  BY DEF SetupInv, TryPhases, HasExtras, HasAgent
<1>3. ServerInv /\ OrphanInv /\ FreshInv /\ StrayInv
  BY DEF ServerInv, OrphanInv, ServedWhileUsed, FreshInv, StrayInv, Strays, Around
<1>4. AgentInv /\ DrainedInv
  BY DEF AgentInv, DrainedInv, Quiet, Handled
<1>5. JudgedInv
  BY DEF JudgedInv, JudgedIsFinal, Recorded
<1> QED BY <1>1, <1>2, <1>3, <1>4, <1>5 DEF Inv

-----------------------------------------------------------------------------
(* Steps *)

(* Every action keeps the flags Boolean.                                    *)
LEMMA FlagsStep ==
    FlagsOK /\ [Next]_vars => FlagsOK'
<1> SUFFICES ASSUME FlagsOK, [Next]_vars
             PROVE  FlagsOK'
  OBVIOUS
<1> USE DEF FlagsOK, rcVars, resources, agentVars
<1>1. ASSUME StartSim PROVE FlagsOK'
  BY <1>1 DEF StartSim, StartContainer, StartedOk, StartFailed, Step,
      Raise
<1>2. ASSUME NEW x \in Extras, StartExtra(x) PROVE FlagsOK'
  BY <1>2 DEF StartExtra, StartedOk, StartFailed, Step, Raise
<1>3. ASSUME ExtrasStarted PROVE FlagsOK'
  BY <1>3 DEF ExtrasStarted, Step
<1>4. ASSUME VerifyStep PROVE FlagsOK'
  BY <1>4 DEF VerifyStep, Verify, Step, Return, Raise
<1>5. ASSUME StartProxy PROVE FlagsOK'
  BY <1>5 DEF StartProxy, StartProcess, WorkOrRaise, Step, Raise
<1>6. ASSUME StartAgent PROVE FlagsOK'
  BY <1>6 DEF StartAgent, StartContainer, StartedOk, StartFailed, Step,
      Raise
<1>7. ASSUME StageWorkspace PROVE FlagsOK'
  BY <1>7 DEF StageWorkspace, WorkOrRaise, Step, Raise
<1>8. ASSUME StartMcp PROVE FlagsOK'
  BY <1>8 DEF StartMcp, StartProcess, WorkOrRaise, Step, Raise
<1>9. ASSUME StartSession PROVE FlagsOK'
  BY <1>9 DEF StartSession, Step, Raise
<1>10. ASSUME NEW how \in {"clean", "crash"}, AgentExits(how) PROVE FlagsOK'
  BY <1>10 DEF AgentExits, ClientGone, Step
<1>11. ASSUME RoundTimeout PROVE FlagsOK'
  BY <1>11 DEF RoundTimeout, KillClient, ClientGone, Step
<1>12. ASSUME Interrupt PROVE FlagsOK'
  BY <1>12 DEF Interrupt, KillClient, ClientGone
<1>13. ASSUME InterruptTeardown PROVE FlagsOK'
  BY <1>13 DEF InterruptTeardown
<1>14. ASSUME OrphanEnds PROVE FlagsOK'
  BY <1>14 DEF OrphanEnds
<1>15. ASSUME NEW c \in Calls, SubmissionStep(c) PROVE FlagsOK'
  BY <1>15 DEF SubmissionStep, Submit, Progress
<1>16. ASSUME NEW p \in {"proxy", "mcp"}, ServerDies(p) PROVE FlagsOK'
  BY <1>16 DEF ServerDies, Cut
<1>17. ASSUME GraceWait PROVE FlagsOK'
  BY <1>17 DEF GraceWait, Step
<1>18. ASSUME CopyOut PROVE FlagsOK'
  BY <1>18 DEF CopyOut, Step
<1>19. ASSUME Evaluate PROVE FlagsOK'
  BY <1>19 DEF Evaluate, Step
<1>20. ASSUME SaveSession PROVE FlagsOK'
  BY <1>20 DEF SaveSession
<1>21. ASSUME StopMcp PROVE FlagsOK'
  BY <1>21 DEF StopMcp, Cut, Step
<1>22. ASSUME StopAgent PROVE FlagsOK'
  BY <1>22 DEF StopAgent, Stop, RemoveContainers, Survivors, Step
<1>23. ASSUME StopProxy PROVE FlagsOK'
  BY <1>23 DEF StopProxy, Step
<1>24. ASSUME StopSim PROVE FlagsOK'
  BY <1>24 DEF StopSim, Stop, RemoveContainers, Step
<1>25. ASSUME StopExtras PROVE FlagsOK'
  BY <1>25 DEF StopExtras, Stop, RemoveContainers, Step
<1>26. ASSUME AtExit PROVE FlagsOK'
  BY <1>26 DEF AtExit, RemoveContainers, Survivors, Step
<1>27. ASSUME NEW x \in {Sim, Agent} \cup Extras, EngineCreates(x) PROVE FlagsOK'
  BY <1>27 DEF EngineCreates
<1>28. CASE UNCHANGED vars
  BY <1>28 DEF vars
<1> QED BY <1>1, <1>2, <1>3, <1>4, <1>5, <1>6, <1>7, <1>8, <1>9, <1>10,
           <1>11, <1>12, <1>13, <1>14, <1>15, <1>16, <1>17, <1>18, <1>19, <1>20,
           <1>21, <1>22, <1>23, <1>24, <1>25, <1>26, <1>27, <1>28 DEF Next, SessionStep,
           SetupStep, TeardownStep, Environment

(* The agent and calls of it are all that goes astray.                     *)
LEMMA StrayGrows ==
    ASSUME stray \subseteq Calls \cup {Agent},
           ClientGone \/ stray' = stray \cup Handled \cup {Agent}
    PROVE  stray' \subseteq Calls \cup {Agent}
  BY DEF ClientGone, Handled

(* Every action keeps the other variables in their types.                  *)
LEMMA DataStep ==
    DataOK /\ [Next]_vars => DataOK'
<1> SUFFICES ASSUME DataOK, [Next]_vars
             PROVE  DataOK'
  OBVIOUS
<1> USE SessionAssumption DEF DataOK, Phases, TryPhases, FinallyPhases,
    Codes, NoRc, FinalRc, Recorded, rcVars, resources, agentVars
<1>1. ASSUME StartSim PROVE DataOK'
  BY <1>1 DEF StartSim, StartContainer, StartedOk, StartFailed, Step,
      Raise
<1>2. ASSUME NEW x \in Extras, StartExtra(x) PROVE DataOK'
  BY <1>2 DEF StartExtra, StartedOk, StartFailed, Step, Raise
<1>3. ASSUME ExtrasStarted PROVE DataOK'
  BY <1>3 DEF ExtrasStarted, Step
<1>4. ASSUME VerifyStep PROVE DataOK'
  <2>1. ASSUME Verify("verifySim", "extras", 3) PROVE DataOK'
    BY <2>1 DEF Verify, Step, Return, Raise
  <2>2. ASSUME Verify("verifyExtra", "extras", 3) PROVE DataOK'
    BY <2>2 DEF Verify, Step, Return, Raise
  <2>3. ASSUME Verify("verifyAgent", "stage", 4) PROVE DataOK'
    BY <2>3 DEF Verify, Step, Return, Raise
  <2> QED BY <1>4, <2>1, <2>2, <2>3 DEF VerifyStep
<1>5. ASSUME StartProxy PROVE DataOK'
  <2>1. ASSUME StartProcess("proxy", "proxy", "proxyBind") PROVE DataOK'
    <3>1. processes' \subseteq {"proxy", "mcp"}
      <4>1. processes' \in {processes, processes \cup {"proxy"}}
        BY <2>1 DEF StartProcess
      <4>2. processes \cup {"proxy"} \subseteq {"proxy", "mcp"}
        OBVIOUS
      <4> QED BY <4>1, <4>2
    <3>2. phase' \in Phases /\ rc' \in Codes /\ UNCHANGED <<early, sessionRc>>
      BY <2>1 DEF StartProcess, Step, Raise
    <3> QED BY <2>1, <3>1, <3>2 DEF StartProcess
  <2>2. ASSUME WorkOrRaise("proxyBind", "agent") PROVE DataOK'
    BY <2>2 DEF WorkOrRaise, Step, Raise
  <2> QED BY <1>5, <2>1, <2>2 DEF StartProxy
<1>6. ASSUME StartAgent PROVE DataOK'
  BY <1>6 DEF StartAgent, StartContainer, StartedOk, StartFailed, Step,
      Raise
<1>7. ASSUME StageWorkspace PROVE DataOK'
  BY <1>7 DEF StageWorkspace, WorkOrRaise, Step, Raise
<1>8. ASSUME StartMcp PROVE DataOK'
  <2>1. ASSUME StartProcess("mcp", "mcp", "mcpBind") PROVE DataOK'
    <3>1. processes' \subseteq {"proxy", "mcp"}
      <4>1. processes' \in {processes, processes \cup {"mcp"}}
        BY <2>1 DEF StartProcess
      <4>2. processes \cup {"mcp"} \subseteq {"proxy", "mcp"}
        OBVIOUS
      <4> QED BY <4>1, <4>2
    <3>2. phase' \in Phases /\ rc' \in Codes /\ UNCHANGED <<early, sessionRc>>
      BY <2>1 DEF StartProcess, Step, Raise
    <3> QED BY <2>1, <3>1, <3>2 DEF StartProcess
  <2>2. ASSUME WorkOrRaise("mcpBind", "session") PROVE DataOK'
    BY <2>2 DEF WorkOrRaise, Step, Raise
  <2> QED BY <1>8, <2>1, <2>2 DEF StartMcp
<1>9. ASSUME StartSession PROVE DataOK'
  BY <1>9 DEF StartSession, Step, Raise
<1>10. ASSUME NEW how \in {"clean", "crash"}, AgentExits(how) PROVE DataOK'
  <2>1. stray' \subseteq Calls \cup {Agent}
    BY <1>10, StrayGrows DEF AgentExits
  <2> QED BY <1>10, <2>1 DEF AgentExits, ClientGone, Step
<1>11. ASSUME RoundTimeout PROVE DataOK'
  <2>1. stray' \subseteq Calls \cup {Agent}
    BY <1>11, StrayGrows DEF RoundTimeout, KillClient
  <2> QED BY <1>11, <2>1 DEF RoundTimeout, KillClient, ClientGone, Step
<1>12. ASSUME Interrupt PROVE DataOK'
  <2>1. stray' \subseteq Calls \cup {Agent}
    BY <1>12, StrayGrows DEF Interrupt, KillClient
  <2> QED BY <1>12, <2>1 DEF Interrupt, KillClient, ClientGone
<1>13. ASSUME InterruptTeardown PROVE DataOK'
  <2>1. /\ registry' \subseteq registry
        /\ lost' = lost \cup processes \cup (registry \ registry')
                   \cup (((containers \cup coming) \cap handles) \ registry)
    BY <1>13 DEF InterruptTeardown
  <2>2. lost' \subseteq {Sim, Agent, "proxy", "mcp"} \cup Extras
    BY <2>1
  <2>3. registry' \subseteq {Sim, Agent} \cup Extras
    BY <2>1
  <2> QED BY <1>13, <2>2, <2>3 DEF InterruptTeardown
<1>14. ASSUME OrphanEnds PROVE DataOK'
  BY <1>14 DEF OrphanEnds
<1>15. ASSUME NEW c \in Calls, SubmissionStep(c) PROVE DataOK'
  <2>1. ASSUME Submit(c) PROVE DataOK'
    BY <2>1 DEF Submit, Progress
  <2>2. ASSUME Progress(c, "handling", "running") PROVE DataOK'
    BY <2>2 DEF Progress
  <2>3. ASSUME Progress(c, "running", "recorded") PROVE DataOK'
    BY <2>3 DEF Progress
  <2>4. ASSUME Progress(c, "recorded", "finished") PROVE DataOK'
    BY <2>4 DEF Progress
  <2> QED BY <1>15, <2>1, <2>2, <2>3, <2>4 DEF SubmissionStep
<1>16. ASSUME NEW p \in {"proxy", "mcp"}, ServerDies(p) PROVE DataOK'
  BY <1>16 DEF ServerDies, Cut
<1>17. ASSUME GraceWait PROVE DataOK'
  BY <1>17 DEF GraceWait, Step
<1>18. ASSUME CopyOut PROVE DataOK'
  BY <1>18 DEF CopyOut, Step
<1>19. ASSUME Evaluate PROVE DataOK'
  BY <1>19 DEF Evaluate, Step
<1>20. ASSUME SaveSession PROVE DataOK'
  BY <1>20 DEF SaveSession
<1>21. ASSUME StopMcp PROVE DataOK'
  BY <1>21 DEF StopMcp, Cut, Step
<1>22. ASSUME StopAgent PROVE DataOK'
  BY <1>22 DEF StopAgent, Stop, RemoveContainers, Survivors, Step
<1>23. ASSUME StopProxy PROVE DataOK'
  BY <1>23 DEF StopProxy, Step
<1>24. ASSUME StopSim PROVE DataOK'
  BY <1>24 DEF StopSim, Stop, RemoveContainers, Step
<1>25. ASSUME StopExtras PROVE DataOK'
  BY <1>25 DEF StopExtras, Stop, RemoveContainers, Step
<1>26. ASSUME AtExit PROVE DataOK'
  BY <1>26 DEF AtExit, RemoveContainers, Survivors, Step
<1>27. ASSUME NEW x \in {Sim, Agent} \cup Extras, EngineCreates(x) PROVE DataOK'
  BY <1>27 DEF EngineCreates
<1>28. CASE UNCHANGED vars
  BY <1>28 DEF vars
<1> QED BY <1>1, <1>2, <1>3, <1>4, <1>5, <1>6, <1>7, <1>8, <1>9, <1>10,
           <1>11, <1>12, <1>13, <1>14, <1>15, <1>16, <1>17, <1>18, <1>19, <1>20,
           <1>21, <1>22, <1>23, <1>24, <1>25, <1>26, <1>27, <1>28 DEF Next, SessionStep,
           SetupStep, TeardownStep, Environment

(* Every action keeps the variables in their types.                        *)
LEMMA TypeStep == TypeOK /\ [Next]_vars => TypeOK'
<1>1. TypeOK <=> FlagsOK /\ DataOK
  BY DEF TypeOK, FlagsOK, DataOK
<1>2. TypeOK' <=> FlagsOK' /\ DataOK'
  BY DEF TypeOK, FlagsOK, DataOK
<1> QED BY <1>1, <1>2, FlagsStep, DataStep

(* Containers that the setup has started stay until the teardown.          *)
LEMMA SetupStepInv ==
    TypeOK /\ SetupInv /\ [Next]_vars => SetupInv'
<1> SUFFICES ASSUME TypeOK, SetupInv, [Next]_vars
             PROVE  SetupInv'
  OBVIOUS
<1> USE SessionAssumption DEF TypeOK, SetupInv, TryPhases, FinallyPhases,
    HasExtras, HasAgent, rcVars, resources, agentVars
<1>1. ASSUME StartSim PROVE SetupInv'
  BY <1>1 DEF StartSim, StartContainer, StartedOk, StartFailed, Step,
      Raise
<1>2. ASSUME NEW x \in Extras, StartExtra(x) PROVE SetupInv'
  BY <1>2 DEF StartExtra, StartedOk, StartFailed, Step, Raise
<1>3. ASSUME ExtrasStarted PROVE SetupInv'
  BY <1>3 DEF ExtrasStarted, Step
<1>4. ASSUME VerifyStep PROVE SetupInv'
  BY <1>4 DEF VerifyStep, Verify, Step, Return, Raise
<1>5. ASSUME StartProxy PROVE SetupInv'
  BY <1>5 DEF StartProxy, StartProcess, WorkOrRaise, Step, Raise
<1>6. ASSUME StartAgent PROVE SetupInv'
  BY <1>6 DEF StartAgent, StartContainer, StartedOk, StartFailed, Step,
      Raise
<1>7. ASSUME StageWorkspace PROVE SetupInv'
  BY <1>7 DEF StageWorkspace, WorkOrRaise, Step, Raise
<1>8. ASSUME StartMcp PROVE SetupInv'
  BY <1>8 DEF StartMcp, StartProcess, WorkOrRaise, Step, Raise
<1>9. ASSUME StartSession PROVE SetupInv'
  BY <1>9 DEF StartSession, Step, Raise
<1>10. ASSUME NEW how \in {"clean", "crash"}, AgentExits(how) PROVE SetupInv'
  BY <1>10 DEF AgentExits, ClientGone, Step
<1>11. ASSUME RoundTimeout PROVE SetupInv'
  BY <1>11 DEF RoundTimeout, KillClient, ClientGone, Step
<1>12. ASSUME Interrupt PROVE SetupInv'
  BY <1>12 DEF Interrupt, KillClient, ClientGone
<1>13. ASSUME InterruptTeardown PROVE SetupInv'
  BY <1>13 DEF InterruptTeardown
<1>14. ASSUME OrphanEnds PROVE SetupInv'
  BY <1>14 DEF OrphanEnds
<1>15. ASSUME NEW c \in Calls, SubmissionStep(c) PROVE SetupInv'
  BY <1>15 DEF SubmissionStep, Submit, Progress
<1>16. ASSUME NEW p \in {"proxy", "mcp"}, ServerDies(p) PROVE SetupInv'
  BY <1>16 DEF ServerDies, Cut
<1>17. ASSUME GraceWait PROVE SetupInv'
  BY <1>17 DEF GraceWait, Step
<1>18. ASSUME CopyOut PROVE SetupInv'
  BY <1>18 DEF CopyOut, Step
<1>19. ASSUME Evaluate PROVE SetupInv'
  BY <1>19 DEF Evaluate, Step
<1>20. ASSUME SaveSession PROVE SetupInv'
  BY <1>20 DEF SaveSession
<1>21. ASSUME StopMcp PROVE SetupInv'
  BY <1>21 DEF StopMcp, Cut, Step
<1>22. ASSUME StopAgent PROVE SetupInv'
  BY <1>22 DEF StopAgent, Stop, RemoveContainers, Survivors, Step
<1>23. ASSUME StopProxy PROVE SetupInv'
  BY <1>23 DEF StopProxy, Step
<1>24. ASSUME StopSim PROVE SetupInv'
  BY <1>24 DEF StopSim, Stop, RemoveContainers, Step
<1>25. ASSUME StopExtras PROVE SetupInv'
  BY <1>25 DEF StopExtras, Stop, RemoveContainers, Step
<1>26. ASSUME AtExit PROVE SetupInv'
  BY <1>26 DEF AtExit, RemoveContainers, Survivors, Step
<1>27. ASSUME NEW x \in {Sim, Agent} \cup Extras, EngineCreates(x) PROVE SetupInv'
  BY <1>27 DEF EngineCreates
<1>28. CASE UNCHANGED vars
  BY <1>28 DEF vars
<1> QED BY <1>1, <1>2, <1>3, <1>4, <1>5, <1>6, <1>7, <1>8, <1>9, <1>10,
           <1>11, <1>12, <1>13, <1>14, <1>15, <1>16, <1>17, <1>18, <1>19, <1>20,
           <1>21, <1>22, <1>23, <1>24, <1>25, <1>26, <1>27, <1>28 DEF Next, SessionStep,
           SetupStep, TeardownStep, Environment

(* A server is alive only where all its containers are.                    *)
LEMMA ServerStepInv ==
    TypeOK /\ SetupInv /\ ServerInv /\ [Next]_vars => ServerInv'
<1> SUFFICES ASSUME TypeOK, SetupInv, ServerInv, [Next]_vars
             PROVE  ServerInv'
  OBVIOUS
<1> USE SessionAssumption DEF TypeOK, SetupInv, ServerInv,
    ServedWhileUsed, TryPhases, FinallyPhases, HasExtras, HasAgent,
    McpPhases, ProxyPhases, rcVars, resources, agentVars
<1>1. ASSUME StartSim PROVE ServerInv'
  BY <1>1 DEF StartSim, StartContainer, StartedOk, StartFailed, Step,
      Raise
<1>2. ASSUME NEW x \in Extras, StartExtra(x) PROVE ServerInv'
  BY <1>2 DEF StartExtra, StartedOk, StartFailed, Step, Raise
<1>3. ASSUME ExtrasStarted PROVE ServerInv'
  BY <1>3 DEF ExtrasStarted, Step
<1>4. ASSUME VerifyStep PROVE ServerInv'
  BY <1>4 DEF VerifyStep, Verify, Step, Return, Raise
<1>5. ASSUME StartProxy PROVE ServerInv'
  BY <1>5 DEF StartProxy, StartProcess, WorkOrRaise, Step, Raise
<1>6. ASSUME StartAgent PROVE ServerInv'
  BY <1>6 DEF StartAgent, StartContainer, StartedOk, StartFailed, Step,
      Raise
<1>7. ASSUME StageWorkspace PROVE ServerInv'
  BY <1>7 DEF StageWorkspace, WorkOrRaise, Step, Raise
<1>8. ASSUME StartMcp PROVE ServerInv'
  BY <1>8 DEF StartMcp, StartProcess, WorkOrRaise, Step, Raise
<1>9. ASSUME StartSession PROVE ServerInv'
  BY <1>9 DEF StartSession, Step, Raise
<1>10. ASSUME NEW how \in {"clean", "crash"}, AgentExits(how) PROVE ServerInv'
  BY <1>10 DEF AgentExits, ClientGone, Step
<1>11. ASSUME RoundTimeout PROVE ServerInv'
  BY <1>11 DEF RoundTimeout, KillClient, ClientGone, Step
<1>12. ASSUME Interrupt PROVE ServerInv'
  BY <1>12 DEF Interrupt, KillClient, ClientGone
<1>13. ASSUME InterruptTeardown PROVE ServerInv'
  BY <1>13 DEF InterruptTeardown
<1>14. ASSUME OrphanEnds PROVE ServerInv'
  BY <1>14 DEF OrphanEnds
<1>15. ASSUME NEW c \in Calls, SubmissionStep(c) PROVE ServerInv'
  BY <1>15 DEF SubmissionStep, Submit, Progress
<1>16. ASSUME NEW p \in {"proxy", "mcp"}, ServerDies(p) PROVE ServerInv'
  BY <1>16 DEF ServerDies, Cut
<1>17. ASSUME GraceWait PROVE ServerInv'
  BY <1>17 DEF GraceWait, Step
<1>18. ASSUME CopyOut PROVE ServerInv'
  BY <1>18 DEF CopyOut, Step
<1>19. ASSUME Evaluate PROVE ServerInv'
  BY <1>19 DEF Evaluate, Step
<1>20. ASSUME SaveSession PROVE ServerInv'
  BY <1>20 DEF SaveSession
<1>21. ASSUME StopMcp PROVE ServerInv'
  BY <1>21 DEF StopMcp, Cut, Step
<1>22. ASSUME StopAgent PROVE ServerInv'
  BY <1>22 DEF StopAgent, Stop, RemoveContainers, Survivors, Step
<1>23. ASSUME StopProxy PROVE ServerInv'
  BY <1>23 DEF StopProxy, Step
<1>24. ASSUME StopSim PROVE ServerInv'
  BY <1>24 DEF StopSim, Stop, RemoveContainers, Step
<1>25. ASSUME StopExtras PROVE ServerInv'
  BY <1>25 DEF StopExtras, Stop, RemoveContainers, Step
<1>26. ASSUME AtExit PROVE ServerInv'
  BY <1>26 DEF AtExit, RemoveContainers, Survivors, Step
<1>27. ASSUME NEW x \in {Sim, Agent} \cup Extras, EngineCreates(x) PROVE ServerInv'
  BY <1>27 DEF EngineCreates
<1>28. CASE UNCHANGED vars
  BY <1>28 DEF vars
<1> QED BY <1>1, <1>2, <1>3, <1>4, <1>5, <1>6, <1>7, <1>8, <1>9, <1>10,
           <1>11, <1>12, <1>13, <1>14, <1>15, <1>16, <1>17, <1>18, <1>19, <1>20,
           <1>21, <1>22, <1>23, <1>24, <1>25, <1>26, <1>27, <1>28 DEF Next, SessionStep,
           SetupStep, TeardownStep, Environment

(* A failed start ends the setup.                                          *)
LEMMA FreshStepInv ==
    TypeOK /\ FreshInv /\ [Next]_vars => FreshInv'
<1> SUFFICES ASSUME TypeOK, FreshInv, [Next]_vars
             PROVE  FreshInv'
  OBVIOUS
<1> USE SessionAssumption DEF TypeOK, FreshInv, TryPhases,
    FinallyPhases, rcVars, resources, agentVars
<1>1. ASSUME StartSim PROVE FreshInv'
  BY <1>1 DEF StartSim, StartContainer, StartedOk, StartFailed, Step,
      Raise
<1>2. ASSUME NEW x \in Extras, StartExtra(x) PROVE FreshInv'
  BY <1>2 DEF StartExtra, StartedOk, StartFailed, Step, Raise
<1>3. ASSUME ExtrasStarted PROVE FreshInv'
  BY <1>3 DEF ExtrasStarted, Step
<1>4. ASSUME VerifyStep PROVE FreshInv'
  BY <1>4 DEF VerifyStep, Verify, Step, Return, Raise
<1>5. ASSUME StartProxy PROVE FreshInv'
  BY <1>5 DEF StartProxy, StartProcess, WorkOrRaise, Step, Raise
<1>6. ASSUME StartAgent PROVE FreshInv'
  BY <1>6 DEF StartAgent, StartContainer, StartedOk, StartFailed, Step,
      Raise
<1>7. ASSUME StageWorkspace PROVE FreshInv'
  BY <1>7 DEF StageWorkspace, WorkOrRaise, Step, Raise
<1>8. ASSUME StartMcp PROVE FreshInv'
  BY <1>8 DEF StartMcp, StartProcess, WorkOrRaise, Step, Raise
<1>9. ASSUME StartSession PROVE FreshInv'
  BY <1>9 DEF StartSession, Step, Raise
<1>10. ASSUME NEW how \in {"clean", "crash"}, AgentExits(how) PROVE FreshInv'
  BY <1>10 DEF AgentExits, ClientGone, Step
<1>11. ASSUME RoundTimeout PROVE FreshInv'
  BY <1>11 DEF RoundTimeout, KillClient, ClientGone, Step
<1>12. ASSUME Interrupt PROVE FreshInv'
  BY <1>12 DEF Interrupt, KillClient, ClientGone
<1>13. ASSUME InterruptTeardown PROVE FreshInv'
  BY <1>13 DEF InterruptTeardown
<1>14. ASSUME OrphanEnds PROVE FreshInv'
  BY <1>14 DEF OrphanEnds
<1>15. ASSUME NEW c \in Calls, SubmissionStep(c) PROVE FreshInv'
  BY <1>15 DEF SubmissionStep, Submit, Progress
<1>16. ASSUME NEW p \in {"proxy", "mcp"}, ServerDies(p) PROVE FreshInv'
  BY <1>16 DEF ServerDies, Cut
<1>17. ASSUME GraceWait PROVE FreshInv'
  BY <1>17 DEF GraceWait, Step
<1>18. ASSUME CopyOut PROVE FreshInv'
  BY <1>18 DEF CopyOut, Step
<1>19. ASSUME Evaluate PROVE FreshInv'
  BY <1>19 DEF Evaluate, Step
<1>20. ASSUME SaveSession PROVE FreshInv'
  BY <1>20 DEF SaveSession
<1>21. ASSUME StopMcp PROVE FreshInv'
  BY <1>21 DEF StopMcp, Cut, Step
<1>22. ASSUME StopAgent PROVE FreshInv'
  BY <1>22 DEF StopAgent, Stop, RemoveContainers, Survivors, Step
<1>23. ASSUME StopProxy PROVE FreshInv'
  BY <1>23 DEF StopProxy, Step
<1>24. ASSUME StopSim PROVE FreshInv'
  BY <1>24 DEF StopSim, Stop, RemoveContainers, Step
<1>25. ASSUME StopExtras PROVE FreshInv'
  BY <1>25 DEF StopExtras, Stop, RemoveContainers, Step
<1>26. ASSUME AtExit PROVE FreshInv'
  BY <1>26 DEF AtExit, RemoveContainers, Survivors, Step
<1>27. ASSUME NEW x \in {Sim, Agent} \cup Extras, EngineCreates(x) PROVE FreshInv'
  BY <1>27 DEF EngineCreates
<1>28. CASE UNCHANGED vars
  BY <1>28 DEF vars
<1> QED BY <1>1, <1>2, <1>3, <1>4, <1>5, <1>6, <1>7, <1>8, <1>9, <1>10,
           <1>11, <1>12, <1>13, <1>14, <1>15, <1>16, <1>17, <1>18, <1>19, <1>20,
           <1>21, <1>22, <1>23, <1>24, <1>25, <1>26, <1>27, <1>28 DEF Next, SessionStep,
           SetupStep, TeardownStep, Environment

(* Whatever is removed is lost where it is not gone, and only an extra     *)
(* simulator is out of reach.                                              *)
LEMMA OrphanStepInv ==
    TypeOK /\ FreshInv /\ OrphanInv /\ [Next]_vars => OrphanInv'
<1> SUFFICES ASSUME TypeOK, FreshInv, OrphanInv, [Next]_vars
             PROVE  OrphanInv'
  OBVIOUS
<1> USE SessionAssumption DEF TypeOK, FreshInv, OrphanInv, Around, Stopped, TryPhases,
    FinallyPhases, rcVars, resources, agentVars
<1>1. ASSUME StartSim PROVE OrphanInv'
  BY <1>1 DEF StartSim, StartContainer, StartedOk, StartFailed, Step,
      Raise
<1>2. ASSUME NEW x \in Extras, StartExtra(x) PROVE OrphanInv'
  BY <1>2 DEF StartExtra, StartedOk, StartFailed, Step, Raise
<1>3. ASSUME ExtrasStarted PROVE OrphanInv'
  BY <1>3 DEF ExtrasStarted, Step
<1>4. ASSUME VerifyStep PROVE OrphanInv'
  BY <1>4 DEF VerifyStep, Verify, Step, Return, Raise
<1>5. ASSUME StartProxy PROVE OrphanInv'
  BY <1>5 DEF StartProxy, StartProcess, WorkOrRaise, Step, Raise
<1>6. ASSUME StartAgent PROVE OrphanInv'
  BY <1>6 DEF StartAgent, StartContainer, StartedOk, StartFailed, Step,
      Raise
<1>7. ASSUME StageWorkspace PROVE OrphanInv'
  BY <1>7 DEF StageWorkspace, WorkOrRaise, Step, Raise
<1>8. ASSUME StartMcp PROVE OrphanInv'
  BY <1>8 DEF StartMcp, StartProcess, WorkOrRaise, Step, Raise
<1>9. ASSUME StartSession PROVE OrphanInv'
  BY <1>9 DEF StartSession, Step, Raise
<1>10. ASSUME NEW how \in {"clean", "crash"}, AgentExits(how) PROVE OrphanInv'
  BY <1>10 DEF AgentExits, ClientGone, Step
<1>11. ASSUME RoundTimeout PROVE OrphanInv'
  BY <1>11 DEF RoundTimeout, KillClient, ClientGone, Step
<1>12. ASSUME Interrupt PROVE OrphanInv'
  BY <1>12 DEF Interrupt, KillClient, ClientGone
<1>13. ASSUME InterruptTeardown PROVE OrphanInv'
  BY <1>13 DEF InterruptTeardown
<1>14. ASSUME OrphanEnds PROVE OrphanInv'
  BY <1>14 DEF OrphanEnds
<1>15. ASSUME NEW c \in Calls, SubmissionStep(c) PROVE OrphanInv'
  BY <1>15 DEF SubmissionStep, Submit, Progress
<1>16. ASSUME NEW p \in {"proxy", "mcp"}, ServerDies(p) PROVE OrphanInv'
  BY <1>16 DEF ServerDies, Cut
<1>17. ASSUME GraceWait PROVE OrphanInv'
  BY <1>17 DEF GraceWait, Step
<1>18. ASSUME CopyOut PROVE OrphanInv'
  BY <1>18 DEF CopyOut, Step
<1>19. ASSUME Evaluate PROVE OrphanInv'
  BY <1>19 DEF Evaluate, Step
<1>20. ASSUME SaveSession PROVE OrphanInv'
  BY <1>20 DEF SaveSession
<1>21. ASSUME StopMcp PROVE OrphanInv'
  BY <1>21 DEF StopMcp, Cut, Step
<1>22. ASSUME StopAgent PROVE OrphanInv'
  BY <1>22 DEF StopAgent, Stop, RemoveContainers, Survivors, Step
<1>23. ASSUME StopProxy PROVE OrphanInv'
  BY <1>23 DEF StopProxy, Step
<1>24. ASSUME StopSim PROVE OrphanInv'
  BY <1>24 DEF StopSim, Stop, RemoveContainers, Step
<1>25. ASSUME StopExtras PROVE OrphanInv'
  BY <1>25 DEF StopExtras, Stop, RemoveContainers, Step
<1>26. ASSUME AtExit PROVE OrphanInv'
  BY <1>26 DEF AtExit, RemoveContainers, Survivors, Step
<1>27. ASSUME NEW x \in {Sim, Agent} \cup Extras, EngineCreates(x) PROVE OrphanInv'
  BY <1>27 DEF EngineCreates
<1>28. CASE UNCHANGED vars
  BY <1>28 DEF vars
<1> QED BY <1>1, <1>2, <1>3, <1>4, <1>5, <1>6, <1>7, <1>8, <1>9, <1>10,
           <1>11, <1>12, <1>13, <1>14, <1>15, <1>16, <1>17, <1>18, <1>19, <1>20,
           <1>21, <1>22, <1>23, <1>24, <1>25, <1>26, <1>27, <1>28 DEF Next, SessionStep,
           SetupStep, TeardownStep, Environment

(* At most one container is out of everybody's reach.                      *)
LEMMA StrayStepInv ==
    TypeOK /\ FreshInv /\ OrphanInv /\ StrayInv /\ [Next]_vars => StrayInv'
<1> SUFFICES ASSUME TypeOK, FreshInv, OrphanInv, StrayInv, [Next]_vars
             PROVE  StrayInv'
  OBVIOUS
<1> USE SessionAssumption DEF TypeOK, FreshInv, OrphanInv, StrayInv, Strays,
    Around, Stopped, TryPhases,
    FinallyPhases, rcVars, resources, agentVars
<1>1. ASSUME StartSim PROVE StrayInv'
  BY <1>1 DEF StartSim, StartContainer, StartedOk, StartFailed, Step,
      Raise
<1>2. ASSUME NEW x \in Extras, StartExtra(x) PROVE StrayInv'
  BY <1>2 DEF StartExtra, StartedOk, StartFailed, Step, Raise
<1>3. ASSUME ExtrasStarted PROVE StrayInv'
  BY <1>3 DEF ExtrasStarted, Step
<1>4. ASSUME VerifyStep PROVE StrayInv'
  BY <1>4 DEF VerifyStep, Verify, Step, Return, Raise
<1>5. ASSUME StartProxy PROVE StrayInv'
  BY <1>5 DEF StartProxy, StartProcess, WorkOrRaise, Step, Raise
<1>6. ASSUME StartAgent PROVE StrayInv'
  BY <1>6 DEF StartAgent, StartContainer, StartedOk, StartFailed, Step,
      Raise
<1>7. ASSUME StageWorkspace PROVE StrayInv'
  BY <1>7 DEF StageWorkspace, WorkOrRaise, Step, Raise
<1>8. ASSUME StartMcp PROVE StrayInv'
  BY <1>8 DEF StartMcp, StartProcess, WorkOrRaise, Step, Raise
<1>9. ASSUME StartSession PROVE StrayInv'
  BY <1>9 DEF StartSession, Step, Raise
<1>10. ASSUME NEW how \in {"clean", "crash"}, AgentExits(how) PROVE StrayInv'
  BY <1>10 DEF AgentExits, ClientGone, Step
<1>11. ASSUME RoundTimeout PROVE StrayInv'
  BY <1>11 DEF RoundTimeout, KillClient, ClientGone, Step
<1>12. ASSUME Interrupt PROVE StrayInv'
  BY <1>12 DEF Interrupt, KillClient, ClientGone
<1>13. ASSUME InterruptTeardown PROVE StrayInv'
  BY <1>13 DEF InterruptTeardown
<1>14. ASSUME OrphanEnds PROVE StrayInv'
  BY <1>14 DEF OrphanEnds
<1>15. ASSUME NEW c \in Calls, SubmissionStep(c) PROVE StrayInv'
  BY <1>15 DEF SubmissionStep, Submit, Progress
<1>16. ASSUME NEW p \in {"proxy", "mcp"}, ServerDies(p) PROVE StrayInv'
  BY <1>16 DEF ServerDies, Cut
<1>17. ASSUME GraceWait PROVE StrayInv'
  BY <1>17 DEF GraceWait, Step
<1>18. ASSUME CopyOut PROVE StrayInv'
  BY <1>18 DEF CopyOut, Step
<1>19. ASSUME Evaluate PROVE StrayInv'
  BY <1>19 DEF Evaluate, Step
<1>20. ASSUME SaveSession PROVE StrayInv'
  BY <1>20 DEF SaveSession
<1>21. ASSUME StopMcp PROVE StrayInv'
  BY <1>21 DEF StopMcp, Cut, Step
<1>22. ASSUME StopAgent PROVE StrayInv'
  BY <1>22 DEF StopAgent, Stop, RemoveContainers, Survivors, Step
<1>23. ASSUME StopProxy PROVE StrayInv'
  BY <1>23 DEF StopProxy, Step
<1>24. ASSUME StopSim PROVE StrayInv'
  BY <1>24 DEF StopSim, Stop, RemoveContainers, Step
<1>25. ASSUME StopExtras PROVE StrayInv'
  BY <1>25 DEF StopExtras, Stop, RemoveContainers, Step
<1>26. ASSUME AtExit PROVE StrayInv'
  BY <1>26 DEF AtExit, RemoveContainers, Survivors, Step
<1>27. ASSUME NEW x \in {Sim, Agent} \cup Extras, EngineCreates(x) PROVE StrayInv'
  BY <1>27 DEF EngineCreates
<1>28. CASE UNCHANGED vars
  BY <1>28 DEF vars
<1> QED BY <1>1, <1>2, <1>3, <1>4, <1>5, <1>6, <1>7, <1>8, <1>9, <1>10,
           <1>11, <1>12, <1>13, <1>14, <1>15, <1>16, <1>17, <1>18, <1>19, <1>20,
           <1>21, <1>22, <1>23, <1>24, <1>25, <1>26, <1>27, <1>28 DEF Next, SessionStep,
           SetupStep, TeardownStep, Environment

(* An orderly agent leaves no handler behind.                              *)
LEMMA AgentStepInv ==
    TypeOK /\ AgentInv /\ [Next]_vars => AgentInv'
<1> SUFFICES ASSUME TypeOK, AgentInv, [Next]_vars
             PROVE  AgentInv'
  OBVIOUS
<1> USE SessionAssumption DEF TypeOK, AgentInv, Quiet, Handled, TryPhases,
    FinallyPhases, rcVars, resources, agentVars
<1>1. ASSUME StartSim PROVE AgentInv'
  BY <1>1 DEF StartSim, StartContainer, StartedOk, StartFailed, Step,
      Raise
<1>2. ASSUME NEW x \in Extras, StartExtra(x) PROVE AgentInv'
  BY <1>2 DEF StartExtra, StartedOk, StartFailed, Step, Raise
<1>3. ASSUME ExtrasStarted PROVE AgentInv'
  BY <1>3 DEF ExtrasStarted, Step
<1>4. ASSUME VerifyStep PROVE AgentInv'
  BY <1>4 DEF VerifyStep, Verify, Step, Return, Raise
<1>5. ASSUME StartProxy PROVE AgentInv'
  BY <1>5 DEF StartProxy, StartProcess, WorkOrRaise, Step, Raise
<1>6. ASSUME StartAgent PROVE AgentInv'
  BY <1>6 DEF StartAgent, StartContainer, StartedOk, StartFailed, Step,
      Raise
<1>7. ASSUME StageWorkspace PROVE AgentInv'
  BY <1>7 DEF StageWorkspace, WorkOrRaise, Step, Raise
<1>8. ASSUME StartMcp PROVE AgentInv'
  BY <1>8 DEF StartMcp, StartProcess, WorkOrRaise, Step, Raise
<1>9. ASSUME StartSession PROVE AgentInv'
  BY <1>9 DEF StartSession, Step, Raise
<1>10. ASSUME NEW how \in {"clean", "crash"}, AgentExits(how) PROVE AgentInv'
  BY <1>10 DEF AgentExits, ClientGone, Step
<1>11. ASSUME RoundTimeout PROVE AgentInv'
  BY <1>11 DEF RoundTimeout, KillClient, ClientGone, Step
<1>12. ASSUME Interrupt PROVE AgentInv'
  BY <1>12 DEF Interrupt, KillClient, ClientGone
<1>13. ASSUME InterruptTeardown PROVE AgentInv'
  BY <1>13 DEF InterruptTeardown
<1>14. ASSUME OrphanEnds PROVE AgentInv'
  BY <1>14 DEF OrphanEnds
<1>15. ASSUME NEW c \in Calls, SubmissionStep(c) PROVE AgentInv'
  BY <1>15 DEF SubmissionStep, Submit, Progress
<1>16. ASSUME NEW p \in {"proxy", "mcp"}, ServerDies(p) PROVE AgentInv'
  BY <1>16 DEF ServerDies, Cut
<1>17. ASSUME GraceWait PROVE AgentInv'
  BY <1>17 DEF GraceWait, Step
<1>18. ASSUME CopyOut PROVE AgentInv'
  BY <1>18 DEF CopyOut, Step
<1>19. ASSUME Evaluate PROVE AgentInv'
  BY <1>19 DEF Evaluate, Step
<1>20. ASSUME SaveSession PROVE AgentInv'
  BY <1>20 DEF SaveSession
<1>21. ASSUME StopMcp PROVE AgentInv'
  BY <1>21 DEF StopMcp, Cut, Step
<1>22. ASSUME StopAgent PROVE AgentInv'
  BY <1>22 DEF StopAgent, Stop, RemoveContainers, Survivors, Step
<1>23. ASSUME StopProxy PROVE AgentInv'
  BY <1>23 DEF StopProxy, Step
<1>24. ASSUME StopSim PROVE AgentInv'
  BY <1>24 DEF StopSim, Stop, RemoveContainers, Step
<1>25. ASSUME StopExtras PROVE AgentInv'
  BY <1>25 DEF StopExtras, Stop, RemoveContainers, Step
<1>26. ASSUME AtExit PROVE AgentInv'
  BY <1>26 DEF AtExit, RemoveContainers, Survivors, Step
<1>27. ASSUME NEW x \in {Sim, Agent} \cup Extras, EngineCreates(x) PROVE AgentInv'
  BY <1>27 DEF EngineCreates
<1>28. CASE UNCHANGED vars
  BY <1>28 DEF vars
<1> QED BY <1>1, <1>2, <1>3, <1>4, <1>5, <1>6, <1>7, <1>8, <1>9, <1>10,
           <1>11, <1>12, <1>13, <1>14, <1>15, <1>16, <1>17, <1>18, <1>19, <1>20,
           <1>21, <1>22, <1>23, <1>24, <1>25, <1>26, <1>27, <1>28 DEF Next, SessionStep,
           SetupStep, TeardownStep, Environment

(* What the grace wait has found drained stays drained.                    *)
LEMMA DrainedStepInv ==
    TypeOK /\ AgentInv /\ DrainedInv /\ [Next]_vars => DrainedInv'
<1> SUFFICES ASSUME TypeOK, AgentInv, DrainedInv, [Next]_vars
             PROVE  DrainedInv'
  OBVIOUS
<1> USE SessionAssumption DEF TypeOK, AgentInv, DrainedInv, Marked, Quiet, Handled,
    TryPhases, FinallyPhases, rcVars, resources, agentVars
<1>1. ASSUME StartSim PROVE DrainedInv'
  BY <1>1 DEF StartSim, StartContainer, StartedOk, StartFailed, Step,
      Raise
<1>2. ASSUME NEW x \in Extras, StartExtra(x) PROVE DrainedInv'
  BY <1>2 DEF StartExtra, StartedOk, StartFailed, Step, Raise
<1>3. ASSUME ExtrasStarted PROVE DrainedInv'
  BY <1>3 DEF ExtrasStarted, Step
<1>4. ASSUME VerifyStep PROVE DrainedInv'
  BY <1>4 DEF VerifyStep, Verify, Step, Return, Raise
<1>5. ASSUME StartProxy PROVE DrainedInv'
  BY <1>5 DEF StartProxy, StartProcess, WorkOrRaise, Step, Raise
<1>6. ASSUME StartAgent PROVE DrainedInv'
  BY <1>6 DEF StartAgent, StartContainer, StartedOk, StartFailed, Step,
      Raise
<1>7. ASSUME StageWorkspace PROVE DrainedInv'
  BY <1>7 DEF StageWorkspace, WorkOrRaise, Step, Raise
<1>8. ASSUME StartMcp PROVE DrainedInv'
  BY <1>8 DEF StartMcp, StartProcess, WorkOrRaise, Step, Raise
<1>9. ASSUME StartSession PROVE DrainedInv'
  BY <1>9 DEF StartSession, Step, Raise
<1>10. ASSUME NEW how \in {"clean", "crash"}, AgentExits(how) PROVE DrainedInv'
  BY <1>10 DEF AgentExits, ClientGone, Step
<1>11. ASSUME RoundTimeout PROVE DrainedInv'
  BY <1>11 DEF RoundTimeout, KillClient, ClientGone, Step
<1>12. ASSUME Interrupt PROVE DrainedInv'
  BY <1>12 DEF Interrupt, KillClient, ClientGone
<1>13. ASSUME InterruptTeardown PROVE DrainedInv'
  BY <1>13 DEF InterruptTeardown
<1>14. ASSUME OrphanEnds PROVE DrainedInv'
  BY <1>14 DEF OrphanEnds
<1>15. ASSUME NEW c \in Calls, SubmissionStep(c) PROVE DrainedInv'
  BY <1>15 DEF SubmissionStep, Submit, Progress
<1>16. ASSUME NEW p \in {"proxy", "mcp"}, ServerDies(p) PROVE DrainedInv'
  BY <1>16 DEF ServerDies, Cut
<1>17. ASSUME GraceWait PROVE DrainedInv'
  BY <1>17 DEF GraceWait, Step
<1>18. ASSUME CopyOut PROVE DrainedInv'
  BY <1>18 DEF CopyOut, Step
<1>19. ASSUME Evaluate PROVE DrainedInv'
  BY <1>19 DEF Evaluate, Step
<1>20. ASSUME SaveSession PROVE DrainedInv'
  BY <1>20 DEF SaveSession
<1>21. ASSUME StopMcp PROVE DrainedInv'
  BY <1>21 DEF StopMcp, Cut, Step
<1>22. ASSUME StopAgent PROVE DrainedInv'
  BY <1>22 DEF StopAgent, Stop, RemoveContainers, Survivors, Step
<1>23. ASSUME StopProxy PROVE DrainedInv'
  BY <1>23 DEF StopProxy, Step
<1>24. ASSUME StopSim PROVE DrainedInv'
  BY <1>24 DEF StopSim, Stop, RemoveContainers, Step
<1>25. ASSUME StopExtras PROVE DrainedInv'
  BY <1>25 DEF StopExtras, Stop, RemoveContainers, Step
<1>26. ASSUME AtExit PROVE DrainedInv'
  BY <1>26 DEF AtExit, RemoveContainers, Survivors, Step
<1>27. ASSUME NEW x \in {Sim, Agent} \cup Extras, EngineCreates(x) PROVE DrainedInv'
  BY <1>27 DEF EngineCreates
<1>28. CASE UNCHANGED vars
  BY <1>28 DEF vars
<1> QED BY <1>1, <1>2, <1>3, <1>4, <1>5, <1>6, <1>7, <1>8, <1>9, <1>10,
           <1>11, <1>12, <1>13, <1>14, <1>15, <1>16, <1>17, <1>18, <1>19, <1>20,
           <1>21, <1>22, <1>23, <1>24, <1>25, <1>26, <1>27, <1>28 DEF Next, SessionStep,
           SetupStep, TeardownStep, Environment

(* After the evaluators have run, no row is added.                         *)
LEMMA JudgedStepInv ==
    TypeOK /\ ServerInv /\ AgentInv /\ DrainedInv /\ JudgedInv /\ [Next]_vars => JudgedInv'
<1> SUFFICES ASSUME TypeOK, ServerInv, AgentInv, DrainedInv, JudgedInv, [Next]_vars
             PROVE  JudgedInv'
  OBVIOUS
<1> USE SessionAssumption DEF TypeOK, ServerInv, McpPhases, AgentInv,
    DrainedInv, JudgedInv, JudgedIsFinal, Marked, Recorded, Quiet, Handled,
    TryPhases, FinallyPhases, rcVars, resources, agentVars
<1>1. ASSUME StartSim PROVE JudgedInv'
  BY <1>1 DEF StartSim, StartContainer, StartedOk, StartFailed, Step,
      Raise
<1>2. ASSUME NEW x \in Extras, StartExtra(x) PROVE JudgedInv'
  BY <1>2 DEF StartExtra, StartedOk, StartFailed, Step, Raise
<1>3. ASSUME ExtrasStarted PROVE JudgedInv'
  BY <1>3 DEF ExtrasStarted, Step
<1>4. ASSUME VerifyStep PROVE JudgedInv'
  BY <1>4 DEF VerifyStep, Verify, Step, Return, Raise
<1>5. ASSUME StartProxy PROVE JudgedInv'
  BY <1>5 DEF StartProxy, StartProcess, WorkOrRaise, Step, Raise
<1>6. ASSUME StartAgent PROVE JudgedInv'
  BY <1>6 DEF StartAgent, StartContainer, StartedOk, StartFailed, Step,
      Raise
<1>7. ASSUME StageWorkspace PROVE JudgedInv'
  BY <1>7 DEF StageWorkspace, WorkOrRaise, Step, Raise
<1>8. ASSUME StartMcp PROVE JudgedInv'
  BY <1>8 DEF StartMcp, StartProcess, WorkOrRaise, Step, Raise
<1>9. ASSUME StartSession PROVE JudgedInv'
  BY <1>9 DEF StartSession, Step, Raise
<1>10. ASSUME NEW how \in {"clean", "crash"}, AgentExits(how) PROVE JudgedInv'
  BY <1>10 DEF AgentExits, ClientGone, Step
<1>11. ASSUME RoundTimeout PROVE JudgedInv'
  BY <1>11 DEF RoundTimeout, KillClient, ClientGone, Step
<1>12. ASSUME Interrupt PROVE JudgedInv'
  BY <1>12 DEF Interrupt, KillClient, ClientGone
<1>13. ASSUME InterruptTeardown PROVE JudgedInv'
  BY <1>13 DEF InterruptTeardown
<1>14. ASSUME OrphanEnds PROVE JudgedInv'
  BY <1>14 DEF OrphanEnds
<1>15. ASSUME NEW c \in Calls, SubmissionStep(c) PROVE JudgedInv'
  BY <1>15 DEF SubmissionStep, Submit, Progress
<1>16. ASSUME NEW p \in {"proxy", "mcp"}, ServerDies(p) PROVE JudgedInv'
  BY <1>16 DEF ServerDies, Cut
<1>17. ASSUME GraceWait PROVE JudgedInv'
  BY <1>17 DEF GraceWait, Step
<1>18. ASSUME CopyOut PROVE JudgedInv'
  BY <1>18 DEF CopyOut, Step
<1>19. ASSUME Evaluate PROVE JudgedInv'
  BY <1>19 DEF Evaluate, Step
<1>20. ASSUME SaveSession PROVE JudgedInv'
  BY <1>20 DEF SaveSession
<1>21. ASSUME StopMcp PROVE JudgedInv'
  BY <1>21 DEF StopMcp, Cut, Step
<1>22. ASSUME StopAgent PROVE JudgedInv'
  BY <1>22 DEF StopAgent, Stop, RemoveContainers, Survivors, Step
<1>23. ASSUME StopProxy PROVE JudgedInv'
  BY <1>23 DEF StopProxy, Step
<1>24. ASSUME StopSim PROVE JudgedInv'
  BY <1>24 DEF StopSim, Stop, RemoveContainers, Step
<1>25. ASSUME StopExtras PROVE JudgedInv'
  BY <1>25 DEF StopExtras, Stop, RemoveContainers, Step
<1>26. ASSUME AtExit PROVE JudgedInv'
  BY <1>26 DEF AtExit, RemoveContainers, Survivors, Step
<1>27. ASSUME NEW x \in {Sim, Agent} \cup Extras, EngineCreates(x) PROVE JudgedInv'
  BY <1>27 DEF EngineCreates
<1>28. CASE UNCHANGED vars
  BY <1>28 DEF vars
<1> QED BY <1>1, <1>2, <1>3, <1>4, <1>5, <1>6, <1>7, <1>8, <1>9, <1>10,
           <1>11, <1>12, <1>13, <1>14, <1>15, <1>16, <1>17, <1>18, <1>19, <1>20,
           <1>21, <1>22, <1>23, <1>24, <1>25, <1>26, <1>27, <1>28 DEF Next, SessionStep,
           SetupStep, TeardownStep, Environment

-----------------------------------------------------------------------------
(* Theorems *)

(* The invariant holds of every session.                                   *)
THEOREM Invariance == Spec => []Inv
<1>1. Inv /\ [Next]_vars => Inv'
  BY TypeStep, SetupStepInv, ServerStepInv, FreshStepInv, OrphanStepInv,
     StrayStepInv, AgentStepInv, DrainedStepInv, JudgedStepInv DEF Inv
<1> QED BY InitInv, <1>1, PTL DEF Spec

(* Every variable of run_session keeps to its type.                        *)
THEOREM TypeCorrect == Spec => []TypeOK
<1>1. Inv => TypeOK
  BY DEF Inv
<1> QED BY Invariance, <1>1, PTL

(* As long as the process lives, a live MCP server has all its containers, *)
(* wherever the setup failed and whatever docker, the agent and the user   *)
(* do.                                                                     *)
THEOREM Served == Spec => []ServedWhileUsed
<1>1. Inv => ServedWhileUsed
  BY DEF Inv, ServerInv
<1> QED BY Invariance, <1>1, PTL

(* Once the process has exited, every container and server of the session  *)
(* is gone, save those docker did not remove, those an interrupt of the    *)
(* teardown hit, and at most one extra simulator whose start() raised      *)
(* after docker had created it, wherever the session failed.               *)
THEOREM CleanExit == Spec => []OneOrphanAtMost
<1>1. ASSUME Inv, phase = "exited"
      PROVE  /\ containers \cup processes \subseteq lost \cup Unclaimed
             /\ Unclaimed \subseteq Extras
             /\ \A x, y \in Unclaimed : x = y
             /\ Unclaimed # {} => raised /\ client = "off"
  <2>1. processes \subseteq lost
    BY <1>1 DEF Inv, TypeOK, ServerInv, McpPhases, ProxyPhases
  <2>2. containers \subseteq lost \cup Unclaimed
    BY <1>1 DEF Inv, TypeOK, OrphanInv, Around, Stopped, Unclaimed
  <2>3. Unclaimed \subseteq Strays /\ Unclaimed \subseteq Extras
    BY <1>1 DEF Inv, OrphanInv, Unclaimed, Strays, Around
  <2> QED BY <1>1, <2>1, <2>2, <2>3 DEF Inv, StrayInv
<1>2. Inv => OneOrphanAtMost
  BY <1>1 DEF OneOrphanAtMost
<1> QED BY Invariance, <1>2, PTL

(* When nothing of the agent outlives its client, the evaluators have      *)
(* judged what submit_outcomes.jsonl holds in the end, unless the grace    *)
(* deadline has passed.                                                    *)
THEOREM FinalJudgement == Spec => []JudgedIsFinal
<1>1. Inv => JudgedIsFinal
  BY DEF Inv, JudgedInv
<1> QED BY Invariance, <1>1, PTL

(* The same proviso granted, the teardown loses no submission before the   *)
(* grace deadline.                                                         *)
THEOREM NothingLost == Spec => NothingCutShort
<1> DEFINE Kept == \A d \in Calls : call'[d] = "lost" => call[d] = "lost"
<1>1. Inv /\ [Next]_vars /\ phase = "stopMcp" /\ ~graceOver /\ stray = {} => Kept
  <2> SUFFICES ASSUME Inv, [Next]_vars, phase = "stopMcp", ~graceOver, stray = {},
                      NEW d \in Calls, call'[d] = "lost"
               PROVE  call[d] = "lost"
    OBVIOUS
  <2>1. call[d] \notin {"handling", "running"}
    BY DEF Inv, AgentInv, DrainedInv, Marked, Quiet, Handled
  <2>2. call \in [Calls -> {"none", "handling", "running", "recorded",
                            "finished", "lost"}]
    BY DEF Inv, TypeOK
  <2>3. CASE StopMcp \/ \E p \in {"proxy", "mcp"} : ServerDies(p)
    BY <2>1, <2>2, <2>3 DEF StopMcp, ServerDies, Cut
  <2>4. CASE UNCHANGED call
    BY <2>4
  <2>5. CASE \E c \in Calls : SubmissionStep(c)
    BY <2>2, <2>5 DEF SubmissionStep, Submit, Progress
  <2>6. CASE SessionStep /\ ~StopMcp
    BY <2>4, <2>6 DEF SessionStep, SetupStep, TeardownStep, StartSim, StartAgent,
       StartContainer, StartExtra, ExtrasStarted, VerifyStep, Verify, StartProxy,
       StartMcp, StartProcess, WorkOrRaise, StageWorkspace, StartSession,
       RoundTimeout, GraceWait, CopyOut, Evaluate, SaveSession, StopAgent,
       StopProxy, StopSim, StopExtras, AtExit, Step, Raise, Return, agentVars
  <2>7. CASE UNCHANGED vars
    BY <2>4, <2>7 DEF vars, agentVars
  <2> QED
    BY <2>3, <2>4, <2>5, <2>6, <2>7
       DEF Next, Environment, AgentExits, Interrupt, InterruptTeardown, EngineCreates,
           OrphanEnds, agentVars
<1>2. Inv /\ [Next]_vars =>
        [phase = "stopMcp" /\ phase' = "stopAgent" /\ ~graceOver /\ stray = {} =>
           \A c \in Calls : call'[c] = "lost" => call[c] = "lost"]_vars
  BY <1>1
<1> QED BY Invariance, <1>2, PTL DEF Spec, NothingCutShort
=============================================================================
