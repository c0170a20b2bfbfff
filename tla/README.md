# TLA+ models of ArchEval

ArchEval (package `archbench`) gives an LLM agent a computer-architecture
challenge, one or more simulators behind an MCP tool server, and a container to
work in. The agent edits files, submits them, reads metrics and submits again;
when it is done the harness judges what it left behind. This directory models
the parts of that program in which order, concurrency or failure matter, checks
them with TLC and proves the central invariants with TLAPS.

Source paths are those of the repository (`src/archbench/...`,
`src/runtimes/...`, `src/simulators/...`, `src/evaluators/...`). The repository
has no design document; what we call its promises are docstrings, comments and
tests. `PROJECT.json` maps every definition that models code to the lines it
stands for, lists the hazards of the code with the properties about each, and
names the runs, their mutants and the theorems.

## 1. Inventory

### How the parts interact

    run_session ──docker──> simulator containers, agent container
        │  └──spawn──> MCP server process (submit connector) ──docker cp──> agent container
        │  └──spawn──> model proxy (byo_model)              └─docker exec─> simulator container
        ├── runner ──docker exec──> agent loop ──MCP tools──> submit connector
        ├── polls <results_dir>/.in_flight and session_end.requested
        └── evaluators read submit_outcomes.jsonl, write eval_*.json

Nothing but files joins the connector and the harness: `.in_flight/<id>`
markers, rows of `submit_outcomes.jsonl`, `session_end.requested`. Nothing but
docker's tags and a flock joins two sessions on one machine. What sessions and
commands leave to those after them is on disk, too: `baseline.json` with its
provenance stamp, `trajectory.jsonl`, the documents of a challenge family, the
pool of tarballs.

| Component | State it keeps | Operations | What is hard about it | What makes it correct |
|---|---|---|---|---|
| Submit connector (`champsim/connector/handlers/submit.py`, re-exported by the other simulators) | registry of submissions, attempt and success counters, per-submission status/report, markers, rows | submit, submit_and_wait, check_submission, session_end; one worker thread per submission | worker threads race each other and the handlers; check-then-act on counters; reads without a lock; best-effort writes | ids do not alias; nothing is unmarked before it is recorded; only successes consume budget; a "done" reply is complete; every submission ends |
| Tool server process (`server_subprocess.py`, `mcp_server/`) | tools by name, one context per simulator | registration, prefixing | two simulators share one results directory | prefixes keep ids apart |
| Session orchestration (`runtimes/session.py`) | containers, processes, managers, rc | run_session: setup, agent, grace wait, evaluation, teardown | each of some twenty steps can fail or be interrupted; a timed-out agent lives on in its container; the grace wait polls files others write | nothing is left behind; nothing is cut short; the evaluators saw every row; the session ends |
| Agent runners (`runtimes/*/runner.py`) | last rc, timed-out flag | start_session | the timeout kills a client, not the agent | the ending is reported |
| Container registry and sandbox (`core/container.py`) | `_LIVE_CONTAINERS` under a lock | start, stop, atexit sweep, SIGTERM handler | a signal between any two steps; a lock that is not reentrant; docker that outlives its client | the registry is exact; only a container in transit can leak |
| Image cache (`core/container.py`) | engine tags, tarballs, flock | ensure_image: inspect, rmi, load, build | several processes act on one tag; time of check, time of use | who asked for a digest gets it; loads do not replace; callers do not disturb each other |
| Image management CLI (`image_management/`) | manifest, tarballs | build, load, save, pull, rm, digest, status, gc | several places for one tarball; commands that overlap; a failure in the middle of the targets; images made of images | what is saved is what is loaded; a combined image is made of what was just built |
| Mini agent loop (`runtimes/mini/src/main.py`) | turns, nudges, count of successes, ended simulators | LLM turns, tool calls, early stop, session_end | counts what it is told, by tool name; a lost reply; several simulators | one simulator never ends the loop for another; terminates |
| ArchHarness agent loop (`runtimes/archharness/src/main.py`) | as mini, the pending prediction, one flag for what is in flight | as mini, predict; an LLM call with its retries | one prediction and one flag for all submissions; learns of an end only when it polls | a submission was predicted, or runs beside one whose result is outstanding |
| MCP client (`mcp_http_client.py`) | session id, request number | initialize, tools/list, tools/call | a lost reply | an error is a reply |
| Scoring evaluators (`evaluators/simulator_metric`, `prediction_calibration`, `iteration_quality`, `cross_sim_discrepancy`) | eval_*.json | one pass over the rows each | four readers of one growing file, with three loops that look for the best value | they agree; a prediction is graded against its own submission |
| Other evaluators (trajectory, artifact, surrogate) | – | one pass over one file, some with an LLM judge | – | classes of outcome |
| Simulator plugins (`simulators/*/plugin.py`, `build_and_run.sh`) | in the one container of a session: `/work/submission`, the scripts' working copies, builds, statistics | run_submit, parse_output, configure_simulator | the container is shared by concurrent submissions and inherited by later ones; a timeout kills the scripts of all; a timed-out simulation goes on | what is built is what was shipped; metrics come only from a simulation that ended well; what earlier submissions left has no effect |
| Challenge loader (`core/challenge.py`) | – (the documents of a family) | load, denest, merge an overlay, resolve modes, runtimes, evaluators | new and legacy spellings of one thing, in base and overlay; defaults that fill each other in | the tier has the say; the modes agree; no model but an allowed one runs; no evaluator is dropped |
| Serving proxy (`serving/`) | cache of discovered urls | resolve a route, discover the server, forward, stream | timeouts of two layers, the inner one longer; a file that is rewritten while it is read; an upstream error after the stream began | abandoned requests do not pile up; the url is the advertised one; every call ends |
| Workspace history, trajectories (`core/workspace_history.py`, `mini/trajectory_adapter.py`) | trajectory.jsonl, snapshots | replay of writes and edits, steps | one file under several paths; changes no event tells; turns cut short | replay equals the files; a step is a turn |
| Provenance (`core/provenance.py`, `cli.py` baseline, `session.py` check) | baseline.json and its stamp | measure, write, stamp; check before a session | minutes between measuring and hashing; overlapping commands; two search orders for one file | a stamp names what was measured; a fresh one lets a session start |
| Doctor, profile, prompts | – | checks, sums, texts | – | – |
| Command line (`cli.py`) | – | run, validate, baseline, mcp-serve, ... | mcp-serve owns a container and a server | – |

### What is hard, and where

The hazards of `PROJECT.json` are grouped by what causes them:

* **Worker threads and handlers of one server**: the budget compared before and
  counted after a simulation (`submit.py:190`, `:317`), the attempt cap, the id
  minted before it is registered, `to_dict` without a lock, markers before and
  rows before unmarking, one staging directory, `submit_and_wait` on the event
  loop.
* **Session teardown**: exceptions, interrupts and early returns at each step;
  the grace wait against handlers that have not marked their submission yet;
  the agent that outlives `docker exec`; rows after judging.
* **Signals**: SIGTERM between `docker run` and the registration, between the
  deregistration and `docker rm`, or while the lock is held.
* **Two sessions and one docker**: inspect, rmi, load and run by tag of two
  processes; docker commands that time out; a tarball replaced meanwhile.
* **The agent's view**: polled results that are counted twice, tools known by
  suffix only, replies that never come, one flag for several submissions.
* **The model proxy**: a client that gives up before its request does, retries
  of what still runs, a cached url of a server that moved.
* **What is left on disk**: inputs edited between measuring and stamping, two
  commands that write one baseline, a stamp checked by other rules than it was
  made by, events that do not tell all, an older tarball in another place, a
  combined image older than its parts.
* **Documents**: flat, nested, grouped and legacy forms of one key that are
  merged, defaulted and validated in a certain order.
* **Judging**: two reads of a growing file, rows in the order of finishing,
  penalties, missing keys.

## 2. Modules

Built, most important first:

| Module | Models | Composes / extends |
|---|---|---|
| `SubmissionService` | what the connector promises: accepted once, one final report, pending until durable | – |
| `SubmitServer` | handlers, worker threads, counters, markers, rows, the shared staging directory | refines `SubmissionService` |
| `RunSession` | run_session from the first container to the exit hook | sees a submission as `SubmissionService` describes it |
| `ContainerRegistry` | start/stop, registry, atexit sweep, SIGTERM handler | – |
| `AgentLoop` | the mini loop | the connector as replies of tools |
| `ImageCache` | `_ensure_image_digest` and `start` by tag, for several processes | – |
| `Scoring` | rows, four evaluators, their reads | – |
| `PredictGate` | the archharness loop and its predict-before-submit gate | the connector as replies of tools |
| `ServingProxy` | an LLM call with its retries, the proxy, endpoint discovery, the requests open upstream | call_llm and the proxy |
| `BaselineGate` | `archbench baseline`, the provenance stamp, its check before a session | – |
| `RunTrail` | an agent's file changes and events, their replay, the mini adapter's steps | tools, replay, adapter |
| `ChallengeLoader` | documents of a family as an author edits them, and what loading makes of them | loader, choice of the model, summary |
| `ImageManagement` | the `archbench images` commands over tags, pool and registry | `ensure_image` as one step |
| `SimulatorPlugins` | run_submit of the plugins other than ChampSim's, their scripts in the shared container, parse_output | plugin, script, classification |
| `MCSubmitServer`, `MCScoring` | instances for TLC | EXTEND the model |
| `MCContainers` | one instance of `ContainerRegistry` and `ImageCache`, two systems side by side | EXTENDS them |
| `MCPlugins` | one instance of `PredictGate` and `SimulatorPlugins`, the two ends of the connector | EXTENDS them |
| `MCRecords` | one instance of `BaselineGate`, `RunTrail`, `ChallengeLoader` and `ImageManagement`, which meet sessions on disk only | EXTENDS them |
| `SubmitServer_proofs`, `RunSession_proofs` | theorems about the module of that name | EXTEND it and `TLAPS` |
| `Containers_proofs` | theorems about `ContainerRegistry` and `ImageCache` | EXTENDS them |
| `ModelCalls_proofs` | theorems about `AgentLoop` and `ServingProxy` | EXTENDS them |
| `Plugins_proofs` | theorems about `PredictGate` and `SimulatorPlugins` | EXTENDS them |
| `Records_proofs` | theorems about `BaselineGate`, `ChallengeLoader` and `ImageManagement` | EXTENDS them |
| `Evaluation_proofs` | theorems about `Scoring` and `RunTrail` | EXTENDS them |
| `Loops` | lemmas on numbers and on loops: induction, the result of a loop, the first of the best | used by the last two |

The models that have no MC module are instantiated by their `.cfg` alone.

### SubmitServer

A `Calls` element is one `submit()`/`submit_and_wait()` call together with its
`SubmissionState` and its worker thread. `pc[c]` walks through the handler
(`snapshot`, `register`, `mark`, `spawn`) and then the worker (`start`,
`attempt`, `cap`, `budget`, `copy`, [`clear`, `fill`], `simulate`, `count`,
`index`, `publish`, `finish`, `append`, `unmark`). A step ends wherever another
thread may observe or change something: each increment, each read, each
blocking call is its own action. FastMCP calls plain-function handlers on its
event loop, hence `loop`: one handler at a time, workers interleaved with it.

* `CheckSubmission`/`ReadStatus`/`ReadFields` are `to_dict`, which reads the
  status and the report in two steps without a lock; `PollAgain` and
  `WaitTimeout` are the polling loop of `submit_and_wait`.
* `SharedStaging` is the `simulate.sh` mode of the plugin, where every
  submission of a simulator is staged in `/work/submission` of one container:
  `ClearStaging` and `FillStaging` of two submissions interleave there, and one
  may be scored with the other's files. Otherwise `evaluate.sh` gets a
  temporary directory of its own. No property is about whose files were
  scored: with a shared directory the code does not ensure it, although
  `submit.py:92-96` has the snapshot bound "to the design that was scored",
  and without one it holds by construction.
* `attempt_count += 1` and `submit_count += 1` (`submit.py:168`, `:317`) are one
  step each, although no lock is held: CPython from 3.11 on (`pyproject.toml`
  asks for it) switches threads at calls and backward jumps, and there are none
  between the load and the store of an attribute of a dataclass. A build without
  the global lock would lose increments.
* `DiskMayFail` lets the best-effort writes fail (marker, row, removal).
* Files and their prediction are one `Designs` element, metrics are identified
  with the design they measure. Text, anonymisation, line limits and parsing are left out; what can
  reject a submission is a choice of outcomes.

### RunSession

`phase` is the next statement of `run_session`. Every setup step either
succeeds, raises (`Raise`: `rc = 6`, or unchanged when the exception is no
`Exception`, such as an interrupt) or returns early (`Return`). The finally
block is one action per step; `InterruptTeardown` is a second Ctrl-C, after
which what is left is for the atexit hook (`AtExit`). `stray` holds what outlives
the agent's client: the agent itself, and tool calls whose handler had not
answered. The submission of a call is handled, then marked and running, then recorded, then
finished; `Cut` is what killing the server does to it. `lost` collects what a
`docker rm` was issued for and did not remove, and what a second interrupt left.

`StartFailed` has the three ways in which `start()` raises: without a container,
with one the engine had created (`docker run` returned an error after that), or with
one that is still `coming` when `docker run` is given up or interrupted
(`EngineCreates`). The simulator's and the agent's manager are variables by then
and their `stop()` removes the container, registered or not; an extra simulator's manager is
appended only after `start()` (`session.py:302-303`), so nothing ever issues a `docker rm`
for it. `OneOrphanAtMost` says that this is the only such container, and
`session_orphans` shows it against what the comments promise. Not modelled: the
`OSError` for which the grace wait takes nothing to be pending (`session.py:658`).

### ContainerRegistry

`docker` is the engine, whose commands go on when their client is gone: a name
is `creating` until the engine is done, whatever became of the process. The
SIGTERM handler runs on the main thread, on top of whatever it does: while
`handler # "off"` the main thread does not move, so a handler that waits for
the lock its own thread holds waits forever. `stuck` collects containers whose
`docker rm -f` was given up at its timeout, `dropped` those whose `docker run` failed
after the engine had created them, or was given up at 900 s while it was at it
(`container.py:244-260`): `start()` raises before it registers the name.
`stop()` may still be called for them, as `run_session` does.

### AgentLoop

One action per LLM turn, per tool call with its reply (or with an error before
or after the server acted), per change of the connector's submissions and for
the deadline. The simulators of the session are chosen in `Init` from subsets
of `Sims`; `advertised` is empty when `tools/list` failed. `seen` (history) is
the set of submissions whose success the agent was told of, against which the
counter `submitsDone` is judged.

### ImageCache

`local` is what the tag names, `tar` what the first tarball found holds; both
are shared. Each process goes through inspect, remove, find, lock, recheck,
load, loading, verify, final, build, run; it may die at any step, the flock is released
by the kernel then. A `docker load` reads the tarball when it begins (`LoadBegins`,
`reading`) and sets the tag minutes later (`LoadEnds`); given up at 1800 s, or with its client
dead, it may go on in the engine (`Abandon`, `adrift`, `EngineLoads`). `Publish`
replaces the tarball at any moment, during a load, too. `batch` in a request stands for
`SLURM_JOB_ID`/`ARCHBENCH_NO_AUTOBUILD`, where nothing is built. History
variables: `fresh[p]`, what the tarball held, or a build made, since p began;
`stale[p]`, the older images the code left within p's reach, each by the step that
did (a load already under way when p began, p's own `rmi -f` or inspect that failed);
and `calm`, that no inspect timed out on a loaded image and no load went on alone. `ForcedIsFresh` has no
exemption but the images in `stale`; `PlainUndisturbed` is about plain callers on a calm engine.

### Scoring

A row is the number of its submission. `seen` is how many rows there were when
a submission was accepted; `overdue` says that the grace period ended with
submissions in flight, in which case rows may be appended between two reads of
the evaluators and the properties that relate two reads promise nothing. What varies
between challenges (direction, budget, what can be measured, the order of
`challenge.evaluations`) is a record chosen in `Init`. The loops of the evaluators over the rows
are recursive functions over the places of `rows`, one step per row. `simulator_metric`
judges the rows only if the challenge says `bypass_if_present` and they hold a
success; else it runs evaluate.sh on the final workspace (`Rerun`), whatever that holds by
then. `actual` is the value a prediction was graded against, and who it came from.
`GradedOnItsRow` and `JudgesAgree` are about values from the rows: a value of
evaluate.sh is compared with the prediction of the best row all the same, although
`_find_prediction` says "the same row `_actual_metric` grades against"
(`evaluator.py:211`). `GatesPenalties` says of the challenges what `_best_feasible_edp`
takes for granted (below). `NoRetrofit` counts what was in the rows: a poll may answer
"done", with the metrics, a moment before the row is there (`submit.py:458-459`), and a
submission accepted in that moment has a `seen` without it.

### PredictGate

One action per turn and per tool call, as in `AgentLoop`, with the loop's own
state: `prediction` (`none`, without a value, with one), `inFlight`, `submitsDone`.
The calls of a turn come in the order `_prio` gives them (`InOrder`). A reply
is a record of what `_classify_submit_response` looks at; the operators
`IsStarted`, `IsResult`, `IsRejected` are its flags, `Clears` is what lowers
`inFlight`. A failed build or simulation lowers nothing. `ipc` says whether the
simulator's metrics have the key without which no result is recognised. `seen`
is history: the submissions whose metrics the loop was given.

With several simulators the connector's tools are `<sim>_submit` and so on
(`server_subprocess.py:320`), names the loop does not know: `submit_tool_names` is empty
(`main.py:585`), nothing is gated and nothing is booked (`SubmitPrefixed`), and neither
`session_end` nor `check_submission` is recognised. `Discovered` has both kinds of
names; `GateCovers` is about the sessions that have the plain ones.

### ServingProxy

Time is in ticks, and no tick passes a timeout that is due. `call[c]` is
`call_llm` (attempts, backoff), `req[c]` the proxy's side of its last attempt,
`left[c]` how many plain requests it gave up are still open upstream, by how
their waiting stands: the proxy does not notice that such a client is gone. httpx's number
(`RouteTimeout`: a gateway's routes set their own) is no timeout of a request
but of each wait, to connect, to write, and for each read of the answer; `Waits` bounds
how many a plain request has (`RequestGoesOn`, `LeftGoesOn`), and `Longest` is
what they come to. `Stat` and `Read` are the
two steps of `get_managed_vllm_url`; `file.tied` says that two versions of
`endpoint.json` have one mtime, `gone[u]` how long ago a url was replaced.
`StreamGoesOn` gives a stream its whole timeout again at each read. An answer that drips in without
end is open without end: the bound is per number of waits.

### BaselineGate

A digest is the version of the content it is of. A command goes through
`Begin`, `Evaluate` (once, or once per simulator), `Write`, `Stamp`; `Edit` changes
an input at any moment. How the family is laid out (reference or staged starter,
where config.json is, the shape of the per-trace rows, a pinned scorer, one or two
simulators) is chosen in `GateInit`. `touched` (an input was changed while the
command ran) and `fresh` (nothing was changed since the stamp) are history.

### RunTrail

A text is a sequence of letters, so that an edit of the first occurrence, of
several or of none differ. A file has a name and a place (the workspace's root or
the starter's directory), a path names it in one of three `Forms`. `ReplayAll`
and `AdaptAll` are the two loops over the events, as recursive functions. A turn is
known by its start: `Within` are its events, and `Eventful` the turns in which something
happened, by which the adapter's `Steps` are judged without going through the trail
as it does. `odd` holds the names whose last change no
event tells as it happened: each disjunct is a case of the code (commands, failed or
fenced writes, edits of several occurrences, a starter that only the replay
puts at the root).

### ChallengeLoader

The state is the documents, directories and card an author has made so far;
loading is the operators on them. `Denest`, `DeepMerge`, `ApplyOverlay` are the
functions of those names, and so on to `Evaluations`, `RubricMapping`, `RunModel`,
`Buckets`. Each value carries the document it came from (`by`), which is what
`TierHasTheSay` compares. An author works at one `topic` at a time: the parts of
the loader read disjoint keys. Credentials are not in the model: no runner reads
`RuntimeSpec.auth` (section 5).

### ImageManagement

A command has a verb and the targets it still has to do, goes on after a failure
and remembers it in `rc`. `pool` is the tarball of each image at each of the places
`Candidates` lists; an image is its version, a combined one the versions of
its parts. `alone` (no other process changed a tag since the command began) and
`saved` are history. A combined image comes from `build_l2agent_image.sh`, which sets
the tag before it tries the image out, so a failed build may leave a new one; and which
takes `v6` for the tag when it cannot ask the manifest (line 24), builds that, and exits 0
(`Guess`). For the images of `Bumped`, whose tag is another (gem5's `v7`), the image
of the manifest's tag then stays what it was although the command reports success:
`guessed` holds them, and `CombinedIsCurrent` is about the others. A partial tarball is seen
from the moment its save fails, not while it runs.

### SimulatorPlugins

`plugin` and `layout` (which script the challenge ships) are chosen in `Init`. A
submission is a `task` that does its `Phases` one by one: `TimeloopSubmit` and
its like are the `run_submit` of each plugin, `TimeloopScript` and its like the
steps of each `build_and_run.sh` in its own order (when it wipes, what it
checks before or after copying, what the simulator reads). `staged`, `copies`
and `made` say, for each file in `/work/submission`, in the script's working place
and in what a build or simulation left, whose it is. The output is the set of
markers and kinds of numbers in it, and `TimeloopParse` and its like are what
each plugin takes for metrics. `ExecTimesOut` and a `Clear` that times out are
`exec`'s `pkill`, which ends the scripts of every submission. evaluate.sh and
simulate.sh belong to challenges: one step with any of the endings a plugin
tells apart (`Outside`). gem5's `config.py` and Ramulator's component are
code of the submission, run by the script, and what they print (`Speak`, `said`) is
not told from the script's own words: such a run may claim success, print numbers and end
badly, and `parse_output` believes it. `OkIsEarned` says that nobody else can.
`calm` is history: no other submission at the same time, and nothing timed out. What
concurrent submissions do to each other's files in one directory, the model has (`CopyIn`,
`Clear`, `PlaceFiles`), and no property excludes it.

## 3. Runs

Every passing run has for each of its properties a mutant: a plausible bug
(`Mut...` operators beside the definition they change) under which TLC finds
the property violated.

| Run | Instance | Shows |
|---|---|---|
| `submit` | 3 calls, 2 simulators in one results directory, 2 designs, budget 1, attempt cap 2, `evaluate.sh` mode | no marker goes before its row, ids never alias, only successes count and the cap bounds the simulations, `SubmissionService` is implemented |
| `submit_live` | 2 calls, 1 simulator, `simulate.sh` mode, disk may fail, every handler | lock-free replies are complete, every submission ends, `submit_and_wait` releases the loop |
| `submit_budget` (violated) | 2 calls, budget 1 | two concurrent submissions both pass the check |
| `session` | 2 submissions, 2 extra simulators, proxy | at most one orphan, and which, nothing cut short, evaluators saw every row, a live server has its containers, the session ends |
| `session_early` (violated) | the same | `return 3` is saved as rc 0 |
| `session_orphans` (violated) | the same | an extra simulator whose `docker run` failed half-way is left behind |
| `containers` | `MCContainers`: 3 containers; or 2 processes, 2 digests, 4 kinds of request in 6 pairs | registry exact, only containers in transit or given up leak, SIGTERM ends the process when it does not hit a critical section; forced is fresh or of a named older image, plain callers agree, all end |
| `loop` | 0, 1 or 2 simulators, 3 turns, 2 calls a turn, 2 submissions, budget 2 | neither the joint count nor one session_end stops the loop for the other simulators; every loop ends |
| `scoring` | 2 simulators, 2 submissions, 6 challenges, one of them without `bypass_if_present` | own prediction, no retrofit, evaluators agree, final is not an old one |
| `ends` | `MCPlugins`: the gate with 3 submissions, 4 turns, 2 calls a turn, budget 2; the plugins with 7 simulators, 3 layouts, 2 submissions of 2 files with one fault or none | with the tool names it knows, a submission starts predicted, or beside one whose metrics are outstanding; metrics are earned or printed by the submission itself, and an undisturbed submission is judged by its own files |
| `serving` | 1 agent, 2 urls, timeouts of 1 (client, gateway) and 2 ticks, 2 waits for each request, 2 attempts, ttl 1 | abandoned requests are bounded, the url is the file's, every plain call ends |
| `records` | `MCRecords`: 2 baseline commands and an edit; 4 events; 3 edits of documents; 2 images commands, 2 images, older tarballs | stamps, replay and steps, what is loaded, what is saved and combined |

### Bounds, and why they are enough

* *Three calls and two simulators* are the least at which two submissions of
  one simulator race while a third has another's context; budget 1 and cap 2
  (`AttemptFactor` and `AttemptFloor` replace 10 and 30) put both limits within
  three calls. *Two* calls are enough for the races of the live run.
* *Two submissions* in `session`: one handled or stray while another is marked
  is the case in which the grace wait can be wrong.
* *Three containers*: one in transit, one registered, one removed.
* *Three turns of two calls*: two counted successes, and a turn to go on.
* *Two processes* share every step of the cache; with two digests an image is
  or is not the one on the tarball. The pairs of requests are each kind beside
  each that it can disturb; the tarball is replaced once, at any moment.
* *Two rows* are the least that have an order, a best, a tie and a last.
* *Three submissions* to the gate in `ends`: one outstanding, one ended, one to start; four
  turns are a prediction with a submission, a poll, and two more.
* *Two submissions* to the plugins in `ends`: one that leaves something behind, or runs
  at the same time, and one that meets it; each fault, and each optional
  file, in either.
* *One client* in `serving`: the event loop takes requests one by one and calls
  share nothing but the cache, which a client's own requests find stale as
  another's would. Timeouts of 1 and 2 ticks stand for 600 s (the client's and
  the gateway's) and the longer 1800 s; with two waits a request may stay open for four of the
  client's timeouts, and a client that begins a new call at once piles up as many as
  that allows. The theorem is for any timeouts and number of waits.
* *Records*: two commands overlap in every way, and one edit before, between or
  after their steps is what a stamp can miss; of the tiers one is enough,
  since no property relates two. Four events are a write or an edit in an
  open turn, one more, and a turn's end. Three edits set a key in base and
  overlay, or in two forms, with one more. Two images, one made of the
  other, and two commands: a build of both beside anything else, or a save and what
  reads it. One family, trail, loader or pool moves in each behaviour; they share no
  state.
* Bounded counters: `MaxSubs`, `MaxTurns`, `Calls`, `Subs`, `MaxEdits`,
  `MaxEvents`, `MaxChanges`, `MaxDocEdits`, `MaxCommands` and `Jobs` bound how much
  an agent, an author or an operator does. Nothing else is cut; no run has a
  state constraint.

Action constraints make runs small; each removes behaviour no property of its
run depends on, or moves it to another run (all are in `MCSubmitServer`):

* `OneFailure`: one representative of the outcomes of a failed copy or
  simulation, and one snapshot. No property tells outcomes other than
  `sim_ok` apart.
* `FireAndForget`: the agent does not poll. Replies are the subject of
  `submit_live`, which has every handler.
* `EditsOnce`: the files are edited once, between the first and the second
  submission (the moment that can mix up two designs).
* `Prompt`: steps nobody else can observe in that run (the handler's before and
  after the marker, a worker's write of its own status or report while nobody
  polls) are taken at once. They commute with every other step, and the states
  between them are still visited.
* `InOrder`, `PollsFirst`, `EndsLast`, `DiskFailsOnce` (`submit_live`): calls
  are made in the order of their numbers (a symmetry reduction would not be
  sound for liveness), only the first is polled by check_submission and has disk
  failures, the other may be a submit_and_wait; session_end (a write nobody
  in this module reads) comes last. The second submission thus sees every
  interleaving with a first one that fails in any way.
* `SYMMETRY` on calls and designs, on the commands and evaluators of `records` and the submissions of `ends`, in runs
  without liveness: no action distinguishes two of either.
* `SerialSpec` is no reduction but a client: it submits to a simulator only
  when what it submitted there is done. Only the proof of `SerialBudget` uses it.

CHECK_DEADLOCK is off everywhere: each of these programs ends, and a bounded
agent stops submitting.

### Fairness

* `SubmitServer`: weak fairness of each call's handler steps and of its worker
  steps, and of the polling steps of the loop. The event loop and Python
  threads are scheduled, and each simulation has a wall-clock limit
  (`run_submit`). The agent owes nothing; `WaitTimeout` is not fair either, so
  `LoopIsReleased` rests on the worker and not on the deadline.
* `RunSession`: weak fairness of run_session's own steps, which include the
  round timeout and the grace deadline. Agent, servers and submissions owe
  nothing.
* `ContainerRegistry`: main thread, handler, and the commands of the engine.
* `AgentLoop`: the loop's own step. Each LLM or tool call returns or fails,
  since both have client timeouts. The deadline owes nothing.
* `ImageCache`: each process's own step (docker commands have timeouts, flock
  is released by the kernel when its holder dies). Death owes nothing.
* `ServingProxy`: the clock, a retry after its sleep, the client's own timeout
  and the proxy's event loop. The upstream and the job that writes
  `endpoint.json` owe nothing; `CallEnds` rests on the client's timeouts.
* `Scoring`, `PredictGate`, `SimulatorPlugins` and the modules of `MCRecords` have no liveness
  property.

## 4. Proofs

Each theorem is about the specification of its module (`Spec`, `RegistrySpec`, `GateSpec`,
`ProxySpec`, `PluginSpec`, `LoaderSpec`, `ManageSpec`, `TrailSpec`) for arbitrary
constants that satisfy the named assumptions of the model (`ConstantsAssumption`,
`SessionAssumption`, ...), which TLC evaluates in the runs. Every safety property
of a passing run is stated by a theorem.

* **`SubmitServer_proofs`** – `Invariance` proves `IInv`, which adds to
  `TypeOK`: numbers of a context are 1..n and name their calls; what has been
  written at each `pc` (a report from `finish` on, a row from `unmark` on when
  the disk does not fail); a row has the id and the report of a finished call; what a
  lock-free read may have seen (`loop.seen = "done"` implies the status is
  done). None of the properties is inductive without it: that no marker
  disappears early needs ids to be injective, which needs the registry. From
  it follow `GraceContract`, `IdsNeverAlias`, `RowsAreFinal`, `LockFreeReads`,
  `FinishedIsFrozen` and `Implementation` (every step maps to a step of
  `SubmissionService` or a stutter, when the disk does not fail). Its second
  part are counting arguments with cardinalities: `CountIsExact` (success
  counter), `CapHolds` (at most `MaxAttempts` simulations per simulator: the
  attempts counted bound those past the cap), `CountersHold`, `SerialBudget` (a serial client cannot exceed the budget).
* **`RunSession_proofs`** – the invariant says which containers and servers
  exist in which phase (`SetupInv`, `ServerInv`), that whatever the engine has or may yet
  make is in reach, lost, or an extra simulator's (`OrphanInv`), and of these last there is
  one at most, since its failure ends the setup (`StrayInv`), what the agent may still do
  (`AgentInv`), and that after the grace period nothing is handled
  (`DrainedInv`, `JudgedInv`). From it: `CleanExit`, `FinalJudgement`,
  `NothingLost`, `Served`.
* **`Containers_proofs`** – of `ContainerRegistry`: `ExactInv` says where the
  registry and the engine may differ at each location of the main thread, outside the
  containers whose start or removal was given up (`Left`), `SweepInv` that what a sweep has not removed yet is still in its list. From
  it: `RegistryIsExact`, `SweepsAllOthers`. `HandlerMeetsLock` says what a SIGTERM inside a
  critical section comes to: its handler waits, and stays waiting. Of `ImageCache`: who holds the flock
  while loading; what a process took the digest to be; that whatever a load under way or
  adrift may yet bring, each process has in its `fresh` or `stale` (`FreshInv`); with plain
  callers, that a loaded tag is never touched. From it: `AskedOrFails`, `LoadsNeverReplace`,
  `ReloadsAreFresh`, `PlainCallersAgree`.
* **`ModelCalls_proofs`** – of `AgentLoop`: `CountInv`, successes reported never
  exceed the counter, and the counter is below the budget while the loop of a
  single simulator goes on; `EndInv` says why the loop may have stopped. From
  it: `BudgetStops`, `NoJointBudget`, `EndIsComplete`, `LoopServesAll` (the last
  three for tiers that allow submit). Of `ServingProxy`: `Spaced`, the
  requests a client left that may stay open for r ticks or more (`Most`: what is left of the
  present wait, and the waits to come) fit, one client timeout
  apart, between r and `Longest`, for every r, which counts them
  (`OpenIsBounded`); `CacheIsRecent`, a cached url is the file's or one
  that a file of the same mtime replaced less than a ttl ago, also between `Stat`
  and `Read` (`UrlIsFresh`).
* **`Plugins_proofs`** – of `PredictGate`: `GateCovers` is about a step and
  needs a fact about the flag: while it is up, some submission was started
  whose metrics the loop was not given (`FlagIsEarned`). That is inductive once
  it is known that metrics are reported only of submissions that ended well: a
  poll that raises the flag is of a submission still running, a result lowers
  it. From it: `FlagEarned`, `GateHolds`. Of `SimulatorPlugins`: `Ordered`
  states, once for all plugins and layouts, what the order of the phases ensures
  when each comes (a place is wiped or overwritten before files are put into it
  and before it is built or run, `Coming`); from then on the proof does not look
  at single plugins. `EarnedInv` says which outputs a run that did not end well can
  have, besides what the submission's code said, `AloneInv` that nobody else is at work while an undisturbed submission is,
  and `CourseInv` what is whose after each phase (`Stage`). From it:
  `VerdictsAreOwn`, for any number of submissions that came before.
* **`Records_proofs`** – of `BaselineGate`: `MeasuredNow`, what an untouched
  command has measured is what is there now; `StampsCurrent`, what a command
  finds when it stamps is its own measurement, or that of one that wrote after
  it, and either is current unless somebody touched an input; `FreshStamp`.
  From it: `StampNamesMeasured`, `FreshStarts`, for any number of commands, tiers
  and edits. Of `ChallengeLoader`: the invariant `LoaderInv` only says what an author can
  have written into a document; the theorems follow from lemmas about what
  each function of the loader makes of any such document (`LoadsConsistently`,
  `BundledOnItsTerms`, `TierOverridesRoot`, `SummaryNamesAll`). Of `ImageManagement`:
  `SavedInv` (`LoadFindsTheSave`), and `Builds`, how far a build of all images has
  got, but for the images whose tag was guessed; that a combined image comes after its parts in the order of building
  (`OrderAssumption`) makes `BuildAllIsCurrent` inductive.
* **`Evaluation_proofs`** – of `Scoring`: what the loops over the rows find for
  any number of rows (`FirstBest`: the first of the best, whichever way the
  comparison is written), `ScoringInv` what a prediction, a ground truth and the
  submission that counts have to do with each other between the two reads of an
  evaluator. From it: `GradesItsRow`, `NeverRetrofits`, `LatestIsFinal`, and
  `JudgesFindOne`, which has a hypothesis on the challenges: evaluate.sh gates edp to a
  penalty exactly where a design is not feasible, which evaluate.sh and not the
  evaluators ensure. It holds of the challenges of the run. Of `RunTrail`: `FilesInv`, the replay has exactly one
  entry for each path a name was written under, and the entry of a name with one path
  and no odd change has the text of the file; it needs to say, too, that a name that was never
  written has no file at the root, since an edit replays from an empty text then. `TurnsInv`
  says what the adapter has when so many events are adapted: the steps of all
  turns but the one under way, in their ranks, and of that one whether it
  speaks and its last call. From it: `SnapshotsAreTrue`, `TurnsAreSteps`, for
  trails of any length.

How loops are reasoned about: the induction theorems of the library take an operator
as a parameter, which the provers cannot instantiate. `Loops` proves induction for a *set* of
numbers instead (`NumbersInduction`, from the least element of the complement,
`LeastNat`), and from it that the loop with a given step exists (`LoopExists`), that two
loops of the same steps agree (`LoopsAgree`), and that a non-empty set of places
has a first best one (`FirstOfBest`). A model's recursive function is then identified with such
a loop (`ReplayAllIsLoop`, `AdaptAllIsLoop`), and what one more event or row does to it
is its last step (`ReplayGrows`, `AdaptGrows`).

Some theorems state properties that no run has, since the proof covers them
for every instance: `FinishedIsFrozen`, `RowsAreFinal`, `SerialBudget`, `BudgetStops`,
`AskedOrFails`, `LoadsNeverReplace`, `FlagEarned`, `HandlerMeetsLock` and the type invariants.

Model-checked only: the liveness properties (`EverySubmissionEnds`,
`LoopIsReleased`, `SessionEnds`, `SigtermEnds`, `LoopTerminates`, `CallersEnd`,
`CallEnds`), since fairness and ENABLED are out of the prover's reach.

## 5. Findings

With a run that shows it:

1. **The budget is not enforced under concurrency** (`submit_budget`).
   `handle_submit` compares before a simulation and counts after it; two
   workers pass together. Both counters are sound nevertheless
   (`CountersSound`), and the budget holds for a client that waits (`SerialBudget`).
2. **An early return is saved as rc 0** (`session_early`): `return 3`/`return 4`
   do not set the variable that the finally block writes to `session.json`,
   although a comment says so.
3. **An extra simulator whose start failed is nobody's** (`session_orphans`): `docker run`
   may fail or be given up with the container created; `start()` has not registered the name
   then and `session.py:303` not appended the manager. `container.py:8` promises "No
   orphans", and `session.py:264` that every container gets cleaned up. `OneOrphanAtMost` is what
   remains of it.

Met while modelling; the models have the behaviour, and no property contradicts it:

* `prediction.json` is captured when a submission is accepted, the files later
  by the worker: an edit in between pairs a prediction with other files
  (`snapshot` and `copied` in `SubmitServer`).
* A submission past the budget is reported as `sim_ok` without metrics
  (`BudgetExhausted`); consumers must not take `sim_ok` for a measurement, and
  the evaluators (`Has` in `Scoring`) do not.
* An interrupt in the try block leaves rc 0 in `session.json` (`Raise` with rc
  unchanged).
* `stop()` forgets a name before `docker rm`; a removal that fails is not tried
  again. Hence `lost` and `stuck` in `OneOrphanAtMost` and `OnlyTransitOrphans`.
* Workers of one simulator stage their files in one `/work/submission`
  (`champsim/plugin.py:270-275`): a submission may be scored with another's.
* `_is_multi_sim` counts advertised names that end in submit; a tier without
  submit makes several simulators look like one (`EndIsComplete` assumes
  the tier allows submit).
* A forced reload may return an older image than the tarball held when it was asked for
  (`stale`): `rmi -f`, whose exit code is ignored, leaves an image in use in place; and a peer's
  `docker load` that began before ends under the lock the reload waits for, and is taken for
  "loaded by a peer" (`container.py:532-534`). A container is started
  from a tag: with forced reloads beside it another image may have taken it
  (`PlainUndisturbed` assumes plain callers).
* The last row of a simulator is the last submission to finish, not the last
  accepted; `FinalIsLatest` says how far that can differ.
* When the grace deadline passes with submissions in flight, rows may come
  between the two reads of `prediction_calibration`, and value and prediction
  may be of two submissions (`overdue`).
* Without `bypass_if_present`, which `info.yaml` leaves to the challenge, `simulator_metric` runs
  evaluate.sh on the final workspace although there are rows, and `prediction_calibration` grades
  the prediction of the best row against that value (`Rerun`).
* SIGTERM may hang: the handler takes a lock (`container.py:135`) that the
  thread it interrupted may hold, and the lock is not reentrant; the comment
  at `container.py:148` has the handler end the process. `SigtermEnds`
  leaves out signals in a critical section.
* Polling a finished submission counts it again (`mini/src/main.py:720`), so the
  mini loop may stop with budget left; `BudgetStops` is the direction that
  holds. The archharness loop counts the same way.

The predict gate (`PredictGate`):

* "A predict() step that must precede each first submit of a fresh simulation"
  (`archharness/src/main.py:20`) is more than the gate does: one flag stands for
  all submissions, a failed build or simulation does not lower it, a poll of
  an older submission raises it, and an error reply about one lowers it
  for all. While it is up, submissions start unpredicted. `GateCovers` says
  what is left of the promise.
* With several simulators the tools are prefixed, and nothing is gated at all
  (`SubmitPrefixed`).
* Metrics without an "ipc" are never recognised as a result, so the budget
  and the prediction of such a simulator are never used up.

The serving proxy (`ServingProxy`):

* `call_llm` retries every error status, 501 among them, although
  `_stub_litellm` answers 501 "so agents fail fast"; what the proxy says of
  an error's being retriable is not looked at.
* The "per-request total timeout" of a stream is a timeout per read, and so is that of a plain
  request: an upstream that keeps sending something holds it open (`Waits`).
* A stream's 200 is sent before the upstream is asked; the proxy goes on with a
  plain request whose client has gone.

The baseline (`BaselineGate`):

* An input that is edited while evaluate.sh runs is stamped as if it had been
  measured (`touched`), though `provenance.py:49` calls it the file "that
  produced the measurement".
* A config.json only in one of the older places is not stamped but checked: a
  fresh stamp is refused (`family.config = "older"`).
* Per-trace rows that are a dict raise in the stamping, after baseline.json
  was written; it stays unstamped, and sessions are refused.
* The command writes `baseline.json`, the check reads the file that `eval.baseline` names
  (`session.py:1105`); the model has challenges in which they are one.
* The stamp of several simulators names the primary image only. The traces
  are not checked if neither `subtraces/` nor `workload_pools/` is there.
  Evaluators read baseline.json again after the session, unchecked.

The plugins (`SimulatorPlugins`):

* The life cycle in `plugin_base.py:33-41` has `cleanup_simulator` and
  `verify_simulator` after every submit, lest the next one be "silently inheriting
  the previous run's code". Nothing calls either there. Six scripts clean or
  overwrite what they use; DRAMSys's never removes an optional
  `mc_config.json` or `memspec.json`, and a submission without one runs with an
  earlier submission's (the exception in `VerdictIsOwn`; paths of one name
  given twice leave a file out).
* AstraSim's script ends by `set -e` before it says BUILD_FAILED when fields are
  lacking, which is then reported as `sim_timeout` (`Checked`).
* Timeloop's in-container script wraps the name of its statistics in the JSON
  markers, and `parse_output` returns that block as the metrics; the comment at
  `timeloop/build_and_run.sh:193` has it read the regex fields. Any such block of a
  challenge's script counts, with or without SIMULATION_OK.
* gem5's and Ramulator's `parse_output` look for SIMULATION_OK and a block of JSON, and not at
  the exit code: a `config.py` or a component that prints them is scored by what it printed
  (`Speak`). Of evaluate.sh and simulate.sh, which come with challenges, the model assumes
  that they print their own verdict and not what the submission prints (`Outside`).
* A ScaleSim run without numbers still has the cost of the constraint check for a
  metric, and an AstraSim run without results has an `error`; both are `sim_ok`.
* The comment at `ramulator/plugin.py:148` expects BUILD_FAIL for a scaffold that
  refuses to score; without BUILD_FAIL in its output it is `sim_timeout`.

Replay and steps (`RunTrail`):

* The replay starts with the starter at `/workspace/<name>` whatever the tier
  (`session.py:508`), while `stage_workspace` puts it there for L1 only.
* Paths are keyed as given and flattened to names: of two paths of one
  name the entry made last is written last, which may be the stale one.
* mini records a write as the model gave it, though the tool strips a fence,
  and a failed one, too. An Edit's event does not say whether all occurrences
  were replaced. A step keeps the last tool call of its turn only.

The loader (`ChallengeLoader`):

* `evaluations_remove` compares a key `name` that no entry has: nothing is
  removed from a list, and the grouped form is emptied (`RemoveNamed`).
* `RuntimeSpec.auth` is read by nobody: the runners take a vendor's token from their own data or
  default path (`claude_code/runner.py:51`, `codex/runner.py:68`, `gemini/runner.py:37`). A vendor's
  runtime whose card lacks or misspells `type` is run as byo_model with the vendor's
  token at hand, although `challenge.py:130-132` has the default chosen lest it "inherit
  vendor credentials".
* Flat evaluators without a rubric mapping are filed under `outcome`, where the warning at
  `challenge.py:1196-1202` says `tier_unspecified`. A tier's `evaluations` replace the base's
  (`_deep_merge`, 443-445), but for grouped forms, which are joined key by key.
* A base's `agent_image_mode` wins over an overlay's `session_profile`; flat
  lists keep duplicates; rubrics of evaluators that are gone stay; a runtime
  whose card says `public: false` is usable as byo_model by naming it.

Image management (`ImageManagement`):

* A save that fails may leave part of a tarball in the place that is looked at
  first, and so hides good ones. `load` leaves a local image as it is, however
  old. `pull` does not look at whether the tag could be set. `save` and `rm` of
  an image that is not there are no failure. A docker command that times out
  ends the whole command. The script of a combined image may build another tag than the
  manifest's and report success (`Guess`).
* `gc` (not modelled) removes every container whose name begins with
  `archbench_`, those of running sessions among them.

## 6. Not modelled, and what is planned

Not modelled because there is nothing for a model checker in it: parsing and
formatting, prompts, doctor, image cards, host profiles, browse and probe tools,
scripts, and evaluators that make one pass over one file. `exec`, `copy_in`
and `copy_out` are atomic in their callers. Of image management gc, status and
dry runs; of the loader the simulators' own entries and the checks of
starter files; of the adapters those of Codex and Gemini.

Plan, in this order:

1. **Proofs**: every safety property of a passing run is stated by a theorem. What
   can still be proved is the part of the liveness properties that is not fairness:
   action properties by which a fair step moves its worker, loop or session
   forward and no other step moves it back. Types of `Scoring`, `ServingProxy`,
   `SimulatorPlugins` and `RunTrail`, now parts of their invariants, can be theorems
   of their own.
2. **Simulations that outlive their timeout** (`plugin.py:285`): the
   container's processes in `SubmitServer`, for the shared-staging mode, and in
   `SimulatorPlugins`.
3. **Composition**: `RunSession` with the detailed `SubmitServer` in the place of
   its abstraction of a call (only the session's grace wait and the handlers),
   so that `NothingCutShort` is checked against the real markers.
4. **mcp-serve**: its server, container and signal handlers.
5. **gc** beside running sessions, with `ContainerRegistry`.
