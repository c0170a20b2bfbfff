---------------------------- MODULE BaselineGate ----------------------------
(***************************************************************************)
(* The baseline of a challenge: archbench baseline measures the reference, *)
(* writes baseline.json and stamps it with the digests of its inputs; a    *)
(* session starts only when the stamp agrees with the inputs it finds.     *)
(* Between and during both, somebody edits the inputs. A digest is the     *)
(* version of the content, Zero the all-zero digest.                       *)
(*                                                                         *)
(* Source: archbench/cli.py, core/provenance.py, runtimes/session.py.      *)
(***************************************************************************)
EXTENDS Naturals, FiniteSets

CONSTANTS
    Commands,   \* archbench baseline commands
    Tiers,      \* the tiers of the family; they share baseline.json
    Versions,   \* versions of an input
    Gone,       \* an image that is not local, a trace that is not found
    Zero,       \* the digest of nothing
    MaxEdits    \* bound on edits

ASSUME BaselineAssumption ==
    /\ Versions # {} /\ {Gone, Zero} \cap Versions = {} /\ Gone # Zero
    /\ MaxEdits \in Nat

VARIABLES
    family,     \* how the family is laid out; does not change
    live,       \* the version of each input, now
    baseline,   \* baseline.json
    cmd,        \* the baseline commands
    session,    \* the last session: what its check let it do
    edits,      \* edits so far
    fresh       \* a command ended well, and nothing was changed since

gateVars == <<family, live, baseline, cmd, session, edits, fresh>>

Inputs == {"image", "scorer", "config", "reference", "starter", "trace"}
Stamped == {"image", "config", "starter", "trace"}

Absent == [there |-> FALSE, measured |-> {}, stamp |-> <<>>, touched |-> FALSE]
Idle == [pc |-> "idle", runs |-> 0, measured |-> {}, touched |-> FALSE]

(* Reference: the family has baseline/one_shot (or assisted/L1/starter).   *)
(* Hidden: tiers whose starter_visibility is none or api_stub. PerTrace:   *)
(* the shape of the per-trace rows in baseline.json; the baseline of       *)
(* several simulators has none. Pinned: the challenge names an             *)
(* evaluation_sim_image.                                                   *)
GateInit ==
    /\ family \in [tiered : BOOLEAN, reference : BOOLEAN,
                   hidden : SUBSET Tiers, config : {"simulator", "older", "none"},
                   perTrace : {"list", "dict", "none"}, pinned : BOOLEAN,
                   sims : {1, 2}]
    /\ family.reference => family.tiered
    /\ family.sims > 1 => family.perTrace = "none"
    /\ live \in [Inputs -> {CHOOSE v \in Versions : TRUE}]
    /\ baseline = Absent
    /\ cmd = [b \in Commands |-> Idle]
    /\ session = "none"
    /\ edits = 0
    /\ fresh = FALSE

-----------------------------------------------------------------------------
(* archbench baseline *)

Starter == IF family.reference THEN live.reference ELSE live.starter

(* _resolve_pseudo_path: the challenge's scorer, or the simulator's image. *)
EvalImage == IF family.pinned THEN live.scorer ELSE live.image

(* The command returns 1, or raises.                                       *)
Fails(b) == cmd' = [cmd EXCEPT ![b] = Idle]

(* A tier without a reference is refused; so is a challenge without        *)
(* evaluate.sh or starter, and an image that cannot be had.                *)
Begin(b) ==
    /\ cmd[b].pc = "idle"
    /\ \/ /\ family.tiered => family.reference
          /\ live.image # Gone
          /\ cmd' = [cmd EXCEPT ![b] = [Idle EXCEPT !.pc = "evaluate"]]
       \/ Fails(b)
    /\ UNCHANGED <<family, live, baseline, session, edits, fresh>>

(* Mutant: the measurement runs on the starter the agents are given.       *)
MutMeasured == [image |-> live.image, config |-> live.config,
                starter |-> live.starter, trace |-> live.trace]

(* What evaluate.sh measures.                                              *)
Measured == [image |-> live.image, config |-> live.config,
             starter |-> Starter, trace |-> live.trace]

(* evaluate.sh, or the evaluate_<sim>.sh of each simulator in turn.        *)
(* Failing, the timeout and an output without the metric end the command.  *)
Evaluate(b) ==
    /\ cmd[b].pc = "evaluate"
    /\ \/ cmd' = [cmd EXCEPT ![b].runs = @ + 1,
                             ![b].measured = @ \cup {Measured},
                             ![b].pc = IF cmd[b].runs + 1 = family.sims
                                       THEN "write" ELSE "evaluate"]
       \/ Fails(b)
    /\ UNCHANGED <<family, live, baseline, session, edits, fresh>>

(* baseline.json with its metrics, without provenance.                     *)
Write(b) ==
    /\ cmd[b].pc = "write"
    /\ baseline' = [there |-> TRUE, measured |-> cmd[b].measured,
                    stamp |-> <<>>, touched |-> cmd[b].touched]
    /\ cmd' = [cmd EXCEPT ![b].pc = "stamp"]
    /\ fresh' = FALSE
    /\ UNCHANGED <<family, live, session, edits>>

(* _resolve_baseline_trace_files: a dict of traces raises, and so does a   *)
(* trace that is not found.                                                *)
HasTraces == family.perTrace = "list"

TracesResolve == family.perTrace # "dict" /\ (HasTraces => live.trace # Gone)

(* stamp_baseline *)
NewStamp ==
    [image |-> EvalImage,
     config |-> IF family.config = "simulator" THEN live.config ELSE Zero,
     starter |-> Starter,
     trace |-> IF HasTraces THEN live.trace ELSE Zero]

(* The provenance is added to whatever baseline.json holds by now.         *)
Stamp(b) ==
    /\ cmd[b].pc = "stamp"
    /\ IF TracesResolve /\ EvalImage # Gone
       THEN /\ baseline' = [baseline EXCEPT !.stamp = NewStamp,
                                            !.touched = @ \/ cmd[b].touched]
            /\ cmd' = [cmd EXCEPT ![b] = Idle]
            /\ fresh' = TRUE
       ELSE Fails(b) /\ UNCHANGED <<baseline, fresh>>
    /\ UNCHANGED <<family, live, session, edits>>

-----------------------------------------------------------------------------
(* The check at the start of a session: _check_baseline_provenance *)

ImageDrift == baseline.stamp.image # EvalImage

(* The guard also looks at the older places of config.json.                *)
ConfigDrift == family.config # "none" /\ baseline.stamp.config # live.config

(* Mutant: the staged starter is hashed, as before the unified starter.    *)
MutStarterStaged(t) ==
    t \notin family.hidden /\ baseline.stamp.starter # live.starter

(* The reference, if there is one; else the starter, unless the tier gets  *)
(* none that was measured.                                                 *)
StarterDrift(t) ==
    /\ family.reference \/ t \notin family.hidden
    /\ baseline.stamp.starter # Starter

TraceDrift ==
    HasTraces /\ (live.trace = Gone \/ baseline.stamp.trace # live.trace)

(* No baseline.json is no drift.                                           *)
Drifts(t) ==
    IF ~baseline.there THEN {}
    ELSE IF baseline.stamp = <<>> THEN {"unstamped"}
    ELSE {f \in Stamped : \/ f = "image" /\ ImageDrift
                          \/ f = "config" /\ ConfigDrift
                          \/ f = "starter" /\ StarterDrift(t)
                          \/ f = "trace" /\ TraceDrift}

(* run_session up to its output directory: the images, then the check.     *)
StartSession(t) ==
    /\ session' = IF Gone \in {live.image, EvalImage} \/ Drifts(t) # {}
                  THEN "refused" ELSE "running"
    /\ UNCHANGED <<family, live, baseline, cmd, edits, fresh>>

(* The inputs there are in this family.                                    *)
Present ==
    {f \in Inputs : /\ f = "scorer" => family.pinned
                    /\ f = "config" => family.config # "none"
                    /\ f = "reference" => family.reference
                    /\ f = "trace" => family.perTrace # "none"}

(* Somebody changes an input; images and traces may go.                    *)
Edit ==
    /\ edits < MaxEdits
    /\ \E f \in Present : \E v \in Versions \cup {Gone} :
          /\ v # live[f]
          /\ v = Gone => f \in {"image", "scorer", "trace"}
          /\ live' = [live EXCEPT ![f] = v]
    /\ edits' = edits + 1
    /\ cmd' = [b \in Commands |-> [cmd[b] EXCEPT !.touched = cmd[b].pc # "idle"]]
    /\ fresh' = FALSE
    /\ UNCHANGED <<family, baseline, session>>

GateNext ==
    \/ \E b \in Commands : Begin(b) \/ Evaluate(b) \/ Write(b) \/ Stamp(b)
    \/ \E t \in Tiers : StartSession(t)
    \/ Edit

GateSpec == GateInit /\ [][GateNext]_gateVars

-----------------------------------------------------------------------------
(* Properties *)

(* The stamp names what was measured (provenance.py: "the simulator        *)
(* config.json that produced the measurement"), whatever commands overlap, *)
(* unless an input was changed while one of them ran. A scorer that the    *)
(* challenge pins is stamped in place of the image that was run.           *)
StampIsMeasured ==
    baseline.stamp # <<>> /\ ~baseline.touched =>
       \A m \in baseline.measured, f \in Stamped :
          \/ baseline.stamp[f] = m[f]
          \/ f \in {"config", "trace"} /\ baseline.stamp[f] = Zero
          \/ f = "image" /\ family.pinned

(* A baseline just stamped lets a session of every tier start (stamp_base- *)
(* line: "a freshly stamped baseline reads GREEN"), with config.json in    *)
(* its canonical place.                                                    *)
FreshIsGreen ==
    fresh /\ family.config # "older" => \A t \in Tiers : Drifts(t) = {}
=============================================================================
