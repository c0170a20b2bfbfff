--------------------------- MODULE Records_proofs ---------------------------
(***************************************************************************)
(* Proofs about the components that meet a session through what they leave *)
(* on disk: the baseline and its stamp, the documents of a challenge, and  *)
(* the images and their tarballs.                                          *)
(***************************************************************************)
EXTENDS BaselineGate, ChallengeLoader, ImageManagement, Loops, TLAPS

(***************************************************************************)
(* The baseline: what a stamp says about the measurement it was put on,    *)
(* and what a fresh stamp lets a session do, for any number of overlapping *)
(* commands, tiers, versions and edits.                                    *)
(***************************************************************************)
InputContents == Versions \cup {Gone}
Measurements == [image : InputContents, config : InputContents, starter : InputContents,
                 trace : InputContents]
Stamps == [image : InputContents, config : InputContents \cup {Zero},
           starter : InputContents, trace : InputContents \cup {Zero}]

CommandStates ==
    [pc : {"idle", "evaluate", "write", "stamp"}, runs : Nat,
     measured : SUBSET Measurements, touched : BOOLEAN]

(* The variables, but those nothing here depends on.                       *)
GateTypes ==
    /\ family \in [tiered : BOOLEAN, reference : BOOLEAN,
                   hidden : SUBSET Tiers, config : {"simulator", "older", "none"},
                   perTrace : {"list", "dict", "none"}, pinned : BOOLEAN,
                   sims : {1, 2}]
    /\ live \in [Inputs -> InputContents]
    /\ baseline \in [there : BOOLEAN, measured : SUBSET Measurements,
                     stamp : Stamps \cup {<<>>}, touched : BOOLEAN]
    /\ cmd \in [Commands -> CommandStates]
    /\ fresh \in BOOLEAN

(* What an untouched command has measured is what is there now.            *)
Current(ms) == \A m \in ms : m = Measured
MeasuredNow ==
    \A b \in Commands :
        cmd[b].pc # "idle" /\ ~cmd[b].touched => Current(cmd[b].measured)

(* What a command that is about to stamp finds in baseline.json: its own   *)
(* measurement, or that of a command that wrote after it.                  *)
StampsCurrent ==
    \A b \in Commands :
        cmd[b].pc = "stamp" =>
           /\ baseline.there
           /\ ~cmd[b].touched /\ ~baseline.touched => Current(baseline.measured)

(* A fresh stamp is the one that would be made now.                        *)
FreshStamp ==
    fresh => baseline.stamp = NewStamp /\ TracesResolve

GateInv == GateTypes /\ MeasuredNow /\ StampsCurrent /\ FreshStamp /\ StampIsMeasured

LEMMA MeasuredType == GateTypes => Measured \in Measurements
BY DEF GateTypes, Measured, Measurements, Starter, Inputs

LEMMA StampType == GateTypes => NewStamp \in Stamps
BY DEF GateTypes, NewStamp, Stamps, Starter, EvalImage, Inputs

(* What the stamp made now says of a measurement made now.                 *)
LEMMA StampOfMeasured ==
    ASSUME NEW f \in Stamped
    PROVE  \/ NewStamp[f] = Measured[f]
           \/ f \in {"config", "trace"} /\ NewStamp[f] = Zero
           \/ f = "image" /\ family.pinned
BY DEF Stamped, NewStamp, Measured, EvalImage

LEMMA GateInitInv == GateInit => GateInv
<1> SUFFICES ASSUME GateInit PROVE GateInv
  OBVIOUS
<1>1. GateTypes
  <2>1. live \in [Inputs -> InputContents]
    BY BaselineAssumption DEF GateInit, InputContents
  <2> QED BY <2>1 DEF GateInit, GateTypes, CommandStates, Absent, Idle
<1>2. MeasuredNow /\ StampsCurrent /\ FreshStamp /\ StampIsMeasured
  BY DEF GateInit, MeasuredNow, StampsCurrent, FreshStamp, StampIsMeasured,
         Absent, Idle
<1> QED BY <1>1, <1>2 DEF GateInv

(* The inputs and the layout did not change, nor what is made of them.     *)
LEMMA InputsStay ==
    ASSUME UNCHANGED <<family, live>>
    PROVE  /\ Measured' = Measured /\ NewStamp' = NewStamp
           /\ TracesResolve' = TracesResolve
BY DEF Measured, NewStamp, TracesResolve, HasTraces, EvalImage, Starter

(* A command that begins has measured nothing, one that gives up nothing   *)
(* that counts.                                                            *)
LEMMA ResetKeeps ==
    ASSUME GateInv, NEW b \in Commands, NEW p \in {"idle", "evaluate"},
           cmd' = [cmd EXCEPT ![b] = [Idle EXCEPT !.pc = p]],
           UNCHANGED <<family, live, baseline, fresh>>
    PROVE  GateInv'
<1> USE DEF GateInv
<1>1. /\ cmd'[b].pc = p /\ cmd'[b].measured = {}
      /\ \A a \in Commands \ {b} : cmd'[a] = cmd[a]
  BY DEF GateTypes, CommandStates, Idle
<1>2. GateTypes'
  <2>1. [Idle EXCEPT !.pc = p] \in CommandStates
    BY DEF CommandStates, Idle
  <2>2. cmd' \in [Commands -> CommandStates]
    BY <2>1 DEF GateTypes
  <2> QED BY <2>2 DEF GateTypes
<1>3. MeasuredNow'
  BY <1>1, InputsStay DEF MeasuredNow, Current
<1>4. StampsCurrent'
  BY <1>1, InputsStay DEF StampsCurrent, Current
<1>5. FreshStamp' /\ StampIsMeasured'
  BY InputsStay DEF FreshStamp, StampIsMeasured
<1> QED BY <1>2, <1>3, <1>4, <1>5

LEMMA FailsResets ==
    ASSUME NEW b \in Commands, Fails(b)
    PROVE  cmd' = [cmd EXCEPT ![b] = [Idle EXCEPT !.pc = "idle"]]
BY DEF Fails, Idle

LEMMA EvaluateKeeps ==
    ASSUME GateInv, NEW b \in Commands, Evaluate(b)
    PROVE  GateInv'
<1> USE DEF GateInv
<1>0. UNCHANGED <<family, live, baseline, fresh>> /\ cmd[b].pc = "evaluate"
  BY DEF Evaluate
<1>1. CASE Fails(b)
  BY <1>0, <1>1, FailsResets, ResetKeeps
<1>2. CASE ~Fails(b)
  <2>1. cmd' = [cmd EXCEPT ![b].runs = @ + 1,
                           ![b].measured = @ \cup {Measured},
                           ![b].pc = IF cmd[b].runs + 1 = family.sims
                                     THEN "write" ELSE "evaluate"]
    BY <1>2 DEF Evaluate
  <2>0. /\ cmd[b] \in CommandStates
        /\ \A a \in Commands \ {b} : cmd[a] \in CommandStates
    BY DEF GateTypes
  <2>2. /\ cmd'[b].pc \in {"write", "evaluate"}
        /\ cmd'[b].measured = cmd[b].measured \cup {Measured}
        /\ cmd'[b].touched = cmd[b].touched
        /\ cmd'[b].runs = cmd[b].runs + 1
        /\ \A a \in Commands \ {b} : cmd'[a] = cmd[a]
    BY <2>1 DEF GateTypes, CommandStates
  <2>3. GateTypes'
    <3> DEFINE new == [pc |-> cmd'[b].pc, runs |-> cmd[b].runs + 1,
                       measured |-> cmd[b].measured \cup {Measured},
                       touched |-> cmd[b].touched]
    <3>1. new \in CommandStates
      BY <2>0, <2>2, MeasuredType DEF CommandStates
    <3>2. cmd'[b] = new
      BY <2>0, <2>1, <2>2 DEF GateTypes, CommandStates
    <3>3. cmd' \in [Commands -> CommandStates]
      <4>1. cmd' = [a \in Commands |-> cmd'[a]]
        BY <2>1 DEF GateTypes
      <4>2. \A a \in Commands : cmd'[a] \in CommandStates
        BY <2>0, <2>2, <3>1, <3>2
      <4> QED BY <4>1, <4>2
    <3> QED BY <1>0, <3>3 DEF GateTypes
  <2>4. MeasuredNow'
    BY <1>0, <2>2, InputsStay DEF MeasuredNow, Current
  <2>5. StampsCurrent'
    BY <1>0, <2>2, InputsStay DEF StampsCurrent, Current
  <2>6. FreshStamp' /\ StampIsMeasured'
    BY <1>0, InputsStay DEF FreshStamp, StampIsMeasured
  <2> QED BY <2>3, <2>4, <2>5, <2>6
<1> QED BY <1>1, <1>2

LEMMA WriteKeeps ==
    ASSUME GateInv, NEW b \in Commands, Write(b)
    PROVE  GateInv'
<1> USE DEF GateInv
<1>1. /\ cmd[b].pc = "write" /\ fresh' = FALSE /\ UNCHANGED <<family, live>>
      /\ cmd' = [cmd EXCEPT ![b].pc = "stamp"]
      /\ baseline' = [there |-> TRUE, measured |-> cmd[b].measured,
                      stamp |-> <<>>, touched |-> cmd[b].touched]
  BY DEF Write
<1>2. /\ \A a \in Commands : cmd'[a].measured = cmd[a].measured
      /\ \A a \in Commands : cmd'[a].touched = cmd[a].touched
      /\ \A a \in Commands \ {b} : cmd'[a].pc = cmd[a].pc
  BY <1>1 DEF GateTypes, CommandStates
<1>3. GateTypes'
  <2>1. cmd[b] \in CommandStates /\ cmd[b].measured \in SUBSET Measurements
        /\ cmd[b].touched \in BOOLEAN
    BY DEF GateTypes, CommandStates
  <2>2. [cmd[b] EXCEPT !.pc = "stamp"] \in CommandStates
    BY <2>1 DEF CommandStates
  <2>3. cmd' \in [Commands -> CommandStates]
    BY <1>1, <2>2 DEF GateTypes
  <2>4. baseline' \in [there : BOOLEAN, measured : SUBSET Measurements,
                       stamp : Stamps \cup {<<>>}, touched : BOOLEAN]
    BY <1>1, <2>1
  <2> QED BY <1>1, <2>3, <2>4 DEF GateTypes
<1>4. MeasuredNow'
  BY <1>1, <1>2, InputsStay DEF MeasuredNow, Current
<1>5. StampsCurrent'
  BY <1>1, <1>2, InputsStay DEF StampsCurrent, MeasuredNow, Current
<1>6. FreshStamp' /\ StampIsMeasured'
  BY <1>1 DEF FreshStamp, StampIsMeasured
<1> QED BY <1>3, <1>4, <1>5, <1>6

LEMMA StampKeeps ==
    ASSUME GateInv, NEW b \in Commands, Stamp(b)
    PROVE  GateInv'
<1> USE DEF GateInv
<1>0. cmd[b].pc = "stamp" /\ UNCHANGED <<family, live>>
  BY DEF Stamp
<1>1. CASE Fails(b) /\ UNCHANGED <<baseline, fresh>>
  BY <1>0, <1>1, FailsResets, ResetKeeps
<1>2. CASE ~(Fails(b) /\ UNCHANGED <<baseline, fresh>>)
  <2>1. /\ TracesResolve /\ fresh' = TRUE
        /\ cmd' = [cmd EXCEPT ![b] = Idle]
        /\ baseline' = [baseline EXCEPT !.stamp = NewStamp,
                                        !.touched = @ \/ cmd[b].touched]
    BY <1>2 DEF Stamp
  <2>2. /\ cmd'[b].pc = "idle"
        /\ \A a \in Commands \ {b} : cmd'[a] = cmd[a]
    BY <2>1 DEF GateTypes, CommandStates, Idle
  <2>3. /\ baseline'.stamp = NewStamp /\ baseline'.measured = baseline.measured
        /\ baseline'.touched = (baseline.touched \/ cmd[b].touched)
        /\ baseline'.there = baseline.there
    BY <2>1 DEF GateTypes, CommandStates
  <2>4. GateTypes'
    BY <1>0, <2>1, StampType DEF GateTypes, CommandStates, Idle
  <2>5. MeasuredNow'
    BY <1>0, <2>2, InputsStay DEF MeasuredNow, Current
  <2>6. StampsCurrent'
    BY <1>0, <2>2, <2>3, InputsStay DEF StampsCurrent, Current
  <2>7. FreshStamp'
    BY <1>0, <2>1, <2>3, InputsStay DEF FreshStamp
  <2>8. StampIsMeasured'
    <3>1. ~baseline'.touched => \A m \in baseline'.measured : m = Measured
      BY <1>0, <2>3 DEF StampsCurrent, Current
    <3> QED BY <1>0, <2>3, <3>1, StampOfMeasured DEF StampIsMeasured
  <2> QED BY <2>4, <2>5, <2>6, <2>7, <2>8
<1> QED BY <1>1, <1>2

LEMMA EditKeeps ==
    ASSUME GateInv, Edit
    PROVE  GateInv'
<1> USE DEF GateInv
<1>1. /\ fresh' = FALSE /\ UNCHANGED <<family, baseline>>
      /\ cmd' = [b \in Commands |->
                   [cmd[b] EXCEPT !.touched = cmd[b].pc # "idle"]]
  BY DEF Edit
<1>2. live' \in [Inputs -> InputContents]
  BY DEF Edit, GateTypes, InputContents
<1>3. \A b \in Commands : /\ cmd'[b].pc = cmd[b].pc
                          /\ cmd'[b].touched = (cmd[b].pc # "idle")
  BY <1>1 DEF GateTypes, CommandStates
<1>4. GateTypes'
  <2>1. ASSUME NEW b \in Commands
        PROVE  [cmd[b] EXCEPT !.touched = cmd[b].pc # "idle"] \in CommandStates
    <3>1. cmd[b] \in CommandStates /\ (cmd[b].pc # "idle") \in BOOLEAN
      BY DEF GateTypes
    <3> QED BY <3>1 DEF CommandStates
  <2>2. cmd' \in [Commands -> CommandStates]
    BY <1>1, <2>1
  <2> QED BY <1>1, <1>2, <2>2 DEF GateTypes
<1>5. MeasuredNow'
  BY <1>1, <1>3 DEF MeasuredNow
<1>6. StampsCurrent' /\ FreshStamp'
  BY <1>1, <1>3 DEF StampsCurrent, FreshStamp
<1>7. StampIsMeasured'
  BY <1>1, <1>3 DEF StampIsMeasured
<1> QED BY <1>4, <1>5, <1>6, <1>7

LEMMA GateNextInv == GateInv /\ [GateNext]_gateVars => GateInv'
<1> SUFFICES ASSUME GateInv, [GateNext]_gateVars PROVE GateInv'
  OBVIOUS
<1>1. ASSUME NEW b \in Commands, Begin(b) PROVE GateInv'
  <2>1. UNCHANGED <<family, live, baseline, fresh>>
    BY <1>1 DEF Begin
  <2>2. CASE Fails(b)
    BY <2>1, <2>2, FailsResets, ResetKeeps
  <2>3. CASE ~Fails(b)
    <3>1. cmd' = [cmd EXCEPT ![b] = [Idle EXCEPT !.pc = "evaluate"]]
      BY <1>1, <2>3 DEF Begin
    <3> QED BY <2>1, <3>1, ResetKeeps
  <2> QED BY <2>2, <2>3
<1>2. ASSUME UNCHANGED <<family, live, baseline, cmd, fresh>> PROVE GateInv'
  BY <1>2, InputsStay DEF GateInv, GateTypes, MeasuredNow, StampsCurrent, FreshStamp,
     StampIsMeasured, Current
<1>3. ASSUME NEW t \in Tiers, StartSession(t) PROVE GateInv'
  BY <1>2, <1>3 DEF StartSession
<1>4. CASE UNCHANGED gateVars
  BY <1>2, <1>4 DEF gateVars
<1> QED BY <1>1, <1>3, <1>4, EvaluateKeeps, WriteKeeps, StampKeeps, EditKeeps
        DEF GateNext

(* However commands overlap, a stamp no input was changed under names what *)
(* was measured.                                                           *)
THEOREM StampNamesMeasured == GateSpec => []StampIsMeasured
<1>1. GateInv => StampIsMeasured
  BY DEF GateInv
<1> QED BY GateInitInv, GateNextInv, <1>1, PTL DEF GateSpec

(* A fresh stamp is no reason to refuse a session of any tier.             *)
THEOREM FreshStarts == GateSpec => []FreshIsGreen
<1>1. GateInv => FreshIsGreen
  <2> SUFFICES ASSUME GateInv, fresh, family.config # "older", NEW t \in Tiers
               PROVE  Drifts(t) = {}
    BY DEF FreshIsGreen
  <2>1. baseline.stamp = NewStamp /\ TracesResolve
    BY DEF GateInv, FreshStamp
  <2>2. baseline.stamp # <<>>
    <3>1. DOMAIN NewStamp = Stamped
      BY DEF NewStamp, Stamped
    <3>2. "image" \in DOMAIN NewStamp /\ "image" \notin DOMAIN <<>>
      BY <3>1 DEF Stamped
    <3> QED BY <2>1, <3>2
  <2>3. ~ImageDrift
    BY <2>1 DEF ImageDrift, NewStamp
  <2>4. ~ConfigDrift
    BY <2>1 DEF ConfigDrift, NewStamp, GateInv, GateTypes
  <2>5. ~StarterDrift(t)
    BY <2>1 DEF StarterDrift, NewStamp
  <2>6. ~TraceDrift
    BY <2>1 DEF TraceDrift, NewStamp, TracesResolve
  <2> QED BY <2>2, <2>3, <2>4, <2>5, <2>6 DEF Drifts
<1> QED BY GateInitInv, GateNextInv, <1>1, PTL DEF GateSpec

-----------------------------------------------------------------------------
(* FlattenSeq appends sequence to sequence.                                *)
LEMMA Flattened ==
    ASSUME NEW S, NEW seqs \in Seq(Seq(S)), Len(seqs) > 0
    PROVE  \E f :
              /\ f[1] = seqs[1]
              /\ \A i \in 2..Len(seqs) : f[i] = f[i - 1] \o seqs[i]
              /\ FlattenSeq(seqs) = f[Len(seqs)]
<1> DEFINE n == Len(seqs)
           step == [p \in Seq(S) \X (1..(n - 1)) |-> p[1] \o seqs[p[2] + 1]]
           Is(f) == f = [i \in 1..n |-> IF i = 1 THEN seqs[i]
                                        ELSE f[i - 1] \o seqs[i]]
<1>1. n \in Nat \ {0} /\ \A i \in 1..n : seqs[i] \in Seq(S)
  OBVIOUS
<1>2. step \in [Seq(S) \X (1..(n - 1)) -> Seq(S)]
  <2>1. ASSUME NEW p \in Seq(S) \X (1..(n - 1))
        PROVE  p[1] \o seqs[p[2] + 1] \in Seq(S)
    <3>1. p[1] \in Seq(S) /\ p[2] + 1 \in 1..n
      BY <1>1
    <3>2. seqs[p[2] + 1] \in Seq(S)
      BY <1>1, <3>1
    <3> QED BY <3>1, <3>2
  <2> QED BY <2>1
<1>3. PICK f \in [0..(n - 1) -> Seq(S)] :
         f[0] = seqs[1] /\ \A k \in 1..(n - 1) : f[k] = step[<<f[k - 1], k>>]
  <2>1. seqs[1] \in Seq(S) /\ n - 1 \in Nat
    BY <1>1
  <2> DEFINE T == Seq(S)
             m == n - 1
             b == seqs[1]
  <2>2. m \in Nat /\ b \in T /\ step \in [T \X (1..m) -> T]
    BY <1>2, <2>1
  <2>3. \E f : IsLoop(f, m, T, b, step)
    <3> HIDE DEF m, b, T, step
    <3> QED BY <2>2, LoopExists
  <2> QED BY <2>3 DEF IsLoop
<1> DEFINE g == [i \in 1..n |-> f[i - 1]]
<1>4. ASSUME NEW i \in 2..n PROVE g[i] = g[i - 1] \o seqs[i]
  <2>1. /\ i - 1 \in 1..(n - 1) /\ (i - 1) - 1 \in 0..(n - 1)
        /\ (i - 1) + 1 = i /\ i \in 1..n /\ i - 1 \in 1..n
    BY <1>1
  <2>2. f[i - 1] = step[<<f[(i - 1) - 1], i - 1>>]
    BY <1>3, <2>1
  <2>3. f[(i - 1) - 1] \in Seq(S)
    BY <1>3, <2>1
  <2>4. step[<<f[(i - 1) - 1], i - 1>>] = f[(i - 1) - 1] \o seqs[i]
    BY <2>1, <2>3
  <2>5. g[i] = f[i - 1] /\ g[i - 1] = f[(i - 1) - 1]
    BY <2>1
  <2> HIDE DEF g, step
  <2> QED BY <2>2, <2>4, <2>5
<1>5. Is(g)
  <2> DEFINE h == [i \in 1..n |-> IF i = 1 THEN seqs[i] ELSE g[i - 1] \o seqs[i]]
  <2>1. ASSUME NEW i \in 1..n PROVE g[i] = h[i]
    <3>1. CASE i = 1
      BY <1>3, <3>1
    <3>2. CASE i # 1
      <4>1. i \in 2..n
        BY <3>2
      <4>2. h[i] = g[i - 1] \o seqs[i]
        BY <3>2
      <4> HIDE DEF h, g
      <4> QED BY <1>4, <4>1, <4>2
    <3> QED BY <3>1, <3>2
  <2>2. g = h
    <3>1. g = [i \in 1..n |-> g[i]] /\ h = [i \in 1..n |-> h[i]]
      OBVIOUS
    <3> HIDE DEF g, h
    <3> QED BY <2>1, <3>1
  <2> HIDE DEF g
  <2> QED BY <2>2
<1> DEFINE flatten == CHOOSE h : Is(h)
<1>6. Is(flatten)
  <2> HIDE DEF Is
  <2> QED BY <1>5
<1>7. FlattenSeq(seqs) = flatten[n]
  BY <1>1 DEF FlattenSeq
<1>8. /\ flatten[1] = seqs[1]
      /\ \A i \in 2..n : flatten[i] = flatten[i - 1] \o seqs[i]
  <2> HIDE DEF flatten, n
  <2>1. flatten = [i \in 1..n |-> IF i = 1 THEN seqs[i]
                                  ELSE flatten[i - 1] \o seqs[i]]
    BY <1>6
  <2>2. ASSUME NEW i \in 1..n
        PROVE  flatten[i] = IF i = 1 THEN seqs[i] ELSE flatten[i - 1] \o seqs[i]
    BY <2>1, Zenon
  <2>3. 1 \in 1..n /\ \A i \in 2..n : i \in 1..n /\ i # 1
    BY <1>1
  <2> QED BY <2>2, <2>3
<1> HIDE DEF flatten, Is, step, g
<1>9. PICK l : /\ l[1] = seqs[1] /\ FlattenSeq(seqs) = l[n]
               /\ \A i \in 2..n : l[i] = l[i - 1] \o seqs[i]
  BY <1>7, <1>8
<1> QED BY <1>9

-----------------------------------------------------------------------------
(* The documents of a challenge                                            *)

Documents == {"root", "tier", "sibling"}
NestedKeys == {"eval", "evaluations", "rubric_mapping"}

(* The dicts whose keys are in D and whose values are in S.                *)
Dicts(D, S) == UNION {[K -> S] : K \in SUBSET D}

Budgets(d) == Dicts({"metric", "max_submissions"}, {d})
Items == [evaluator : Evaluators, by : Documents]
Labelled ==
    [evaluator : Evaluators, by : Documents, rubric : Rubrics \cup {NoRubric}]
NestedBlocks(d) ==
    [eval : Budgets(d), final : Seq(Labelled), process : Seq(Labelled)]
Lists ==
    [grouped : {FALSE}, at : Seq(Items)]
      \cup [grouped : {TRUE}, at : Dicts(Range(Levels), Seq(Items))]
Mappings == Dicts(Evaluators, Rubrics)

(* What an author may have written in d. evaluation.yaml has no nested     *)
(* block.                                                                  *)
Written(d) ==
    /\ Has(docs[d], "evaluation") =>
          d # "sibling" /\ docs[d]["evaluation"] \in NestedBlocks(d)
    /\ Has(docs[d], "eval") => docs[d]["eval"] \in Budgets(d)
    /\ Has(docs[d], "evaluations") => docs[d]["evaluations"] \in Lists
    /\ Has(docs[d], "rubric_mapping") => docs[d]["rubric_mapping"] \in Mappings

LoaderInv == DOMAIN docs = Documents /\ \A d \in Documents : Written(d)

LEMMA NothingInEmpty == DOMAIN Empty = {} /\ \A k : ~Has(Empty, k)
BY DEF Empty, Has

LEMMA EmptyDict == \A D, S : Empty \in Dicts(D, S)
<1> TAKE D, S
<1>1. Empty \in [{} -> S]
  BY DEF Empty
<1> QED BY <1>1 DEF Dicts

LEMMA WithDict ==
    ASSUME NEW D, NEW S, NEW f \in Dicts(D, S), NEW k \in D, NEW v \in S
    PROVE  With(f, k, v) \in Dicts(D, S)
<1>1. PICK K \in SUBSET D : f \in [K -> S]
  BY DEF Dicts
<1>2. With(f, k, v) \in [K \cup {k} -> S]
  BY <1>1 DEF With
<1>3. K \cup {k} \in SUBSET D
  OBVIOUS
<1> QED BY <1>2, <1>3 DEF Dicts

LEMMA OverDict ==
    ASSUME NEW D, NEW S, NEW f \in Dicts(D, S), NEW g \in Dicts(D, S)
    PROVE  Over(f, g) \in Dicts(D, S)
<1>1. PICK K \in SUBSET D : f \in [K -> S]
  BY DEF Dicts
<1>2. PICK L \in SUBSET D : g \in [L -> S]
  BY DEF Dicts
<1>3. Over(f, g) \in [K \cup L -> S]
  BY <1>1, <1>2 DEF Over, Has
<1>4. K \cup L \in SUBSET D
  OBVIOUS
<1> QED BY <1>3, <1>4 DEF Dicts

LEMMA LoaderInitInv == LoaderInit => LoaderInv
BY NothingInEmpty DEF LoaderInit, LoaderInv, Documents, Written

(* An edit of one key leaves the others as they were.                      *)
LEMMA AmendKeeps ==
    ASSUME LoaderInv, NEW d \in Documents, NEW k, NEW v, Amend(d, k, v),
           k = "evaluation" => d # "sibling" /\ v \in NestedBlocks(d),
           k = "eval" => v \in Budgets(d),
           k = "evaluations" => v \in Lists,
           k = "rubric_mapping" => v \in Mappings
    PROVE  LoaderInv'
<1>1. DOMAIN docs' = Documents
  BY DEF LoaderInv, Amend
<1>2. \A c \in Documents \ {d} : docs'[c] = docs[c]
  BY DEF LoaderInv, Amend
<1>3. docs'[d] = With(docs[d], k, v)
  BY DEF LoaderInv, Amend
<1>4. \A x : /\ Has(docs'[d], x) <=> x = k \/ Has(docs[d], x)
             /\ Has(docs'[d], x) =>
                  docs'[d][x] = IF x = k THEN v ELSE docs[d][x]
  BY <1>3 DEF With, Has
<1>5. Written(d)'
  <2>1. Written(d)
    BY DEF LoaderInv
  <2> QED BY <1>4, <2>1 DEF Written
<1>6. \A c \in Documents \ {d} : Written(c)'
  <2>1. \A c \in Documents \ {d} : Written(c)
    BY DEF LoaderInv
  <2> QED BY <1>2, <2>1 DEF Written
<1> QED BY <1>1, <1>5, <1>6 DEF LoaderInv

LEMMA NoNestedBlock == \A d \in Documents : NoNested \in NestedBlocks(d)
BY EmptyDict DEF NoNested, NestedBlocks, Budgets

LEMMA LoaderNextInv == LoaderInv /\ [LoaderNext]_loaderVars => LoaderInv'
<1> SUFFICES ASSUME LoaderInv, [LoaderNext]_loaderVars PROVE LoaderInv'
  OBVIOUS
<1>1. \A d \in Yamls : d \in Documents /\ d # "sibling"
  BY DEF Yamls, Documents
<1>2. \A d \in Documents : Written(d)
  BY DEF LoaderInv
<1>3. ASSUME UNCHANGED docs PROVE LoaderInv'
  BY <1>3 DEF LoaderInv, Written
<1>4. ASSUME NEW t, NEW d \in Documents, NEW k, NEW v, SetKey(t, d, k, v),
             k \notin NestedKeys \cup {"evaluation"}
      PROVE  LoaderInv'
  BY <1>4, AmendKeeps DEF SetKey, NestedKeys
<1>5. ASSUME NEW d \in Yamls, NEW k \in {"metric", "max_submissions"},
             NEW nested \in BOOLEAN, SetEval(d, k, nested)
      PROVE  LoaderInv'
  <2>1. CASE nested
    <3> DEFINE old == Get(docs[d], "evaluation", NoNested)
               new == [old EXCEPT !.eval = With(@, k, d)]
    <3>1. old \in NestedBlocks(d)
      BY <1>1, <1>2, NoNestedBlock DEF Written, Get
    <3>2. With(old.eval, k, d) \in Budgets(d)
      BY <3>1, WithDict DEF NestedBlocks, Budgets
    <3>3. new \in NestedBlocks(d)
      BY <3>1, <3>2 DEF NestedBlocks
    <3>4. Amend(d, "evaluation", new)
      BY <1>5, <2>1 DEF SetEval
    <3> HIDE DEF new
    <3> QED BY <1>1, <3>3, <3>4, AmendKeeps
  <2>2. CASE ~nested
    <3> DEFINE old == Get(docs[d], "eval", Empty)
    <3>1. old \in Budgets(d)
      BY <1>1, <1>2, EmptyDict DEF Written, Get, Budgets
    <3>2. With(old, k, d) \in Budgets(d)
      BY <3>1, WithDict DEF Budgets
    <3>3. Amend(d, "eval", With(old, k, d))
      BY <1>5, <2>2 DEF SetEval
    <3> QED BY <1>1, <3>2, <3>3, AmendKeeps
  <2> QED BY <2>1, <2>2
<1>6. ASSUME NEW d \in Yamls, NEW e \in Evaluators,
             NEW rubric \in Rubrics \cup {NoRubric},
             NEW part \in {"final", "process"}, AddNested(d, e, rubric, part)
      PROVE  LoaderInv'
  <2> DEFINE old == Get(docs[d], "evaluation", NoNested)
             item == [evaluator |-> e, by |-> d, rubric |-> rubric]
             new == [old EXCEPT ![part] = Append(@, item)]
  <2>1. old \in NestedBlocks(d) /\ item \in Labelled
    BY <1>1, <1>2, NoNestedBlock DEF Written, Get, Labelled
  <2>2. Append(old.final, item) \in Seq(Labelled)
          /\ Append(old.process, item) \in Seq(Labelled)
    BY <2>1 DEF NestedBlocks
  <2>3. new \in NestedBlocks(d)
    <3>1. CASE part = "final"
      BY <2>1, <2>2, <3>1 DEF NestedBlocks
    <3>2. CASE part = "process"
      BY <2>1, <2>2, <3>2 DEF NestedBlocks
    <3> QED BY <3>1, <3>2
  <2>4. Amend(d, "evaluation", new)
    BY <1>6 DEF AddNested
  <2> HIDE DEF new
  <2> QED BY <1>1, <2>3, <2>4, AmendKeeps
<1>7. ASSUME NEW d \in Documents, NEW e \in Evaluators, AddListed(d, e)
      PROVE  LoaderInv'
  <2> DEFINE old == Get(docs[d], "evaluations", [grouped |-> FALSE, at |-> <<>>])
             new == [old EXCEPT !.at = Append(@, Item(d, e))]
  <2>1. old \in Lists /\ ~old.grouped
    <3>1. [grouped |-> FALSE, at |-> <<>>] \in Lists
      BY DEF Lists
    <3>2. docs[d]["evaluations"] \in Lists \/ ~Has(docs[d], "evaluations")
      BY <1>2 DEF Written
    <3> QED BY <1>7, <3>1, <3>2 DEF Get, AddListed
  <2>2. old \in [grouped : {FALSE}, at : Seq(Items)]
    BY <2>1 DEF Lists
  <2>3. Item(d, e) \in Items
    BY DEF Item, Items
  <2>4. new \in Lists
    <3>1. Append(old.at, Item(d, e)) \in Seq(Items)
      BY <2>2, <2>3
    <3> HIDE DEF old
    <3>2. new \in [grouped : {FALSE}, at : Seq(Items)]
      BY <2>2, <3>1
    <3> QED BY <3>2 DEF Lists
  <2>5. Amend(d, "evaluations", new)
    BY <1>7 DEF AddListed
  <2> HIDE DEF new
  <2> QED BY <2>4, <2>5, AmendKeeps
<1>8. ASSUME NEW d \in Yamls, NEW e \in Evaluators, NEW level \in Range(Levels),
             AddGrouped(d, e, level)
      PROVE  LoaderInv'
  <2> DEFINE none == [grouped |-> TRUE, at |-> Empty]
             old == Get(docs[d], "evaluations", none)
             items == Append(Get(old.at, level, <<>>), Item(d, e))
             at == With(old.at, level, items)
             new == [old EXCEPT !.at = With(@, level, Append(Get(@, level, <<>>),
                                                             Item(d, e)))]
  <2>1. none \in Lists
    BY EmptyDict DEF Lists
  <2>2. old \in Lists /\ old.grouped
    BY <1>1, <1>2, <1>8, <2>1 DEF Written, Get, AddGrouped
  <2>3. old \in [grouped : {TRUE}, at : Dicts(Range(Levels), Seq(Items))]
    BY <2>2 DEF Lists
  <2>4. Get(old.at, level, <<>>) \in Seq(Items)
    <3>1. PICK K \in SUBSET Range(Levels) : old.at \in [K -> Seq(Items)]
      BY <2>3 DEF Dicts
    <3> HIDE DEF old
    <3> QED BY <3>1 DEF Get, Has
  <2>5. Item(d, e) \in Items
    BY <1>1 DEF Item, Items
  <2>6. items \in Seq(Items)
    BY <2>4, <2>5
  <2>7. at \in Dicts(Range(Levels), Seq(Items))
    <3> HIDE DEF items
    <3> QED BY <2>3, <2>6, WithDict
  <2>8. new = [old EXCEPT !.at = at]
    OBVIOUS
  <2>9. new \in Lists
    <3> HIDE DEF at, new
    <3> QED BY <2>3, <2>7, <2>8 DEF Lists
  <2>10. Amend(d, "evaluations", new)
    BY <1>8 DEF AddGrouped
  <2> HIDE DEF new
  <2> QED BY <1>1, <2>9, <2>10, AmendKeeps
<1>9. ASSUME NEW d \in Documents, NEW e \in Evaluators, NEW rubric \in Rubrics,
             SetRubric(d, e, rubric)
      PROVE  LoaderInv'
  <2> DEFINE old == Get(docs[d], "rubric_mapping", Empty)
  <2>1. old \in Mappings
    BY <1>2, EmptyDict DEF Written, Get, Mappings
  <2>2. With(old, e, rubric) \in Mappings
    BY <2>1, WithDict DEF Mappings
  <2>3. Amend(d, "rubric_mapping", With(old, e, rubric))
    BY <1>9 DEF SetRubric
  <2> QED BY <2>2, <2>3, AmendKeeps
<1>10. ASSUME NEW d \in Yamls, NEW k \in DOMAIN Modes, NEW v, SetKey("modes", d, k, v)
       PROVE  LoaderInv'
  <2>1. k \notin NestedKeys \cup {"evaluation"}
    BY DEF Modes, NestedKeys
  <2> QED BY <1>1, <1>4, <1>10, <2>1
<1>11. ASSUME NEW d \in Yamls, NEW k \in DOMAIN ModelKeys, NEW v,
              SetKey("models", d, k, v)
       PROVE  LoaderInv'
  <2>1. k \notin NestedKeys \cup {"evaluation"}
    BY DEF ModelKeys, NestedKeys
  <2> QED BY <1>1, <1>4, <1>11, <2>1
<1>12. ASSUME NEW e \in Evaluators,
              SetKey("evaluators", "tier", "evaluations_remove", {e})
       PROVE  LoaderInv'
  <2>1. "tier" \in Documents
          /\ "evaluations_remove" \notin NestedKeys \cup {"evaluation"}
    BY DEF Documents, NestedKeys
  <2> QED BY <1>4, <1>12, <2>1
<1>13. ASSUME NEW dir \in Dirs, MakeDir(dir) PROVE LoaderInv'
  BY <1>3, <1>13 DEF MakeDir
<1>14. ASSUME NEW f \in DOMAIN CardFields, NEW v \in CardFields[f], EditCard(f, v)
       PROVE  LoaderInv'
  BY <1>3, <1>14 DEF EditCard
<1>15. CASE UNCHANGED loaderVars
  BY <1>3, <1>15 DEF loaderVars
<1>16. \A d \in Yamls \cup {"sibling"} : d \in Documents
  BY <1>1 DEF Documents
<1> QED BY <1>5, <1>6, <1>7, <1>8, <1>9, <1>10, <1>11, <1>12, <1>13, <1>14, <1>15,
           <1>16 DEF LoaderNext

-----------------------------------------------------------------------------
(* What is loaded of them                                                  *)

LEMMA OverFacts ==
    ASSUME NEW f, NEW g, NEW k
    PROVE  /\ Has(Over(f, g), k) <=> Has(f, k) \/ Has(g, k)
           /\ Has(f, k) => Over(f, g)[k] = f[k]
           /\ ~Has(f, k) /\ Has(g, k) => Over(f, g)[k] = g[k]
BY DEF Over, Has

LEMMA IfFacts ==
    ASSUME NEW cond, NEW key, NEW v, NEW k
    PROVE  /\ Has(If(cond, key, v), k) <=> cond /\ k = key
           /\ cond => If(cond, key, v)[key] = v
BY NothingInEmpty DEF If, With, Has

LEMMA WithoutFacts ==
    ASSUME NEW f, NEW ks, NEW k
    PROVE  /\ Has(Without(f, ks), k) <=> Has(f, k) /\ k \notin ks
           /\ Has(Without(f, ks), k) => Without(f, ks)[k] = f[k]
BY DEF Without, Has

NestedEntries(d) == d["evaluation"].final \o d["evaluation"].process
NestedList(entries) ==
    [grouped |-> FALSE,
     at |-> [i \in 1..Len(entries) |-> Item(entries[i].by, entries[i].evaluator)]]

(* What a document has denested: a flat key as it is, or what the nested   *)
(* block says of it.                                                       *)
LEMMA DenestFacts ==
    ASSUME NEW d
    PROVE  /\ ~Has(d, "evaluation") => Denest(d) = d
           /\ \A k : k # "evaluation" /\ Has(d, k) =>
                Has(Denest(d), k) /\ Denest(d)[k] = d[k]
           /\ \A k : k \notin NestedKeys => (Has(Denest(d), k) => Has(d, k))
           /\ Has(d, "evaluation") =>
                /\ ~Has(d, "eval") =>
                     /\ Has(Denest(d), "eval") <=> d["evaluation"].eval # Empty
                     /\ Has(Denest(d), "eval") =>
                          Denest(d)["eval"] = d["evaluation"].eval
                /\ ~Has(d, "evaluations") =>
                     /\ Has(Denest(d), "evaluations") <=> NestedEntries(d) # <<>>
                     /\ Has(Denest(d), "evaluations") =>
                          Denest(d)["evaluations"] = NestedList(NestedEntries(d))
                /\ ~Has(d, "rubric_mapping") /\ Has(Denest(d), "rubric_mapping") =>
                     Denest(d)["rubric_mapping"] = Labels(NestedEntries(d))
<1>1. ~Has(d, "evaluation") => Denest(d) = d
  BY DEF Denest
<1>2. ASSUME Has(d, "evaluation")
      PROVE  /\ \A k : k # "evaluation" /\ Has(d, k) =>
                Has(Denest(d), k) /\ Denest(d)[k] = d[k]
             /\ \A k : k \notin NestedKeys => (Has(Denest(d), k) => Has(d, k))
             /\ ~Has(d, "eval") =>
                     /\ Has(Denest(d), "eval") <=> d["evaluation"].eval # Empty
                     /\ Has(Denest(d), "eval") =>
                          Denest(d)["eval"] = d["evaluation"].eval
             /\ ~Has(d, "evaluations") =>
                     /\ Has(Denest(d), "evaluations") <=> NestedEntries(d) # <<>>
                     /\ Has(Denest(d), "evaluations") =>
                          Denest(d)["evaluations"] = NestedList(NestedEntries(d))
             /\ ~Has(d, "rubric_mapping") /\ Has(Denest(d), "rubric_mapping") =>
                     Denest(d)["rubric_mapping"] = Labels(NestedEntries(d))
  <2> DEFINE entries == NestedEntries(d)
             a == If(d["evaluation"].eval # Empty, "eval", d["evaluation"].eval)
             b == If(entries # <<>>, "evaluations", NestedList(entries))
             c == If(DOMAIN Labels(entries) # {}, "rubric_mapping", Labels(entries))
             e == Without(d, {"evaluation"})
  <2>1. Denest(d) = Over(e, Over(a, Over(b, c)))
    BY <1>2 DEF Denest, NestedEntries, NestedList
  <2>2. \A k : /\ Has(e, k) <=> Has(d, k) /\ k # "evaluation"
               /\ Has(e, k) => e[k] = d[k]
    BY WithoutFacts
  <2>3. \A k : /\ Has(a, k) <=> d["evaluation"].eval # Empty /\ k = "eval"
               /\ Has(a, k) => a[k] = d["evaluation"].eval
    <3> DEFINE v == d["evaluation"].eval
    <3> HIDE DEF v
    <3>1. \A k : /\ Has(If(v # Empty, "eval", v), k) <=> v # Empty /\ k = "eval"
                 /\ v # Empty => If(v # Empty, "eval", v)["eval"] = v
      BY IfFacts
    <3> QED BY <3>1 DEF v
  <2>4. \A k : /\ Has(b, k) <=> entries # <<>> /\ k = "evaluations"
               /\ Has(b, k) => b[k] = NestedList(entries)
    BY IfFacts
  <2>5. \A k : /\ Has(c, k) <=> DOMAIN Labels(entries) # {} /\ k = "rubric_mapping"
               /\ Has(c, k) => c[k] = Labels(entries)
    BY IfFacts
  <2> DEFINE bc == Over(b, c)
             abc == Over(a, bc)
  <2>6. \A k : /\ Has(bc, k) <=> Has(b, k) \/ Has(c, k)
               /\ Has(b, k) => bc[k] = b[k]
               /\ ~Has(b, k) /\ Has(c, k) => bc[k] = c[k]
    <3> HIDE DEF b, c
    <3> QED BY OverFacts
  <2>7. \A k : /\ Has(abc, k) <=> Has(a, k) \/ Has(bc, k)
               /\ Has(a, k) => abc[k] = a[k]
               /\ ~Has(a, k) /\ Has(bc, k) => abc[k] = bc[k]
    <3> HIDE DEF a, bc
    <3> QED BY OverFacts
  <2>8. \A k : /\ Has(Denest(d), k) <=> Has(e, k) \/ Has(abc, k)
               /\ Has(e, k) => Denest(d)[k] = e[k]
               /\ ~Has(e, k) /\ Has(abc, k) => Denest(d)[k] = abc[k]
    <3>1. Denest(d) = Over(e, abc)
      BY <2>1
    <3> HIDE DEF e, abc
    <3> QED BY <3>1, OverFacts
  <2>9. entries = NestedEntries(d)
    OBVIOUS
  <2> HIDE DEF a, b, c, e, bc, abc, entries
  <2> QED BY <2>2, <2>3, <2>4, <2>5, <2>6, <2>7, <2>8, <2>9 DEF NestedKeys
<1>3. "evaluation" \notin NestedKeys
  BY DEF NestedKeys
<1> QED BY <1>1, <1>2, <1>3

(* What a document declares, denested.                                     *)
LEMMA LabelsType ==
    ASSUME NEW entries \in Seq(Labelled) PROVE Labels(entries) \in Mappings
<1> DEFINE L == {i \in 1..Len(entries) : entries[i].rubric # NoRubric}
           Of(e) == {i \in L : entries[i].evaluator = e}
           K == {entries[i].evaluator : i \in L}
<1>1. \A i \in 1..Len(entries) :
         entries[i].evaluator \in Evaluators /\ entries[i].rubric \in Rubrics \cup {NoRubric}
  <2> TAKE i \in 1..Len(entries)
  <2>1. entries[i] \in Labelled
    OBVIOUS
  <2> QED BY <2>1 DEF Labelled
<1>2. K \in SUBSET Evaluators
  BY <1>1
<1>3. ASSUME NEW e \in K PROVE entries[Max(Of(e))].rubric \in Rubrics
  <2>1. Of(e) # {} /\ Of(e) \subseteq 1..Len(entries)
    OBVIOUS
  <2>2. Max(Of(e)) \in Of(e)
    <3> HIDE DEF Of
    <3> QED BY <2>1, MaxOfNumbers
  <2> QED BY <1>1, <2>2
<1>4. Labels(entries) = [e \in K |-> entries[Max(Of(e))].rubric]
  BY DEF Labels
<1>5. Labels(entries) \in [K -> Rubrics]
  <2> HIDE DEF K, Of
  <2> QED BY <1>3, <1>4
<1> QED BY <1>2, <1>5 DEF Mappings, Dicts

LEMMA DenestType ==
    ASSUME LoaderInv, NEW d \in Documents
    PROVE  /\ Has(Denest(docs[d]), "eval") => Denest(docs[d])["eval"] \in Budgets(d)
           /\ Has(Denest(docs[d]), "evaluations") =>
                Denest(docs[d])["evaluations"] \in Lists
           /\ Has(Denest(docs[d]), "rubric_mapping") =>
                Denest(docs[d])["rubric_mapping"] \in Mappings
<1>1. Written(d)
  BY DEF LoaderInv
<1>2. CASE ~Has(docs[d], "evaluation")
  BY <1>1, <1>2, DenestFacts DEF Written
<1>3. CASE Has(docs[d], "evaluation")
  <2> DEFINE n == docs[d]["evaluation"]
  <2>1. n \in NestedBlocks(d)
    BY <1>1, <1>3 DEF Written
  <2>2. n.eval \in Budgets(d) /\ NestedEntries(docs[d]) \in Seq(Labelled)
    BY <2>1 DEF NestedBlocks, NestedEntries
  <2>3. NestedList(NestedEntries(docs[d])) \in Lists
    <3> DEFINE s == NestedEntries(docs[d])
    <3>1. \A i \in 1..Len(s) : Item(s[i].by, s[i].evaluator) \in Items
      <4> TAKE i \in 1..Len(s)
      <4>1. s[i] \in Labelled
        BY <2>2
      <4> HIDE DEF s
      <4> QED BY <4>1 DEF Item, Items, Labelled
    <3>2. [i \in 1..Len(s) |-> Item(s[i].by, s[i].evaluator)] \in Seq(Items)
      <4>1. Len(s) \in Nat
        BY <2>2
      <4> HIDE DEF s
      <4> QED BY <3>1, <4>1
    <3> QED BY <3>2 DEF NestedList, Lists
  <2>4. Labels(NestedEntries(docs[d])) \in Mappings
    BY <2>2, LabelsType
  <2> QED BY <1>1, <1>3, <2>2, <2>3, <2>4, DenestFacts DEF Written
<1> QED BY <1>2, <1>3

Merged == DeepMerge(Denest(docs["root"]),
                    Without(Denest(docs["tier"]), {"evaluations_remove"}))

LEMMA MergedFacts ==
    ASSUME NEW k, k # "evaluations_remove"
    PROVE  /\ Has(Merged, k) <=>
                Has(Denest(docs["root"]), k) \/ Has(Denest(docs["tier"]), k)
           /\ ~Has(Denest(docs["tier"]), k) /\ Has(Denest(docs["root"]), k) =>
                Merged[k] = Denest(docs["root"])[k]
           /\ Has(Denest(docs["tier"]), k) /\ ~Has(Denest(docs["root"]), k) =>
                Merged[k] = Denest(docs["tier"])[k]
           /\ /\ k \in {"eval", "rubric_mapping"}
              /\ Has(Denest(docs["tier"]), k) /\ Has(Denest(docs["root"]), k)
              => Merged[k] = Over(Denest(docs["tier"])[k], Denest(docs["root"])[k])
           /\ /\ k \notin {"eval", "rubric_mapping", "runtimes", "evaluations"}
              /\ Has(Denest(docs["tier"]), k) /\ Has(Denest(docs["root"]), k)
              => Merged[k] = Denest(docs["tier"])[k]
           /\ /\ k = "evaluations"
              /\ Has(Denest(docs["tier"]), k) /\ Has(Denest(docs["root"]), k)
              => Merged[k] =
                   IF /\ Denest(docs["tier"])[k].grouped
                      /\ Denest(docs["root"])[k].grouped
                   THEN [grouped |-> TRUE,
                         at |-> Over(Denest(docs["tier"])[k].at,
                                     Denest(docs["root"])[k].at)]
                   ELSE Denest(docs["tier"])[k]
<1> DEFINE b == Denest(docs["root"])
           t == Denest(docs["tier"])
           o == Without(t, {"evaluations_remove"})
<1>1. /\ Has(o, k) <=> Has(t, k)
      /\ Has(o, k) => o[k] = t[k]
  BY WithoutFacts
<1>2. /\ Has(Merged, k) <=> Has(b, k) \/ Has(o, k)
      /\ Has(Merged, k) =>
           Merged[k] =
             IF ~Has(o, k) THEN b[k]
             ELSE IF ~Has(b, k) THEN o[k]
             ELSE CASE k \in {"eval", "rubric_mapping"} -> Over(o[k], b[k])
                    [] k = "runtimes" /\ o[k] = NoModel -> b[k]
                    [] k = "evaluations" /\ o[k].grouped /\ b[k].grouped ->
                         [grouped |-> TRUE, at |-> Over(o[k].at, b[k].at)]
                    [] OTHER -> o[k]
  BY DEF Merged, DeepMerge, Has
<1> HIDE DEF b, t, o
<1>3. /\ Has(Merged, k) <=> Has(b, k) \/ Has(t, k)
      /\ ~Has(t, k) /\ Has(b, k) => Merged[k] = b[k]
      /\ Has(t, k) /\ ~Has(b, k) => Merged[k] = t[k]
      /\ k \in {"eval", "rubric_mapping"} /\ Has(t, k) /\ Has(b, k) =>
           Merged[k] = Over(t[k], b[k])
      /\ /\ k \notin {"eval", "rubric_mapping", "runtimes", "evaluations"}
         /\ Has(t, k) /\ Has(b, k)
         => Merged[k] = t[k]
      /\ k = "evaluations" /\ Has(t, k) /\ Has(b, k) =>
           Merged[k] = IF t[k].grouped /\ b[k].grouped
                       THEN [grouped |-> TRUE, at |-> Over(t[k].at, b[k].at)]
                       ELSE t[k]
  <2>1. ~Has(t, k) /\ Has(b, k) => Merged[k] = b[k]
    BY <1>1, <1>2
  <2>2. Has(t, k) /\ ~Has(b, k) => Merged[k] = t[k]
    BY <1>1, <1>2
  <2>3. ASSUME Has(t, k), Has(b, k)
        PROVE  Merged[k] =
                 CASE k \in {"eval", "rubric_mapping"} -> Over(t[k], b[k])
                    [] k = "runtimes" /\ t[k] = NoModel -> b[k]
                    [] k = "evaluations" /\ t[k].grouped /\ b[k].grouped ->
                         [grouped |-> TRUE, at |-> Over(t[k].at, b[k].at)]
                    [] OTHER -> t[k]
    BY <1>1, <1>2, <2>3
  <2> QED BY <1>1, <1>2, <2>1, <2>2, <2>3
<1> QED BY <1>3 DEF b, t

LEMMA DataFacts ==
    ASSUME NEW k, k # "evaluations"
    PROVE  /\ ~extends => Data = Denest(docs["tier"])
           /\ extends => /\ Has(Data, k) <=> Has(Merged, k)
                         /\ Has(Data, k) => Data[k] = Merged[k]
<1>1. \A m : /\ Has(RemoveNamed(m), k) <=> Has(m, k)
             /\ Has(m, k) => RemoveNamed(m)[k] = m[k]
  BY DEF RemoveNamed, With, Has
<1> QED BY <1>1 DEF Data, ApplyOverlay, Merged

(* What is loaded has the types of what was written.                       *)
LEMMA DataType ==
    ASSUME LoaderInv
    PROVE  /\ Has(Data, "evaluations") => Data["evaluations"] \in Lists
           /\ Has(Data, "rubric_mapping") => Data["rubric_mapping"] \in Mappings
<1>1. "root" \in Documents /\ "tier" \in Documents
  BY DEF Documents
<1> DEFINE b == Denest(docs["root"])
           t == Denest(docs["tier"])
<1>2. /\ Has(b, "evaluations") => b["evaluations"] \in Lists
      /\ Has(b, "rubric_mapping") => b["rubric_mapping"] \in Mappings
  BY <1>1, DenestType
<1>3. /\ Has(t, "evaluations") => t["evaluations"] \in Lists
      /\ Has(t, "rubric_mapping") => t["rubric_mapping"] \in Mappings
  BY <1>1, DenestType
<1>4. CASE ~extends
  BY <1>3, <1>4 DEF Data
<1>5. CASE extends
  <2>1. Has(Data, "rubric_mapping") => Data["rubric_mapping"] \in Mappings
    <3>1. ASSUME Has(Merged, "rubric_mapping") PROVE Merged["rubric_mapping"] \in Mappings
      <4>1. ASSUME Has(b, "rubric_mapping"), Has(t, "rubric_mapping")
            PROVE  Merged["rubric_mapping"] \in Mappings
        <5>1. Merged["rubric_mapping"] = Over(t["rubric_mapping"], b["rubric_mapping"])
          BY <4>1, MergedFacts
        <5> HIDE DEF b, t
        <5> QED BY <1>2, <1>3, <4>1, <5>1, OverDict DEF Mappings
      <4> QED BY <1>2, <1>3, <3>1, <4>1, MergedFacts
    <3> QED BY <1>5, <3>1, DataFacts
  <2>2. Has(Merged, "evaluations") => Merged["evaluations"] \in Lists
    <3> SUFFICES ASSUME Has(Merged, "evaluations")
                 PROVE  Merged["evaluations"] \in Lists
      OBVIOUS
    <3>1. ASSUME Has(b, "evaluations"), Has(t, "evaluations"),
                 b["evaluations"].grouped, t["evaluations"].grouped
          PROVE  Merged["evaluations"] \in Lists
      <4>1. Merged["evaluations"] =
              [grouped |-> TRUE,
               at |-> Over(t["evaluations"].at, b["evaluations"].at)]
        BY <3>1, MergedFacts
      <4> HIDE DEF b, t
      <4>2. /\ b["evaluations"].at \in Dicts(Range(Levels), Seq(Items))
            /\ t["evaluations"].at \in Dicts(Range(Levels), Seq(Items))
        BY <1>2, <1>3, <3>1 DEF Lists
      <4>3. Over(t["evaluations"].at, b["evaluations"].at)
              \in Dicts(Range(Levels), Seq(Items))
        BY <4>2, OverDict
      <4> QED BY <4>1, <4>3 DEF Lists
    <3>2. ASSUME Has(b, "evaluations"), Has(t, "evaluations"),
                 ~(b["evaluations"].grouped /\ t["evaluations"].grouped)
          PROVE  Merged["evaluations"] \in Lists
      <4>1. Merged["evaluations"] = t["evaluations"]
        BY <3>2, MergedFacts
      <4> QED BY <1>3, <3>2, <4>1
    <3>3. ASSUME Has(b, "evaluations"), ~Has(t, "evaluations")
          PROVE  Merged["evaluations"] \in Lists
      BY <1>2, <3>3, MergedFacts
    <3>4. ASSUME ~Has(b, "evaluations")
          PROVE  Merged["evaluations"] \in Lists
      BY <1>3, <3>4, MergedFacts
    <3> QED BY <3>1, <3>2, <3>3, <3>4
  <2>3. NoList \in Lists
    BY DEF NoList, Lists
  <2>4. Has(Data, "evaluations") => Data["evaluations"] \in Lists
    <3>1. CASE ~Has(docs["tier"], "evaluations_remove")
      BY <1>5, <2>2, <3>1 DEF Data, ApplyOverlay, Merged
    <3>2. CASE Has(docs["tier"], "evaluations_remove")
      <4>1. Data = RemoveNamed(Merged)
        BY <1>5, <3>2 DEF Data, ApplyOverlay, Merged
      <4>2. Get(Merged, "evaluations", NoList) \in Lists
        BY <2>2, <2>3 DEF Get
      <4>3. RemoveNamed(Merged)["evaluations"] \in Lists
        BY <2>3, <4>2 DEF RemoveNamed, With
      <4> QED BY <4>1, <4>3
    <3> QED BY <3>1, <3>2
  <2> QED BY <2>1, <2>4
<1> QED BY <1>4, <1>5

LEMMA RawType ==
    ASSUME LoaderInv
    PROVE  /\ Has(Raw, "evaluations") => Raw["evaluations"] \in Lists
           /\ Has(Raw, "rubric_mapping") => Raw["rubric_mapping"] \in Mappings
<1>1. Written("sibling")
  BY DEF LoaderInv, Documents
<1> DEFINE w == With(docs["sibling"], "rubric_mapping", Data["rubric_mapping"])
<1>2. /\ Has(w, "evaluations") <=> Has(docs["sibling"], "evaluations")
      /\ Has(w, "evaluations") => w["evaluations"] = docs["sibling"]["evaluations"]
      /\ w["rubric_mapping"] = Data["rubric_mapping"]
  BY DEF With, Has
<1>3. Raw = IF Has(Data, "evaluations") THEN Data
            ELSE IF Has(Data, "rubric_mapping") THEN w ELSE docs["sibling"]
  BY DEF Raw
<1> HIDE DEF w
<1>4. CASE Has(Data, "evaluations")
  BY <1>3, <1>4, DataType
<1>5. CASE ~Has(Data, "evaluations")
  BY <1>1, <1>2, <1>3, <1>5, DataType DEF Written
<1> QED BY <1>4, <1>5

(* The items of a list, however it is written.                             *)
ItemsOf(v) ==
    IF v.grouped THEN UNION {Range(v.at[l]) : l \in DOMAIN v.at} ELSE Range(v.at)

(* Each evaluator of a list has an entry, the grouped form too.            *)
LEMMA EntriesNames ==
    ASSUME NEW v \in Lists
    PROVE  {x.evaluator : x \in Entries(v)} = {x.evaluator : x \in ItemsOf(v)}
<1>1. CASE ~v.grouped
  BY <1>1 DEF Entries, ItemsOf
<1>2. CASE v.grouped
  <2>1. v \in [grouped : {TRUE}, at : Dicts(Range(Levels), Seq(Items))]
    BY <1>2 DEF Lists
  <2>2. PICK K \in SUBSET Range(Levels) : v.at \in [K -> Seq(Items)]
    BY <2>1 DEF Dicts
  <2> DEFINE Tier(i) == Get(v.at, Levels[i], <<>>)
             all == Tier(1) \o Tier(2) \o Tier(3)
             first == {j \in 1..Len(all) : \A k \in 1..(j - 1) :
                          all[k].evaluator # all[j].evaluator}
  <2>3. Entries(v) = {all[i] : i \in first}
    BY <1>2 DEF Entries
  <2>4. Tier(1) \in Seq(Items) /\ Tier(2) \in Seq(Items) /\ Tier(3) \in Seq(Items)
    BY <2>2 DEF Get, Has
  <2>5. Range(all) = Range(Tier(1)) \cup Range(Tier(2)) \cup Range(Tier(3))
    <3> HIDE DEF Tier
    <3>1. \A s, t \in Seq(Items) : Range(s \o t) = Range(s) \cup Range(t)
      <4> TAKE s, t \in Seq(Items)
      <4>1. DOMAIN (s \o t) = 1..Len(s \o t) /\ DOMAIN s = 1..Len(s)
              /\ DOMAIN t = 1..Len(t) /\ Len(s \o t) = Len(s) + Len(t)
        OBVIOUS
      <4>2. \A i \in 1..Len(s \o t) :
               \/ i \in 1..Len(s) /\ (s \o t)[i] = s[i]
               \/ i - Len(s) \in 1..Len(t) /\ (s \o t)[i] = t[i - Len(s)]
        OBVIOUS
      <4>3. \A i \in 1..Len(s) : i \in 1..Len(s \o t) /\ (s \o t)[i] = s[i]
        OBVIOUS
      <4>4. \A i \in 1..Len(t) : /\ Len(s) + i \in 1..Len(s \o t)
                                 /\ (s \o t)[Len(s) + i] = t[i]
        OBVIOUS
      <4>5. ASSUME NEW x \in Range(s \o t) PROVE x \in Range(s) \cup Range(t)
        <5>1. PICK i \in 1..Len(s \o t) : x = (s \o t)[i]
          BY <4>1 DEF Range
        <5> QED BY <4>1, <4>2, <5>1 DEF Range
      <4>6. ASSUME NEW x \in Range(s) PROVE x \in Range(s \o t)
        <5>1. PICK i \in 1..Len(s) : x = s[i]
          BY <4>1, <4>6 DEF Range
        <5> QED BY <4>1, <4>3, <5>1 DEF Range
      <4>7. ASSUME NEW x \in Range(t) PROVE x \in Range(s \o t)
        <5>1. PICK i \in 1..Len(t) : x = t[i]
          BY <4>1, <4>7 DEF Range
        <5> QED BY <4>1, <4>4, <5>1 DEF Range
      <4> QED BY <4>5, <4>6, <4>7
    <3>2. Tier(1) \o Tier(2) \in Seq(Items)
      BY <2>4
    <3> QED BY <2>4, <3>1, <3>2
  <2>6. \A l : l \in Range(Levels) <=> \E i \in 1..3 : l = Levels[i]
    BY DEF Levels, Range
  <2>7. Range(all) = ItemsOf(v)
    <3>1. \A i \in 1..3 : Range(Tier(i)) = IF Levels[i] \in K
                                         THEN Range(v.at[Levels[i]]) ELSE {}
      BY <2>2 DEF Get, Has, Range
    <3>2. ItemsOf(v) = UNION {Range(v.at[l]) : l \in K}
      BY <1>2, <2>2 DEF ItemsOf
    <3>3. \A x : x \in ItemsOf(v) <=> \E i \in 1..3 : x \in Range(Tier(i))
      <4> HIDE DEF Tier
      <4> QED BY <2>6, <3>1, <3>2
    <3> HIDE DEF Tier, all
    <3> QED BY <2>5, <3>3
  <2>8. all \in Seq(Items)
    <3> HIDE DEF Tier
    <3> QED BY <2>4
  <2>9. \A i \in 1..Len(all) : \E j \in first : all[j].evaluator = all[i].evaluator
    <3> TAKE i \in 1..Len(all)
    <3> DEFINE Same == {j \in 1..Len(all) : all[j].evaluator = all[i].evaluator}
    <3> HIDE DEF all
    <3>1. Same \in SUBSET Nat /\ Same # {}
      BY <2>8
    <3>2. PICK j \in Same : \A k \in Same : j <= k
      <4> HIDE DEF Same
      <4> QED BY <3>1, LeastNat
    <3>3. \A k \in 1..(j - 1) : k \in 1..Len(all) /\ k \notin Same
      BY <2>8, <3>2
    <3> QED BY <3>2, <3>3
  <2>10. Range(all) = {all[i] : i \in 1..Len(all)} /\ first \subseteq 1..Len(all)
    <3> HIDE DEF all
    <3> QED BY <2>8 DEF Range
  <2> HIDE DEF Tier, all, first
  <2>11. \A i \in first : all[i] \in ItemsOf(v)
    BY <2>7, <2>10
  <2>12. \A x \in ItemsOf(v) : \E j \in first : all[j].evaluator = x.evaluator
    <3> TAKE x \in ItemsOf(v)
    <3>1. PICK i \in 1..Len(all) : x = all[i]
      BY <2>7, <2>10
    <3> QED BY <2>9, <3>1
  <2> QED BY <2>3, <2>11, <2>12
<1> QED BY <1>1, <1>2

(* No label is lost: a list that is grouped gives each of its evaluators a *)
(* word.                                                                   *)
LEMMA TierWordsFacts ==
    ASSUME NEW v \in Lists, NEW e \in {x.evaluator : x \in Entries(v)}, v.grouped
    PROVE  /\ e \in DOMAIN TierWords(v)
           /\ TierWords(v)[e] # {} /\ TierWords(v)[e] \subseteq Words
<1>1. v \in [grouped : {TRUE}, at : Dicts(Range(Levels), Seq(Items))]
  BY DEF Lists
<1>2. PICK K \in SUBSET Range(Levels) : v.at \in [K -> Seq(Items)]
  BY <1>1 DEF Dicts
<1> DEFINE at(x) == {k \in DOMAIN v.at : \E i \in Range(v.at[k]) : i.evaluator = x}
<1>3. /\ e \in DOMAIN TierWords(v)
      /\ TierWords(v)[e] = {WordOf[l] : l \in at(e)}
  BY DEF TierWords
<1>4. \E x \in ItemsOf(v) : x.evaluator = e
  BY EntriesNames
<1>5. at(e) # {} /\ at(e) \subseteq Range(Levels)
  BY <1>2, <1>4 DEF ItemsOf
<1>6. \A l \in Range(Levels) : WordOf[l] \in Words
  BY DEF WordOf, Words
<1> HIDE DEF at
<1> QED BY <1>3, <1>5, <1>6

LEMMA KeptLabels ==
    ASSUME NEW m \in Mappings, NEW e, Has(Known(m), e)
    PROVE  Known(m)[e] \cap Words # {}
<1>1. PICK K \in SUBSET Evaluators : m \in [K -> Rubrics]
  BY DEF Mappings, Dicts
<1>2. e \in K /\ m[e] # {} /\ Known(m)[e] = m[e]
  BY <1>1 DEF Known, Without, Has
<1>3. m[e] \in Rubrics
  BY <1>1, <1>2
<1> QED BY <1>2, <1>3 DEF Rubrics, Words

(* NoneDropped, for any documents of any evaluators.                       *)
LEMMA RanIsInSummary == LoaderInv => NoneDropped
<1> SUFFICES ASSUME LoaderInv PROVE NoneDropped
  OBVIOUS
<1> DEFINE ran == {x.evaluator : x \in Evaluations}
           labels == RubricMapping
<1>1. ASSUME NEW e \in ran
      PROVE  Get(labels, e, {"outcome"}) \cap Words # {}
  <2>1. CASE ~Has(labels, e)
    BY <2>1 DEF Get, Words
  <2>2. CASE Has(labels, e)
    <3>1. Has(Raw, "evaluations")
      BY <2>2, NothingInEmpty DEF RubricMapping
    <3> DEFINE v == Raw["evaluations"]
               m == Get(Raw, "rubric_mapping", Empty)
    <3>2. v \in Lists /\ m \in Mappings
      BY <3>1, RawType, EmptyDict DEF Get, Mappings
    <3>3. labels = Over(Known(m), TierWords(v))
      BY <3>1 DEF RubricMapping
    <3>4. Evaluations = Entries(v)
      BY <3>1 DEF Evaluations, Get
    <3> HIDE DEF v, m, labels
    <3>5. CASE Has(Known(m), e)
      BY <2>2, <3>2, <3>3, <3>5, KeptLabels, OverFacts DEF Get
    <3>6. CASE ~Has(Known(m), e)
      <4>1. Has(TierWords(v), e) /\ labels[e] = TierWords(v)[e]
        BY <2>2, <3>3, <3>6, OverFacts
      <4>2. v.grouped
        BY <4>1, NothingInEmpty DEF TierWords
      <4>3. labels[e] # {} /\ labels[e] \subseteq Words
        BY <3>2, <3>4, <4>1, <4>2, TierWordsFacts
      <4> QED BY <2>2, <4>3 DEF Get
    <3> QED BY <3>5, <3>6
  <2> QED BY <2>1, <2>2
<1>2. UNION Range(Buckets) =
        {e \in ran : Get(labels, e, {"outcome"}) \cap Words # {}}
  <2>1. Buckets = [word \in Words |-> {e \in ran : word \in Get(labels, e, {"outcome"})}]
    BY DEF Buckets
  <2> HIDE DEF ran, labels
  <2> QED BY <2>1 DEF Range
<1> HIDE DEF labels
<1> QED BY <1>1, <1>2 DEF NoneDropped

(* Whose evaluators and whose budget count.                                *)
LEMMA DenestDeclares ==
    ASSUME LoaderInv, NEW d \in Documents
    PROVE  /\ Has(Denest(docs[d]), "evaluations") <=> Declares(d)
           /\ Declares(d) => {x.evaluator : x \in ItemsOf(Denest(docs[d])["evaluations"])}
                               = {x.evaluator : x \in DeclaredBy(d)}
<1>1. Written(d)
  BY DEF LoaderInv
<1> DEFINE doc == docs[d]
<1>2. CASE Has(doc, "evaluations")
  <2>1. Has(Denest(doc), "evaluations") /\ Denest(doc)["evaluations"] = doc["evaluations"]
    BY <1>2, DenestFacts
  <2>2. ItemsOf(doc["evaluations"]) = DeclaredBy(d)
    BY <1>2 DEF ItemsOf, DeclaredBy, Get
  <2> QED BY <1>2, <2>1, <2>2 DEF Declares
<1>3. CASE ~Has(doc, "evaluations") /\ ~Has(doc, "evaluation")
  BY <1>3, DenestFacts DEF Declares, Get, NoNested
<1>4. CASE ~Has(doc, "evaluations") /\ Has(doc, "evaluation")
  <2> DEFINE s == NestedEntries(doc)
  <2>1. Declares(d) <=> s # <<>>
    BY <1>4 DEF Declares, Get, NestedEntries
  <2>2. Has(Denest(doc), "evaluations") <=> s # <<>>
    BY <1>4, DenestFacts
  <2>3. DeclaredBy(d) = {Item(x.by, x.evaluator) : x \in Range(s)}
    BY <1>4 DEF DeclaredBy, Get, NestedEntries, NoList
  <2>4. ASSUME s # <<>>
        PROVE  ItemsOf(Denest(doc)["evaluations"]) = DeclaredBy(d)
    <3>1. Denest(doc)["evaluations"] = NestedList(s)
      BY <1>4, <2>2, <2>4, DenestFacts
    <3>2. s \in Seq(Labelled)
      BY <1>1, <1>4 DEF Written, NestedBlocks, NestedEntries
    <3> HIDE DEF s
    <3>3. Range(s) = {s[i] : i \in 1..Len(s)}
      BY <3>2 DEF Range
    <3>4. ItemsOf(NestedList(s)) = {Item(s[i].by, s[i].evaluator) : i \in 1..Len(s)}
      BY DEF ItemsOf, NestedList, Range
    <3> QED BY <2>3, <3>1, <3>3, <3>4
  <2> QED BY <2>1, <2>2, <2>4
<1> QED BY <1>2, <1>3, <1>4

LEMMA NestedListsAreFlat ==
    ASSUME LoaderInv, NEW d \in Documents, Has(Denest(docs[d]), "evaluations"),
           Denest(docs[d])["evaluations"].grouped
    PROVE  Get(docs[d], "evaluations", NoList).grouped
<1>1. CASE Has(docs[d], "evaluations")
  BY <1>1, DenestFacts DEF Get
<1>2. CASE ~Has(docs[d], "evaluations")
  <2>1. Has(docs[d], "evaluation")
    BY <1>2, DenestFacts
  <2>2. Denest(docs[d])["evaluations"] = NestedList(NestedEntries(docs[d]))
    BY <1>2, <2>1, DenestFacts
  <2> QED BY <2>2 DEF NestedList
<1> QED BY <1>1, <1>2

LEMMA TierDecides == LoaderInv => TierHasTheSay
<1> SUFFICES ASSUME LoaderInv PROVE TierHasTheSay
  OBVIOUS
<1>1. "root" \in Documents /\ "tier" \in Documents /\ "sibling" \in Documents
  BY DEF Documents
<1> DEFINE tier == docs["tier"]
           b == Denest(docs["root"])
           t == Denest(docs["tier"])
           joined == extends /\ \A d \in Yamls :
                                   Get(docs[d], "evaluations", NoList).grouped
           declared == IF Declares("tier") THEN DeclaredBy("tier")
                       ELSE IF extends /\ Declares("root") THEN DeclaredBy("root")
                       ELSE DeclaredBy("sibling")
<1>2. ASSUME ~joined, ~Has(tier, "evaluations_remove")
      PROVE  {x.evaluator : x \in Evaluations} = {x.evaluator : x \in declared}
  <2>1. Data = IF extends THEN Merged ELSE t
    BY <1>2 DEF Data, ApplyOverlay, Merged
  <2>2. CASE Declares("tier")
    <3>1. Has(t, "evaluations")
      BY <1>1, <2>2, DenestDeclares
    <3>2. Has(Data, "evaluations") /\ Data["evaluations"] = t["evaluations"]
      <4>1. CASE ~extends
        BY <2>1, <3>1, <4>1
      <4>2. CASE extends /\ ~Has(b, "evaluations")
        BY <2>1, <3>1, <4>2, MergedFacts
      <4>3. CASE extends /\ Has(b, "evaluations")
        <5>1. ~(t["evaluations"].grouped /\ b["evaluations"].grouped)
          BY <1>1, <1>2, <3>1, <4>3, NestedListsAreFlat DEF Yamls
        <5> QED BY <2>1, <3>1, <4>3, <5>1, MergedFacts
      <4> QED BY <4>1, <4>2, <4>3
    <3>3. Evaluations = Entries(t["evaluations"])
      BY <3>2 DEF Evaluations, Raw, Get
    <3>4. t["evaluations"] \in Lists
      BY <1>1, <3>1, DenestType
    <3>5. {x.evaluator : x \in ItemsOf(t["evaluations"])}
            = {x.evaluator : x \in DeclaredBy("tier")}
      BY <1>1, <2>2, DenestDeclares
    <3> QED BY <2>2, <3>3, <3>4, <3>5, EntriesNames
  <2>3. CASE ~Declares("tier") /\ extends /\ Declares("root")
    <3>1. Has(b, "evaluations") /\ ~Has(t, "evaluations")
      BY <1>1, <2>3, DenestDeclares
    <3>2. Has(Data, "evaluations") /\ Data["evaluations"] = b["evaluations"]
      BY <2>1, <2>3, <3>1, MergedFacts
    <3>3. Evaluations = Entries(b["evaluations"])
      BY <3>2 DEF Evaluations, Raw, Get
    <3>4. b["evaluations"] \in Lists
      BY <1>1, <3>1, DenestType
    <3>5. {x.evaluator : x \in ItemsOf(b["evaluations"])}
            = {x.evaluator : x \in DeclaredBy("root")}
      BY <1>1, <2>3, DenestDeclares
    <3> QED BY <2>3, <3>3, <3>4, <3>5, EntriesNames
  <2>4. CASE ~Declares("tier") /\ ~(extends /\ Declares("root"))
    <3>1. ~Has(Data, "evaluations")
      <4>1. ~Has(t, "evaluations")
        BY <1>1, <2>4, DenestDeclares
      <4>2. extends => ~Has(b, "evaluations")
        BY <1>1, <2>4, DenestDeclares
      <4> QED BY <2>1, <4>1, <4>2, MergedFacts
    <3> DEFINE doc == docs["sibling"]
    <3>2. /\ Has(Raw, "evaluations") <=> Has(doc, "evaluations")
          /\ Has(doc, "evaluations") => Raw["evaluations"] = doc["evaluations"]
      BY <3>1 DEF Raw, With, Has
    <3>3. Written("sibling") /\ ~Has(doc, "evaluation")
      BY <1>1 DEF LoaderInv, Written
    <3>4. CASE Has(doc, "evaluations")
      <4>1. Evaluations = Entries(doc["evaluations"])
        BY <3>2, <3>4 DEF Evaluations, Get
      <4>2. doc["evaluations"] \in Lists
        BY <3>3, <3>4 DEF Written
      <4>3. DeclaredBy("sibling") = ItemsOf(doc["evaluations"])
        BY <3>4 DEF DeclaredBy, ItemsOf, Get
      <4> QED BY <2>4, <4>1, <4>2, <4>3, EntriesNames
    <3>5. CASE ~Has(doc, "evaluations")
      <4>1. Evaluations = {}
        <5>1. Evaluations = Entries(NoList)
          BY <3>2, <3>5 DEF Evaluations, Get
        <5>2. Entries(NoList) = Range(<<>>)
          BY DEF NoList, Entries
        <5>3. Range(<<>>) = {}
          BY DEF Range
        <5> QED BY <5>1, <5>2, <5>3
      <4>2. DeclaredBy("sibling") = {}
        BY <3>3, <3>5 DEF DeclaredBy, Get, NoList, NoNested, Range
      <4> QED BY <2>4, <4>1, <4>2
    <3> QED BY <3>4, <3>5
  <2> QED BY <2>2, <2>3, <2>4
<1>3. ASSUME NEW k \in {"metric", "max_submissions"},
             \/ Has(tier, "eval") /\ Has(tier["eval"], k)
             \/ /\ ~Has(tier, "eval") /\ Has(tier, "evaluation")
                /\ Has(tier["evaluation"].eval, k)
      PROVE  Get(Get(Data, "eval", Empty), k, "nobody") = "tier"
  <2>1. Has(t, "eval") /\ Has(t["eval"], k)
    <3>1. CASE Has(tier, "eval") /\ Has(tier["eval"], k)
      BY <3>1, DenestFacts
    <3>2. CASE /\ ~Has(tier, "eval") /\ Has(tier, "evaluation")
               /\ Has(tier["evaluation"].eval, k)
      <4>1. tier["evaluation"].eval # Empty
        BY <3>2, NothingInEmpty
      <4> QED BY <3>2, <4>1, DenestFacts
    <3> QED BY <1>3, <3>1, <3>2
  <2>2. t["eval"][k] = "tier"
    <3>1. t["eval"] \in Budgets("tier")
      BY <1>1, <2>1, DenestType
    <3>2. PICK K \in SUBSET {"metric", "max_submissions"} : t["eval"] \in [K -> {"tier"}]
      BY <3>1 DEF Budgets, Dicts
    <3> HIDE DEF t
    <3> QED BY <2>1, <3>2 DEF Has
  <2>3. Has(Data, "eval") /\ Has(Data["eval"], k) /\ Data["eval"][k] = "tier"
    <3>1. CASE ~extends
      BY <2>1, <2>2, <3>1, DataFacts
    <3>2. CASE extends
      <4>1. Has(Merged, "eval") /\ Has(Merged["eval"], k)
            /\ Merged["eval"][k] = "tier"
        <5>1. CASE Has(b, "eval")
          <6>1. Merged["eval"] = Over(t["eval"], b["eval"])
            BY <2>1, <5>1, MergedFacts
          <6>2. /\ Over(t["eval"], b["eval"])[k] = t["eval"][k]
                /\ Has(Over(t["eval"], b["eval"]), k)
            BY <2>1, OverFacts
          <6> QED BY <2>1, <2>2, <6>1, <6>2, MergedFacts
        <5>2. CASE ~Has(b, "eval")
          BY <2>1, <2>2, <5>2, MergedFacts
        <5> QED BY <5>1, <5>2
      <4> QED BY <3>2, <4>1, DataFacts
    <3> QED BY <3>1, <3>2
  <2> QED BY <2>3 DEF Get
<1> HIDE DEF joined, declared
<1> QED BY <1>2, <1>3 DEF TierHasTheSay, joined, declared

LEMMA ModesFit == ModesAgree
<1> SUFFICES ASSUME ~Refused(Data) PROVE
       LET data == Data
           inSim == AgentImageMode(data) = "simulator_centric"
       IN /\ inSim <=> (Profile(data) = "sim_dev_env")
          /\ inSim => StarterVisibility(data) = "none"
          /\ \A d \in Yamls : "bogus" = Get(docs[d], "agent_image_mode", "none") =>
                d = "root" /\ Has(docs["tier"], "agent_image_mode")
  BY DEF ModesAgree
<1>1. (AgentImageMode(Data) = "simulator_centric") <=> (Profile(Data) = "sim_dev_env")
  BY DEF AgentImageMode, Profile, Get
<1>2. AgentImageMode(Data) = "simulator_centric" => StarterVisibility(Data) = "none"
  BY DEF StarterVisibility
<1> DEFINE key == "agent_image_mode"
<1>3. key \notin NestedKeys /\ key # "evaluation" /\ key # "evaluations"
        /\ key \notin {"eval", "rubric_mapping", "runtimes", "evaluations"}
        /\ key # "evaluations_remove"
  BY DEF NestedKeys
<1> HIDE DEF key
<1>4. \A d : /\ Has(Denest(d), key) <=> Has(d, key)
             /\ Has(d, key) => Denest(d)[key] = d[key]
  BY <1>3, DenestFacts
<1>5. /\ Has(docs["tier"], key) => Has(Data, key) /\ Data[key] = docs["tier"][key]
      /\ extends /\ ~Has(docs["tier"], key) /\ Has(docs["root"], key) =>
           Has(Data, key) /\ Data[key] = docs["root"][key]
  <2>1. CASE ~extends
    BY <1>3, <1>4, <2>1, DataFacts
  <2>2. CASE extends
    <3>1. /\ Has(docs["tier"], key) => Has(Merged, key) /\ Merged[key] = docs["tier"][key]
          /\ ~Has(docs["tier"], key) /\ Has(docs["root"], key) =>
               Has(Merged, key) /\ Merged[key] = docs["root"][key]
      BY <1>3, <1>4, MergedFacts
    <3> QED BY <1>3, <2>2, <3>1, DataFacts
  <2> QED BY <2>1, <2>2
<1>6. ASSUME NEW d \in Yamls, "bogus" = Get(docs[d], key, "none")
      PROVE  d = "root" /\ Has(docs["tier"], key)
  <2>1. Has(Data, key) => Data[key] # "bogus"
    BY DEF Refused, AgentImageMode, Get, key
  <2>2. Has(docs[d], key) /\ docs[d][key] = "bogus"
    BY <1>6 DEF Get
  <2>3. d \in {"root", "tier"} /\ (d = "root" => extends)
    BY DEF Yamls
  <2> QED BY <1>5, <2>1, <2>2, <2>3
<1> QED BY <1>1, <1>2, <1>6 DEF key

LEMMA TiersFit == TiersAreComparable
<1> SUFFICES ASSUME "assisted" \in tree, NEW tier \in {"L1", "L2", "L3"}
             PROVE  /\ SharedDirs(tier) = SharedDirs("L1")
                    /\ tier # "L1" => StarterDir(tier) \notin
                              {ReferenceDir, "starter/baseline_assisted"}
  BY DEF TiersAreComparable
<1>1. IsFamily(tier) /\ IsFamily("L1")
  BY DEF IsFamily
<1>2. tier # "L1" => StarterDir(tier) \in {"starter/template", "starter"}
  BY DEF StarterDir
<1>3. ReferenceDir \in {"baseline/one_shot", "assisted/L1/starter", "none"}
  BY DEF ReferenceDir
<1> QED BY <1>1, <1>2, <1>3 DEF SharedDirs

(* However base, overlay and legacy keys mix, what is loaded fits together.*)
THEOREM LoadsConsistently == LoaderSpec => []LoadedIsConsistent
BY ModesFit, TiersFit, PTL DEF LoadedIsConsistent

(* Whatever card, challenge and command line say, a session runs a model   *)
(* its runtime may run.                                                    *)
LEMMA TermsHold == RunsOnItsTerms
<1> SUFFICES ASSUME ~Refused(Data), NEW option \in Models \cup {NoModel},
                    NEW thinking \in BOOLEAN,
                    RunModel(Runtime(Data), option, thinking) # NoModel
             PROVE  IF card.exists /\ card.public /\ card.type = "bundled"
                    THEN RunModel(Runtime(Data), option, thinking) \in card.allowed
                    ELSE RunModel(Runtime(Data), option, thinking) \in Routed
  BY DEF RunsOnItsTerms
<1> DEFINE rt == Runtime(Data)
           model == RunModel(rt, option, thinking)
           bundled == card.exists /\ card.public /\ card.type = "bundled"
<1>1. Allows(rt, option, model)
  <2>1. model # NoModel
    OBVIOUS
  <2> HIDE DEF rt
  <2> QED BY <2>1 DEF RunModel
<1>2. /\ rt.type = (IF bundled THEN "bundled" ELSE "byo_model")
      /\ rt.allowed = IF bundled THEN card.allowed ELSE {}
  BY DEF Runtime, CardCounts
<1>3. bundled => card.allowed # {}
  BY DEF Refused, BadCard, CardCounts
<1> HIDE DEF rt, model
<1>4. bundled => model \in card.allowed
  BY <1>1, <1>2, <1>3 DEF Allows
<1>5. ~bundled => model \in Routed
  BY <1>1, <1>2 DEF Allows
<1> QED BY <1>4, <1>5 DEF rt, model

(* A session runs a model its bundled card allows, or else one that has a  *)
(* route (run_session, before anything is started), for any cards, any     *)
(* blocks of a challenge and any options.                                  *)
THEOREM BundledOnItsTerms == LoaderSpec => []RunsOnItsTerms
BY TermsHold, PTL

(* TierHasTheSay, for any documents an author can write in any number of   *)
(* edits.                                                                  *)
THEOREM TierOverridesRoot == LoaderSpec => []TierHasTheSay
BY LoaderInitInv, LoaderNextInv, TierDecides, PTL DEF LoaderSpec

(* NoneDropped, likewise.                                                  *)
THEOREM SummaryNamesAll == LoaderSpec => []NoneDropped
BY LoaderInitInv, LoaderNextInv, RanIsInSummary, PTL DEF LoaderSpec

-----------------------------------------------------------------------------
(* Where a saved image is found                                            *)

(* save writes where load looks first.                                     *)
LEMMA SavePlaceIsFirst ==
    /\ Candidates \in Seq(TarPlaces) /\ Len(Candidates) >= 1
    /\ Candidates[1] = SavePlace
<1>1. TarDirs = 1..(1 + LegacyDirs) /\ 1 + LegacyDirs \in Nat \ {0}
  BY ManagementAssumption DEF TarDirs
<1> DEFINE slug == [d \in TarDirs |-> <<"slug", d>>]
           flat == [d \in TarDirs |-> <<"flat", d>>]
<1>2. slug \in Seq(TarPlaces) /\ flat \in Seq(TarPlaces)
  <2>1. \A d \in TarDirs : <<"slug", d>> \in TarPlaces /\ <<"flat", d>> \in TarPlaces
    BY DEF TarPlaces
  <2> QED BY <1>1, <2>1
<1>3. Len(slug) = 1 + LegacyDirs /\ slug[1] = <<"slug", 1>>
  BY <1>1
<1>4. Candidates = slug \o flat
  BY DEF Candidates
<1> HIDE DEF slug, flat
<1> QED BY <1>1, <1>2, <1>3, <1>4 DEF SavePlace

(* The first place that has a tarball is the one it is found at.           *)
LEMMA FoundFirst ==
    ASSUME NEW i, pool[i][SavePlace] # None
    PROVE  Found(i) = pool[i][SavePlace]
<1> DEFINE there == {n \in 1..Len(Candidates) : pool[i][Candidates[n]] # None}
<1>1. 1 \in there /\ there \in SUBSET Nat
  BY SavePlaceIsFirst
<1>2. Min(there) = 1
  <2>1. Min(there) \in there /\ Min(there) <= 1
    <3> HIDE DEF there
    <3> QED BY <1>1, MinOfNumbers
  <2> QED BY <2>1
<1> QED BY <1>1, <1>2, SavePlaceIsFirst DEF Found

-----------------------------------------------------------------------------
(* The order of the targets                                                *)

(* No image is combined of a later one, nor there twice.                   *)
Spread(s) == \A m, n \in 1..Len(s) : n < m => Apart(s[n], s[m])

(* One sequence after another is spread if the parts of the first are not   *)
(* in the second.                                                          *)
LEMMA SpreadAppend ==
    ASSUME NEW S, NEW s \in Seq(S), NEW t \in Seq(S), Spread(s), Spread(t),
           \A i \in Range(s), j \in Range(t) : Apart(i, j)
    PROVE  /\ Spread(s \o t)
           /\ Range(s \o t) \subseteq Range(s) \cup Range(t)
<1>1. \A n \in 1..Len(s \o t) :
         \/ n \in 1..Len(s) /\ (s \o t)[n] = s[n]
         \/ /\ n > Len(s) /\ n - Len(s) \in 1..Len(t)
            /\ (s \o t)[n] = t[n - Len(s)]
  OBVIOUS
<1>2. DOMAIN (s \o t) = 1..Len(s \o t) /\ DOMAIN s = 1..Len(s) /\ DOMAIN t = 1..Len(t)
  OBVIOUS
<1>3. ASSUME NEW m \in 1..Len(s \o t), NEW n \in 1..Len(s \o t), n < m
      PROVE  Apart((s \o t)[n], (s \o t)[m])
  <2>1. CASE m \in 1..Len(s)
    BY <1>1, <1>3, <2>1 DEF Spread
  <2>2. CASE m \notin 1..Len(s) /\ n \in 1..Len(s)
    <3>1. (s \o t)[n] \in Range(s)
      BY <1>1, <1>2, <2>2 DEF Range
    <3>2. (s \o t)[m] \in Range(t)
      BY <1>1, <1>2, <2>2 DEF Range
    <3> QED BY <3>1, <3>2
  <2>3. CASE m \notin 1..Len(s) /\ n \notin 1..Len(s)
    BY <1>1, <1>3, <2>3 DEF Spread
  <2> QED BY <2>1, <2>2, <2>3
<1>4. Range(s \o t) \subseteq Range(s) \cup Range(t)
  BY <1>1, <1>2 DEF Range
<1> QED BY <1>3, <1>4 DEF Spread

(* What `all` builds.                                                      *)
LEMMA OrderIsSpread ==
    ASSUME NEW ks \in Seq(Range(Categories)),
           \A m, n \in 1..Len(ks) :
              n < m => \A i \in Range(Keys[ks[n]]), j \in Range(Keys[ks[m]]) :
                          Apart(i, j)
    PROVE  Order(ks) \in Seq(Images) /\ Spread(Order(ks))
<1> DEFINE seqs == [n \in 1..Len(ks) |-> Keys[ks[n]]]
           Upto(i) == UNION {Range(seqs[a]) : a \in 1..i}
           P(s, i) == s \in Seq(Images) /\ Range(s) \subseteq Upto(i) /\ Spread(s)
<1>1. ASSUME NEW n \in 1..Len(ks)
      PROVE  seqs[n] \in Seq(Images) /\ Spread(seqs[n])
  <2>1. ks[n] \in Range(Categories) /\ ks[n] \in DOMAIN Keys
    BY OrderAssumption DEF Range
  <2>2. /\ Keys[ks[n]] \in Seq(Range(Keys[ks[n]])) /\ Spread(Keys[ks[n]])
        /\ Range(Keys[ks[n]]) \subseteq Images
    BY <2>1, OrderAssumption DEF Spread, Images
  <2> QED BY <2>2
<1>2. seqs \in Seq(Seq(Images)) /\ Len(seqs) = Len(ks)
  BY <1>1
<1>3. CASE Len(ks) = 0
  <2>1. Order(ks) = seqs /\ seqs = <<>>
    BY <1>2, <1>3 DEF Order, FlattenSeq
  <2> QED BY <2>1 DEF Spread
<1>4. CASE Len(ks) > 0
  <2>1. PICK f : /\ f[1] = seqs[1]
                 /\ \A i \in 2..Len(ks) : f[i] = f[i - 1] \o seqs[i]
                 /\ FlattenSeq(seqs) = f[Len(ks)]
    <3> HIDE DEF seqs
    <3> QED BY <1>2, <1>4, Flattened
  <2> DEFINE Good == {i \in Nat : i + 1 \in 1..Len(ks) => P(f[i + 1], i + 1)}
  <2>2. 0 \in Good
    <3>1. Range(seqs[1]) \subseteq Upto(1) /\ 1 \in 1..Len(ks)
      BY <1>4
    <3> QED BY <1>1, <2>1, <3>1
  <2>3. ASSUME NEW i \in Nat, i \in Good PROVE i + 1 \in Good
    <3>0. i + 1 \in Nat /\ (i + 1) + 1 = i + 2
      OBVIOUS
    <3> SUFFICES ASSUME i + 2 \in 1..Len(ks) PROVE P(f[i + 2], i + 2)
      <4> HIDE DEF P
      <4> QED BY <3>0
    <3>1. i + 1 \in 1..Len(ks) /\ i + 2 \in 2..Len(ks) /\ (i + 2) - 1 = i + 1
      OBVIOUS
    <3>2. P(f[i + 1], i + 1)
      BY <2>3, <3>1
    <3>3. f[i + 2] = f[i + 1] \o seqs[i + 2]
      BY <2>1, <3>1
    <3>4. \A x \in Range(f[i + 1]), y \in Range(seqs[i + 2]) : Apart(x, y)
      <4> SUFFICES ASSUME NEW a \in 1..(i + 1), NEW x \in Range(seqs[a]),
                          NEW y \in Range(seqs[i + 2])
                   PROVE  Apart(x, y)
        BY <3>2
      <4>1. a \in 1..Len(ks) /\ i + 2 \in 1..Len(ks) /\ a < i + 2
        BY <3>1
      <4> QED BY <4>1
    <3>5. /\ f[i + 2] \in Seq(Images) /\ Spread(f[i + 2])
          /\ Range(f[i + 2]) \subseteq Range(f[i + 1]) \cup Range(seqs[i + 2])
      <4>1. /\ f[i + 1] \in Seq(Images) /\ seqs[i + 2] \in Seq(Images)
            /\ Spread(f[i + 1]) /\ Spread(seqs[i + 2])
        BY <1>1, <3>1, <3>2
      <4> HIDE DEF seqs
      <4> QED BY <3>3, <3>4, <4>1, SpreadAppend
    <3>6. Upto(i + 1) \cup Range(seqs[i + 2]) \subseteq Upto(i + 2)
      <4> HIDE DEF seqs
      <4> QED OBVIOUS
    <3> HIDE DEF Upto, seqs
    <3> QED BY <3>2, <3>5, <3>6
  <2>4. Len(ks) - 1 \in Good
    <3>1. Len(ks) - 1 \in Nat
      BY <1>4
    <3> HIDE DEF Good
    <3> QED BY <2>2, <2>3, <3>1, NumbersInduction
  <2>5. P(f[Len(ks)], Len(ks))
    <3>1. (Len(ks) - 1) + 1 = Len(ks) /\ Len(ks) \in 1..Len(ks)
      BY <1>4
    <3> HIDE DEF P
    <3> QED BY <2>4, <3>1
  <2> QED BY <2>1, <2>5 DEF Order
<1> QED BY <1>3, <1>4

(* What any command builds.                                                *)
LEMMA TargetsAreSpread ==
    \A t \in Targets : t \in Seq(Images) /\ Spread(t)
<1>1. All \in Seq(Images) /\ Spread(All)
  <2>1. Categories \in Seq(Range(Categories))
    BY OrderAssumption DEF Range
  <2> QED BY <2>1, OrderIsSpread, OrderAssumption DEF All
<1>2. ASSUME NEW k \in Range(Categories)
      PROVE  Order(<<k>>) \in Seq(Images) /\ Spread(Order(<<k>>))
  <2>1. <<k>> \in Seq(Range(Categories)) /\ Len(<<k>>) = 1
    OBVIOUS
  <2>2. \A m, n \in 1..Len(<<k>>) : ~(n < m)
    BY <2>1
  <2> HIDE DEF Range
  <2> QED BY <2>1, <2>2, OrderIsSpread
<1>3. ASSUME NEW i \in Images PROVE <<i>> \in Seq(Images) /\ Spread(<<i>>)
  BY DEF Spread
<1> QED BY <1>1, <1>2, <1>3 DEF Targets

-----------------------------------------------------------------------------
(* What the commands keep                                                  *)

JobStates ==
    [verb : Verbs \cup {"none"}, targets : Targets \cup {<<>>},
     todo : Seq(Images), rc : {0, 1}, saving : Seq(Nat), alone : BOOLEAN,
     guessed : SUBSET Images]

ManageTypes ==
    /\ local \in [Images -> Seq(Nat)] /\ saved \in [Images -> Seq(Nat)]
    /\ pool \in [Images -> [TarPlaces -> Seq(Nat)]]
    /\ job \in [Cmds -> JobStates]
    /\ count \in [commands : Nat, builds : Nat]

(* What was announced is at the place it was saved to.                     *)
SavedInv == \A i \in Images : saved[i] # None => pool[i][SavePlace] = saved[i]

(* A build that went well so far has the first k targets behind it, and    *)
(* what is combined among them is made of its parts as they are now, but   *)
(* for g, whose tags it guessed.                                           *)
Rest(t, k) == [n \in 1..(Len(t) - k) |-> t[n + k]]

BuiltUpto(t, k, g) ==
    \A n \in 1..k : Combined(t[n]) => t[n] \in g \/ local[t[n]] = Parts(t[n])

Builds(c) ==
    job[c].verb = "build" /\ job[c].alone /\ job[c].rc = 0 =>
       \E k \in 0..Len(job[c].targets) :
          /\ job[c].todo = Rest(job[c].targets, k)
          /\ BuiltUpto(job[c].targets, k, job[c].guessed)

ManageInv == ManageTypes /\ SavedInv /\ \A c \in Cmds : Builds(c)

(* Sequences are the same when their elements are.                         *)
LEMMA SameSequence ==
    ASSUME NEW S, NEW s \in Seq(S), NEW t \in Seq(S), Len(s) = Len(t),
           \A n \in 1..Len(s) : s[n] = t[n]
    PROVE  s = t
OBVIOUS

(* What is left to build, without its first.                               *)
LEMMA RestFacts ==
    ASSUME NEW S, NEW t \in Seq(S), NEW k \in 0..Len(t)
    PROVE  /\ Rest(t, 0) = t
           /\ Rest(t, k) = <<>> => k = Len(t)
           /\ Rest(t, k) # <<>> =>
                /\ k + 1 \in 1..Len(t) /\ Head(Rest(t, k)) = t[k + 1]
                /\ Tail(Rest(t, k)) = Rest(t, k + 1)
<1>1. Rest(t, k) \in Seq(S) /\ Len(Rest(t, k)) = Len(t) - k
  BY DEF Rest
<1>2. Rest(t, 0) = t
  <2>1. Rest(t, 0) \in Seq(S) /\ Len(Rest(t, 0)) = Len(t)
    BY DEF Rest
  <2>2. \A n \in 1..Len(t) : Rest(t, 0)[n] = t[n]
    BY DEF Rest
  <2> QED BY <2>1, <2>2
<1>3. ASSUME Rest(t, k) # <<>>
      PROVE  /\ k + 1 \in 1..Len(t) /\ Head(Rest(t, k)) = t[k + 1]
             /\ Tail(Rest(t, k)) = Rest(t, k + 1)
  <2>1. Len(t) - k > 0
    BY <1>1, <1>3
  <2>2. k + 1 \in 1..Len(t) /\ Head(Rest(t, k)) = t[k + 1]
    BY <2>1 DEF Rest
  <2>3. /\ Rest(t, k + 1) \in Seq(S) /\ Len(Rest(t, k + 1)) = Len(t) - (k + 1)
    BY <2>2 DEF Rest
  <2>4. /\ Tail(Rest(t, k)) \in Seq(S)
        /\ Len(Tail(Rest(t, k))) = Len(t) - (k + 1)
        /\ \A n \in 1..(Len(t) - (k + 1)) : Tail(Rest(t, k))[n] = Rest(t, k)[n + 1]
    BY <1>1, <2>1
  <2>5. \A n \in 1..(Len(t) - (k + 1)) :
           Rest(t, k)[n + 1] = t[n + 1 + k] /\ Rest(t, k + 1)[n] = t[n + (k + 1)]
    BY DEF Rest
  <2>6. \A n \in 1..(Len(t) - (k + 1)) : Tail(Rest(t, k))[n] = Rest(t, k + 1)[n]
    BY <2>4, <2>5
  <2>7. Tail(Rest(t, k)) = Rest(t, k + 1)
    BY <2>3, <2>4, <2>6, SameSequence
  <2> QED BY <2>2, <2>7
<1> QED BY <1>1, <1>2, <1>3

(* The parts of an image are numbers of builds.                            *)
LEMMA PartsType ==
    ASSUME ManageTypes, NEW i \in Images
    PROVE  Parts(i) \in Seq(Nat)
<1> DEFINE seqs == [n \in 1..Len(Needs[i]) |-> local[Needs[i][n]]]
<1>1. seqs \in Seq(Seq(Nat)) /\ Len(seqs) = Len(Needs[i]) /\ Len(seqs) \in Nat
  BY ManagementAssumption DEF ManageTypes
<1>2. CASE Len(seqs) = 0
  <2>1. Parts(i) = seqs /\ seqs = <<>>
    BY <1>1, <1>2 DEF Parts, FlattenSeq
  <2> QED BY <2>1
<1>3. CASE Len(seqs) > 0
  <2>0. \A n \in 1..Len(seqs) : seqs[n] \in Seq(Nat)
    BY <1>1
  <2> HIDE DEF seqs
  <2>1. PICK f : /\ f[1] = seqs[1]
                 /\ \A n \in 2..Len(seqs) : f[n] = f[n - 1] \o seqs[n]
                 /\ FlattenSeq(seqs) = f[Len(seqs)]
    BY <1>1, <1>3, Flattened
  <2> DEFINE Good == {n \in Nat : n + 1 \in 1..Len(seqs) => f[n + 1] \in Seq(Nat)}
  <2>2. 0 \in Good
    BY <1>1, <2>0, <2>1
  <2>3. ASSUME NEW n \in Nat, n \in Good PROVE n + 1 \in Good
    <3> SUFFICES ASSUME (n + 1) + 1 \in 1..Len(seqs)
                 PROVE  f[(n + 1) + 1] \in Seq(Nat)
      OBVIOUS
    <3>1. f[(n + 1) + 1] \in Seq(Nat)
      <4>1. /\ n + 1 \in 1..Len(seqs) /\ (n + 1) + 1 \in 2..Len(seqs)
            /\ ((n + 1) + 1) - 1 = n + 1
        OBVIOUS
      <4>2. f[n + 1] \in Seq(Nat) /\ seqs[(n + 1) + 1] \in Seq(Nat)
        BY <2>0, <2>3, <4>1
      <4>3. f[(n + 1) + 1] = f[n + 1] \o seqs[(n + 1) + 1]
        BY <2>1, <4>1
      <4> QED BY <4>2, <4>3
    <3> QED BY <3>1
  <2>4. Len(seqs) - 1 \in Good
    <3>1. Len(seqs) - 1 \in Nat
      BY <1>1, <1>3
    <3> HIDE DEF Good
    <3> QED BY <2>2, <2>3, <3>1, NumbersInduction
  <2>5. (Len(seqs) - 1) + 1 = Len(seqs) /\ Len(seqs) \in 1..Len(seqs)
    BY <1>1, <1>3
  <2> QED BY <2>1, <2>4, <2>5 DEF Parts, seqs
<1> QED BY <1>1, <1>2, <1>3

(* What a step does to the commands.                                       *)
LEMMA GoesTypes ==
    ASSUME ManageTypes, NEW c \in Cmds, NEW new \in JobStates, Goes(c, new)
    PROVE  /\ job' \in [Cmds -> JobStates] /\ job'[c] = new
           /\ \A d \in Cmds \ {c} :
                job'[d] = job[d] \/ ~job'[d].alone
           /\ \A d \in Cmds \ {c} :
                job'[d].alone => job'[d] = job[d] /\ local' = local
<1> DEFINE same == local' = local
<1>1. same \in BOOLEAN
  OBVIOUS
<1>2. job' = [d \in Cmds |-> IF d = c THEN new
                              ELSE [job[d] EXCEPT !.alone = @ /\ same]]
  BY DEF Goes
<1> HIDE DEF same
<1>3. ASSUME NEW d \in Cmds \ {c}
      PROVE  /\ job'[d] \in JobStates
             /\ job'[d] = job[d] \/ ~job'[d].alone
             /\ job'[d].alone => job'[d] = job[d] /\ same
  <2>1. job[d] \in JobStates /\ job'[d] = [job[d] EXCEPT !.alone = @ /\ same]
    BY <1>2 DEF ManageTypes
  <2>2. CASE same /\ job[d].alone
    <3>1. job'[d] = [job[d] EXCEPT !.alone = TRUE] /\ job[d].alone = TRUE
      BY <2>1, <2>2 DEF JobStates
    <3>2. \A r \in JobStates : r.alone = TRUE => [r EXCEPT !.alone = TRUE] = r
      BY DEF JobStates
    <3>3. job'[d] = job[d]
      BY <2>1, <3>1, <3>2
    <3> QED BY <2>1, <2>2, <3>3
  <2>3. CASE ~(same /\ job[d].alone)
    <3>1. job'[d] = [job[d] EXCEPT !.alone = FALSE]
      BY <2>1, <2>3 DEF JobStates
    <3> QED BY <2>1, <3>1 DEF JobStates
  <2> QED BY <2>2, <2>3
<1>4. job'[c] = new /\ DOMAIN job' = Cmds
  BY <1>2
<1>5. job' \in [Cmds -> JobStates]
  BY <1>2, <1>3, <1>4
<1> QED BY <1>3, <1>4, <1>5 DEF same

LEMMA ManageInitInv == ManageInit => ManageInv
<1> SUFFICES ASSUME ManageInit PROVE ManageInv
  OBVIOUS
<1>1. <<>> \in Seq(Nat) /\ <<>> \in Seq(Images) /\ <<2>> \in Seq(Nat)
  OBVIOUS
<1>2. NoCommand \in JobStates
  BY <1>1 DEF NoCommand, JobStates, None
<1>3. ManageTypes
  BY <1>1, <1>2 DEF ManageInit, ManageTypes, None, InOldTar
<1> QED BY <1>3 DEF ManageInit, ManageInv, SavedInv, Builds, NoCommand

(* A step that leaves the tags, or a command, alone cannot undo a build.   *)
LEMMA OthersBuild ==
    ASSUME ManageInv, NEW c \in Cmds, NEW new \in JobStates, Goes(c, new),
           NEW d \in Cmds \ {c}
    PROVE  Builds(d)'
<1>1. CASE ~(job'[d].alone /\ job'[d].verb = "build" /\ job'[d].rc = 0)
  BY <1>1 DEF Builds
<1>2. CASE job'[d].alone /\ job'[d].verb = "build" /\ job'[d].rc = 0
  <2>1. job'[d] = job[d] /\ local' = local
    BY <1>2, GoesTypes DEF ManageInv
  <2>2. PICK k \in 0..Len(job[d].targets) :
           /\ job[d].todo = Rest(job[d].targets, k)
           /\ BuiltUpto(job[d].targets, k, job[d].guessed)
    BY <1>2, <2>1 DEF ManageInv, Builds
  <2>3. \A i : Combined(i)' = Combined(i) /\ Parts(i)' = Parts(i)
    BY <2>1 DEF Combined, Parts
  <2>4. PICK t, g : t = job[d].targets /\ g = job[d].guessed
    OBVIOUS
  <2>5. BuiltUpto(t, k, g)'
    <3>1. \A n \in 1..k : Combined(t[n]) => t[n] \in g \/ local'[t[n]] = Parts(t[n])
      BY <2>1, <2>2, <2>4 DEF BuiltUpto
    <3> QED BY <2>3, <3>1 DEF BuiltUpto
  <2>6. k \in 0..Len(t) /\ job'[d].todo = Rest(t, k) /\ job'[d].targets = t
        /\ job'[d].guessed = g
    BY <2>1, <2>2, <2>4
  <2> QED BY <2>5, <2>6 DEF Builds, Rest
<1> QED BY <1>1, <1>2

(* So every step keeps the invariant that keeps the types, and does not    *)
(* go on with a build.                                                     *)
LEMMA StepKeeps ==
    ASSUME ManageInv, NEW c \in Cmds, NEW new \in JobStates, Goes(c, new),
           local' \in [Images -> Seq(Nat)],
           count' \in [commands : Nat, builds : Nat],
           pool' \in [Images -> [TarPlaces -> Seq(Nat)]],
           saved' \in [Images -> Seq(Nat)], SavedInv',
           new.verb = "build" => new.rc = 1 \/ Builds(c)'
    PROVE  ManageInv'
<1>1. job' \in [Cmds -> JobStates] /\ job'[c] = new
  BY GoesTypes DEF ManageInv
<1>2. Builds(c)'
  <2>1. CASE new.verb = "build" /\ new.rc = 1
    BY <1>1, <2>1 DEF Builds
  <2>2. CASE new.verb # "build"
    BY <1>1, <2>2 DEF Builds
  <2> QED BY <2>1, <2>2
<1>3. \A d \in Cmds : Builds(d)'
  BY <1>2, OthersBuild
<1> QED BY <1>1, <1>3 DEF ManageInv, ManageTypes

(* The tarballs, when nothing is saved and nothing is cut short.           *)
LEMMA SavedStays == SavedInv /\ pool' = pool /\ saved' = saved => SavedInv'
BY DEF SavedInv

(* A save cut short leaves no announced tarball at its place.              *)
LEMMA CutShortKeeps ==
    ASSUME ManageTypes, SavedInv, NEW i \in Images, CutShort(i)
    PROVE  /\ pool' \in [Images -> [TarPlaces -> Seq(Nat)]]
           /\ saved' \in [Images -> Seq(Nat)] /\ SavedInv'
<1>1. <<>> \in Seq(Nat) /\ <<0>> \in Seq(Nat)
  OBVIOUS
<1> QED BY <1>1 DEF ManageTypes, CutShort, SavedInv, Truncated, None

(* A command that begins.                                                  *)
LEMMA CommandTypes ==
    ASSUME ManageTypes, NEW c \in Cmds, job[c].todo # <<>>
    PROVE  /\ job[c] \in JobStates /\ Head(job[c].todo) \in Images
           /\ \A failed \in BOOLEAN :
                /\ [job[c] EXCEPT !.todo = Tail(@), !.saving = None,
                                  !.rc = IF failed THEN 1 ELSE @] \in JobStates
                /\ [job[c] EXCEPT !.todo = Tail(@), !.saving = None,
                                  !.rc = IF failed THEN 1 ELSE @].verb = job[c].verb
           /\ [job[c] EXCEPT !.todo = <<>>, !.saving = None, !.rc = 1] \in JobStates
<1>1. job[c] \in JobStates
  BY DEF ManageTypes
<1>2. job[c].todo \in Seq(Images) /\ <<>> \in Seq(Nat) /\ <<>> \in Seq(Images)
  BY <1>1 DEF JobStates
<1>3. Head(job[c].todo) \in Images /\ Tail(job[c].todo) \in Seq(Images)
  BY <1>2
<1> QED BY <1>1, <1>2, <1>3 DEF JobStates, None

LEMMA ManageAbort == \A c \in Cmds : ManageInv /\ Abort(c) => ManageInv'
<1> SUFFICES ASSUME NEW c \in Cmds, ManageInv, Abort(c) PROVE ManageInv'
  OBVIOUS
<1> DEFINE new == [job[c] EXCEPT !.todo = <<>>, !.saving = None, !.rc = 1]
<1>1. job[c].todo # <<>> /\ UNCHANGED <<local, registry, count>> /\ Goes(c, new)
  BY DEF Abort
<1>2. new \in JobStates /\ new.rc = 1 /\ Head(job[c].todo) \in Images
  BY <1>1, CommandTypes DEF ManageInv, JobStates
<1>3. /\ pool' \in [Images -> [TarPlaces -> Seq(Nat)]]
      /\ saved' \in [Images -> Seq(Nat)] /\ SavedInv'
  <2>1. CASE UNCHANGED <<pool, saved>>
    BY <2>1, SavedStays DEF ManageInv, ManageTypes
  <2>2. CASE CutShort(Head(job[c].todo))
    BY <1>2, <2>2, CutShortKeeps DEF ManageInv
  <2> QED BY <2>1, <2>2 DEF Abort
<1> HIDE DEF new
<1> QED BY <1>1, <1>2, <1>3, StepKeeps DEF ManageInv, ManageTypes

LEMMA ManageStart ==
    \A c \in Cmds, verb \in Verbs, t \in Targets :
       ManageInv /\ Start(c, verb, t) => ManageInv'
<1> SUFFICES ASSUME NEW c \in Cmds, NEW verb \in Verbs, NEW t \in Targets,
                    ManageInv, Start(c, verb, t)
             PROVE  ManageInv'
  OBVIOUS
<1>1. t \in Seq(Images) /\ <<>> \in Seq(Nat) /\ <<>> \in Seq(Images)
  BY TargetsAreSpread
<1>2. /\ UNCHANGED <<local, pool, saved>>
      /\ count' \in [commands : Nat, builds : Nat]
  BY DEF Start, ManageInv, ManageTypes
<1>3. SavedInv'
  BY <1>2, SavedStays DEF ManageInv
<1>4. CASE verb = "pull" /\ ~registry
  <2> DEFINE new == [NoCommand EXCEPT !.verb = verb, !.targets = t, !.rc = 1]
  <2>1. new \in JobStates /\ new.rc = 1 /\ Goes(c, new)
    BY <1>1, <1>4 DEF Start, NoCommand, JobStates, None
  <2> HIDE DEF new
  <2> QED BY <1>2, <1>3, <2>1, StepKeeps DEF ManageInv, ManageTypes
<1>5. CASE ~(verb = "pull" /\ ~registry)
  <2> DEFINE new == [NoCommand EXCEPT !.verb = verb, !.targets = t,
                                      !.todo = t, !.alone = TRUE]
  <2>1. new \in JobStates /\ Goes(c, new) /\ new.targets = t /\ new.todo = t
    BY <1>1, <1>5 DEF Start, NoCommand, JobStates, None
  <2> HIDE DEF new
  <2>2. job'[c] = new
    BY <2>1, GoesTypes DEF ManageInv
  <2>3. Builds(c)'
    <3>1. 0 \in 0..Len(t) /\ Rest(t, 0) = t
      BY <1>1, RestFacts
    <3>2. BuiltUpto(t, 0, new.guessed)'
      BY DEF BuiltUpto
    <3> QED BY <2>1, <2>2, <3>1, <3>2 DEF Builds, Rest
  <2> QED BY <1>2, <1>3, <2>1, <2>3, StepKeeps DEF ManageInv, ManageTypes
<1> QED BY <1>4, <1>5

(* The step to the next target, of a command other than build, or failed.  *)
LEMMA TargetKeeps ==
    ASSUME ManageInv, NEW c \in Cmds, job[c].todo # <<>>,
           NEW failed \in BOOLEAN, Step(c, failed), failed \/ job[c].verb # "build",
           local' \in [Images -> Seq(Nat)],
           count' \in [commands : Nat, builds : Nat],
           pool' \in [Images -> [TarPlaces -> Seq(Nat)]],
           saved' \in [Images -> Seq(Nat)], SavedInv'
    PROVE  ManageInv'
<1> DEFINE new == [job[c] EXCEPT !.todo = Tail(@), !.saving = None,
                                 !.rc = IF failed THEN 1 ELSE @]
<1>1. new \in JobStates /\ new.verb = job[c].verb /\ Goes(c, new)
  BY CommandTypes DEF Step, ManageInv
<1>2. failed => new.rc = 1
  <2>1. job[c] \in JobStates
    BY DEF ManageInv, ManageTypes
  <2> QED BY <2>1 DEF JobStates
<1> HIDE DEF new
<1> QED BY <1>1, <1>2, StepKeeps

(* What is found in the pool is a list of parts, or None.                  *)
LEMMA FoundType ==
    ASSUME ManageTypes, NEW i \in Images PROVE Found(i) \in Seq(Nat)
<1> DEFINE there == {n \in 1..Len(Candidates) : pool[i][Candidates[n]] # None}
<1>1. CASE there = {}
  BY <1>1 DEF Found, None
<1>2. CASE there # {}
  <2>1. Min(there) \in there
    <3>1. there \in SUBSET Nat
      BY SavePlaceIsFirst
    <3> HIDE DEF there
    <3> QED BY <1>2, <3>1, MinOfNumbers
  <2>2. Candidates[Min(there)] \in TarPlaces
    BY <2>1, SavePlaceIsFirst
  <2> QED BY <1>2, <2>2 DEF Found, ManageTypes
<1> QED BY <1>1, <1>2

LEMMA SetLocalType ==
    ASSUME ManageTypes, NEW i \in Images, NEW x \in Seq(Nat), SetLocal(i, x)
    PROVE  local' \in [Images -> Seq(Nat)]
BY DEF ManageTypes, SetLocal

(* What a build makes.                                                     *)
LEMMA BuildImageType ==
    ASSUME ManageTypes, NEW i \in Images, BuildImage(i)
    PROVE  /\ local' \in [Images -> Seq(Nat)]
           /\ count' \in [commands : Nat, builds : Nat]
<1>1. <<count.builds + 1>> \in Seq(Nat)
  BY DEF ManageTypes
<1>2. SetLocal(i, <<count.builds + 1>>)
      /\ count' = [count EXCEPT !.builds = @ + 1]
  BY DEF BuildImage
<1>3. local' \in [Images -> Seq(Nat)]
  BY <1>1, <1>2, SetLocalType
<1>4. count' \in [commands : Nat, builds : Nat]
  <2>1. count \in [commands : Nat, builds : Nat]
    BY DEF ManageTypes
  <2> QED BY <1>2, <2>1
<1> QED BY <1>3, <1>4

LEMMA ManageLoad ==
    \A c \in Cmds, i \in Images : ManageInv /\ Load(c, i) => ManageInv'
<1> SUFFICES ASSUME NEW c \in Cmds, NEW i \in Images, ManageInv, Load(c, i)
             PROVE  ManageInv'
  OBVIOUS
<1>1. /\ job[c].verb = "load" /\ job[c].todo # <<>>
      /\ UNCHANGED <<pool, saved, registry>> /\ SavedInv'
  BY SavedStays DEF Load, At, ManageInv
<1>2. PICK failed \in BOOLEAN : Step(c, failed)
  BY DEF Load
<1>3. /\ local' \in [Images -> Seq(Nat)]
      /\ count' \in [commands : Nat, builds : Nat]
  <2>1. CASE UNCHANGED <<local, count>>
    BY <2>1 DEF ManageInv, ManageTypes
  <2>2. CASE SetLocal(i, Found(i)) /\ UNCHANGED count
    BY <2>2, FoundType, SetLocalType DEF ManageInv, ManageTypes
  <2>3. CASE Materialize(i)
    <3>1. InRegistry \in Seq(Nat)
      BY DEF InRegistry
    <3> QED BY <2>3, <3>1, SetLocalType, BuildImageType
            DEF Materialize, ManageInv, ManageTypes
  <2> QED BY <2>1, <2>2, <2>3 DEF Load
<1> QED BY <1>1, <1>2, <1>3, TargetKeeps DEF ManageInv, ManageTypes

LEMMA ManageSave ==
    \A c \in Cmds, i \in Images :
       ManageInv /\ (StartSave(c, i) \/ EndSave(c, i)) => ManageInv'
<1> SUFFICES ASSUME NEW c \in Cmds, NEW i \in Images, ManageInv,
                    StartSave(c, i) \/ EndSave(c, i)
             PROVE  ManageInv'
  OBVIOUS
<1>1. /\ job[c].verb = "save" /\ job[c].todo # <<>>
      /\ UNCHANGED <<local, registry, count>> /\ job[c] \in JobStates
  BY DEF StartSave, EndSave, At, ManageInv, ManageTypes
<1>2. CASE StartSave(c, i)
  <2>1. SavedInv' /\ UNCHANGED <<pool, saved>>
    BY <1>2, SavedStays DEF StartSave, ManageInv
  <2>2. CASE Step(c, FALSE)
    BY <1>1, <2>1, <2>2, TargetKeeps DEF ManageInv, ManageTypes
  <2>3. CASE Goes(c, [job[c] EXCEPT !.saving = local[i]])
    <3> DEFINE new == [job[c] EXCEPT !.saving = local[i]]
    <3>1. new \in JobStates /\ new.verb = "save"
      BY <1>1 DEF JobStates, ManageInv, ManageTypes
    <3> HIDE DEF new
    <3> QED BY <1>1, <2>1, <2>3, <3>1, StepKeeps DEF ManageInv, ManageTypes, new
  <2> QED BY <1>2, <2>2, <2>3 DEF StartSave
<1>3. CASE EndSave(c, i)
  <2>1. PICK failed \in BOOLEAN : Step(c, failed)
    BY <1>3 DEF EndSave
  <2>2. /\ pool' \in [Images -> [TarPlaces -> Seq(Nat)]]
        /\ saved' \in [Images -> Seq(Nat)] /\ SavedInv'
    <3>1. CASE /\ pool' = [pool EXCEPT ![i][SavePlace] = job[c].saving]
               /\ saved' = [saved EXCEPT ![i] = job[c].saving]
      <4>1. job[c].saving \in Seq(Nat) /\ SavePlace \in TarPlaces
        BY <1>1, ManagementAssumption
           DEF JobStates, SavePlace, TarPlaces, TarDirs
      <4> QED BY <3>1, <4>1 DEF ManageInv, ManageTypes, SavedInv
    <3>2. CASE CutShort(i)
      BY <3>2, CutShortKeeps DEF ManageInv
    <3>3. CASE UNCHANGED <<pool, saved>>
      BY <3>3, SavedStays DEF ManageInv, ManageTypes
    <3> QED BY <1>3, <3>1, <3>2, <3>3 DEF EndSave
  <2> QED BY <1>1, <2>1, <2>2, TargetKeeps DEF ManageInv, ManageTypes
<1> QED BY <1>2, <1>3

LEMMA ManageOthers ==
    \A c \in Cmds, i \in Images :
       ManageInv /\ (Pull(c, i) \/ Rm(c, i) \/ Digest(c, i)) => ManageInv'
<1> SUFFICES ASSUME NEW c \in Cmds, NEW i \in Images, ManageInv,
                    Pull(c, i) \/ Rm(c, i) \/ Digest(c, i)
             PROVE  ManageInv'
  OBVIOUS
<1>1. /\ job[c].verb # "build" /\ job[c].todo # <<>>
      /\ UNCHANGED <<pool, saved, registry, count>> /\ SavedInv'
  BY SavedStays DEF Pull, Rm, Digest, At, ManageInv
<1>2. PICK failed \in BOOLEAN : Step(c, failed)
  BY DEF Pull, Rm, Digest
<1>3. local' \in [Images -> Seq(Nat)]
  <2>1. None \in Seq(Nat) /\ InRegistry \in Seq(Nat)
    BY DEF None, InRegistry
  <2> QED BY <2>1, SetLocalType DEF Pull, Rm, Digest, ManageInv, ManageTypes
<1> QED BY <1>1, <1>2, <1>3, TargetKeeps DEF ManageInv, ManageTypes

(* A build goes on: the images behind it, and what they are made of, are   *)
(* not among those that are still to come.                                 *)
LEMMA ManageBuild ==
    \A c \in Cmds, i \in Images : ManageInv /\ Build(c, i) => ManageInv'
<1> SUFFICES ASSUME NEW c \in Cmds, NEW i \in Images, ManageInv, Build(c, i)
             PROVE  ManageInv'
  OBVIOUS
<1>1. /\ job[c].verb = "build" /\ job[c].todo # <<>> /\ i = Head(job[c].todo)
      /\ UNCHANGED <<pool, saved, registry>> /\ SavedInv' /\ job[c] \in JobStates
  BY SavedStays DEF Build, At, ManageInv, ManageTypes
<1>2. CASE Step(c, TRUE) /\ (UNCHANGED <<local, count>> \/ CombineImage(i))
  <2>1. /\ local' \in [Images -> Seq(Nat)]
        /\ count' \in [commands : Nat, builds : Nat]
    BY <1>2, PartsType, SetLocalType DEF CombineImage, ManageInv, ManageTypes
  <2> QED BY <1>1, <1>2, <2>1, TargetKeeps DEF ManageInv, ManageTypes
<1>3. CASE Guess(c, i) \/ ((BuildImage(i) \/ CombineImage(i)) /\ Step(c, FALSE))
  <2>1. PICK new \in JobStates :
           /\ Goes(c, new) /\ new.todo = Tail(job[c].todo)
           /\ new.targets = job[c].targets /\ new.verb = job[c].verb
           /\ new.alone = job[c].alone /\ new.rc = job[c].rc
           /\ \/ new.guessed = job[c].guessed \cup {i} /\ Guess(c, i)
              \/ /\ new.guessed = job[c].guessed
                 /\ BuildImage(i) \/ CombineImage(i)
    <3>1. Tail(job[c].todo) \in Seq(Images) /\ None \in Seq(Nat)
      BY <1>1 DEF JobStates, None
    <3>2. CASE Guess(c, i)
      <4> DEFINE new == [job[c] EXCEPT !.todo = Tail(@), !.guessed = @ \cup {i}]
      <4>1. new \in JobStates /\ Goes(c, new)
        BY <1>1, <3>1, <3>2 DEF Guess, JobStates
      <4>2. /\ new.todo = Tail(job[c].todo) /\ new.targets = job[c].targets
            /\ new.verb = job[c].verb /\ new.alone = job[c].alone
            /\ new.rc = job[c].rc /\ new.guessed = job[c].guessed \cup {i}
        BY <1>1 DEF JobStates
      <4> HIDE DEF new
      <4> QED BY <3>2, <4>1, <4>2
    <3>3. CASE (BuildImage(i) \/ CombineImage(i)) /\ Step(c, FALSE)
      <4> DEFINE new == [job[c] EXCEPT !.todo = Tail(@), !.saving = None]
      <4>1. Goes(c, [job[c] EXCEPT !.todo = Tail(@), !.saving = None, !.rc = @])
        BY <3>3 DEF Step
      <4>2. [job[c] EXCEPT !.todo = Tail(@), !.saving = None, !.rc = @] = new
        BY <1>1 DEF JobStates
      <4>3. new \in JobStates
        BY <1>1, <3>1 DEF JobStates
      <4>4. /\ new.todo = Tail(job[c].todo) /\ new.targets = job[c].targets
            /\ new.verb = job[c].verb /\ new.alone = job[c].alone
            /\ new.rc = job[c].rc /\ new.guessed = job[c].guessed
        BY <1>1 DEF JobStates
      <4>5. Goes(c, new)
        BY <4>1, <4>2
      <4> HIDE DEF new
      <4> QED BY <3>3, <4>3, <4>4, <4>5
    <3> QED BY <1>3, <3>2, <3>3
  <2>2. /\ local' \in [Images -> Seq(Nat)]
        /\ count' \in [commands : Nat, builds : Nat]
    BY <1>3, BuildImageType, PartsType, SetLocalType
       DEF CombineImage, Guess, ManageInv, ManageTypes
  <2>3. /\ \A j \in Images \ {i} : local'[j] = local[j]
        /\ Combined(i) => i \in new.guessed \/ local'[i] = Parts(i)
        /\ job[c].guessed \subseteq new.guessed
    BY <2>1 DEF BuildImage, CombineImage, Guess, SetLocal, ManageInv, ManageTypes
  <2>4. ASSUME NEW j \in Images, i \notin Range(Needs[j])
        PROVE  Parts(j)' = Parts(j)
    <3>1. \A n \in 1..Len(Needs[j]) : Needs[j][n] \in Images \ {i}
      BY <2>4, ManagementAssumption DEF Range
    <3>2. [n \in 1..Len(Needs[j]) |-> local'[Needs[j][n]]]
            = [n \in 1..Len(Needs[j]) |-> local[Needs[j][n]]]
      BY <2>3, <3>1
    <3> QED BY <3>2 DEF Parts
  <2>5. Builds(c)'
    <3>1. /\ job'[c] = new /\ new.targets = job[c].targets /\ new.todo = Tail(job[c].todo)
          /\ new.alone = job[c].alone /\ new.rc = job[c].rc
      BY <1>1, <2>1, GoesTypes DEF ManageInv, JobStates
    <3>0. PICK t : t = job[c].targets
      OBVIOUS
    <3> SUFFICES ASSUME job[c].alone, job[c].rc = 0
                 PROVE  \E k \in 0..Len(t) :
                           new.todo = Rest(t, k) /\ BuiltUpto(t, k, new.guessed)'
      BY <3>0, <3>1 DEF Builds, Rest
    <3>2. PICK k \in 0..Len(t) :
             job[c].todo = Rest(t, k) /\ BuiltUpto(t, k, job[c].guessed)
      BY <1>1, <3>0 DEF ManageInv, Builds
    <3>3. t \in Seq(Images) /\ Spread(t)
      <4>1. t \in Targets \cup {<<>>}
        BY <1>1, <3>0 DEF JobStates
      <4>2. <<>> \in Seq(Images) /\ Spread(<<>>)
        BY DEF Spread
      <4> QED BY <4>1, <4>2, TargetsAreSpread
    <3>4. /\ k + 1 \in 1..Len(t) /\ i = t[k + 1]
          /\ Tail(job[c].todo) = Rest(t, k + 1)
      BY <1>1, <3>2, <3>3, RestFacts
    <3>5. ASSUME NEW n \in 1..(k + 1), Combined(t[n])
          PROVE  t[n] \in new.guessed \/ local'[t[n]] = Parts(t[n])'
      <4>1. t[n] \in Images /\ n \in 1..Len(t)
        BY <3>3, <3>4
      <4>2. i \notin Range(Needs[t[n]])
        <5>1. CASE n = k + 1
          BY <3>4, <4>1, <5>1, ManagementAssumption
        <5>2. CASE n < k + 1
          BY <3>3, <3>4, <4>1, <5>2 DEF Spread, Apart
        <5> QED BY <5>1, <5>2
      <4>3. Parts(t[n])' = Parts(t[n])
        BY <2>4, <4>1, <4>2
      <4>4. CASE n = k + 1
        BY <2>3, <3>4, <3>5, <4>3, <4>4
      <4>5. CASE n < k + 1
        <5>1. t[n] # i
          BY <3>3, <3>4, <4>1, <4>5 DEF Spread, Apart
        <5>2. n \in 1..k
          BY <4>5
        <5> QED BY <2>3, <3>2, <3>5, <4>1, <4>3, <5>1, <5>2 DEF BuiltUpto
      <4> QED BY <4>4, <4>5
    <3>6. BuiltUpto(t, k + 1, new.guessed)'
      BY <3>5 DEF BuiltUpto, Combined
    <3>7. k + 1 \in 0..Len(t)
      BY <3>4
    <3> QED BY <3>1, <3>4, <3>6, <3>7
  <2> QED BY <1>1, <2>1, <2>2, <2>5, StepKeeps DEF ManageInv, ManageTypes
<1> QED BY <1>2, <1>3 DEF Build

LEMMA ManageNextInv == ManageInv /\ [ManageNext]_imageVars => ManageInv'
<1> SUFFICES ASSUME ManageInv, [ManageNext]_imageVars PROVE ManageInv'
  OBVIOUS
<1>1. CASE UNCHANGED imageVars
  <2>1. /\ local' = local /\ pool' = pool /\ job' = job /\ saved' = saved
        /\ count' = count
    BY <1>1 DEF imageVars
  <2>2. \A i : Parts(i)' = Parts(i) /\ Combined(i)' = Combined(i)
    BY <2>1 DEF Parts, Combined
  <2>3. ManageTypes' /\ SavedInv'
    BY <2>1 DEF ManageInv, ManageTypes, SavedInv
  <2>4. ASSUME NEW c \in Cmds PROVE Builds(c)'
    <3>1. Builds(c)
      BY DEF ManageInv
    <3> QED BY <2>1, <2>2, <3>1 DEF Builds, BuiltUpto
  <2> QED BY <2>3, <2>4 DEF ManageInv
<1>2. CASE ManageNext
  BY <1>2, ManageAbort, ManageStart, ManageLoad, ManageSave, ManageOthers,
     ManageBuild DEF ManageNext
<1> QED BY <1>1, <1>2

(* SavedIsLoaded, for any pool with any old tarballs, any number of legacy *)
(* directories and any number of commands at once.                         *)
THEOREM LoadFindsTheSave == ManageSpec => []SavedIsLoaded
<1>1. ManageInv => SavedIsLoaded
  BY FoundFirst DEF ManageInv, SavedInv, SavedIsLoaded
<1> QED BY ManageInitInv, ManageNextInv, <1>1, PTL DEF ManageSpec

(* CombinedIsCurrent, for any manifest in whose order what is combined     *)
(* comes after its parts, whichever tags the script has to guess.          *)
THEOREM BuildAllIsCurrent == ManageSpec => []CombinedIsCurrent
<1>1. ManageInv => CombinedIsCurrent
  <2> SUFFICES ASSUME ManageInv, NEW c \in Cmds, Ended(c), job[c].alone,
                      job[c].rc = 0, job[c].verb = "build",
                      Range(job[c].targets) = Images,
                      NEW i \in Images, Combined(i)
               PROVE  i \in job[c].guessed \/ local[i] = Parts(i)
    BY DEF CombinedIsCurrent
  <2> DEFINE ts == job[c].targets
  <2>1. PICK k \in 0..Len(ts) :
           job[c].todo = Rest(ts, k) /\ BuiltUpto(ts, k, job[c].guessed)
    BY DEF ManageInv, Builds
  <2>2. ts \in Seq(Images)
    <3>1. ts \in Targets \cup {<<>>}
      BY DEF ManageInv, ManageTypes, JobStates
    <3>2. <<>> \in Seq(Images)
      OBVIOUS
    <3> QED BY <3>1, <3>2, TargetsAreSpread
  <2>3. k = Len(ts)
    BY <2>1, <2>2, RestFacts DEF Ended
  <2>4. PICK n \in 1..Len(ts) : ts[n] = i
    BY <2>2 DEF Range
  <2> QED BY <2>1, <2>3, <2>4 DEF BuiltUpto
<1> QED BY ManageInitInv, ManageNextInv, <1>1, PTL DEF ManageSpec
=============================================================================
