--------------------------- MODULE ChallengeLoader --------------------------
(***************************************************************************)
(* load_challenge: what a session takes from the files of a challenge. An  *)
(* author edits the documents of a family (the root's challenge.yaml, that *)
(* of a tier, which may extend it, evaluation.yaml beside it), its         *)
(* directories and a runtime's info card; every state is a family that can *)
(* be loaded, and the operators below are what loading it gives.           *)
(*                                                                         *)
(* Source: archbench/core/challenge.py, and of runtimes/session.py the     *)
(* choice of the model and eval_summary.                                   *)
(***************************************************************************)
EXTENDS Naturals, Sequences, FiniteSets, SequencesExt

CONSTANTS
    Evaluators,   \* names of evaluators
    Models,       \* names of models
    Routed,       \* those of them routes.yaml has a route for
    NoModel,      \* no model is named
    NoRubric,     \* an entry has no rubric
    Variant,      \* model -> its thinking variant, or NoModel
    MaxDocEdits   \* bound on the edits of the author

ASSUME LoaderAssumption ==
    /\ Routed \subseteq Models /\ NoModel \notin Models
    /\ Variant \in [Models -> Models \cup {NoModel}]
    /\ MaxDocEdits \in Nat

VARIABLES
    extends,      \* the tier's document extends the root's
    docs,         \* document -> key -> value
    tree,         \* the directories there are in the family
    card,         \* info.yaml of the runtime
    topic,        \* what the author is at; loading reads each for itself
    docEdits

loaderVars == <<extends, docs, tree, card, topic, docEdits>>

Words == {"basic", "process", "outcome"}   \* RUBRIC_LEVELS
Levels == <<"tier_1_basic", "tier_2_process", "tier_3_outcome">>
WordOf == [l \in Range(Levels) |->
             CASE l = Levels[1] -> "basic" [] l = Levels[2] -> "process"
               [] OTHER -> "outcome"]

Empty == <<>>                               \* the empty dict
Has(d, k) == k \in DOMAIN d
Get(d, k, default) == IF Has(d, k) THEN d[k] ELSE default
With(d, k, v) == [x \in DOMAIN d \cup {k} |-> IF x = k THEN v ELSE d[x]]
If(cond, k, v) == IF cond THEN With(Empty, k, v) ELSE Empty
Without(d, ks) == [k \in DOMAIN d \ ks |-> d[k]]
Over(top, base) ==
    [k \in DOMAIN top \cup DOMAIN base |-> IF Has(top, k) THEN top[k] ELSE base[k]]

-----------------------------------------------------------------------------
(* The author *)

Dirs == {"simulator", "common", "assisted", "starter/template",
         "starter/baseline_assisted", "baseline/one_shot", "assisted/L1/starter"}

Modes ==
    [starter_visibility |-> {"full", "none", "bogus"},
     session_profile    |-> {"managed_mcp", "sim_dev_env", "prebuilt_sim_image",
                             "bogus"},
     agent_in_sim_image |-> {TRUE},
     agent_image_mode   |-> {"agent_centric", "simulator_centric",
                             "challenge_centric", "bogus"}]

ModelKeys == [runtimes |-> Models \cup {NoModel}, agent |-> Models]

CardFields ==
    [exists |-> BOOLEAN, public |-> BOOLEAN, auth |-> BOOLEAN,
     type |-> {"bundled", "byo_model", "bogus"},
     allowed |-> SUBSET Models, default |-> Models \cup {NoModel}]

LoaderInit ==
    /\ extends \in BOOLEAN
    /\ docs = [d \in {"root", "tier", "sibling"} |-> Empty]
    /\ tree = {}
    /\ card \in [exists : {TRUE}, public : {TRUE}, auth : {TRUE},
                 type : {"bundled", "byo_model"}, allowed : {Models},
                 default : {NoModel}]
    /\ topic \in {"modes", "models", "evaluators", "layout"}
    /\ docEdits = 0

Amend(d, k, v) == docs' = [docs EXCEPT ![d] = With(@, k, v)]

EditOf(t) ==
    /\ topic = t /\ UNCHANGED topic
    /\ docEdits < MaxDocEdits /\ docEdits' = docEdits + 1

(* The documents that count; a root is edited only if a tier extends it.   *)
Yamls == IF extends THEN {"root", "tier"} ELSE {"tier"}

SetKey(t, d, k, v) ==
    /\ EditOf(t) /\ Amend(d, k, v)
    /\ UNCHANGED <<extends, tree, card>>

(* A key of eval is set, in the flat block or in final_delivery_evaluation.*)
NoNested == [eval |-> Empty, final |-> <<>>, process |-> <<>>]

SetEval(d, k, nested) ==
    /\ EditOf("evaluators")
    /\ IF nested
       THEN Amend(d, "evaluation", [Get(docs[d], "evaluation", NoNested)
                                    EXCEPT !.eval = With(@, k, d)])
       ELSE Amend(d, "eval", With(Get(docs[d], "eval", Empty), k, d))
    /\ UNCHANGED <<extends, tree, card>>

(* An evaluator is added to the nested block, to a flat list, or to a tier *)
(* of the grouped form.                                                    *)
Item(d, e) == [evaluator |-> e, by |-> d]

AddNested(d, e, rubric, part) ==
    /\ EditOf("evaluators")
    /\ Amend(d, "evaluation",
           [Get(docs[d], "evaluation", NoNested) EXCEPT ![part] =
              Append(@, [evaluator |-> e, by |-> d, rubric |-> rubric])])
    /\ UNCHANGED <<extends, tree, card>>

AddListed(d, e) ==
    LET old == Get(docs[d], "evaluations", [grouped |-> FALSE, at |-> <<>>])
    IN /\ EditOf("evaluators") /\ ~old.grouped
       /\ Amend(d, "evaluations", [old EXCEPT !.at = Append(@, Item(d, e))])
       /\ UNCHANGED <<extends, tree, card>>

AddGrouped(d, e, level) ==
    LET old == Get(docs[d], "evaluations", [grouped |-> TRUE, at |-> Empty])
    IN /\ EditOf("evaluators") /\ old.grouped
       /\ Amend(d, "evaluations",
              [old EXCEPT !.at =
                 With(@, level, Append(Get(@, level, <<>>), Item(d, e)))])
       /\ UNCHANGED <<extends, tree, card>>

SetRubric(d, e, rubric) ==
    /\ EditOf("evaluators")
    /\ Amend(d, "rubric_mapping",
           With(Get(docs[d], "rubric_mapping", Empty), e, rubric))
    /\ UNCHANGED <<extends, tree, card>>

MakeDir(dir) ==
    /\ EditOf("layout")
    /\ tree' = tree \cup {dir} \cup
                 (IF dir = "assisted/L1/starter" THEN {"assisted"} ELSE {})
    /\ UNCHANGED <<extends, docs, card>>

EditCard(f, v) ==
    /\ EditOf("models") /\ card' = [card EXCEPT ![f] = v]
    /\ UNCHANGED <<extends, docs, tree>>

(* What a rubric may say: words, or none that is known.                    *)
Rubrics == {{"basic"}, {"process", "outcome"}, {}}

LoaderNext ==
    \/ \E d \in Yamls :
          \/ \E k \in DOMAIN Modes : \E v \in Modes[k] : SetKey("modes", d, k, v)
          \/ \E k \in DOMAIN ModelKeys : \E v \in ModelKeys[k] :
                SetKey("models", d, k, v)
          \/ \E k \in {"metric", "max_submissions"}, nested \in BOOLEAN :
                SetEval(d, k, nested)
          \/ \E e \in Evaluators :
                \/ \E rubric \in Rubrics \cup {NoRubric},
                      part \in {"final", "process"} : AddNested(d, e, rubric, part)
                \/ \E level \in Range(Levels) : AddGrouped(d, e, level)
    \/ \E d \in Yamls \cup {"sibling"}, e \in Evaluators :
          \/ AddListed(d, e)
          \/ \E rubric \in Rubrics : SetRubric(d, e, rubric)
    \/ \E e \in Evaluators :
          extends /\ SetKey("evaluators", "tier", "evaluations_remove", {e})
    \/ \E dir \in Dirs : MakeDir(dir)
    \/ \E f \in DOMAIN CardFields : \E v \in CardFields[f] : EditCard(f, v)

LoaderSpec == LoaderInit /\ [][LoaderNext]_loaderVars

-----------------------------------------------------------------------------
(* The document that is loaded *)

(* Of the rubrics of one evaluator the last counts.                        *)
Labels(entries) ==
    LET labelled == {i \in 1..Len(entries) : entries[i].rubric # NoRubric}
        Of(e) == {i \in labelled : entries[i].evaluator = e}
    IN [e \in {entries[i].evaluator : i \in labelled} |->
          entries[Max(Of(e))].rubric]

(* _denest_evaluation: a flat key wins over the nested block.              *)
Denest(d) ==
    IF ~Has(d, "evaluation") THEN d
    ELSE LET n == d["evaluation"]
             entries == n.final \o n.process
             list == [grouped |-> FALSE,
                      at |-> [i \in 1..Len(entries) |->
                                Item(entries[i].by, entries[i].evaluator)]]
         IN Over(Without(d, {"evaluation"}),
                 Over(If(n.eval # Empty, "eval", n.eval),
                      Over(If(entries # <<>>, "evaluations", list),
                           If(DOMAIN Labels(entries) # {}, "rubric_mapping",
                              Labels(entries)))))

NoList == [grouped |-> FALSE, at |-> <<>>]

(* _deep_merge: dicts are merged key by key, all else is replaced.         *)
DeepMerge(base, overlay) ==
    [k \in DOMAIN base \cup DOMAIN overlay |->
       IF ~Has(overlay, k) THEN base[k]
       ELSE IF ~Has(base, k) THEN overlay[k]
       ELSE CASE k \in {"eval", "rubric_mapping"} -> Over(overlay[k], base[k])
              [] k = "runtimes" /\ overlay[k] = NoModel -> base[k]
              [] k = "evaluations" /\ overlay[k].grouped /\ base[k].grouped ->
                   [grouped |-> TRUE, at |-> Over(overlay[k].at, base[k].at)]
              [] OTHER -> overlay[k]]

(* evaluations_remove compares its names with a key "name" that no entry   *)
(* has: of a list nothing goes; what is left of the grouped form is a list *)
(* of the names of its tiers, none of which is an entry.                   *)
RemoveNamed(data) ==
    LET old == Get(data, "evaluations", NoList)
    IN With(data, "evaluations", IF old.grouped THEN NoList ELSE old)

(* Mutant: the documents are merged first, and denested then.              *)
MutApplyOverlay(base, overlay) ==
    Denest(DeepMerge(base, Without(overlay, {"evaluations_remove"})))

ApplyOverlay(base, overlay) ==
    LET merged == DeepMerge(Denest(base),
                            Without(Denest(overlay), {"evaluations_remove"}))
    IN IF Has(overlay, "evaluations_remove") THEN RemoveNamed(merged) ELSE merged

Data == IF extends THEN ApplyOverlay(docs["root"], docs["tier"])
                   ELSE Denest(docs["tier"])

-----------------------------------------------------------------------------
(* Layout *)

(* _family_shared_dirs: simulator/ and evaluation/ are at the root, or     *)
(* under common/ in a family that was not migrated.                        *)
FamilySharedDirs ==
    IF "simulator" \notin tree /\ "common" \in tree THEN "common" ELSE "root"

(* L3 is the root itself. It is told by assisted/ or common/; without them *)
(* it has the layout of a single challenge.                                *)
IsFamily(tier) == tier = "L3" => tree \cap {"assisted", "common"} # {}

SharedDirs(tier) == IF IsFamily(tier) THEN FamilySharedDirs ELSE "root"

(* The staged starter has two variants, of which L1 alone gets the copy of *)
(* the baseline.                                                           *)
StarterDir(tier) ==
    LET variant == IF tier = "L1" THEN "starter/baseline_assisted"
                                  ELSE "starter/template"
    IN IF IsFamily(tier) /\ variant \in tree THEN variant ELSE "starter"

ReferenceDir ==
    IF "baseline/one_shot" \in tree THEN "baseline/one_shot"
    ELSE IF "assisted/L1/starter" \in tree THEN "assisted/L1/starter"
    ELSE "none"

-----------------------------------------------------------------------------
(* Where the agent runs *)

SessionProfile(data) ==
    LET raw == Get(data, "session_profile",
                   IF Get(data, "agent_in_sim_image", FALSE)
                   THEN "sim_dev_env" ELSE "managed_mcp")
    IN IF raw \in {"sim_dev_env", "prebuilt_sim_image"} THEN "sim_dev_env"
       ELSE "managed_mcp"

(* The explicit mode wins, and is filled back into the profile.            *)
AgentImageMode(data) ==
    Get(data, "agent_image_mode",
        IF SessionProfile(data) = "sim_dev_env" THEN "simulator_centric"
                                          ELSE "agent_centric")

(* Mutant: the profile is left as it was.                                  *)
MutProfile(data) == SessionProfile(data)

Profile(data) ==
    IF ~Has(data, "agent_image_mode") THEN SessionProfile(data)
    ELSE IF AgentImageMode(data) = "simulator_centric" THEN "sim_dev_env"
    ELSE "managed_mcp"

StarterVisibility(data) ==
    IF AgentImageMode(data) = "simulator_centric" THEN "none"
    ELSE IF Get(data, "starter_visibility", "full") = "none" THEN "none"
    ELSE "full"

-----------------------------------------------------------------------------
(* The runtime and its model *)

(* runtimes: wins over the legacy block of the runtime.                    *)
LegacyModel(data) == Get(data, "runtimes", Get(data, "agent", NoModel))

CardCounts == card.exists /\ card.public

(* A runtime without a card, or with one that is not public, is what the   *)
(* document says, and of the type byo_model; of an unknown type, too. What *)
(* credentials a session gets is no matter of the type: a runner takes its *)
(* vendor's from where its own data says, or from a default place.         *)
Runtime(data) ==
    LET bundled == CardCounts /\ card.type = "bundled"
        legacy == LegacyModel(data)
    IN [declared |-> CardCounts \/ Has(data, "runtimes") \/ Has(data, "agent"),
        type    |-> IF bundled THEN "bundled" ELSE "byo_model",
        allowed |-> IF bundled THEN card.allowed ELSE {},
        model   |-> IF legacy = NoModel /\ CardCounts THEN card.default
                                                      ELSE legacy]

(* _validate_runtime_type raises on a bundled card that lacks its          *)
(* credentials or its models.                                              *)
BadCard ==
    /\ CardCounts /\ card.type = "bundled"
    /\ \/ ~card.auth \/ card.allowed = {}
       \/ card.default \notin card.allowed \cup {NoModel}

(* What makes load_challenge raise: such a card, a mode nobody knows, or a *)
(* starter shown where the agent has the simulator's source.               *)
Refused(data) ==
    \/ BadCard
    \/ AgentImageMode(data) = "bogus"
    \/ /\ AgentImageMode(data) = "simulator_centric"
       /\ Get(data, "starter_visibility", "none") # "none"

(* Mutant: only a model that is asked for is checked.                      *)
MutAllows(rt, option, model) ==
    IF rt.type = "bundled"
    THEN option = NoModel \/ model \in rt.allowed ELSE model \in Routed

Allows(rt, option, model) ==
    IF rt.type = "bundled"
    THEN rt.allowed = {} \/ model \in rt.allowed
    ELSE model \in Routed

(* run_session: --model, or that of the runtime; --thinking takes the      *)
(* variant of a route if there is one. NoModel: the session is refused.    *)
RunModel(rt, option, thinking) ==
    LET asked == IF option # NoModel THEN option ELSE rt.model
        model == IF rt.type = "byo_model" /\ thinking /\ asked # NoModel
                    /\ Variant[asked] \in Routed
                 THEN Variant[asked] ELSE asked
    IN IF rt.declared /\ model # NoModel /\ Allows(rt, option, model)
       THEN model ELSE NoModel

-----------------------------------------------------------------------------
(* Evaluators and their rubrics *)

(* evaluation.yaml is read when the document has no evaluations; its       *)
(* rubrics then count when the document has none.                          *)
Raw ==
    LET data == Data
    IN IF Has(data, "evaluations") THEN data
       ELSE IF Has(data, "rubric_mapping")
       THEN With(docs["sibling"], "rubric_mapping", data["rubric_mapping"])
       ELSE docs["sibling"]

(* The grouped form is read in the order of its tiers, each evaluator once.*)
Entries(v) ==
    IF ~v.grouped THEN Range(v.at)
    ELSE LET At(i) == Get(v.at, Levels[i], <<>>)
             all == At(1) \o At(2) \o At(3)
         IN {all[i] : i \in {j \in 1..Len(all) : \A k \in 1..(j - 1) :
                               all[k].evaluator # all[j].evaluator}}

Evaluations == Entries(Get(Raw, "evaluations", NoList))

TierWords(v) ==
    IF ~v.grouped THEN Empty
    ELSE [e \in {x.evaluator : x \in Entries(v)} |->
            {WordOf[l] : l \in {k \in DOMAIN v.at :
                                  \E x \in Range(v.at[k]) : x.evaluator = e}}]

(* Mutant: a rubric without a known word counts as one.                    *)
MutKnown(labels) == labels

(* _normalize_rubric may leave nothing, and then the label is dropped.     *)
Known(labels) == Without(labels, {e \in DOMAIN labels : labels[e] = {}})

RubricMapping ==
    LET raw == Raw
    IN IF ~Has(raw, "evaluations") THEN Empty
       ELSE Over(Known(Get(raw, "rubric_mapping", Empty)),
                 TierWords(raw["evaluations"]))

(* _write_eval_summary: the buckets of the evaluators that left a file.    *)
Buckets ==
    LET labels == RubricMapping
        ran == {x.evaluator : x \in Evaluations}
    IN [word \in Words |-> {e \in ran : word \in Get(labels, e, {"outcome"})}]

-----------------------------------------------------------------------------
(* Properties *)

(* An agent has the simulator's source exactly when its image is the       *)
(* simulator's ("the two are derived alongside each other and kept         *)
(* consistent"), and is then shown no starter, however base, overlay and   *)
(* legacy keys mix; no mode that was misspelt is ever loaded.              *)
ModesAgree ==
    LET data == Data
        inSim == AgentImageMode(data) = "simulator_centric"
    IN ~Refused(data) =>
       /\ inSim <=> (Profile(data) = "sim_dev_env")
       /\ inSim => StarterVisibility(data) = "none"
       /\ \A d \in Yamls : "bogus" = Get(docs[d], "agent_image_mode", "none") =>
             d = "root" /\ Has(docs["tier"], "agent_image_mode")

(* The tiers of a family share one simulator/ and one evaluation/, and L1  *)
(* alone is staged the baseline.                                           *)
TiersAreComparable ==
    "assisted" \in tree =>
       \A tier \in {"L1", "L2", "L3"} :
          /\ SharedDirs(tier) = SharedDirs("L1")
          /\ tier # "L1" => StarterDir(tier) \notin
                              {ReferenceDir, "starter/baseline_assisted"}

(* Whatever an author mixes, what is loaded fits together.                 *)
LoadedIsConsistent == ModesAgree /\ TiersAreComparable

(* A session runs no model its runtime does not know: with a bundled card  *)
(* one the card allows, with any other, or none, one that has a route,     *)
(* whatever the card's default, an old block of the challenge, --model and *)
(* --thinking ask for together.                                            *)
RunsOnItsTerms ==
    LET data == Data
        rt == Runtime(data)
    IN ~Refused(data) =>
       \A option \in Models \cup {NoModel}, thinking \in BOOLEAN :
          LET model == RunModel(rt, option, thinking)
          IN model # NoModel =>
             IF card.exists /\ card.public /\ card.type = "bundled"
             THEN model \in card.allowed ELSE model \in Routed

(* Who declares evaluators: in its list, or in the nested block without it.*)
Declares(d) ==
    LET nested == Get(docs[d], "evaluation", NoNested)
    IN Has(docs[d], "evaluations") \/ nested.final \o nested.process # <<>>

DeclaredBy(d) ==
    LET nested == Get(docs[d], "evaluation", NoNested)
        flat == Get(docs[d], "evaluations", NoList)
    IN IF flat.grouped THEN UNION {Range(flat.at[l]) : l \in DOMAIN flat.at}
       ELSE IF Has(docs[d], "evaluations") THEN Range(flat.at)
       ELSE {Item(x.by, x.evaluator) : x \in Range(nested.final \o nested.process)}

(* The tier has the say: the evaluators of a run are those its document    *)
(* declares, the root's if it declares none, evaluation.yaml's if neither  *)
(* does, and a budget the tier sets is the run's. Two grouped forms are    *)
(* joined, and evaluations_remove empties a grouped one.                   *)
TierHasTheSay ==
    LET joined == extends /\ \A d \in Yamls :
                                Get(docs[d], "evaluations", NoList).grouped
        declared == IF Declares("tier") THEN DeclaredBy("tier")
                    ELSE IF extends /\ Declares("root") THEN DeclaredBy("root")
                    ELSE DeclaredBy("sibling")
        tier == docs["tier"]
    IN /\ ~joined /\ ~Has(tier, "evaluations_remove") =>
             {x.evaluator : x \in Evaluations} = {x.evaluator : x \in declared}
       /\ \A k \in {"metric", "max_submissions"} :
             \/ Has(tier, "eval") /\ Has(tier["eval"], k)
             \/ /\ ~Has(tier, "eval") /\ Has(tier, "evaluation")
                /\ Has(tier["evaluation"].eval, k)
             => Get(Get(Data, "eval", Empty), k, "nobody") = "tier"

(* Every evaluator that ran is in the summary, under some rubric ("an      *)
(* evaluator we don't recognize still gets a row instead of being          *)
(* dropped"), whatever its rubric says.                                    *)
NoneDropped ==
    {x.evaluator : x \in Evaluations} = UNION Range(Buckets)
=============================================================================
