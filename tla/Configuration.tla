---------------------------- MODULE Configuration ----------------------------
(***************************************************************************)
(* How an optimizer comes to be as its caller configured it.  A Python     *)
(* caller fills in a form (src/enn/turbo/config), which is sent to the     *)
(* extension as a dictionary of the keys that were set; another may call   *)
(* the extension with any dictionary.  A factory puts the keys over its    *)
(* own defaults and refuses what does not go together                      *)
(* (enn-py/src/py_optimizer.rs, ennbo/src/config.rs and the modules        *)
(* beside it).  Then the optimizer is asked and told, and must serve every *)
(* call however it was configured.                                         *)
(*                                                                         *)
(* Fields have the names of the dictionary's keys.  Lengths are multiples  *)
(* of 1/1280, alpha of its default; of y_bounds there is the number of its *)
(* rows.  Which tell collapses a region is left open: TrustRegion says it. *)
(***************************************************************************)
EXTENDS Integers, Sequences, FiniteSetsExt

CONSTANTS
  Inputs,              \* dimensions of the problem
  FormChanges,         \* what a caller sets in a form, a few fields at a time
  KeyChanges,          \* what a caller of the extension puts in a dictionary
  Ks, Budgets,         \* arguments of the extension's functions
  WorkDirs,            \* values of ENN_WORK_DIR
  Arms, TellSizes,     \* points of an ask, and of a tell
  Unset,               \* no value
  Denied               \* no optimizer, no answer

VARIABLES
  given,  \* what the last optimizer was created from
  built,  \* its configuration, keyed as a dictionary
  run,    \* the optimizer, as far as its configuration decides about calls
  answer  \* of the last ask or tell

configVars == <<given, built, run, answer>>

---------------------------------------------------------------------------
(* Keys                                                                    *)

LengthKeys == {"length_init", "length_min", "length_max"}
MorboKeys == {"num_metrics", "alpha", "rescalarize"}
CountKeys ==
  {"min_candidates", "max_candidates", "num_candidates_per_dim", "num_candidates_per_arm"}
SearchKeys ==
  {"num_fit_samples", "num_fit_candidates", "infer_aleatoric_variance", "affine_calibrate"}
LayoutKeys == {"index_driver", "enn_storage", "work_dir", "scale_x", "metric_learning"}

ConfigOverrideKeys ==
  {"acquisition", "candidate_rv", "raasp_fast", "trust_region", "noise_aware"}
    \cup CountKeys \cup LengthKeys \cup MorboKeys
EnnOverrideKeys == {"freeze_params", "y_bounds", "tied_dims"} \cup SearchKeys \cup LayoutKeys

Spellings ==
  [acquisition |-> {"ucb", "thompson", "random", "pareto"},
   candidate_rv |-> {"sobol", "uniform", "raasp"},
   trust_region |-> {"turbo", "morbo"},
   rescalarize |-> {"on_restart", "on_propose"},
   index_driver |-> {"FLAT", "BPANN_DISK"},
   enn_storage |-> {"MEMORY", "DISK"},
   metric_learning |-> {"NONE", "AUTO"}]

Has(keys, key) == key \in DOMAIN keys
Value(keys, key, default) == IF Has(keys, key) THEN keys[key] ELSE default
\* f put over g.
f ++ g == [key \in DOMAIN f \cup DOMAIN g |-> IF key \in DOMAIN f THEN f[key] ELSE g[key]]
Only(f, S) == [key \in DOMAIN f \cap S |-> f[key]]

---------------------------------------------------------------------------
(* Checks that the two sides share                                         *)

NeedsSurrogate(acquisition) == acquisition \in {"ucb", "thompson"}

\* validate_optimizer_rules
RulesHold(lhdOnly, surrogate, acquisition) ==
  /\ ~(lhdOnly /\ surrogate)
  /\ NeedsSurrogate(acquisition) => surrogate

\* EnnLayout::try_from_parts.  No storage is memory.
WorkDir(place, env) == IF place.work_dir = Unset THEN env ELSE place.work_dir
PlacementHolds(place, env) ==
  IF place.enn_storage = "DISK"
  THEN /\ place.index_driver = "BPANN_DISK" /\ WorkDir(place, env) # Unset
       /\ place.metric_learning = "AUTO" => ~place.scale_x
  ELSE place.work_dir = Unset /\ place.metric_learning # "AUTO"

\* validate_tied_dims
TiedInRange(groups, n) == \A i \in DOMAIN groups : \A j \in DOMAIN groups[i] : groups[i][j] < n
TiedApart(groups) ==
  /\ \A i \in DOMAIN groups : groups[i] # <<>>
  /\ \A i, k \in DOMAIN groups : \A j \in DOMAIN groups[i], l \in DOMAIN groups[k] :
       groups[i][j] = groups[k][l] => i = k /\ j = l

\* TRLengthConfig::check
LengthsHold(c) ==
  /\ \A key \in LengthKeys : c[key] > 0
  /\ c.length_min < c.length_max
  /\ c.length_min <= c.length_init /\ c.length_init <= c.length_max

---------------------------------------------------------------------------
(* The form                                                                *)

EnnForm ==
  [k |-> Unset, num_fit_samples |-> Unset, num_fit_candidates |-> Unset,
   infer_aleatoric_variance |-> Unset, affine_calibrate |-> FALSE, scale_x |-> FALSE,
   metric_learning |-> "NONE", tied_dims |-> <<>>, index_driver |-> "FLAT",
   enn_storage |-> Unset, work_dir |-> Unset, y_bounds |-> Unset]
RegionForm ==
  [length_init |-> Unset, length_min |-> Unset, length_max |-> Unset, noise_aware |-> FALSE]
MorboForm == [num_metrics |-> Unset, alpha |-> 1, rescalarize |-> "on_restart"]

\* The types of the fields of a form.  A number below zero is refused wherever zero is.
FormTypes ==
  [k |-> Nat \cup {Unset}, num_fit_samples |-> Nat \cup {Unset},
   num_fit_candidates |-> Nat \cup {Unset}, infer_aleatoric_variance |-> BOOLEAN \cup {Unset},
   affine_calibrate |-> BOOLEAN, scale_x |-> BOOLEAN,
   metric_learning |-> Spellings.metric_learning, tied_dims |-> Seq(Seq(Nat)),
   index_driver |-> Spellings.index_driver, enn_storage |-> {Unset} \cup Spellings.enn_storage,
   work_dir |-> {Unset} \cup STRING, y_bounds |-> Nat \cup {Unset},
   length_init |-> Nat \cup {Unset}, length_min |-> Nat \cup {Unset},
   length_max |-> Nat \cup {Unset}, noise_aware |-> BOOLEAN,
   num_metrics |-> Nat \cup {Unset}, alpha |-> Nat, rescalarize |-> Spellings.rescalarize,
   init |-> {"hybrid", "lhd"}, num_init |-> Nat \cup {Unset},
   trust_region |-> {"none"} \cup Spellings.trust_region, surrogate |-> {"none", "enn"},
   acquisition |-> Spellings.acquisition, candidate_rv |-> {Unset} \cup Spellings.candidate_rv,
   raasp_fast |-> BOOLEAN, min_candidates |-> Nat, max_candidates |-> Nat,
   num_candidates_per_dim |-> Nat, num_candidates_per_arm |-> Nat]

\* OptimizerConfig()
DefaultForm ==
  EnnForm ++ RegionForm ++ MorboForm ++
  [init |-> "hybrid", num_init |-> Unset, trust_region |-> "turbo", surrogate |-> "none",
   acquisition |-> "random", candidate_rv |-> Unset, raasp_fast |-> FALSE,
   min_candidates |-> 10, max_candidates |-> 5000,
   num_candidates_per_dim |-> 100, num_candidates_per_arm |-> 0]

\* turbo_zero_config, turbo_enn_config, lhd_only_config
FactoryForms ==
  {DefaultForm,
   [DefaultForm EXCEPT !.surrogate = "enn", !.acquisition = "pareto"],
   [DefaultForm EXCEPT !.init = "lhd", !.trust_region = "none", !.min_candidates = 1,
                       !.max_candidates = 1000000000, !.num_candidates_per_dim = 1]}

\* A part that is not in the form has no fields.
WholeForm(f) ==
  /\ f.surrogate = "none" => Only(f, DOMAIN EnnForm) = EnnForm
  /\ f.trust_region = "none" => Only(f, DOMAIN RegionForm) = RegionForm
  /\ f.trust_region # "morbo" => Only(f, MorboKeys) = MorboForm
  /\ f.trust_region = "morbo" => f.num_metrics # Unset

\* Up to two of the changes put over one of fs.
Changed(fs, changes) ==
  {first ++ second ++ f : first, second \in changes \cup {<<>>}, f \in fs}

Forms == {f \in Changed(FactoryForms, FormChanges) : WholeForm(f)}

\* TRLengthConfig.__post_init__: what is not set is not compared.
FormLengthsHold(f) ==
  /\ \A key \in LengthKeys : f[key] # Unset => f[key] > 0
  /\ Unset \notin {f.length_min, f.length_max} => f.length_min < f.length_max
  /\ Unset \notin {f.length_init, f.length_max} => f.length_init <= f.length_max
  /\ Unset \notin {f.length_min, f.length_init} => f.length_min <= f.length_init

\* ENNFitConfig and ENNSurrogateConfig; num_dim is not known yet, so any dimension is in range.
EnnFormHolds(f, env) ==
  /\ f.num_fit_samples # 0 /\ f.num_fit_candidates # 0
  /\ f.num_fit_samples = Unset => \A key \in SearchKeys : f[key] = EnnForm[key]
  /\ PlacementHolds(f, env)
  /\ f.tied_dims # <<>> => f.metric_learning = "AUTO" /\ TiedApart(f.tied_dims)

FormHolds(f, env) ==
  /\ f.num_init # 0
  /\ FormLengthsHold(f)
  /\ f.trust_region = "morbo" => f.num_metrics >= 2 /\ f.alpha > 0
  /\ f.surrogate = "enn" => EnnFormHolds(f, env)
  /\ RulesHold(f.init = "lhd", f.surrogate = "enn", f.acquisition)

\* _config_to_rust_overrides: a key for what is set, and for what has a default of its own.
SetIn(f, keys) == {key \in keys : f[key] # DefaultForm[key]}
Sent(f) ==
  {"acquisition"} \cup CountKeys \cup SetIn(f, {"candidate_rv", "raasp_fast"})
  \cup (IF f.trust_region = "none" THEN {} ELSE SetIn(f, LengthKeys \cup {"noise_aware"}))
  \cup (IF f.trust_region = "morbo" THEN {"trust_region"} \cup MorboKeys ELSE {})
  \cup (IF f.surrogate = "none" THEN {}
        ELSE {"index_driver", "scale_x", "metric_learning"}
             \cup {IF f.num_fit_samples = Unset THEN "freeze_params" ELSE "num_fit_samples"}
             \cup {key \in {"infer_aleatoric_variance"} : f[key] # Unset}
             \cup SetIn(f, {"num_fit_candidates", "tied_dims", "affine_calibrate",
                            "y_bounds", "enn_storage", "work_dir"}))
SentValue(f, key) == IF key = "freeze_params" THEN TRUE ELSE f[key]
\* The mutant leaves out the lengths of a region of the default kind.
OverridesWithoutLengths(f) ==
  [key \in Sent(f) \ (IF f.trust_region = "morbo" THEN {} ELSE LengthKeys) |-> SentValue(f, key)]
Overrides(f) == [key \in Sent(f) |-> SentValue(f, key)]

\* create_optimizer
EntryFor(f) ==
  IF f.trust_region = "none" /\ f.init = "lhd" /\ f.surrogate = "none" THEN "lhd"
  ELSE IF f.surrogate = "enn" THEN "enn" ELSE "zero"

---------------------------------------------------------------------------
(* The extension and its factories                                         *)

\* reject_unknown_override_keys, and the spellings of each name
KeysKnown(keys) == DOMAIN keys \subseteq ConfigOverrideKeys \cup EnnOverrideKeys
NamesKnown(keys) ==
  \A key \in DOMAIN keys \cap DOMAIN Spellings : keys[key] \in Spellings[key]

\* parse_morbo_override
MorboWhole(keys) ==
  IF Value(keys, "trust_region", Unset) = "morbo"
  THEN Has(keys, "num_metrics") /\ Has(keys, "alpha")
  ELSE DOMAIN keys \cap MorboKeys = {}

\* parse_fit_samples
FitWhole(keys) ==
  /\ Value(keys, "num_fit_samples", 1) # 0 /\ Value(keys, "num_fit_candidates", 1) # 0
  /\ Value(keys, "freeze_params", FALSE) => DOMAIN keys \cap SearchKeys = {}

\* parse_config_overrides_from_dict, parse_enn_overrides
Parses(keys) == KeysKnown(keys) /\ NamesKnown(keys) /\ MorboWhole(keys) /\ FitWhole(keys)

\* turbo_zero_config; turbo_enn_config differs in its acquisition.
BaseTurbo(entry) ==
  [acquisition |-> IF entry = "enn" THEN "ucb" ELSE "random",
   candidate_rv |-> "raasp", raasp_fast |-> FALSE,
   min_candidates |-> 10, max_candidates |-> 5000,
   num_candidates_per_dim |-> 100, num_candidates_per_arm |-> 0, noise_aware |-> FALSE]
BaseLhd ==
  [BaseTurbo("lhd") EXCEPT !.candidate_rv = "uniform", !.min_candidates = 1,
     !.max_candidates = 1000000000, !.num_candidates_per_dim = 1]

\* TrustRegionConfig::default, TRLengthConfig::default
BaseRegion ==
  [trust_region |-> "turbo", num_metrics |-> 1, alpha |-> Unset, rescalarize |-> "on_restart",
   length_init |-> 1024, length_min |-> 10, length_max |-> 2048]

\* ScaleSearch::default, ENNSurrogateConfig::default
BaseSearch ==
  [num_fit_samples |-> 10, num_fit_candidates |-> 30,
   infer_aleatoric_variance |-> TRUE, affine_calibrate |-> FALSE]
BaseEnn ==
  BaseSearch ++
  [k |-> 10, freeze_params |-> FALSE, index_driver |-> "FLAT", enn_storage |-> "MEMORY",
   work_dir |-> Unset, scale_x |-> FALSE, metric_learning |-> "NONE", y_bounds |-> Unset,
   tied_dims |-> <<>>]

Base(entry) ==
  BaseRegion ++ (IF entry = "lhd" THEN BaseLhd ELSE BaseTurbo(entry))
             ++ (IF entry = "enn" THEN BaseEnn ELSE <<>>)

IsEnn(c) == Has(c, "k")

\* resolve_k
WithK(c, k) == IF IsEnn(c) /\ k # Unset THEN [c EXCEPT !.k = k] ELSE c

\* SearchOverrides::apply: frozen scales have no search.
FitApplied(c) == [key \in SearchKeys |-> IF c.freeze_params THEN Unset ELSE c[key]] ++ c

\* EnnOverrides::layout: only disk has a directory.
LayoutApplied(c, env) ==
  [work_dir |-> IF c.enn_storage = "DISK" THEN WorkDir(c, env) ELSE Unset] ++ c

\* ConfigOverrides::apply_to
Applied(c, keys, env) ==
  LET over == keys ++ c
  IN IF IsEnn(over) THEN LayoutApplied(FitApplied(over), env) ELSE over

\* apply_trust_region_overrides and MorboTrustRegion::new: lengths are resolved when there
\* is something to resolve.
RegionAccepted(c, keys) ==
  /\ Has(keys, "trust_region") \/ DOMAIN keys \cap LengthKeys # {} => LengthsHold(c)
  /\ c.trust_region = "morbo" => c.num_metrics >= 2

\* require_fit_samples
FitAccepted(c) == c.freeze_params => ~NeedsSurrogate(c.acquisition)

\* ENNSurrogateConfig::validate
TiedAccepted(c) ==
  c.tied_dims # <<>> =>
    c.metric_learning = "AUTO" /\ TiedInRange(c.tied_dims, Inputs) /\ TiedApart(c.tied_dims)

\* NeighborCount::new
NeighborCountHolds(k) == k >= 1

\* apply_enn_overrides
EnnAccepted(c, env) ==
  NeighborCountHolds(c.k) /\ PlacementHolds(c, env) /\ FitAccepted(c) /\ TiedAccepted(c)

FactoryAccepts(entry, k, keys, env) ==
  LET c == keys ++ WithK(Base(entry), k)
  IN /\ RegionAccepted(c, keys)
     /\ DOMAIN keys \cap EnnOverrideKeys # {} => entry = "enn"
     /\ RulesHold(entry = "lhd", entry = "enn", c.acquisition)
     /\ entry = "enn" => EnnAccepted(c, env)

DefaultNumInit == 10
Strategy(entry) == IF entry = "lhd" THEN "init" ELSE "hybrid"

Assembled(entry, k, numInit, keys, env) ==
  Applied(WithK(Base(entry), k), keys, env)
  ++ [strategy |-> Strategy(entry),
      num_init |-> IF numInit = Unset THEN DefaultNumInit ELSE numInit]

Created(entry, k, numInit, keys, env) ==
  IF Parses(keys) /\ FactoryAccepts(entry, k, keys, env)
  THEN Assembled(entry, k, numInit, keys, env) ELSE Denied

---------------------------------------------------------------------------
(* The optimizer                                                           *)

Runs ==
  [hybrid : BOOLEAN, num_init : Nat, turbo : BOOLEAN, surrogate : BOOLEAN,
   acquisition : Spellings.acquisition, pool : [Arms -> Int], boundsFit : BOOLEAN,
   completed : Nat, in_init : BOOLEAN, reinit_left : Nat,
   fitted : BOOLEAN, collapsed : BOOLEAN, rows : Nat]

\* What a caller writes has the type of its key, and no ask is for no points.
ASSUME ConfigurationAssumption ==
  /\ Inputs \in Nat /\ Arms \subseteq Nat \ {0} /\ TellSizes \subseteq Nat
  /\ Budgets \subseteq Nat \cup {Unset}
  /\ \A change \in FormChanges : \A key \in DOMAIN change :
       key \in DOMAIN FormTypes /\ change[key] \in FormTypes[key]
  /\ \A change \in KeyChanges : \A key \in DOMAIN change :
       /\ key \in CountKeys => change[key] \in Nat
       /\ key = "work_dir" => change[key] # Unset
  /\ Denied \notin Nat /\ Unset \notin Runs /\ Unset \notin Nat
  /\ \A key \in DOMAIN Spellings : Unset \notin Spellings[key]

\* What stands for no optimizer is not a configuration.
ASSUME DeniedAssumption ==
  \A f \in Forms, env \in WorkDirs :
    Assembled(EntryFor(f), f.k, f.num_init, Overrides(f), env) # Denied

AtLeast(a, b) == IF a >= b THEN a ELSE b
AtMost(a, b) == IF a <= b THEN a ELSE b

\* CandidateConfig::num_candidates
NumCandidates(c, arms) ==
  AtLeast(c.min_candidates,
          AtMost(c.max_candidates,
                 c.num_candidates_per_dim * Inputs + c.num_candidates_per_arm * arms))

\* What the calls read.  rows and boundsFit are not the optimizer's: the rows told of this
\* region, up to the sample's size, and whether y_bounds have as many rows as its metrics.
Fresh(c) ==
  [hybrid |-> c.strategy = "hybrid", num_init |-> c.num_init, turbo |-> c.trust_region = "turbo",
   surrogate |-> IsEnn(c), acquisition |-> c.acquisition,
   pool |-> [n \in Arms |-> NumCandidates(c, n)],
   boundsFit |-> IsEnn(c) => c.y_bounds \in {Unset, c.num_metrics},
   completed |-> 0, in_init |-> TRUE, reinit_left |-> 0,
   fitted |-> FALSE, collapsed |-> FALSE, rows |-> 0]

Stage(r) ==
  IF r.reinit_left > 0 THEN "reinit"
  ELSE IF ~r.hybrid \/ r.in_init THEN "init" ELSE "search"

\* begin_local_restart.  The mutant forgets the new sample.
BegunWithoutSample(r) ==
  IF r.collapsed THEN [r EXCEPT !.fitted = FALSE, !.collapsed = FALSE, !.rows = 0] ELSE r
Begun(r) ==
  IF r.collapsed THEN [r EXCEPT !.fitted = FALSE, !.collapsed = FALSE, !.rows = 0,
                                !.reinit_left = r.num_init]
  ELSE r

\* select_arms: an acquisition that reads a surrogate needs it fitted, a draw may repeat
\* a candidate, and no candidates are no answer.
Reads(r) == r.surrogate /\ r.acquisition # "random"
Selected(r, n) ==
  IF r.pool[n] = 0 \/ (Reads(r) /\ ~r.fitted) THEN Denied
  ELSE IF Reads(r) /\ r.acquisition = "thompson" THEN n ELSE AtMost(n, r.pool[n])

\* ask_local_reinit
ReinitArms(r, n) == AtLeast(AtMost(n, r.reinit_left), 1)

Asked(r, n) ==
  CASE Stage(r) = "reinit" -> ReinitArms(r, n)
    [] Stage(r) = "init" -> n
    [] Stage(r) = "search" -> Selected(r, n)

\* tell_init counts the rows before it stores them.
TellFails(r) == r.surrogate /\ ~r.fitted /\ ~r.boundsFit
CountedInit(r, n) ==
  IF Stage(r) = "init" THEN [r EXCEPT !.completed = AtMost(r.completed + n, r.num_init)] ELSE r
Judging(r) == IF Stage(r) = "search" /\ r.turbo THEN BOOLEAN ELSE {r.collapsed}
Told(r, n) ==
  LET c == CountedInit(r, n)
  IN {[c EXCEPT !.fitted = c.surrogate, !.rows = AtMost(c.rows + n, c.num_init),
                !.reinit_left = AtLeast(c.reinit_left - n, 0), !.collapsed = collapses,
                !.in_init = c.in_init /\ ~(c.hybrid /\ c.completed >= c.num_init)] :
        collapses \in Judging(r)}

---------------------------------------------------------------------------
(* Calls                                                                   *)

Create(how, c) ==
  /\ given' = how /\ built' = c
  /\ run' = IF c = Denied THEN Unset ELSE Fresh(c)
  /\ UNCHANGED answer

\* create_optimizer of Python
CreateFromForm ==
  /\ given = Unset /\ run = Unset
  /\ \E f \in Forms, env \in WorkDirs :
       Create([form |-> f, env |-> env],
              IF FormHolds(f, env)
              THEN Created(EntryFor(f), IF f.surrogate = "enn" THEN f.k ELSE Unset, f.num_init,
                           Overrides(f), env)
              ELSE Denied)

\* create_optimizer_enn_py, create_optimizer_zero_py, create_optimizer_lhd_py
CreateFromKeys ==
  /\ given = Unset /\ run = Unset
  /\ \E entry \in {"enn", "zero", "lhd"}, keys \in Changed({<<>>}, KeyChanges), env \in WorkDirs :
     \E k \in IF entry = "enn" THEN Ks ELSE {Unset}, numInit \in Budgets :
       Create([keys |-> keys, env |-> env], Created(entry, k, numInit, keys, env))

Ask ==
  \E n \in Arms :
    /\ run # Unset
    /\ given' = Unset /\ built' = Unset
    /\ run' = Begun(run)
    /\ answer' = [of |-> Stage(run'), asked |-> n, got |-> Asked(run', n)]

Tell ==
  \E n \in TellSizes :
    /\ run # Unset
    /\ given' = Unset /\ built' = Unset
    /\ IF TellFails(run)
       THEN run' = CountedInit(run, n) /\ answer' = [of |-> "tell", asked |-> n, got |-> Denied]
       ELSE run' \in Told(run, n) /\ answer' = [of |-> "tell", asked |-> n, got |-> n]

ConfigInit == given = Unset /\ built = Unset /\ run = Unset /\ answer = Unset
ConfigNext == CreateFromForm \/ CreateFromKeys \/ Ask \/ Tell

---------------------------------------------------------------------------
(* What a configuration says, in the words of the form's documentation.    *)

Or(value, default) == IF value = Unset THEN default ELSE value

StatedLengths(f) ==
  [length_init |-> Or(f.length_init, 1024), length_min |-> Or(f.length_min, 10),
   length_max |-> Or(f.length_max, 2048)]

StatedEnn(f) ==
  [k |-> Or(f.k, 10), freeze_params |-> f.num_fit_samples = Unset,
   num_fit_samples |-> f.num_fit_samples,
   scale_x |-> f.scale_x, metric_learning |-> f.metric_learning, tied_dims |-> f.tied_dims,
   index_driver |-> f.index_driver, enn_storage |-> Or(f.enn_storage, "MEMORY"),
   y_bounds |-> f.y_bounds]
  ++ IF f.num_fit_samples = Unset THEN <<>>
     ELSE [num_fit_candidates |-> Or(f.num_fit_candidates, 30),
           infer_aleatoric_variance |-> Or(f.infer_aleatoric_variance, TRUE),
           affine_calibrate |-> f.affine_calibrate]

Stated(f) ==
  Only(f, {"acquisition", "raasp_fast", "noise_aware"} \cup CountKeys)
  ++ StatedLengths(f)
  ++ [strategy |-> IF f.init = "lhd" THEN "init" ELSE "hybrid", num_init |-> Or(f.num_init, 10),
      candidate_rv |-> Or(f.candidate_rv, IF f.init = "lhd" THEN "uniform" ELSE "raasp")]
  ++ (IF f.trust_region = "morbo" THEN Only(f, {"trust_region"} \cup MorboKeys)
      ELSE [trust_region |-> "turbo"])
  ++ (IF f.surrogate = "enn" THEN StatedEnn(f) ELSE <<>>)

\* A form that no side has a reason to refuse.
Sound(f, env) ==
  /\ f.num_init # 0
  /\ LengthsHold(StatedLengths(f))
  /\ f.trust_region = "morbo" => f.num_metrics > 1 /\ f.alpha > 0
  /\ f.surrogate = "none" => f.acquisition \in {"random", "pareto"}
  /\ f.surrogate = "enn" =>
       LET disk == f.enn_storage = "DISK"
           dims == UNION {{<<i, j>> : j \in DOMAIN f.tied_dims[i]} : i \in DOMAIN f.tied_dims}
       IN /\ f.init # "lhd"
          /\ f.k # 0 /\ f.num_fit_samples # 0 /\ f.num_fit_candidates # 0
          /\ f.num_fit_samples = Unset =>
               /\ f.acquisition \in {"random", "pareto"}
               /\ f.num_fit_candidates = Unset /\ f.infer_aleatoric_variance = Unset
               /\ ~f.affine_calibrate
          /\ disk => f.index_driver = "BPANN_DISK" /\ {f.work_dir, env} # {Unset}
          /\ f.work_dir # Unset => disk
          /\ f.metric_learning = "AUTO" => disk /\ ~f.scale_x
          /\ f.tied_dims # <<>> => f.metric_learning = "AUTO"
          /\ \A i \in DOMAIN f.tied_dims : f.tied_dims[i] # <<>>
          /\ \A d \in dims : f.tied_dims[d[1]][d[2]] \in 0..(Inputs - 1)
          /\ Cardinality({f.tied_dims[d[1]][d[2]] : d \in dims}) = Cardinality(dims)

\* lhd_only_config with a region, and a form with a surrogate or a search and no region,
\* have no factory of their own.
HasFactory(f) == (f.trust_region = "none") = (f.init = "lhd")

(* rust_optimizer_helpers.py, py_optimizer.rs, config.rs, optimizer_factory.rs: a form      *)
(* builds an optimizer exactly if each of its parts is sound with the defaults of what is   *)
(* not set, and every field that is set is in force in it, every other at its default; a    *)
(* dictionary either builds an optimizer in which every key it has is in force, or none.    *)
BuiltAsConfigured ==
  given # Unset =>
    IF Has(given, "form")
    THEN LET f == given.form
         IN HasFactory(f) =>
              IF Sound(f, given.env)
              THEN /\ built # Denied
                   /\ \A key \in DOMAIN Stated(f) : built[key] = Stated(f)[key]
                   /\ IsEnn(built) = (f.surrogate = "enn")
                   /\ f.enn_storage = "DISK" => built.work_dir = Or(f.work_dir, given.env)
              ELSE built = Denied
    ELSE built # Denied =>
           \A key \in DOMAIN given.keys : built[key] = given.keys[key]

\* Tells fit the bounds of y, there are candidates, and a search with a surrogate has a sample.
WellPosed(r) ==
  /\ r.boundsFit /\ \A n \in Arms : r.pool[n] > 0
  /\ Reads(r) => r.num_init > 0

(* optimizer/restart.rs, strategy/mod.rs: however many rows are told at a time, and however *)
(* often a region collapses, an optimizer refuses no call; a search begins only when the    *)
(* region's whole sample is told, LHD-only never searches, and an ask has fewer points than *)
(* were asked for only at the end of a new sample or of the candidates.                     *)
ServesEveryCall ==
  answer # Unset /\ WellPosed(run) =>
    /\ answer.got # Denied
    /\ answer.of = "search" => run.hybrid /\ run.rows >= run.num_init
    /\ answer.of # "tell" =>
         /\ answer.got \in 1..answer.asked
         /\ answer.got < answer.asked =>
              answer.got = IF answer.of = "search" THEN run.pool[answer.asked] ELSE run.reinit_left
=============================================================================
