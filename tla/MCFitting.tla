------------------------------ MODULE MCFitting ------------------------------
(* Instance of Fitting for TLC. *)
EXTENDS Fitting

Points == {<< <<0>>, <<2>>, <<32>>, <<0>>, <<1>>, <<7>> >>}
LearnedScales == {<<3>>}
AllLayouts == LegalLayouts
OneDim == {1}
\* Both sides, one side, and bounds that are refused.
OneMetric == {<<0, 2>>, <<0, Unbounded>>, <<2, 0>>}
\* 3 is within the second only.
Calls == {<<1>>, <<3>>, <<1, 1>>}

\* A change sets what only makes sense together; each check of the code refuses some.
FormSettings ==
  {[acquisition |-> a] : a \in {"ucb", "thompson", "random", "pareto"}}
  \cup {[candidate_rv |-> "sobol"], [candidate_rv |-> "raasp", raasp_fast |-> TRUE],
        [min_candidates |-> 1, max_candidates |-> 1], [min_candidates |-> 0, max_candidates |-> 0],
        [min_candidates |-> 0, num_candidates_per_dim |-> 0, num_candidates_per_arm |-> 1],
        [num_init |-> 0], [num_init |-> 2], [init |-> "lhd"],
        [trust_region |-> "none"], [trust_region |-> "turbo", noise_aware |-> TRUE],
        [trust_region |-> "morbo", num_metrics |-> 1], [trust_region |-> "morbo", num_metrics |-> 2, alpha |-> 0],
        [trust_region |-> "morbo", num_metrics |-> 2, rescalarize |-> "on_propose"],
        [length_init |-> 1280], [length_init |-> 5], [length_min |-> 1100], [length_max |-> 0],
        [length_min |-> 5, length_max |-> 20], [length_init |-> 12, length_max |-> 10],
        [surrogate |-> "enn"], [surrogate |-> "enn", k |-> 0], [surrogate |-> "enn", k |-> 3],
        [num_fit_samples |-> 2], [num_fit_samples |-> 0], [num_fit_candidates |-> 3],
        [num_fit_samples |-> 2, num_fit_candidates |-> 3, infer_aleatoric_variance |-> FALSE, affine_calibrate |-> TRUE],
        [index_driver |-> "BPANN_DISK", enn_storage |-> "DISK"], [enn_storage |-> "DISK", work_dir |-> "rows"],
        [index_driver |-> "BPANN_DISK", enn_storage |-> "DISK", work_dir |-> "rows", metric_learning |-> "AUTO"],
        [work_dir |-> "rows"], [enn_storage |-> "MEMORY"],
        [scale_x |-> TRUE], [metric_learning |-> "AUTO"],
        [tied_dims |-> << <<0, 1>> >>], [tied_dims |-> << <<0>>, <<0>> >>], [tied_dims |-> << <<2>> >>],
        [y_bounds |-> 1], [y_bounds |-> 2]}
KeySettings ==
  {[acquisition |-> a] : a \in {"ucb", "thompson", "pareto", "best"}}
  \cup {[colour |-> "red"], [candidate_rv |-> "uniform"],
        [min_candidates |-> 1, max_candidates |-> 1], [max_candidates |-> 0, min_candidates |-> 0],
        [trust_region |-> "turbo"], [trust_region |-> "morbo"], [trust_region |-> "MORBO"],
        [trust_region |-> "morbo", num_metrics |-> 1, alpha |-> 1],
        [trust_region |-> "morbo", num_metrics |-> 2, alpha |-> 0],
        [num_metrics |-> 2, alpha |-> 1], [rescalarize |-> "on_propose"],
        [length_init |-> 1280], [length_max |-> 100], [noise_aware |-> TRUE],
        [num_fit_samples |-> 2], [num_fit_samples |-> 0], [num_fit_candidates |-> 3],
        [freeze_params |-> TRUE], [freeze_params |-> FALSE],
        [index_driver |-> "BPANN_DISK", enn_storage |-> "DISK"], [work_dir |-> "rows"],
        [metric_learning |-> "AUTO"], [tied_dims |-> << <<0, 1>> >>], [y_bounds |-> 2]}
Directories == {Unset, "environment"}
==============================================================================
