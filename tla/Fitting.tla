------------------------------- MODULE Fitting -------------------------------
(***************************************************************************)
(* What a caller keeps beside the rows of a model: a Python model with its *)
(* incremental fit, a surrogate, a sampler, the files of a disk model, its *)
(* parameters, and the configuration of an optimizer.  They share no       *)
(* state; driver says which one a behaviour is about.                      *)
(***************************************************************************)
EXTENDS IncrementalFit, Surrogate, Sampler, Observations, Tuning, Configuration

CONSTANTS
  Drivers

VARIABLES
  driver

vars == <<driver, modelVars, fitVars, surrogateVars, samplerVars, obsVars, tuningVars,
          configVars>>

Arbitrary(S) == CHOOSE e \in S : TRUE

\* What a driver leaves alone does not multiply the states.
FittingInit ==
  /\ driver \in Drivers
  /\ data \in Datasets
  /\ FitInit /\ SurrogateInit /\ SamplerInit /\ ObsInit /\ TuningInit /\ ConfigInit
  /\ intact = TRUE /\ direct = FALSE
  /\ driver # "surrogate" => ~config.frozen /\ ~config.calibrates
  /\ driver # "sampler" => sampler = Reservoir(Max(Capacities), Arbitrary(Seeds))
  /\ driver \in {"sampler", "observations", "tuning", "configuration"} =>
       config.layout = Arbitrary(Layouts) /\ data = Arbitrary(Datasets)
  /\ IF driver = "incremental"
     THEN \E n \in FirstRows :
            n <= Len(data) /\ model \in Constructed(NewModel(config.layout, n), {}, n)
     ELSE model = None

FittingNext ==
  \/ driver = "incremental" /\ FitNext
     /\ UNCHANGED <<driver, surrogateVars, samplerVars, obsVars, tuningVars, configVars>>
  \/ driver = "surrogate" /\ SurrogateNext
     /\ UNCHANGED <<driver, fitVars, samplerVars, obsVars, tuningVars, configVars>>
  \/ driver = "sampler" /\ SamplerNext
     /\ UNCHANGED <<driver, modelVars, fitVars, surrogateVars, obsVars, tuningVars, configVars>>
  \/ driver = "observations" /\ ObsNext
     /\ UNCHANGED <<driver, modelVars, fitVars, surrogateVars, samplerVars, tuningVars, configVars>>
  \/ driver = "tuning" /\ TuningNext
     /\ UNCHANGED <<driver, modelVars, fitVars, surrogateVars, samplerVars, obsVars, configVars>>
  \/ driver = "configuration" /\ ConfigNext
     /\ UNCHANGED <<driver, modelVars, fitVars, surrogateVars, samplerVars, obsVars, tuningVars>>

FittingSpec == FittingInit /\ [][FittingNext]_vars
==============================================================================
