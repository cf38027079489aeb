------------------------------ MODULE Notebook ------------------------------
(***************************************************************************)
(* sql_drift_grpo_training.ipynb: its code cells, run in any order, again, *)
(* and over kernels that die.                                              *)
(*                                                                         *)
(* A variable of the kernel is the number of the configuration it belongs  *)
(* to, 0 while it is undefined; so is the adapter on disk.  The metrics    *)
(* and the curves in training/evidence are files of two writers, the       *)
(* notebook and utilities/plot_curves.py (module Evidence): such a file is *)
(* of a configuration or of records of a log.  A cell that raises leaves   *)
(* what its statements before did.                                         *)
(***************************************************************************)
EXTENDS Integers, Sequences

CONSTANT MaxConfigs      \* bound on the executions of the configuration cell

ASSUME MaxConfigsAssumption == MaxConfigs \in Nat

VARIABLES
    kernel,      \* the variables of the kernel
    configs,     \* configurations made so far
    adapter,     \* what the output directory of the notebook holds
    evidence     \* the files of training/evidence

notebookVars == <<kernel, configs, adapter, evidence>>

FreshKernel ==
    [installed |-> FALSE, url |-> FALSE, cfg |-> 0, dataset |-> 0, model |-> 0,
     trainer |-> 0, cast |-> FALSE, history |-> 0]

\* A metrics file or a curve: of a training of the notebook, or of a log.
OfConfig(n) == [config |-> n, records |-> <<>>]
OfLog(records) == [config |-> 0, records |-> records]
NoFigure == OfConfig(0)

NoEvidence == [config |-> 0, metrics |-> NoFigure, loss |-> NoFigure, reward |-> NoFigure]

-----------------------------------------------------------------------------
(* The cells *)

\* 1: pip, the clone, the package, sys.path; raises without a GPU, when all is
\* installed.
InstallCell ==
    /\ kernel' = [kernel EXCEPT !.installed = TRUE]
    /\ UNCHANGED <<configs, adapter, evidence>>

\* 2: the URL is set before the health check, which may raise.
HealthCell ==
    /\ kernel' = [kernel EXCEPT !.url = TRUE]
    /\ UNCHANGED <<configs, adapter, evidence>>

\* 3: cfg, train_dataset and grpo_config.json, in this order; stage is how far
\* the cell gets.
ConfigCell ==
    /\ kernel.installed /\ kernel.url /\ configs < MaxConfigs
    /\ configs' = configs + 1
    /\ \E done \in {"cfg", "dataset", "file"} :
           /\ kernel' = [kernel EXCEPT !.cfg = configs',
                                       !.dataset = IF done = "cfg" THEN @ ELSE configs']
           /\ evidence' = [evidence EXCEPT !.config = IF done = "file" THEN configs' ELSE @]
    /\ UNCHANGED adapter

\* 4: the quantized model and the LoRA configuration.
ModelCell ==
    /\ kernel.cfg > 0
    /\ kernel' = [kernel EXCEPT !.model = kernel.cfg]
    /\ UNCHANGED <<configs, adapter, evidence>>

\* 5: the trainer, then the cast of weights that came up in bfloat16.
TrainerCell ==
    /\ kernel.cfg > 0 /\ kernel.dataset > 0 /\ kernel.model > 0
    /\ \E cast \in BOOLEAN :
           kernel' = [kernel EXCEPT !.trainer = kernel.cfg, !.cast = cast]
    /\ UNCHANGED <<configs, adapter, evidence>>

\* Mutant: the history is taken before the adapter is saved.
HistoryFirst(done) ==
    /\ adapter' = IF done = "history" THEN kernel.trainer ELSE adapter
    /\ kernel' = [kernel EXCEPT !.history = kernel.trainer]

\* 6, after trainer.train(): save_model, then history.
AfterTraining(done) ==
    /\ adapter' = kernel.trainer
    /\ kernel' = [kernel EXCEPT !.history = IF done = "history" THEN kernel.trainer ELSE @]

\* 6: with weights that were not cast the first step raises, as anything may.
TrainCell ==
    /\ kernel.trainer > 0 /\ kernel.cast
    /\ \E done \in {"adapter", "history"} : AfterTraining(done)
    /\ UNCHANGED <<configs, evidence>>

\* 7: the CSV, the loss curve, the reward curve, over what is there; a metric that
\* is not found ends the cell after the CSV.
EvidenceCell ==
    /\ kernel.history > 0 /\ kernel.cfg > 0
    /\ \E done \in {"metrics", "loss", "reward"} :
           evidence' = [evidence EXCEPT
               !.metrics = OfConfig(kernel.history),
               !.loss = IF done = "metrics" THEN @ ELSE OfConfig(kernel.history),
               !.reward = IF done = "reward" THEN OfConfig(kernel.history) ELSE @]
    /\ UNCHANGED <<kernel, configs, adapter>>

KernelDies ==
    /\ kernel # FreshKernel
    /\ kernel' = FreshKernel
    /\ UNCHANGED <<configs, adapter, evidence>>

-----------------------------------------------------------------------------
(* The specification *)

NotebookInit ==
    kernel = FreshKernel /\ configs = 0 /\ adapter = 0 /\ evidence = NoEvidence

NotebookStep ==
    \/ InstallCell \/ HealthCell \/ ConfigCell \/ ModelCell \/ TrainerCell
    \/ TrainCell \/ EvidenceCell \/ KernelDies
=============================================================================
