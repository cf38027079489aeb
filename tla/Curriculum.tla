----------------------------- MODULE Curriculum -----------------------------
(***************************************************************************)
(* The configuration of a training run and what is drawn from it:          *)
(* GRPOConfig and CurriculumConfig of training/config.py, iter_curriculum  *)
(* and build_dataset of training/grpo_train.py.                            *)
(*                                                                         *)
(* A manifest is a record of the fields that decide something.  The ids of *)
(* its scenarios are not validated; only reset() knows them.                *)
(***************************************************************************)
EXTENDS Integers, Sequences

CONSTANTS
    ALL_SCENARIOS,   \* the ids of the registry, in order
    Manifests        \* configurations train() is started with on this machine

\* A manifest as GRPOConfig has it; absent weights are the empty sequence.  An
\* interval of zero steps is left out: the trainer refuses or ignores it.
ASSUME ManifestAssumption ==
    /\ ALL_SCENARIOS \in Seq(STRING)
    /\ \A m \in Manifests :
           /\ {m.group_size, m.max_steps, m.gradient_accumulation_steps} \subseteq Nat
           /\ {m.logging_steps, m.save_steps} \subseteq Nat \ {0}
           /\ {m.fp16, m.bf16} \subseteq BOOLEAN
           /\ m.curriculum.mode \in {"uniform", "weighted", "static_order"}
           /\ m.curriculum.scenarios \in Seq(STRING)
           /\ m.curriculum.weights \in Seq(Nat)

Elements(seq) == {seq[i] : i \in DOMAIN seq}

\* CurriculumConfig.__post_init__.
CurriculumValid(c) ==
    /\ c.scenarios # <<>>
    /\ c.mode = "weighted" => /\ Len(c.weights) = Len(c.scenarios)
                              /\ Elements(c.weights) \subseteq Nat
                              /\ Elements(c.weights) # {0}
    /\ 0 <= c.seed_range[1] /\ c.seed_range[1] < c.seed_range[2]

\* GRPOConfig.__post_init__.
ConfigValid(m) ==
    /\ m.group_size >= 2
    /\ m.max_steps >= 1
    /\ ~(m.fp16 /\ m.bf16)
    /\ CurriculumValid(m.curriculum)

\* Mutant: scenarios are drawn whatever their weight.
DrawnUnweighted(c, i) == Elements(c.scenarios)

\* iter_curriculum: what the i-th draw may be, counted from 0.
Drawn(c, i) ==
    CASE c.mode = "uniform" -> Elements(c.scenarios)
      [] c.mode = "weighted" ->
             {c.scenarios[k] : k \in {j \in DOMAIN c.scenarios : c.weights[j] > 0}}
      [] OTHER -> {c.scenarios[(i % Len(c.scenarios)) + 1]}

\* The rows train() asks for; max_steps and group_size are at least one.
NumRows(m) == m.max_steps * m.group_size

\* The scenarios a row of build_dataset may have; TRL shuffles the rows.
RowScenarios(m) == UNION {Drawn(m.curriculum, i) : i \in 0 .. NumRows(m) - 1}

\* A scenario the manifest asks for: listed, and not with weight zero alone.
Wanted(c, s) ==
    \E k \in DOMAIN c.scenarios :
        c.scenarios[k] = s /\ (c.mode = "weighted" => c.weights[k] > 0)

\* TRL divides a batch of one per device into groups of generations and raises
\* when that does not come out even.
BatchesDivide(m) == m.gradient_accumulation_steps % m.group_size = 0
=============================================================================
