----------------------------- MODULE MCTraining -----------------------------
(***************************************************************************)
(* Manifests for the trainings.                                            *)
(***************************************************************************)
EXTENDS Training

\* Ten registered ids, as the weights of the job want them.
Ids == <<"01", "02", "03", "04", "05", "06", "07", "08", "09", "10">>

Manifest(group, logging, fp16, bf16, curriculum) ==
    [group_size |-> group, gradient_accumulation_steps |-> 2, max_steps |-> TrainSteps,
     logging_steps |-> logging, save_steps |-> logging, fp16 |-> fp16, bf16 |-> bf16,
     curriculum |-> curriculum]

Mixture(mode, scenarios, weights) ==
    [mode |-> mode, scenarios |-> scenarios, weights |-> weights, seed_range |-> <<0, 1>>]

\* Records and checkpoints of every step or of every second one, two precisions
\* at once, groups that do not come out even, an id of weight zero, and ids that
\* are not registered.
AllManifests ==
    {Manifest(2, 2, TRUE, FALSE, Mixture("uniform", <<"07", "08">>, <<>>)),
     Manifest(2, 1, TRUE, TRUE, Mixture("uniform", <<"07">>, <<>>)),
     Manifest(3, 1, TRUE, FALSE, Mixture("uniform", <<"07">>, <<>>)),
     Manifest(2, 1, FALSE, TRUE, Mixture("weighted", <<"07", "08">>, <<1, 0>>)),
     Manifest(2, 1, FALSE, FALSE, Mixture("static_order", <<"07", "11">>, <<>>))}

\* One that trains, with records and checkpoints of every step.
OneManifest == {Manifest(2, 1, TRUE, FALSE, Mixture("uniform", <<"07">>, <<>>))}
=============================================================================
