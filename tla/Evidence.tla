------------------------------ MODULE Evidence ------------------------------
(***************************************************************************)
(* What is published in training/evidence: utilities/plot_curves.py over   *)
(* the log of train(), while it is written or after a crash, and the       *)
(* notebook, which writes the same files from its own training.            *)
(*                                                                         *)
(* Everybody may run at any time.  plot_curves.py reads the log once and   *)
(* then writes file after file; one of it runs at a time.  A cell of the   *)
(* notebook is one step.  train() and the notebook have output directories *)
(* of their own, as their defaults say.                                    *)
(***************************************************************************)
EXTENDS Training, Notebook

VARIABLE plot        \* plot_curves.py: its next statement and what it has read

evidenceVars == <<trainingVars, notebookVars, plot>>

Away == [pc |-> "off", records |-> <<>>]

\* Without a log or a record it ends before it has written anything.
ReadLog ==
    /\ plot.pc = "off" /\ run_dir.log # <<>>
    /\ plot' = [pc |-> "metrics", records |-> run_dir.log]
    /\ UNCHANGED <<trainingVars, notebookVars>>

\* Mutant: metrics that are there are not written over.
MetricsKept ==
    /\ plot.pc = "metrics"
    /\ evidence' = IF evidence.metrics = NoFigure
                   THEN [evidence EXCEPT !.metrics = OfLog(plot.records)] ELSE evidence
    /\ plot' = [plot EXCEPT !.pc = "loss"]

\* df.to_csv, before any curve.
CsvWritten ==
    /\ plot.pc = "metrics"
    /\ evidence' = [evidence EXCEPT !.metrics = OfLog(plot.records)]
    /\ plot' = [plot EXCEPT !.pc = "loss"]

WriteMetrics ==
    /\ CsvWritten
    /\ UNCHANGED <<trainingVars, kernel, configs, adapter>>

\* _plot of the loss, then of the reward; a column without values is skipped.
DrawCurve ==
    /\ plot.pc \in {"loss", "reward"}
    /\ \/ UNCHANGED evidence
       \/ evidence' = [evidence EXCEPT ![plot.pc] = OfLog(plot.records)]
    /\ plot' = IF plot.pc = "loss" THEN [plot EXCEPT !.pc = "reward"] ELSE Away
    /\ UNCHANGED <<trainingVars, kernel, configs, adapter>>

\* A column is missing, or the process is killed.
PlotRaises ==
    /\ plot.pc # "off"
    /\ plot' = Away
    /\ UNCHANGED <<trainingVars, notebookVars>>

Plots == ReadLog \/ WriteMetrics \/ DrawCurve \/ PlotRaises

EvidenceInit == TrainingInit /\ NotebookInit /\ plot = Away

EvidenceNext ==
    \/ (StartLocal \/ TrainStep) /\ UNCHANGED <<notebookVars, plot>>
    \/ NotebookStep /\ UNCHANGED <<trainingVars, plot>>
    \/ Plots

EvidenceSpec == EvidenceInit /\ [][EvidenceNext]_evidenceVars

-----------------------------------------------------------------------------
(* Properties *)

Figures == {evidence.metrics, evidence.loss, evidence.reward}

\* Two files of one writer of which the first is not newer than the second.
NotNewer(curve, metrics) ==
    /\ curve.config > 0 /\ metrics.config > 0 => curve.config <= metrics.config
    /\ curve.records # <<>> /\ metrics.records # <<>> =>
           Len(curve.records) <= Len(metrics.records)

\* What was published as evidence stays true although two programs write it over
\* one another, cells are repeated, left out and broken off, kernels and
\* processes die and runs of train() follow one another in one directory: every
\* file is of a training whose adapter was saved, or it is what the log begins
\* with, whatever is appended later; and of one writer no curve is newer than the
\* metrics beside it.  A curve of the one beside the metrics of the other is not
\* ruled out (_FlushLogHistory.on_log, plot_curves.py, cells 3 to 7).
EvidenceIsTrue ==
    /\ \A figure \in Figures :
           /\ figure.config <= adapter
           /\ figure.records = SubSeq(run_dir.log, 1, Len(figure.records))
    /\ NotNewer(evidence.loss, evidence.metrics) /\ NotNewer(evidence.reward, evidence.metrics)
    /\ kernel.history <= adapter /\ adapter <= configs /\ evidence.config <= configs
=============================================================================
