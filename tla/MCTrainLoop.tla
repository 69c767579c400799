----------------------------- MODULE MCTrainLoop -----------------------------
EXTENDS TrainLoop

Job(steps, mode, loadStep, lastSave) ==
  [steps |-> steps, async_mode |-> mode, load_step |-> loadStep, last_save |-> lastSave]

\* Every save mode, the run extended from five steps to six, which is more than
\* there is data for, and a load_step of which no checkpoint is ever saved.
ResumableJobs ==
  {Job(n, m, NoStep, "full") : n \in {5, 6}, m \in AsyncMode}
    \union {Job(6, "disabled", 3, "full")}

\* The default of last_save_model_only.
FinishedJobs == {Job(4, "disabled", NoStep, "model"), Job(5, "disabled", NoStep, "model")}
===============================================================================
