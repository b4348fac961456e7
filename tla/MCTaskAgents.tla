----------------------------- MODULE MCTaskAgents -----------------------------
(* Model values for the runs of TaskAgents.                                *)
EXTENDS TaskAgents

CONSTANTS t1, t2, t3, f1, f2

TwoTasks == {t1, t2}
ThreeTasks == {t1, t2, t3}
OneFile == {f1}
TwoFiles == {f1, f2}
=============================================================================
