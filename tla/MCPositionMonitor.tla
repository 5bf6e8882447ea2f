--------------------------- MODULE MCPositionMonitor ---------------------------
(* Instances of PositionMonitor for TLC. *)
EXTENDS PositionMonitor
CONSTANTS t1, t2, monitor, c1, c2, v1

None == {}
T1 == {t1}
T2 == {t2}
Both == {t1, t2}
OneCloser == {c1}
OneViewer == {v1}
=============================================================================
