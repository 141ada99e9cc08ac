--------------------------- MODULE MCAlertIntake ---------------------------
EXTENDS AlertIntake, TLC

CONSTANTS f1, f2, k1, k2

OneFinger  == {f1}
TwoFingers == {f1, f2}
OneKey     == {k1}
AllOfOne   == [f \in Fingerprints |-> k1]
=============================================================================
