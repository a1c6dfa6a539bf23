------------------------------- MODULE MCDeux -------------------------------
(***************************************************************************)
(* Instances of Deux for TLC.                                              *)
(***************************************************************************)
EXTENDS Deux

Run(tool, super) == [tool |-> tool, super |-> super]
AnyMode == {Run("perpboot", TRUE), Run("perpboot", FALSE),
            Run("rundeux", TRUE), Run("rundeux", FALSE), Run("runtrap", TRUE)}

Acts(times) == [e \in Events |-> IF e \in DOMAIN times THEN times[e] ELSE 0]
Acts_deux == {Acts([TERM |-> 1, die |-> 2, line |-> 2, fork |-> 1]),
              Acts([TERM |-> 1, INT |-> 1, HUP |-> 1, TSTP |-> 1, line |-> 1]),
              Acts([TERM |-> 2, die |-> 1, leave |-> 1, line |-> 1])}
=============================================================================
