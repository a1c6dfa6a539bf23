------------------------------- MODULE MCPerpd -------------------------------
(***************************************************************************)
(* Instances of Perpd for TLC.  Boot, Flavors and Budgets are chosen among *)
(* the definitions below; process ids perpd did not inherit are alike.     *)
(***************************************************************************)
EXTENDS PerpdRefines, TLC

CONSTANT First   \* one of Services

SymPids == Permutations(Pids)

\* What service directories hold.
Dir(haslog, down, once) == [haslog |-> haslog, down |-> down, once |-> once]
NoLog == [s \in Services |-> {Dir(FALSE, FALSE, FALSE)}]
FirstAny == [s \in Services |-> IF s = First
                                THEN {Dir(TRUE, FALSE, FALSE), Dir(FALSE, TRUE, FALSE), Dir(FALSE, FALSE, TRUE)}
                                ELSE {Dir(FALSE, FALSE, FALSE)}]
FirstLog == [s \in Services |-> {Dir(s = First, FALSE, FALSE)}]
LogOrDown == [s \in Services |-> {Dir(TRUE, FALSE, FALSE), Dir(FALSE, TRUE, FALSE)}]

AnyBoot == SUBSET Services
BootAll == {Services}
BootFirst == {{First}}

\* How often the environment acts in each run; events not named do not happen.
Acts(times) == [e \in Events |-> IF e \in DOMAIN times THEN times[e] ELSE 0]
Acts_control == {Acts([cmd |-> 2, term |-> 1]),
                 Acts([hup |-> 2, term |-> 1, sticky |-> 2])}
Acts_failures == {Acts([fork |-> 1, cmd |-> 1, term |-> 1]),
                  Acts([fork |-> 1, sticky |-> 1, term |-> 1]),
                  Acts([open |-> 1, readdir |-> 1, sticky |-> 1]),
                  Acts([opendir |-> 1, sticky |-> 1, term |-> 1])}
Acts_progress == {Acts([cmd |-> 1, hup |-> 1, term |-> 1, sticky |-> 1, open |-> 1]),
                  Acts([cmd |-> 1, fork |-> 2])}
Acts_closed_twice == {Acts([cmd |-> 1, hup |-> 1, term |-> 1, sticky |-> 1])}
Acts_shutdown_hang == {Acts([fork |-> 1, term |-> 1])}
=============================================================================
