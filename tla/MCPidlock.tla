----------------------------- MODULE MCPidlock -----------------------------
(***************************************************************************)
(* Instances of Pidlock for TLC.                                           *)
(***************************************************************************)
EXTENDS Pidlock, TLC

CONSTANTS a, b, c

Does(tool, wait, pid, fork, closes) ==
  [tool |-> tool, wait |-> wait, pid |-> pid, fork |-> fork, closes |-> closes]
Perpd == Does("perpd", FALSE, TRUE, FALSE, FALSE)
Look == Does("check", FALSE, FALSE, FALSE, FALSE)
Waits(pid, fork) == Does("runlock", TRUE, pid, fork, FALSE)

Jobs == {(a :> Perpd) @@ (b :> Perpd) @@ (c :> Look),
         (a :> Waits(FALSE, FALSE)) @@ (b :> Does("runtool", FALSE, TRUE, TRUE, FALSE)) @@ (c :> Waits(TRUE, TRUE)),
         (a :> Does("runtool", TRUE, FALSE, TRUE, TRUE)) @@ (b :> Waits(TRUE, FALSE)) @@ (c :> Look)}

Acts_pidlock == {[start |-> 4, crash |-> 1, fail |-> 0], [start |-> 4, crash |-> 0, fail |-> 1]}
=============================================================================
