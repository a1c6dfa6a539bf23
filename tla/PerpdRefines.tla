---------------------------- MODULE PerpdRefines ----------------------------
(***************************************************************************)
(* Perpd implements Supervise: the state of a slot is read off its svdef   *)
(* and subsv, and off the call of perpd_svdef_run() that is outstanding.   *)
(***************************************************************************)
EXTENDS Perpd

Present(sl) == svdefs[sl[1]].in /\ (sl[2] = "main" \/ svdefs[sl[1]].haslog)

SlotState(sl) ==
  CASE ~Present(sl) -> "absent"
    [] Present(sl) /\ subsv[sl].pid # None ->
         IF subsv[sl].isreset THEN "reset" ELSE "start"
    [] Present(sl) /\ subsv[sl].pid = None ->
         IF <<sl, "start">> \in runs THEN "starting"
         ELSE IF <<sl, "reset">> \in runs THEN "resetting"
         ELSE IF ~subsv[sl].failing THEN "down"
         ELSE IF subsv[sl].isreset THEN "resetting" ELSE "starting"

Life == INSTANCE Supervise WITH
          Lossy <- \E b \in Budgets : b["fork"] > 0,
          st <- [sl \in Slots |-> SlotState(sl)],
          want <- [sl \in Slots |-> Present(sl) /\ ~subsv[sl].wantdown]

\* Every step of perpd and its environment is, for every slot, a step that
\* Supervise allows: no start without the reset of the one before, no restart
\* of what is wanted down, no departure before both processes have been reset.
Supervises == Life!Spec
=============================================================================
