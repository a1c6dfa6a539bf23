------------------------------ MODULE Supervise ------------------------------
(***************************************************************************)
(* What perpd promises of each process it supervises, without saying how:  *)
(* the life of the main and the log process of a service as perpd.8        *)
(* tells it.  "start" is always followed by "reset", "reset" by "start"    *)
(* while the process is wanted and by rest when it is not, and a service   *)
(* leaves only when both its processes are at rest.                        *)
(*                                                                         *)
(* A failing fork() is allowed to cut a life short (Lossy): the process    *)
(* may leave, or skip its reset, while the fork is outstanding.            *)
(***************************************************************************)
CONSTANTS Services,
          Lossy    \* fork() may fail

VARIABLES st,     \* slot -> state
          want    \* slot -> it is wanted up

Slots == Services \X {"main", "log"}

\* starting, resetting: decided, not yet forked.
States == {"absent", "down", "starting", "start", "resetting", "reset"}

TypeOK == st \in [Slots -> States] /\ want \in [Slots -> BOOLEAN]

Init == /\ st = [sl \in Slots |-> "absent"]
        /\ want = [sl \in Slots |-> FALSE]

Goes(sl, from, to) == st[sl] = from /\ st'[sl] = to
Wanted(sl) == want[sl] /\ want'[sl]
Unwanted(sl) == ~want'[sl]
SameWant(sl) == want'[sl] = want[sl]

Appears(sl) == \/ Goes(sl, "absent", "starting") /\ want'[sl]
               \/ Goes(sl, "absent", "down") /\ Unwanted(sl)
Starts(sl) == Goes(sl, "starting", "start") /\ SameWant(sl)
Dies(sl) == Goes(sl, "start", "resetting") /\ (SameWant(sl) \/ Unwanted(sl))
Resets(sl) == Goes(sl, "resetting", "reset") /\ SameWant(sl)
Restarts(sl) == Goes(sl, "reset", "starting") /\ Wanted(sl)
Rests(sl) == Goes(sl, "reset", "down") /\ Unwanted(sl)
Rises(sl) == Goes(sl, "down", "starting") /\ want'[sl]
Leaves(sl) == Goes(sl, "down", "absent")
Changes(sl) == st'[sl] = st[sl] /\ (st[sl] = "absent" => SameWant(sl))

\* Only while a fork() is failing.
Aborts(sl) == /\ Lossy
              /\ \/ Goes(sl, "starting", "absent")
                 \/ Goes(sl, "resetting", "absent")
                 \/ Goes(sl, "resetting", "starting") /\ want'[sl]

Step(sl) == \/ Changes(sl) \/ Appears(sl) \/ Starts(sl) \/ Dies(sl) \/ Resets(sl)
            \/ Restarts(sl) \/ Rests(sl) \/ Rises(sl) \/ Leaves(sl) \/ Aborts(sl)

\* A service is present as a whole: a log only beside a main.
Together == \A s \in Services :
              st'[<<s, "main">>] = "absent" => st'[<<s, "log">>] = "absent"

Next == /\ \A sl \in Slots : Step(sl)
        /\ Together

Spec == Init /\ [][Next]_<<st, want>>
=============================================================================
