------------------------- MODULE PerpdRefinesProofs -------------------------
(***************************************************************************)
(* The proof that Perpd implements Supervise, for every number of          *)
(* services, processes and descriptors and every budget of failures.       *)
(***************************************************************************)
EXTENDS PerpdControlProofs, PerpdRefines

-----------------------------------------------------------------------------
(* Where fork() works no slot is failing. *)

ForkFails == \E b \in Budgets : b["fork"] > 0

\* Without a failing fork() nothing is marked failing.
NoFailInv == ~ForkFails => /\ budget["fork"] = 0
                           /\ \A sl \in Slots : ~subsv[sl].failing

LEMMA NoFailStep ==
  ASSUME TypeOK, TrackInv, NoFailInv, [Next]_vars
  PROVE  NoFailInv'
<1>1. CASE ForkFails
  BY <1>1 DEF NoFailInv, ForkFails
<1>2. ASSUME ~ForkFails PROVE budget'["fork"] = 0
  BY <1>2, BudgetSpent DEF NoFailInv, Events
<1> SUFFICES ASSUME ~ForkFails, NEW sl \in Slots PROVE ~subsv'[sl].failing
  BY <1>1, <1>2 DEF NoFailInv
<1>3. budget["fork"] = 0 /\ ~subsv[sl].failing
  BY DEF NoFailInv
<1>4. CASE QuietStep \/ FailRetry
  BY <1>3, <1>4 DEF QuietStep, FailRetry
<1>5. ASSUME NEW G, CullStep(G) PROVE ~subsv'[sl].failing
  BY <1>3, <1>5 DEF CullStep, NewSubsv
<1>6. CASE RunStep
  <2>1. PICK x \in Slots, u \in Targets :
          \/ SvdefRunRefused(x, u)
          \/ \E p \in Pids : SvdefRun(x, u, p)
          \/ SvdefRunForkFails(x, u)
    BY <1>6 DEF RunStep
  <2>2. ~SvdefRunForkFails(x, u)
    BY <1>3 DEF SvdefRunForkFails, Spend
  <2> QED BY <1>3, <2>1, <2>2, RunEffect
<1>7. ASSUME NEW x \in Slots, NEW p \in Pids,
             WaitpidRerun(x, p) \/ WaitpidStopLog(x, p) \/ WaitpidDown(x, p)
      PROVE  ~subsv'[sl].failing
  BY <1>3, <1>7, ReapEffect DEF SameSlot, SameRun
<1>8. ASSUME NEW d \in Services, NEW fl \in Flavors[d], ScanActivate(d, fl)
      PROVE  ~subsv'[sl].failing
  BY <1>3, <1>8, ActivateEffect, SlotCases DEF NewSubsv
<1>9. ASSUME NEW r \in Requests, Control(r) PROVE ~subsv'[sl].failing
  BY <1>3, <1>9, ControlEffect DEF SameRun
<1> QED BY <1>4, <1>5, <1>6, <1>7, <1>8, <1>9, NextCases

LEMMA NoFailCorrect == Spec => []NoFailInv
<1>1. Init => NoFailInv
  BY BudgetsAssumption DEF Init, NoFailInv, ForkFails, NewSubsv, Events
<1>2. TypeOK /\ TrackInv /\ NoFailInv /\ [Next]_vars => NoFailInv'
  BY NoFailStep
<1> QED BY <1>1, <1>2, TypeCorrect, TrackCorrect, PTL DEF Spec

-----------------------------------------------------------------------------
(* The life of one slot. *)

\* The states of Supervise, as SlotState reads them off: a slot with a process,
\* one with a call outstanding, one that is failing, and one at rest.
LEMMA StateCases ==
  ASSUME NEW sl \in Slots
  PROVE  /\ ~Present(sl) => SlotState(sl) = "absent"
         /\ Present(sl) /\ subsv[sl].pid # None =>
              SlotState(sl) = IF subsv[sl].isreset THEN "reset" ELSE "start"
         /\ Present(sl) /\ subsv[sl].pid = None /\ <<sl, "start">> \in runs
              => SlotState(sl) = "starting"
         /\ Present(sl) /\ subsv[sl].pid = None /\ <<sl, "start">> \notin runs
              /\ <<sl, "reset">> \in runs => SlotState(sl) = "resetting"
         /\ /\ Present(sl) /\ subsv[sl].pid = None
            /\ <<sl, "start">> \notin runs /\ <<sl, "reset">> \notin runs
            => SlotState(sl) = IF ~subsv[sl].failing THEN "down"
                               ELSE IF subsv[sl].isreset THEN "resetting" ELSE "starting"
BY DEF SlotState

\* ... and in the next state.
LEMMA NextStateCases ==
  ASSUME NEW sl \in Slots
  PROVE  /\ ~Present(sl)' => SlotState(sl)' = "absent"
         /\ Present(sl)' /\ subsv'[sl].pid # None =>
              SlotState(sl)' = IF subsv'[sl].isreset THEN "reset" ELSE "start"
         /\ Present(sl)' /\ subsv'[sl].pid = None /\ <<sl, "start">> \in runs'
              => SlotState(sl)' = "starting"
         /\ Present(sl)' /\ subsv'[sl].pid = None /\ <<sl, "start">> \notin runs'
              /\ <<sl, "reset">> \in runs' => SlotState(sl)' = "resetting"
         /\ /\ Present(sl)' /\ subsv'[sl].pid = None
            /\ <<sl, "start">> \notin runs' /\ <<sl, "reset">> \notin runs'
            => SlotState(sl)' = IF ~subsv'[sl].failing THEN "down"
                                ELSE IF subsv'[sl].isreset THEN "resetting" ELSE "starting"
BY DEF SlotState

Want(sl) == Present(sl) /\ ~subsv[sl].wantdown

\* Supervise's step of one slot, in terms of the slot.
SlotStep(sl) ==
  LET a == SlotState(sl)
      b == SlotState(sl)'
      v == Want(sl)
      w == Want(sl)'
  IN \/ a = "absent" /\ b = "starting" /\ w
     \/ a = "absent" /\ b = "down" /\ ~w
     \/ a = "starting" /\ b = "start" /\ w = v
     \/ a = "start" /\ b = "resetting" /\ (w = v \/ ~w)
     \/ a = "resetting" /\ b = "reset" /\ w = v
     \/ a = "reset" /\ b = "starting" /\ v /\ w
     \/ a = "reset" /\ b = "down" /\ ~w
     \/ a = "down" /\ b = "starting" /\ w
     \/ a = "down" /\ b = "absent"
     \/ b = a /\ (a = "absent" => w = v)
     \/ /\ ForkFails
        /\ \/ a = "starting" /\ b = "absent"
           \/ a = "resetting" /\ b = "absent"
           \/ a = "resetting" /\ b = "starting" /\ w

LEMMA SlotStepCorrect ==
  ASSUME TypeOK, TrackInv, RunInv, NoFailInv, [Next]_vars, NEW sl \in Slots
  PROVE  SlotStep(sl)
<1>0. /\ SlotRuns(sl) /\ sl[1] \in Services /\ subsv[sl] \in Subsv /\ svdefs[sl[1]] \in Svdef
      /\ subsv[sl].failing => ForkFails
  BY SlotCases DEF RunInv, NoFailInv, TypeOK
\* A step that keeps the state of a slot.
<1>1. ASSUME Present(sl)' = Present(sl), SlotState(sl)' = SlotState(sl)
      PROVE  SlotStep(sl)
  BY <1>1, StateCases DEF SlotStep, Want
<1>2. CASE QuietStep
  <2>1. Present(sl)' = Present(sl)
    BY <1>0, <1>2 DEF QuietStep, Present
  <2>2. SlotState(sl)' = SlotState(sl)
    BY <1>2, <2>1 DEF QuietStep, SlotState
  <2> QED BY <1>1, <2>1, <2>2
<1>3. ASSUME NEW G, CullStep(G) PROVE SlotStep(sl)
  <2>1. runs = {} /\ runs' = {}
    BY <1>3 DEF CullStep
  <2>2. CASE sl[1] \in G
    <3>1. subsv[sl].pid = None /\ ~Present(sl)'
      BY <1>3, <2>2 DEF CullStep, Present
    <3>2. SlotState(sl)' = "absent" /\ ~Want(sl)'
      BY <3>1, NextStateCases DEF Want
    <3>3. CASE ~Present(sl)
      BY <3>2, <3>3, StateCases DEF SlotStep, Want
    <3>4. CASE Present(sl)
      <4>1. SlotState(sl) = IF ~subsv[sl].failing THEN "down"
                            ELSE IF subsv[sl].isreset THEN "resetting" ELSE "starting"
        BY <2>1, <3>1, <3>4, StateCases
      <4> QED BY <1>0, <3>2, <4>1 DEF SlotStep
    <3> QED BY <3>3, <3>4
  <2>3. CASE sl[1] \notin G
    <3>1. /\ svdefs'[sl[1]].in = svdefs[sl[1]].in
          /\ svdefs'[sl[1]].haslog = svdefs[sl[1]].haslog
          /\ subsv'[sl].pid = subsv[sl].pid
          /\ subsv'[sl].isreset = subsv[sl].isreset
          /\ subsv'[sl].failing = subsv[sl].failing
      BY <1>3, <2>3 DEF CullStep
    <3>2. Present(sl)' = Present(sl)
      BY <3>1 DEF Present
    <3>3. SlotState(sl)' = SlotState(sl)
      BY <2>1, <3>1, <3>2 DEF SlotState
    <3> QED BY <1>1, <3>2, <3>3
  <2> QED BY <2>2, <2>3
<1>4. CASE RunStep
  <2>1. PICK x \in Slots, t \in Targets :
          \/ SvdefRunRefused(x, t)
          \/ \E p \in Pids : SvdefRun(x, t, p)
          \/ SvdefRunForkFails(x, t)
    BY <1>4 DEF RunStep
  <2>2. /\ UNCHANGED svdefs
        /\ <<x, t>> \in runs /\ runs' = runs \ {<<x, t>>}
        /\ \A y \in Slots \ {x} : subsv'[y] = subsv[y]
        /\ \/ subsv'[x] = subsv[x] /\ (subsv[x].pid # None \/ ~HasSlot(x))
           \/ /\ subsv[x].pid = None /\ HasSlot(x)
              /\ subsv'[x].isreset = (t = "reset")
              /\ subsv'[x].wantdown = subsv[x].wantdown
              /\ \/ subsv'[x].pid # None /\ ~subsv'[x].failing
                 \/ subsv'[x].pid = None /\ subsv'[x].failing
    BY <2>1, RunEffect
  <2>3. Present(sl)' = Present(sl) /\ (HasSlot(sl) /\ sl = x => Present(sl))
    BY <2>2 DEF Present, HasSlot, TrackInv
  <2>4. CASE sl # x
    <3>1. \A u : <<sl, u>> \in runs' <=> <<sl, u>> \in runs
      BY <2>2, <2>4
    <3>2. SlotState(sl)' = SlotState(sl)
      BY <2>2, <2>3, <2>4, <3>1 DEF SlotState
    <3> QED BY <1>1, <2>3, <3>2
  <2>5. CASE sl = x /\ subsv'[x] = subsv[x] /\ (subsv[x].pid # None \/ ~HasSlot(x))
    <3>1. SlotState(sl)' = SlotState(sl)
      BY <2>3, <2>5, StateCases, NextStateCases DEF Present, HasSlot
    <3> QED BY <1>1, <2>3, <3>1
  <2>6. CASE /\ sl = x /\ subsv[x].pid = None /\ HasSlot(x)
             /\ subsv'[x].isreset = (t = "reset")
             /\ subsv'[x].wantdown = subsv[x].wantdown
             /\ \/ subsv'[x].pid # None /\ ~subsv'[x].failing
                \/ subsv'[x].pid = None /\ subsv'[x].failing
    <3>1. t \in {"start", "reset"} /\ Present(sl) /\ Want(sl)' = Want(sl)
      BY <2>3, <2>6 DEF Targets, Want
    <3>2. <<sl, "start">> \notin runs' /\ <<sl, "reset">> \notin runs'
      BY <1>0, <2>2, <2>6, <3>1 DEF SlotRuns
    <3>3. SlotState(sl) = IF t = "start" THEN "starting" ELSE "resetting"
      BY <1>0, <2>2, <2>6, <3>1, StateCases DEF SlotRuns
    <3>4. CASE subsv'[x].pid # None
      <4>1. SlotState(sl)' = IF t = "start" THEN "start" ELSE "reset"
        BY <2>3, <2>6, <3>1, <3>4, NextStateCases
      <4> QED BY <3>1, <3>3, <4>1 DEF SlotStep
    <3>5. CASE subsv'[x].pid = None /\ subsv'[x].failing
      <4>1. SlotState(sl)' = IF t = "start" THEN "starting" ELSE "resetting"
        BY <2>3, <2>6, <3>1, <3>2, <3>5, NextStateCases
      <4> QED BY <1>1, <2>3, <3>3, <4>1
    <3> QED BY <2>6, <3>4, <3>5
  <2> QED BY <2>2, <2>4, <2>5, <2>6
<1>5. ASSUME NEW x \in Slots, NEW p \in Pids,
             WaitpidRerun(x, p) \/ WaitpidStopLog(x, p) \/ WaitpidDown(x, p)
      PROVE  SlotStep(sl)
  <2>1. /\ UNCHANGED svdefs /\ runs = {}
        /\ svdefs[x[1]].in /\ subsv[x].pid = p
        /\ subsv'[x].pid = None
        /\ subsv'[x].isreset = subsv[x].isreset
        /\ subsv'[x].failing = subsv[x].failing
        /\ subsv[x].wantdown => subsv'[x].wantdown
        /\ \A y \in Slots \ {x} : SameSlot(y)
        /\ \/ runs' = {<<x, IF subsv[x].isreset THEN "start" ELSE "reset">>}
              /\ (subsv[x].isreset => ~subsv'[x].wantdown)
           \/ runs' = {} /\ subsv[x].isreset /\ subsv'[x].wantdown
    BY <1>5, ReapEffect
  <2>2. Present(sl)' = Present(sl) /\ p # None
    BY <2>1, NoneAssumption DEF Present
  <2>3. CASE sl # x
    <3>1. \A u : <<sl, u>> \notin runs' /\ <<sl, u>> \notin runs
      BY <2>1, <2>3
    <3>2. SlotState(sl)' = SlotState(sl)
      BY <2>1, <2>2, <2>3, <3>1 DEF SlotState, SameSlot, SameRun
    <3> QED BY <1>1, <2>2, <3>2
  <2>4. CASE sl = x
    <3>1. Present(sl) /\ ~subsv[sl].failing
      BY <1>0, <2>1, <2>2, <2>4, OwnSlot DEF Present, HasSlot, SlotRuns
    <3>2. SlotState(sl) = IF subsv[sl].isreset THEN "reset" ELSE "start"
      BY <2>1, <2>2, <2>4, <3>1, StateCases
    <3>3. CASE runs' = {<<x, IF subsv[x].isreset THEN "start" ELSE "reset">>}
               /\ (subsv[x].isreset => ~subsv'[x].wantdown)
      <4>1. SlotState(sl)' = IF subsv[sl].isreset THEN "starting" ELSE "resetting"
        BY <2>1, <2>2, <2>4, <3>1, <3>3, NextStateCases
      <4>2. subsv[sl].isreset => Want(sl) /\ Want(sl)'
        BY <2>1, <2>2, <2>4, <3>1, <3>3 DEF Want
      <4>3. Want(sl)' = Want(sl) \/ ~Want(sl)'
        BY <2>1, <2>2, <2>4, <3>1 DEF Want
      <4> QED BY <3>2, <4>1, <4>2, <4>3 DEF SlotStep
    <3>4. CASE runs' = {} /\ subsv[x].isreset /\ subsv'[x].wantdown
      <4>1. SlotState(sl)' = "down"
        BY <2>1, <2>2, <2>4, <3>1, <3>4, NextStateCases
      <4>2. ~Want(sl)'
        BY <2>4, <3>4 DEF Want
      <4> QED BY <2>4, <3>2, <3>4, <4>1, <4>2 DEF SlotStep
    <3> QED BY <2>1, <3>3, <3>4
  <2> QED BY <2>3, <2>4
<1>6. ASSUME NEW d \in Services, NEW fl \in Flavors[d], ScanActivate(d, fl)
      PROVE  SlotStep(sl)
  <2>1. /\ runs = {} /\ ~svdefs[d].in /\ svdefs'[d].in
        /\ svdefs'[d].haslog = fl.haslog
        /\ \A s \in Services \ {d} : svdefs'[s] = svdefs[s]
        /\ \A y \in Slots : y[1] # d => subsv'[y] = subsv[y]
        /\ subsv'[Log(d)] = NewSubsv
        /\ subsv'[Main(d)].pid = None
        /\ ~subsv'[Main(d)].failing /\ subsv'[Main(d)].wantdown = fl.down
        /\ runs' = (IF fl.haslog THEN {<<Log(d), "start">>} ELSE {})
                   \cup (IF fl.down THEN {} ELSE {<<Main(d), "start">>})
    BY <1>6, ActivateEffect
  <2>2. CASE sl[1] # d
    <3>1. \A u : <<sl, u>> \notin runs' /\ <<sl, u>> \notin runs
      BY <2>1, <2>2, SlotCases
    <3>2. Present(sl)' = Present(sl)
      BY <1>0, <2>1, <2>2 DEF Present
    <3>3. SlotState(sl)' = SlotState(sl)
      BY <2>1, <2>2, <3>1, <3>2 DEF SlotState
    <3> QED BY <1>1, <3>2, <3>3
  <2>3. CASE sl[1] = d
    <3>1. SlotState(sl) = "absent" /\ ~Want(sl)
      BY <2>1, <2>3, StateCases DEF Present, Want
    <3>2. CASE sl = Main(d)
      <4>1. Present(sl)'
        BY <2>1, <2>3, <3>2 DEF Present, Main
      <4>2. CASE fl.down
        <5>1. \A u : <<sl, u>> \notin runs'
          BY <2>1, <3>2, <4>2, SlotCases
        <5>2. SlotState(sl)' = "down" /\ ~Want(sl)'
          BY <2>1, <3>2, <4>1, <4>2, <5>1, NextStateCases DEF Want
        <5> QED BY <3>1, <5>2 DEF SlotStep
      <4>3. CASE ~fl.down
        <5>1. SlotState(sl)' = "starting" /\ Want(sl)'
          BY <2>1, <3>2, <4>1, <4>3, NextStateCases DEF Want
        <5> QED BY <3>1, <5>1 DEF SlotStep
      <4> QED BY <4>2, <4>3
    <3>3. CASE sl = Log(d)
      <4>1. Present(sl)' = fl.haslog
        <5>1. fl.haslog \in BOOLEAN
          BY FlavorsAssumption
        <5> QED BY <2>1, <2>3, <3>3, <5>1 DEF Present, Log
      <4>2. CASE fl.haslog
        <5>1. subsv'[sl].pid = None /\ ~subsv'[sl].wantdown /\ <<sl, "start">> \in runs'
          BY <2>1, <3>3, <4>2 DEF NewSubsv
        <5>2. SlotState(sl)' = "starting" /\ Want(sl)'
          BY <4>1, <4>2, <5>1, NextStateCases DEF Want
        <5> QED BY <3>1, <5>2 DEF SlotStep
      <4>3. CASE ~fl.haslog
        <5>1. SlotState(sl)' = "absent" /\ ~Want(sl)'
          BY <4>1, <4>3, NextStateCases DEF Want
        <5> QED BY <3>1, <5>1 DEF SlotStep, Want
      <4> QED BY <4>2, <4>3
    <3> QED BY <2>3, <3>2, <3>3, SlotCases
  <2> QED BY <2>2, <2>3
<1>7. CASE FailRetry
  <2>1. /\ UNCHANGED <<svdefs, subsv>> /\ runs = {}
        /\ runs' = {<<x, RetryTarget(subsv[x])>> : x \in {y \in Slots : Checkfail(y)}}
    BY <1>7 DEF FailRetry, TrackInv
  <2>2. \A u : <<sl, u>> \in runs' <=> Checkfail(sl) /\ u = RetryTarget(subsv[sl])
    BY <2>1
  <2>3. Present(sl)' = Present(sl)
    BY <2>1 DEF Present
  <2>4. SlotState(sl)' = SlotState(sl)
    <3>1. CASE Checkfail(sl)
      <4>1. subsv[sl].failing /\ subsv[sl].pid = None /\ Present(sl)
        BY <1>0, <3>1 DEF Checkfail, SlotRuns, Present
      <4>2. SlotState(sl) = IF subsv[sl].isreset THEN "resetting" ELSE "starting"
        BY <2>1, <4>1, StateCases
      <4>3. \A u : <<sl, u>> \in runs' <=> u = IF subsv[sl].isreset THEN "reset" ELSE "start"
        BY <2>2, <3>1 DEF RetryTarget
      <4>4. SlotState(sl)' = IF subsv[sl].isreset THEN "resetting" ELSE "starting"
        BY <2>1, <2>3, <4>1, <4>3, NextStateCases
      <4> QED BY <4>2, <4>4
    <3>2. CASE ~Checkfail(sl)
      BY <2>1, <2>2, <2>3, <3>2 DEF SlotState
    <3> QED BY <3>1, <3>2
  <2> QED BY <1>1, <2>3, <2>4
<1>8. ASSUME NEW r \in Requests, Control(r) PROVE SlotStep(sl)
  <2>1. /\ UNCHANGED svdefs /\ runs = {}
        /\ \A r1 \in runs' : r1[2] = "start"
        /\ SameRun(sl)
        /\ \/ <<sl, "start">> \notin runs'
           \/ /\ ~subsv'[sl].wantdown
              /\ <<sl, "start">> \in runs' <=> subsv[sl].pid = None
    BY <1>8, ControlEffect
  <2>2. Present(sl)' = Present(sl) /\ <<sl, "reset">> \notin runs'
    BY <2>1 DEF Present
  <2>3. CASE ~Present(sl) \/ subsv[sl].pid # None \/ <<sl, "start">> \notin runs'
    <3>1. SlotState(sl)' = SlotState(sl)
      BY <2>1, <2>2, <2>3, StateCases, NextStateCases DEF SameRun
    <3> QED BY <1>1, <2>2, <3>1
  <2>4. CASE Present(sl) /\ subsv[sl].pid = None /\ <<sl, "start">> \in runs'
    <3>1. SlotState(sl)' = "starting" /\ Want(sl)'
      BY <2>1, <2>2, <2>4, NextStateCases DEF SameRun, Want
    <3>2. SlotState(sl) = IF ~subsv[sl].failing THEN "down"
                          ELSE IF subsv[sl].isreset THEN "resetting" ELSE "starting"
      BY <2>1, <2>4, StateCases
    <3> QED BY <1>0, <3>1, <3>2 DEF SlotStep
  <2> QED BY <2>3, <2>4
<1> QED BY <1>2, <1>3, <1>4, <1>5, <1>6, <1>7, <1>8, NextCases

-----------------------------------------------------------------------------
(* The refinement. *)

LEMMA RefinesInit == Init => Life!Init
<1> SUFFICES ASSUME Init PROVE Life!Init
  OBVIOUS
<1>1. ASSUME NEW sl \in Slots PROVE ~Present(sl)
  BY SlotCases DEF Init, Present, NoSvdef
<1>2. \A sl \in Slots : SlotState(sl) = "absent" /\ (Present(sl) /\ ~subsv[sl].wantdown) = FALSE
  BY <1>1, StateCases
<1>3. Life!Slots = Slots
  BY DEF Life!Slots, Slots, Whiches
<1> QED BY <1>2, <1>3 DEF Life!Init

\* What a step does to every slot, and to the pair of a service, is a step of
\* Supervise.
LEMMA RefinesNext ==
  ASSUME TypeOK, TrackInv, RunInv, NoFailInv, [Next]_vars
  PROVE  Life!Next
<1> DEFINE st == [sl \in Slots |-> SlotState(sl)]
           want == [sl \in Slots |-> Present(sl) /\ ~subsv[sl].wantdown]
<1>1. Life!Slots = Slots
  BY DEF Life!Slots, Slots, Whiches
<1>2. ASSUME NEW sl \in Slots PROVE Life!Step(sl)
  <2>1. SlotStep(sl)
    BY SlotStepCorrect
  <2>2. /\ st[sl] = SlotState(sl) /\ st'[sl] = SlotState(sl)'
        /\ want[sl] = Want(sl) /\ want'[sl] = Want(sl)'
    BY DEF Want
  <2> QED BY <2>1, <2>2
          DEF SlotStep, ForkFails, Life!Step, Life!Appears, Life!Starts, Life!Dies, Life!Resets,
              Life!Restarts, Life!Rests, Life!Rises, Life!Leaves, Life!Changes, Life!Aborts,
              Life!Goes, Life!Wanted, Life!Unwanted, Life!SameWant
<1>3. Life!Together
  <2> SUFFICES ASSUME NEW s \in Services, st'[<<s, "main">>] = "absent"
               PROVE  st'[<<s, "log">>] = "absent"
    BY DEF Life!Together
  <2>1. <<s, "main">> \in Slots /\ <<s, "log">> \in Slots
    BY DEF Slots, Whiches
  <2>2. SlotState(<<s, "main">>)' = "absent"
    BY <2>1
  <2>3. ~Present(<<s, "main">>)'
    BY <2>2 DEF SlotState
  <2>4. ~Present(<<s, "log">>)'
    BY <2>3 DEF Present
  <2>5. SlotState(<<s, "log">>)' = "absent"
    BY <2>1, <2>4, NextStateCases
  <2> QED BY <2>1, <2>5
<1> QED BY <1>1, <1>2, <1>3 DEF Life!Next

\* perpd implements Supervise: in every behaviour "start" is followed by
\* "reset", "reset" by "start" while the process is wanted and by rest when it
\* is not, and a service leaves the table only when both its processes are at
\* rest; only a fork() that fails may cut this short (perpd.c:296-426,
\* perpd_svdef.c:140-214 and 285-455, perpd_conn.c:100-206).
THEOREM Implements == Spec => Supervises
<1>1. TypeOK /\ TrackInv /\ RunInv /\ NoFailInv /\ [Next]_vars => Life!Next
  BY RefinesNext
<1> QED BY <1>1, RefinesInit, TypeCorrect, TrackCorrect, RunCorrect, NoFailCorrect, PTL
        DEF Spec, Supervises, Life!Spec
=============================================================================
