------------------------- MODULE PerpdControlProofs -------------------------
(***************************************************************************)
(* More proofs about Perpd: which calls of perpd_svdef_run() may be         *)
(* outstanding, what becomes of a fork() that failed, of a process that     *)
(* was stopped, and of the log of a service that is brought down.           *)
(***************************************************************************)
EXTENDS PerpdProofs

-----------------------------------------------------------------------------
(* The steps of perpd sorted by what they do to its services. *)

\* A step that leaves the processes of all services and the outstanding calls
\* of perpd_svdef_run() alone.
QuietStep ==
  /\ UNCHANGED <<subsv, runs>>
  /\ \A s \in Services : /\ svdefs'[s].in = svdefs[s].in
                         /\ svdefs'[s].haslog = svdefs[s].haslog

\* A step that removes the services of G, which have no process, and asks
\* others to go down.
CullStep(G) ==
  /\ runs = {} /\ runs' = {}
  /\ \A sl \in Slots :
       IF sl[1] \in G
         THEN /\ subsv[sl].pid = None /\ subsv'[sl] = NewSubsv
              /\ ~svdefs'[sl[1]].in /\ ~svdefs'[sl[1]].haslog
         ELSE /\ svdefs'[sl[1]].in = svdefs[sl[1]].in
              /\ svdefs'[sl[1]].haslog = svdefs[sl[1]].haslog
              /\ subsv'[sl].pid = subsv[sl].pid
              /\ subsv'[sl].isreset = subsv[sl].isreset
              /\ subsv'[sl].failing = subsv[sl].failing
              /\ subsv[sl].wantdown => subsv'[sl].wantdown

\* perpd_svdef_wantcull() only marks a slot.
LEMMA WantcullKeeps ==
  ASSUME subsv \in [Slots -> Subsv], NEW C, NEW sl \in Slots
  PROVE  /\ WantcullSubsv(C)[sl].pid = subsv[sl].pid
         /\ WantcullSubsv(C)[sl].isreset = subsv[sl].isreset
         /\ WantcullSubsv(C)[sl].failing = subsv[sl].failing
         /\ subsv[sl].wantdown => WantcullSubsv(C)[sl].wantdown
<1>1. subsv[sl] \in Subsv
  OBVIOUS
<1>2. \/ WantcullSubsv(C)[sl] = subsv[sl]
      \/ \E b : WantcullSubsv(C)[sl] = [subsv[sl] EXCEPT !.wantdown = TRUE, !.ispaused = b]
  BY DEF WantcullSubsv
<1> QED BY <1>1, <1>2 DEF Subsv

\* perpd_cull() after wantcull() on some services is such a step.
LEMMA CullIsCullStep ==
  ASSUME TypeOK, TrackInv, runs = {}, runs' = {},
         NEW called, NEW svd \in [Services -> Svdef], NEW sub \in [Slots -> Subsv],
         \A s \in Services : svd[s].in = svdefs[s].in /\ svd[s].haslog = svdefs[s].haslog,
         \A sl \in Slots : /\ sub[sl].pid = subsv[sl].pid
                           /\ sub[sl].isreset = subsv[sl].isreset
                           /\ sub[sl].failing = subsv[sl].failing
                           /\ subsv[sl].wantdown => sub[sl].wantdown,
         NEW G, G = Culled(called, svd),
         svdefs' = Removed(svd, G), subsv' = RemovedSubsv(sub, G)
  PROVE  CullStep(G)
<1> SUFFICES ASSUME NEW sl \in Slots
             PROVE  IF sl[1] \in G
                      THEN /\ subsv[sl].pid = None /\ subsv'[sl] = NewSubsv
                           /\ ~svdefs'[sl[1]].in /\ ~svdefs'[sl[1]].haslog
                      ELSE /\ svdefs'[sl[1]].in = svdefs[sl[1]].in
                           /\ svdefs'[sl[1]].haslog = svdefs[sl[1]].haslog
                           /\ subsv'[sl].pid = subsv[sl].pid
                           /\ subsv'[sl].isreset = subsv[sl].isreset
                           /\ subsv'[sl].failing = subsv[sl].failing
                           /\ subsv[sl].wantdown => subsv'[sl].wantdown
  BY DEF CullStep
<1>1. sl[1] \in Services
  BY SlotCases
<1>2. CASE sl[1] \in G
  <2>1. subsv[sl].pid = None
    BY <1>2, CulledFacts
  <2>2. subsv'[sl] = NewSubsv /\ svdefs'[sl[1]] = NoSvdef
    BY <1>1, <1>2 DEF Removed, RemovedSubsv
  <2> QED BY <1>2, <2>1, <2>2 DEF NoSvdef
<1>3. CASE sl[1] \notin G
  BY <1>1, <1>3 DEF Removed, RemovedSubsv
<1> QED BY <1>2, <1>3

\* What ScanEnd makes of the service table before perpd_cull().
ScanEndSvdefs(Gone, New) ==
  [s \in Services |-> IF s \in Gone THEN [WantcullSvdefs(New)[s] EXCEPT
                                            !.cycle = IF s \in New THEN @ ELSE FALSE]
                                    ELSE svdefs[s]]

\* It neither adds nor removes a service.
LEMMA ScanEndKeeps ==
  ASSUME TypeOK, NEW Gone, NEW New, NEW svd, svd = ScanEndSvdefs(Gone, New)
  PROVE  /\ svd \in [Services -> Svdef]
         /\ \A s \in Services : svd[s].in = svdefs[s].in /\ svd[s].haslog = svdefs[s].haslog
<1>1. ASSUME NEW s \in Services
      PROVE svd[s] \in Svdef /\ svd[s].in = svdefs[s].in /\ svd[s].haslog = svdefs[s].haslog
  <2> DEFINE w == WantcullSvdefs(New)[s]
  <2>1. /\ w \in Svdef /\ svdefs[s] \in Svdef
        /\ w.in = svdefs[s].in /\ w.haslog = svdefs[s].haslog
    BY WantcullType DEF TypeOK
  <2>2. w.cycle \in BOOLEAN
    BY <2>1 DEF Svdef
  <2> HIDE DEF w
  <2>3. \E c \in BOOLEAN : svd[s] = [w EXCEPT !.cycle = c] \/ svd[s] = svdefs[s]
    BY <2>2 DEF w, ScanEndSvdefs
  <2> QED BY <2>1, <2>3 DEF Svdef
<1> QED BY <1>1 DEF ScanEndSvdefs

\* Every step is quiet, a cull, or one of those that run or reap something.
LEMMA NextCases ==
  ASSUME TypeOK, TrackInv, [Next]_vars
  PROVE  \/ QuietStep
         \/ \E G : CullStep(G)
         \/ RunStep
         \/ \E sl \in Slots, p \in Pids :
              WaitpidRerun(sl, p) \/ WaitpidStopLog(sl, p) \/ WaitpidDown(sl, p)
         \/ \E d \in Services : \E fl \in Flavors[d] : ScanActivate(d, fl)
         \/ FailRetry
         \/ \E r \in Requests : Control(r)
<1>1. CASE UNCHANGED <<svdefs, subsv, runs>>
  BY <1>1 DEF QuietStep
<1>2. CASE Terminate
  <2> DEFINE svd == WantcullSvdefs(InTable)
             sub == WantcullSubsv(InTable)
             called == \E s \in InTable : AlreadyDown(s)
             G == Culled(called, svd)
  <2>1. svdefs' = Removed(svd, G) /\ subsv' = RemovedSubsv(sub, G)
    BY <1>2 DEF Terminate
  <2>2. runs = {} /\ runs' = {}
    BY <1>2 DEF Terminate, TrackInv
  <2>3. /\ svd \in [Services -> Svdef] /\ sub \in [Slots -> Subsv]
        /\ \A s \in Services : svd[s].in = svdefs[s].in /\ svd[s].haslog = svdefs[s].haslog
    BY WantcullType DEF TypeOK
  <2>4. \A sl \in Slots : /\ sub[sl].pid = subsv[sl].pid
                          /\ sub[sl].isreset = subsv[sl].isreset
                          /\ sub[sl].failing = subsv[sl].failing
                          /\ subsv[sl].wantdown => sub[sl].wantdown
    BY WantcullKeeps DEF TypeOK
  <2> HIDE DEF svd, sub, called
  <2>5. CullStep(G)
    BY <2>1, <2>2, <2>3, <2>4, CullIsCullStep
  <2> QED BY <2>5
<1>3. CASE WaitupDone
  <2> DEFINE G == Culled(wait.got_cull, svdefs)
  <2>1. svdefs' = Removed(svdefs, G) /\ subsv' = RemovedSubsv(subsv, G)
    BY <1>3 DEF WaitupDone
  <2>2. runs = {} /\ runs' = {}
    BY <1>3 DEF WaitupDone
  <2>3. svdefs \in [Services -> Svdef] /\ subsv \in [Slots -> Subsv]
    BY DEF TypeOK
  <2>4. CullStep(G)
    BY <2>1, <2>2, <2>3, CullIsCullStep
  <2> QED BY <2>4
<1>4. CASE ScanEnd
  <2> DEFINE Gone == {s \in InTable : ~svdefs[s].active}
             New == {s \in Gone : ~svdefs[s].cull}
             svd == [s \in Services |->
                       IF s \in Gone THEN [WantcullSvdefs(New)[s] EXCEPT
                                             !.cycle = IF s \in New THEN @ ELSE FALSE]
                                     ELSE svdefs[s]]
             sub == WantcullSubsv(New)
             got_cull == \/ \E s \in New : AlreadyDown(s)
                         \/ \E s \in Gone \ New : CullOk(svdefs, subsv, s)
             G == Culled(got_cull, svd)
  <2>1. svdefs' = Removed(svd, G) /\ subsv' = RemovedSubsv(sub, G)
    BY <1>4 DEF ScanEnd
  <2>2. runs = {} /\ runs' = {}
    BY <1>4 DEF ScanEnd
  <2>3. sub \in [Slots -> Subsv]
    BY WantcullType DEF TypeOK
  <2>4. \A sl \in Slots : /\ sub[sl].pid = subsv[sl].pid
                          /\ sub[sl].isreset = subsv[sl].isreset
                          /\ sub[sl].failing = subsv[sl].failing
                          /\ subsv[sl].wantdown => sub[sl].wantdown
    BY WantcullKeeps DEF TypeOK
  <2>5. /\ svd \in [Services -> Svdef]
        /\ \A s \in Services : svd[s].in = svdefs[s].in /\ svd[s].haslog = svdefs[s].haslog
    <3>1. svd = ScanEndSvdefs(Gone, New)
      BY DEF ScanEndSvdefs
    <3> HIDE DEF Gone, New, svd
    <3> QED BY <3>1, ScanEndKeeps
  <2> HIDE DEF svd, sub, got_cull
  <2>6. CullStep(G)
    BY <2>1, <2>2, <2>3, <2>4, <2>5, CullIsCullStep
  <2> QED BY <2>6
<1>5. CASE ScanBegin
  <2>1. ASSUME NEW s \in Services
        PROVE svdefs'[s].in = svdefs[s].in /\ svdefs'[s].haslog = svdefs[s].haslog
    <3>1. svdefs[s] \in Svdef /\ svdefs'[s] = [svdefs[s] EXCEPT !.active = FALSE]
      BY <1>5 DEF ScanBegin, TypeOK
    <3> QED BY <3>1 DEF Svdef
  <2> QED BY <1>5, <2>1 DEF ScanBegin, QuietStep
<1>6. ASSUME NEW d \in Services, ScanKeep(d) PROVE QuietStep
  <2>1. svdefs[d] \in Svdef
    BY DEF TypeOK
  <2>2. PICK c : svdefs' = [svdefs EXCEPT ![d] = [@ EXCEPT !.active = TRUE, !.cycle = c]]
    BY <1>6 DEF ScanKeep
  <2>3. /\ [svdefs[d] EXCEPT !.active = TRUE, !.cycle = c].in = svdefs[d].in
        /\ [svdefs[d] EXCEPT !.active = TRUE, !.cycle = c].haslog = svdefs[d].haslog
    BY <2>1 DEF Svdef
  <2>4. \A s \in Services : svdefs'[s].in = svdefs[s].in /\ svdefs'[s].haslog = svdefs[s].haslog
    BY <2>2, <2>3 DEF TypeOK
  <2> QED BY <1>6, <2>4 DEF ScanKeep, QuietStep
<1>7. CASE PollStep
  BY <1>1, <1>2, <1>7 DEF PollStep, SigTrap, PollReturn, Drain, ChldCheck
<1>8. CASE WaitupStep
  BY <1>1, <1>3, <1>8 DEF WaitupStep, WaitpidStray
<1>9. CASE ScanStep
  BY <1>1, <1>4, <1>5, <1>6, <1>9
     DEF ScanStep, ScanOpendirFails, ScanReaddirFails, ScanIgnore, ScanFail
<1>10. CASE FailStep
  BY <1>1, <1>10 DEF FailStep, FailDie, FailDone
<1>11. CASE ClientStep
  BY <1>1, <1>11 DEF ClientStep, LoopEnd, ControlRefused
<1>12. CASE ChildStep \/ AdminStep \/ Finished \/ UNCHANGED vars
  BY <1>1, <1>12 DEF ChildStep, AdminStep, ChildExit, Chmod, Signal, Send, Finished, vars
<1> QED BY <1>7, <1>8, <1>9, <1>10, <1>11, <1>12 DEF Next, MainLoop

\* Processes change only in the steps that signal, fork, reap or exit.
LEMMA ProcCases ==
  ASSUME [Next]_vars
  PROVE  \/ UNCHANGED proc
         \/ Terminate \/ ScanEnd \/ \E r \in Requests : Control(r)
         \/ \E x \in Slots, t \in Targets, p \in Pids : SvdefRun(x, t, p)
         \/ \E p \in Pids : WaitpidStray(p)
         \/ \E x \in Slots, p \in Pids :
              WaitpidRerun(x, p) \/ WaitpidStopLog(x, p) \/ WaitpidDown(x, p)
         \/ \E p \in Pids, ws \in WStats : ChildExit(p, ws)
<1>1. CASE PollStep
  BY <1>1 DEF PollStep, SigTrap, PollReturn, Drain, ChldCheck
<1>2. CASE WaitupStep
  BY <1>2 DEF WaitupStep, WaitupDone
<1>3. CASE ScanStep
  BY <1>3 DEF ScanStep, ScanOpendirFails, ScanBegin, ScanReaddirFails, ScanIgnore,
              ScanKeep, ScanFail, ScanActivate
<1>4. CASE FailStep \/ ClientStep
  BY <1>4 DEF FailStep, FailDie, FailRetry, FailDone, ClientStep, LoopEnd, ControlRefused
<1>5. CASE RunStep
  BY <1>5 DEF RunStep, SvdefRunRefused, SvdefRunForkFails
<1>6. CASE ChildStep \/ AdminStep \/ Finished \/ UNCHANGED vars
  BY <1>6 DEF ChildStep, AdminStep, Chmod, Signal, Send, Finished, vars
<1> QED BY <1>1, <1>2, <1>3, <1>4, <1>5, <1>6 DEF Next, MainLoop

-----------------------------------------------------------------------------
(* What each of these steps does to the slots, one by one. *)

\* The flags of a slot that decide what runs for it next.
SameRun(sl) == /\ subsv'[sl].pid = subsv[sl].pid
               /\ subsv'[sl].isreset = subsv[sl].isreset
               /\ subsv'[sl].failing = subsv[sl].failing
SameSlot(sl) == SameRun(sl) /\ subsv'[sl].wantdown = subsv[sl].wantdown

HasSlot(sl) == sl[2] = "main" \/ svdefs[sl[1]].haslog

\* perpd_svdef_run() takes its call off the list, and records the child, or
\* that fork() failed, or refuses.
LEMMA RunEffect ==
  ASSUME TypeOK, NEW x \in Slots, NEW t \in Targets,
         \/ SvdefRunRefused(x, t)
         \/ \E p \in Pids : SvdefRun(x, t, p)
         \/ SvdefRunForkFails(x, t)
  PROVE  /\ UNCHANGED svdefs
         /\ <<x, t>> \in runs /\ runs' = runs \ {<<x, t>>}
         /\ \A sl \in Slots \ {x} : subsv'[sl] = subsv[sl]
         /\ \/ subsv'[x] = subsv[x] /\ (subsv[x].pid # None \/ ~HasSlot(x))
            \/ /\ subsv[x].pid = None /\ HasSlot(x)
               /\ subsv'[x].isreset = (t = "reset")
               /\ subsv'[x].wantdown = subsv[x].wantdown
               /\ \/ subsv'[x].pid # None /\ ~subsv'[x].failing
                  \/ /\ subsv'[x].pid = None /\ subsv'[x].failing
                     /\ SvdefRunForkFails(x, t)
<1>1. CASE SvdefRunRefused(x, t)
  BY <1>1, SlotCases DEF SvdefRunRefused, NextRun, RunRefused, HasSlot, Main, Log
<1>2. subsv[x] \in Subsv
  BY DEF TypeOK
<1>3. ASSUME ~RunRefused(x) PROVE subsv[x].pid = None /\ HasSlot(x)
  BY <1>3, SlotCases DEF RunRefused, HasSlot, Main, Log
<1>4. ASSUME NEW p \in Pids, SvdefRun(x, t, p)
      PROVE  /\ UNCHANGED svdefs
             /\ <<x, t>> \in runs /\ runs' = runs \ {<<x, t>>}
             /\ \A sl \in Slots \ {x} : subsv'[sl] = subsv[sl]
             /\ subsv[x].pid = None /\ HasSlot(x)
             /\ subsv'[x].isreset = (t = "reset")
             /\ subsv'[x].wantdown = subsv[x].wantdown
             /\ subsv'[x].pid # None /\ ~subsv'[x].failing
  <2>1. subsv'[x] = [RunInit(x, t) EXCEPT !.pid = p]
        /\ \A sl \in Slots \ {x} : subsv'[sl] = subsv[sl]
    BY <1>4 DEF SvdefRun, TypeOK
  <2>2. /\ subsv'[x].isreset = (t = "reset")
        /\ subsv'[x].wantdown = subsv[x].wantdown
        /\ subsv'[x].pid = p /\ ~subsv'[x].failing
    BY <2>1, <1>2 DEF RunInit, Subsv
  <2> QED BY <1>3, <1>4, <2>1, <2>2, NoneAssumption DEF SvdefRun, NextRun
<1>5. ASSUME SvdefRunForkFails(x, t)
      PROVE  /\ UNCHANGED svdefs
             /\ <<x, t>> \in runs /\ runs' = runs \ {<<x, t>>}
             /\ \A sl \in Slots \ {x} : subsv'[sl] = subsv[sl]
             /\ subsv[x].pid = None /\ HasSlot(x)
             /\ subsv'[x].isreset = (t = "reset")
             /\ subsv'[x].wantdown = subsv[x].wantdown
             /\ subsv'[x].pid = None /\ subsv'[x].failing
  <2>1. subsv'[x] = ForkFailed(x, t) /\ \A sl \in Slots \ {x} : subsv'[sl] = subsv[sl]
    BY <1>5 DEF SvdefRunForkFails, TypeOK
  <2>2. /\ subsv'[x].isreset = (t = "reset")
        /\ subsv'[x].wantdown = subsv[x].wantdown
        /\ subsv'[x].pid = None /\ subsv'[x].failing
    BY <2>1, <1>2 DEF ForkFailed, RunInit, Subsv
  <2> QED BY <1>3, <1>5, <2>1, <2>2 DEF SvdefRunForkFails, NextRun
<1> QED BY <1>1, <1>4, <1>5

\* perpd_waitup() empties the slot of the child, and either has one call to
\* make for it or leaves it at rest after a "reset", wanted down.
LEMMA ReapEffect ==
  ASSUME TypeOK, NEW x \in Slots, NEW p \in Pids,
         WaitpidRerun(x, p) \/ WaitpidStopLog(x, p) \/ WaitpidDown(x, p)
  PROVE  /\ UNCHANGED svdefs /\ runs = {}
         /\ svdefs[x[1]].in /\ subsv[x].pid = p
         /\ subsv'[x].pid = None
         /\ subsv'[x].isreset = subsv[x].isreset
         /\ subsv'[x].failing = subsv[x].failing
         /\ subsv[x].wantdown => subsv'[x].wantdown
         /\ \A sl \in Slots \ {x} : SameSlot(sl)
         /\ \/ runs' = {<<x, IF subsv[x].isreset THEN "start" ELSE "reset">>}
               /\ (subsv[x].isreset => ~subsv'[x].wantdown)
            \/ runs' = {} /\ subsv[x].isreset /\ subsv'[x].wantdown
<1>1. UNCHANGED svdefs /\ runs = {} /\ svdefs[x[1]].in /\ subsv[x].pid = p
  BY DEF WaitpidRerun, WaitpidStopLog, WaitpidDown, StaysDown, Waiting, Child
<1>2. subsv[x] \in Subsv
  BY DEF TypeOK
<1>3. /\ Harvest(x, p).pid = None
      /\ Harvest(x, p).isreset = subsv[x].isreset
      /\ Harvest(x, p).failing = subsv[x].failing
      /\ subsv[x].wantdown => Harvest(x, p).wantdown
  BY <1>2 DEF Harvest, Subsv
<1>4. subsv'[x] = Harvest(x, p)
  <2>1. WaitpidStopLog(x, p) => Log(x[1]) # x
    BY DEF WaitpidStopLog, LogToStop, Log
  <2> QED BY <2>1 DEF WaitpidRerun, WaitpidStopLog, WaitpidDown, TypeOK
<1>5. ASSUME NEW sl \in Slots \ {x} PROVE SameSlot(sl)
  <2>1. subsv'[sl] = subsv[sl] \/ subsv'[sl] = [subsv[sl] EXCEPT !.ispaused = FALSE]
    <3>1. CASE WaitpidRerun(x, p) \/ WaitpidDown(x, p)
      BY <1>5, <3>1 DEF WaitpidRerun, WaitpidDown, TypeOK
    <3>2. CASE WaitpidStopLog(x, p)
      BY <1>5, <3>2 DEF WaitpidStopLog, TypeOK
    <3> QED BY <3>1, <3>2
  <2>2. subsv[sl] \in Subsv
    BY DEF TypeOK
  <2> QED BY <2>1, <2>2 DEF SameSlot, SameRun, Subsv
<1>6. \/ runs' = {<<x, IF subsv[x].isreset THEN "start" ELSE "reset">>}
         /\ (subsv[x].isreset => ~subsv'[x].wantdown)
      \/ runs' = {} /\ subsv[x].isreset /\ subsv'[x].wantdown
  BY <1>1, <1>3, <1>4 DEF WaitpidRerun, WaitpidStopLog, WaitpidDown, StaysDown,
                          Rerun, RerunTarget
<1> QED BY <1>1, <1>3, <1>4, <1>5, <1>6

\* perpd_svdef_activate() fills both slots of one service.
LEMMA ActivateEffect ==
  ASSUME TypeOK, NEW d \in Services, NEW fl \in Flavors[d], ScanActivate(d, fl)
  PROVE  /\ runs = {} /\ ~svdefs[d].in /\ svdefs'[d].in
         /\ svdefs'[d].haslog = fl.haslog /\ svdefs'[d].active /\ ~svdefs'[d].cull
         /\ \A s \in Services \ {d} : svdefs'[s] = svdefs[s]
         /\ \A sl \in Slots : sl[1] # d => subsv'[sl] = subsv[sl]
         /\ subsv'[Log(d)] = NewSubsv
         /\ subsv'[Main(d)].pid = None /\ ~subsv'[Main(d)].isreset
         /\ ~subsv'[Main(d)].failing /\ subsv'[Main(d)].wantdown = fl.down
         /\ runs' = (IF fl.haslog THEN {<<Log(d), "start">>} ELSE {})
                    \cup (IF fl.down THEN {} ELSE {<<Main(d), "start">>})
<1>1. PICK i \in FreeFds, j \in FdNums \cup {0}, k \in FdNums \cup {0} :
         /\ fds' = [n \in FdNums |-> CASE n = i -> <<"dir", d>>
                                       [] n = j -> <<"rd", d>>
                                       [] n = k -> <<"wr", d>>
                                       [] OTHER -> fds[n]]
         /\ svdefs' = [svdefs EXCEPT ![d] =
                         [NoSvdef EXCEPT !.in = TRUE, !.active = TRUE,
                            !.haslog = fl.haslog, !.fd_dir = i, !.lp0 = j, !.lp1 = k]]
  BY DEF ScanActivate
<1>2. /\ svdefs'[d].in /\ svdefs'[d].haslog = fl.haslog
      /\ svdefs'[d].active /\ ~svdefs'[d].cull
      /\ \A s \in Services \ {d} : svdefs'[s] = svdefs[s]
  BY <1>1 DEF TypeOK, NoSvdef
<1>3. /\ subsv'[Log(d)] = NewSubsv
      /\ \E b : subsv'[Main(d)] = [NewSubsv EXCEPT !.wantdown = fl.down, !.isonce = b]
      /\ \A sl \in Slots : sl[1] # d => subsv'[sl] = subsv[sl]
  BY SlotCases DEF ScanActivate, TypeOK
<1>4. /\ subsv'[Main(d)].pid = None /\ ~subsv'[Main(d)].isreset
      /\ ~subsv'[Main(d)].failing /\ subsv'[Main(d)].wantdown = fl.down
  BY <1>3 DEF NewSubsv
<1> QED BY <1>2, <1>3, <1>4 DEF ScanActivate, Entry

\* A command moves no pid; only 'o' and 'u' make a slot wanted, and start it.
LEMMA ControlEffect ==
  ASSUME TypeOK, NEW r \in Requests, Control(r)
  PROVE  /\ UNCHANGED svdefs /\ runs = {}
         /\ \A r1 \in runs' : r1[2] = "start"
         /\ \A sl \in Slots :
              /\ SameRun(sl)
              /\ \/ <<sl, "start">> \notin runs'
                    /\ (subsv[sl].wantdown => subsv'[sl].wantdown)
                 \/ /\ ~subsv'[sl].wantdown
                    /\ <<sl, "start">> \in runs' <=> subsv[sl].pid = None
         /\ \A r1 \in runs' : svdefs[r1[1][1]].in /\ ~svdefs[r1[1][1]].cull
<1> DEFINE S == CtlSlots(r[1], r[2])
           c == CtlCmd(r[2])
<1>1. /\ UNCHANGED svdefs /\ runs = {}
      /\ \A sl \in Slots : subsv'[sl] = IF sl \in S THEN CtlSubsv(subsv[sl], c) ELSE subsv[sl]
      /\ runs' = {<<sl, "start">> : sl \in {x \in S : c \in {"o", "u"} /\ subsv[x].pid = None}}
      /\ svdefs[r[1][1]].in /\ ~svdefs[r[1][1]].cull
  BY DEF Control, Ready
<1>2. \A x \in S : x[1] = r[1][1]
  BY SlotCases DEF CtlSlots, Log
<1> HIDE DEF S, c
<1>3. ASSUME NEW sl \in Slots
      PROVE  /\ SameRun(sl)
             /\ \/ <<sl, "start">> \notin runs'
                   /\ (subsv[sl].wantdown => subsv'[sl].wantdown)
                \/ /\ ~subsv'[sl].wantdown
                   /\ <<sl, "start">> \in runs' <=> subsv[sl].pid = None
  <2>1. subsv[sl] \in Subsv
    BY DEF TypeOK
  <2>2. CASE sl \notin S
    BY <1>1, <2>2 DEF SameRun
  <2>3. CASE sl \in S /\ c \notin {"o", "u"}
    <3>1. /\ CtlSubsv(subsv[sl], c).pid = subsv[sl].pid
          /\ CtlSubsv(subsv[sl], c).isreset = subsv[sl].isreset
          /\ CtlSubsv(subsv[sl], c).failing = subsv[sl].failing
          /\ subsv[sl].wantdown => CtlSubsv(subsv[sl], c).wantdown
      BY <2>1, <2>3 DEF CtlSubsv, Subsv
    <3> QED BY <1>1, <2>3, <3>1 DEF SameRun
  <2>4. CASE sl \in S /\ c \in {"o", "u"}
    <3>1. /\ CtlSubsv(subsv[sl], c).pid = subsv[sl].pid
          /\ CtlSubsv(subsv[sl], c).isreset = subsv[sl].isreset
          /\ CtlSubsv(subsv[sl], c).failing = subsv[sl].failing
          /\ ~CtlSubsv(subsv[sl], c).wantdown
      BY <2>1, <2>4 DEF CtlSubsv, Subsv
    <3> QED BY <1>1, <2>4, <3>1 DEF SameRun
  <2> QED BY <2>2, <2>3, <2>4
<1> QED BY <1>1, <1>2, <1>3

-----------------------------------------------------------------------------
(* The calls of perpd_svdef_run() that are outstanding. *)

\* A slot has at most one call outstanding, a "start" only if it is not wanted
\* down or its fork() failed; what failed has no process, and is not a log that
\* does not exist.
SlotRuns(sl) ==
  /\ ~(<<sl, "start">> \in runs /\ <<sl, "reset">> \in runs)
  /\ <<sl, "start">> \in runs => ~subsv[sl].wantdown \/ subsv[sl].failing
  /\ subsv[sl].failing => subsv[sl].pid = None /\ HasSlot(sl)
RunInv == \A sl \in Slots : SlotRuns(sl)

LEMMA RunInvStep ==
  ASSUME TypeOK, TrackInv, RunInv, [Next]_vars
  PROVE  RunInv'
<1> SUFFICES ASSUME NEW sl \in Slots PROVE SlotRuns(sl)'
  BY DEF RunInv
<1>0. SlotRuns(sl) /\ sl[1] \in Services
  BY SlotCases DEF RunInv
<1>1. CASE QuietStep
  BY <1>0, <1>1 DEF QuietStep, SlotRuns, HasSlot
<1>2. ASSUME NEW G, CullStep(G) PROVE SlotRuns(sl)'
  BY <1>0, <1>2 DEF CullStep, SlotRuns, HasSlot, NewSubsv
<1>3. CASE RunStep
  <2>1. PICK x \in Slots, t \in Targets :
          \/ SvdefRunRefused(x, t)
          \/ \E p \in Pids : SvdefRun(x, t, p)
          \/ SvdefRunForkFails(x, t)
    BY <1>3 DEF RunStep
  <2>2. /\ UNCHANGED svdefs
        /\ <<x, t>> \in runs /\ runs' = runs \ {<<x, t>>}
        /\ \A y \in Slots \ {x} : subsv'[y] = subsv[y]
        /\ \/ subsv'[x] = subsv[x] /\ (subsv[x].pid # None \/ ~HasSlot(x))
           \/ /\ subsv[x].pid = None /\ HasSlot(x)
              /\ subsv'[x].wantdown = subsv[x].wantdown
              /\ \/ subsv'[x].pid # None /\ ~subsv'[x].failing
                 \/ subsv'[x].pid = None /\ subsv'[x].failing
    BY <2>1, RunEffect
  <2>3. CASE sl # x
    BY <1>0, <2>2, <2>3 DEF SlotRuns, HasSlot
  <2>4. CASE sl = x
    <3>1. t \in {"start", "reset"}
      BY DEF Targets
    <3>2. <<x, "start">> \notin runs' /\ <<x, "reset">> \notin runs'
      BY <1>0, <2>2, <2>4, <3>1 DEF SlotRuns
    <3> QED BY <1>0, <2>2, <2>4, <3>2 DEF SlotRuns, HasSlot
  <2> QED BY <2>3, <2>4
<1>4. ASSUME NEW x \in Slots, NEW p \in Pids,
             WaitpidRerun(x, p) \/ WaitpidStopLog(x, p) \/ WaitpidDown(x, p)
      PROVE  SlotRuns(sl)'
  <2>1. /\ UNCHANGED svdefs /\ runs = {}
        /\ subsv[x].pid = p
        /\ subsv'[x].pid = None
        /\ subsv'[x].failing = subsv[x].failing
        /\ \A y \in Slots \ {x} : SameSlot(y)
        /\ \/ runs' = {<<x, IF subsv[x].isreset THEN "start" ELSE "reset">>}
              /\ (subsv[x].isreset => ~subsv'[x].wantdown)
           \/ runs' = {}
    BY <1>4, ReapEffect
  <2>2. CASE sl # x
    BY <1>0, <2>1, <2>2 DEF SlotRuns, HasSlot, SameSlot, SameRun
  <2>3. CASE sl = x
    <3>1. ~subsv[x].failing
      BY <1>0, <2>1, <2>3, NoneAssumption DEF SlotRuns
    <3> QED BY <2>1, <2>3, <3>1 DEF SlotRuns
  <2> QED BY <2>2, <2>3
<1>5. ASSUME NEW d \in Services, NEW fl \in Flavors[d], ScanActivate(d, fl)
      PROVE  SlotRuns(sl)'
  <2>1. /\ runs = {}
        /\ \A s \in Services \ {d} : svdefs'[s] = svdefs[s]
        /\ \A y \in Slots : y[1] # d => subsv'[y] = subsv[y]
        /\ subsv'[Log(d)] = NewSubsv
        /\ subsv'[Main(d)].pid = None /\ ~subsv'[Main(d)].failing
        /\ subsv'[Main(d)].wantdown = fl.down
        /\ runs' = (IF fl.haslog THEN {<<Log(d), "start">>} ELSE {})
                   \cup (IF fl.down THEN {} ELSE {<<Main(d), "start">>})
    BY <1>5, ActivateEffect
  <2>2. CASE sl[1] # d
    <3>1. \A t : <<sl, t>> \notin runs'
      BY <2>1, <2>2, SlotCases
    <3> QED BY <1>0, <2>1, <2>2, <3>1 DEF SlotRuns, HasSlot
  <2>3. CASE sl = Log(d)
    BY <2>1, <2>3, SlotCases DEF SlotRuns, NewSubsv
  <2>4. CASE sl = Main(d)
    BY <2>1, <2>4, SlotCases DEF SlotRuns
  <2> QED BY <2>2, <2>3, <2>4, SlotCases
<1>6. CASE FailRetry
  <2>1. /\ UNCHANGED <<svdefs, subsv>>
        /\ runs' = {<<x, RetryTarget(subsv[x])>> : x \in {y \in Slots : Checkfail(y)}}
    BY <1>6 DEF FailRetry
  <2>2. \A t : <<sl, t>> \in runs' => t = RetryTarget(subsv[sl]) /\ Checkfail(sl)
    BY <2>1
  <2>3. <<sl, "start">> \in runs' => subsv[sl].failing
    BY <2>2 DEF Checkfail
  <2> QED BY <1>0, <2>1, <2>2, <2>3 DEF SlotRuns, HasSlot
<1>7. ASSUME NEW r \in Requests, Control(r) PROVE SlotRuns(sl)'
  <2>1. /\ UNCHANGED svdefs
        /\ \A r1 \in runs' : r1[2] = "start"
        /\ SameRun(sl)
        /\ <<sl, "start">> \in runs' => ~subsv'[sl].wantdown
    BY <1>7, ControlEffect
  <2>2. <<sl, "reset">> \notin runs'
    BY <2>1
  <2> QED BY <1>0, <2>1, <2>2 DEF SlotRuns, SameRun, HasSlot
<1> QED BY <1>1, <1>2, <1>3, <1>4, <1>5, <1>6, <1>7, NextCases

LEMMA RunCorrect == Spec => []RunInv
<1>1. Init => RunInv
  BY DEF Init, RunInv, SlotRuns, NewSubsv
<1>2. TypeOK /\ TrackInv /\ RunInv /\ [Next]_vars => RunInv'
  BY RunInvStep
<1> QED BY <1>1, <1>2, TypeCorrect, TrackCorrect, PTL DEF Spec

\* A process is forked to run "start" only for a slot that is not wanted down,
\* or as the retry of a fork() that failed: none of the calls of
\* perpd_svdef_run() is overtaken by a command, a cull or a death between the
\* decision and the fork (perpd.c:355-377, perpd_svdef.c:140-214,
\* perpd_conn.c:154-206).
THEOREM StartsOnlyWanted == Spec => OnlyWantedStarts
<1> DEFINE A == \A p \in Pids :
                  proc[p].st = "none" /\ proc'[p].st = "run" /\ proc'[p].target = "start"
                    => LET b == subsv[proc'[p].owner] IN ~b.wantdown \/ b.failing
<1>1. TypeOK /\ RunInv /\ [Next]_vars => [A]_vars
  <2> SUFFICES ASSUME TypeOK, RunInv, Next, NEW p \in Pids,
                      proc[p].st = "none", proc'[p].st = "run", proc'[p].target = "start"
               PROVE  ~subsv[proc'[p].owner].wantdown \/ subsv[proc'[p].owner].failing
    OBVIOUS
  <2>1. \A K : Kill(K)[p].st = proc[p].st
    BY KillType DEF TypeOK
  <2>2. \A q \in Pids : Reaped(q)[p].st # "run"
    BY DEF Reaped, NoProc, TypeOK
  <2>3. PICK x \in Slots, t \in Targets, q \in Pids : SvdefRun(x, t, q)
    <3>1. ASSUME Terminate \/ ScanEnd \/ \E r \in Requests : Control(r) PROVE FALSE
      <4>1. PICK K : proc' = Kill(K)
        BY <3>1 DEF Terminate, ScanEnd, Control
      <4> QED BY <2>1, <4>1
    <3>2. ASSUME NEW x \in Slots, NEW q \in Pids, WaitpidStopLog(x, q) PROVE FALSE
      <4>1. PICK K : proc' = [Kill(K) EXCEPT ![q] = NoProc]
        BY <3>2 DEF WaitpidStopLog
      <4>2. proc'[p] = Kill(K)[p] \/ proc'[p] = NoProc
        BY <4>1 DEF Kill
      <4> QED BY <2>1, <4>2 DEF NoProc
    <3>3. ASSUME NEW q \in Pids, NEW ws \in WStats, ChildExit(q, ws) PROVE FALSE
      <4>1. proc'[p] = proc[p] \/ proc'[p].st = "zombie"
        BY <3>3 DEF ChildExit, NoProc, TypeOK
      <4> QED BY <4>1
    <3> QED BY <2>2, <3>1, <3>2, <3>3, ProcCases
            DEF WaitpidStray, WaitpidRerun, WaitpidDown
  <2>4. proc' = [proc EXCEPT ![q] =
                   [NoProc EXCEPT !.st = "run", !.owner = x, !.target = t,
                                  !.arg = ResetArg(x, t), !.wired = Wiring(x, t)]]
        /\ <<x, t>> \in runs
    BY <2>3 DEF SvdefRun, NextRun
  <2>5. p = q /\ proc'[p].owner = x /\ t = "start"
    BY <2>4 DEF TypeOK, NoProc
  <2> QED BY <2>4, <2>5 DEF RunInv, SlotRuns
<1> QED BY <1>1, TypeCorrect, RunCorrect, PTL DEF Spec, OnlyWantedStarts

-----------------------------------------------------------------------------
(* Processes that are stopped, and the TERM that ends a log. *)

\* The slot of a child, and the slot that holds a pid, are each other's.
LEMMA OwnSlot ==
  ASSUME TypeOK, TrackInv
  PROVE  /\ \A p \in Unreaped : /\ p \in Pids /\ proc[p].owner \in Slots
                                /\ subsv[proc[p].owner].pid = p
                                /\ svdefs[proc[p].owner[1]].in
         /\ \A x, y \in Slots : subsv[x].pid # None /\ subsv[x].pid = subsv[y].pid => x = y
         /\ \A x \in Slots : subsv[x].pid # None => subsv[x].pid \in Pids /\ HasSlot(x)
<1>1. ASSUME NEW p \in Unreaped
      PROVE  /\ p \in Pids /\ proc[p].owner \in Slots /\ subsv[proc[p].owner].pid = p
             /\ svdefs[proc[p].owner[1]].in
  <2>1. proc[p] \in Proc /\ proc[p].owner # None /\ p \in Pids
    BY DEF Unreaped, TypeOK
  <2> QED BY <2>1 DEF Proc, TrackInv, ChildTracking
<1>2. \A x, y \in Slots : subsv[x].pid # None /\ subsv[x].pid = subsv[y].pid => x = y
  BY DEF TrackInv, ChildTracking
<1>3. ASSUME NEW x \in Slots, subsv[x].pid # None
      PROVE  subsv[x].pid \in Pids /\ HasSlot(x)
  <2>1. subsv[x].pid \in Pids
    BY <1>3 DEF TrackInv, ChildTracking, Unreaped
  <2>2. x = Main(x[1]) \/ (x = Log(x[1]) /\ svdefs[x[1]].haslog)
    BY <1>3, SlotCases DEF TrackInv
  <2> QED BY <2>1, <2>2 DEF HasSlot, Main
<1> QED BY <1>1, <1>2, <1>3

\* kill() stops a process only by STOP, and TERM alone marks it terminated.
LEMMA KillEffect ==
  ASSUME proc \in [Pids -> Proc], NEW K, NEW p \in Pids
  PROVE  /\ Kill(K)[p].stopped =>
              \/ <<p, "STOP">> \in K /\ <<p, "CONT">> \notin K /\ proc[p].st = "run"
              \/ proc[p].stopped /\ (proc[p].st = "run" => <<p, "CONT">> \notin K)
         /\ Kill(K)[p].termed => proc[p].termed \/ <<p, "TERM">> \in K
<1>1. proc[p] \in Proc
  OBVIOUS
<1> QED BY <1>1 DEF Kill, Proc

\* A zombie and a reaped process are not stopped.
PauseInv == /\ StoppedIsPaused
            /\ \A p \in Pids : proc[p].stopped => proc[p].st = "run"

\* perpd_svdef_wantcull() continues every process whose paused flag it clears.
LEMMA PauseCull ==
  ASSUME TypeOK, TrackInv, PauseInv, NEW C, NEW G,
         \A sl \in Slots : sl[1] \in G => subsv[sl].pid = None,
         subsv' = RemovedSubsv(WantcullSubsv(C), G),
         proc' = Kill(WantcullKills(C))
  PROVE  PauseInv'
<1>1. \A p \in Pids : proc'[p].st = proc[p].st /\ proc'[p].owner = proc[p].owner
  BY KillType DEF TypeOK
<1>2. ASSUME NEW p \in Pids, proc'[p].stopped
      PROVE  proc[p].stopped /\ proc[p].st = "run" /\ <<p, "CONT">> \notin WantcullKills(C)
  <2>1. <<p, "STOP">> \notin WantcullKills(C)
    BY DEF WantcullKills
  <2> QED BY <1>2, <2>1, KillEffect DEF TypeOK, PauseInv
<1>3. ASSUME NEW p \in Unreaped', proc'[p].stopped PROVE subsv'[proc'[p].owner].ispaused
  <2> DEFINE sl == proc[p].owner
  <2>1. p \in Unreaped /\ p \in Pids /\ proc'[p].owner = sl
    BY <1>1 DEF Unreaped
  <2>2. sl \in Slots /\ subsv[sl].pid = p /\ p # None
    BY <2>1, OwnSlot, NoneAssumption
  <2>3. subsv[sl].ispaused
    BY <1>2, <1>3, <2>1 DEF PauseInv, StoppedIsPaused
  <2> HIDE DEF sl
  <2>4. subsv'[sl] = WantcullSubsv(C)[sl] /\ sl[1] \in Services /\ subsv[sl] \in Subsv
    BY <2>2, SlotCases DEF RemovedSubsv, TypeOK
  <2>5. ~(sl[1] \in C /\ sl \in Signalled(sl[1]))
    <3> SUFFICES ASSUME sl[1] \in C, sl \in Signalled(sl[1]) PROVE FALSE
      OBVIOUS
    <3>1. <<subsv[sl].pid, "CONT">> \in WantcullKills(C)
      BY DEF WantcullKills
    <3> QED BY <3>1, <2>1, <2>2, <1>2, <1>3
  <2>6. \/ subsv'[sl] = subsv[sl]
        \/ subsv'[sl] = [subsv[sl] EXCEPT !.wantdown = TRUE, !.ispaused = subsv[sl].ispaused]
    BY <2>2, <2>4, <2>5 DEF WantcullSubsv
  <2>7. subsv'[sl].ispaused
    BY <2>3, <2>4, <2>6 DEF Subsv
  <2> QED BY <2>1, <2>7
<1> QED BY <1>1, <1>2, <1>3 DEF PauseInv, StoppedIsPaused

\* Control: 'p' marks what it stops, 'c' and 'd' continue what they unmark.
LEMMA PauseControl ==
  ASSUME TypeOK, TrackInv, PauseInv, NEW r \in Requests, Control(r)
  PROVE  PauseInv'
<1> DEFINE S == CtlSlots(r[1], r[2])
           c == CtlCmd(r[2])
           K == UNION {DoKill(sl, CtlSignals(c)) : sl \in S}
<1>1. /\ \A sl \in Slots : subsv'[sl] = IF sl \in S THEN CtlSubsv(subsv[sl], c) ELSE subsv[sl]
      /\ proc' = Kill(K)
  BY DEF Control
<1>2. S \subseteq Slots
  BY SlotCases DEF CtlSlots, Requests
<1> HIDE DEF S, c
<1>3. \A p \in Pids : proc'[p].st = proc[p].st /\ proc'[p].owner = proc[p].owner
  BY <1>1, KillType DEF TypeOK
<1>4. \A p \in Pids : proc'[p].stopped => proc'[p].st = "run"
  BY <1>1, <1>3, KillEffect DEF TypeOK, PauseInv
<1>5. ASSUME NEW p \in Unreaped', proc'[p].stopped PROVE subsv'[proc'[p].owner].ispaused
  <2> DEFINE sl == proc[p].owner
  <2>1. p \in Unreaped /\ p \in Pids /\ proc'[p].owner = sl /\ proc[p].st = "run"
    BY <1>3, <1>4, <1>5 DEF Unreaped
  <2>2. sl \in Slots /\ subsv[sl].pid = p /\ p # None /\ HasSlot(sl)
    BY <2>1, OwnSlot, NoneAssumption
  <2>3. proc[p].stopped => subsv[sl].ispaused
    BY <2>1 DEF PauseInv, StoppedIsPaused
  <2> HIDE DEF sl
  <2>4. subsv[sl] \in Subsv
    BY <2>2 DEF TypeOK
  <2>5. \A sig : \A x \in S : <<p, sig>> \in DoKill(x, CtlSignals(c)) => x = sl
    BY <1>2, <2>2, OwnSlot DEF DoKill
  <2>6. \A sig : <<p, sig>> \in K <=> sl \in S /\ <<p, sig>> \in DoKill(sl, CtlSignals(c))
    BY <2>5
  <2> HIDE DEF K
  <2>7. CASE sl \notin S
    <3>1. proc[p].stopped
      BY <1>1, <1>5, <2>1, <2>6, <2>7, KillEffect DEF TypeOK
    <3> QED BY <1>1, <2>1, <2>2, <2>3, <2>7, <3>1
  <2>8. CASE sl \in S
    <3>1. \A sig : <<p, sig>> \in K <=>
            sig \in IF subsv[sl].isreset THEN CtlSignals(c) \cap {"CONT", "KILL"}
                                         ELSE CtlSignals(c)
      BY <2>2, <2>6, <2>8 DEF DoKill, HasSlot
    <3>2. \/ <<p, "STOP">> \in K
          \/ proc[p].stopped /\ <<p, "CONT">> \notin K
      BY <1>1, <1>5, <2>1, KillEffect DEF TypeOK
    <3>3. subsv'[sl] = CtlSubsv(subsv[sl], c)
      BY <1>1, <2>2, <2>8
    <3>4. CASE c = "p"
      <4>1. CtlSignals(c) = {"STOP"}
        BY <3>4 DEF CtlSignals
      <4>2. CASE subsv[sl].isreset
        <5>1. proc[p].stopped
          BY <3>1, <3>2, <4>1, <4>2
        <5>2. subsv'[sl].ispaused = subsv[sl].ispaused
          BY <3>3, <3>4, <2>4, <4>2 DEF CtlSubsv, Subsv
        <5> QED BY <2>1, <2>3, <5>1, <5>2
      <4>3. CASE ~subsv[sl].isreset
        <5>1. subsv'[sl].ispaused
          BY <3>3, <3>4, <2>2, <2>4, <4>3 DEF CtlSubsv, Subsv
        <5> QED BY <2>1, <5>1
      <4> QED BY <4>2, <4>3
    <3>5. CASE c \in {"c", "d"}
      <4>1. "CONT" \in CtlSignals(c) /\ "STOP" \notin CtlSignals(c)
        BY <3>5 DEF CtlSignals
      <4> QED BY <3>1, <3>2, <4>1
    <3>6. CASE c \notin {"p", "c", "d"}
      <4>1. "STOP" \notin CtlSignals(c)
        BY <3>6 DEF CtlSignals
      <4>2. subsv'[sl].ispaused = subsv[sl].ispaused
        BY <3>3, <3>6, <2>4 DEF CtlSubsv, Subsv
      <4> QED BY <2>1, <2>3, <3>1, <3>2, <4>1, <4>2
    <3> QED BY <3>4, <3>5, <3>6
  <2> QED BY <2>7, <2>8
<1> QED BY <1>4, <1>5 DEF PauseInv, StoppedIsPaused

\* A step in which no process of a slot becomes stopped, and none of a stopped
\* process loses its flag.
LEMMA PauseKeeps ==
  ASSUME PauseInv,
         \A p \in Pids : proc'[p].stopped =>
           /\ proc[p].stopped /\ proc'[p].st = proc[p].st /\ proc'[p].owner = proc[p].owner
           /\ p \in Unreaped => subsv'[proc[p].owner].ispaused = subsv[proc[p].owner].ispaused
  PROVE  PauseInv'
BY DEF PauseInv, StoppedIsPaused, Unreaped

LEMMA PauseStep ==
  ASSUME TypeOK, TrackInv, PauseInv, [Next]_vars
  PROVE  PauseInv'
<1>1. CASE UNCHANGED <<subsv, proc>>
  BY <1>1 DEF PauseInv, StoppedIsPaused, Unreaped
<1>2. CASE Terminate
  <2> DEFINE svd == WantcullSvdefs(InTable)
             sub == WantcullSubsv(InTable)
             called == \E s \in InTable : AlreadyDown(s)
             G == Culled(called, svd)
  <2>1. subsv' = RemovedSubsv(sub, G) /\ proc' = Kill(WantcullKills(InTable))
    BY <1>2 DEF Terminate
  <2>2. /\ svd \in [Services -> Svdef] /\ sub \in [Slots -> Subsv]
        /\ \A s \in Services : svd[s].in = svdefs[s].in /\ svd[s].haslog = svdefs[s].haslog
        /\ \A sl \in Slots : sub[sl].pid = subsv[sl].pid
    BY WantcullType DEF TypeOK
  <2>3. \A sl \in Slots : sl[1] \in G => subsv[sl].pid = None
    <3> HIDE DEF svd, sub, called
    <3> QED BY <2>2, CulledFacts
  <2> HIDE DEF G
  <2> QED BY <2>1, <2>3, PauseCull
<1>3. CASE ScanEnd
  <2> DEFINE Gone == {s \in InTable : ~svdefs[s].active}
             New == {s \in Gone : ~svdefs[s].cull}
             svd == [s \in Services |->
                       IF s \in Gone THEN [WantcullSvdefs(New)[s] EXCEPT
                                             !.cycle = IF s \in New THEN @ ELSE FALSE]
                                     ELSE svdefs[s]]
             sub == WantcullSubsv(New)
             got_cull == \/ \E s \in New : AlreadyDown(s)
                         \/ \E s \in Gone \ New : CullOk(svdefs, subsv, s)
             G == Culled(got_cull, svd)
  <2>1. subsv' = RemovedSubsv(sub, G) /\ proc' = Kill(WantcullKills(New))
    BY <1>3 DEF ScanEnd
  <2>2. /\ sub \in [Slots -> Subsv]
        /\ \A sl \in Slots : sub[sl].pid = subsv[sl].pid
    BY WantcullType DEF TypeOK
  <2>3. /\ svd \in [Services -> Svdef]
        /\ \A s \in Services : svd[s].in = svdefs[s].in /\ svd[s].haslog = svdefs[s].haslog
    <3>1. svd = ScanEndSvdefs(Gone, New)
      BY DEF ScanEndSvdefs
    <3> HIDE DEF Gone, New, svd
    <3> QED BY <3>1, ScanEndKeeps
  <2>4. \A sl \in Slots : sl[1] \in G => subsv[sl].pid = None
    <3> HIDE DEF svd, sub, got_cull
    <3> QED BY <2>2, <2>3, CulledFacts
  <2> HIDE DEF G, New
  <2> QED BY <2>1, <2>4, PauseCull
<1>4. CASE WaitupDone
  <2> DEFINE G == Culled(wait.got_cull, svdefs)
  <2>1. UNCHANGED proc /\ subsv' = RemovedSubsv(subsv, G)
    BY <1>4 DEF WaitupDone
  <2>2. \A sl \in Slots : sl[1] \in G => subsv[sl].pid = None
    BY CulledFacts DEF TypeOK
  <2> HIDE DEF G
  <2>3. ASSUME NEW p \in Unreaped PROVE subsv'[proc[p].owner] = subsv[proc[p].owner]
    <3>1. proc[p].owner \in Slots /\ subsv[proc[p].owner].pid # None
      BY OwnSlot, NoneAssumption
    <3> QED BY <2>1, <2>2, <3>1 DEF RemovedSubsv
  <2> QED BY <2>1, <2>3, PauseKeeps
<1>5. ASSUME NEW d \in Services, NEW fl \in Flavors[d], ScanActivate(d, fl) PROVE PauseInv'
  <2>1. /\ ~svdefs[d].in /\ UNCHANGED proc
        /\ \A y \in Slots : y[1] # d => subsv'[y] = subsv[y]
    BY <1>5, ActivateEffect DEF ScanActivate
  <2>2. \A p \in Unreaped : subsv'[proc[p].owner] = subsv[proc[p].owner]
    BY <2>1, OwnSlot
  <2> QED BY <2>1, <2>2, PauseKeeps
<1>6. CASE RunStep
  <2>1. PICK x \in Slots, t \in Targets :
          \/ SvdefRunRefused(x, t)
          \/ \E p \in Pids : SvdefRun(x, t, p)
          \/ SvdefRunForkFails(x, t)
    BY <1>6 DEF RunStep
  <2>2. CASE SvdefRunRefused(x, t)
    BY <1>1, <2>2 DEF SvdefRunRefused
  <2>3. CASE SvdefRunForkFails(x, t)
    <3>1. /\ UNCHANGED proc /\ subsv[x].pid = None
          /\ \A y \in Slots \ {x} : subsv'[y] = subsv[y]
      BY <2>3, RunEffect DEF SvdefRunForkFails, RunRefused
    <3>2. \A p \in Unreaped : subsv'[proc[p].owner] = subsv[proc[p].owner]
      BY <3>1, OwnSlot, NoneAssumption
    <3> QED BY <3>1, <3>2, PauseKeeps
  <2>4. ASSUME NEW q \in Pids, SvdefRun(x, t, q) PROVE PauseInv'
    <3>1. /\ subsv[x].pid = None
          /\ \A y \in Slots \ {x} : subsv'[y] = subsv[y]
      BY <2>4, RunEffect DEF SvdefRun, RunRefused
    <3>2. ~proc'[q].stopped /\ \A p \in Pids \ {q} : proc'[p] = proc[p]
      BY <2>4 DEF SvdefRun, TypeOK, NoProc
    <3>3. \A p \in Unreaped : subsv'[proc[p].owner] = subsv[proc[p].owner]
      BY <3>1, OwnSlot, NoneAssumption
    <3> QED BY <3>2, <3>3, PauseKeeps
  <2> QED BY <2>1, <2>2, <2>3, <2>4
<1>7. ASSUME NEW p \in Pids, WaitpidStray(p) PROVE PauseInv'
  <2>1. UNCHANGED subsv /\ ~proc'[p].stopped /\ \A q \in Pids \ {p} : proc'[q] = proc[q]
    BY <1>7 DEF WaitpidStray, Reaped, NoProc, TypeOK
  <2> QED BY <2>1, PauseKeeps
<1>8. ASSUME NEW x \in Slots, NEW p \in Pids, WaitpidRerun(x, p) \/ WaitpidDown(x, p)
      PROVE  PauseInv'
  <2>1. ~proc'[p].stopped /\ \A q \in Pids \ {p} : proc'[q] = proc[q]
    BY <1>8 DEF WaitpidRerun, WaitpidDown, Reaped, NoProc, TypeOK
  <2>2. subsv[x].pid = p /\ \A y \in Slots \ {x} : subsv'[y] = subsv[y]
    BY <1>8 DEF WaitpidRerun, WaitpidDown, StaysDown, Child, TypeOK
  <2>3. \A q \in Unreaped : q # p => subsv'[proc[q].owner] = subsv[proc[q].owner]
    BY <2>2, OwnSlot
  <2> QED BY <2>1, <2>3, PauseKeeps
<1>9. ASSUME NEW x \in Slots, NEW p \in Pids, WaitpidStopLog(x, p) PROVE PauseInv'
  <2> DEFINE lg == Log(x[1])
  <2>1. PICK live \in BOOLEAN :
          proc' = [Kill({<<subsv[lg].pid, sig>> :
                           sig \in IF live THEN {"TERM", "CONT"} ELSE {"CONT"}})
                   EXCEPT ![p] = NoProc]
    BY <1>9 DEF WaitpidStopLog
  <2> DEFINE K == {<<subsv[lg].pid, sig>> :
                     sig \in IF live THEN {"TERM", "CONT"} ELSE {"CONT"}}
  <2>2. /\ subsv[x].pid = p /\ lg # x /\ lg \in Slots
        /\ \A y \in Slots \ {x, lg} : subsv'[y] = subsv[y]
    BY <1>9, SlotCases DEF WaitpidStopLog, StaysDown, Child, LogToStop, Log, TypeOK
  <2>3. <<subsv[lg].pid, "CONT">> \in K /\ \A q : <<q, "STOP">> \notin K
    OBVIOUS
  <2>4. ~proc'[p].stopped /\ \A q \in Pids \ {p} : proc'[q] = Kill(K)[q]
    BY <2>1 DEF Kill, NoProc
  <2> HIDE DEF K, lg
  <2>5. ASSUME NEW q \in Pids, proc'[q].stopped
        PROVE  /\ proc[q].stopped /\ proc'[q].st = proc[q].st /\ proc'[q].owner = proc[q].owner
               /\ q \in Unreaped => subsv'[proc[q].owner].ispaused = subsv[proc[q].owner].ispaused
    <3>1. q # p /\ proc'[q] = Kill(K)[q]
      BY <2>4, <2>5
    <3>2. proc'[q].st = proc[q].st /\ proc'[q].owner = proc[q].owner
      BY <3>1, KillType DEF TypeOK
    <3>3. proc[q].stopped /\ <<q, "CONT">> \notin K
      BY <2>3, <2>5, <3>1, KillEffect DEF TypeOK, PauseInv
    <3>4. q # subsv[lg].pid
      BY <2>3, <3>3
    <3>5. q \in Unreaped => subsv'[proc[q].owner] = subsv[proc[q].owner]
      BY <2>2, <3>1, <3>4, OwnSlot
    <3> QED BY <3>2, <3>3, <3>5
  <2> QED BY <2>5, PauseKeeps
<1>10. ASSUME NEW p \in Pids, NEW ws \in WStats, ChildExit(p, ws) PROVE PauseInv'
  <2>1. UNCHANGED subsv /\ ~proc'[p].stopped /\ \A q \in Pids \ {p} : proc'[q] = proc[q]
    BY <1>10 DEF ChildExit, NoProc, TypeOK
  <2> QED BY <2>1, PauseKeeps
<1>11. CASE \E r \in Requests : Control(r)
  BY <1>11, PauseControl
<1>12. CASE UNCHANGED proc
  <2>1. CASE WaitupStep
    BY <1>4, <1>7, <1>8, <1>9, <2>1 DEF WaitupStep
  <2>2. CASE ScanStep
    BY <1>1, <1>3, <1>5, <1>12, <2>2
       DEF ScanStep, ScanOpendirFails, ScanBegin, ScanReaddirFails, ScanIgnore, ScanKeep, ScanFail
  <2>3. CASE PollStep \/ FailStep \/ ClientStep
    BY <1>1, <1>2, <1>11, <1>12, <2>3
       DEF PollStep, SigTrap, PollReturn, Drain, ChldCheck, FailStep, FailDie, FailRetry,
           FailDone, ClientStep, LoopEnd, ControlRefused
  <2>4. CASE ChildStep \/ AdminStep \/ Finished \/ UNCHANGED vars
    BY <1>1, <1>12, <2>4
       DEF ChildStep, ChildExit, AdminStep, Chmod, Signal, Send, Finished, vars
  <2> QED BY <1>6, <2>1, <2>2, <2>3, <2>4 DEF Next, MainLoop
<1> QED BY <1>2, <1>3, <1>6, <1>7, <1>8, <1>9, <1>10, <1>11, <1>12, ProcCases DEF RunStep

\* A stopped process is always flagged paused: whatever clears the flag also
\* sends SIGCONT, and perpd_waitup() and perpd_svdef_run() clear it only with
\* the process (perpd_conn.c:150-206, perpd_svdef.c:372-455, perpd.c:379-402).
THEOREM StoppedIsFlagged == Spec => []StoppedIsPaused
<1>1. Init => PauseInv
  <2> SUFFICES ASSUME Init, NEW p \in Pids PROVE ~proc[p].stopped
    BY DEF PauseInv, StoppedIsPaused, Unreaped
  <2>1. proc[p] = NoProc \/ proc[p] = [NoProc EXCEPT !.st = "run"]
    BY DEF Init
  <2> QED BY <2>1 DEF NoProc
<1>2. TypeOK /\ TrackInv /\ PauseInv /\ [Next]_vars => PauseInv'
  BY PauseStep
<1>3. PauseInv => StoppedIsPaused
  BY DEF PauseInv
<1> QED BY <1>1, <1>2, <1>3, TypeCorrect, TrackCorrect, PTL DEF Spec

\* TERM reaches the log of a service by perpd_svdef_wantcull() only when main
\* has no process.
LEMMA CullTermsLog ==
  ASSUME TypeOK, TrackInv, NEW s \in Services, NEW C, C \subseteq Services,
         subsv[Log(s)].pid # None,
         <<subsv[Log(s)].pid, "TERM">> \in WantcullKills(C)
  PROVE  subsv[Main(s)].pid = None
<1>1. PICK c \in C : \E x \in Signalled(c) : subsv[x].pid = subsv[Log(s)].pid
  BY DEF WantcullKills
<1>2. PICK x \in Signalled(c) : subsv[x].pid = subsv[Log(s)].pid
  BY <1>1
<1>3. c \in Services /\ x \in Slots /\ (x = Main(c) \/ (x = Log(c) /\ subsv[Main(c)].pid = None))
  BY <1>2, SlotCases DEF Signalled
<1>4. x = Log(s)
  BY <1>2, <1>3, OwnSlot, SlotCases
<1> QED BY <1>3, <1>4, SlotCases DEF Main, Log

\* While a service is culled, the log gets its TERM only when main has no
\* process left (perpd_svdef.c:405-436, perpd.c:379-402): the logger reads the
\* last words of main, in every interleaving of culls, deaths and commands.
THEOREM LogOutlivesMain == Spec => LoggerLast
<1> DEFINE A == \A s \in Services :
                  LET p == subsv[Log(s)].pid
                  IN p # None /\ svdefs'[s].cull /\ ~proc[p].termed /\ proc'[p].termed
                       => subsv'[Main(s)].pid = None
<1>1. TypeOK /\ TrackInv /\ [Next]_vars => [A]_vars
  <2> SUFFICES ASSUME TypeOK, TrackInv, Next, NEW s \in Services, NEW p, p = subsv[Log(s)].pid,
                      p # None, svdefs'[s].cull, ~proc[p].termed, proc'[p].termed
               PROVE  subsv'[Main(s)].pid = None
    OBVIOUS
  <2>1. p \in Pids /\ Log(s) \in Slots /\ Main(s) \in Slots
    BY SlotCases, OwnSlot
  <2>2. ASSUME NEW K, proc'[p] = Kill(K)[p] PROVE <<p, "TERM">> \in K
    BY <2>1, <2>2, KillEffect DEF TypeOK
  <2>3. CASE Terminate
    <3>1. <<p, "TERM">> \in WantcullKills(InTable)
      BY <2>2, <2>3 DEF Terminate
    <3>2. subsv[Main(s)].pid = None
      BY <3>1, CullTermsLog DEF InTable
    <3>3. WantcullSubsv(InTable)[Main(s)].pid = None
      BY <2>1, <3>2, WantcullKeeps DEF TypeOK
    <3>4. PICK G : subsv' = RemovedSubsv(WantcullSubsv(InTable), G)
      BY <2>3 DEF Terminate
    <3> QED BY <2>1, <3>3, <3>4 DEF RemovedSubsv, NewSubsv
  <2>4. CASE ScanEnd
    <3> DEFINE New == {x \in {y \in InTable : ~svdefs[y].active} : ~svdefs[x].cull}
    <3>1. proc' = Kill(WantcullKills(New)) /\ \E G : subsv' = RemovedSubsv(WantcullSubsv(New), G)
      BY <2>4 DEF ScanEnd
    <3>2. New \subseteq Services
      BY DEF InTable
    <3> HIDE DEF New
    <3>3. subsv[Main(s)].pid = None
      BY <2>2, <3>1, <3>2, CullTermsLog
    <3>4. WantcullSubsv(New)[Main(s)].pid = None
      BY <2>1, <3>3, WantcullKeeps DEF TypeOK
    <3> QED BY <2>1, <3>1, <3>4 DEF RemovedSubsv, NewSubsv
  <2>5. ASSUME NEW r \in Requests, Control(r) PROVE FALSE
    <3> DEFINE S == CtlSlots(r[1], r[2])
               c == CtlCmd(r[2])
    <3>1. /\ ~svdefs[r[1][1]].cull /\ UNCHANGED svdefs
          /\ proc' = Kill(UNION {DoKill(sl, CtlSignals(c)) : sl \in S})
      BY <2>5 DEF Control
    <3>2. S \subseteq Slots /\ \A x \in S : x[1] = r[1][1]
      BY SlotCases DEF CtlSlots, Requests, Log
    <3> HIDE DEF S, c
    <3>3. PICK x \in S : <<p, "TERM">> \in DoKill(x, CtlSignals(c))
      BY <2>2, <3>1
    <3>4. x \in Slots /\ subsv[x].pid = p
      BY <3>2, <3>3 DEF DoKill
    <3>5. x = Log(s)
      BY <2>1, <3>4, OwnSlot
    <3> QED BY <3>1, <3>2, <3>5, SlotCases
  <2>6. ASSUME NEW x \in Slots, NEW q \in Pids, WaitpidStopLog(x, q)
        PROVE  subsv'[Main(s)].pid = None
    <3> DEFINE lg == Log(x[1])
    <3>1. PICK live \in BOOLEAN :
            proc' = [Kill({<<subsv[lg].pid, sig>> :
                             sig \in IF live THEN {"TERM", "CONT"} ELSE {"CONT"}})
                     EXCEPT ![q] = NoProc]
      BY <2>6 DEF WaitpidStopLog
    <3> DEFINE K == {<<subsv[lg].pid, sig>> :
                       sig \in IF live THEN {"TERM", "CONT"} ELSE {"CONT"}}
    <3>2. x = Main(x[1]) /\ lg \in Slots
      BY <2>6, SlotCases DEF WaitpidStopLog, LogToStop, Log
    <3>3. proc'[p] = NoProc \/ proc'[p] = Kill(K)[p]
      BY <2>1, <3>1 DEF Kill
    <3>4. <<p, "TERM">> \in K
      BY <2>2, <3>3 DEF NoProc
    <3>5. p = subsv[lg].pid
      BY <3>4
    <3>6. lg = Log(s)
      <4>1. \A y \in Slots : subsv[y].pid = p => y = Log(s)
        BY <2>1, OwnSlot
      <4> HIDE DEF lg
      <4> QED BY <3>2, <3>5, <4>1
    <3>7. x = Main(s)
      BY <3>2, <3>6 DEF Log
    <3> QED BY <2>6, <3>7, ReapEffect
  <2>7. ASSUME NEW q \in Pids, proc'[q] = NoProc \/ ~proc'[q].termed,
               \A y \in Pids \ {q} : proc'[y] = proc[y]
        PROVE  FALSE
    BY <2>1, <2>7 DEF NoProc
  <2>8. ASSUME NEW q \in Pids, proc' = Reaped(q) PROVE FALSE
    BY <2>7, <2>8 DEF Reaped, TypeOK
  <2>9. ASSUME NEW x \in Slots, NEW t \in Targets, NEW q \in Pids, SvdefRun(x, t, q) PROVE FALSE
    BY <2>7, <2>9 DEF SvdefRun, NoProc, TypeOK
  <2>10. ASSUME NEW q \in Pids, NEW ws \in WStats, ChildExit(q, ws) PROVE FALSE
    BY <2>7, <2>10 DEF ChildExit, NoProc, TypeOK
  <2> QED BY <2>3, <2>4, <2>5, <2>6, <2>8, <2>9, <2>10, ProcCases
          DEF WaitpidStray, WaitpidRerun, WaitpidDown
<1> QED BY <1>1, TypeCorrect, TrackCorrect, PTL DEF Spec, LoggerLast

-----------------------------------------------------------------------------
(* Whose descriptors are closed. *)

\* The service table changes only in a cull and in a scan; a scan ends only at
\* the end of the directory or when readdir() fails.
LEMMA TableCases ==
  ASSUME [Next]_vars
  PROVE  /\ \/ UNCHANGED svdefs
            \/ Terminate \/ WaitupDone \/ ScanBegin \/ ScanEnd
            \/ \E d \in Services : ScanKeep(d)
            \/ \E d \in Services : \E fl \in Flavors[d] : ScanActivate(d, fl)
         /\ pc = "scanning" => pc' = "scanning" \/ ScanEnd \/ ScanReaddirFails
<1>1. CASE PollStep
  BY <1>1 DEF PollStep, SigTrap, PollReturn, Drain, Terminate, ChldCheck
<1>2. CASE WaitupStep
  BY <1>2 DEF WaitupStep, WaitpidStray, WaitpidRerun, WaitpidStopLog, WaitpidDown, StaysDown,
              Waiting, WaitupDone
<1>3. CASE ScanStep
  BY <1>3 DEF ScanStep, ScanOpendirFails, ScanBegin, ScanReaddirFails, ScanIgnore, ScanKeep,
              ScanFail, ScanActivate
<1>4. CASE FailStep \/ ClientStep
  BY <1>4 DEF FailStep, FailDie, FailRetry, FailDone, ClientStep, LoopEnd, ControlRefused,
              Control, Ready
<1>5. CASE RunStep
  BY <1>5 DEF RunStep, SvdefRunRefused, SvdefRun, SvdefRunForkFails
<1>6. CASE ChildStep \/ AdminStep \/ Finished \/ UNCHANGED vars
  BY <1>6 DEF ChildStep, ChildExit, AdminStep, Chmod, Signal, Send, Finished, vars
<1> QED BY <1>1, <1>2, <1>3, <1>4, <1>5, <1>6 DEF Next, MainLoop

\* A directory is open under the number of its service only, and no log pipe
\* was ever opened under that number.
DirInv ==
  \A s \in Services :
    /\ \A n \in FdNums : fds[n] = <<"dir", s>> => svdefs[s].in /\ n = svdefs[s].fd_dir
    /\ svdefs[s].in /\ svdefs[s].haslog =>
         svdefs[s].lp0 # svdefs[s].fd_dir /\ svdefs[s].lp1 # svdefs[s].fd_dir

\* The descriptor table changes in a cull, at the end of a main and in a scan.
LEMMA FdCases ==
  ASSUME [Next]_vars
  PROVE  \/ UNCHANGED fds
         \/ Terminate \/ WaitupDone \/ ScanBegin \/ ScanReaddirFails \/ ScanEnd
         \/ \E sl \in Slots, p \in Pids : WaitpidStopLog(sl, p)
         \/ \E d \in Services : \E fl \in Flavors[d] : ScanActivate(d, fl)
<1>1. CASE PollStep
  BY <1>1 DEF PollStep, SigTrap, PollReturn, Drain, ChldCheck
<1>2. CASE WaitupStep
  BY <1>2 DEF WaitupStep, WaitpidStray, WaitpidRerun, WaitpidDown
<1>3. CASE ScanStep
  BY <1>3 DEF ScanStep, ScanOpendirFails, ScanIgnore, ScanKeep, ScanFail
<1>4. CASE FailStep \/ ClientStep
  BY <1>4 DEF FailStep, FailDie, FailRetry, FailDone, ClientStep, LoopEnd, ControlRefused,
              Control
<1>5. CASE RunStep
  BY <1>5 DEF RunStep, SvdefRunRefused, SvdefRun, SvdefRunForkFails
<1>6. CASE ChildStep \/ AdminStep \/ Finished \/ UNCHANGED vars
  BY <1>6 DEF ChildStep, ChildExit, AdminStep, Chmod, Signal, Send, Finished, vars
<1> QED BY <1>1, <1>2, <1>3, <1>4, <1>5, <1>6 DEF Next, MainLoop

\* What becomes of the objects of a service: gone, leaked, or where they were.
LEMMA CloseEffect ==
  ASSUME NEW N, NEW G, NEW n \in FdNums
  PROVE  /\ Close(N, G)[n] \in {fds[n], Free, Leak}
         /\ Close(N, G)[n] # fds[n] => n \in N \/ \E t \in G : fds[n] \in PipeEnds(t)
BY DEF Close

\* What a cull closes of a service that stays, it closes by a stale number of
\* another one, or it is the pipe of a service whose main has no process.
LEMMA CullCloses ==
  ASSUME TypeOK, DirInv, NEW C \in SUBSET InTable, NEW G \in SUBSET InTable,
         NEW s \in InTable, s \notin G, NEW n \in FdNums, fds[n] \in Opened(s),
         Close(WantcullCloses(C) \cup FdDirs(G), G)[n] # fds[n]
  PROVE  \/ fds[n] # <<"dir", s>> /\ subsv[Main(s)].pid = None
         \/ \E t \in InTable \ {s} : n \in Stale(t)
<1>1. \A t \in Services \ {s} : fds[n] \notin Opened(t) /\ fds[n] \notin PipeEnds(t)
  BY DEF Opened, PipeEnds, InTable
<1>2. n \in WantcullCloses(C) \cup FdDirs(G)
  BY <1>1, CloseEffect DEF InTable
<1>3. ASSUME NEW t \in InTable, t # s, n \in Numbers(t) PROVE n \in Stale(t)
  BY <1>1, <1>3 DEF Stale, ObjectAt, InTable
<1>4. CASE n \in FdDirs(G)
  BY <1>3, <1>4 DEF FdDirs, Numbers
<1>5. CASE n \in WantcullCloses(C)
  <2>1. PICK t \in C : Log(t) \in Signalled(t) /\ n \in {svdefs[t].lp0, svdefs[t].lp1}
    BY <1>5 DEF WantcullCloses
  <2>2. t \in Services /\ Log(t) # Main(t)
    BY SlotCases DEF InTable
  <2>3. svdefs[t].haslog /\ subsv[Main(t)].pid = None
    BY <2>1, <2>2 DEF Signalled
  <2>4. CASE t = s
    BY <2>1, <2>2, <2>3, <2>4 DEF DirInv, InTable
  <2>5. CASE t # s
    BY <1>3, <2>1, <2>3, <2>5 DEF Numbers
  <2> QED BY <2>4, <2>5
<1> QED BY <1>2, <1>4, <1>5

\* A cull gives a service no other numbers.
LEMMA CullNumbers ==
  ASSUME TypeOK, NEW svd \in [Services -> Svdef], NEW s \in Services, NEW G,
         \/ svd = svdefs
         \/ svd = WantcullSvdefs(InTable)
         \/ \E Gone, New : svd = ScanEndSvdefs(Gone, New),
         svdefs' = Removed(svd, G)
  PROVE  s \notin G => /\ svdefs'[s].in = svdefs[s].in
                       /\ svdefs'[s].haslog = svdefs[s].haslog
                       /\ svdefs'[s].fd_dir = svdefs[s].fd_dir
                       /\ svdefs'[s].lp0 = svdefs[s].lp0
                       /\ svdefs'[s].lp1 = svdefs[s].lp1
<1> DEFINE Same(v) == /\ v.in = svdefs[s].in /\ v.haslog = svdefs[s].haslog
                      /\ v.fd_dir = svdefs[s].fd_dir
                      /\ v.lp0 = svdefs[s].lp0 /\ v.lp1 = svdefs[s].lp1
<1>1. svdefs[s] \in Svdef /\ (s \notin G => svdefs'[s] = svd[s])
  BY DEF TypeOK, Removed
<1>2. ASSUME NEW w \in {svdefs[s], [svdefs[s] EXCEPT !.cull = TRUE]}
      PROVE  w \in Svdef /\ Same(w) /\ \A y : Same([w EXCEPT !.cycle = y])
  BY <1>1 DEF Svdef
<1>3. Same(WantcullSvdefs(InTable)[s])
  BY <1>2 DEF WantcullSvdefs
<1>4. ASSUME NEW Gone, NEW New PROVE Same(ScanEndSvdefs(Gone, New)[s])
  <2> DEFINE w == WantcullSvdefs(New)[s]
  <2>1. w \in {svdefs[s], [svdefs[s] EXCEPT !.cull = TRUE]}
    BY DEF WantcullSvdefs
  <2> DEFINE c == IF s \in New THEN w.cycle ELSE FALSE
  <2>2. s \in Gone => ScanEndSvdefs(Gone, New)[s] = [w EXCEPT !.cycle = c]
    BY DEF ScanEndSvdefs
  <2>3. s \notin Gone => ScanEndSvdefs(Gone, New)[s] = svdefs[s]
    BY DEF ScanEndSvdefs
  <2> HIDE DEF w, Same, c
  <2>4. Same(w) /\ Same([w EXCEPT !.cycle = c])
    BY <1>2, <2>1
  <2>5. Same(svdefs[s])
    BY <1>2
  <2> QED BY <2>2, <2>3, <2>4, <2>5, Zenon
<1>5. Same(svd[s])
  <2> HIDE DEF Same
  <2> QED BY <1>2, <1>3, <1>4
<1> QED BY <1>1, <1>5

\* perpd_cull() closes the directories of what it removes.
LEMMA DirCull ==
  ASSUME TypeOK, DirInv, NEW svd \in [Services -> Svdef],
         \/ svd = svdefs
         \/ svd = WantcullSvdefs(InTable)
         \/ \E Gone, New : svd = ScanEndSvdefs(Gone, New),
         NEW G, svdefs' = Removed(svd, G), NEW N,
         \A n \in FdNums : fds'[n] \in {Close(N \cup FdDirs(G), G)[n], Free}
  PROVE  DirInv'
<1> SUFFICES ASSUME NEW s \in Services
             PROVE  /\ \A n \in FdNums : fds'[n] = <<"dir", s>> =>
                                            svdefs'[s].in /\ n = svdefs'[s].fd_dir
                    /\ svdefs'[s].in /\ svdefs'[s].haslog =>
                         svdefs'[s].lp0 # svdefs'[s].fd_dir /\ svdefs'[s].lp1 # svdefs'[s].fd_dir
  BY DEF DirInv
<1>1. ASSUME NEW n \in FdNums, fds'[n] = <<"dir", s>>
      PROVE  fds[n] = <<"dir", s>> /\ n \notin FdDirs(G)
  <2>1. Close(N \cup FdDirs(G), G)[n] = <<"dir", s>>
    BY <1>1 DEF Free
  <2>2. fds[n] = <<"dir", s>>
    BY <2>1, CloseEffect DEF Free, Leak
  <2>3. n \in FdDirs(G) => Close(N \cup FdDirs(G), G)[n] = Free
    BY DEF Close
  <2> QED BY <2>1, <2>2, <2>3 DEF Free
<1>2. CASE s \in G
  <2>1. svdefs'[s] = NoSvdef
    BY <1>2 DEF Removed
  <2>2. ASSUME NEW n \in FdNums, fds'[n] = <<"dir", s>> PROVE FALSE
    <3>1. n = svdefs[s].fd_dir /\ n \notin FdDirs(G)
      BY <1>1, <2>2 DEF DirInv
    <3> QED BY <1>2, <3>1 DEF FdDirs
  <2> QED BY <2>1, <2>2 DEF NoSvdef
<1>3. CASE s \notin G
  BY <1>1, <1>3, CullNumbers DEF DirInv
<1> QED BY <1>2, <1>3

LEMMA DirInvStep == TypeOK /\ TrackInv /\ DirInv /\ [Next]_vars => DirInv'
<1> SUFFICES ASSUME TypeOK, TrackInv, DirInv, [Next]_vars PROVE DirInv'
  OBVIOUS
<1>1. ASSUME \A s \in Services : /\ svdefs'[s].in = svdefs[s].in
                                 /\ svdefs'[s].haslog = svdefs[s].haslog
                                 /\ svdefs'[s].fd_dir = svdefs[s].fd_dir
                                 /\ svdefs'[s].lp0 = svdefs[s].lp0
                                 /\ svdefs'[s].lp1 = svdefs[s].lp1,
             \A n \in FdNums : fds'[n] \in {fds[n], Free, Leak, ScanDir}
      PROVE  DirInv'
  BY <1>1 DEF DirInv, Free, Leak, ScanDir
<1>2. ASSUME NEW s \in Services, NEW a \in BOOLEAN, NEW c \in BOOLEAN
      PROVE  LET v == [svdefs[s] EXCEPT !.active = a, !.cycle = c]
             IN /\ v.in = svdefs[s].in /\ v.haslog = svdefs[s].haslog
                /\ v.fd_dir = svdefs[s].fd_dir
                /\ v.lp0 = svdefs[s].lp0 /\ v.lp1 = svdefs[s].lp1
  <2>1. svdefs[s] \in Svdef
    BY DEF TypeOK
  <2> QED BY <2>1 DEF Svdef
<1>3. CASE Terminate
  <2>1. WantcullSvdefs(InTable) \in [Services -> Svdef]
    BY WantcullType DEF TypeOK
  <2>2. PICK G : /\ svdefs' = Removed(WantcullSvdefs(InTable), G)
                 /\ fds' = Close(WantcullCloses(InTable) \cup FdDirs(G), G)
    BY <1>3 DEF Terminate
  <2> QED BY <2>1, <2>2, DirCull
<1>4. CASE WaitupDone
  <2>1. PICK G : svdefs' = Removed(svdefs, G) /\ fds' = Close({} \cup FdDirs(G), G)
    BY <1>4 DEF WaitupDone
  <2>2. svdefs \in [Services -> Svdef]
    BY DEF TypeOK
  <2> QED BY <2>1, <2>2, DirCull
<1>5. CASE ScanEnd
  <2> DEFINE Gone == {x \in InTable : ~svdefs[x].active}
             New == {x \in Gone : ~svdefs[x].cull}
             N == WantcullCloses(New)
  <2>1. PICK G :
          /\ svdefs' = Removed(ScanEndSvdefs(Gone, New), G)
          /\ fds' = [i \in FdNums |-> IF fds[i] = ScanDir THEN Free
                                     ELSE Close(N \cup FdDirs(G), G)[i]]
    BY <1>5 DEF ScanEnd, ScanEndSvdefs
  <2> HIDE DEF Gone, New, N
  <2>2. ScanEndSvdefs(Gone, New) \in [Services -> Svdef]
    BY ScanEndKeeps
  <2>3. \A n \in FdNums : fds'[n] \in {Close(N \cup FdDirs(G), G)[n], Free}
    BY <2>1
  <2> QED BY <2>1, <2>2, <2>3, DirCull
<1>6. CASE ScanBegin
  <2>1. \A s \in Services : svdefs'[s] = [svdefs[s] EXCEPT !.active = FALSE]
    BY <1>6 DEF ScanBegin
  <2>2. \A n \in FdNums : fds'[n] \in {fds[n], ScanDir}
    BY <1>6 DEF ScanBegin, TypeOK
  <2>3. \A s \in Services : svdefs[s] \in Svdef
    BY DEF TypeOK
  <2>4. \A s \in Services : /\ svdefs'[s].in = svdefs[s].in
                            /\ svdefs'[s].haslog = svdefs[s].haslog
                            /\ svdefs'[s].fd_dir = svdefs[s].fd_dir
                            /\ svdefs'[s].lp0 = svdefs[s].lp0
                            /\ svdefs'[s].lp1 = svdefs[s].lp1
    BY <2>1, <2>3 DEF Svdef
  <2> QED BY <1>1, <2>2, <2>4
<1>7. CASE ScanReaddirFails
  BY <1>1, <1>7 DEF ScanReaddirFails, Closedir
<1>8. ASSUME NEW d \in Services, ScanKeep(d) PROVE DirInv'
  <2>1. PICK c : svdefs' = [svdefs EXCEPT ![d] = [svdefs[d] EXCEPT !.active = TRUE, !.cycle = c]]
    BY <1>8 DEF ScanKeep
  <2>2. UNCHANGED fds /\ \A s \in Services : svdefs[s] \in Svdef
    BY <1>8 DEF ScanKeep, TypeOK
  <2>3. \A s \in Services : /\ svdefs'[s].in = svdefs[s].in
                            /\ svdefs'[s].haslog = svdefs[s].haslog
                            /\ svdefs'[s].fd_dir = svdefs[s].fd_dir
                            /\ svdefs'[s].lp0 = svdefs[s].lp0
                            /\ svdefs'[s].lp1 = svdefs[s].lp1
    BY <2>1, <2>2 DEF Svdef, TypeOK
  <2> QED BY <1>1, <2>2, <2>3
<1>9. ASSUME NEW d \in Services, NEW fl \in Flavors[d], ScanActivate(d, fl) PROVE DirInv'
  <2>1. PICK i \in FreeFds, j \in FdNums \cup {0}, k \in FdNums \cup {0} :
          /\ IF fl.haslog THEN /\ Lowest(j, FreeFds \ {i})
                               /\ Lowest(k, FreeFds \ {i, j})
                          ELSE j = 0 /\ k = 0
          /\ fds' = [n \in FdNums |-> CASE n = i -> <<"dir", d>>
                                        [] n = j -> <<"rd", d>>
                                        [] n = k -> <<"wr", d>>
                                        [] OTHER -> fds[n]]
          /\ svdefs' = [svdefs EXCEPT ![d] =
                          [NoSvdef EXCEPT !.in = TRUE, !.active = TRUE,
                             !.haslog = fl.haslog, !.fd_dir = i, !.lp0 = j, !.lp1 = k]]
    BY <1>9 DEF ScanActivate
  <2>5. j # i /\ k # i
    BY <2>1 DEF Lowest, FreeFds, FdNums
  <2>2. ~svdefs[d].in
    BY <1>9 DEF ScanActivate
  <2>3. /\ \A n \in FdNums : fds'[n] = <<"dir", d>> => n = i
        /\ \A s \in Services \ {d}, n \in FdNums : fds'[n] = <<"dir", s>> => fds[n] = <<"dir", s>>
    BY <2>1, <2>2 DEF DirInv
  <2>4. /\ svdefs'[d].in /\ svdefs'[d].fd_dir = i /\ svdefs'[d].lp0 = j /\ svdefs'[d].lp1 = k
        /\ \A s \in Services \ {d} : svdefs'[s] = svdefs[s]
    BY <2>1 DEF NoSvdef, TypeOK
  <2> QED BY <2>5, <2>3, <2>4 DEF DirInv
<1>10. ASSUME NEW sl \in Slots, NEW p \in Pids, WaitpidStopLog(sl, p) PROVE DirInv'
  <2>1. UNCHANGED svdefs /\ \E N : fds' = Close(N, {})
    BY <1>10 DEF WaitpidStopLog
  <2> QED BY <1>1, <2>1, CloseEffect
<1>11. CASE UNCHANGED <<fds, svdefs>>
  BY <1>1, <1>11
<1> QED BY <1>3, <1>4, <1>5, <1>6, <1>7, <1>8, <1>9, <1>10, <1>11, FdCases, TableCases
        DEF WaitpidStopLog, ScanReaddirFails, ScanKeep

LEMMA DirCorrect == Spec => []DirInv
<1>1. Init => DirInv
  BY DEF Init, DirInv, Free, NoSvdef
<1> QED BY <1>1, DirInvStep, TypeCorrect, TrackCorrect, PTL DEF Spec

\* A service that stays in the table keeps its descriptors, whatever is closed
\* by number elsewhere, except for the pipe of a main that is down, and unless
\* some service holds a stale number (perpd_svdef.c:261, perpd.c:385, and
\* perpd_cull): the second close of a log pipe is the one way to lose them.
THEOREM DescriptorsStay == Spec => FdsOwned
<1> DEFINE A == \A s \in InTable, n \in FdNums :
                  svdefs'[s].in /\ fds[n] \in Opened(s) /\ fds'[n] # fds[n] =>
                    \/ fds[n] # <<"dir", s>> /\ subsv'[Main(s)].pid = None
                    \/ \E t \in InTable \ {s} : n \in Stale(t)
<1>1. TypeOK /\ TrackInv /\ DirInv /\ [Next]_vars => [A]_vars
  <2> SUFFICES ASSUME TypeOK, TrackInv, DirInv, Next, NEW s \in InTable, NEW n \in FdNums,
                      svdefs'[s].in, fds[n] \in Opened(s), fds'[n] # fds[n]
               PROVE  \/ fds[n] # <<"dir", s>> /\ subsv'[Main(s)].pid = None
                      \/ \E t \in InTable \ {s} : n \in Stale(t)
    OBVIOUS
  <2>1. s \in Services /\ Main(s) \in Slots /\ fds[n] \notin {Free, Leak, ScanDir}
    BY SlotCases DEF InTable, Opened, PipeEnds, Free, Leak, ScanDir
  <2>2. ASSUME NEW C \in SUBSET InTable, NEW called, NEW svd \in [Services -> Svdef],
               \A x \in Services : svd[x].in = svdefs[x].in,
               NEW G, G = Culled(called, svd), svdefs' = Removed(svd, G),
               fds'[n] = Close(WantcullCloses(C) \cup FdDirs(G), G)[n],
               subsv' = RemovedSubsv(WantcullSubsv(C), G)
        PROVE  \/ fds[n] # <<"dir", s>> /\ subsv'[Main(s)].pid = None
               \/ \E t \in InTable \ {s} : n \in Stale(t)
    <3>1. G \in SUBSET InTable
      BY <2>2 DEF Culled, CullOk, InTable
    <3>2. s \notin G
      BY <2>1, <2>2 DEF Removed, NoSvdef
    <3>3. subsv'[Main(s)].pid = subsv[Main(s)].pid
      BY <2>1, <2>2, <3>2, SlotCases, WantcullKeeps DEF RemovedSubsv, TypeOK
    <3> QED BY <2>2, <3>1, <3>2, <3>3, CullCloses
  <2>3. CASE Terminate
    <3>1. /\ WantcullSvdefs(InTable) \in [Services -> Svdef]
          /\ \A x \in Services : WantcullSvdefs(InTable)[x].in = svdefs[x].in
      BY WantcullType DEF TypeOK
    <3> QED BY <2>2, <2>3, <3>1 DEF Terminate
  <2>4. CASE ScanEnd
    <3> DEFINE Gone == {x \in InTable : ~svdefs[x].active}
               New == {x \in Gone : ~svdefs[x].cull}
    <3>1. PICK called, G :
            /\ G = Culled(called, ScanEndSvdefs(Gone, New))
            /\ svdefs' = Removed(ScanEndSvdefs(Gone, New), G)
            /\ subsv' = RemovedSubsv(WantcullSubsv(New), G)
            /\ fds' = [i \in FdNums |->
                          IF fds[i] = ScanDir THEN Free
                          ELSE Close(WantcullCloses(New) \cup FdDirs(G), G)[i]]
      BY <2>4 DEF ScanEnd, ScanEndSvdefs
    <3>2. New \in SUBSET InTable
      OBVIOUS
    <3> HIDE DEF Gone, New
    <3>3. /\ ScanEndSvdefs(Gone, New) \in [Services -> Svdef]
          /\ \A x \in Services : ScanEndSvdefs(Gone, New)[x].in = svdefs[x].in
      BY ScanEndKeeps
    <3>4. fds'[n] = Close(WantcullCloses(New) \cup FdDirs(G), G)[n]
      BY <2>1, <3>1
    <3> QED BY <2>2, <3>1, <3>2, <3>3, <3>4
  <2>5. CASE WaitupDone
    <3> DEFINE G == Culled(wait.got_cull, svdefs)
    <3>1. svdefs' = Removed(svdefs, G) /\ fds' = Close(FdDirs(G), G)
      BY <2>5 DEF WaitupDone
    <3>2. G \in SUBSET InTable /\ WantcullCloses({}) = {}
      BY DEF Culled, CullOk, InTable, WantcullCloses
    <3> HIDE DEF G
    <3>3. s \notin G
      BY <2>1, <3>1 DEF Removed, NoSvdef
    <3>4. Close(WantcullCloses({}) \cup FdDirs(G), G)[n] # fds[n]
      BY <3>1, <3>2
    <3>5. n \in FdDirs(G)
      <4>1. \A t \in G : fds[n] \notin PipeEnds(t)
        BY <3>3 DEF Opened, PipeEnds
      <4> QED BY <3>1, <4>1, CloseEffect
    <3>6. PICK t \in G : n = svdefs[t].fd_dir
      BY <3>5 DEF FdDirs
    <3>7. t \in InTable \ {s} /\ fds[n] \notin Opened(t)
      BY <3>2, <3>3, <3>6 DEF Opened, PipeEnds
    <3> QED BY <3>6, <3>7 DEF Stale, Numbers, ObjectAt
  <2>6. ASSUME NEW sl \in Slots, NEW p \in Pids, WaitpidStopLog(sl, p)
        PROVE  \/ fds[n] # <<"dir", s>> /\ subsv'[Main(s)].pid = None
               \/ \E t \in InTable \ {s} : n \in Stale(t)
    <3> DEFINE t == sl[1]
    <3>1. /\ t \in InTable /\ svdefs[t].haslog /\ sl = Main(t)
          /\ \E N \in SUBSET {svdefs[t].lp1, svdefs[t].lp0} : fds' = Close(N, {})
      BY <2>6, SlotCases DEF WaitpidStopLog, StaysDown, LogToStop, Child, InTable, Log
    <3>2. n \in {svdefs[t].lp1, svdefs[t].lp0}
      BY <3>1, CloseEffect
    <3>3. CASE t = s
      <4>1. fds[n] # <<"dir", s>>
        BY <2>1, <3>1, <3>2, <3>3 DEF DirInv, InTable
      <4>2. subsv'[Main(s)].pid = None
        BY <2>6, <3>1, <3>3, ReapEffect
      <4> QED BY <4>1, <4>2
    <3>4. CASE t # s
      BY <3>1, <3>2, <3>4 DEF Stale, Numbers, ObjectAt, Opened, PipeEnds
    <3> QED BY <3>3, <3>4
  <2>7. CASE ScanBegin
    BY <2>1, <2>7 DEF ScanBegin, FreeFds, TypeOK
  <2>8. CASE ScanReaddirFails
    BY <2>1, <2>8 DEF ScanReaddirFails, Closedir
  <2>9. ASSUME NEW d \in Services, NEW fl \in Flavors[d], ScanActivate(d, fl) PROVE FALSE
    <3>1. PICK i \in FreeFds, j \in FreeFds \cup {0}, k \in FreeFds \cup {0} :
            fds' = [m \in FdNums |-> CASE m = i -> <<"dir", d>>
                                        [] m = j -> <<"rd", d>>
                                        [] m = k -> <<"wr", d>>
                                        [] OTHER -> fds[m]]
      BY <2>9 DEF ScanActivate, Lowest
    <3>2. n \notin FreeFds /\ 0 \notin FdNums
      BY <2>1 DEF FreeFds, FdNums
    <3> QED BY <3>1, <3>2
  <2> QED BY <2>3, <2>4, <2>5, <2>6, <2>7, <2>8, <2>9, FdCases
<1> QED BY <1>1, TypeCorrect, TrackCorrect, DirCorrect, PTL DEF Spec, FdsOwned

-----------------------------------------------------------------------------
(* A fork() that failed is retried. *)

\* What the environment may no longer do it will not do.
LEMMA BudgetSpent ==
  ASSUME TypeOK, [Next]_vars, NEW e \in Events, budget[e] = 0
  PROVE  budget'[e] = 0
<1>1. ASSUME NEW f \in Events, Spend(f) PROVE budget'[e] = 0
  BY <1>1 DEF Spend, TypeOK
<1>2. CASE UNCHANGED budget
  BY <1>2
<1>3. CASE PollStep \/ WaitupStep
  BY <1>2, <1>3 DEF PollStep, SigTrap, PollReturn, Drain, Terminate, ChldCheck, WaitupStep,
                    WaitpidStray, WaitpidRerun, WaitpidStopLog, WaitpidDown, WaitupDone
<1>4. CASE ScanStep
  <2>1. ScanStep => UNCHANGED budget \/ Spend("opendir") \/ Spend("readdir") \/ Spend("open")
    BY DEF ScanStep, ScanOpendirFails, ScanBegin, ScanReaddirFails, ScanIgnore, ScanKeep,
           ScanFail, ScanActivate, ScanEnd
  <2> QED BY <1>1, <1>2, <1>4, <2>1 DEF Events
<1>5. CASE FailStep \/ ClientStep
  BY <1>2, <1>5 DEF FailStep, FailDie, FailRetry, FailDone, ClientStep, LoopEnd,
                    ControlRefused, Control
<1>6. CASE RunStep
  BY <1>1, <1>2, <1>6 DEF RunStep, SvdefRunRefused, SvdefRun, SvdefRunForkFails, Events
<1>7. CASE AdminStep
  BY <1>1, <1>7 DEF AdminStep, Chmod, Signal, Send, Events
<1>8. CASE ChildStep \/ Finished \/ UNCHANGED vars
  BY <1>2, <1>8 DEF ChildStep, ChildExit, Finished, vars
<1> QED BY <1>3, <1>4, <1>5, <1>6, <1>7, <1>8 DEF Next, MainLoop

\* flag_terminating stays up; flag_failing goes down only for a retry, and is
\* up after a fork() that failed.
LEMMA FlagsStay ==
  ASSUME TypeOK, [Next]_vars
  PROVE  /\ flags.terminating => flags'.terminating
         /\ flags.failing => flags'.failing \/ FailRetry
         /\ \A x \in Slots, t \in Targets :
              SvdefRunForkFails(x, t) /\ ~flags'.terminating => flags'.failing
<1>0. flags \in Flags
  BY DEF TypeOK
<1>1. CASE UNCHANGED flags
  BY <1>0, <1>1 DEF SvdefRunForkFails, TriggerFail, Flags
<1>2. CASE PollStep
  BY <1>0, <1>1, <1>2 DEF PollStep, SigTrap, PollReturn, Drain, Terminate, ChldCheck, Flags,
                          SvdefRunForkFails, TriggerFail
<1>3. CASE WaitupStep
  BY <1>0, <1>1, <1>3 DEF WaitupStep, WaitpidStray, WaitpidRerun, WaitpidStopLog, WaitpidDown,
                    WaitupDone, TriggerScan, Flags, SvdefRunForkFails, TriggerFail
<1>4. CASE ScanStep
  <2>1. CASE ScanOpendirFails \/ ScanBegin \/ ScanReaddirFails \/ ScanEnd
    BY <1>0, <2>1 DEF ScanOpendirFails, ScanBegin, ScanReaddirFails, ScanEnd, TriggerScan,
                      Flags, SvdefRunForkFails, TriggerFail
  <2> QED BY <1>1, <1>4, <2>1 DEF ScanStep, ScanIgnore, ScanKeep, ScanFail, ScanActivate
<1>5. CASE FailStep
  BY <1>0, <1>1, <1>5 DEF FailStep, FailDie, FailRetry, FailDone, Flags, SvdefRunForkFails,
                          TriggerFail
<1>6. CASE ClientStep
  BY <1>1, <1>6 DEF ClientStep, LoopEnd, ControlRefused, Control
<1>7. CASE RunStep
  BY <1>0, <1>1, <1>7 DEF RunStep, SvdefRunRefused, SvdefRun, SvdefRunForkFails, TriggerFail,
                          Flags
<1>8. CASE ChildStep \/ AdminStep \/ Finished \/ UNCHANGED vars
  BY <1>1, <1>8 DEF ChildStep, ChildExit, AdminStep, Chmod, Signal, Send, Finished, vars
<1> QED BY <1>2, <1>3, <1>4, <1>5, <1>6, <1>7, <1>8 DEF Next, MainLoop

\* readdir() does not fail.
ReaddirWorks == \A b \in Budgets : b["readdir"] = 0

\* A service of the table that is not being deactivated.
Kept(s) == svdefs[s].in /\ ~svdefs[s].cull

\* Outside a scan what is kept is flagged active, so that
\* perpd_svdef_checkfail() does not pass over it, and the failed fork() of a
\* kept service is noted or its retry is under way.
RetryInv ==
  /\ budget["readdir"] = 0
  /\ pc # "scanning" => \A s \in Services : Kept(s) => svdefs[s].active
  /\ ~flags.terminating =>
       \A sl \in Slots : Kept(sl[1]) /\ subsv[sl].failing =>
         flags.failing \/ \E t \in Targets : <<sl, t>> \in runs

\* A cull keeps nothing that was not kept, and leaves active what it keeps.
LEMMA CullTable ==
  ASSUME TypeOK, NEW svd, NEW G, svdefs' = Removed(svd, G),
         NEW s \in Services, Kept(s)',
         \/ svd = svdefs
         \/ svd = WantcullSvdefs(InTable)
         \/ \E Gone, New : svd = ScanEndSvdefs(Gone, New)
  PROVE  /\ Kept(s) /\ svdefs'[s].active = svdefs[s].active
         /\ svd # WantcullSvdefs(InTable)
         /\ \A Gone, New : svd = ScanEndSvdefs(Gone, New) /\ New = {x \in Gone : ~svdefs[x].cull}
                             => s \notin Gone
<1>1. svdefs[s] \in Svdef /\ svdefs'[s] = svd[s]
  BY DEF Kept, Removed, NoSvdef, TypeOK
<1>2. ASSUME svd = WantcullSvdefs(InTable) PROVE FALSE
  <2>1. s \notin InTable
    BY <1>1, <1>2 DEF WantcullSvdefs, Kept, Svdef
  <2> QED BY <1>1, <1>2, <2>1 DEF WantcullSvdefs, Kept, InTable
<1>3. ASSUME NEW Gone, NEW New, svd = ScanEndSvdefs(Gone, New)
      PROVE  /\ Kept(s) /\ svdefs'[s].active = svdefs[s].active
             /\ New = {x \in Gone : ~svdefs[x].cull} => s \notin Gone
  <2>1. CASE s \notin Gone
    <3>1. svdefs'[s] = svdefs[s]
      BY <1>1, <1>3, <2>1 DEF ScanEndSvdefs
    <3> QED BY <2>1, <3>1 DEF Kept
  <2>2. CASE s \in Gone
    <3>1. \E b : svdefs'[s] = [WantcullSvdefs(New)[s] EXCEPT !.cycle = b]
      BY <1>1, <1>3, <2>2 DEF ScanEndSvdefs
    <3>2. WantcullSvdefs(New)[s] = IF s \in New THEN [svdefs[s] EXCEPT !.cull = TRUE] ELSE svdefs[s]
      BY DEF WantcullSvdefs
    <3>3. s \notin New
      BY <1>1, <3>1, <3>2 DEF Kept, Svdef
    <3>4. \E b : svdefs'[s] = [svdefs[s] EXCEPT !.cycle = b]
      BY <3>1, <3>2, <3>3
    <3>5. /\ svdefs'[s].in = svdefs[s].in /\ svdefs'[s].cull = svdefs[s].cull
          /\ svdefs'[s].active = svdefs[s].active
      BY <1>1, <3>4 DEF Svdef
    <3> QED BY <2>2, <3>3, <3>5 DEF Kept
  <2> QED BY <2>1, <2>2
<1>4. CASE svd = svdefs
  BY <1>1, <1>2, <1>3, <1>4 DEF Kept
<1> QED BY <1>2, <1>3, <1>4

\* What is kept was kept before or is new, and is active outside a scan.
LEMMA KeptStep ==
  ASSUME TypeOK, [Next]_vars, RetryInv, NEW s \in Services, Kept(s)'
  PROVE  /\ Kept(s) \/ \E fl \in Flavors[s] : ScanActivate(s, fl)
         /\ pc' # "scanning" => svdefs'[s].active
<1>0. ~ScanReaddirFails
  BY DEF ScanReaddirFails, Spend, RetryInv
<1>1. CASE UNCHANGED svdefs
  <2>1. Kept(s)
    BY <1>1 DEF Kept
  <2>2. pc' # "scanning" => pc # "scanning" \/ ScanEnd
    BY <1>0, TableCases
  <2>3. ASSUME ScanEnd PROVE svdefs'[s].active
    <3> DEFINE Gone == {x \in InTable : ~svdefs[x].active}
               New == {x \in Gone : ~svdefs[x].cull}
    <3>1. \E G : svdefs' = Removed(ScanEndSvdefs(Gone, New), G)
      BY <2>3 DEF ScanEnd, ScanEndSvdefs
    <3>2. s \notin Gone
      <4> HIDE DEF Gone
      <4> QED BY <3>1, CullTable
    <3> QED BY <1>1, <2>1, <3>2 DEF InTable, Kept
  <2> QED BY <1>1, <2>1, <2>2, <2>3 DEF RetryInv
<1>2. CASE Terminate
  <2>1. \E G : svdefs' = Removed(WantcullSvdefs(InTable), G)
    BY <1>2 DEF Terminate
  <2> QED BY <2>1, CullTable
<1>3. CASE WaitupDone
  <2>1. \E G : svdefs' = Removed(svdefs, G)
    BY <1>3 DEF WaitupDone
  <2>2. Kept(s) /\ svdefs'[s].active = svdefs[s].active
    BY <2>1, CullTable
  <2> QED BY <1>3, <2>2 DEF RetryInv, WaitupDone
<1>4. CASE ScanBegin
  <2>1. svdefs[s] \in Svdef /\ svdefs'[s] = [svdefs[s] EXCEPT !.active = FALSE]
    BY <1>4 DEF ScanBegin, TypeOK
  <2>2. svdefs'[s].in = svdefs[s].in /\ svdefs'[s].cull = svdefs[s].cull
    BY <2>1 DEF Svdef
  <2> QED BY <1>4, <2>2 DEF ScanBegin, Kept
<1>5. CASE ScanEnd
  <2> DEFINE Gone == {x \in InTable : ~svdefs[x].active}
             New == {x \in Gone : ~svdefs[x].cull}
  <2>1. \E G : svdefs' = Removed(ScanEndSvdefs(Gone, New), G)
    BY <1>5 DEF ScanEnd, ScanEndSvdefs
  <2>2. Kept(s) /\ svdefs'[s].active = svdefs[s].active /\ s \notin Gone
    <3> HIDE DEF Gone
    <3> QED BY <2>1, CullTable
  <2> QED BY <2>2 DEF InTable, Kept
<1>6. ASSUME NEW d \in Services, ScanKeep(d)
      PROVE  /\ Kept(s)
             /\ pc' # "scanning" => svdefs'[s].active
  <2>1. svdefs[d] \in Svdef
    BY DEF TypeOK
  <2>2. PICK c : svdefs' = [svdefs EXCEPT ![d] = [@ EXCEPT !.active = TRUE, !.cycle = c]]
    BY <1>6 DEF ScanKeep
  <2>3. /\ [svdefs[d] EXCEPT !.active = TRUE, !.cycle = c].in = svdefs[d].in
        /\ [svdefs[d] EXCEPT !.active = TRUE, !.cycle = c].cull = svdefs[d].cull
    BY <2>1 DEF Svdef
  <2>4. svdefs'[s].in = svdefs[s].in /\ svdefs'[s].cull = svdefs[s].cull
    BY <2>2, <2>3 DEF TypeOK
  <2> QED BY <1>6, <2>4 DEF ScanKeep, Entry, Kept
<1>7. ASSUME NEW d \in Services, NEW fl \in Flavors[d], ScanActivate(d, fl)
      PROVE  /\ Kept(s) \/ \E f \in Flavors[s] : ScanActivate(s, f)
             /\ pc' # "scanning" => svdefs'[s].active
  <2>1. pc' = "scanning"
    BY <1>7 DEF ScanActivate, Entry
  <2>2. \A x \in Services \ {d} : svdefs'[x] = svdefs[x]
    BY <1>7, ActivateEffect
  <2> QED BY <1>7, <2>1, <2>2 DEF Kept
<1> QED BY <1>1, <1>2, <1>3, <1>4, <1>5, <1>6, <1>7, TableCases

LEMMA RetryStep ==
  ASSUME TypeOK, TrackInv, RunInv, RetryInv, [Next]_vars
  PROVE  RetryInv'
<1>1. budget'["readdir"] = 0
  BY BudgetSpent DEF RetryInv, Events
<1>2. (pc # "scanning" => \A s \in Services : Kept(s) => svdefs[s].active)'
  BY KeptStep
<1>3. ASSUME ~flags'.terminating, NEW sl \in Slots, Kept(sl[1])', subsv'[sl].failing
      PROVE  flags'.failing \/ \E t \in Targets : <<sl, t>> \in runs'
  <2>1. sl[1] \in Services /\ ~flags.terminating
    BY <1>3, FlagsStay, SlotCases
  <2>2. flags.failing => flags'.failing \/ FailRetry
    BY FlagsStay
  <2>3. CASE Kept(sl[1]) /\ subsv[sl].failing
    <3>1. flags.failing \/ \E t \in Targets : <<sl, t>> \in runs
      BY <2>1, <2>3 DEF RetryInv
    <3>2. CASE FailRetry
      <4>1. svdefs[sl[1]].in /\ svdefs[sl[1]].active
        BY <2>1, <2>3, <3>2 DEF RetryInv, FailRetry, Kept
      <4>2. sl[2] = "main" \/ svdefs[sl[1]].haslog
        BY <2>3 DEF RunInv, SlotRuns, HasSlot
      <4>3. <<sl, RetryTarget(subsv[sl])>> \in runs'
        BY <2>3, <3>2, <4>1, <4>2 DEF FailRetry, Checkfail
      <4> QED BY <4>3 DEF RetryTarget, Targets
    <3>3. CASE flags.failing
      BY <2>2, <3>2, <3>3
    <3>4. ASSUME NEW t \in Targets, <<sl, t>> \in runs
          PROVE  flags'.failing \/ \E u \in Targets : <<sl, u>> \in runs'
      <4>1. QuietStep \/ RunStep \/ FailRetry
        <5>1. ASSUME NEW x \in Slots, NEW p \in Pids,
                     WaitpidRerun(x, p) \/ WaitpidStopLog(x, p) \/ WaitpidDown(x, p)
              PROVE  runs = {}
          BY <5>1, ReapEffect
        <5>2. ASSUME NEW d \in Services, NEW fl \in Flavors[d], ScanActivate(d, fl)
              PROVE  runs = {}
          BY <5>2, ActivateEffect
        <5>3. ASSUME NEW r \in Requests, Control(r) PROVE runs = {}
          BY <5>3, ControlEffect
        <5> QED BY <3>4, <5>1, <5>2, <5>3, NextCases DEF CullStep
      <4>2. CASE QuietStep
        BY <3>4, <4>2 DEF QuietStep
      <4>3. CASE RunStep
        <5>1. PICK x \in Slots, u \in Targets :
                \/ SvdefRunRefused(x, u)
                \/ \E p \in Pids : SvdefRun(x, u, p)
                \/ SvdefRunForkFails(x, u)
          BY <4>3 DEF RunStep
        <5>2. CASE SvdefRunForkFails(x, u)
          BY <1>3, <5>2, FlagsStay
        <5>3. CASE <<sl, t>> # <<x, u>>
          BY <3>4, <5>1, <5>3, RunEffect
        <5>4. CASE sl = x /\ ~SvdefRunForkFails(x, u)
          <6>1. subsv'[x].failing => subsv[x].failing /\ (subsv[x].pid # None \/ ~HasSlot(x))
            BY <5>1, <5>4, RunEffect
          <6> QED BY <1>3, <5>4, <6>1 DEF RunInv, SlotRuns
        <5> QED BY <5>2, <5>3, <5>4
      <4> QED BY <3>2, <4>1, <4>2, <4>3
    <3> QED BY <3>1, <3>3, <3>4
  <2>4. CASE ~Kept(sl[1])
    <3>1. PICK fl \in Flavors[sl[1]] : ScanActivate(sl[1], fl)
      BY <1>3, <2>1, <2>4, KeptStep
    <3>2. ~subsv'[sl].failing
      BY <2>1, <3>1, ActivateEffect, SlotCases DEF NewSubsv
    <3> QED BY <1>3, <3>2
  <2>5. CASE Kept(sl[1]) /\ ~subsv[sl].failing
    <3>1. CASE RunStep
      <4>1. PICK x \in Slots, u \in Targets :
              \/ SvdefRunRefused(x, u)
              \/ \E p \in Pids : SvdefRun(x, u, p)
              \/ SvdefRunForkFails(x, u)
        BY <3>1 DEF RunStep
      <4>2. SvdefRunForkFails(x, u)
        BY <1>3, <2>5, <4>1, RunEffect
      <4> QED BY <1>3, <4>2, FlagsStay
    <3>2. CASE QuietStep \/ FailRetry
      BY <1>3, <2>5, <3>2 DEF QuietStep, FailRetry
    <3>3. ASSUME NEW G, CullStep(G) PROVE FALSE
      BY <1>3, <2>5, <3>3 DEF CullStep, NewSubsv
    <3>4. ASSUME NEW x \in Slots, NEW p \in Pids,
                 WaitpidRerun(x, p) \/ WaitpidStopLog(x, p) \/ WaitpidDown(x, p)
          PROVE  FALSE
      <4>1. subsv'[sl].failing = subsv[sl].failing
        BY <3>4, ReapEffect DEF SameSlot, SameRun
      <4> QED BY <1>3, <2>5, <4>1
    <3>5. ASSUME NEW d \in Services, NEW fl \in Flavors[d], ScanActivate(d, fl) PROVE FALSE
      <4>1. sl[1] # d
        BY <2>5, <3>5, ActivateEffect DEF Kept
      <4>2. subsv'[sl] = subsv[sl]
        BY <3>5, <4>1, ActivateEffect
      <4> QED BY <1>3, <2>5, <4>2
    <3>6. ASSUME NEW r \in Requests, Control(r) PROVE FALSE
      BY <1>3, <2>5, <3>6, ControlEffect DEF SameRun
    <3> QED BY <3>1, <3>2, <3>3, <3>4, <3>5, <3>6, NextCases
  <2> QED BY <2>3, <2>4, <2>5
<1> QED BY <1>1, <1>2, <1>3 DEF RetryInv

\* A failed fork() is retried as long as readdir() works: perpd does not go
\* back to poll() leaving a service it keeps marked failing without
\* flag_failing.  readdir() is the one exception: the scan it cuts short leaves
\* services without their active flag, checkfail() passes over them while
\* flag_failing is cleared, and the rescan raises only the former again
\* (perpd.c:580-588, 837-857, perpd_svdef.c:192).
THEOREM FailuresRetried == ReaddirWorks => (Spec => []FailingIsRetried)
<1> SUFFICES ASSUME ReaddirWorks PROVE Spec => []FailingIsRetried
  OBVIOUS
<1>1. Init => RetryInv
  BY DEF Init, RetryInv, ReaddirWorks, Kept, NoSvdef, NewSubsv
<1>2. TypeOK /\ TrackInv /\ RunInv /\ RetryInv /\ [Next]_vars => RetryInv'
  BY RetryStep
<1>3. TrackInv /\ RetryInv => FailingIsRetried
  <2> SUFFICES ASSUME TrackInv, RetryInv, pc = "poll", ~flags.terminating,
                      NEW s \in InTable, NEW w \in Whiches,
                      subsv[<<s, w>>].failing, ~svdefs[s].cull
               PROVE  flags.failing
    BY DEF FailingIsRetried
  <2>1. <<s, w>> \in Slots /\ <<s, w>>[1] = s /\ Kept(s)
    BY DEF Slots, InTable, Kept
  <2>2. runs = {}
    BY DEF TrackInv
  <2> QED BY <2>1, <2>2 DEF RetryInv
<1> QED BY <1>1, <1>2, <1>3, TypeCorrect, TrackCorrect, RunCorrect, PTL DEF Spec
=============================================================================
