---------------------------- MODULE PerpdProofs ----------------------------
(***************************************************************************)
(* Proofs about Perpd for every number of services, processes and          *)
(* descriptors and every budget of failures.                               *)
(***************************************************************************)
EXTENDS Perpd, TLAPS

-----------------------------------------------------------------------------
(* What the operators the actions are built from return. *)

\* A cleared svdef, subsv and process are well formed.
LEMMA EmptyType ==
  NoSvdef \in Svdef /\ NewSubsv \in Subsv /\ NoProc \in Proc
BY WStatsAssumption, SizeAssumption
   DEF NoSvdef, Svdef, NewSubsv, Subsv, NoProc, Proc, Targets

\* kill() only marks running processes: it keeps st, owner and target.
LEMMA KillType ==
  ASSUME proc \in [Pids -> Proc], NEW K
  PROVE  /\ Kill(K) \in [Pids -> Proc]
         /\ \A p \in Pids : /\ Kill(K)[p].st = proc[p].st
                            /\ Kill(K)[p].owner = proc[p].owner
                            /\ Kill(K)[p].target = proc[p].target
<1>1. ASSUME NEW p \in Pids
      PROVE  /\ Kill(K)[p] \in Proc
             /\ Kill(K)[p].st = proc[p].st
             /\ Kill(K)[p].owner = proc[p].owner
             /\ Kill(K)[p].target = proc[p].target
  <2>1. proc[p] \in Proc
    OBVIOUS
  <2> QED BY <2>1 DEF Kill, Proc
<1>2. Kill(K) = [p \in Pids |-> Kill(K)[p]]
  BY DEF Kill
<1> QED BY <1>1, <1>2

\* close() keeps the descriptor table a descriptor table.
LEMMA CloseType ==
  ASSUME fds \in [FdNums -> Objects], NEW N, NEW G
  PROVE  Close(N, G) \in [FdNums -> Objects]
BY DEF Close, Objects, Free, Leak

\* perpd_svdef_wantcull() keeps the service table well formed, and neither
\* adds nor removes a service nor changes a pid.
LEMMA WantcullType ==
  ASSUME svdefs \in [Services -> Svdef], subsv \in [Slots -> Subsv], NEW C
  PROVE  /\ WantcullSvdefs(C) \in [Services -> Svdef]
         /\ WantcullSubsv(C) \in [Slots -> Subsv]
         /\ \A s \in Services : WantcullSvdefs(C)[s].in = svdefs[s].in
         /\ \A s \in Services : WantcullSvdefs(C)[s].haslog = svdefs[s].haslog
         /\ \A sl \in Slots : WantcullSubsv(C)[sl].pid = subsv[sl].pid
<1>1. ASSUME NEW s \in Services
      PROVE  /\ WantcullSvdefs(C)[s] \in Svdef
             /\ WantcullSvdefs(C)[s].in = svdefs[s].in
             /\ WantcullSvdefs(C)[s].haslog = svdefs[s].haslog
  <2>1. svdefs[s] \in Svdef
    OBVIOUS
  <2> QED BY <2>1 DEF WantcullSvdefs, Svdef
<1>2. ASSUME NEW sl \in Slots
      PROVE  /\ WantcullSubsv(C)[sl] \in Subsv
             /\ WantcullSubsv(C)[sl].pid = subsv[sl].pid
  <2>1. subsv[sl] \in Subsv
    OBVIOUS
  <2> QED BY <2>1 DEF WantcullSubsv, Subsv
<1>3. /\ WantcullSvdefs(C) = [s \in Services |-> WantcullSvdefs(C)[s]]
      /\ WantcullSubsv(C) = [sl \in Slots |-> WantcullSubsv(C)[sl]]
  BY DEF WantcullSvdefs, WantcullSubsv
<1> QED BY <1>1, <1>2, <1>3

\* So does perpd_cull().
LEMMA RemovedType ==
  ASSUME NEW svd \in [Services -> Svdef], NEW sub \in [Slots -> Subsv], NEW G
  PROVE  /\ Removed(svd, G) \in [Services -> Svdef]
         /\ RemovedSubsv(sub, G) \in [Slots -> Subsv]
BY EmptyType DEF Removed, RemovedSubsv

\* perpd_svdef_run() initialises a subsv to a subsv, without a process.
LEMMA RunInitType ==
  ASSUME subsv \in [Slots -> Subsv], NEW sl \in Slots, NEW target \in Targets
  PROVE  /\ RunInit(sl, target) \in Subsv
         /\ RunInit(sl, target).pid = None
         /\ RunInit(sl, target).wstat = Exit0
<1>1. subsv[sl] \in Subsv
  OBVIOUS
<1> QED BY <1>1, WStatsAssumption DEF RunInit, Subsv

\* ... whether fork() then fails,
LEMMA ForkFailedType ==
  ASSUME subsv \in [Slots -> Subsv], NEW sl \in Slots, NEW target \in Targets
  PROVE  ForkFailed(sl, target) \in Subsv /\ ForkFailed(sl, target).pid = None
<1>1. RunInit(sl, target) \in Subsv /\ RunInit(sl, target).pid = None
  BY RunInitType
<1> QED BY <1>1 DEF Subsv, ForkFailed

\* ... or returns a child: the child and the subsv of the parent.
LEMMA ForkType ==
  ASSUME subsv \in [Slots -> Subsv], NEW sl \in Slots, NEW target \in Targets,
         NEW p \in Pids
  PROVE  /\ [RunInit(sl, target) EXCEPT !.pid = p] \in Subsv
         /\ [NoProc EXCEPT !.st = "run", !.owner = sl, !.target = target,
                           !.arg = ResetArg(sl, target),
                           !.wired = Wiring(sl, target)] \in Proc
<1>1. RunInit(sl, target) \in Subsv /\ RunInit(sl, target).wstat = Exit0
  BY RunInitType
<1>2. [RunInit(sl, target) EXCEPT !.pid = p] \in Subsv
  BY <1>1 DEF Subsv
<1>3. Wiring(sl, target) \in {"ok", "dies", "wrong"}
  BY DEF Wiring
<1>4. ResetArg(sl, target) \in WStats
  BY <1>1, WStatsAssumption DEF ResetArg
<1> QED BY <1>2, <1>3, <1>4, EmptyType DEF Proc

\* perpd_waitup() records a dead child in a subsv.
LEMMA HarvestType ==
  ASSUME subsv \in [Slots -> Subsv], proc \in [Pids -> Proc],
         NEW sl \in Slots, NEW p \in Pids
  PROVE  Harvest(sl, p) \in Subsv /\ Harvest(sl, p).pid = None
<1>1. subsv[sl] \in Subsv /\ proc[p] \in Proc
  OBVIOUS
<1> QED BY <1>1 DEF Harvest, Subsv, Proc

\* A control command leaves a subsv a subsv and does not touch its pid.
LEMMA CtlSubsvType ==
  ASSUME NEW sb \in Subsv, NEW c
  PROVE  CtlSubsv(sb, c) \in Subsv /\ CtlSubsv(sb, c).pid = sb.pid
BY DEF CtlSubsv, Subsv

\* The phases a handler continues with are phases.
LEMMA PhaseType ==
  ASSUME NEW fl
  PROVE  AfterScan(fl) \in Phases /\ AfterWaitup(fl) \in Phases /\ LoopTop \in Phases
BY DEF AfterScan, AfterWaitup, LoopTop, Phases

\* Raising a flag for the main loop.
LEMMA TriggerType ==
  ASSUME flags \in Flags, ping \in BOOLEAN, NEW cond
  PROVE  /\ TriggerScan(cond) => flags' \in Flags /\ ping' \in BOOLEAN
         /\ TriggerFail => flags' \in Flags /\ ping' \in BOOLEAN
BY DEF TriggerScan, TriggerFail, Flags

\* An environment event uses up budget.
LEMMA SpendType ==
  ASSUME budget \in [Events -> Nat], NEW e \in Events, Spend(e)
  PROVE  budget' \in [Events -> Nat]
BY DEF Spend

-----------------------------------------------------------------------------
(* Type correctness. *)

LEMMA TypeInit == Init => TypeOK
<1> SUFFICES ASSUME Init PROVE TypeOK
  OBVIOUS
<1>1. proc \in [Pids -> Proc]
  <2>1. [NoProc EXCEPT !.st = "run"] \in Proc
    BY EmptyType DEF Proc
  <2> QED BY <2>1, EmptyType DEF Init
<1>2. fds \in [FdNums -> Objects] /\ flags \in Flags /\ pc \in Phases
  BY DEF Init, Objects, Free, Flags, Phases
<1>3. /\ poll \in [ping : BOOLEAN, ready : SUBSET Requests, due : BOOLEAN]
      /\ scan \in [left : SUBSET Services, got_fail : BOOLEAN]
      /\ wait \in [got_cull : BOOLEAN, got_cycle : BOOLEAN,
                   started : SUBSET Slots, held : SUBSET Slots]
  BY DEF Init, NoPoll, NoScan, NoWait
<1> QED BY <1>1, <1>2, <1>3, EmptyType, BootAssumption, BudgetsAssumption
        DEF Init, TypeOK

\* One step per group of actions of the main loop and of the environment.
LEMMA PollTypes == TypeOK /\ PollStep => TypeOK'
<1> SUFFICES ASSUME TypeOK, PollStep PROVE TypeOK'
  OBVIOUS
<1> USE DEF TypeOK
<1>1. ASSUME NEW sig \in Sigs, SigTrap(sig) PROVE TypeOK'
  <2>1. flags' \in Flags
    BY <1>1 DEF SigTrap, Flags
  <2> QED BY <2>1, <1>1 DEF SigTrap
<1>2. CASE PollReturn
  <2>1. PICK due \in BOOLEAN :
          poll' = [ping |-> ping, ready |-> IF flags.terminating THEN {} ELSE reqs,
                   due |-> due]
    BY <1>2 DEF PollReturn
  <2>2. poll' \in [ping : BOOLEAN, ready : SUBSET Requests, due : BOOLEAN]
    <3>1. (IF flags.terminating THEN {} ELSE reqs) \in SUBSET Requests
      OBVIOUS
    <3> QED BY <2>1, <3>1
  <2> QED BY <2>2, <1>2 DEF PollReturn, Phases
<1>3. CASE Drain
  BY <1>3 DEF Drain, Phases
<1>4. CASE Terminate
  <2> DEFINE svd == WantcullSvdefs(InTable)
             G == Culled(\E s \in InTable : AlreadyDown(s), svd)
  <2>1. svdefs' \in [Services -> Svdef] /\ subsv' \in [Slots -> Subsv]
    BY <1>4, WantcullType, RemovedType DEF Terminate
  <2>2. proc' \in [Pids -> Proc] /\ fds' \in [FdNums -> Objects]
    BY <1>4, KillType, CloseType DEF Terminate
  <2>3. flags' \in Flags
    BY <1>4 DEF Terminate, Flags
  <2>4. poll' \in [ping : BOOLEAN, ready : SUBSET Requests, due : BOOLEAN]
    BY <1>4 DEF Terminate
  <2> QED BY <2>1, <2>2, <2>3, <2>4, <1>4 DEF Terminate, Phases
<1>5. CASE ChldCheck
  <2>1. flags' \in Flags
    BY <1>5 DEF ChldCheck, Flags
  <2> QED BY <2>1, <1>5, PhaseType DEF ChldCheck, Phases
<1> QED BY <1>1, <1>2, <1>3, <1>4, <1>5 DEF PollStep

LEMMA RunTypes == TypeOK /\ RunStep => TypeOK'
<1> SUFFICES ASSUME TypeOK, NEW sl \in Slots, NEW target \in Targets,
                    \/ SvdefRunRefused(sl, target)
                    \/ \E p \in Pids : SvdefRun(sl, target, p)
                    \/ SvdefRunForkFails(sl, target)
             PROVE  TypeOK'
  BY DEF RunStep
<1> USE DEF TypeOK
<1>1. CASE SvdefRunRefused(sl, target)
  BY <1>1 DEF SvdefRunRefused, NextRun
<1>2. ASSUME NEW p \in Pids, SvdefRun(sl, target, p) PROVE TypeOK'
  <2>1. subsv' \in [Slots -> Subsv] /\ proc' \in [Pids -> Proc]
    BY <1>2, ForkType DEF SvdefRun
  <2>2. wait' \in [got_cull : BOOLEAN, got_cycle : BOOLEAN,
                   started : SUBSET Slots, held : SUBSET Slots]
    BY <1>2 DEF SvdefRun, Govern
  <2> QED BY <2>1, <2>2, <1>2 DEF SvdefRun, NextRun
<1>3. CASE SvdefRunForkFails(sl, target)
  <2>1. subsv' \in [Slots -> Subsv]
    BY <1>3, ForkFailedType DEF SvdefRunForkFails
  <2>2. budget' \in [Events -> Nat]
    BY <1>3, SpendType DEF SvdefRunForkFails, Events
  <2>3. flags' \in Flags /\ ping' \in BOOLEAN
    BY <1>3, TriggerType DEF SvdefRunForkFails
  <2> QED BY <2>1, <2>2, <2>3, <1>3 DEF SvdefRunForkFails, NextRun
<1> QED BY <1>1, <1>2, <1>3

LEMMA WaitupTypes == TypeOK /\ WaitupStep => TypeOK'
<1> SUFFICES ASSUME TypeOK, WaitupStep PROVE TypeOK'
  OBVIOUS
<1> USE DEF TypeOK
<1>1. ASSUME NEW p \in Pids, WaitpidStray(p) PROVE TypeOK'
  BY <1>1, EmptyType DEF WaitpidStray, Reaped
<1>2. ASSUME NEW sl \in Slots, NEW p \in Pids, WaitpidRerun(sl, p) PROVE TypeOK'
  BY <1>2, EmptyType, HarvestType DEF WaitpidRerun, Reaped, RerunTarget, Targets
<1>3. ASSUME NEW sl \in Slots, NEW p \in Pids, WaitpidStopLog(sl, p) PROVE TypeOK'
  <2>1. Log(sl[1]) \in Slots
    BY DEF Log, Slots, Whiches
  <2>2. subsv' \in [Slots -> Subsv]
    <3> DEFINE sub == [subsv EXCEPT ![sl] = Harvest(sl, p)]
    <3>1. sub \in [Slots -> Subsv]
      BY HarvestType
    <3>2. sub[Log(sl[1])] \in Subsv
      BY <3>1, <2>1
    <3>3. [sub[Log(sl[1])] EXCEPT !.ispaused = FALSE] \in Subsv
      BY <3>2 DEF Subsv
    <3>4. subsv' = [sub EXCEPT ![Log(sl[1])] = [@ EXCEPT !.ispaused = FALSE]]
      BY <1>3 DEF WaitpidStopLog
    <3> QED BY <3>1, <3>3, <3>4, <2>1
  <2>3. proc' \in [Pids -> Proc] /\ fds' \in [FdNums -> Objects]
    BY <1>3, KillType, CloseType, EmptyType DEF WaitpidStopLog
  <2> QED BY <2>2, <2>3, <1>3 DEF WaitpidStopLog
<1>4. ASSUME NEW sl \in Slots, NEW p \in Pids, WaitpidDown(sl, p) PROVE TypeOK'
  <2>1. subsv' \in [Slots -> Subsv] /\ proc' \in [Pids -> Proc]
    BY <1>4, HarvestType, EmptyType DEF WaitpidDown, Reaped
  <2>2. wait' \in [got_cull : BOOLEAN, got_cycle : BOOLEAN,
                   started : SUBSET Slots, held : SUBSET Slots]
    BY <1>4 DEF WaitpidDown
  <2> QED BY <2>1, <2>2, <1>4 DEF WaitpidDown
<1>5. CASE WaitupDone
  <2>1. svdefs' \in [Services -> Svdef] /\ subsv' \in [Slots -> Subsv]
    BY <1>5, RemovedType DEF WaitupDone
  <2>2. fds' \in [FdNums -> Objects] /\ flags' \in Flags /\ ping' \in BOOLEAN
    BY <1>5, CloseType, TriggerType DEF WaitupDone
  <2>3. wait' \in [got_cull : BOOLEAN, got_cycle : BOOLEAN,
                   started : SUBSET Slots, held : SUBSET Slots]
    BY <1>5 DEF WaitupDone, NoWait
  <2>4. pc' \in Phases
    BY <1>5, PhaseType DEF WaitupDone
  <2> QED BY <2>1, <2>2, <2>3, <2>4, <1>5 DEF WaitupDone
<1> QED BY <1>1, <1>2, <1>3, <1>4, <1>5 DEF WaitupStep

LEMMA ScanTypes == TypeOK /\ ScanStep => TypeOK'
<1> SUFFICES ASSUME TypeOK, ScanStep PROVE TypeOK'
  OBVIOUS
<1> USE DEF TypeOK
<1>1. CASE ScanOpendirFails
  <2>1. budget' \in [Events -> Nat]
    BY <1>1, SpendType DEF ScanOpendirFails, Events
  <2>2. flags' \in Flags /\ poll' \in [ping : BOOLEAN, ready : SUBSET Requests, due : BOOLEAN]
    BY <1>1 DEF ScanOpendirFails, Flags
  <2> QED BY <2>1, <2>2, <1>1, PhaseType DEF ScanOpendirFails
<1>2. CASE ScanBegin
  <2>1. ASSUME NEW s \in Services PROVE [svdefs[s] EXCEPT !.active = FALSE] \in Svdef
    <3>1. svdefs[s] \in Svdef
      OBVIOUS
    <3> QED BY <3>1 DEF Svdef
  <2>2. fds' \in [FdNums -> Objects]
    <3>1. ScanDir \in Objects
      BY DEF ScanDir, Objects
    <3>2. PICK i \in FreeFds : fds' = [fds EXCEPT ![i] = ScanDir]
      BY <1>2 DEF ScanBegin
    <3> QED BY <3>1, <3>2
  <2>3. flags' \in Flags /\ poll' \in [ping : BOOLEAN, ready : SUBSET Requests, due : BOOLEAN]
    BY <1>2 DEF ScanBegin, Flags
  <2> QED BY <2>1, <2>2, <2>3, <1>2 DEF ScanBegin, Phases
<1>3. CASE ScanReaddirFails
  <2>1. budget' \in [Events -> Nat]
    BY <1>3, SpendType DEF ScanReaddirFails, Events
  <2>2. flags' \in Flags /\ ping' \in BOOLEAN
    BY <1>3, TriggerType DEF ScanReaddirFails
  <2>3. fds' \in [FdNums -> Objects]
    BY <1>3 DEF ScanReaddirFails, Closedir, Free, Objects
  <2> QED BY <2>1, <2>2, <2>3, <1>3, PhaseType DEF ScanReaddirFails, NoScan
<1>4. CASE ScanEnd
  <2> DEFINE Gone == {s \in InTable : ~svdefs[s].active}
             New == {s \in Gone : ~svdefs[s].cull}
             svd == [s \in Services |->
                       IF s \in Gone THEN [WantcullSvdefs(New)[s] EXCEPT
                                             !.cycle = IF s \in New THEN @ ELSE FALSE]
                                     ELSE svdefs[s]]
             got_cull == \/ \E s \in New : AlreadyDown(s)
                         \/ \E s \in Gone \ New : CullOk(svdefs, subsv, s)
             G == Culled(got_cull, svd)
  <2>1. svd \in [Services -> Svdef]
    <3> SUFFICES ASSUME NEW s \in Services
                 PROVE [WantcullSvdefs(New)[s] EXCEPT
                          !.cycle = IF s \in New THEN @ ELSE FALSE] \in Svdef
      OBVIOUS
    <3>1. WantcullSvdefs(New)[s] \in Svdef
      BY WantcullType
    <3> QED BY <3>1 DEF Svdef
  <2>2. svdefs' = Removed(svd, G) /\ subsv' = RemovedSubsv(WantcullSubsv(New), G)
    BY <1>4 DEF ScanEnd
  <2>3. svdefs' \in [Services -> Svdef] /\ subsv' \in [Slots -> Subsv]
    <3>1. WantcullSubsv(New) \in [Slots -> Subsv]
      BY WantcullType
    <3> HIDE DEF svd, G
    <3> QED BY <2>1, <2>2, <3>1, RemovedType
  <2>4. proc' \in [Pids -> Proc]
    BY <1>4, KillType DEF ScanEnd
  <2>5. fds' \in [FdNums -> Objects]
    <3>1. Close(WantcullCloses(New) \cup FdDirs(G), G) \in [FdNums -> Objects]
      BY CloseType
    <3>2. fds' = [i \in FdNums |->
                    IF fds[i] = ScanDir THEN Free
                    ELSE Close(WantcullCloses(New) \cup FdDirs(G), G)[i]]
      BY <1>4 DEF ScanEnd
    <3> QED BY <3>1, <3>2 DEF Free, Objects
  <2>6. flags' \in Flags /\ ping' \in BOOLEAN
    BY <1>4, TriggerType DEF ScanEnd
  <2> QED BY <2>3, <2>4, <2>5, <2>6, <1>4, PhaseType DEF ScanEnd, NoScan
<1>5. ASSUME NEW d \in Services, ScanIgnore(d) PROVE TypeOK'
  BY <1>5 DEF ScanIgnore, Read, Entry
<1>6. ASSUME NEW d \in Services, ScanKeep(d) PROVE TypeOK'
  <2>1. svdefs[d] \in Svdef
    OBVIOUS
  <2>2. [svdefs[d] EXCEPT !.active = TRUE,
                          !.cycle = IF svdefs[d].cull THEN TRUE ELSE @] \in Svdef
    BY <2>1 DEF Svdef
  <2>3. svdefs' \in [Services -> Svdef]
    BY <1>6, <2>2 DEF ScanKeep
  <2> QED BY <2>3, <1>6 DEF ScanKeep, Read, Entry
<1>7. ASSUME NEW d \in Services, NEW fl \in Flavors[d], ScanFail(d, fl) PROVE TypeOK'
  <2>1. budget' \in [Events -> Nat]
    BY <1>7, SpendType DEF ScanFail, Events
  <2> QED BY <2>1, <1>7 DEF ScanFail, Read, Entry
<1>8. ASSUME NEW d \in Services, NEW fl \in Flavors[d], ScanActivate(d, fl) PROVE TypeOK'
  <2>1. fl \in [haslog : BOOLEAN, down : BOOLEAN, once : BOOLEAN]
    BY FlavorsAssumption
  <2>2. PICK i \in FreeFds, j \in FdNums \cup {0}, k \in FdNums \cup {0} :
          /\ fds' = [n \in FdNums |-> CASE n = i -> <<"dir", d>>
                                        [] n = j -> <<"rd", d>>
                                        [] n = k -> <<"wr", d>>
                                        [] OTHER -> fds[n]]
          /\ svdefs' = [svdefs EXCEPT ![d] =
                          [NoSvdef EXCEPT !.in = TRUE, !.active = TRUE,
                             !.haslog = fl.haslog, !.fd_dir = i, !.lp0 = j, !.lp1 = k]]
    BY <1>8 DEF ScanActivate
  <2>3. fds' \in [FdNums -> Objects]
    BY <2>2 DEF Objects
  <2>4. svdefs' \in [Services -> Svdef]
    <3>1. i \in 0 .. NFD /\ j \in 0 .. NFD /\ k \in 0 .. NFD
      BY SizeAssumption DEF FreeFds, FdNums
    <3>2. [NoSvdef EXCEPT !.in = TRUE, !.active = TRUE,
             !.haslog = fl.haslog, !.fd_dir = i, !.lp0 = j, !.lp1 = k] \in Svdef
      BY <3>1, <2>1, EmptyType DEF Svdef
    <3> QED BY <2>2, <3>2
  <2>5. subsv' \in [Slots -> Subsv]
    <3>1. [NewSubsv EXCEPT !.wantdown = fl.down,
                           !.isonce = IF fl.down THEN FALSE ELSE fl.once] \in Subsv
      BY <2>1, EmptyType DEF Subsv
    <3> QED BY <3>1, <1>8, EmptyType DEF ScanActivate
  <2>6. runs' \subseteq Slots \X Targets
    BY <1>8 DEF ScanActivate, Slots, Whiches, Targets, Log, Main
  <2> QED BY <2>3, <2>4, <2>5, <2>6, <1>8 DEF ScanActivate, Read, Entry
<1> QED BY <1>1, <1>2, <1>3, <1>4, <1>5, <1>6, <1>7, <1>8 DEF ScanStep

LEMMA FailTypes == TypeOK /\ FailStep => TypeOK'
<1> SUFFICES ASSUME TypeOK, FailStep PROVE TypeOK'
  OBVIOUS
<1> USE DEF TypeOK
<1>1. CASE FailDie
  BY <1>1 DEF FailDie, Phases
<1>2. CASE FailRetry
  <2>1. flags' \in Flags
    BY <1>2 DEF FailRetry, Flags
  <2>2. runs' \subseteq Slots \X Targets
    BY <1>2 DEF FailRetry, RetryTarget, Targets
  <2> QED BY <2>1, <2>2, <1>2 DEF FailRetry, Phases
<1>3. CASE FailDone
  BY <1>3 DEF FailDone, NoPoll, Phases
<1> QED BY <1>1, <1>2, <1>3 DEF FailStep

LEMMA ClientTypes == TypeOK /\ ClientStep => TypeOK'
<1> SUFFICES ASSUME TypeOK, ClientStep PROVE TypeOK'
  OBVIOUS
<1> USE DEF TypeOK
<1>1. CASE LoopEnd
  BY <1>1, PhaseType DEF LoopEnd, NoPoll
<1>2. ASSUME NEW r \in Requests, ControlRefused(r) PROVE TypeOK'
  BY <1>2 DEF ControlRefused, Ready
<1>3. ASSUME NEW r \in Requests, Control(r) PROVE TypeOK'
  <2>1. subsv' \in [Slots -> Subsv]
    BY <1>3, CtlSubsvType DEF Control
  <2>2. proc' \in [Pids -> Proc]
    BY <1>3, KillType DEF Control
  <2>3. CtlSlots(r[1], r[2]) \subseteq Slots
    BY DEF CtlSlots, Requests, Slots, Log, Whiches
  <2>4. runs' \subseteq Slots \X Targets
    BY <1>3, <2>3 DEF Control, Targets
  <2>5. poll' \in [ping : BOOLEAN, ready : SUBSET Requests, due : BOOLEAN] /\ reqs' \subseteq Requests
    BY <1>3 DEF Control, Ready
  <2> QED BY <2>1, <2>2, <2>4, <2>5, <1>3 DEF Control
<1> QED BY <1>1, <1>2, <1>3 DEF ClientStep

LEMMA EnvTypes == TypeOK /\ (ChildStep \/ AdminStep) => TypeOK'
<1> SUFFICES ASSUME TypeOK, ChildStep \/ AdminStep PROVE TypeOK'
  OBVIOUS
<1> USE DEF TypeOK
<1>1. ASSUME NEW p \in Pids, NEW ws \in WStats, ChildExit(p, ws) PROVE TypeOK'
  <2>1. proc[p] \in Proc
    OBVIOUS
  <2>2. [NoProc EXCEPT !.st = "zombie", !.owner = proc[p].owner,
                       !.target = proc[p].target, !.wstat = ws] \in Proc
    BY <2>1, EmptyType DEF Proc
  <2> QED BY <1>1, <2>2 DEF ChildExit, Sigs
<1>2. ASSUME NEW s \in Services, Chmod(s) PROVE TypeOK'
  BY <1>2, SpendType DEF Chmod, Events
<1>3. ASSUME NEW sig \in {"HUP", "TERM"}, Signal(sig) PROVE TypeOK'
  BY <1>3, SpendType DEF Signal, Events, Sigs
<1>4. ASSUME NEW r \in Requests, Send(r) PROVE TypeOK'
  BY <1>4, SpendType DEF Send, Events
<1> QED BY <1>1, <1>2, <1>3, <1>4 DEF ChildStep, AdminStep

LEMMA TypeStep == TypeOK /\ [Next]_vars => TypeOK'
<1> SUFFICES ASSUME TypeOK, [Next]_vars PROVE TypeOK'
  OBVIOUS
<1>1. CASE UNCHANGED vars
  BY <1>1 DEF vars, TypeOK
<1>2. CASE Finished
  BY <1>2 DEF Finished, vars, TypeOK
<1> QED BY <1>1, <1>2, PollTypes, RunTypes, WaitupTypes, ScanTypes, FailTypes,
           ClientTypes, EnvTypes DEF Next, MainLoop

\* perpd keeps its tables, its flags and its descriptors well formed in every
\* behaviour, for any number of services, commands and failures; in
\* particular a pid it holds is always a process id or none, also after a
\* fork() that returned -1 (perpd_svdef.c:400-407).
THEOREM TypeCorrect == Spec => []TypeOK
<1>1. Init => TypeOK
  BY TypeInit
<1>2. TypeOK /\ [Next]_vars => TypeOK'
  BY TypeStep
<1> QED BY <1>1, <1>2, PTL DEF Spec

-----------------------------------------------------------------------------
(* No wakeup is lost.  ping may only be missing for a flag that a phase     *)
(* still ahead in this iteration will test.                                 *)

WakeupInv ==
  /\ flags.term => pc = "term" \/ ping
  /\ flags.chld => pc \in {"term", "chld"} \/ ping
  /\ flags.hup => pc \in {"term", "chld", "waitup", "scan"} \/ ping
  /\ flags.failing =>
       pc \in {"term", "chld", "waitup", "scan", "scanning", "fail", "dead"} \/ ping

\* perpd tests every flag that is raised, or will be woken up for it.
LEMMA WakeupStep == TypeOK /\ WakeupInv /\ [Next]_vars => WakeupInv'
<1> SUFFICES ASSUME TypeOK, WakeupInv, [Next]_vars PROVE WakeupInv'
  OBVIOUS
<1> flags \in [chld : BOOLEAN, hup : BOOLEAN, term : BOOLEAN, failing : BOOLEAN,
               terminating : BOOLEAN]
  BY DEF TypeOK, Flags
<1>1. CASE UNCHANGED vars
  BY <1>1 DEF vars, WakeupInv
<1>2. CASE Finished
  BY <1>2 DEF Finished, vars, WakeupInv
<1>3. CASE PollStep
  <2>1. ASSUME NEW sig \in Sigs, SigTrap(sig) PROVE WakeupInv'
    BY <2>1 DEF SigTrap, WakeupInv
  <2>2. CASE PollReturn
    BY <2>2 DEF PollReturn, WakeupInv
  <2>3. CASE Drain
    BY <2>3 DEF Drain, WakeupInv
  <2>4. CASE Terminate
    BY <2>4 DEF Terminate, WakeupInv
  <2>5. CASE ChldCheck
    BY <2>5 DEF ChldCheck, AfterWaitup, AfterScan, WakeupInv
  <2> QED BY <1>3, <2>1, <2>2, <2>3, <2>4, <2>5 DEF PollStep
<1>4. CASE WaitupStep
  <2>1. CASE WaitupDone
    BY <2>1 DEF WaitupDone, TriggerScan, AfterWaitup, AfterScan, WakeupInv
  <2>2. CASE UNCHANGED <<flags, ping, pc>>
    BY <2>2 DEF WakeupInv
  <2> QED BY <1>4, <2>1, <2>2
             DEF WaitupStep, WaitpidStray, WaitpidRerun, WaitpidStopLog, WaitpidDown
<1>5. CASE ScanStep
  <2>1. CASE ScanOpendirFails
    BY <2>1 DEF ScanOpendirFails, AfterScan, WakeupInv
  <2>2. CASE ScanBegin
    BY <2>2 DEF ScanBegin, WakeupInv
  <2>3. CASE ScanReaddirFails
    BY <2>3 DEF ScanReaddirFails, TriggerScan, AfterScan, WakeupInv
  <2>4. CASE ScanEnd
    <3>1. TriggerScan(scan.got_fail) /\ pc = "scanning" /\ pc' = AfterScan(flags)
      BY <2>4 DEF ScanEnd
    <3> QED BY <3>1 DEF TriggerScan, AfterScan, WakeupInv
  <2>5. CASE UNCHANGED <<flags, ping, pc>>
    BY <2>5 DEF WakeupInv
  <2> QED BY <1>5, <2>1, <2>2, <2>3, <2>4, <2>5
             DEF ScanStep, ScanIgnore, ScanKeep, ScanFail, ScanActivate
<1>6. CASE FailStep
  BY <1>6 DEF FailStep, FailDie, FailRetry, FailDone, WakeupInv
<1>7. CASE ClientStep
  <2>1. CASE LoopEnd
    BY <2>1 DEF LoopEnd, LoopTop, WakeupInv
  <2>2. CASE UNCHANGED <<flags, ping, pc>>
    BY <2>2 DEF WakeupInv
  <2> QED BY <1>7, <2>1, <2>2 DEF ClientStep, ControlRefused, Control
<1>8. CASE RunStep
  <2>1. ASSUME NEW sl \in Slots, NEW target \in Targets, SvdefRunForkFails(sl, target)
        PROVE  WakeupInv'
    BY <2>1 DEF SvdefRunForkFails, TriggerFail, WakeupInv
  <2>2. CASE UNCHANGED <<flags, ping, pc>>
    BY <2>2 DEF WakeupInv
  <2> QED BY <1>8, <2>1, <2>2 DEF RunStep, SvdefRunRefused, SvdefRun
<1>9. CASE ChildStep \/ AdminStep
  <2>1. UNCHANGED <<flags, ping, pc>>
    BY <1>9 DEF ChildStep, AdminStep, ChildExit, Chmod, Signal, Send
  <2> QED BY <2>1 DEF WakeupInv
<1> QED BY <1>1, <1>2, <1>3, <1>4, <1>5, <1>6, <1>7, <1>8, <1>9 DEF Next, MainLoop

\* perpd never goes to sleep in poll() on a signal, a rescan or a retry it
\* has been told of, in whatever order signals arrive, the selfpipe is
\* drained and flags are raised and tested (perpd.c:112-184, 753-857).
THEOREM NeverSleepsOnWork == Spec => []NoLostWakeup
<1>1. Init => WakeupInv
  BY DEF Init, WakeupInv
<1>2. WakeupInv => NoLostWakeup
  BY DEF WakeupInv, NoLostWakeup
<1> QED BY <1>1, <1>2, WakeupStep, TypeCorrect, PTL DEF Spec

-----------------------------------------------------------------------------
(* No dead child is forgotten. *)

\* Only an exit makes a zombie.
LEMMA NewZombies ==
  ASSUME TypeOK, [Next]_vars, ~ChildStep
  PROVE  Zombies' \subseteq Zombies
<1> USE DEF Zombies, TypeOK
<1>1. CASE UNCHANGED proc
  BY <1>1
<1>2. ASSUME NEW K, proc' = Kill(K) PROVE Zombies' \subseteq Zombies
  BY <1>2, KillType
<1>3. ASSUME NEW p \in Pids, proc' = Reaped(p) PROVE Zombies' \subseteq Zombies
  BY <1>3 DEF Reaped, NoProc
<1>4. ASSUME NEW sl \in Slots, NEW p \in Pids, WaitpidStopLog(sl, p)
      PROVE  Zombies' \subseteq Zombies
  <2>1. PICK K : proc' = [Kill(K) EXCEPT ![p] = NoProc]
    BY <1>4 DEF WaitpidStopLog
  <2> QED BY <2>1, KillType DEF NoProc
<1>5. ASSUME NEW sl \in Slots, NEW target \in Targets, NEW p \in Pids,
             SvdefRun(sl, target, p)
      PROVE  Zombies' \subseteq Zombies
  <2>1. PICK a, w : proc' = [proc EXCEPT ![p] =
                  [NoProc EXCEPT !.st = "run", !.owner = sl, !.target = target,
                                 !.arg = a, !.wired = w]]
    BY <1>5 DEF SvdefRun
  <2> QED BY <2>1 DEF NoProc
<1>6. CASE WaitupStep
  BY <1>6, <1>1, <1>3, <1>4 DEF WaitupStep, WaitpidStray, WaitpidRerun, WaitpidDown, WaitupDone
<1>7. CASE RunStep
  BY <1>7, <1>1, <1>5 DEF RunStep, SvdefRunRefused, SvdefRunForkFails
<1>8. CASE PollStep
  BY <1>8, <1>1, <1>2 DEF PollStep, SigTrap, PollReturn, Drain, Terminate, ChldCheck
<1>9. CASE ScanStep
  BY <1>9, <1>1, <1>2 DEF ScanStep, ScanOpendirFails, ScanBegin, ScanReaddirFails,
     ScanEnd, ScanIgnore, ScanKeep, ScanFail, ScanActivate
<1>10. CASE FailStep \/ ClientStep
  BY <1>10, <1>1, <1>2 DEF FailStep, ClientStep, FailDie, FailRetry, FailDone,
     LoopEnd, ControlRefused, Control
<1>11. CASE AdminStep \/ Finished \/ UNCHANGED vars
  BY <1>11, <1>1 DEF AdminStep, Chmod, Signal, Send, Finished, vars
<1> QED BY <1>6, <1>7, <1>8, <1>9, <1>10, <1>11 DEF Next, MainLoop

LEMMA NoLostChildStep == TypeOK /\ NoLostChild /\ [Next]_vars => NoLostChild'
<1> SUFFICES ASSUME TypeOK, NoLostChild, [Next]_vars PROVE NoLostChild'
  OBVIOUS
<1> USE DEF NoLostChild, Alive
<1>1. CASE ChildStep
  BY <1>1 DEF ChildStep, ChildExit
<1>2. ASSUME NEW sig \in Sigs, SigTrap(sig) PROVE NoLostChild'
  BY <1>2 DEF SigTrap, Zombies, TypeOK, Flags
<1>3. CASE ChldCheck
  BY <1>3 DEF ChldCheck, Zombies, TypeOK, Flags
<1>4. CASE WaitupDone
  <2>1. Zombies = {} /\ UNCHANGED proc
    BY <1>4 DEF WaitupDone, NoMoreChildren
  <2> QED BY <2>1 DEF Zombies
<1>5. ASSUME ~ChildStep, "CHLD" \in sigs => "CHLD" \in sigs',
             flags.chld => flags'.chld, pc = "waitup" => pc' = "waitup",
             Alive' => Alive
      PROVE  NoLostChild'
  BY <1>5, NewZombies
<1>6. ASSUME ~ChildStep, UNCHANGED <<sigs, pc>>, flags.chld => flags'.chld
      PROVE NoLostChild'
  BY <1>5, <1>6
<1>7. CASE PollReturn \/ Drain \/ Terminate
  BY <1>7, <1>1, <1>5 DEF PollReturn, Drain, Terminate, TypeOK, Flags
<1>8. CASE RunStep
  BY <1>8, <1>1, <1>6 DEF RunStep, SvdefRunRefused, SvdefRun, SvdefRunForkFails,
     TriggerFail, TypeOK, Flags
<1>9. CASE \E p \in Pids : WaitpidStray(p)
                           \/ \E sl \in Slots : WaitpidRerun(sl, p) \/ WaitpidStopLog(sl, p)
                                                 \/ WaitpidDown(sl, p)
  BY <1>9, <1>1, <1>6 DEF WaitpidStray, WaitpidRerun, WaitpidStopLog, WaitpidDown
<1>10. CASE ScanStep
  <2>1. CASE ScanOpendirFails \/ ScanBegin
    BY <2>1, <1>1, <1>5 DEF ScanOpendirFails, ScanBegin, TypeOK, Flags
  <2>2. CASE ScanReaddirFails \/ ScanEnd
    <3>1. /\ pc = "scanning" /\ UNCHANGED sigs
          /\ \E c : TriggerScan(c)
      BY <2>2 DEF ScanReaddirFails, ScanEnd
    <3> QED BY <3>1, <1>1, <1>5 DEF TriggerScan, TypeOK, Flags
  <2>3. CASE UNCHANGED <<sigs, pc, flags>>
    BY <2>3, <1>1, <1>6
  <2> QED BY <1>10, <2>1, <2>2, <2>3
             DEF ScanStep, ScanIgnore, ScanKeep, ScanFail, ScanActivate
<1>11. CASE FailStep \/ ClientStep
  BY <1>11, <1>1, <1>5 DEF FailStep, ClientStep, FailDie, FailRetry, FailDone,
     LoopEnd, ControlRefused, Control, Ready, TypeOK, Flags
<1>12. CASE AdminStep
  BY <1>12, <1>1, <1>5 DEF AdminStep, Chmod, Signal, Send
<1>13. CASE Finished \/ UNCHANGED vars
  BY <1>13, <1>1, <1>6 DEF Finished, vars
<1> QED BY <1>1, <1>2, <1>3, <1>4, <1>7, <1>8, <1>9, <1>10, <1>11, <1>12, <1>13
           DEF Next, MainLoop, PollStep, WaitupStep

\* Although SIGCHLDs merge while blocked and waitpid() runs with new children
\* dying, perpd always knows of a dead child it has not reaped: a SIGCHLD is
\* pending, flag_chld is set, or the waitpid() loop is still running
\* (perpd.c:112-151, 338, 820).
THEOREM ChildNeverForgotten == Spec => []NoLostChild
<1>1. Init => NoLostChild
  <2> SUFFICES ASSUME Init, NEW p \in Pids PROVE proc[p].st # "zombie"
    BY DEF NoLostChild, Zombies
  <2>1. proc[p] = NoProc \/ proc[p] = [NoProc EXCEPT !.st = "run"]
    BY DEF Init
  <2> QED BY <2>1 DEF NoProc
<1> QED BY <1>1, NoLostChildStep, TypeCorrect, PTL DEF Spec

-----------------------------------------------------------------------------
(* perpd tracks its children. *)

\* What ChildTracking rests on: a service without a log has no log process,
\* forks are outstanding for services in the table only, and only in the
\* phases that make them, and perpd is done only when the table is empty.
TrackInv ==
  /\ ChildTracking
  /\ \A s \in Services : ~svdefs[s].haslog => subsv[Log(s)].pid = None
  /\ \A r \in runs : svdefs[r[1][1]].in
  /\ runs # {} => pc \in {"waitup", "scanning", "retrying", "clients"}
  /\ pc = "done" => InTable = {}

LEMMA SlotCases ==
  /\ \A sl \in Slots : sl[1] \in Services /\ (sl = Main(sl[1]) \/ sl = Log(sl[1]))
  /\ \A s \in Services : Main(s) \in Slots /\ Log(s) \in Slots /\ Main(s) # Log(s)
                         /\ Main(s)[1] = s /\ Log(s)[1] = s
BY DEF Slots, Whiches, Main, Log

\* Tracking survives a step that moves no pid, and a perpd_cull() of
\* services G without processes.
LEMMA TrackCull ==
  ASSUME TypeOK, TypeOK', ChildTracking, NEW G,
         \A sl \in Slots : sl[1] \in G => subsv[sl].pid = None,
         \A sl \in Slots : subsv'[sl].pid = subsv[sl].pid,
         \A s \in Services : svdefs'[s].in <=> svdefs[s].in /\ s \notin G,
         \A p \in Pids : /\ proc'[p].st = "none" <=> proc[p].st = "none"
                         /\ proc'[p].owner = proc[p].owner
  PROVE  ChildTracking'
<1>1. Unreaped' = Unreaped
  BY DEF Unreaped
<1>2. ASSUME NEW p \in Unreaped'
      PROVE subsv'[proc'[p].owner].pid = p /\ svdefs'[proc'[p].owner[1]].in
  <2>1. p \in Unreaped /\ p \in Pids
    BY <1>1 DEF Unreaped
  <2>2. proc[p] \in Proc
    BY <2>1 DEF TypeOK
  <2>3. proc[p].owner \in Slots /\ proc'[p].owner = proc[p].owner
    BY <2>1, <2>2 DEF Unreaped, Proc
  <2>4. subsv[proc[p].owner].pid = p /\ svdefs[proc[p].owner[1]].in
    BY <2>1 DEF ChildTracking
  <2>5. proc[p].owner[1] \notin G /\ proc[p].owner[1] \in Services
    BY <2>1, <2>3, <2>4, NoneAssumption, SlotCases
  <2> QED BY <2>3, <2>4, <2>5
<1>3. ASSUME NEW sl \in Slots, subsv'[sl].pid # None
      PROVE subsv'[sl].pid \in Unreaped' /\ proc'[subsv'[sl].pid].owner = sl
  <2>1. subsv[sl].pid \in Unreaped /\ proc[subsv[sl].pid].owner = sl
    BY <1>3 DEF ChildTracking
  <2> QED BY <2>1, <1>1 DEF Unreaped
<1> QED BY <1>2, <1>3 DEF ChildTracking

\* What perpd_cull() removes has no process, and keeps the other pids.
LEMMA CulledFacts ==
  ASSUME TypeOK, TrackInv, NEW called, NEW svd \in [Services -> Svdef],
         NEW sub \in [Slots -> Subsv],
         \A s \in Services : svd[s].in = svdefs[s].in /\ svd[s].haslog = svdefs[s].haslog,
         \A sl \in Slots : sub[sl].pid = subsv[sl].pid,
         NEW G, G = Culled(called, svd)
  PROVE  /\ \A sl \in Slots : sl[1] \in G => subsv[sl].pid = None
         /\ \A sl \in Slots : RemovedSubsv(sub, G)[sl].pid = subsv[sl].pid
         /\ \A s \in Services : /\ Removed(svd, G)[s].in <=> svdefs[s].in /\ s \notin G
                                /\ Removed(svd, G)[s].haslog <=> svdefs[s].haslog /\ s \notin G
<1>1. ASSUME NEW sl \in Slots, sl[1] \in G PROVE subsv[sl].pid = None
  <2>1. sl[1] \in Services /\ CullOk(svd, subsv, sl[1])
    BY <1>1 DEF Culled
  <2>2. /\ subsv[Main(sl[1])].pid = None
        /\ svdefs[sl[1]].haslog => subsv[Log(sl[1])].pid = None
    BY <2>1 DEF CullOk
  <2>3. subsv[Log(sl[1])].pid = None
    BY <2>1, <2>2 DEF TrackInv
  <2> QED BY <2>2, <2>3, SlotCases
<1>2. \A sl \in Slots : RemovedSubsv(sub, G)[sl].pid = subsv[sl].pid
  BY <1>1 DEF RemovedSubsv, NewSubsv
<1>3. \A s \in Services : /\ Removed(svd, G)[s].in <=> svdefs[s].in /\ s \notin G
                          /\ Removed(svd, G)[s].haslog <=> svdefs[s].haslog /\ s \notin G
  BY DEF Removed, NoSvdef
<1> QED BY <1>1, <1>2, <1>3

\* A step that removes G from the table and otherwise leaves pids, haslog and
\* runs alone preserves TrackInv.
LEMMA TrackRemoves ==
  ASSUME TypeOK, TypeOK', TrackInv, NEW G,
         \A sl \in Slots : sl[1] \in G => subsv[sl].pid = None,
         \A sl \in Slots : subsv'[sl].pid = subsv[sl].pid,
         \A s \in Services : /\ svdefs'[s].in <=> svdefs[s].in /\ s \notin G
                             /\ svdefs'[s].haslog <=> svdefs[s].haslog /\ s \notin G,
         \A p \in Pids : /\ proc'[p].st = "none" <=> proc[p].st = "none"
                         /\ proc'[p].owner = proc[p].owner,
         \/ runs = {} /\ runs' = {}
         \/ G = {} /\ runs' \subseteq runs /\ (runs' # {} => pc' = pc),
         pc' = "done" => pc = "done" \/ InTable = {}
  PROVE  TrackInv'
<1>1. ChildTracking'
  BY TrackCull DEF TrackInv
<1>2. (\A s \in Services : ~svdefs[s].haslog => subsv[Log(s)].pid = None)'
  BY SlotCases DEF TrackInv
<1>3. (\A r \in runs : svdefs[r[1][1]].in)'
  <2> SUFFICES ASSUME NEW r \in runs' PROVE svdefs'[r[1][1]].in
    OBVIOUS
  <2>1. G = {} /\ r \in runs
    OBVIOUS
  <2>2. r[1][1] \in Services
    BY <2>1, SlotCases DEF TypeOK
  <2> QED BY <2>1, <2>2 DEF TrackInv
<1>4. (runs # {} => pc \in {"waitup", "scanning", "retrying", "clients"})'
  BY DEF TrackInv
<1>5. (pc = "done" => InTable = {})'
  BY DEF TrackInv, InTable
<1> QED BY <1>1, <1>2, <1>3, <1>4, <1>5 DEF TrackInv

\* So does one that removes nothing.
LEMMA TrackQuiet ==
  ASSUME TypeOK, TypeOK', TrackInv,
         \A sl \in Slots : subsv'[sl].pid = subsv[sl].pid,
         \A s \in Services : /\ svdefs'[s].in = svdefs[s].in
                             /\ svdefs'[s].haslog = svdefs[s].haslog,
         \A p \in Pids : /\ proc'[p].st = "none" <=> proc[p].st = "none"
                         /\ proc'[p].owner = proc[p].owner,
         runs' \subseteq runs, runs' # {} => pc' = pc,
         pc' = "done" => pc = "done" \/ InTable = {}
  PROVE  TrackInv'
<1> DEFINE G == {}
<1>1. /\ \A sl \in Slots : sl[1] \in G => subsv[sl].pid = None
      /\ \A s \in Services : /\ svdefs'[s].in <=> svdefs[s].in /\ s \notin G
                             /\ svdefs'[s].haslog <=> svdefs[s].haslog /\ s \notin G
      /\ G = {}
  BY DEF TypeOK, Svdef
<1> HIDE DEF G
<1> QED BY <1>1, TrackRemoves

\* waitpid() has returned p: it leaves perpd's tables, and the slot that held
\* it is empty.
LEMMA TrackReap ==
  ASSUME TypeOK, TypeOK', TrackInv, NEW p \in Pids,
         UNCHANGED <<svdefs, pc>>,
         \A sl \in Slots : subsv'[sl].pid = IF subsv[sl].pid = p THEN None ELSE subsv[sl].pid,
         proc'[p] = NoProc,
         \A q \in Pids \ {p} : proc'[q].st = proc[q].st /\ proc'[q].owner = proc[q].owner,
         runs = {}, \A r \in runs' : svdefs[r[1][1]].in, pc = "waitup"
  PROVE  TrackInv'
<1>1. Unreaped' = Unreaped \ {p}
  BY DEF Unreaped, NoProc
<1>2. ASSUME NEW q \in Unreaped'
      PROVE subsv'[proc'[q].owner].pid = q /\ svdefs'[proc'[q].owner[1]].in
  <2>1. q \in Unreaped /\ q \in Pids \ {p}
    BY <1>1 DEF Unreaped
  <2>2. proc[q] \in Proc
    BY <2>1 DEF TypeOK
  <2>3. proc[q].owner \in Slots /\ proc'[q].owner = proc[q].owner
    BY <2>1, <2>2 DEF Unreaped, Proc
  <2>4. subsv[proc[q].owner].pid = q /\ svdefs[proc[q].owner[1]].in
    BY <2>1 DEF TrackInv, ChildTracking
  <2> QED BY <2>1, <2>3, <2>4
<1>3. ASSUME NEW sl \in Slots, subsv'[sl].pid # None
      PROVE subsv'[sl].pid \in Unreaped' /\ proc'[subsv'[sl].pid].owner = sl
  <2>1. subsv[sl].pid \in Unreaped /\ proc[subsv[sl].pid].owner = sl /\ subsv[sl].pid # p
    BY <1>3 DEF TrackInv, ChildTracking
  <2>2. subsv'[sl].pid = subsv[sl].pid /\ subsv[sl].pid \in Pids
    BY <2>1 DEF Unreaped
  <2> QED BY <2>1, <2>2, <1>1
<1>4. ChildTracking'
  BY <1>2, <1>3 DEF ChildTracking
<1>5. (\A s \in Services : ~svdefs[s].haslog => subsv[Log(s)].pid = None)'
  BY SlotCases DEF TrackInv
<1> QED BY <1>4, <1>5 DEF TrackInv, InTable

LEMMA TrackWaitup == TypeOK /\ TypeOK' /\ TrackInv /\ WaitupStep => TrackInv'
<1> SUFFICES ASSUME TypeOK, TypeOK', TrackInv, WaitupStep PROVE TrackInv'
  OBVIOUS
\* The slots that hold p, if p is a zombie: the one that is its child's.
<1>1. ASSUME NEW p \in Zombies, NEW sl \in Slots, subsv[sl].pid = p
      PROVE Child(sl, p) /\ \A x \in Slots : subsv[x].pid = p => x = sl
  <2>1. p \in Pids /\ p # None
    BY NoneAssumption DEF Zombies
  <2>2. p \in Unreaped /\ proc[p].owner = sl
    BY <1>1, <2>1 DEF TrackInv, ChildTracking
  <2>3. svdefs[sl[1]].in
    BY <2>2 DEF TrackInv, ChildTracking
  <2>4. \A x \in Slots : subsv[x].pid = p => x = sl
    BY <2>1, <2>2 DEF TrackInv, ChildTracking
  <2> QED BY <2>3, <2>4, <1>1 DEF Child
<1>2. ASSUME NEW p \in Pids, WaitpidStray(p) PROVE TrackInv'
  <2>1. \A sl \in Slots : subsv[sl].pid # p
    BY <1>1, <1>2 DEF WaitpidStray, Waiting
  <2>2. /\ proc'[p] = NoProc
        /\ \A q \in Pids \ {p} : proc'[q] = proc[q]
    BY <1>2 DEF WaitpidStray, Reaped, TypeOK
  <2> QED BY <1>2, <2>1, <2>2, TrackReap DEF WaitpidStray, Waiting
<1>3. ASSUME NEW sl \in Slots, NEW p \in Pids,
             WaitpidRerun(sl, p) \/ WaitpidStopLog(sl, p) \/ WaitpidDown(sl, p)
      PROVE TrackInv'
  <2>1. p \in Zombies /\ Child(sl, p) /\ runs = {} /\ pc = "waitup"
    BY <1>3 DEF WaitpidRerun, WaitpidStopLog, WaitpidDown, StaysDown, Waiting
  <2>2. \A x \in Slots : subsv[x].pid = p <=> x = sl
    BY <2>1, <1>1 DEF Child
  <2>3. Harvest(sl, p).pid = None
    BY HarvestType DEF TypeOK
  <2>4. \A x \in Slots : subsv'[x].pid = IF x = sl THEN None ELSE subsv[x].pid
    <3>1. CASE WaitpidRerun(sl, p) \/ WaitpidDown(sl, p)
      BY <3>1, <2>3 DEF WaitpidRerun, WaitpidDown, TypeOK
    <3>2. CASE WaitpidStopLog(sl, p)
      <4> DEFINE sub == [subsv EXCEPT ![sl] = Harvest(sl, p)]
                 lg == Log(sl[1])
      <4>1. lg \in Slots
        BY SlotCases
      <4>2. sub \in [Slots -> Subsv] /\ \A x \in Slots : sub[x].pid = IF x = sl THEN None ELSE subsv[x].pid
        BY <2>3, HarvestType DEF TypeOK
      <4>3. subsv' = [sub EXCEPT ![lg] = [@ EXCEPT !.ispaused = FALSE]]
        BY <3>2 DEF WaitpidStopLog
      <4>4. sub[lg] \in Subsv
        BY <4>1, <4>2
      <4>5. [sub[lg] EXCEPT !.ispaused = FALSE].pid = sub[lg].pid
        BY <4>4 DEF Subsv
      <4> HIDE DEF sub
      <4> QED BY <4>1, <4>2, <4>3, <4>5
    <3> QED BY <1>3, <3>1, <3>2
  <2>5. /\ proc'[p] = NoProc
        /\ \A q \in Pids \ {p} : proc'[q].st = proc[q].st /\ proc'[q].owner = proc[q].owner
    <3>1. CASE proc' = Reaped(p)
      BY <3>1 DEF Reaped, TypeOK
    <3>2. CASE \E K : proc' = [Kill(K) EXCEPT ![p] = NoProc]
      BY <3>2, KillType DEF TypeOK
    <3> QED BY <1>3, <3>1, <3>2 DEF WaitpidRerun, WaitpidStopLog, WaitpidDown
  <2>6. \A r \in runs' : svdefs[r[1][1]].in
    BY <1>3, <2>1 DEF WaitpidRerun, WaitpidStopLog, WaitpidDown, Child
  <2>7. UNCHANGED <<svdefs, pc>>
    BY <1>3 DEF WaitpidRerun, WaitpidStopLog, WaitpidDown
  <2> QED BY <2>1, <2>2, <2>4, <2>5, <2>6, <2>7, TrackReap
<1>4. CASE WaitupDone
  <2> DEFINE G == Culled(wait.got_cull, svdefs)
  <2>1. svdefs' = Removed(svdefs, G) /\ subsv' = RemovedSubsv(subsv, G)
    BY <1>4 DEF WaitupDone
  <2>2. pc' # "done" /\ runs = {} /\ runs' = {} /\ UNCHANGED proc
    BY <1>4 DEF WaitupDone, AfterWaitup, AfterScan
  <2>3. /\ \A sl \in Slots : sl[1] \in G => subsv[sl].pid = None
        /\ \A sl \in Slots : subsv'[sl].pid = subsv[sl].pid
        /\ \A s \in Services : /\ svdefs'[s].in <=> svdefs[s].in /\ s \notin G
                               /\ svdefs'[s].haslog <=> svdefs[s].haslog /\ s \notin G
    BY <2>1, CulledFacts DEF TypeOK
  <2> HIDE DEF G
  <2> QED BY <2>2, <2>3, TrackRemoves
<1> QED BY <1>2, <1>3, <1>4 DEF WaitupStep

LEMMA TrackPoll == TypeOK /\ TypeOK' /\ TrackInv /\ PollStep => TrackInv'
<1> SUFFICES ASSUME TypeOK, TypeOK', TrackInv, PollStep PROVE TrackInv'
  OBVIOUS
<1>1. CASE Terminate
  <2> DEFINE svd == WantcullSvdefs(InTable)
             sub == WantcullSubsv(InTable)
             called == \E s \in InTable : AlreadyDown(s)
             G == Culled(called, svd)
  <2>1. svdefs' = Removed(svd, G) /\ subsv' = RemovedSubsv(sub, G)
    BY <1>1 DEF Terminate
  <2>2. /\ svd \in [Services -> Svdef] /\ sub \in [Slots -> Subsv]
        /\ \A s \in Services : svd[s].in = svdefs[s].in /\ svd[s].haslog = svdefs[s].haslog
        /\ \A sl \in Slots : sub[sl].pid = subsv[sl].pid
    BY WantcullType DEF TypeOK
  <2>3. \A p \in Pids : proc'[p].st = proc[p].st /\ proc'[p].owner = proc[p].owner
    BY <1>1, KillType DEF Terminate, TypeOK
  <2>4. pc' # "done" /\ runs = {} /\ runs' = {}
    BY <1>1 DEF Terminate, TrackInv
  <2>5. /\ \A sl \in Slots : sl[1] \in G => subsv[sl].pid = None
        /\ \A sl \in Slots : subsv'[sl].pid = subsv[sl].pid
        /\ \A s \in Services : /\ svdefs'[s].in <=> svdefs[s].in /\ s \notin G
                               /\ svdefs'[s].haslog <=> svdefs[s].haslog /\ s \notin G
    <3> HIDE DEF svd, sub, called
    <3> QED BY <2>1, <2>2, CulledFacts
  <2> HIDE DEF G
  <2> QED BY <2>3, <2>4, <2>5, TrackRemoves
<1>2. ASSUME UNCHANGED <<svdefs, subsv, proc, runs>>, runs = {}, pc' # "done"
      PROVE TrackInv'
  BY <1>2, TrackQuiet
<1> QED BY <1>1, <1>2 DEF PollStep, SigTrap, PollReturn, Drain, ChldCheck,
           AfterWaitup, AfterScan, TrackInv

LEMMA TrackRun == TypeOK /\ TypeOK' /\ TrackInv /\ RunStep => TrackInv'
<1> SUFFICES ASSUME TypeOK, TypeOK', TrackInv, NEW sl \in Slots, NEW target \in Targets,
                    \/ SvdefRunRefused(sl, target)
                    \/ \E p \in Pids : SvdefRun(sl, target, p)
                    \/ SvdefRunForkFails(sl, target)
             PROVE  TrackInv'
  BY DEF RunStep
<1>1. CASE SvdefRunRefused(sl, target)
  BY <1>1, TrackQuiet DEF SvdefRunRefused, NextRun
<1>2. CASE SvdefRunForkFails(sl, target)
  <2>1. subsv[sl].pid = None
    BY <1>2 DEF SvdefRunForkFails, RunRefused
  <2>2. ForkFailed(sl, target).pid = None
    BY ForkFailedType DEF TypeOK
  <2>3. \A x \in Slots : subsv'[x].pid = subsv[x].pid
    BY <1>2, <2>1, <2>2 DEF SvdefRunForkFails, TypeOK
  <2> QED BY <1>2, <2>3, TrackQuiet DEF SvdefRunForkFails, NextRun
<1>3. ASSUME NEW p \in Pids, SvdefRun(sl, target, p) PROVE TrackInv'
  <2>1. /\ svdefs[sl[1]].in /\ subsv[sl].pid = None /\ proc[p].st = "none"
        /\ sl[2] = "log" => svdefs[sl[1]].haslog
        /\ runs' \subseteq runs /\ UNCHANGED <<svdefs, pc>>
    BY <1>3 DEF SvdefRun, NextRun, RunRefused, FreePids, TrackInv
  <2>2. subsv'[sl].pid = p /\ \A x \in Slots \ {sl} : subsv'[x] = subsv[x]
    <3>1. RunInit(sl, target) \in Subsv
      BY RunInitType DEF TypeOK
    <3>2. [RunInit(sl, target) EXCEPT !.pid = p].pid = p
      BY <3>1 DEF Subsv
    <3> QED BY <1>3, <3>2 DEF SvdefRun, TypeOK
  <2>3. /\ proc'[p].st = "run" /\ proc'[p].owner = sl
        /\ \A q \in Pids \ {p} : proc'[q] = proc[q]
    <3>1. proc'[p] = [NoProc EXCEPT !.st = "run", !.owner = sl, !.target = target,
                                    !.arg = ResetArg(sl, target),
                                    !.wired = Wiring(sl, target)]
      BY <1>3 DEF SvdefRun, TypeOK
    <3>2. \A q \in Pids \ {p} : proc'[q] = proc[q]
      BY <1>3 DEF SvdefRun, TypeOK
    <3> QED BY <3>1, <3>2 DEF NoProc
  <2>4. sl # None
    BY NoneAssumption DEF Slots, Whiches
  <2>5. Unreaped' = Unreaped \cup {p}
    BY <2>1, <2>3, <2>4 DEF Unreaped
  <2>6. ASSUME NEW q \in Unreaped'
        PROVE subsv'[proc'[q].owner].pid = q /\ svdefs'[proc'[q].owner[1]].in
    <3>1. CASE q = p
      BY <3>1, <2>1, <2>2, <2>3
    <3>2. CASE q # p
      <4>1. q \in Unreaped /\ q \in Pids \ {p}
        BY <3>2, <2>5 DEF Unreaped
      <4>2. proc[q] \in Proc
        BY <4>1 DEF TypeOK
      <4>3. proc[q].owner \in Slots /\ proc'[q].owner = proc[q].owner
        BY <4>1, <4>2, <2>3 DEF Unreaped, Proc
      <4>4. subsv[proc[q].owner].pid = q /\ svdefs[proc[q].owner[1]].in
        BY <4>1 DEF TrackInv, ChildTracking
      <4>5. proc[q].owner # sl
        BY <4>1, <4>4, <2>1, NoneAssumption
      <4> QED BY <4>3, <4>4, <4>5, <2>1, <2>2
    <3> QED BY <3>1, <3>2
  <2>7. ASSUME NEW x \in Slots, subsv'[x].pid # None
        PROVE subsv'[x].pid \in Unreaped' /\ proc'[subsv'[x].pid].owner = x
    <3>1. CASE x = sl
      BY <3>1, <2>2, <2>3, <2>5
    <3>2. CASE x # sl
      <4>1. subsv[x].pid \in Unreaped /\ proc[subsv[x].pid].owner = x /\ subsv'[x] = subsv[x]
        BY <3>2, <2>2, <2>7 DEF TrackInv, ChildTracking
      <4>2. subsv[x].pid \in Pids \ {p}
        BY <4>1, <2>1 DEF Unreaped
      <4> QED BY <4>1, <4>2, <2>3, <2>5
    <3> QED BY <3>1, <3>2
  <2>8. ChildTracking'
    BY <2>6, <2>7 DEF ChildTracking
  <2>9. ASSUME NEW s \in Services, ~svdefs'[s].haslog PROVE subsv'[Log(s)].pid = None
    <3>1. Log(s) # sl
      BY <2>1, <2>9 DEF Log
    <3> QED BY <3>1, <2>1, <2>2, <2>9, SlotCases DEF TrackInv
  <2> QED BY <2>1, <2>8, <2>9 DEF TrackInv, InTable
<1> QED BY <1>1, <1>2, <1>3

LEMMA TrackScan == TypeOK /\ TypeOK' /\ TrackInv /\ ScanStep => TrackInv'
<1> SUFFICES ASSUME TypeOK, TypeOK', TrackInv, ScanStep PROVE TrackInv'
  OBVIOUS
<1>1. ASSUME UNCHANGED <<subsv, proc>>, runs = {}, runs' = {}, pc' # "done",
             \A s \in Services : /\ svdefs'[s].in = svdefs[s].in
                                 /\ svdefs'[s].haslog = svdefs[s].haslog
      PROVE TrackInv'
  BY <1>1, TrackQuiet
<1>2. CASE ScanOpendirFails \/ ScanReaddirFails
  BY <1>1, <1>2 DEF ScanOpendirFails, ScanReaddirFails, AfterScan, TrackInv
<1>3. CASE ScanBegin
  <2>1. \A s \in Services : /\ svdefs'[s].in = svdefs[s].in
                             /\ svdefs'[s].haslog = svdefs[s].haslog
    <3> SUFFICES ASSUME NEW s \in Services
                 PROVE svdefs'[s].in = svdefs[s].in /\ svdefs'[s].haslog = svdefs[s].haslog
      OBVIOUS
    <3>1. svdefs[s] \in Svdef /\ svdefs'[s] = [svdefs[s] EXCEPT !.active = FALSE]
      BY <1>3 DEF ScanBegin, TypeOK
    <3> QED BY <3>1 DEF Svdef
  <2> QED BY <1>1, <1>3, <2>1 DEF ScanBegin, TrackInv
<1>4. ASSUME NEW d \in Services, ScanKeep(d) PROVE TrackInv'
  <2>1. \A s \in Services : /\ svdefs'[s].in = svdefs[s].in
                             /\ svdefs'[s].haslog = svdefs[s].haslog
    <3>1. svdefs[d] \in Svdef
      BY DEF TypeOK
    <3>2. PICK c : svdefs' = [svdefs EXCEPT ![d] = [@ EXCEPT !.active = TRUE, !.cycle = c]]
      BY <1>4 DEF ScanKeep
    <3>3. /\ [svdefs[d] EXCEPT !.active = TRUE, !.cycle = c].in = svdefs[d].in
          /\ [svdefs[d] EXCEPT !.active = TRUE, !.cycle = c].haslog = svdefs[d].haslog
      BY <3>1 DEF Svdef
    <3> QED BY <3>2, <3>3 DEF TypeOK
  <2> QED BY <1>1, <1>4, <2>1 DEF ScanKeep, Entry
<1>5. ASSUME NEW d \in Services, NEW fl \in Flavors[d], ScanIgnore(d) \/ ScanFail(d, fl)
      PROVE TrackInv'
  BY <1>1, <1>5 DEF ScanIgnore, ScanFail, Entry
<1>6. ASSUME NEW d \in Services, ScanIgnore(d) PROVE TrackInv'
  BY <1>1, <1>6 DEF ScanIgnore, Entry
<1>7. ASSUME NEW d \in Services, NEW fl \in Flavors[d], ScanActivate(d, fl)
      PROVE TrackInv'
  <2>1. runs = {} /\ ~svdefs[d].in /\ pc = "scanning" /\ UNCHANGED <<pc, proc>>
    BY <1>7 DEF ScanActivate, Entry
  <2>2. subsv[Main(d)].pid = None /\ subsv[Log(d)].pid = None
    BY <2>1, SlotCases DEF TrackInv, ChildTracking
  <2>3. subsv'[Main(d)].pid = None /\ subsv'[Log(d)].pid = None
    <3>1. PICK a, b : subsv' = [subsv EXCEPT ![Log(d)] = NewSubsv,
                                             ![Main(d)] = [NewSubsv EXCEPT !.wantdown = a, !.isonce = b]]
      BY <1>7 DEF ScanActivate
    <3> QED BY <3>1, SlotCases DEF TypeOK, NewSubsv
  <2>4. \A sl \in Slots : subsv'[sl].pid = subsv[sl].pid
    <3> SUFFICES ASSUME NEW sl \in Slots, sl # Main(d), sl # Log(d)
                 PROVE subsv'[sl] = subsv[sl]
      BY <2>2, <2>3
    <3> QED BY <1>7 DEF ScanActivate, TypeOK
  <2>5. svdefs'[d].in /\ \A s \in Services \ {d} : svdefs'[s] = svdefs[s]
    <3>1. PICK i \in FreeFds, j \in FdNums \cup {0}, k \in FdNums \cup {0} :
            /\ fds' = [n \in FdNums |-> CASE n = i -> <<"dir", d>>
                                          [] n = j -> <<"rd", d>>
                                          [] n = k -> <<"wr", d>>
                                          [] OTHER -> fds[n]]
            /\ svdefs' = [svdefs EXCEPT ![d] =
                            [NoSvdef EXCEPT !.in = TRUE, !.active = TRUE,
                               !.haslog = fl.haslog, !.fd_dir = i, !.lp0 = j, !.lp1 = k]]
      BY <1>7 DEF ScanActivate
    <3> QED BY <3>1 DEF TypeOK, NoSvdef
  <2>6. ChildTracking'
    <3>1. Unreaped' = Unreaped
      BY <2>1 DEF Unreaped
    <3>2. ASSUME NEW p \in Unreaped
          PROVE proc[p].owner \in Slots /\ subsv'[proc[p].owner].pid = p
                /\ svdefs'[proc[p].owner[1]].in
      <4>1. proc[p] \in Proc /\ proc[p].owner # None
        BY DEF Unreaped, TypeOK
      <4>2. proc[p].owner \in Slots
        BY <4>1 DEF Proc
      <4> QED BY <4>2, <2>4, <2>5, SlotCases DEF TrackInv, ChildTracking
    <3> QED BY <3>1, <3>2, <2>1, <2>4 DEF TrackInv, ChildTracking
  <2>7. (\A s \in Services : ~svdefs[s].haslog => subsv[Log(s)].pid = None)'
    BY <2>3, <2>4, <2>5, SlotCases DEF TrackInv
  <2>8. \A r \in runs' : svdefs'[r[1][1]].in
    BY <1>7, <2>5 DEF ScanActivate, Main, Log
  <2> QED BY <2>1, <2>6, <2>7, <2>8 DEF TrackInv
<1>8. CASE ScanEnd
  <2> DEFINE Gone == {s \in InTable : ~svdefs[s].active}
             New == {s \in Gone : ~svdefs[s].cull}
             svd == [s \in Services |->
                       IF s \in Gone THEN [WantcullSvdefs(New)[s] EXCEPT
                                             !.cycle = IF s \in New THEN @ ELSE FALSE]
                                     ELSE svdefs[s]]
             sub == WantcullSubsv(New)
             got_cull == \/ \E s \in New : AlreadyDown(s)
                         \/ \E s \in Gone \ New : CullOk(svdefs, subsv, s)
             G == Culled(got_cull, svd)
  <2>1. svdefs' = Removed(svd, G) /\ subsv' = RemovedSubsv(sub, G)
    BY <1>8 DEF ScanEnd
  <2>2. sub \in [Slots -> Subsv] /\ \A sl \in Slots : sub[sl].pid = subsv[sl].pid
    BY WantcullType DEF TypeOK
  <2>3. ASSUME NEW s \in Services
        PROVE svd[s] \in Svdef /\ svd[s].in = svdefs[s].in /\ svd[s].haslog = svdefs[s].haslog
    <3> DEFINE w == WantcullSvdefs(New)[s]
    <3>1. /\ w \in Svdef /\ svdefs[s] \in Svdef
          /\ w.in = svdefs[s].in /\ w.haslog = svdefs[s].haslog
      BY WantcullType DEF TypeOK
    <3>2. PICK c \in BOOLEAN : svd[s] = [w EXCEPT !.cycle = c] \/ svd[s] = svdefs[s]
      <4> HIDE DEF New, Gone
      <4>1. w.cycle \in BOOLEAN
        BY <3>1 DEF Svdef
      <4> QED BY <4>1
    <3> HIDE DEF w, svd
    <3> QED BY <3>1, <3>2 DEF Svdef
  <2>4. svd \in [Services -> Svdef]
    BY <2>3
  <2>5. \A p \in Pids : proc'[p].st = proc[p].st /\ proc'[p].owner = proc[p].owner
    BY <1>8, KillType DEF ScanEnd, TypeOK
  <2>6. pc' # "done" /\ runs = {} /\ runs' = {}
    BY <1>8 DEF ScanEnd, AfterScan
  <2>7. /\ \A sl \in Slots : sl[1] \in G => subsv[sl].pid = None
        /\ \A sl \in Slots : subsv'[sl].pid = subsv[sl].pid
        /\ \A s \in Services : /\ svdefs'[s].in <=> svdefs[s].in /\ s \notin G
                               /\ svdefs'[s].haslog <=> svdefs[s].haslog /\ s \notin G
    <3> HIDE DEF svd, sub, got_cull
    <3> QED BY <2>1, <2>2, <2>3, <2>4, CulledFacts
  <2> HIDE DEF G
  <2> QED BY <2>5, <2>6, <2>7, TrackRemoves
<1> QED BY <1>2, <1>3, <1>4, <1>5, <1>6, <1>7, <1>8 DEF ScanStep

LEMMA TrackOther ==
  TypeOK /\ TypeOK' /\ TrackInv /\ (FailStep \/ ClientStep \/ ChildStep \/ AdminStep)
    => TrackInv'
<1> SUFFICES ASSUME TypeOK, TypeOK', TrackInv,
                    FailStep \/ ClientStep \/ ChildStep \/ AdminStep
             PROVE TrackInv'
  OBVIOUS
<1>1. ASSUME UNCHANGED <<svdefs, subsv, proc, runs>>, runs = {} \/ UNCHANGED pc,
             pc' = "done" => pc = "done" \/ InTable = {}
      PROVE TrackInv'
  BY <1>1, TrackQuiet
<1>2. CASE FailDie \/ FailDone \/ LoopEnd \/ AdminStep \/ \E r \in Requests : ControlRefused(r)
  BY <1>1, <1>2 DEF FailDie, FailDone, LoopEnd, LoopTop, AdminStep, Chmod, Signal,
                    Send, ControlRefused, TrackInv
<1>3. CASE FailRetry
  <2>1. \A r \in runs' : r[1] \in Slots /\ svdefs[r[1][1]].in
    BY <1>3 DEF FailRetry, Checkfail
  <2>2. UNCHANGED <<svdefs, subsv, proc>> /\ pc' = "retrying"
    BY <1>3 DEF FailRetry
  <2>3. ChildTracking'
    BY <2>2 DEF TrackInv, ChildTracking, Unreaped
  <2> QED BY <2>1, <2>2, <2>3 DEF TrackInv
<1>4. ASSUME NEW r \in Requests, Control(r) PROVE TrackInv'
  <2>1. pc = "clients" /\ runs = {} /\ svdefs[r[1][1]].in /\ UNCHANGED <<svdefs, pc>>
    BY <1>4 DEF Control, Ready
  <2>2. \A sl \in Slots : subsv'[sl].pid = subsv[sl].pid
    <3> SUFFICES ASSUME NEW sl \in Slots PROVE subsv'[sl].pid = subsv[sl].pid
      OBVIOUS
    <3>1. subsv[sl] \in Subsv
      BY DEF TypeOK
    <3> QED BY <1>4, <3>1, CtlSubsvType DEF Control
  <2>3. \A p \in Pids : proc'[p].st = proc[p].st /\ proc'[p].owner = proc[p].owner
    BY <1>4, KillType DEF Control, TypeOK
  <2>4. ChildTracking'
    <3> DEFINE G == {}
    <3>1. /\ \A sl \in Slots : sl[1] \in G => subsv[sl].pid = None
          /\ \A s \in Services : svdefs'[s].in <=> svdefs[s].in /\ s \notin G
      BY <2>1
    <3> HIDE DEF G
    <3> QED BY <2>2, <2>3, <3>1, TrackCull DEF TrackInv
  <2>5. \A sl \in CtlSlots(r[1], r[2]) : sl[1] = r[1][1]
    BY DEF CtlSlots, Log
  <2>6. \A x \in runs' : svdefs[x[1][1]].in
    BY <1>4, <2>1, <2>5 DEF Control
  <2> QED BY <2>1, <2>2, <2>4, <2>6, SlotCases DEF TrackInv
<1>5. CASE ChildStep
  <2>1. PICK p \in Pids, ws \in WStats : ChildExit(p, ws)
    BY <1>5 DEF ChildStep
  <2>2. \A q \in Pids : /\ proc'[q].st = "none" <=> proc[q].st = "none"
                         /\ proc'[q].owner = proc[q].owner
    <3>1. proc'[p] = [NoProc EXCEPT !.st = "zombie", !.owner = proc[p].owner,
                                    !.target = proc[p].target, !.wstat = ws]
      BY <2>1 DEF ChildExit, TypeOK
    <3>2. proc[p].st = "run" /\ \A q \in Pids \ {p} : proc'[q] = proc[q]
      BY <2>1 DEF ChildExit, TypeOK
    <3>3. proc'[p].st = "zombie" /\ proc'[p].owner = proc[p].owner
      BY <3>1 DEF NoProc
    <3> QED BY <3>2, <3>3
  <2> QED BY <2>1, <2>2, TrackQuiet DEF ChildExit
<1> QED BY <1>2, <1>3, <1>4, <1>5 DEF FailStep, ClientStep

LEMMA TrackCorrect == Spec => []TrackInv
<1>1. Init => TrackInv
  <2> SUFFICES ASSUME Init PROVE TrackInv
    OBVIOUS
  <2>1. Unreaped = {}
    <3> SUFFICES ASSUME NEW p \in Pids PROVE proc[p].owner = None
      BY DEF Unreaped
    <3>1. proc[p] = NoProc \/ proc[p] = [NoProc EXCEPT !.st = "run"]
      BY DEF Init
    <3> QED BY <3>1 DEF NoProc
  <2>2. \A sl \in Slots : subsv[sl].pid = None
    BY DEF Init, NewSubsv
  <2> QED BY <2>1, <2>2, SlotCases DEF Init, TrackInv, ChildTracking
<1>2. TypeOK /\ TypeOK' /\ TrackInv /\ [Next]_vars => TrackInv'
  <2>1. ASSUME TrackInv, UNCHANGED vars PROVE TrackInv'
    BY <2>1 DEF TrackInv, ChildTracking, Unreaped, InTable, vars
  <2> QED BY <2>1, TrackPoll, TrackWaitup, TrackScan, TrackRun, TrackOther
             DEF Next, MainLoop, Finished
<1> QED BY <1>1, <1>2, TypeCorrect, PTL DEF Spec

\* The pids perpd holds are exactly the children it has not reaped, each in
\* the slot it was forked for: through every interleaving of exits, control
\* commands, scans, culls and failures, a kill() never reaches a recycled pid
\* and no child is left behind by perpd_cull() (perpd.c:293-426,
\* perpd_svdef.c:335-484).
THEOREM ChildrenTracked == Spec => []ChildTracking
<1>1. TrackInv => ChildTracking
  BY DEF TrackInv
<1> QED BY <1>1, TrackCorrect, PTL

\* perpd exits 0 only when no service process is left (perpd.c:698-704).
THEOREM ExitsClean == Spec => []CleanExit
<1>1. TypeOK /\ TrackInv => CleanExit
  <2> SUFFICES ASSUME TypeOK, TrackInv, pc = "done", NEW p \in Unreaped PROVE FALSE
    BY DEF CleanExit
  <2>1. proc[p] \in Proc /\ proc[p].owner # None
    BY DEF Unreaped, TypeOK
  <2>2. proc[p].owner \in Slots
    BY <2>1 DEF Proc
  <2> QED BY <2>2, SlotCases DEF TrackInv, ChildTracking, InTable
<1> QED BY <1>1, TypeCorrect, TrackCorrect, PTL

-----------------------------------------------------------------------------
(* Every service that should be up is up or on its way. *)

\* Supervised for one slot.
SlotSupervised(sl) ==
  /\ svdefs[sl[1]].in
  /\ sl[2] = "main" \/ svdefs[sl[1]].haslog
  /\ subsv[sl].pid = None
  => \/ subsv[sl].wantdown
     \/ subsv[sl].failing
     \/ \E t \in Targets : <<sl, t>> \in runs

LEMMA SupervisedSlots ==
  ASSUME Supervised, NEW sl \in Slots
  PROVE  SlotSupervised(sl)
<1>1. PICK s \in Services, w \in Whiches : sl = <<s, w>>
  BY DEF Slots
<1> QED BY <1>1 DEF Supervised, SlotSupervised, InTable

\* Only 'o' and 'u' make a slot wanted, and no command clears failing.
LEMMA CtlKeeps ==
  ASSUME NEW sb \in Subsv, NEW c, c \notin {"o", "u"}
  PROVE  /\ CtlSubsv(sb, c).pid = sb.pid
         /\ sb.wantdown => CtlSubsv(sb, c).wantdown
         /\ sb.failing => CtlSubsv(sb, c).failing
BY DEF CtlSubsv, Subsv

\* A slot whose svdef and subsv a step leaves alone, or makes only more
\* wanted down, stays supervised if its outstanding fork stays outstanding.
LEMMA SlotKeeps ==
  ASSUME NEW sl \in Slots, SlotSupervised(sl),
         svdefs'[sl[1]].in =>
           /\ svdefs[sl[1]].in
           /\ svdefs'[sl[1]].haslog => svdefs[sl[1]].haslog
           /\ subsv'[sl].pid = subsv[sl].pid
           /\ subsv[sl].wantdown => subsv'[sl].wantdown
           /\ subsv[sl].failing => subsv'[sl].failing,
         \A t \in Targets : <<sl, t>> \in runs => <<sl, t>> \in runs'
  PROVE  SlotSupervised(sl)'
BY DEF SlotSupervised

\* perpd_svdef_wantcull() and perpd_cull() keep the slots of what stays.
LEMMA CullKeeps ==
  ASSUME TypeOK, NEW C, NEW G, subsv' = RemovedSubsv(WantcullSubsv(C), G),
         NEW sl \in Slots, sl[1] \notin G
  PROVE  /\ subsv'[sl].pid = subsv[sl].pid
         /\ subsv[sl].wantdown => subsv'[sl].wantdown
         /\ subsv[sl].failing => subsv'[sl].failing
<1>1. subsv[sl] \in Subsv
  BY DEF TypeOK
<1>2. \/ subsv'[sl] = subsv[sl]
      \/ \E b : subsv'[sl] = [subsv[sl] EXCEPT !.wantdown = TRUE, !.ispaused = b]
  BY DEF RemovedSubsv, WantcullSubsv
<1> QED BY <1>1, <1>2 DEF Subsv

LEMMA SupervisedStep ==
  ASSUME TypeOK, TypeOK', TrackInv, Supervised, [Next]_vars, NEW sl \in Slots
  PROVE  SlotSupervised(sl)'
<1> SlotSupervised(sl)
  BY SupervisedSlots
<1>1. CASE UNCHANGED <<svdefs, subsv, runs>>
  BY <1>1, SlotKeeps
<1>2. CASE PollStep
  <2>1. CASE Terminate
    <3> DEFINE svd == WantcullSvdefs(InTable)
               called == \E s \in InTable : AlreadyDown(s)
               G == Culled(called, svd)
    <3>1. svdefs' = Removed(svd, G) /\ subsv' = RemovedSubsv(WantcullSubsv(InTable), G)
          /\ UNCHANGED runs
      BY <2>1 DEF Terminate
    <3>2. sl[1] \in Services /\ svd[sl[1]].in = svdefs[sl[1]].in
          /\ svd[sl[1]].haslog = svdefs[sl[1]].haslog
      BY WantcullType, SlotCases DEF TypeOK
    <3> HIDE DEF svd, G
    <3>3. /\ svdefs'[sl[1]].in => svdefs[sl[1]].in /\ sl[1] \notin G
          /\ svdefs'[sl[1]].haslog => svdefs[sl[1]].haslog
      BY <3>1, <3>2 DEF Removed, NoSvdef
    <3> QED BY <3>1, <3>3, CullKeeps, SlotKeeps
  <2> QED BY <1>1, <1>2, <2>1 DEF PollStep, SigTrap, PollReturn, Drain, ChldCheck
<1>3. CASE WaitupStep
  <2>1. ASSUME NEW x \in Slots, NEW p \in Pids,
               WaitpidRerun(x, p) \/ WaitpidStopLog(x, p) \/ WaitpidDown(x, p)
        PROVE  SlotSupervised(sl)'
    <3>1. runs = {} /\ UNCHANGED svdefs
      BY <2>1 DEF WaitpidRerun, WaitpidStopLog, WaitpidDown, StaysDown, Waiting
    <3>2. CASE sl # x
      <4>1. subsv'[sl] = subsv[sl]
            \/ subsv'[sl] = [subsv[sl] EXCEPT !.ispaused = FALSE]
        BY <3>2, <2>1 DEF WaitpidRerun, WaitpidStopLog, WaitpidDown, TypeOK
      <4>2. subsv[sl] \in Subsv
        BY DEF TypeOK
      <4> QED BY <3>1, <4>1, <4>2, SlotKeeps DEF Subsv
    <3>3. CASE sl = x /\ WaitpidRerun(x, p)
      BY <3>3 DEF WaitpidRerun, RerunTarget, Targets, SlotSupervised
    <3>4. CASE sl = x /\ (WaitpidStopLog(x, p) \/ WaitpidDown(x, p))
      <4>1. Harvest(x, p).wantdown /\ Harvest(x, p) \in Subsv
        BY <3>4, HarvestType DEF WaitpidStopLog, WaitpidDown, StaysDown, TypeOK
      <4>2. CASE WaitpidDown(x, p)
        <5>1. subsv'[x] = Harvest(x, p)
          BY <4>2 DEF WaitpidDown, TypeOK
        <5> QED BY <5>1, <4>1, <3>4 DEF SlotSupervised
      <4>3. CASE WaitpidStopLog(x, p)
        <5>1. Log(x[1]) # x
          BY <4>3 DEF WaitpidStopLog, LogToStop, Log
        <5>2. subsv'[x] = Harvest(x, p)
          BY <4>3, <5>1 DEF WaitpidStopLog, TypeOK
        <5> QED BY <5>2, <4>1, <3>4 DEF SlotSupervised
      <4> QED BY <3>4, <4>2, <4>3
    <3> QED BY <2>1, <3>2, <3>3, <3>4
  <2>2. CASE WaitupDone
    <3> DEFINE G == Culled(wait.got_cull, svdefs)
    <3>1. svdefs' = Removed(svdefs, G) /\ subsv' = RemovedSubsv(subsv, G) /\ UNCHANGED runs
      BY <2>2 DEF WaitupDone
    <3> HIDE DEF G
    <3>2. /\ svdefs'[sl[1]].in => svdefs[sl[1]].in /\ sl[1] \notin G
          /\ svdefs'[sl[1]].haslog => svdefs[sl[1]].haslog
      BY <3>1, SlotCases DEF Removed, NoSvdef
    <3> QED BY <3>1, <3>2, SlotKeeps DEF RemovedSubsv
  <2> QED BY <1>1, <1>3, <2>1, <2>2 DEF WaitupStep, WaitpidStray
<1>4. CASE RunStep
  <2>1. PICK x \in Slots, target \in Targets :
          \/ SvdefRunRefused(x, target)
          \/ \E p \in Pids : SvdefRun(x, target, p)
          \/ SvdefRunForkFails(x, target)
    BY <1>4 DEF RunStep
  <2>2. /\ UNCHANGED svdefs
        /\ \A t \in Targets : <<sl, t>> \in runs /\ sl # x => <<sl, t>> \in runs'
    BY <2>1 DEF SvdefRunRefused, SvdefRun, SvdefRunForkFails, NextRun
  <2>3. CASE sl # x
    <3>1. subsv'[sl] = subsv[sl]
      BY <2>1, <2>3 DEF SvdefRunRefused, SvdefRun, SvdefRunForkFails, TypeOK
    <3> QED BY <2>2, <2>3, <3>1, SlotKeeps
  <2>4. CASE sl = x /\ SvdefRunRefused(x, target)
    BY <2>4 DEF SvdefRunRefused, RunRefused, SlotSupervised
  <2>5. CASE sl = x /\ \E p \in Pids : SvdefRun(x, target, p)
    <3>1. PICK p \in Pids : SvdefRun(x, target, p)
      BY <2>5
    <3>2. RunInit(x, target) \in Subsv
      BY RunInitType DEF TypeOK
    <3>3. [RunInit(x, target) EXCEPT !.pid = p].pid = p
      BY <3>2 DEF Subsv
    <3>4. subsv'[x].pid = p
      BY <3>1, <3>3 DEF SvdefRun, TypeOK
    <3> QED BY <3>4, <2>5, NoneAssumption DEF SlotSupervised
  <2>6. CASE sl = x /\ SvdefRunForkFails(x, target)
    <3>1. RunInit(x, target) \in Subsv
      BY RunInitType DEF TypeOK
    <3>2. ForkFailed(x, target).failing
      BY <3>1 DEF ForkFailed, Subsv
    <3>3. subsv'[x].failing
      BY <2>6, <3>2 DEF SvdefRunForkFails, TypeOK
    <3> QED BY <3>3, <2>6 DEF SlotSupervised
  <2> QED BY <2>1, <2>3, <2>4, <2>5, <2>6
<1>5. CASE ScanStep
  <2>1. CASE ScanBegin
    <3>1. svdefs[sl[1]] \in Svdef /\ svdefs'[sl[1]] = [svdefs[sl[1]] EXCEPT !.active = FALSE]
      BY <2>1, SlotCases DEF ScanBegin, TypeOK
    <3>2. svdefs'[sl[1]].in = svdefs[sl[1]].in /\ svdefs'[sl[1]].haslog = svdefs[sl[1]].haslog
      BY <3>1 DEF Svdef
    <3> QED BY <2>1, <3>2, SlotKeeps DEF ScanBegin
  <2>2. ASSUME NEW d \in Services, ScanKeep(d) PROVE SlotSupervised(sl)'
    <3>1. svdefs[d] \in Svdef /\ svdefs[sl[1]] \in Svdef
      BY SlotCases DEF TypeOK
    <3>2. PICK c : svdefs' = [svdefs EXCEPT ![d] = [@ EXCEPT !.active = TRUE, !.cycle = c]]
      BY <2>2 DEF ScanKeep
    <3>3. /\ [svdefs[d] EXCEPT !.active = TRUE, !.cycle = c].in = svdefs[d].in
          /\ [svdefs[d] EXCEPT !.active = TRUE, !.cycle = c].haslog = svdefs[d].haslog
      BY <3>1 DEF Svdef
    <3>4. svdefs'[sl[1]].in = svdefs[sl[1]].in /\ svdefs'[sl[1]].haslog = svdefs[sl[1]].haslog
      BY <3>2, <3>3, SlotCases DEF TypeOK
    <3> QED BY <2>2, <3>4, SlotKeeps DEF ScanKeep
  <2>3. ASSUME NEW d \in Services, NEW fl \in Flavors[d], ScanActivate(d, fl)
        PROVE  SlotSupervised(sl)'
    <3>1. PICK i \in FreeFds, j \in FdNums \cup {0}, k \in FdNums \cup {0} :
            /\ fds' = [n \in FdNums |-> CASE n = i -> <<"dir", d>>
                                          [] n = j -> <<"rd", d>>
                                          [] n = k -> <<"wr", d>>
                                          [] OTHER -> fds[n]]
            /\ svdefs' = [svdefs EXCEPT ![d] =
                            [NoSvdef EXCEPT !.in = TRUE, !.active = TRUE,
                               !.haslog = fl.haslog, !.fd_dir = i, !.lp0 = j, !.lp1 = k]]
      BY <2>3 DEF ScanActivate
    <3>2. svdefs'[d].haslog = fl.haslog /\ \A s \in Services \ {d} : svdefs'[s] = svdefs[s]
      BY <3>1 DEF TypeOK, NoSvdef
    <3>3. CASE sl[1] # d
      <4>1. subsv'[sl] = subsv[sl] /\ runs = {}
        BY <3>3, <2>3 DEF ScanActivate, Entry, Main, Log, TypeOK
      <4> QED BY <4>1, <3>2, <3>3, SlotCases, SlotKeeps
    <3>4. CASE sl = Log(d)
      BY <3>4, <3>2, <2>3, SlotCases DEF ScanActivate, SlotSupervised, Targets, Log
    <3>5. CASE sl = Main(d)
      <4>1. CASE fl.down
        <5>1. subsv'[sl] = [NewSubsv EXCEPT !.wantdown = fl.down, !.isonce = FALSE]
          BY <3>5, <4>1, <2>3, SlotCases DEF ScanActivate, TypeOK
        <5>2. subsv'[sl].wantdown
          BY <5>1, <4>1 DEF NewSubsv
        <5> QED BY <5>2 DEF SlotSupervised
      <4>2. CASE ~fl.down
        BY <4>2, <3>5, <2>3 DEF ScanActivate, SlotSupervised, Targets
      <4> QED BY <4>1, <4>2
    <3> QED BY <3>3, <3>4, <3>5, SlotCases
  <2>4. CASE ScanEnd
    <3> DEFINE Gone == {s \in InTable : ~svdefs[s].active}
               New == {s \in Gone : ~svdefs[s].cull}
               svd == [s \in Services |->
                         IF s \in Gone THEN [WantcullSvdefs(New)[s] EXCEPT
                                               !.cycle = IF s \in New THEN @ ELSE FALSE]
                                       ELSE svdefs[s]]
               got_cull == \/ \E s \in New : AlreadyDown(s)
                           \/ \E s \in Gone \ New : CullOk(svdefs, subsv, s)
               G == Culled(got_cull, svd)
               s1 == sl[1]
               w == WantcullSvdefs(New)[s1]
    <3>1. svdefs' = Removed(svd, G) /\ subsv' = RemovedSubsv(WantcullSubsv(New), G)
          /\ UNCHANGED runs
      BY <2>4 DEF ScanEnd
    <3>2. s1 \in Services
      BY SlotCases
    <3>3. /\ w \in Svdef /\ svdefs[s1] \in Svdef
          /\ w.in = svdefs[s1].in /\ w.haslog = svdefs[s1].haslog
      BY <3>2, WantcullType DEF TypeOK
    <3>4. \E c : svd[s1] = [w EXCEPT !.cycle = c] \/ svd[s1] = svdefs[s1]
      <4> HIDE DEF New, Gone
      <4> QED BY <3>2
    <3> HIDE DEF svd, G, w
    <3>5. svd[s1].in = svdefs[s1].in /\ svd[s1].haslog = svdefs[s1].haslog
      BY <3>3, <3>4 DEF Svdef
    <3>6. /\ svdefs'[s1].in => svdefs[s1].in /\ s1 \notin G
          /\ svdefs'[s1].haslog => svdefs[s1].haslog
      BY <3>1, <3>2, <3>5 DEF Removed, NoSvdef
    <3> HIDE DEF New
    <3> QED BY <3>1, <3>6, CullKeeps, SlotKeeps
  <2> QED BY <1>1, <1>5, <2>1, <2>2, <2>3, <2>4
             DEF ScanStep, ScanOpendirFails, ScanReaddirFails, ScanIgnore, ScanFail
<1>6. CASE FailStep
  <2>1. CASE FailRetry
    <3>1. UNCHANGED <<svdefs, subsv>> /\ runs = {}
      BY <2>1 DEF FailRetry, TrackInv
    <3> QED BY <3>1, SlotKeeps
  <2> QED BY <1>1, <1>6, <2>1 DEF FailStep, FailDie, FailDone
<1>7. CASE ClientStep
  <2>1. ASSUME NEW r \in Requests, Control(r) PROVE SlotSupervised(sl)'
    <3> DEFINE S == CtlSlots(r[1], r[2])
               c == CtlCmd(r[2])
    <3>1. UNCHANGED svdefs /\ runs = {}
          /\ subsv'[sl] = IF sl \in S THEN CtlSubsv(subsv[sl], c) ELSE subsv[sl]
      BY <2>1 DEF Control, Ready
    <3>2. subsv[sl] \in Subsv
      BY DEF TypeOK
    <3>3. CASE sl \in S /\ c \in {"o", "u"}
      <4>1. subsv'[sl].pid = subsv[sl].pid
        BY <3>1, <3>2, <3>3, CtlSubsvType
      <4>2. subsv[sl].pid = None => <<sl, "start">> \in runs'
        BY <2>1, <3>3 DEF Control
      <4> QED BY <3>1, <4>1, <4>2 DEF SlotSupervised, Targets
    <3>4. CASE sl \notin S \/ c \notin {"o", "u"}
      <4> HIDE DEF S, c
      <4>1. /\ subsv'[sl].pid = subsv[sl].pid
            /\ subsv[sl].wantdown => subsv'[sl].wantdown
            /\ subsv[sl].failing => subsv'[sl].failing
        BY <3>1, <3>2, <3>4, CtlKeeps
      <4> QED BY <3>1, <4>1, SlotKeeps
    <3> QED BY <3>3, <3>4
  <2> QED BY <1>1, <1>7, <2>1 DEF ClientStep, LoopEnd, ControlRefused
<1>8. CASE ChildStep \/ AdminStep
  BY <1>1, <1>8 DEF ChildStep, AdminStep, ChildExit, Chmod, Signal, Send
<1>9. CASE Finished \/ UNCHANGED vars
  BY <1>1, <1>9 DEF Finished, vars
<1> QED BY <1>2, <1>3, <1>4, <1>5, <1>6, <1>7, <1>8, <1>9 DEF Next, MainLoop

\* A slot without a process is wanted down, or its fork() failed and it is
\* marked for a retry, or the call that forks is under way: whatever dies, is
\* commanded, scanned or fails, perpd drops no service that should be up
\* (perpd.c:355-412, perpd_svdef.c:140-214, perpd_conn.c:154-206).
THEOREM AlwaysSupervised == Spec => []Supervised
<1>1. Init => Supervised
  BY DEF Init, Supervised, InTable, NoSvdef
<1>2. TypeOK /\ TypeOK' /\ TrackInv /\ Supervised /\ [Next]_vars => Supervised'
  <2> SUFFICES ASSUME TypeOK, TypeOK', TrackInv, Supervised, [Next]_vars PROVE Supervised'
    OBVIOUS
  <2>1. \A sl \in Slots : SlotSupervised(sl)'
    BY SupervisedStep
  <2> QED BY <2>1 DEF Supervised, SlotSupervised, InTable, Slots
<1> QED BY <1>1, <1>2, TypeCorrect, TrackCorrect, PTL DEF Spec
=============================================================================
