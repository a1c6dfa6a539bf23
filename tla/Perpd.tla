------------------------------- MODULE Perpd -------------------------------
(***************************************************************************)
(* The perpd supervisor: the service table svdefs[], the main loop of      *)
(* perpd.c, the operations of perpd_svdef.c on one service and the control *)
(* commands of perpd_conn.c, together with the processes perpd forks, the  *)
(* signals it gets, its descriptor table and the administrator.            *)
(*                                                                         *)
(* perpd is one thread.  Signals are blocked except around poll(), so each *)
(* phase of a loop iteration is one or a few steps (pc), and only the      *)
(* environment (children that exit, the administrator, clients) moves      *)
(* between them.  Every fork() is a step of its own: a handler puts its    *)
(* calls of perpd_svdef_run() into "runs" and perpd does nothing else      *)
(* until they have been made.                                              *)
(***************************************************************************)
EXTENDS Naturals, FiniteSets

CONSTANTS
  Services,    \* service directories, identified as the code does by dev/ino
  Pids,        \* process ids
  None,        \* no process / no owner
  Inherited,   \* children perpd already has when it is started by exec()
  Flavors,     \* service -> what its directory may hold: [haslog, down, once]
  Boot,        \* sets of services that may be sticky when perpd starts
  Cmds,        \* control commands clients send
  WStats,      \* wait statuses
  Exit0,       \* the wait status 0, exit code 0
  PerpMax,     \* PERP_MAX, slots in svdefs[]
  NFD,         \* descriptors perpd may hold for services and scans
  Autoscan,    \* started with -a secs, secs > 0
  Budgets      \* how often the environment may do each of Events

Events == {"fork", "opendir", "readdir", "open", "cmd", "hup", "term", "sticky"}
AllCmds == {"d", "u", "o", "p", "c", "t", "k", "h", "D", "U"}

ASSUME NoneAssumption == /\ None \notin Pids /\ None \notin Services
                         /\ None \notin Services \X {"main", "log"}
ASSUME InheritedAssumption == Inherited \subseteq Pids
ASSUME FlavorsAssumption ==
  Flavors \in [Services -> SUBSET [haslog : BOOLEAN, down : BOOLEAN, once : BOOLEAN]]
ASSUME BootAssumption == Boot \subseteq SUBSET Services
ASSUME CmdsAssumption == Cmds \subseteq AllCmds
ASSUME WStatsAssumption == Exit0 \in WStats
ASSUME SizeAssumption == PerpMax \in Nat /\ NFD \in Nat
ASSUME AutoscanAssumption == Autoscan \in BOOLEAN
ASSUME BudgetsAssumption == Budgets \subseteq [Events -> Nat]

VARIABLES
  sticky,      \* service directories present with the sticky bit set
  svdefs,      \* service -> its svdef (in: it is in svdefs[0..nservices-1])
  subsv,       \* slot -> its struct subsv
  proc,        \* pid -> the process: perpd's children, running or zombie
  fds,         \* perpd's descriptor table: number -> open object
  sigs,        \* signals sent to perpd and still pending
  flags,       \* flag_chld, flag_hup, flag_term, flag_failing, flag_terminating
  ping,        \* the selfpipe holds at least one byte
  pc,          \* phase of the main loop
  runs,        \* calls of perpd_svdef_run() still to make in this phase
  poll,        \* what the last poll() reported: selfpipe, clients, autoscan due
  scan,        \* perpd_scan(): entries left to read, got_fail
  wait,        \* perpd_waitup(): got_cull, got_cycle, and the governor
  reqs,        \* requests clients have sent and perpd has not executed
  budget       \* what is left of it

vars == <<sticky, svdefs, subsv, proc, fds, sigs, flags, ping, pc, runs,
          poll, scan, wait, reqs, budget>>

(***************************************************************************)
(* Data.                                                                   *)
(***************************************************************************)
Whiches == {"main", "log"}
Slots == Services \X Whiches
Main(s) == <<s, "main">>
Log(s) == <<s, "log">>
Targets == {"start", "reset"}
Requests == Slots \X Cmds
FdNums == 1 .. NFD
Sigs == {"CHLD", "HUP", "TERM"}

\* What a descriptor number stands for.  "leak" is an end of a log pipe whose
\* service is no longer in the table.
Objects == {"free", "scandir", "leak", "dir", "rd", "wr"}
           \X (Services \cup {None})
Free == <<"free", None>>
ScanDir == <<"scandir", None>>
Leak == <<"leak", None>>
PipeEnds(s) == {<<"rd", s>>, <<"wr", s>>}

Svdef == [in : BOOLEAN, active : BOOLEAN, haslog : BOOLEAN, cull : BOOLEAN,
          cycle : BOOLEAN, fd_dir : 0 .. NFD, lp0 : 0 .. NFD, lp1 : 0 .. NFD]
NoSvdef == [in |-> FALSE, active |-> FALSE, haslog |-> FALSE, cull |-> FALSE,
            cycle |-> FALSE, fd_dir |-> 0, lp0 |-> 0, lp1 |-> 0]

Subsv == [pid : Pids \cup {None}, isreset : BOOLEAN, isonce : BOOLEAN,
          ispaused : BOOLEAN, wantdown : BOOLEAN, failing : BOOLEAN,
          wstat : WStats]
NewSubsv == [pid |-> None, isreset |-> FALSE, isonce |-> FALSE,
             ispaused |-> FALSE, wantdown |-> FALSE, failing |-> FALSE,
             wstat |-> Exit0]

\* A process: the slot and the target it was forked for, the status its
\* runscript was given (reset), whether its directory and log pipe are the
\* right ones, and the signals it got.
Proc == [st : {"none", "run", "zombie"}, owner : Slots \cup {None},
         target : Targets, arg : WStats, wired : {"ok", "dies", "wrong"},
         stopped : BOOLEAN, termed : BOOLEAN, killed : BOOLEAN,
         wstat : WStats]
NoProc == [st |-> "none", owner |-> None, target |-> "start", arg |-> Exit0,
           wired |-> "ok", stopped |-> FALSE, termed |-> FALSE,
           killed |-> FALSE, wstat |-> Exit0]

Flags == [chld : BOOLEAN, hup : BOOLEAN, term : BOOLEAN, failing : BOOLEAN,
          terminating : BOOLEAN]
Phases == {"poll", "ready", "term", "chld", "waitup", "scan", "scanning",
           "fail", "retrying", "clients", "done", "dead"}

InTable == {s \in Services : svdefs[s].in}
FreePids == {p \in Pids : proc[p].st = "none"}
Zombies == {p \in Pids : proc[p].st = "zombie"}
FreeFds == {i \in FdNums : fds[i] = Free}
Lowest(i, S) == i \in S /\ \A j \in S : i <= j

\* One occurrence of an environment event whose number is bounded.
Spend(e) == /\ budget[e] > 0
            /\ budget' = [budget EXCEPT ![e] = @ - 1]

TypeOK ==
  /\ sticky \subseteq Services
  /\ svdefs \in [Services -> Svdef]
  /\ subsv \in [Slots -> Subsv]
  /\ proc \in [Pids -> Proc]
  /\ fds \in [FdNums -> Objects]
  /\ sigs \subseteq Sigs
  /\ flags \in Flags
  /\ ping \in BOOLEAN
  /\ pc \in Phases
  /\ runs \subseteq Slots \X Targets
  /\ poll \in [ping : BOOLEAN, ready : SUBSET Requests, due : BOOLEAN]
  /\ scan \in [left : SUBSET Services, got_fail : BOOLEAN]
  /\ wait \in [got_cull : BOOLEAN, got_cycle : BOOLEAN,
               started : SUBSET Slots, held : SUBSET Slots]
  /\ reqs \subseteq Requests
  /\ budget \in [Events -> Nat]

NoPoll == [ping |-> FALSE, ready |-> {}, due |-> FALSE]
NoScan == [left |-> {}, got_fail |-> FALSE]
NoWait == [got_cull |-> FALSE, got_cycle |-> FALSE, started |-> {}, held |-> {}]

\* main() up to perpd_mainloop(), whose first act is perpd_trigger_scan().
Init ==
  /\ sticky \in Boot
  /\ svdefs = [s \in Services |-> NoSvdef]
  /\ subsv = [sl \in Slots |-> NewSubsv]
  /\ proc = [p \in Pids |-> IF p \in Inherited
                              THEN [NoProc EXCEPT !.st = "run"] ELSE NoProc]
  /\ fds = [i \in FdNums |-> Free]
  /\ sigs = {}
  /\ flags = [chld |-> FALSE, hup |-> TRUE, term |-> FALSE, failing |-> FALSE,
              terminating |-> FALSE]
  /\ ping = TRUE
  /\ pc = "poll"
  /\ runs = {}
  /\ poll = NoPoll
  /\ scan = NoScan
  /\ wait = NoWait
  /\ reqs = {}
  /\ budget \in Budgets

(***************************************************************************)
(* Signals, kill() and close() as the handlers below use them.             *)
(***************************************************************************)

\* kill() on the pids of K, a set of pid-signal pairs.  A zombie takes no
\* notice.  TERM and KILL only mark the process; it exits in ChildExit.
Kill(K) ==
  [p \in Pids |->
     IF proc[p].st = "run"
       THEN [proc[p] EXCEPT
               !.termed = IF <<p, "TERM">> \in K THEN TRUE ELSE @,
               !.killed = IF <<p, "KILL">> \in K THEN TRUE ELSE @,
               !.stopped = IF <<p, "CONT">> \in K THEN FALSE
                           ELSE IF <<p, "STOP">> \in K THEN TRUE ELSE @]
       ELSE proc[p]]

\* close() on the numbers of N, whatever they now stand for.  The log pipes
\* of the services in G, which leave the table, stay open if not in N.
Close(N, G) ==
  [i \in FdNums |->
     IF i \in N THEN Free
     ELSE IF \E s \in G : fds[i] \in PipeEnds(s) THEN Leak ELSE fds[i]]

\* perpd_trigger_scan() and perpd_trigger_fail(): the flag, then the selfpipe.
TriggerScan_never(cond) == UNCHANGED <<flags, ping>>
TriggerScan(cond) ==
  LET go == cond /\ ~flags.terminating
  IN /\ flags' = [flags EXCEPT !.hup = IF go THEN TRUE ELSE @]
     /\ ping' = IF go THEN TRUE ELSE ping

TriggerFail_without_ping ==
  /\ flags' = [flags EXCEPT !.failing = @ \/ ~flags.terminating]
  /\ UNCHANGED ping
TriggerFail ==
  /\ flags' = [flags EXCEPT !.failing = IF flags.terminating THEN @ ELSE TRUE]
  /\ ping' = IF flags.terminating THEN ping ELSE TRUE

(***************************************************************************)
(* perpd_svdef_wantcull(), perpd_svdef_cullok() and perpd_cull() on sets   *)
(* of services.                                                            *)
(***************************************************************************)

\* The slot wantcull() signals: main while it has a process, then the log.
Signalled_both(s) ==
  {sl \in {Main(s), Log(s)} : subsv[sl].pid # None}
Signalled(s) ==
  IF subsv[Main(s)].pid # None THEN {Main(s)}
  ELSE IF svdefs[s].haslog /\ subsv[Log(s)].pid # None THEN {Log(s)} ELSE {}

\* wantcull() returns 1: nothing is running.
AlreadyDown_never(s) == FALSE
AlreadyDown(s) == Signalled(s) = {}

WantcullKills_no_cont(C) ==
  {<<subsv[sl].pid, "TERM">> :
     sl \in {x \in UNION {Signalled(s) : s \in C} : ~subsv[x].isreset}}
WantcullKills(C) ==
  UNION {{<<subsv[sl].pid, sig>> :
            sig \in IF subsv[sl].isreset THEN {"CONT"} ELSE {"TERM", "CONT"}} :
         sl \in UNION {Signalled(s) : s \in C}}

WantcullCloses_dir(C) ==
  UNION {{svdefs[s].lp1, svdefs[s].lp0, svdefs[s].fd_dir} :
         s \in {t \in C : Log(t) \in Signalled(t) /\ ~subsv[Log(t)].isreset}}
WantcullCloses(C) ==
  UNION {{svdefs[s].lp1, svdefs[s].lp0} :
         s \in {t \in C : Log(t) \in Signalled(t) /\ ~subsv[Log(t)].isreset}}

WantcullSvdefs(C) ==
  [s \in Services |->
     IF s \in C THEN [svdefs[s] EXCEPT !.cull = TRUE] ELSE svdefs[s]]

WantcullSubsv(C) ==
  [sl \in Slots |->
     IF sl[1] \in C /\ (sl[2] = "main" \/ svdefs[sl[1]].haslog)
       THEN [subsv[sl] EXCEPT !.wantdown = TRUE,
                              !.ispaused = IF sl \in Signalled(sl[1]) THEN FALSE ELSE @]
       ELSE subsv[sl]]

\* perpd_svdef_cullok()
CullOk_log_only(svd, sub, s) ==
  /\ svd[s].in /\ svd[s].cull
  /\ svd[s].haslog => sub[Log(s)].pid = None
CullOk(svd, sub, s) ==
  /\ svd[s].in /\ svd[s].cull
  /\ sub[Main(s)].pid = None
  /\ svd[s].haslog => sub[Log(s)].pid = None

\* The services perpd_cull() removes, if it is called.
Culled(called, svd) == {s \in Services : called /\ CullOk(svd, subsv, s)}

Removed(svd, G) == [s \in Services |-> IF s \in G THEN NoSvdef ELSE svd[s]]
RemovedSubsv(sub, G) == [sl \in Slots |-> IF sl[1] \in G THEN NewSubsv ELSE sub[sl]]
FdDirs(G) == {svdefs[s].fd_dir : s \in G}

(***************************************************************************)
(* The phases after perpd_waitup(), and the top of the loop.               *)
(***************************************************************************)
AfterScan(fl) == IF fl.failing THEN "fail" ELSE "clients"
AfterWaitup(fl) == IF fl.hup \/ poll.due THEN "scan" ELSE AfterScan(fl)
LoopTop_early == IF flags.terminating THEN "done" ELSE "poll"
LoopTop == IF flags.terminating /\ InTable = {} THEN "done" ELSE "poll"

(***************************************************************************)
(* poll() and the signal handler.                                          *)
(***************************************************************************)

\* sig_trap(): runs while signals are unblocked, which they still are between
\* the return of poll() and sigset_block().
SigTrap(sig) ==
  /\ pc \in {"poll", "ready"} /\ sig \in sigs
  /\ sigs' = sigs \ {sig}
  /\ flags' = [flags EXCEPT
                 !.chld = IF sig = "CHLD" THEN TRUE ELSE @,
                 !.hup  = IF flags.terminating THEN FALSE
                          ELSE IF sig = "HUP" THEN TRUE ELSE @,
                 !.term = IF flags.terminating THEN FALSE
                          ELSE IF sig = "TERM" THEN TRUE ELSE @]
  /\ ping' = TRUE
  /\ UNCHANGED <<sticky, svdefs, subsv, proc, fds, pc, runs, poll, scan, wait,
                 reqs, budget>>

\* poll() returns for the selfpipe, for clients, or at the autoscan interval
\* (poll_remain < 100, which an early return may meet as well).  What was
\* pending when signals were unblocked has been delivered.
PollReturn ==
  /\ pc = "poll" /\ sigs = {}
  /\ LET clients == IF flags.terminating THEN {} ELSE reqs
         scanning == Autoscan /\ ~flags.terminating
     IN /\ ping \/ clients # {} \/ scanning
        /\ \E due \in (IF ~scanning THEN {FALSE}
                       ELSE IF ping \/ clients # {} THEN BOOLEAN ELSE {TRUE}) :
             poll' = [ping |-> ping, ready |-> clients, due |-> due]
  /\ pc' = "ready"
  /\ UNCHANGED <<sticky, svdefs, subsv, proc, fds, sigs, flags, ping, runs,
                 scan, wait, reqs, budget>>

\* Signals are blocked; the selfpipe is drained if poll() reported it.
Drain ==
  /\ pc = "ready"
  /\ ping' = IF poll.ping THEN FALSE ELSE ping
  /\ pc' = IF flags.term THEN "term" ELSE "chld"
  /\ UNCHANGED <<sticky, svdefs, subsv, proc, fds, sigs, flags, runs, poll,
                 scan, wait, reqs, budget>>

\* flag_term: stop scanning and listening, initiate the cull of everything.
Terminate ==
  /\ pc = "term"
  /\ LET svd == WantcullSvdefs(InTable)
         G == Culled(\E s \in InTable : AlreadyDown(s), svd)
     IN /\ svdefs' = Removed(svd, G)
        /\ subsv' = RemovedSubsv(WantcullSubsv(InTable), G)
        /\ proc' = Kill(WantcullKills(InTable))
        /\ fds' = Close(WantcullCloses(InTable) \cup FdDirs(G), G)
  /\ flags' = [flags EXCEPT !.terminating = TRUE, !.term = FALSE, !.hup = FALSE]
  /\ poll' = [poll EXCEPT !.ready = {}, !.due = FALSE]
  /\ reqs' = {}
  /\ pc' = "chld"
  /\ UNCHANGED <<sticky, sigs, ping, runs, scan, wait, budget>>

\* flag_chld: the test, and the entry to perpd_waitup().
ChldCheck ==
  /\ pc = "chld"
  /\ pc' = IF flags.chld THEN "waitup" ELSE AfterWaitup(flags)
  /\ flags' = [flags EXCEPT !.chld = FALSE]
  /\ UNCHANGED <<sticky, svdefs, subsv, proc, fds, sigs, ping, runs, poll,
                 scan, wait, reqs, budget>>

(***************************************************************************)
(* perpd_svdef_run(): fork a child for a slot and target.                  *)
(***************************************************************************)

\* The two insanity checks: no log, or still running.
RunRefused(sl) ==
  (sl[2] = "log" /\ ~svdefs[sl[1]].haslog) \/ subsv[sl].pid # None

\* Initialisation for the attempted target; wstat is cleared here.
RunInit(sl, target) ==
  [subsv[sl] EXCEPT !.isreset = (target = "reset"), !.pid = None,
                    !.wstat = Exit0, !.failing = FALSE]

\* The status passed on to "reset": read from the struct RunInit has written.
ResetArg(sl, target) == RunInit(sl, target).wstat

\* What the child finds behind the descriptors it uses: fd_dir for fchdir(),
\* and, with a log, logpipe[1] for main and logpipe[0] for a starting log.
ObjectAt(n) == IF n \in FdNums THEN fds[n] ELSE Free
Needs(sl, target) ==
  LET s == sl[1] IN
  {<<<<"dir", s>>, ObjectAt(svdefs[s].fd_dir)>>}
  \cup (IF svdefs[s].haslog /\ sl[2] = "main"
          THEN {<<<<"wr", s>>, ObjectAt(svdefs[s].lp1)>>} ELSE {})
  \cup (IF sl[2] = "log" /\ target = "start"
          THEN {<<<<"rd", s>>, ObjectAt(svdefs[s].lp0)>>} ELSE {})
Wiring(sl, target) ==
  IF \A n \in Needs(sl, target) : n[1] = n[2] THEN "ok"
  ELSE IF \E n \in Needs(sl, target) :
             n[2] = Free \/ (n[1][1] = "dir" /\ n[2][1] \notin {"dir", "scandir"})
    THEN "dies" ELSE "wrong"

\* In activate, checkfail and the meta command 'U' the log comes first.
NextRun(sl, target) ==
  /\ <<sl, target>> \in runs
  /\ sl[2] = "main" => \A r \in runs : r[1] # Log(sl[1])
  /\ runs' = runs \ {<<sl, target>>}

SvdefRunRefused(sl, target) ==
  /\ NextRun(sl, target) /\ RunRefused(sl)
  /\ UNCHANGED <<sticky, svdefs, subsv, proc, fds, sigs, flags, ping, pc, poll,
                 scan, wait, reqs, budget>>

\* The respawn governor makes the child of a second start within a second
\* sleep, signals blocked, until the second is over.  One call of
\* perpd_waitup() takes less: a slot started twice in it is held until its end.
Govern(sl, target) ==
  IF pc = "waitup" /\ target = "start"
    THEN [wait EXCEPT !.held = IF sl \in wait.started THEN @ \cup {sl} ELSE @,
                      !.started = @ \cup {sl}]
    ELSE wait

SvdefRun(sl, target, p) ==
  /\ NextRun(sl, target) /\ ~RunRefused(sl) /\ p \in FreePids
  /\ wait' = Govern(sl, target)
  /\ subsv' = [subsv EXCEPT ![sl] = [RunInit(sl, target) EXCEPT !.pid = p]]
  /\ proc' = [proc EXCEPT ![p] =
                [NoProc EXCEPT !.st = "run", !.owner = sl, !.target = target,
                               !.arg = ResetArg(sl, target),
                               !.wired = Wiring(sl, target)]]
  /\ UNCHANGED <<sticky, svdefs, fds, sigs, flags, ping, pc, poll, scan, reqs,
                 budget>>

\* fork() returned -1.
ForkFailed_pid(sl, target) == [RunInit(sl, target) EXCEPT !.pid = "-1", !.failing = TRUE]
ForkFailed(sl, target) == [RunInit(sl, target) EXCEPT !.failing = TRUE]

SvdefRunForkFails(sl, target) ==
  /\ NextRun(sl, target) /\ ~RunRefused(sl)
  /\ Spend("fork")
  /\ subsv' = [subsv EXCEPT ![sl] = ForkFailed(sl, target)]
  /\ TriggerFail
  /\ UNCHANGED <<sticky, svdefs, proc, fds, sigs, pc, poll, scan, wait, reqs>>

(***************************************************************************)
(* perpd_waitup(): one WaitpidX per child that waitpid() returns.          *)
(***************************************************************************)
Waiting(p) == pc = "waitup" /\ runs = {} /\ p \in Zombies
Reaped(p) == [proc EXCEPT ![p] = NoProc]

\* The slot found for the dead child, and its subsv once it is recorded.
Child(sl, p) == svdefs[sl[1]].in /\ subsv[sl].pid = p
Harvest(sl, p) ==
  [subsv[sl] EXCEPT !.pid = None, !.wstat = proc[p].wstat,
                    !.wantdown = IF subsv[sl].isonce THEN TRUE ELSE @]

\* "not my child"
WaitpidStray(p) ==
  /\ Waiting(p) /\ \A sl \in Slots : ~Child(sl, p)
  /\ proc' = Reaped(p)
  /\ UNCHANGED <<sticky, svdefs, subsv, fds, sigs, flags, ping, pc, runs, poll,
                 scan, wait, reqs, budget>>

\* It exited from "start": run "reset"; from "reset" and wanted: run "start".
Rerun_always(sb) == TRUE
Rerun(sb) == ~sb.isreset \/ ~sb.wantdown
RerunTarget_skips_reset(sb) == IF sb.isreset \/ ~sb.wantdown THEN "start" ELSE "reset"
RerunTarget(sb) == IF sb.isreset THEN "start" ELSE "reset"

WaitpidRerun(sl, p) ==
  LET sb == Harvest(sl, p)
  IN /\ Waiting(p) /\ Child(sl, p) /\ Rerun(sb)
     /\ subsv' = [subsv EXCEPT ![sl] = sb]
     /\ runs' = {<<sl, RerunTarget(sb)>>}
     /\ proc' = Reaped(p)
     /\ UNCHANGED <<sticky, svdefs, fds, sigs, flags, ping, pc, poll, scan,
                    wait, reqs, budget>>

\* Main exited from "reset" and stays down: is a log to be brought down now?
LogToStop(sl) ==
  /\ sl[2] = "main" /\ svdefs[sl[1]].haslog
  /\ subsv[Log(sl[1])].wantdown /\ subsv[Log(sl[1])].pid # None

StaysDown_unasked(sl, p) == Waiting(p) /\ Child(sl, p) /\ Harvest(sl, p).isreset
StaysDown(sl, p) ==
  /\ Waiting(p) /\ Child(sl, p)
  /\ Harvest(sl, p).isreset /\ Harvest(sl, p).wantdown

WaitpidStopLog(sl, p) ==
  LET lg == Log(sl[1])
      live == ~subsv[lg].isreset
      K == {<<subsv[lg].pid, sig>> : sig \in IF live THEN {"TERM", "CONT"} ELSE {"CONT"}}
  IN /\ StaysDown(sl, p) /\ LogToStop(sl)
     /\ subsv' = [subsv EXCEPT ![sl] = Harvest(sl, p), ![lg].ispaused = FALSE]
     /\ proc' = [Kill(K) EXCEPT ![p] = NoProc]
     /\ fds' = Close(IF live THEN {svdefs[sl[1]].lp1, svdefs[sl[1]].lp0} ELSE {}, {})
     /\ UNCHANGED <<sticky, svdefs, sigs, flags, ping, pc, runs, poll, scan,
                    wait, reqs, budget>>

\* Nothing more to run for this service: note a cull or a reactivation.
WaitpidDown(sl, p) ==
  LET s == sl[1]
      sub == [subsv EXCEPT ![sl] = Harvest(sl, p)]
  IN /\ StaysDown(sl, p) /\ ~LogToStop(sl)
     /\ subsv' = sub
     /\ proc' = Reaped(p)
     /\ wait' = [wait EXCEPT !.got_cull = IF CullOk(svdefs, sub, s) THEN TRUE ELSE @,
                             !.got_cycle = IF svdefs[s].cycle THEN TRUE ELSE @]
     /\ UNCHANGED <<sticky, svdefs, fds, sigs, flags, ping, pc, runs, poll,
                    scan, reqs, budget>>

\* waitpid() has no more: perpd_cull() and perpd_trigger_scan() if noted.
NoMoreChildren_after_one == TRUE
NoMoreChildren == Zombies = {}

WaitupDone ==
  /\ pc = "waitup" /\ runs = {} /\ NoMoreChildren
  /\ LET G == Culled(wait.got_cull, svdefs)
     IN /\ svdefs' = Removed(svdefs, G)
        /\ subsv' = RemovedSubsv(subsv, G)
        /\ fds' = Close(FdDirs(G), G)
  /\ TriggerScan(wait.got_cycle)
  /\ wait' = NoWait
  /\ pc' = AfterWaitup(flags')
  /\ UNCHANGED <<sticky, proc, sigs, runs, poll, scan, reqs, budget>>

(***************************************************************************)
(* perpd_scan(): one step per directory entry.                             *)
(***************************************************************************)

\* opendir() fails: no descriptor left, or another error.
ScanOpendirFails ==
  /\ pc = "scan"
  /\ \/ FreeFds = {} /\ UNCHANGED budget
     \/ Spend("opendir")
  /\ flags' = [flags EXCEPT !.hup = FALSE]
  /\ poll' = [poll EXCEPT !.due = FALSE]
  /\ pc' = AfterScan(flags)
  /\ UNCHANGED <<sticky, svdefs, subsv, proc, fds, sigs, ping, runs, scan, wait,
                 reqs>>

ScanBegin ==
  /\ pc = "scan"
  /\ \E i \in FreeFds : Lowest(i, FreeFds) /\ fds' = [fds EXCEPT ![i] = ScanDir]
  /\ flags' = [flags EXCEPT !.hup = FALSE]
  /\ poll' = [poll EXCEPT !.due = FALSE]
  /\ svdefs' = [s \in Services |-> [svdefs[s] EXCEPT !.active = FALSE]]
  /\ scan' = [left |-> Services, got_fail |-> FALSE]
  /\ pc' = "scanning"
  /\ UNCHANGED <<sticky, subsv, proc, sigs, ping, runs, wait, reqs, budget>>

Entry(d) == pc = "scanning" /\ runs = {} /\ d \in scan.left
Read(d, fail) == scan' = [left |-> scan.left \ {d},
                          got_fail |-> IF fail THEN TRUE ELSE scan.got_fail]

\* Not a service directory, or not sticky.
ScanIgnore(d) ==
  /\ Entry(d) /\ d \notin sticky
  /\ Read(d, FALSE)
  /\ UNCHANGED <<sticky, svdefs, subsv, proc, fds, sigs, flags, ping, pc, runs,
                 poll, wait, reqs, budget>>

\* perpd_lookup() finds it: perpd_svdef_keep(), and cycle if it is being culled.
ScanKeep(d) ==
  /\ Entry(d) /\ d \in sticky /\ svdefs[d].in
  /\ Read(d, FALSE)
  /\ svdefs' = [svdefs EXCEPT ![d].active = TRUE, ![d].cycle = IF svdefs[d].cull THEN TRUE ELSE @]
  /\ UNCHANGED <<sticky, subsv, proc, fds, sigs, flags, ping, pc, runs, poll,
                 wait, reqs, budget>>

TableFull == Cardinality(InTable) >= PerpMax

\* svdefs[] is full, or perpd_svdef_activate() fails in open() or pipe().
ScanFail(d, fl) ==
  /\ Entry(d) /\ d \in sticky /\ ~svdefs[d].in
  /\ \/ /\ \/ TableFull
           \/ Cardinality(FreeFds) < (IF fl.haslog THEN 3 ELSE 1)
        /\ UNCHANGED budget
     \/ Spend("open")
  /\ Read(d, TRUE)
  /\ UNCHANGED <<sticky, svdefs, subsv, proc, fds, sigs, flags, ping, pc, runs,
                 poll, wait, reqs>>

\* perpd_svdef_activate(): descriptors, flags, then the first start of the
\* log and, unless flag.down, of main.
ScanActivate(d, fl) ==
  /\ Entry(d) /\ d \in sticky /\ ~svdefs[d].in
  /\ ~TableFull
  /\ Read(d, FALSE)
  /\ \E i \in FreeFds, j, k \in FdNums \cup {0} :
       /\ Lowest(i, FreeFds)
       /\ IF fl.haslog THEN /\ Lowest(j, FreeFds \ {i})
                            /\ Lowest(k, FreeFds \ {i, j})
                       ELSE j = 0 /\ k = 0
       /\ fds' = [n \in FdNums |-> CASE n = i -> <<"dir", d>>
                                     [] n = j -> <<"rd", d>>
                                     [] n = k -> <<"wr", d>>
                                     [] OTHER -> fds[n]]
       /\ svdefs' = [svdefs EXCEPT ![d] =
                       [NoSvdef EXCEPT !.in = TRUE, !.active = TRUE,
                          !.haslog = fl.haslog, !.fd_dir = i, !.lp0 = j, !.lp1 = k]]
  /\ subsv' = [subsv EXCEPT
                 ![Log(d)] = NewSubsv,
                 ![Main(d)] = [NewSubsv EXCEPT !.wantdown = fl.down,
                                               !.isonce = IF fl.down THEN FALSE ELSE fl.once]]
  /\ runs' = (IF fl.haslog THEN {<<Log(d), "start">>} ELSE {})
             \cup (IF fl.down THEN {} ELSE {<<Main(d), "start">>})
  /\ UNCHANGED <<sticky, proc, sigs, flags, ping, pc, poll, wait, reqs, budget>>

Closedir == [i \in FdNums |-> IF fds[i] = ScanDir THEN Free ELSE fds[i]]

\* readdir() fails: rescan, "cull state is unstable".
ScanReaddirFails ==
  /\ pc = "scanning" /\ runs = {} /\ scan.left # {}
  /\ Spend("readdir")
  /\ fds' = Closedir
  /\ TriggerScan(TRUE)
  /\ scan' = NoScan
  /\ pc' = AfterScan(flags)
  /\ UNCHANGED <<sticky, svdefs, subsv, proc, sigs, runs, poll, wait, reqs>>

\* End of the directory: wantcull what is no longer active, check what is
\* already being culled, perpd_cull(), and rescan after a failed activation.
ScanEnd ==
  /\ pc = "scanning" /\ runs = {} /\ scan.left = {}
  /\ LET Gone == {s \in InTable : ~svdefs[s].active}
         New == {s \in Gone : ~svdefs[s].cull}
         svd == [s \in Services |->
                   IF s \in Gone THEN [WantcullSvdefs(New)[s] EXCEPT
                                         !.cycle = IF s \in New THEN @ ELSE FALSE]
                                 ELSE svdefs[s]]
         got_cull == \/ \E s \in New : AlreadyDown(s)
                     \/ \E s \in Gone \ New : CullOk(svdefs, subsv, s)
         G == Culled(got_cull, svd)
     IN /\ svdefs' = Removed(svd, G)
        /\ subsv' = RemovedSubsv(WantcullSubsv(New), G)
        /\ proc' = Kill(WantcullKills(New))
        /\ fds' = [i \in FdNums |->
                     IF fds[i] = ScanDir THEN Free
                     ELSE Close(WantcullCloses(New) \cup FdDirs(G), G)[i]]
  /\ TriggerScan(scan.got_fail)
  /\ scan' = NoScan
  /\ pc' = AfterScan(flags)
  /\ UNCHANGED <<sticky, sigs, runs, poll, wait, reqs, budget>>

(***************************************************************************)
(* flag_failing: retry the forks that failed.                              *)
(***************************************************************************)

\* "no mucking about while failing": die(111)
FailDie ==
  /\ pc = "fail" /\ flags.terminating
  /\ pc' = "dead"
  /\ UNCHANGED <<sticky, svdefs, subsv, proc, fds, sigs, flags, ping, runs, poll,
                 scan, wait, reqs, budget>>

\* perpd_svdef_checkfail() retries the last target of a failing slot, unless
\* the service is not flagged active.
Checkfail_main_only(sl) ==
  svdefs[sl[1]].in /\ svdefs[sl[1]].active /\ sl[2] = "main" /\ subsv[sl].failing
Checkfail(sl) ==
  /\ svdefs[sl[1]].in /\ svdefs[sl[1]].active
  /\ sl[2] = "main" \/ svdefs[sl[1]].haslog
  /\ subsv[sl].failing

RetryTarget_start(sb) == "start"
RetryTarget(sb) == IF sb.isreset THEN "reset" ELSE "start"

FailRetry ==
  /\ pc = "fail" /\ ~flags.terminating
  /\ flags' = [flags EXCEPT !.failing = FALSE]
  /\ runs' = {<<sl, RetryTarget(subsv[sl])>> :
                sl \in {x \in Slots : Checkfail(x)}}
  /\ pc' = "retrying"
  /\ UNCHANGED <<sticky, svdefs, subsv, proc, fds, sigs, ping, poll, scan, wait,
                 reqs, budget>>

\* Still failing: clients are ignored in this iteration.
FailDone ==
  /\ pc = "retrying" /\ runs = {}
  /\ pc' = IF flags.failing THEN "poll" ELSE "clients"
  /\ poll' = IF flags.failing THEN NoPoll ELSE poll
  /\ UNCHANGED <<sticky, svdefs, subsv, proc, fds, sigs, flags, ping, runs, scan,
                 wait, reqs, budget>>

(***************************************************************************)
(* perpd_conn_exec_control() and do_control(), one request at a time.      *)
(***************************************************************************)

\* do_kill(): what of the signals S reaches the process of a slot.
DoKill(sl, S) ==
  IF \/ sl[2] = "log" /\ ~svdefs[sl[1]].haslog
     \/ subsv[sl].pid = None
    THEN {}
    ELSE {<<subsv[sl].pid, sig>> :
            sig \in IF subsv[sl].isreset THEN S \cap {"CONT", "KILL"} ELSE S}

\* The slots a command applies to, and the command each of them gets: the
\* meta commands 'D' and 'U' are 'd' and 'u' on both, and nothing on a log.
CtlSlots(sl, cmd) ==
  IF cmd \notin {"D", "U"} THEN {sl}
  ELSE IF sl[2] = "main" THEN {sl, Log(sl[1])} ELSE {}
CtlCmd(cmd) == CASE cmd = "D" -> "d" [] cmd = "U" -> "u" [] OTHER -> cmd

CtlSignals_d_no_cont(c) ==
  CASE c = "c" -> {"CONT"}
    [] c \in {"d", "t"} -> {"TERM"}
    [] c = "k" -> {"KILL"}
    [] c = "p" -> {"STOP"}
    [] c = "h" -> {"HUP"}
    [] OTHER -> {}
CtlSignals(c) ==
  CASE c = "c" -> {"CONT"}
    [] c = "d" -> {"TERM", "CONT"}
    [] c = "k" -> {"KILL"}
    [] c = "p" -> {"STOP"}
    [] c = "t" -> {"TERM"}
    [] c = "h" -> {"HUP"}     \* and a, i, q, w, 1, 2: no effect perpd can see
    [] OTHER -> {}

CtlSubsv(sb, c) ==
  CASE c = "c" -> [sb EXCEPT !.ispaused = FALSE]
    [] c = "d" -> [sb EXCEPT !.wantdown = TRUE, !.ispaused = IF sb.pid # None THEN FALSE ELSE @]
    [] c = "o" -> [sb EXCEPT !.isonce = TRUE, !.wantdown = FALSE]
    [] c = "u" -> [sb EXCEPT !.isonce = FALSE, !.wantdown = FALSE]
    [] c = "p" -> [sb EXCEPT !.ispaused = IF sb.pid # None /\ ~sb.isreset THEN TRUE ELSE @]
    [] OTHER -> sb

Ready(r) == /\ pc = "clients" /\ runs = {} /\ r \in poll.ready
            /\ poll' = [poll EXCEPT !.ready = @ \ {r}]
            /\ reqs' = reqs \ {r}

\* ENOENT, or EBUSY for a service that is being deactivated.
ControlRefused(r) ==
  /\ Ready(r) /\ (~svdefs[r[1][1]].in \/ svdefs[r[1][1]].cull)
  /\ UNCHANGED <<sticky, svdefs, subsv, proc, fds, sigs, flags, ping, pc, runs,
                 scan, wait, budget>>

Control(r) ==
  LET S == CtlSlots(r[1], r[2])
      c == CtlCmd(r[2])
  IN /\ Ready(r) /\ svdefs[r[1][1]].in /\ ~svdefs[r[1][1]].cull
     /\ subsv' = [sl \in Slots |-> IF sl \in S THEN CtlSubsv(subsv[sl], c) ELSE subsv[sl]]
     /\ proc' = Kill(UNION {DoKill(sl, CtlSignals(c)) : sl \in S})
     /\ runs' = {<<sl, "start">> : sl \in {x \in S : c \in {"o", "u"} /\ subsv[x].pid = None}}
     /\ UNCHANGED <<sticky, svdefs, fds, sigs, flags, ping, pc, scan, wait, budget>>

\* No more ready clients: back to the top of the loop.
LoopEnd ==
  /\ pc = "clients" /\ runs = {} /\ poll.ready = {}
  /\ pc' = LoopTop
  /\ poll' = NoPoll
  /\ UNCHANGED <<sticky, svdefs, subsv, proc, fds, sigs, flags, ping, runs, scan,
                 wait, reqs, budget>>

(***************************************************************************)
(* The environment: children, the administrator, clients.                  *)
(***************************************************************************)

\* A child exits: of itself, or of a signal.  A stopped one needs SIGKILL; one
\* the governor holds does not exit while perpd_waitup() goes on.
ChildExit(p, ws) ==
  /\ proc[p].st = "run" /\ (proc[p].killed \/ ~proc[p].stopped)
  /\ proc[p].owner \notin wait.held
  /\ proc' = [proc EXCEPT ![p] = [NoProc EXCEPT !.st = "zombie",
                                     !.owner = proc[p].owner,
                                     !.target = proc[p].target, !.wstat = ws]]
  /\ sigs' = IF pc = "dead" THEN sigs ELSE sigs \cup {"CHLD"}
  /\ UNCHANGED <<sticky, svdefs, subsv, fds, flags, ping, pc, runs, poll, scan,
                 wait, reqs, budget>>

Alive == pc \notin {"done", "dead"}

\* chmod +t or -t on a service directory.
Chmod(s) ==
  /\ Alive /\ Spend("sticky")
  /\ sticky' = IF s \in sticky THEN sticky \ {s} ELSE sticky \cup {s}
  /\ UNCHANGED <<svdefs, subsv, proc, fds, sigs, flags, ping, pc, runs, poll,
                 scan, wait, reqs>>

\* SIGHUP (perphup) or SIGTERM to perpd.  Signals are blocked outside poll():
\* one that is sent earlier is pending until then.
Signal(sig) ==
  /\ pc \in {"poll", "ready"}
  /\ \/ sig = "HUP" /\ Spend("hup")
     \/ sig = "TERM" /\ Spend("term")
  /\ sigs' = sigs \cup {sig}
  /\ UNCHANGED <<sticky, svdefs, subsv, proc, fds, flags, ping, pc, runs, poll,
                 scan, wait, reqs>>

\* A client's request arrives; perpd looks at its clients in poll() only.
\* perpctl looks for the sticky bit before it sends; the bit may be gone since,
\* but perpd has not lost the service yet.
Send(r) ==
  /\ pc = "poll" /\ ~flags.terminating
  /\ r[1][1] \in sticky \/ svdefs[r[1][1]].in
  /\ Spend("cmd") /\ r \notin reqs
  /\ reqs' = reqs \cup {r}
  /\ UNCHANGED <<sticky, svdefs, subsv, proc, fds, sigs, flags, ping, pc, runs,
                 poll, scan, wait>>

(***************************************************************************)
(* The specification.                                                      *)
(***************************************************************************)
RunStep ==
  \E sl \in Slots, target \in Targets :
    \/ SvdefRunRefused(sl, target)
    \/ \E p \in Pids : SvdefRun(sl, target, p)
    \/ SvdefRunForkFails(sl, target)

WaitupStep ==
  \/ \E p \in Pids : WaitpidStray(p)
  \/ \E sl \in Slots, p \in Pids :
       WaitpidRerun(sl, p) \/ WaitpidStopLog(sl, p) \/ WaitpidDown(sl, p)
  \/ WaitupDone

ScanStep ==
  \/ ScanOpendirFails \/ ScanBegin \/ ScanReaddirFails \/ ScanEnd
  \/ \E d \in Services :
       \/ ScanIgnore(d) \/ ScanKeep(d)
       \/ \E fl \in Flavors[d] : ScanFail(d, fl) \/ ScanActivate(d, fl)

PollStep ==
  \/ \E sig \in Sigs : SigTrap(sig)
  \/ PollReturn \/ Drain \/ Terminate \/ ChldCheck

FailStep == FailDie \/ FailRetry \/ FailDone
ClientStep == LoopEnd \/ \E r \in Requests : ControlRefused(r) \/ Control(r)

MainLoop == PollStep \/ WaitupStep \/ ScanStep \/ FailStep \/ ClientStep \/ RunStep

ChildStep == \E p \in Pids, ws \in WStats : ChildExit(p, ws)
AdminStep == \/ \E s \in Services : Chmod(s)
             \/ \E sig \in {"HUP", "TERM"} : Signal(sig)
             \/ \E r \in Requests : Send(r)

\* perpd has exited; what is left of its children belongs to init.
Finished == ~Alive /\ UNCHANGED vars

Next == MainLoop \/ ChildStep \/ AdminStep \/ Finished

Spec == Init /\ [][Next]_vars

(***************************************************************************)
(* Fairness: perpd itself keeps running, and a child ends if it runs       *)
(* "reset" (which perpd.8 asks to return promptly), got TERM or KILL, or   *)
(* failed before exec().  Nothing else is promised to happen.              *)
(***************************************************************************)
MustEnd(p) == \/ proc[p].target = "reset"
              \/ proc[p].termed \/ proc[p].killed
              \/ proc[p].wired = "dies"
ChildEnds(p) == MustEnd(p) /\ \E ws \in WStats : ChildExit(p, ws)

FairSpec == Spec /\ WF_vars(MainLoop) /\ \A p \in Pids : WF_vars(ChildEnds(p))

(***************************************************************************)
(* Safety.                                                                 *)
(***************************************************************************)
Unreaped == {p \in Pids : proc[p].st # "none" /\ proc[p].owner # None}

\* The pids perpd holds are exactly its unreaped children, each in the one
\* slot it was forked for, of a service that is in the table.  So a kill()
\* never reaches a recycled pid, no child is forgotten by perpd_cull(), and
\* waitup finds the slot of every child (perpd.c:296-426, perpd_svdef.c:335).
ChildTracking ==
  /\ \A p \in Unreaped : /\ subsv[proc[p].owner].pid = p
                         /\ svdefs[proc[p].owner[1]].in
  /\ \A sl \in Slots : subsv[sl].pid # None =>
       subsv[sl].pid \in Unreaped /\ proc[subsv[sl].pid].owner = sl

\* perpd never sleeps in poll() on work it has been told of: whenever it is
\* about to poll() with a flag raised, the selfpipe holds a byte that makes
\* poll() return (sig_trap, perpd_trigger_scan, perpd_trigger_fail and the
\* drain at perpd.c:784).
NoLostWakeup ==
  pc = "poll" /\ (flags.chld \/ flags.hup \/ flags.term \/ flags.failing) => ping

\* A zombie is never forgotten although SIGCHLDs merge: one is pending, or
\* noted, or perpd_waitup() is still calling waitpid().
NoLostChild ==
  Alive /\ Zombies # {} => "CHLD" \in sigs \/ flags.chld \/ pc = "waitup"

\* A slot without a process is down because it is wanted down, or its fork()
\* failed and is marked for a retry, or the call that will fork is under way:
\* no path through waitup and do_control drops a service that should be up.
Supervised ==
  \A s \in InTable, w \in Whiches :
    (w = "main" \/ svdefs[s].haslog) /\ subsv[<<s, w>>].pid = None =>
      \/ subsv[<<s, w>>].wantdown
      \/ subsv[<<s, w>>].failing
      \/ \E t \in Targets : <<<<s, w>>, t>> \in runs

\* A failed fork() is retried: perpd does not go back to poll() leaving a
\* service it keeps (not being culled) marked failing without flag_failing
\* (perpd_trigger_fail, perpd_svdef_checkfail and perpd.c:837-857).
FailingIsRetried ==
  pc = "poll" /\ ~flags.terminating =>
    \A s \in InTable, w \in Whiches :
      subsv[<<s, w>>].failing /\ ~svdefs[s].cull => flags.failing

\* perpd exits 0 only when none of its services has a process left: the test
\* of the table at perpd.c:701 really means that nobody is left behind.
CleanExit == pc = "done" => Unreaped = {}

\* While a service is brought down the logger outlives main: perpd sends TERM
\* to the log of a service being culled only when main has no process left
\* (perpd_svdef_wantcull returns early, perpd_waitup signals the log later).
LoggerLast ==
  [][\A s \in Services :
       LET p == subsv[Log(s)].pid
       IN p # None /\ svdefs'[s].cull /\ ~proc[p].termed /\ proc'[p].termed
            => subsv'[Main(s)].pid = None]_vars

\* A stopped process is always flagged paused, so that perpls shows it and
\* the next cull or 'd' knows of it: a stopped process would never act on the
\* TERM that a shutdown waits for.
StoppedIsPaused ==
  \A p \in Unreaped : proc[p].stopped => subsv[proc[p].owner].ispaused

\* The numbers of a service, what they were opened as, and the stale ones:
\* those that stand for something else by now.
Numbers(s) == {svdefs[s].fd_dir}
              \cup (IF svdefs[s].haslog THEN {svdefs[s].lp0, svdefs[s].lp1} ELSE {})
Opened(s) == {<<"dir", s>>} \cup PipeEnds(s)
Stale(s) == {n \in Numbers(s) : ObjectAt(n) \notin Opened(s)}

\* Pipes are closed by number in two places and the numbers are given out
\* again.  A service that stays in the table loses a descriptor only if that
\* is an end of its log pipe and its main has no process left
\* (perpd_svdef.c:261, perpd.c:385), or if another service holds a stale number
\* of the same value, which the second close of a pipe hits.
FdsOwned ==
  [][\A s \in InTable, n \in FdNums :
       svdefs'[s].in /\ fds[n] \in Opened(s) /\ fds'[n] # fds[n] =>
         \/ fds[n] # <<"dir", s>> /\ subsv'[Main(s)].pid = None
         \/ \E t \in InTable \ {s} : n \in Stale(t)]_vars

\* A process is forked to run "start" only for a slot that is not wanted down,
\* or as the retry of a fork() that failed: perpd_svdef_checkfail() does not
\* look at WANTDOWN (perpd_svdef.c:212), every other caller does.
OnlyWantedStarts ==
  [][\A p \in Pids :
       proc[p].st = "none" /\ proc'[p].st = "run" /\ proc'[p].target = "start"
         => LET b == subsv[proc'[p].owner] IN ~b.wantdown \/ b.failing]_vars

\* perpd.8:80-82: with a log, stdout of main is connected to stdin of the log;
\* perpd.8:108-109: the working directory of a child is the service's.  No
\* child starts without: the code fails this when a D has closed the pipe, and
\* when a second cull closes it (run closed_twice).
ChildrenWired == \A p \in Unreaped : proc[p].wired = "ok"

(***************************************************************************)
(* Liveness, under FairSpec.                                               *)
(***************************************************************************)

\* perpd.8:576-585: after SIGTERM every service is brought down and perpd
\* exits 0.
ShutdownCompletes == flags.terminating ~> pc = "done"

\* A service whose deactivation has begun leaves the table.
DeactivationCompletes ==
  \A s \in Services : svdefs[s].in /\ svdefs[s].cull ~> ~svdefs[s].in

\* A rescan activates the services it is asked for, even if they are still
\* being deactivated (cycle) or an activation fails at first (got_fail).
ActivationHappens ==
  \A s \in Services :
    flags.hup /\ s \in sticky ~>
      (svdefs[s].in /\ ~svdefs[s].cull) \/ s \notin sticky \/ flags.term \/ flags.terminating

WantedUp(s) == svdefs[s].in /\ ~svdefs[s].cull /\ ~subsv[Main(s)].wantdown
Running(s) == /\ subsv[Main(s)].pid # None /\ ~subsv[Main(s)].isreset
              /\ proc[subsv[Main(s)].pid].st = "run"

\* perpd.8:129-133: a main service that is wanted up and has died, or whose
\* fork() failed, is reset and running again in the end.
Restarts == \A s \in Services : WantedUp(s) ~> Running(s) \/ ~WantedUp(s)
=============================================================================
