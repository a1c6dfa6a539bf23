-------------------------------- MODULE Deux --------------------------------
(***************************************************************************)
(* The three supervisors that perp has beside perpd, all one self-pipe     *)
(* loop: perpboot runs perpd and its logger, rundeux any program and its   *)
(* logger, runtrap a program whose signals go through a trapper.           *)
(*                                                                         *)
(* A step is a system call or a few that nothing can come between: all     *)
(* signals are blocked except around poll(), so a handler runs only there. *)
(* In runtrap a handler waits for the trapper, and others may nest in it.  *)
(***************************************************************************)
EXTENDS Integers, Sequences, FiniteSets

CONSTANTS
  Modes,       \* what may be run: records [tool, super]
  Pids,        \* process ids
  None,        \* pid 0
  PipeMax,     \* lines the log pipe holds
  Budgets      \* how often the environment may do each of Events

Signals == {"TERM", "INT", "HUP", "TSTP"}
Events == Signals \cup {"die", "line", "fork", "leave"}
Mode == [tool : {"perpboot", "rundeux", "runtrap"}, super : BOOLEAN]

ASSUME ModesAssumption == Modes \subseteq Mode
ASSUME PidsAssumption == None \notin Pids
ASSUME PipeAssumption == PipeMax \in Nat \ {0}
ASSUME BudgetsAssumption == Budgets \subseteq [Events -> Nat]

VARIABLES
  mode,        \* the tool of this behaviour, and opt_super (no -x)
  loop,        \* main_loop(): pc, the i of its for loop, the pid fork() gave
  deux,        \* deux[0], the logger, and deux[1], the program: their pids
  recent,      \* started less than a second ago
  flag_term,
  pinged,      \* my_sigpipe holds something
  pend,        \* signals pending for the supervisor
  traps,       \* handlers waiting for their trapper, the innermost last
  proc,        \* pid -> the process
  wopen,       \* the supervisor holds my_logpipe[1]
  lines,       \* lines in the log pipe
  left,        \* a background process of the program holds the log pipe
  budget,      \* what is left of the events
  wrote, logged, broken, logdied, asked   \* history

vars == <<mode, loop, deux, recent, flag_term, pinged, pend, traps, proc, wopen, lines,
          left, budget, wrote, logged, broken, logdied, asked>>
logvars == <<wopen, lines, left, wrote, logged, broken>>

(***************************************************************************)
(* Processes.                                                              *)
(***************************************************************************)
Free == [role |-> "none", st |-> "none", told |-> FALSE]
Role(i) == IF i = 0 THEN "log" ELSE "prog"
Live(role) == {p \in Pids : proc[p].role = role /\ proc[p].st \in {"run", "stop"}}
Zombies == {p \in Pids : proc[p].st = "zombie"}
\* fork() reuses a pid as soon as it is free, the hard case; which one is of
\* no consequence.
FreePids == {p \in Pids : proc[p] = Free}
NewPids == IF FreePids = {} THEN {} ELSE {CHOOSE p \in FreePids : TRUE}
Child(role, told) == [role |-> role, st |-> "run", told |-> told]

\* kill(): TERM and INT end the process when it next runs, TSTP stops it.
Killed(q, sig) ==
  IF q.st \in {"none", "zombie"} THEN q
  ELSE CASE sig \in {"TERM", "INT"} -> [q EXCEPT !.told = TRUE]
         [] sig = "TSTP" -> [q EXCEPT !.st = "stop"]
         [] sig = "CONT" -> [q EXCEPT !.st = "run"]
         [] OTHER -> q
Do_kill(ps, pid, sig) == IF pid = None THEN ps ELSE [ps EXCEPT ![pid] = Killed(@, sig)]

Supervising == loop.pc \notin {"done", "program"}
Spend(e) == budget[e] > 0 /\ budget' = [budget EXCEPT ![e] = @ - 1]
Goto(pc) == loop' = [loop EXCEPT !.pc = pc]

(***************************************************************************)
(* Start up: setup(), deux_init(), and for -d a fork() first.              *)
(***************************************************************************)
Init ==
  /\ mode \in Modes
  /\ loop = [pc |-> "top", i |-> 0, pid |-> None]
  /\ deux = [i \in {0, 1} |-> None]
  /\ recent = [i \in {0, 1} |-> FALSE]
  /\ flag_term = FALSE /\ pinged = FALSE
  /\ pend = {} /\ traps = <<>>
  /\ proc = [p \in Pids |-> Free]
  /\ wopen = (mode.tool # "runtrap")
  /\ lines = 0 /\ left = FALSE
  /\ budget \in Budgets
  /\ wrote = 0 /\ logged = 0 /\ broken = FALSE /\ logdied = FALSE /\ asked = FALSE

(***************************************************************************)
(* main_loop() and child_exec().                                           *)
(***************************************************************************)
Finished == flag_term /\ (mode.tool = "runtrap" => deux[1] = None)

Top ==
  /\ loop.pc = "top"
  /\ loop' = [loop EXCEPT !.pc = IF ~Finished THEN "start"
                                ELSE IF mode.tool = "runtrap" THEN "done" ELSE "end",
                          !.i = IF mode.tool = "runtrap" THEN 1 ELSE 0]
  /\ UNCHANGED <<mode, deux, recent, flag_term, pinged, pend, traps, proc, logvars, budget, logdied, asked>>

Start ==
  /\ loop.pc = "start"
  /\ loop' = CASE loop.i = 2 -> [loop EXCEPT !.pc = "poll"]
               [] loop.i < 2 /\ deux[loop.i] # None -> [loop EXCEPT !.i = @ + 1]
               [] OTHER -> [loop EXCEPT !.pc = IF recent[loop.i] THEN "pause" ELSE "fork"]
  /\ UNCHANGED <<mode, deux, recent, flag_term, pinged, pend, traps, proc, logvars, budget, logdied, asked>>

\* The sleep(1) of child_exec(), and a second that passes by itself.
Pause ==
  /\ loop.pc = "pause"
  /\ Goto("fork")
  /\ recent' = [i \in {0, 1} |-> FALSE]
  /\ UNCHANGED <<mode, deux, flag_term, pinged, pend, traps, proc, logvars, budget, logdied, asked>>

Second ==
  /\ recent' = [i \in {0, 1} |-> FALSE]
  /\ recent' # recent
  /\ UNCHANGED <<mode, loop, deux, flag_term, pinged, pend, traps, proc, logvars, budget, logdied, asked>>

\* fork() fails: sleep(2) and again.
ForkFails ==
  /\ loop.pc = "fork"
  /\ Spend("fork")
  /\ recent' = [i \in {0, 1} |-> FALSE]
  /\ UNCHANGED <<mode, loop, deux, flag_term, pinged, pend, traps, proc, logvars, logdied, asked>>

Fork ==
  /\ loop.pc = "fork"
  /\ mode.super \/ loop.i = 0
  /\ \E p \in NewPids :
       /\ proc' = [proc EXCEPT ![p] = Child(Role(loop.i), FALSE)]
       /\ loop' = [loop EXCEPT !.pc = "forked", !.pid = p]
  /\ UNCHANGED <<mode, deux, recent, flag_term, pinged, pend, traps, logvars, budget, logdied, asked>>

\* -x: not supervising, the process becomes deux[1]; pending signals reach it.
Exec ==
  /\ loop.pc = "fork"
  /\ ~mode.super /\ loop.i = 1
  /\ \E p \in NewPids :
       /\ proc' = [proc EXCEPT ![p] = Child("prog", pend \cap {"TERM", "INT"} # {})]
       /\ loop' = [loop EXCEPT !.pc = "program", !.pid = p]
  /\ pend' = {} /\ wopen' = FALSE
  /\ UNCHANGED <<mode, deux, recent, flag_term, pinged, traps, lines, left, wrote, logged, broken,
                 budget, logdied, asked>>

Forked ==
  /\ loop.pc = "forked"
  /\ deux' = [deux EXCEPT ![loop.i] = loop.pid]
  /\ recent' = [recent EXCEPT ![loop.i] = TRUE]
  /\ loop' = [pc |-> "start", i |-> loop.i + 1, pid |-> None]
  /\ UNCHANGED <<mode, flag_term, pinged, pend, traps, proc, logvars, budget, logdied, asked>>

(***************************************************************************)
(* Signal handlers, in the window sigset_unblock() .. sigset_block().      *)
(***************************************************************************)
Unblocked_always == Supervising
Unblocked == loop.pc = "poll"

\* A signal stays blocked while its own handler runs.
Deliverable(sig) == sig \in pend /\ Unblocked /\ \A k \in DOMAIN traps : traps[k].sig # sig

\* sigtrap() of perpboot and of rundeux: what goes to the program.
Passed(sig) == IF mode.tool = "rundeux" /\ flag_term' THEN "TERM" ELSE sig

Sigtrap(sig) ==
  /\ mode.tool # "runtrap"
  /\ Deliverable(sig)
  /\ pend' = pend \ {sig}
  /\ flag_term' = (flag_term \/ sig \in {"TERM", "INT"})
  /\ proc' = IF sig = "CHLD" THEN proc
             ELSE LET told == Do_kill(proc, deux[1], Passed(sig)) IN
                  IF sig \in {"TERM", "INT"} THEN Do_kill(told, deux[1], "CONT") ELSE told
  /\ pinged' = TRUE
  /\ UNCHANGED <<mode, loop, deux, recent, traps, logvars, budget, logdied, asked>>

\* sig_trap() of runtrap, and do_trap() up to its waitpid().
Sig_trap(sig) ==
  /\ mode.tool = "runtrap"
  /\ Deliverable(sig)
  /\ pend' = pend \ {sig}
  /\ flag_term' = (flag_term \/ sig = "TERM")
  /\ IF flag_term \/ sig = "CHLD" \/ deux[1] = None
     THEN pinged' = TRUE /\ UNCHANGED <<proc, traps>>
     ELSE \E p \in NewPids :
            /\ proc' = [proc EXCEPT ![p] = Child("trap", FALSE)]
            /\ traps' = Append(traps, [sig |-> sig, pid |-> p, child |-> deux[1]])
            /\ UNCHANGED pinged
  /\ UNCHANGED <<mode, loop, deux, recent, logvars, budget, logdied, asked>>

\* The trapper of the innermost handler has ended: the handler returns.
Trapped ==
  /\ traps # <<>>
  /\ LET t == traps[Len(traps)] IN
       /\ proc[t.pid].st = "zombie"
       /\ proc' = [proc EXCEPT ![t.pid] = Free]
  /\ traps' = SubSeq(traps, 1, Len(traps) - 1)
  /\ pinged' = TRUE
  /\ UNCHANGED <<mode, loop, deux, recent, flag_term, pend, logvars, budget, logdied, asked>>

(***************************************************************************)
(* poll() returns, the pipe is drained, dead children are reaped.          *)
(***************************************************************************)
Settled_any == TRUE
Settled == traps = <<>>

Poll ==
  /\ loop.pc = "poll"
  /\ pinged /\ Settled
  /\ Goto("wait")
  /\ pinged' = FALSE
  /\ UNCHANGED <<mode, deux, recent, flag_term, pend, traps, proc, logvars, budget, logdied, asked>>

Forget(pid) == [i \in {0, 1} |-> IF deux[i] = pid THEN None ELSE deux[i]]

More_never == FALSE
More == Zombies # {}

Child_wait ==
  /\ loop.pc = "wait"
  /\ \/ \E p \in Zombies :
          /\ proc' = [proc EXCEPT ![p] = Free]
          /\ deux' = Forget(p)
          /\ Goto(IF More' THEN "wait" ELSE "top")
     \/ Zombies = {} /\ Goto("top") /\ UNCHANGED <<proc, deux>>
  /\ UNCHANGED <<mode, recent, flag_term, pinged, pend, traps, logvars, budget, logdied, asked>>

(***************************************************************************)
(* After SIGTERM: perpboot harvests the program, both the logger.          *)
(***************************************************************************)
Reap(pid) == proc[pid].st = "zombie" /\ proc' = [proc EXCEPT ![pid] = Free]

Harvest ==
  /\ loop.pc = "end"
  /\ IF mode.tool = "perpboot" /\ deux[1] # None THEN Reap(deux[1]) ELSE UNCHANGED proc
  /\ Goto(IF deux[0] = None THEN "done" ELSE "close")
  /\ wopen' = (wopen /\ deux[0] # None)
  /\ UNCHANGED <<mode, deux, recent, flag_term, pinged, pend, traps, lines, left, wrote, logged,
                 broken, budget, logdied, asked>>

Close_logpipe ==
  /\ loop.pc = "close"
  /\ wopen' = FALSE
  /\ proc' = Do_kill(proc, deux[0], "CONT")
  /\ Goto("last")
  /\ UNCHANGED <<mode, deux, recent, flag_term, pinged, pend, traps, lines, left, wrote, logged,
                 broken, budget, logdied, asked>>

Last ==
  /\ loop.pc = "last"
  /\ Reap(deux[0])
  /\ Goto("done")
  /\ UNCHANGED <<mode, deux, recent, flag_term, pinged, pend, traps, logvars, budget, logdied, asked>>

Supervisor == \/ Top \/ Start \/ Pause \/ Fork \/ Exec \/ Forked
              \/ Trapped \/ Poll \/ Child_wait \/ Harvest \/ Close_logpipe \/ Last

(***************************************************************************)
(* The processes and the administrator.                                    *)
(***************************************************************************)
\* A child that dies is a zombie for its supervisor, who gets SIGCHLD.
Ends(p) == /\ proc' = [proc EXCEPT ![p] = IF Supervising THEN [@ EXCEPT !.st = "zombie"] ELSE Free]
           /\ pend' = IF Supervising THEN pend \cup {"CHLD"} ELSE pend

Die(p) ==
  /\ proc[p].role \in {"log", "prog"} /\ proc[p].st \in {"run", "stop"}
  /\ Spend("die")
  /\ Ends(p)
  /\ logdied' = (logdied \/ proc[p].role = "log")
  /\ UNCHANGED <<mode, loop, deux, recent, flag_term, pinged, traps, logvars, asked>>

\* The program, and perpd, end on SIGTERM and on SIGINT.
Obey(p) ==
  /\ proc[p].role = "prog" /\ proc[p].st = "run" /\ proc[p].told
  /\ Ends(p)
  /\ UNCHANGED <<mode, loop, deux, recent, flag_term, pinged, traps, logvars, budget, logdied, asked>>

\* Who can still read the log pipe; the variant closes it in the parent.
Readers_logger == Live("log") # {}
Readers == Live("log") # {} \/ Supervising

Write(p) ==
  /\ mode.tool # "runtrap"
  /\ proc[p].role = "prog" /\ proc[p].st = "run"
  /\ lines < PipeMax
  /\ Spend("line")
  /\ IF Readers THEN lines' = lines + 1 /\ wrote' = wrote + 1 /\ UNCHANGED <<proc, pend, broken>>
                ELSE broken' = TRUE /\ Ends(p) /\ UNCHANGED <<lines, wrote>>
  /\ UNCHANGED <<mode, loop, deux, recent, flag_term, pinged, traps, wopen, left, logged, logdied, asked>>

Read(p) ==
  /\ proc[p].role = "log" /\ proc[p].st = "run"
  /\ lines > 0
  /\ lines' = lines - 1 /\ logged' = logged + 1
  /\ UNCHANGED <<mode, loop, deux, recent, flag_term, pinged, pend, traps, proc, wopen, left, wrote,
                 broken, budget, logdied, asked>>

\* The logger exits when no process holds the other end.
Eof(p) ==
  /\ proc[p].role = "log" /\ proc[p].st = "run"
  /\ lines = 0 /\ ~wopen /\ ~left /\ Live("prog") = {}
  /\ Ends(p)
  /\ UNCHANGED <<mode, loop, deux, recent, flag_term, pinged, traps, logvars, budget, logdied, asked>>

\* The program leaves a background process that keeps its stdout.
Leave(p) ==
  /\ mode.tool # "runtrap"
  /\ proc[p].role = "prog" /\ proc[p].st = "run"
  /\ Spend("leave")
  /\ left' = TRUE
  /\ UNCHANGED <<mode, loop, deux, recent, flag_term, pinged, pend, traps, proc, wopen, lines, wrote,
                 logged, broken, logdied, asked>>

\* The trapper does its work: on TERM it ends the child, else it may.
Trapper(k) ==
  /\ proc[traps[k].pid].st = "run"
  /\ \E kills \in BOOLEAN :
       /\ traps[k].sig = "TERM" => kills
       /\ LET sent == IF kills THEN Do_kill(proc, traps[k].child, "TERM") ELSE proc IN
          proc' = [sent EXCEPT ![traps[k].pid].st = "zombie"]
  /\ pend' = pend \cup {"CHLD"}
  /\ UNCHANGED <<mode, loop, deux, recent, flag_term, pinged, traps, logvars, budget, logdied, asked>>

Signal(sig) ==
  /\ loop.pc # "done"
  /\ Spend(sig)
  /\ IF Supervising THEN pend' = pend \cup {sig} /\ UNCHANGED proc
                    ELSE proc' = Do_kill(proc, loop.pid, sig) /\ UNCHANGED pend
  /\ asked' = (asked \/ sig = "TERM")
  /\ UNCHANGED <<mode, loop, deux, recent, flag_term, pinged, traps, logvars, logdied>>

Handle == \E sig \in Signals \cup {"CHLD"} : Sigtrap(sig) \/ Sig_trap(sig)
Trappers == \E k \in DOMAIN traps : Trapper(k)
Children == \E p \in Pids : Obey(p) \/ Read(p) \/ Eof(p)
Environment == \/ Second \/ ForkFails
               \/ \E p \in Pids : Die(p) \/ Write(p) \/ Leave(p)
               \/ \E sig \in Signals : Signal(sig)

Next == Supervisor \/ Handle \/ Trappers \/ Children \/ Environment
Spec == Init /\ [][Next]_vars

\* The scheduler runs every process, and the kernel delivers a signal that is
\* not blocked.  The program obeys SIGTERM, a trapper ends; see Obey, Trapper.
FairSpec == Spec /\ WF_vars(Supervisor) /\ WF_vars(Handle) /\ WF_vars(Trappers) /\ WF_vars(Children)

(***************************************************************************)
(* Properties.                                                             *)
(***************************************************************************)
\* Every variable has its type.
TypeOK ==
  /\ mode \in Mode
  /\ loop \in [pc : {"top", "start", "pause", "fork", "forked", "poll", "wait", "end", "close",
                     "last", "done", "program"}, i : 0 .. 2, pid : Pids \cup {None}]
  /\ deux \in [{0, 1} -> Pids \cup {None}] /\ recent \in [{0, 1} -> BOOLEAN]
  /\ {flag_term, pinged, wopen, left, broken, logdied, asked} \subseteq BOOLEAN
  /\ pend \subseteq Signals \cup {"CHLD"}
  /\ traps \in Seq([sig : Signals, pid : Pids, child : Pids])
  /\ proc \in [Pids -> [role : {"log", "prog", "trap", "none"}, st : {"run", "stop", "zombie", "none"},
                        told : BOOLEAN]]
  /\ lines \in 0 .. PipeMax /\ {wrote, logged} \subseteq Nat
  /\ budget \in [Events -> Nat]

\* When the supervisor sleeps in poll() and nothing is on its way to wake it,
\* it has nothing to do: no child of its is dead, none is missing, and a
\* termination is not being slept through.  child_wait() may meet two dead
\* children behind one SIGCHLD, and a child may die at any step of the loop.
Asleep ==
  loop.pc = "poll" /\ ~pinged /\ pend = {} /\ traps = <<>> =>
    /\ Zombies = {}
    /\ Live("prog") = {deux[1]}
    /\ mode.tool # "runtrap" => Live("log") = {deux[0]} /\ ~flag_term

\* While it supervises, each child that was not reaped is the one whose pid the
\* supervisor remembers (or is about to, between fork() and the assignment): no
\* second copy of the program or of the logger is ever started.
OneEach ==
  Supervising =>
    \A p \in Pids : \A i \in {0, 1} :
      proc[p].role = Role(i) => deux[i] = p \/ (loop.pc = "forked" /\ loop.i = i /\ loop.pid = p)

\* The pid runtrap hands to a trapper stays the pid of its child, alive or not
\* yet reaped, for as long as that trapper runs: it cannot signal a stranger.
TrapsOwnChild == \A k \in DOMAIN traps : deux[1] = traps[k].child /\ proc[traps[k].child].role = "prog"

\* Loggers die and are restarted without a line lost and without the program
\* ever seeing a broken pipe: perpboot and rundeux keep both ends of the pipe.
LinesKept == Supervising => wrote = logged + lines /\ ~broken

\* When perpboot or rundeux ends, its logger is gone and has logged every line,
\* unless a logger was killed; perpboot has then also outlived the program.
CleanEnd ==
  loop.pc = "done" /\ mode.tool # "runtrap" =>
    /\ Live("log") = {}
    /\ ~logdied => lines = 0 /\ wrote = logged
    /\ mode.tool = "perpboot" => Live("prog") = {}

\* A SIGTERM ends the supervisor, its program and its logger.  Two cases are
\* left out: a background process of the program keeps the log pipe open, and
\* the program is stopped after the SIGTERM, because perpboot passes on a
\* SIGTSTP that arrived with it, or because nothing supervises it (-x).
Terminates ==
  asked ~> \/ ~Supervising /\ Live("prog") = {} /\ Live("log") = {}
           \/ left
           \/ (mode.tool = "perpboot" \/ ~mode.super) /\ \E p \in Live("prog") : proc[p].told /\ proc[p].st = "stop"

\* A child that died is started again, unless the supervisor was told to end.
Restarts ==
  \A i \in {0, 1} :
    mode.super /\ Supervising /\ Live(Role(i)) = {} /\ (i = 0 => mode.tool # "runtrap")
      ~> Live(Role(i)) # {} \/ flag_term \/ asked

\* The supervisor's account of its children is right: each pid it remembers is
\* that of its own child, the only one of its role.
ChildrenInv == TypeOK /\ OneEach /\ TrapsOwnChild

\* No line is lost, neither while loggers come and go nor at the end.
LogInv == LinesKept /\ CleanEnd

\* What is to be done in the end: the supervisor ends when it is told to, and
\* until then what died is started again.
Progress == Terminates /\ Restarts
=============================================================================
