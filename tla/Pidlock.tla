------------------------------ MODULE Pidlock ------------------------------
(***************************************************************************)
(* The lock file that makes perpd a single instance, and every process     *)
(* that uses such a file: perpd as it starts (perpd_control_init() with    *)
(* its socket), runlock, runtool -L and -P (with -d and -F), and the       *)
(* clients that look up its holder: perphup, perpctl A and X, runlock -c.  *)
(*                                                                         *)
(* A lock belongs to a process and an inode, as fcntl() has it: it is gone *)
(* when the process ends or closes any descriptor of the file, and a child *)
(* does not inherit it.  A step is a system call.                          *)
(***************************************************************************)
EXTENDS Integers, Sequences, FiniteSets

CONSTANTS
  Procs,       \* processes
  Scripts,     \* what they may be: functions process -> job
  Inodes,      \* inode numbers
  None,        \* no inode, no pid
  Budgets      \* how often the environment may do each of Events

Events == {"start", "crash", "fail"}

\* wait: PIDLOCK_WAIT.  pid: the file gets the pid.  fork: -d, or rundetach in
\* front.  closes: -F names the descriptor of the lock.
Job == [tool : {"perpd", "runlock", "runtool", "check"}, wait : BOOLEAN, pid : BOOLEAN,
        fork : BOOLEAN, closes : BOOLEAN]

\* A process has one inode open at most, and the name refers to one.
ASSUME InodesAssumption == None \notin Inodes /\ Cardinality(Inodes) > Cardinality(Procs)
ASSUME ProcsAssumption == IsFiniteSet(Procs) /\ None \notin Procs \X Nat
ASSUME ScriptsAssumption == Scripts \subseteq [Procs -> Job]
ASSUME BudgetsAssumption == Budgets \subseteq [Events -> Nat]

VARIABLES
  job,         \* process -> its job in this behaviour
  proc,        \* process -> [todo, gen, fd, st]
  name,        \* the inode the name of the lock file refers to, or None
  ino,         \* inode -> [locker, text]: who holds its lock, the pid in it
  sock,        \* the pid that is bound to the control socket's name, or None
  hup,         \* what the clients signalled
  budget,      \* what is left of the events
  faulted      \* history: a system call failed

vars == <<job, proc, name, ino, sock, hup, budget, faulted>>

(***************************************************************************)
(* What each program does, in its order.                                   *)
(***************************************************************************)
If(b, steps) == IF b THEN steps ELSE <<>>
Set(j) == <<"open", "lock">> \o If(j.pid, <<"pid">>) \o <<"chmod">>

Perpd_control_init(j) == Set(j) \o <<"bind">>
Runlock(j) == If(j.fork, <<"fork">>) \o Set(j)
\* Setlock after detach so lock held by new pid.
Runtool_early(j) == Set(j) \o If(j.fork, <<"fork">>) \o If(j.closes, <<"fdset">>)
Runtool(j) == If(j.fork, <<"fork">>) \o Set(j) \o If(j.closes, <<"fdset">>)
Client == <<"check", "kill">>

Plan(j) == CASE j.tool = "perpd" -> Perpd_control_init(j)
             [] j.tool = "runlock" -> Runlock(j)
             [] j.tool = "runtool" -> Runtool(j)
             [] OTHER -> Client

Pid(p) == <<p, proc[p].gen>>
Free == [locker |-> None, text |-> None]
Alive(pid) == \E p \in Procs : Pid(p) = pid /\ proc[p].st \in {"busy", "run"}
Unlocked(pid) == [i \in Inodes |-> IF ino[i].locker = pid THEN [ino[i] EXCEPT !.locker = None] ELSE ino[i]]
Spend(e) == budget[e] > 0 /\ budget' = [budget EXCEPT ![e] = @ - 1]

At(p, step) == proc[p].st = "busy" /\ proc[p].todo # <<>> /\ Head(proc[p].todo) = step
Done(p) == [proc EXCEPT ![p].todo = Tail(@)]
Gone(p) == [proc EXCEPT ![p].todo = <<>>, ![p].fd = None, ![p].st = "gone"]

Init ==
  /\ job \in Scripts
  /\ proc = [p \in Procs |-> [todo |-> <<>>, gen |-> 0, fd |-> None, st |-> "gone"]]
  /\ name = None
  /\ ino = [i \in Inodes |-> Free]
  /\ sock = None
  /\ hup = {}
  /\ budget \in Budgets
  /\ faulted = FALSE

Start(p) ==
  /\ proc[p].st = "gone"
  /\ Spend("start")
  /\ proc' = [proc EXCEPT ![p] = [todo |-> Plan(job[p]), gen |-> @.gen + 1, fd |-> None, st |-> "busy"]]
  /\ UNCHANGED <<job, name, ino, sock, hup, faulted>>

(***************************************************************************)
(* pidlock_set().                                                          *)
(***************************************************************************)
Used == {i \in Inodes : i = name \/ ino[i].locker # None \/ \E p \in Procs : proc[p].fd = i}

Open(p) ==
  /\ At(p, "open")
  /\ LET i == IF name = None THEN CHOOSE j \in Inodes : j \notin Used ELSE name IN
       /\ name' = i
       /\ ino' = IF name = None THEN [ino EXCEPT ![i] = Free] ELSE ino
       /\ proc' = [proc EXCEPT ![p].todo = Tail(@), ![p].fd = i]
  /\ UNCHANGED <<job, sock, hup, budget, faulted>>

Available(p) == ino[proc[p].fd].locker = None

\* padlock_exlock(): F_SETLKW waits while another process holds the lock.
Exlock(p) ==
  /\ At(p, "lock")
  /\ Available(p)
  /\ ino' = [ino EXCEPT ![proc[p].fd].locker = Pid(p)]
  /\ proc' = Done(p)
  /\ UNCHANGED <<job, name, sock, hup, budget, faulted>>

\* Lock held by another process, don't unlink it.
InUse_unlinked(p) == [proc EXCEPT ![p].todo = <<"close", "unlink">>]
InUse(p) == [proc EXCEPT ![p].todo = <<"close">>]

Locked_out(p) ==
  /\ At(p, "lock")
  /\ ~job[p].wait
  /\ ~Available(p)
  /\ proc' = InUse(p)
  /\ UNCHANGED <<job, name, ino, sock, hup, budget, faulted>>

Do_pid(p) == [ino EXCEPT ![proc[p].fd].text = Pid(p)]

Write_pid(p) ==
  /\ At(p, "pid")
  /\ ino' = Do_pid(p)
  /\ proc' = Done(p)
  /\ UNCHANGED <<job, name, sock, hup, budget, faulted>>

Fchmod(p) ==
  /\ At(p, "chmod")
  /\ proc' = Done(p)
  /\ UNCHANGED <<job, name, ino, sock, hup, budget, faulted>>

\* The label "fail": close(), and unlink() unless the file is in use.  A lock
\* that fails in another way (ENOLCK) does not say that it is.
Set_fails(p) ==
  /\ At(p, "lock") \/ At(p, "pid") \/ At(p, "chmod")
  /\ Spend("fail")
  /\ proc' = [proc EXCEPT ![p].todo = <<"close", "unlink">>]
  /\ faulted' = TRUE
  /\ UNCHANGED <<job, name, ino, sock, hup>>

Close(p) ==
  /\ At(p, "close")
  /\ ino' = Unlocked(Pid(p))
  /\ proc' = IF Tail(proc[p].todo) = <<>> THEN Gone(p)
             ELSE [proc EXCEPT ![p].todo = Tail(@), ![p].fd = None]
  /\ UNCHANGED <<job, name, sock, hup, budget, faulted>>

Unlink(p) ==
  /\ At(p, "unlink")
  /\ name' = None
  /\ proc' = Gone(p)
  /\ UNCHANGED <<job, ino, sock, hup, budget, faulted>>

(***************************************************************************)
(* The other steps.                                                        *)
(***************************************************************************)
\* fork(): the child goes on under a new pid, the parent and its locks go.
Fork(p) ==
  /\ At(p, "fork")
  /\ ino' = Unlocked(Pid(p))
  /\ proc' = [proc EXCEPT ![p].todo = Tail(@), ![p].gen = @ + 1]
  /\ UNCHANGED <<job, name, sock, hup, budget, faulted>>

\* do_fdset() moves another file onto the descriptor of the lock.
Fdset(p) ==
  /\ At(p, "fdset")
  /\ ino' = Unlocked(Pid(p))
  /\ proc' = [proc EXCEPT ![p].todo = Tail(@), ![p].fd = None]
  /\ UNCHANGED <<job, name, sock, hup, budget, faulted>>

\* domsock_create(): unlink() whatever has the name, then bind().
Domsock_create(p) ==
  /\ At(p, "bind")
  /\ sock' = Pid(p)
  /\ proc' = Done(p)
  /\ UNCHANGED <<job, name, ino, hup, budget, faulted>>

\* A failure from socket() on to fd_nonblock() is fatal: the name is as it was,
\* or gone, or that of a socket nobody has.
Bind_fails(p) ==
  /\ At(p, "bind")
  /\ Spend("fail")
  /\ sock' \in {sock, None, Pid(p)}
  /\ ino' = Unlocked(Pid(p))
  /\ proc' = Gone(p)
  /\ UNCHANGED <<job, name, hup, faulted>>

\* The program runs: exec() of a tool, perpd_mainloop() of perpd.
Exec(p) ==
  /\ proc[p].st = "busy" /\ proc[p].todo = <<>>
  /\ proc' = [proc EXCEPT ![p].st = "run"]
  /\ UNCHANGED <<job, name, ino, sock, hup, budget, faulted>>

\* pidlock_check(): the pid F_GETLK reports, and then kill().
Check(p) ==
  /\ At(p, "check")
  /\ IF name = None \/ ino[name].locker = None
     THEN proc' = Gone(p) /\ UNCHANGED hup
     ELSE proc' = Done(p) /\ hup' = hup \cup {[by |-> Pid(p), pid |-> ino[name].locker, got |-> "asked"]}
  /\ UNCHANGED <<job, name, ino, sock, budget, faulted>>

Kill(p) ==
  /\ At(p, "kill")
  /\ hup' = {[h EXCEPT !.got = IF h.by = Pid(p) THEN (IF Alive(h.pid) THEN "sent" ELSE "ESRCH") ELSE @] : h \in hup}
  /\ proc' = Gone(p)
  /\ UNCHANGED <<job, name, ino, sock, budget, faulted>>

End(p) ==
  /\ proc[p].st = "run"
  /\ ino' = Unlocked(Pid(p))
  /\ proc' = Gone(p)
  /\ UNCHANGED <<job, name, sock, hup, budget, faulted>>

Crash(p) ==
  /\ proc[p].st \in {"busy", "run"}
  /\ Spend("crash")
  /\ ino' = Unlocked(Pid(p))
  /\ proc' = Gone(p)
  /\ UNCHANGED <<job, name, sock, hup, faulted>>

Own(p) == \/ Open(p) \/ Exlock(p) \/ Locked_out(p) \/ Write_pid(p) \/ Fchmod(p) \/ Close(p) \/ Unlink(p)
          \/ Fork(p) \/ Fdset(p) \/ Domsock_create(p) \/ Exec(p) \/ Check(p) \/ Kill(p) \/ End(p)
Next == \E p \in Procs : Own(p) \/ Start(p) \/ Crash(p) \/ Set_fails(p) \/ Bind_fails(p)
Spec == Init /\ [][Next]_vars

(***************************************************************************)
(* Properties.                                                             *)
(***************************************************************************)
Pids == Procs \X Nat
Asks(p) == job[p].tool # "check"
Running(p) == proc[p].st = "run" /\ Asks(p)

\* Every variable has its type.
TypeOK ==
  /\ job \in [Procs -> Job]
  /\ proc \in [Procs -> [todo : Seq({"open", "lock", "pid", "chmod", "close", "unlink", "fork", "fdset",
                                     "bind", "check", "kill"}),
                         gen : Nat, fd : Inodes \cup {None}, st : {"busy", "run", "gone"}]]
  /\ name \in Inodes \cup {None}
  /\ ino \in [Inodes -> [locker : Pids \cup {None}, text : Pids \cup {None}]]
  /\ sock \in Pids \cup {None}
  /\ hup \subseteq [by : Pids, pid : Pids, got : {"asked", "sent", "ESRCH"}]
  /\ budget \in [Events -> Nat] /\ faulted \in BOOLEAN

\* No two processes have the lock file to themselves, unless a pidlock_set()
\* failed half way (its unlink() can take the file away under a process that
\* already has it open) or a redirection closed the lock.
Exclusive ==
  ~faulted => \A p, q \in Procs : p # q /\ Running(p) /\ Running(q) /\ ~job[p].closes => job[q].closes

\* A program runs with the lock it was to have, held by its own pid, in the
\* file of that name and with its pid in it, though the tool may have forked.
LockHeld ==
  \A p \in Procs :
    Running(p) /\ ~job[p].closes /\ ~faulted =>
      /\ name # None /\ proc[p].fd = name
      /\ ino[name].locker = Pid(p)
      /\ job[p].pid => ino[name].text = Pid(p)

\* The control socket belongs to the perpd that runs: one that is started in
\* vain never takes its name away.
SocketOwned == \A p \in Procs : Running(p) /\ job[p].tool = "perpd" /\ ~faulted => sock = Pid(p)

\* One process at a time has the lock file, its name, its text and the socket
\* that goes with it.
LockInv == TypeOK /\ Exclusive /\ LockHeld /\ SocketOwned

\* perphup, perpctl and runlock -c find the perpd that runs, whatever other
\* perpd's were started in vain meanwhile.
FindsPerpd ==
  [][\A p, q \in Procs :
       /\ Running(q) /\ job[q].tool = "perpd" /\ ~faulted
       /\ At(p, "check") /\ proc'[p] # proc[p] /\ budget' = budget
       => [by |-> Pid(p), pid |-> Pid(q), got |-> "asked"] \in hup']_vars
=============================================================================
