---------------------------- MODULE PidlockProofs ----------------------------
(***************************************************************************)
(* Proofs about Pidlock, for every set of processes and jobs and however   *)
(* often they are started, crash or fail.                                  *)
(***************************************************************************)
EXTENDS Pidlock, TLAPS, FiniteSetTheorems, SequenceTheorems

-----------------------------------------------------------------------------
(* What a process has still to do, by where it is in its plan. *)

Steps == {"open", "lock", "pid", "chmod", "close", "unlink", "fork", "fdset",
          "bind", "check", "kill"}

\* Only runtool does fdset() with -F on the descriptor of the lock.
Closes(j) == j.tool = "runtool" /\ j.closes

EndOf(j) == IF j.tool = "perpd" THEN <<"bind">> ELSE IF Closes(j) THEN <<"fdset">> ELSE <<>>
ChmodOf(j) == <<"chmod">> \o EndOf(j)
PidOf(j) == IF j.pid THEN <<"pid">> \o ChmodOf(j) ELSE ChmodOf(j)
LockOf(j) == <<"lock">> \o PidOf(j)
OpenOf(j) == <<"open">> \o LockOf(j)
ForkOf(j) == <<"fork">> \o OpenOf(j)

\* The next step of a plan and what follows it.
LEMMA NextOf ==
  ASSUME NEW x \in Steps, NEW w \in Seq(Steps)
  PROVE  /\ <<x>> \o w \in Seq(Steps) /\ <<x>> \o w # <<>>
         /\ Head(<<x>> \o w) = x /\ Tail(<<x>> \o w) = w
<1>1. <<x>> \in Seq(Steps) /\ Len(<<x>>) = 1 /\ <<x>>[1] = x
  OBVIOUS
<1> DEFINE s == <<x>> \o w
<1>2. s \in Seq(Steps) /\ Len(s) = 1 + Len(w) /\ s[1] = x
      /\ \A i \in 1 .. Len(w) : s[i + 1] = w[i]
  BY <1>1
<1>3. Len(w) \in Nat
  OBVIOUS
<1> HIDE DEF s
<1>4. s # <<>> /\ Head(s) = x /\ Tail(s) \in Seq(Steps)
  BY <1>2, <1>3
<1>5. Len(Tail(s)) = Len(w) /\ \A i \in 1 .. Len(w) : Tail(s)[i] = w[i]
  BY <1>2, <1>3, <1>4
<1>6. Tail(s) = w
  BY <1>4, <1>5, SeqEqual
<1> QED BY <1>2, <1>4, <1>6 DEF s

\* So for the short plans.
LEMMA ShortPlans ==
  /\ <<"close">> \in Seq(Steps) /\ Head(<<"close">>) = "close" /\ Tail(<<"close">>) = <<>>
  /\ <<"kill">> \in Seq(Steps) /\ Head(<<"kill">>) = "kill" /\ Tail(<<"kill">>) = <<>>
  /\ <<"unlink">> \in Seq(Steps) /\ Head(<<"unlink">>) = "unlink" /\ Tail(<<"unlink">>) = <<>>
  /\ Client \in Seq(Steps) /\ Head(Client) = "check" /\ Tail(Client) = <<"kill">>
  /\ <<"close", "unlink">> \in Seq(Steps)
  /\ Head(<<"close", "unlink">>) = "close" /\ Tail(<<"close", "unlink">>) = <<"unlink">>
  /\ <<"close">> # <<>> /\ <<"kill">> # <<>> /\ <<"unlink">> # <<>> /\ Client # <<>>
  /\ <<"close", "unlink">> # <<>>
  /\ <<>> \in Seq(Steps)
BY DEF Client, Steps

LEMMA Suffixes ==
  ASSUME NEW j \in Job
  PROVE  /\ EndOf(j) \in Seq(Steps) /\ ChmodOf(j) \in Seq(Steps) /\ PidOf(j) \in Seq(Steps)
         /\ LockOf(j) \in Seq(Steps) /\ OpenOf(j) \in Seq(Steps) /\ ForkOf(j) \in Seq(Steps)
         /\ ForkOf(j) # <<>> /\ Head(ForkOf(j)) = "fork" /\ Tail(ForkOf(j)) = OpenOf(j)
         /\ OpenOf(j) # <<>> /\ Head(OpenOf(j)) = "open" /\ Tail(OpenOf(j)) = LockOf(j)
         /\ LockOf(j) # <<>> /\ Head(LockOf(j)) = "lock" /\ Tail(LockOf(j)) = PidOf(j)
         /\ ChmodOf(j) # <<>> /\ Head(ChmodOf(j)) = "chmod" /\ Tail(ChmodOf(j)) = EndOf(j)
         /\ PidOf(j) # <<>>
         /\ \/ j.pid /\ Head(PidOf(j)) = "pid" /\ Tail(PidOf(j)) = ChmodOf(j)
            \/ ~j.pid /\ PidOf(j) = ChmodOf(j)
         /\ \/ j.tool = "perpd" /\ EndOf(j) # <<>>
               /\ Head(EndOf(j)) = "bind" /\ Tail(EndOf(j)) = <<>>
            \/ Closes(j) /\ j.tool # "perpd" /\ EndOf(j) # <<>>
               /\ Head(EndOf(j)) = "fdset" /\ Tail(EndOf(j)) = <<>>
            \/ ~Closes(j) /\ j.tool # "perpd" /\ EndOf(j) = <<>>
<1>1. /\ EndOf(j) \in Seq(Steps)
      /\ \/ j.tool = "perpd" /\ EndOf(j) # <<>>
            /\ Head(EndOf(j)) = "bind" /\ Tail(EndOf(j)) = <<>>
         \/ Closes(j) /\ j.tool # "perpd" /\ EndOf(j) # <<>>
            /\ Head(EndOf(j)) = "fdset" /\ Tail(EndOf(j)) = <<>>
         \/ ~Closes(j) /\ j.tool # "perpd" /\ EndOf(j) = <<>>
  <2>1. /\ <<"bind">> \in Seq(Steps) /\ <<"bind">> # <<>>
        /\ Head(<<"bind">>) = "bind" /\ Tail(<<"bind">>) = <<>>
        /\ <<"fdset">> \in Seq(Steps) /\ <<"fdset">> # <<>>
        /\ Head(<<"fdset">>) = "fdset" /\ Tail(<<"fdset">>) = <<>>
        /\ <<>> \in Seq(Steps)
    BY DEF Steps
  <2>2. CASE j.tool = "perpd"
    BY <2>1, <2>2 DEF EndOf
  <2>3. CASE j.tool # "perpd" /\ Closes(j)
    BY <2>1, <2>3 DEF EndOf
  <2>4. CASE j.tool # "perpd" /\ ~Closes(j)
    BY <2>1, <2>4 DEF EndOf
  <2> QED BY <2>2, <2>3, <2>4
<1>2. /\ ChmodOf(j) \in Seq(Steps) /\ ChmodOf(j) # <<>>
      /\ Head(ChmodOf(j)) = "chmod" /\ Tail(ChmodOf(j)) = EndOf(j)
  BY <1>1, NextOf DEF ChmodOf, Steps
<1>3. /\ PidOf(j) \in Seq(Steps) /\ PidOf(j) # <<>>
      /\ \/ j.pid /\ Head(PidOf(j)) = "pid" /\ Tail(PidOf(j)) = ChmodOf(j)
         \/ ~j.pid /\ PidOf(j) = ChmodOf(j)
  <2>1. CASE j.pid
    BY <1>2, <2>1, NextOf DEF PidOf, Steps
  <2>2. CASE ~j.pid
    BY <1>2, <2>2 DEF PidOf
  <2> QED BY <2>1, <2>2
<1>4. /\ LockOf(j) \in Seq(Steps) /\ LockOf(j) # <<>>
      /\ Head(LockOf(j)) = "lock" /\ Tail(LockOf(j)) = PidOf(j)
  BY <1>3, NextOf DEF LockOf, Steps
<1>5. /\ OpenOf(j) \in Seq(Steps) /\ OpenOf(j) # <<>>
      /\ Head(OpenOf(j)) = "open" /\ Tail(OpenOf(j)) = LockOf(j)
  BY <1>4, NextOf DEF OpenOf, Steps
<1>6. /\ ForkOf(j) \in Seq(Steps) /\ ForkOf(j) # <<>>
      /\ Head(ForkOf(j)) = "fork" /\ Tail(ForkOf(j)) = OpenOf(j)
  BY <1>5, NextOf DEF ForkOf, Steps
<1> QED BY <1>1, <1>2, <1>3, <1>4, <1>5, <1>6

\* Every plan is the longest of these, or the client's.
LEMMA Plans ==
  ASSUME NEW j \in Job
  PROVE  IF j.tool = "check" THEN Plan(j) = Client ELSE Plan(j) \in {ForkOf(j), OpenOf(j)}
<1> DEFINE e == If(j.pid, <<"pid">>)
<1>1. \A w \in Seq(Steps) : If(FALSE, w) = <<>> /\ If(TRUE, w) = w
  BY DEF If
<1>2. \A w \in Seq(Steps) : <<>> \o w = w /\ w \o <<>> = w
  BY ConcatEmptySeq
<1>3. \A u, v, w \in Seq(Steps) : (u \o v) \o w = u \o (v \o w)
  BY ConcatAssociative
<1>4. /\ <<"pid">> \in Seq(Steps) /\ <<"open">> \in Seq(Steps) /\ <<"lock">> \in Seq(Steps)
      /\ <<"chmod">> \in Seq(Steps) /\ <<"fork">> \in Seq(Steps) /\ <<"bind">> \in Seq(Steps)
      /\ <<"fdset">> \in Seq(Steps) /\ <<>> \in Seq(Steps)
      /\ <<"open", "lock">> = <<"open">> \o <<"lock">>
  BY DEF Steps
<1>5. e \in Seq(Steps)
  BY <1>4 DEF If
<1>6. \A t \in Seq(Steps) :
         Set(j) \o t = <<"open">> \o (<<"lock">> \o (e \o (<<"chmod">> \o t)))
  <2> SUFFICES ASSUME NEW t \in Seq(Steps)
               PROVE  Set(j) \o t = <<"open">> \o (<<"lock">> \o (e \o (<<"chmod">> \o t)))
    OBVIOUS
  <2>1. Set(j) = ((<<"open">> \o <<"lock">>) \o e) \o <<"chmod">>
    BY <1>4 DEF Set
  <2>2. /\ <<"open">> \o <<"lock">> \in Seq(Steps)
        /\ (<<"open">> \o <<"lock">>) \o e \in Seq(Steps)
        /\ <<"chmod">> \o t \in Seq(Steps)
        /\ e \o (<<"chmod">> \o t) \in Seq(Steps)
    BY <1>4, <1>5, ConcatProperties
  <2> HIDE DEF e
  <2>3. Set(j) \o t = ((<<"open">> \o <<"lock">>) \o e) \o (<<"chmod">> \o t)
    BY <1>3, <1>4, <2>1, <2>2
  <2>4. @ = (<<"open">> \o <<"lock">>) \o (e \o (<<"chmod">> \o t))
    BY <1>3, <1>5, <2>2
  <2>5. @ = <<"open">> \o (<<"lock">> \o (e \o (<<"chmod">> \o t)))
    BY <1>3, <1>4, <2>2
  <2> QED BY <2>3, <2>4, <2>5
<1>7. Set(j) \in Seq(Steps)
  <2>1. /\ <<"open">> \o <<"lock">> \in Seq(Steps)
        /\ (<<"open">> \o <<"lock">>) \o e \in Seq(Steps)
    BY <1>4, <1>5, ConcatProperties
  <2>2. Set(j) = ((<<"open">> \o <<"lock">>) \o e) \o <<"chmod">>
    BY <1>4 DEF Set
  <2> HIDE DEF e
  <2> QED BY <1>4, <2>1, <2>2, ConcatProperties
<1>8. Set(j) \o EndOf(j) = OpenOf(j)
  <2>1. e \o ChmodOf(j) = PidOf(j)
    BY <1>2, Suffixes DEF PidOf, If
  <2> HIDE DEF e
  <2> QED BY <1>6, <2>1, Suffixes DEF OpenOf, LockOf, ChmodOf
<1>9. \A b \in BOOLEAN : If(b, <<"fork">>) \o OpenOf(j) \in {ForkOf(j), OpenOf(j)}
  BY <1>2, Suffixes DEF If, ForkOf
<1>10. j.fork \in BOOLEAN /\ j.closes \in BOOLEAN
       /\ j.tool \in {"perpd", "runlock", "runtool", "check"}
  BY DEF Job
<1>11. CASE j.tool = "perpd"
  BY <1>8, <1>11 DEF Plan, Perpd_control_init, EndOf
<1>12. CASE j.tool = "runlock"
  <2>1. EndOf(j) = <<>>
    BY <1>12 DEF EndOf, Closes
  <2>2. Set(j) = OpenOf(j)
    BY <1>2, <1>7, <1>8, <2>1
  <2>3. Plan(j) = If(j.fork, <<"fork">>) \o Set(j)
    BY <1>12 DEF Plan, Runlock
  <2> QED BY <1>9, <1>10, <1>12, <2>2, <2>3
<1>13. CASE j.tool = "runtool"
  <2>1. If(j.closes, <<"fdset">>) = EndOf(j)
    BY <1>13 DEF EndOf, Closes, If
  <2>2. If(j.fork, <<"fork">>) \in Seq(Steps)
    BY <1>4 DEF If
  <2>3. Plan(j) = (If(j.fork, <<"fork">>) \o Set(j)) \o EndOf(j)
    BY <1>13, <2>1 DEF Plan, Runtool
  <2> DEFINE f == If(j.fork, <<"fork">>)
  <2> HIDE DEF f
  <2>4. (f \o Set(j)) \o EndOf(j) = f \o (Set(j) \o EndOf(j))
    <3>1. EndOf(j) \in Seq(Steps) /\ f \in Seq(Steps)
      BY <2>2, Suffixes DEF f
    <3> QED BY <1>3, <1>7, <3>1
  <2>5. Plan(j) = If(j.fork, <<"fork">>) \o OpenOf(j)
    BY <1>8, <2>3, <2>4 DEF f
  <2> QED BY <1>9, <1>10, <1>13, <2>5
<1>14. CASE j.tool = "check"
  BY <1>14 DEF Plan
<1> QED BY <1>10, <1>11, <1>12, <1>13, <1>14

-----------------------------------------------------------------------------
(* The inductive invariant. *)

\* Where a process is in its plan, and that it has the file open from open()
\* to close(), or to its end.
Stage(p) ==
  LET j == job[p]
      d == proc[p].todo
      fd == proc[p].fd
      st == proc[p].st
  IN \/ st = "gone" /\ d = <<>> /\ fd = None
     \/ st = "busy" /\ ~Asks(p) /\ d \in {Client, <<"kill">>} /\ fd = None
     \/ st = "busy" /\ Asks(p) /\ d \in {ForkOf(j), OpenOf(j)} /\ fd = None
     \/ st = "busy" /\ Asks(p) /\ d \in {LockOf(j), PidOf(j), ChmodOf(j), <<"close">>} /\ fd # None
     \/ st = "busy" /\ Asks(p) /\ d = EndOf(j) /\ d # <<>> /\ fd # None
     \/ st = "busy" /\ Asks(p) /\ d = <<"close", "unlink">> /\ fd # None /\ faulted
     \/ st = "busy" /\ Asks(p) /\ d = <<"unlink">> /\ fd = None /\ faulted
     \/ st \in {"busy", "run"} /\ Asks(p) /\ d = <<>> /\ (fd = None <=> Closes(j))

\* What a process with the file open has: the file of that name; from the lock
\* on, the lock; from the write on, its pid in the file; at the end, perpd, the
\* socket.
Held(p) ==
  LET j == job[p]
      d == proc[p].todo
      fd == proc[p].fd
  IN ~faulted /\ fd # None =>
       /\ fd = name
       /\ d \in {PidOf(j), ChmodOf(j), EndOf(j), <<>>} => ino[fd].locker = Pid(p)
       /\ d \in {ChmodOf(j), EndOf(j), <<>>} /\ j.pid => ino[fd].text = Pid(p)
       /\ d = <<>> /\ j.tool = "perpd" => sock = Pid(p)

\* A lock is held by a process that has the file open: there is always an
\* inode for a new file.
Lockers == \A i \in Inodes : ino[i].locker # None =>
             \E p \in Procs : ino[i].locker = Pid(p) /\ proc[p].fd = i

PlanInv == /\ TypeOK
           /\ \A p \in Procs : Stage(p) /\ Held(p)
           /\ Lockers

ProcType == [todo : Seq(Steps), gen : Nat, fd : Inodes \cup {None}, st : {"busy", "run", "gone"}]
InoType == [locker : Pids \cup {None}, text : Pids \cup {None}]

LEMMA Types ==
  ASSUME TypeOK
  PROVE  /\ proc \in [Procs -> ProcType] /\ ino \in [Inodes -> InoType]
         /\ \A p \in Procs : /\ job[p] \in Job /\ proc[p] \in ProcType
                             /\ Pid(p) \in Pids /\ Pid(p) # None
         /\ \A p, q \in Procs : p # q => Pid(p) # Pid(q)
<1>1. proc \in [Procs -> ProcType] /\ ino \in [Inodes -> InoType] /\ job \in [Procs -> Job]
  BY DEF TypeOK, ProcType, InoType, Steps
<1>2. ASSUME NEW p \in Procs PROVE Pid(p) \in Pids /\ Pid(p) # None
  <2>1. proc[p].gen \in Nat
    BY <1>1 DEF ProcType
  <2> QED BY <2>1, ProcsAssumption DEF Pid, Pids
<1> QED BY <1>1, <1>2 DEF Pid

\* The step a process is at tells where it is.
LEMMA AtStage ==
  ASSUME TypeOK, NEW p \in Procs, Stage(p)
  PROVE  LET j == job[p]
             d == proc[p].todo
             fd == proc[p].fd
         IN /\ At(p, "open") => Asks(p) /\ d = OpenOf(j) /\ fd = None
            /\ At(p, "lock") => Asks(p) /\ d = LockOf(j) /\ fd # None
            /\ At(p, "pid") => Asks(p) /\ d = PidOf(j) /\ j.pid /\ fd # None
            /\ At(p, "chmod") => Asks(p) /\ d = ChmodOf(j) /\ fd # None
            /\ At(p, "close") => /\ Asks(p) /\ fd # None
                                 /\ d = <<"close">> \/ (d = <<"close", "unlink">> /\ faulted)
            /\ At(p, "unlink") => fd = None /\ faulted
            /\ At(p, "fork") => Asks(p) /\ d = ForkOf(j) /\ fd = None
            /\ At(p, "fdset") => Asks(p) /\ d = EndOf(j) /\ Closes(j) /\ fd # None
            /\ At(p, "bind") => Asks(p) /\ d = EndOf(j) /\ j.tool = "perpd" /\ fd # None
            /\ At(p, "check") => ~Asks(p) /\ d = Client /\ fd = None
            /\ At(p, "kill") => fd = None
<1>1. job[p] \in Job
  BY Types
<1>2. CASE proc[p].st = "gone" \/ proc[p].todo = <<>>
  BY <1>2 DEF At
<1>3. CASE ~Asks(p) /\ proc[p].todo \in {Client, <<"kill">>} /\ proc[p].fd = None
  BY <1>3, ShortPlans DEF At
<1>4. CASE Asks(p) /\ proc[p].todo \in {ForkOf(job[p]), OpenOf(job[p])} /\ proc[p].fd = None
  BY <1>1, <1>4, Suffixes DEF At
<1>5. CASE /\ Asks(p) /\ proc[p].fd # None
           /\ proc[p].todo \in {LockOf(job[p]), PidOf(job[p]), ChmodOf(job[p])}
  BY <1>1, <1>5, Suffixes DEF At
<1>6. CASE Asks(p) /\ proc[p].todo = EndOf(job[p]) /\ proc[p].fd # None
  BY <1>1, <1>6, Suffixes DEF At
<1>7. CASE Asks(p) /\ proc[p].todo = <<"close">> /\ proc[p].fd # None
  BY <1>7, ShortPlans DEF At
<1>8. CASE Asks(p) /\ proc[p].todo = <<"close", "unlink">> /\ proc[p].fd # None /\ faulted
  BY <1>8, ShortPlans DEF At
<1>9. CASE Asks(p) /\ proc[p].todo = <<"unlink">> /\ proc[p].fd = None /\ faulted
  BY <1>9, ShortPlans DEF At
<1> QED BY <1>2, <1>3, <1>4, <1>5, <1>6, <1>7, <1>8, <1>9 DEF Stage

\* Ending, forking and closing release the locks of one process only.
LEMMA Unlocks ==
  ASSUME TypeOK, NEW pid \in Pids
  PROVE  /\ Unlocked(pid) \in [Inodes -> InoType]
         /\ \A i \in Inodes : /\ Unlocked(pid)[i].locker \in {None, ino[i].locker}
                              /\ Unlocked(pid)[i].locker # pid
                              /\ ino[i].locker # pid => Unlocked(pid)[i] = ino[i]
<1>1. pid # None
  BY ProcsAssumption DEF Pids
<1>2. ASSUME NEW i \in Inodes
      PROVE  /\ Unlocked(pid)[i] \in InoType
             /\ Unlocked(pid)[i].locker \in {None, ino[i].locker}
             /\ Unlocked(pid)[i].locker # pid
             /\ ino[i].locker # pid => Unlocked(pid)[i] = ino[i]
  <2>1. ino[i] \in InoType
    BY Types
  <2> QED BY <1>1, <2>1 DEF Unlocked, InoType
<1> QED BY <1>2 DEF Unlocked

\* A step of p keeps the invariant if it does so for p, and takes no lock,
\* text or socket from another.
LEMMA StepKeeps ==
  ASSUME PlanInv, TypeOK', NEW p \in Procs,
         UNCHANGED job, faulted => faulted',
         \A q \in Procs \ {p} : proc'[q] = proc[q],
         Stage(p)', Held(p)',
         ~faulted' => name' = name \/ name = None,
         \A i \in Inodes : \/ ino'[i].locker \in {None, ino[i].locker}
                           \/ ino'[i].locker = <<p, proc'[p].gen>> /\ proc'[p].fd = i,
         \A i \in Inodes : ino'[i].locker = Pid(p) /\ ino[i].locker = Pid(p) /\ proc[p].fd = i
                             => proc'[p].gen = proc[p].gen /\ proc'[p].fd = i,
         ~faulted' => \A i \in Inodes, q \in Procs \ {p} :
                        ino[i].locker = Pid(q) => ino'[i] = ino[i],
         ~faulted' => \/ sock' = sock
                      \/ proc[p].fd # None /\ ino[proc[p].fd].locker = Pid(p)
  PROVE  PlanInv'
<1>1. TypeOK /\ \A q \in Procs : Stage(q) /\ Held(q)
  BY DEF PlanInv
<1>2. ASSUME NEW q \in Procs \ {p} PROVE Stage(q)'
  BY <1>1, <1>2 DEF Stage, Asks
<1>3. ASSUME NEW q \in Procs \ {p} PROVE Held(q)'
  <2> SUFFICES ASSUME ~faulted', proc[q].fd # None PROVE Held(q)'
    BY <1>3 DEF Held
  <2>1. ~faulted /\ proc'[q] = proc[q] /\ Pid(q)' = Pid(q) /\ job'[q] = job[q]
    BY <1>3 DEF Pid
  <2>2. proc[q].fd = name /\ name # None /\ name' = name /\ name \in Inodes
    <3>1. proc[q].fd = name /\ name # None
      BY <1>1, <2>1 DEF Held
    <3> QED BY <1>1, <3>1 DEF TypeOK
  <2>3. ino[name].locker = Pid(q) => ino'[name] = ino[name]
    BY <1>3, <2>2
  <2>4. ASSUME ino[name].locker = Pid(q) PROVE sock' = sock
    <3>1. ASSUME proc[p].fd # None, ino[proc[p].fd].locker = Pid(p) PROVE FALSE
      <4>1. proc[p].fd = name
        BY <1>1, <2>1, <3>1 DEF Held
      <4> QED BY <1>1, <1>3, <2>4, <3>1, <4>1, Types
    <3> QED BY <3>1
  <2>5. /\ proc[q].todo \in {PidOf(job[q]), ChmodOf(job[q]), EndOf(job[q]), <<>>}
             => ino[name].locker = Pid(q)
        /\ proc[q].todo \in {ChmodOf(job[q]), EndOf(job[q]), <<>>} /\ job[q].pid
             => ino[name].text = Pid(q)
        /\ proc[q].todo = <<>> /\ job[q].tool = "perpd" => sock = Pid(q)
    BY <1>1, <2>1, <2>2 DEF Held
  <2> QED BY <2>1, <2>2, <2>3, <2>4, <2>5 DEF Held
<1>4. Lockers'
  <2> SUFFICES ASSUME NEW i \in Inodes, ino'[i].locker # None
               PROVE  \E q \in Procs : ino'[i].locker = Pid(q)' /\ proc'[q].fd = i
    BY DEF Lockers
  <2>1. CASE ino'[i].locker = <<p, proc'[p].gen>> /\ proc'[p].fd = i
    BY <2>1 DEF Pid
  <2>2. CASE ino'[i].locker = ino[i].locker
    <3>1. PICK q \in Procs : ino[i].locker = Pid(q) /\ proc[q].fd = i
      BY <2>2 DEF PlanInv, Lockers
    <3>2. CASE q # p
      BY <2>2, <3>1, <3>2 DEF Pid
    <3>3. CASE q = p
      BY <2>2, <3>1, <3>3 DEF Pid
    <3> QED BY <3>2, <3>3
  <2> QED BY <2>1, <2>2
<1> QED BY <1>2, <1>3, <1>4 DEF PlanInv

\* While the name is free there is an inode nobody uses: open() finds one.
LEMMA FreeInode ==
  ASSUME TypeOK, Lockers, name = None
  PROVE  LET i == CHOOSE j \in Inodes : j \notin Used
         IN  /\ i \in Inodes /\ i # None /\ ino[i].locker = None
             /\ \A q \in Procs : proc[q].fd # i
<1> DEFINE f == [q \in Procs |-> proc[q].fd]
           R == {proc[q].fd : q \in Procs}
<1>1. f \in Surjection(Procs, R)
  BY DEF Surjection
<1>2. IsFiniteSet(R) /\ Cardinality(R) <= Cardinality(Procs)
  BY <1>1, ProcsAssumption, FS_Surjection
<1>3. \E i \in Inodes : i \notin R
  <2> SUFFICES ASSUME Inodes \subseteq R PROVE FALSE
    OBVIOUS
  <2>1. IsFiniteSet(Inodes) /\ Cardinality(Inodes) <= Cardinality(R)
    BY <1>2, FS_Subset
  <2>2. Cardinality(Inodes) \in Nat /\ Cardinality(R) \in Nat /\ Cardinality(Procs) \in Nat
    BY <1>2, <2>1, ProcsAssumption, FS_CardinalityType
  <2> QED BY <1>2, <2>1, <2>2, InodesAssumption
<1>4. \A i \in Inodes : i \notin R => i \notin Used
  BY InodesAssumption DEF Used, Lockers
<1>5. \E i \in Inodes : i \notin Used
  BY <1>3, <1>4
<1> DEFINE i == CHOOSE j \in Inodes : j \notin Used
<1>6. i \in Inodes /\ i \notin Used
  BY <1>5
<1> HIDE DEF i
<1>7. ino[i].locker = None /\ \A q \in Procs : proc[q].fd # i
  BY <1>6 DEF Used
<1> QED BY <1>6, <1>7, InodesAssumption DEF i

-----------------------------------------------------------------------------
(* One lemma for each kind of step. *)

\* The process is gone, or has given up the file: nothing is asked of it.
LEMMA LetsGo ==
  ASSUME PlanInv, NEW p \in Procs, TypeOK',
         UNCHANGED job, faulted => faulted',
         ~faulted' => \/ sock' = sock
                      \/ proc[p].fd # None /\ ino[proc[p].fd].locker = Pid(p),
         ~faulted' => name' = name,
         \A q \in Procs \ {p} : proc'[q] = proc[q],
         proc'[p].fd = None, Stage(p)',
         \A i \in Inodes : /\ ino'[i].locker \in {None, ino[i].locker}
                           /\ ino'[i].locker = Pid(p) => ino[i].locker # Pid(p)
                           /\ \A q \in Procs \ {p} : ino[i].locker = Pid(q) => ino'[i] = ino[i]
  PROVE  PlanInv'
<1>1. Held(p)'
  BY DEF Held
<1> QED BY <1>1, StepKeeps

\* A process without the file has no lock to lose.
LEMMA NoLock ==
  ASSUME PlanInv, NEW p \in Procs, proc[p].fd = None, NEW i \in Inodes
  PROVE  ino[i].locker # Pid(p)
<1> SUFFICES ASSUME ino[i].locker = Pid(p) PROVE FALSE
  OBVIOUS
<1>1. TypeOK /\ Lockers
  BY DEF PlanInv
<1>2. PICK q \in Procs : ino[i].locker = Pid(q) /\ proc[q].fd = i
  BY <1>1, Types DEF Lockers
<1>3. q = p
  BY <1>1, <1>2, Types
<1> QED BY <1>2, <1>3, InodesAssumption

LEMMA Gone_step ==
  ASSUME PlanInv, NEW p \in Procs, proc' = Gone(p), TypeOK',
         UNCHANGED job, faulted => faulted', ~faulted' => name' = name,
         ~faulted' => \/ sock' = sock
                      \/ proc[p].fd # None /\ ino[proc[p].fd].locker = Pid(p),
         \/ ino' = Unlocked(Pid(p))
         \/ ino' = ino /\ proc[p].fd = None
  PROVE  PlanInv'
<1>1. TypeOK
  BY DEF PlanInv
<1>2. /\ proc'[p].fd = None /\ proc'[p].todo = <<>> /\ proc'[p].st = "gone"
      /\ \A q \in Procs \ {p} : proc'[q] = proc[q]
  BY <1>1, Types DEF Gone, ProcType
<1>3. Stage(p)'
  BY <1>2 DEF Stage
<1>4. ASSUME NEW i \in Inodes
      PROVE  /\ ino'[i].locker \in {None, ino[i].locker}
             /\ ino'[i].locker = Pid(p) => ino[i].locker # Pid(p)
             /\ \A q \in Procs \ {p} : ino[i].locker = Pid(q) => ino'[i] = ino[i]
  <2>1. CASE ino' = Unlocked(Pid(p))
    BY <1>1, <2>1, Types, Unlocks
  <2>2. CASE ino' = ino /\ proc[p].fd = None
    BY <1>1, <2>2, NoLock
  <2> QED BY <2>1, <2>2
<1> QED BY <1>2, <1>3, <1>4, LetsGo

-----------------------------------------------------------------------------
(* The types. *)

LEMMA KeepsType ==
  ASSUME TypeOK, UNCHANGED job,
         proc' \in [Procs -> ProcType], ino' \in [Inodes -> InoType],
         name' \in Inodes \cup {None}, sock' \in Pids \cup {None},
         hup' \subseteq [by : Pids, pid : Pids, got : {"asked", "sent", "ESRCH"}],
         \/ budget' = budget
         \/ \E e \in Events : Spend(e),
         faulted' \in BOOLEAN
  PROVE  TypeOK'
<1>1. budget' \in [Events -> Nat]
  <2>1. budget \in [Events -> Nat]
    BY DEF TypeOK
  <2>2. ASSUME NEW e \in Events, Spend(e) PROVE budget' \in [Events -> Nat]
    <3>1. budget[e] \in Nat /\ budget[e] > 0
      BY <2>1, <2>2 DEF Spend
    <3>2. budget[e] - 1 \in Nat
      BY <3>1
    <3> QED BY <2>1, <2>2, <3>2 DEF Spend
  <2> QED BY <2>1, <2>2
<1> QED BY <1>1 DEF TypeOK, ProcType, InoType, Steps

LEMMA ProcTypes ==
  ASSUME TypeOK, NEW p \in Procs
  PROVE  /\ Gone(p) \in [Procs -> ProcType]
         /\ proc[p].todo # <<>> => Done(p) \in [Procs -> ProcType]
         /\ \A w \in Seq(Steps) : [proc EXCEPT ![p].todo = w] \in [Procs -> ProcType]
<1>1. proc \in [Procs -> ProcType] /\ proc[p] \in ProcType
  BY Types
<1>2. <<>> \in Seq(Steps)
  OBVIOUS
<1>3. proc[p].todo # <<>> => Tail(proc[p].todo) \in Seq(Steps)
  BY <1>1 DEF ProcType
<1>4. \A w \in Seq(Steps) : [proc EXCEPT ![p].todo = w] \in [Procs -> ProcType]
  BY <1>1 DEF ProcType
<1>5. Done(p) = [proc EXCEPT ![p].todo = Tail(proc[p].todo)]
  BY <1>1 DEF Done
<1>6. Gone(p) \in [Procs -> ProcType]
  BY <1>1, <1>2 DEF Gone, ProcType
<1> QED BY <1>3, <1>4, <1>5, <1>6

\* What a step that only changes the plan of p leaves.
LEMMA DoneIs ==
  ASSUME TypeOK, NEW p \in Procs, NEW w, proc' = [proc EXCEPT ![p].todo = w]
  PROVE  /\ proc'[p].todo = w /\ proc'[p].gen = proc[p].gen
         /\ proc'[p].fd = proc[p].fd /\ proc'[p].st = proc[p].st
         /\ Pid(p)' = Pid(p)
         /\ \A q \in Procs \ {p} : proc'[q] = proc[q]
<1>1. proc \in [Procs -> ProcType] /\ proc[p] \in ProcType
  BY Types
<1>2. proc'[p] = [proc[p] EXCEPT !.todo = w]
  BY <1>1
<1>3. \A q \in Procs \ {p} : proc'[q] = proc[q]
  BY <1>1
<1> QED BY <1>1, <1>2, <1>3 DEF ProcType, Pid

-----------------------------------------------------------------------------
(* The steps that end a process. *)

LEMMA Ends ==
  ASSUME PlanInv, NEW p \in Procs, End(p) \/ Crash(p) \/ Kill(p) \/ Unlink(p)
  PROVE  PlanInv'
<1>1. TypeOK /\ Stage(p)
  BY DEF PlanInv
<1>2. proc' = Gone(p) /\ UNCHANGED <<job, sock, faulted>>
  BY DEF End, Crash, Kill, Unlink
<1>3. \/ ino' = Unlocked(Pid(p))
      \/ ino' = ino /\ proc[p].fd = None
  BY <1>1, AtStage DEF End, Crash, Kill, Unlink
<1>4. ~faulted => name' = name
  BY <1>1, AtStage DEF End, Crash, Kill, Unlink
<1>5. TypeOK'
  <2>1. proc' \in [Procs -> ProcType]
    BY <1>1, <1>2, ProcTypes
  <2>2. ino' \in [Inodes -> InoType]
    BY <1>1, <1>3, Types, Unlocks
  <2>3. name' \in Inodes \cup {None} /\ sock' \in Pids \cup {None} /\ faulted' \in BOOLEAN
    BY <1>1, <1>2 DEF TypeOK, End, Crash, Kill, Unlink
  <2>4. hup' \subseteq [by : Pids, pid : Pids, got : {"asked", "sent", "ESRCH"}]
    <3>1. hup \subseteq [by : Pids, pid : Pids, got : {"asked", "sent", "ESRCH"}]
      BY <1>1 DEF TypeOK
    <3>2. CASE Kill(p)
      BY <3>1, <3>2 DEF Kill
    <3> QED BY <3>1, <3>2 DEF End, Crash, Unlink
  <2>5. budget' = budget \/ \E e \in Events : Spend(e)
    BY DEF End, Crash, Kill, Unlink, Events
  <2> QED BY <1>1, <1>2, <2>1, <2>2, <2>3, <2>4, <2>5, KeepsType
<1> QED BY <1>2, <1>3, <1>4, <1>5, Gone_step

LEMMA Bind_fails_step ==
  ASSUME PlanInv, NEW p \in Procs, Bind_fails(p) PROVE PlanInv'
<1>1. TypeOK /\ Stage(p) /\ Held(p) /\ Pid(p) \in Pids
  BY Types DEF PlanInv
<1>2. proc[p].todo = EndOf(job[p]) /\ proc[p].fd # None
  BY <1>1, AtStage DEF Bind_fails
<1>3. /\ proc' = Gone(p) /\ ino' = Unlocked(Pid(p)) /\ UNCHANGED <<job, name, hup, faulted>>
      /\ Spend("fail") /\ sock' \in {sock, None, Pid(p)}
  BY DEF Bind_fails
<1>4. TypeOK'
  <2>1. proc' \in [Procs -> ProcType]
    BY <1>1, <1>3, ProcTypes
  <2>2. ino' \in [Inodes -> InoType]
    BY <1>1, <1>3, Types, Unlocks
  <2>3. /\ name' \in Inodes \cup {None} /\ sock' \in Pids \cup {None} /\ faulted' \in BOOLEAN
        /\ hup' \subseteq [by : Pids, pid : Pids, got : {"asked", "sent", "ESRCH"}]
    BY <1>1, <1>3 DEF TypeOK
  <2>4. \E e \in Events : Spend(e)
    BY <1>3 DEF Events
  <2> QED BY <1>1, <1>3, <2>1, <2>2, <2>3, <2>4, KeepsType
<1>5. ~faulted => ino[proc[p].fd].locker = Pid(p)
  BY <1>1, <1>2 DEF Held
<1> QED BY <1>2, <1>3, <1>4, <1>5, Gone_step

-----------------------------------------------------------------------------
(* The steps that change only what the process has to do. *)

\* The plan w comes next: it is as far, and what it requires is held.
LEMMA Proceeds ==
  ASSUME PlanInv, NEW p \in Procs, NEW w \in Seq(Steps),
         proc' = [proc EXCEPT ![p].todo = w],
         UNCHANGED <<job, name, ino, sock>>, faulted => faulted', faulted' \in BOOLEAN,
         hup' \subseteq [by : Pids, pid : Pids, got : {"asked", "sent", "ESRCH"}],
         budget' = budget \/ \E e \in Events : Spend(e),
         Stage(p)', Held(p)'
  PROVE  PlanInv'
<1>1. TypeOK
  BY DEF PlanInv
<1>2. proc' \in [Procs -> ProcType]
  BY <1>1, ProcTypes
<1>3. TypeOK'
  <2>1. ino' \in [Inodes -> InoType]
    BY <1>1, Types
  <2>2. name' \in Inodes \cup {None} /\ sock' \in Pids \cup {None}
    BY <1>1 DEF TypeOK
  <2> QED BY <1>1, <1>2, <2>1, <2>2, KeepsType
<1>4. /\ proc'[p].gen = proc[p].gen /\ proc'[p].fd = proc[p].fd
      /\ \A q \in Procs \ {p} : proc'[q] = proc[q]
  BY <1>1, DoneIs
<1> QED BY <1>3, <1>4, StepKeeps

\* The plans that come before the lock is held differ from the later ones.
LEMMA Distinct ==
  ASSUME NEW j \in Job
  PROVE  /\ {LockOf(j), <<"close">>, <<"close", "unlink">>}
              \cap {PidOf(j), ChmodOf(j), EndOf(j), <<>>} = {}
         /\ j.pid => PidOf(j) \notin {ChmodOf(j), EndOf(j), <<>>}
         /\ j.tool = "perpd" => <<>> \notin {LockOf(j), PidOf(j), ChmodOf(j), EndOf(j)}
         /\ ChmodOf(j) # <<>> /\ PidOf(j) # <<>>
BY Suffixes, ShortPlans

LEMMA Locked_out_step ==
  ASSUME PlanInv, NEW p \in Procs, Locked_out(p) PROVE PlanInv'
<1>1. TypeOK /\ Stage(p) /\ Held(p) /\ job[p] \in Job
  BY Types DEF PlanInv
<1>2. Asks(p) /\ proc[p].todo = LockOf(job[p]) /\ proc[p].fd # None /\ proc[p].st = "busy"
  BY <1>1, AtStage DEF Locked_out, At
<1>3. /\ proc' = [proc EXCEPT ![p].todo = <<"close">>]
      /\ UNCHANGED <<job, name, ino, sock, hup, budget, faulted>>
  BY DEF Locked_out, InUse
<1>4. /\ proc'[p].todo = <<"close">> /\ proc'[p].fd = proc[p].fd /\ proc'[p].st = "busy"
  BY <1>1, <1>2, <1>3, DoneIs
<1>5. Stage(p)'
  BY <1>2, <1>3, <1>4 DEF Stage, Asks
<1>6. Held(p)'
  BY <1>1, <1>2, <1>3, <1>4, Distinct DEF Held
<1>7. /\ hup' \subseteq [by : Pids, pid : Pids, got : {"asked", "sent", "ESRCH"}]
      /\ faulted' \in BOOLEAN
  BY <1>1, <1>3 DEF TypeOK
<1> QED BY <1>3, <1>5, <1>6, <1>7, Proceeds, ShortPlans

LEMMA Fchmod_step ==
  ASSUME PlanInv, NEW p \in Procs, Fchmod(p) PROVE PlanInv'
<1> DEFINE j == job[p]
<1>1. TypeOK /\ Stage(p) /\ Held(p) /\ j \in Job
  BY Types DEF PlanInv
<1>2. Asks(p) /\ proc[p].todo = ChmodOf(j) /\ proc[p].fd # None /\ proc[p].st = "busy"
  BY <1>1, AtStage DEF Fchmod, At
<1>3. /\ proc' = [proc EXCEPT ![p].todo = EndOf(j)]
      /\ UNCHANGED <<job, name, ino, sock, hup, budget, faulted>>
  <2>1. proc' = [proc EXCEPT ![p].todo = Tail(proc[p].todo)]
    BY <1>1, Types DEF Fchmod, Done
  <2> QED BY <1>1, <1>2, <2>1, Suffixes DEF Fchmod
<1>4. /\ proc'[p].todo = EndOf(j) /\ proc'[p].fd = proc[p].fd /\ proc'[p].st = "busy"
      /\ Pid(p)' = Pid(p)
  BY <1>1, <1>2, <1>3, DoneIs
<1>5. Stage(p)'
  <2>1. EndOf(j) = <<>> => ~Closes(j)
    BY <1>1, Suffixes
  <2> QED BY <1>2, <1>3, <1>4, <2>1 DEF Stage, Asks
<1>6. Held(p)'
  <2>1. EndOf(j) = <<>> => j.tool # "perpd"
    BY <1>1, Suffixes
  <2> QED BY <1>1, <1>2, <1>3, <1>4, <2>1 DEF Held
<1>7. /\ hup' \subseteq [by : Pids, pid : Pids, got : {"asked", "sent", "ESRCH"}]
      /\ faulted' \in BOOLEAN
  BY <1>1, <1>3 DEF TypeOK
<1> QED BY <1>1, <1>3, <1>5, <1>6, <1>7, Proceeds, Suffixes

LEMMA Set_fails_step ==
  ASSUME PlanInv, NEW p \in Procs, Set_fails(p) PROVE PlanInv'
<1>1. TypeOK /\ Stage(p) /\ Held(p) /\ job[p] \in Job
  BY Types DEF PlanInv
<1>2. Asks(p) /\ proc[p].fd # None /\ proc[p].st = "busy"
  BY <1>1, AtStage DEF Set_fails, At
<1>3. /\ proc' = [proc EXCEPT ![p].todo = <<"close", "unlink">>]
      /\ UNCHANGED <<job, name, ino, sock, hup>> /\ faulted' = TRUE /\ Spend("fail")
  BY DEF Set_fails
<1>4. /\ proc'[p].todo = <<"close", "unlink">> /\ proc'[p].fd = proc[p].fd /\ proc'[p].st = "busy"
  BY <1>1, <1>2, <1>3, DoneIs
<1>5. Stage(p)'
  BY <1>2, <1>3, <1>4 DEF Stage, Asks
<1>6. Held(p)'
  BY <1>3 DEF Held
<1>7. hup' \subseteq [by : Pids, pid : Pids, got : {"asked", "sent", "ESRCH"}]
  BY <1>1, <1>3 DEF TypeOK
<1> QED BY <1>3, <1>5, <1>6, <1>7, Proceeds, ShortPlans DEF Events

LEMMA Check_step ==
  ASSUME PlanInv, NEW p \in Procs, Check(p) PROVE PlanInv'
<1>1. TypeOK /\ Stage(p) /\ Held(p) /\ job[p] \in Job
  BY Types DEF PlanInv
<1>2. ~Asks(p) /\ proc[p].todo = Client /\ proc[p].fd = None /\ proc[p].st = "busy"
  BY <1>1, AtStage DEF Check, At
<1>3. UNCHANGED <<job, name, ino, sock, budget, faulted>>
  BY DEF Check
<1>4. CASE name = None \/ ino[name].locker = None
  <2>1. proc' = Gone(p) /\ hup' = hup
    BY <1>4 DEF Check
  <2>2. TypeOK'
    <3>1. /\ proc' \in [Procs -> ProcType] /\ ino' \in [Inodes -> InoType]
      BY <1>1, <1>3, <2>1, ProcTypes, Types
    <3>2. /\ name' \in Inodes \cup {None} /\ sock' \in Pids \cup {None} /\ faulted' \in BOOLEAN
          /\ hup' \subseteq [by : Pids, pid : Pids, got : {"asked", "sent", "ESRCH"}]
      BY <1>1, <1>3, <2>1 DEF TypeOK
    <3> QED BY <1>1, <1>3, <3>1, <3>2, KeepsType
  <2> QED BY <1>2, <1>3, <2>1, <2>2, Gone_step
<1>5. CASE ~(name = None \/ ino[name].locker = None)
  <2> DEFINE h == [by |-> Pid(p), pid |-> ino[name].locker, got |-> "asked"]
  <2>1. proc' = Done(p) /\ hup' = hup \cup {h}
    BY <1>5 DEF Check
  <2>2. proc' = [proc EXCEPT ![p].todo = <<"kill">>]
    <3>1. proc' = [proc EXCEPT ![p].todo = Tail(proc[p].todo)]
      BY <1>1, <2>1, Types DEF Done
    <3> QED BY <1>2, <3>1, ShortPlans
  <2>3. proc'[p].todo = <<"kill">> /\ proc'[p].fd = None /\ proc'[p].st = "busy"
    BY <1>1, <1>2, <2>2, DoneIs
  <2>4. Stage(p)' /\ Held(p)'
    BY <1>2, <1>3, <2>3 DEF Stage, Held, Asks
  <2>5. h \in [by : Pids, pid : Pids, got : {"asked", "sent", "ESRCH"}]
    <3>1. name \in Inodes /\ Pid(p) \in Pids
      BY <1>1, <1>5, Types DEF TypeOK
    <3>2. ino[name].locker \in Pids
      BY <1>1, <1>5, <3>1, Types DEF InoType
    <3> QED BY <3>1, <3>2
  <2> HIDE DEF h
  <2>6. /\ hup' \subseteq [by : Pids, pid : Pids, got : {"asked", "sent", "ESRCH"}]
        /\ faulted' \in BOOLEAN
    BY <1>1, <1>3, <2>1, <2>5 DEF TypeOK
  <2> QED BY <1>3, <2>2, <2>4, <2>6, Proceeds, ShortPlans
<1> QED BY <1>4, <1>5

-----------------------------------------------------------------------------
(* The steps that change the process otherwise, and give no lock to it. *)

\* A process without the file begins, forks or loses it.
LEMMA Moves ==
  ASSUME PlanInv, NEW p \in Procs, proc' \in [Procs -> ProcType],
         \A q \in Procs \ {p} : proc'[q] = proc[q], proc'[p].fd = None, Stage(p)',
         UNCHANGED <<job, name, sock, hup, faulted>>,
         budget' = budget \/ \E e \in Events : Spend(e),
         \/ ino' = Unlocked(Pid(p))
         \/ ino' = ino /\ proc[p].fd = None
  PROVE  PlanInv'
<1>1. TypeOK /\ proc \in [Procs -> ProcType]
  BY Types DEF PlanInv
<1>3. TypeOK'
  <2>2. ino' \in [Inodes -> InoType]
    BY <1>1, Types, Unlocks
  <2>3. /\ name' \in Inodes \cup {None} /\ sock' \in Pids \cup {None} /\ faulted' \in BOOLEAN
        /\ hup' \subseteq [by : Pids, pid : Pids, got : {"asked", "sent", "ESRCH"}]
    BY <1>1 DEF TypeOK
  <2> QED BY <1>1, <2>2, <2>3, KeepsType
<1>4. ASSUME NEW i \in Inodes
      PROVE  /\ ino'[i].locker \in {None, ino[i].locker}
             /\ ino'[i].locker = Pid(p) => ino[i].locker # Pid(p)
             /\ \A q \in Procs \ {p} : ino[i].locker = Pid(q) => ino'[i] = ino[i]
  <2>1. CASE ino' = Unlocked(Pid(p))
    BY <1>1, <2>1, Types, Unlocks
  <2>2. CASE ino' = ino /\ proc[p].fd = None
    BY <1>1, <2>2, NoLock
  <2> QED BY <2>1, <2>2
<1> QED BY <1>3, <1>4, LetsGo

LEMMA Start_step ==
  ASSUME PlanInv, NEW p \in Procs, Start(p) PROVE PlanInv'
<1>1. TypeOK /\ Stage(p) /\ job[p] \in Job /\ proc[p] \in ProcType
  BY Types DEF PlanInv
<1> DEFINE r == [todo |-> Plan(job[p]), gen |-> proc[p].gen + 1, fd |-> None, st |-> "busy"]
<1>2. proc[p].st = "gone" /\ proc' = [proc EXCEPT ![p] = r] /\ Spend("start")
      /\ UNCHANGED <<job, name, ino, sock, hup, faulted>>
  BY DEF Start
<1>3. proc[p].fd = None
  BY <1>1, <1>2 DEF Stage
<1>4. Plan(job[p]) \in Seq(Steps)
  BY <1>1, Plans, Suffixes, ShortPlans
<1>5. /\ proc' \in [Procs -> ProcType] /\ proc'[p] = r
      /\ \A q \in Procs \ {p} : proc'[q] = proc[q]
  <2>1. r \in ProcType
    BY <1>1, <1>4 DEF ProcType
  <2> QED BY <1>1, <1>2, <2>1, Types
<1>6. Stage(p)'
  <2>1. proc'[p].todo = Plan(job[p]) /\ proc'[p].fd = None /\ proc'[p].st = "busy"
    BY <1>5
  <2>2. IF Asks(p) THEN Plan(job[p]) \in {ForkOf(job[p]), OpenOf(job[p])} ELSE Plan(job[p]) = Client
    BY <1>1, Plans DEF Asks
  <2> QED BY <1>2, <2>1, <2>2 DEF Stage, Asks
<1> QED BY <1>2, <1>3, <1>5, <1>6, Moves DEF Events

LEMMA Fork_step ==
  ASSUME PlanInv, NEW p \in Procs, Fork(p) PROVE PlanInv'
<1> DEFINE j == job[p]
<1>1. TypeOK /\ Stage(p) /\ j \in Job /\ proc[p] \in ProcType
  BY Types DEF PlanInv
<1>2. Asks(p) /\ proc[p].todo = ForkOf(j) /\ proc[p].fd = None /\ proc[p].st = "busy"
  BY <1>1, AtStage DEF Fork, At
<1>3. Tail(proc[p].todo) = OpenOf(j) /\ OpenOf(j) \in Seq(Steps)
  BY <1>1, <1>2, Suffixes
<1>4. /\ proc' \in [Procs -> ProcType]
      /\ proc'[p].todo = OpenOf(j) /\ proc'[p].fd = None /\ proc'[p].st = "busy"
      /\ \A q \in Procs \ {p} : proc'[q] = proc[q]
  BY <1>1, <1>2, <1>3, Types DEF Fork, ProcType
<1>5. ino' = Unlocked(Pid(p)) /\ UNCHANGED <<job, name, sock, hup, budget, faulted>>
  BY DEF Fork
<1>6. Stage(p)'
  BY <1>2, <1>4, <1>5 DEF Stage, Asks
<1> QED BY <1>4, <1>5, <1>6, Moves

\* The process goes on without the file, or with the file i.
LEMMA WithFd ==
  ASSUME TypeOK, NEW p \in Procs, proc[p].todo # <<>>, NEW i \in Inodes \cup {None},
         proc' = [proc EXCEPT ![p].todo = Tail(@), ![p].fd = i]
  PROVE  /\ proc' \in [Procs -> ProcType]
         /\ proc'[p].todo = Tail(proc[p].todo) /\ proc'[p].gen = proc[p].gen
         /\ proc'[p].fd = i /\ proc'[p].st = proc[p].st
         /\ \A q \in Procs \ {p} : proc'[q] = proc[q]
<1>1. proc \in [Procs -> ProcType] /\ proc[p] \in ProcType
  BY Types
<1>2. Tail(proc[p].todo) \in Seq(Steps)
  BY <1>1 DEF ProcType
<1> QED BY <1>1, <1>2 DEF ProcType

LEMMA Fdset_step ==
  ASSUME PlanInv, NEW p \in Procs, Fdset(p) PROVE PlanInv'
<1> DEFINE j == job[p]
<1>1. TypeOK /\ Stage(p) /\ j \in Job /\ proc[p] \in ProcType
  BY Types DEF PlanInv
<1>2. Asks(p) /\ proc[p].todo = EndOf(j) /\ Closes(j) /\ proc[p].st = "busy"
  BY <1>1, AtStage DEF Fdset, At
<1>3. Tail(proc[p].todo) = <<>> /\ proc[p].todo # <<>>
  BY <1>1, <1>2, Suffixes DEF Closes
<1>4. /\ proc' \in [Procs -> ProcType]
      /\ proc'[p].todo = <<>> /\ proc'[p].fd = None /\ proc'[p].st = "busy"
      /\ \A q \in Procs \ {p} : proc'[q] = proc[q]
  BY <1>1, <1>2, <1>3, WithFd DEF Fdset
<1>5. ino' = Unlocked(Pid(p)) /\ UNCHANGED <<job, name, sock, hup, budget, faulted>>
  BY DEF Fdset
<1>6. Stage(p)'
  BY <1>2, <1>4, <1>5 DEF Stage, Asks
<1> QED BY <1>4, <1>5, <1>6, Moves

LEMMA Close_step ==
  ASSUME PlanInv, NEW p \in Procs, Close(p) PROVE PlanInv'
<1>1. TypeOK /\ Stage(p) /\ proc[p] \in ProcType
  BY Types DEF PlanInv
<1>2. /\ Asks(p) /\ proc[p].st = "busy"
      /\ proc[p].todo = <<"close">> \/ (proc[p].todo = <<"close", "unlink">> /\ faulted)
  BY <1>1, AtStage DEF Close, At
<1>3. ino' = Unlocked(Pid(p)) /\ UNCHANGED <<job, name, sock, hup, budget, faulted>>
  BY DEF Close
<1>4. CASE proc[p].todo = <<"close">>
  <2>1. proc' = Gone(p)
    BY <1>4, ShortPlans DEF Close
  <2>2. TypeOK'
    <3>1. /\ proc' \in [Procs -> ProcType] /\ ino' \in [Inodes -> InoType]
      BY <1>1, <1>3, <2>1, ProcTypes, Types, Unlocks
    <3>2. /\ name' \in Inodes \cup {None} /\ sock' \in Pids \cup {None} /\ faulted' \in BOOLEAN
          /\ hup' \subseteq [by : Pids, pid : Pids, got : {"asked", "sent", "ESRCH"}]
      BY <1>1, <1>3 DEF TypeOK
    <3> QED BY <1>1, <1>3, <3>1, <3>2, KeepsType
  <2> QED BY <1>3, <2>1, <2>2, Gone_step
<1>5. CASE proc[p].todo = <<"close", "unlink">> /\ faulted
  <2>1. Tail(proc[p].todo) = <<"unlink">> /\ Tail(proc[p].todo) # <<>> /\ proc[p].todo # <<>>
    BY <1>5, ShortPlans
  <2>2. /\ proc' \in [Procs -> ProcType]
        /\ proc'[p].todo = <<"unlink">> /\ proc'[p].fd = None /\ proc'[p].st = "busy"
        /\ \A q \in Procs \ {p} : proc'[q] = proc[q]
    BY <1>1, <1>2, <2>1, WithFd DEF Close
  <2>3. Stage(p)'
    BY <1>2, <1>3, <1>5, <2>2 DEF Stage, Asks
  <2> QED BY <1>3, <2>2, <2>3, Moves
<1> QED BY <1>2, <1>4, <1>5

LEMMA Exec_step ==
  ASSUME PlanInv, NEW p \in Procs, Exec(p) PROVE PlanInv'
<1>1. TypeOK /\ Stage(p) /\ Held(p) /\ proc[p] \in ProcType /\ job[p] \in Job
  BY Types DEF PlanInv
<1>2. /\ proc[p].st = "busy" /\ proc[p].todo = <<>>
      /\ UNCHANGED <<job, name, ino, sock, hup, budget, faulted>>
  BY DEF Exec
<1>3. /\ proc' \in [Procs -> ProcType]
      /\ proc'[p].todo = <<>> /\ proc'[p].gen = proc[p].gen /\ proc'[p].fd = proc[p].fd
      /\ proc'[p].st = "run" /\ Pid(p)' = Pid(p)
      /\ \A q \in Procs \ {p} : proc'[q] = proc[q]
  BY <1>1, <1>2, Types DEF Exec, ProcType, Pid
<1>4. Asks(p) /\ (proc[p].fd = None <=> Closes(job[p]))
  BY <1>1, <1>2, Suffixes, ShortPlans DEF Stage
<1>5. Stage(p)' /\ Held(p)'
  <2>1. Stage(p)'
    BY <1>2, <1>3, <1>4 DEF Stage, Asks
  <2>2. Held(p)'
    BY <1>1, <1>2, <1>3 DEF Held
  <2> QED BY <2>1, <2>2
<1>6. TypeOK'
  <2>1. /\ name' \in Inodes \cup {None} /\ sock' \in Pids \cup {None} /\ faulted' \in BOOLEAN
        /\ hup' \subseteq [by : Pids, pid : Pids, got : {"asked", "sent", "ESRCH"}]
    BY <1>1, <1>2 DEF TypeOK
  <2> QED BY <1>1, <1>2, <1>3, <2>1, Types, KeepsType
<1> QED BY <1>2, <1>3, <1>5, <1>6, StepKeeps

-----------------------------------------------------------------------------
(* The steps that take the file, the lock, the text and the socket. *)

LEMMA Open_step ==
  ASSUME PlanInv, NEW p \in Procs, Open(p) PROVE PlanInv'
<1> DEFINE j == job[p]
           i == IF name = None THEN CHOOSE k \in Inodes : k \notin Used ELSE name
<1>1. TypeOK /\ Lockers /\ Stage(p) /\ Held(p) /\ proc[p] \in ProcType /\ j \in Job
  BY Types DEF PlanInv
<1>2. /\ Asks(p) /\ proc[p].todo = OpenOf(j) /\ proc[p].fd = None
      /\ proc[p].st = "busy" /\ proc[p].todo # <<>>
  BY <1>1, AtStage DEF Open, At
<1>3. /\ name' = i /\ proc' = [proc EXCEPT ![p].todo = Tail(@), ![p].fd = i]
      /\ ino' = IF name = None THEN [ino EXCEPT ![i] = Free] ELSE ino
      /\ UNCHANGED <<job, sock, hup, budget, faulted>>
  BY DEF Open
<1>4. i \in Inodes /\ i # None /\ (name = None => ino[i].locker = None) /\ (name # None => i = name)
  <2>1. CASE name = None
    BY <1>1, <2>1, FreeInode
  <2>2. CASE name # None
    BY <1>1, <2>2 DEF TypeOK
  <2> QED BY <2>1, <2>2
<1> HIDE DEF i
<1>5. /\ proc' \in [Procs -> ProcType]
      /\ proc'[p].todo = LockOf(j) /\ proc'[p].fd = i /\ proc'[p].st = "busy"
      /\ \A q \in Procs \ {p} : proc'[q] = proc[q]
  <2>1. Tail(proc[p].todo) = LockOf(j)
    BY <1>1, <1>2, Suffixes
  <2> QED BY <1>1, <1>2, <1>3, <1>4, <2>1, WithFd
<1>6. /\ ino' \in [Inodes -> InoType]
      /\ \A k \in Inodes : /\ ino'[k].locker \in {None, ino[k].locker}
                           /\ ino[k].locker # None => ino'[k] = ino[k]
  <2>1. ino \in [Inodes -> InoType] /\ Free \in InoType /\ Free.locker = None
    BY <1>1, Types DEF Free, InoType
  <2> QED BY <1>3, <1>4, <2>1
<1>7. TypeOK'
  <2>1. /\ name' \in Inodes \cup {None} /\ sock' \in Pids \cup {None} /\ faulted' \in BOOLEAN
        /\ hup' \subseteq [by : Pids, pid : Pids, got : {"asked", "sent", "ESRCH"}]
    BY <1>1, <1>3, <1>4 DEF TypeOK
  <2> QED BY <1>1, <1>3, <1>5, <1>6, <2>1, KeepsType
<1>8. Stage(p)'
  BY <1>2, <1>3, <1>4, <1>5 DEF Stage, Asks
<1>9. Held(p)'
  BY <1>1, <1>3, <1>5, Distinct DEF Held
<1>10. \A k \in Inodes : ino[k].locker # Pid(p)
  BY <1>2, NoLock
<1>11. \A k \in Inodes, q \in Procs \ {p} : ino[k].locker = Pid(q) => ino'[k] = ino[k]
  BY <1>1, <1>6, Types
<1>12. name' = name \/ name = None
  BY <1>3, <1>4
<1> QED BY <1>3, <1>5, <1>6, <1>7, <1>8, <1>9, <1>10, <1>11, <1>12, StepKeeps

LEMMA Exlock_step ==
  ASSUME PlanInv, NEW p \in Procs, Exlock(p) PROVE PlanInv'
<1> DEFINE j == job[p]
           fd == proc[p].fd
<1>1. TypeOK /\ Stage(p) /\ Held(p) /\ proc[p] \in ProcType /\ j \in Job
  BY Types DEF PlanInv
<1>2. Asks(p) /\ proc[p].todo = LockOf(j) /\ fd # None /\ fd \in Inodes /\ proc[p].st = "busy"
  BY <1>1, AtStage DEF Exlock, At, ProcType
<1>3. /\ ino[fd].locker = None /\ ino' = [ino EXCEPT ![fd].locker = Pid(p)]
      /\ UNCHANGED <<job, name, sock, hup, budget, faulted>>
  BY DEF Exlock, Available
<1>4. proc' = [proc EXCEPT ![p].todo = PidOf(j)]
  <2>1. proc' = [proc EXCEPT ![p].todo = Tail(proc[p].todo)]
    BY <1>1, Types DEF Exlock, Done
  <2> QED BY <1>1, <1>2, <2>1, Suffixes
<1>5. /\ proc' \in [Procs -> ProcType]
      /\ proc'[p].todo = PidOf(j) /\ proc'[p].fd = fd /\ proc'[p].st = "busy"
      /\ proc'[p].gen = proc[p].gen /\ Pid(p)' = Pid(p)
      /\ \A q \in Procs \ {p} : proc'[q] = proc[q]
  BY <1>1, <1>2, <1>4, DoneIs, ProcTypes, Suffixes
<1>6. /\ ino' \in [Inodes -> InoType] /\ ino'[fd].locker = Pid(p)
      /\ \A k \in Inodes \ {fd} : ino'[k] = ino[k]
  BY <1>1, <1>2, <1>3, Types DEF InoType
<1>7. TypeOK'
  <2>1. /\ name' \in Inodes \cup {None} /\ sock' \in Pids \cup {None} /\ faulted' \in BOOLEAN
        /\ hup' \subseteq [by : Pids, pid : Pids, got : {"asked", "sent", "ESRCH"}]
    BY <1>1, <1>3 DEF TypeOK
  <2> QED BY <1>1, <1>3, <1>5, <1>6, <2>1, KeepsType
<1>8. Stage(p)'
  BY <1>2, <1>3, <1>5 DEF Stage, Asks
<1>9. Held(p)'
  <2>1. ~faulted => fd = name
    BY <1>1, <1>2 DEF Held
  <2> QED BY <1>1, <1>3, <1>5, <1>6, <2>1, Distinct DEF Held
<1>10. \A k \in Inodes, q \in Procs \ {p} : ino[k].locker = Pid(q) => ino'[k] = ino[k]
  BY <1>1, <1>3, <1>6, Types
<1>11. \A k \in Inodes : \/ ino'[k].locker \in {None, ino[k].locker}
                         \/ ino'[k].locker = <<p, proc'[p].gen>> /\ proc'[p].fd = k
  BY <1>5, <1>6 DEF Pid
<1> QED BY <1>3, <1>5, <1>7, <1>8, <1>9, <1>10, <1>11, StepKeeps

LEMMA Write_pid_step ==
  ASSUME PlanInv, NEW p \in Procs, Write_pid(p) PROVE PlanInv'
<1> DEFINE j == job[p]
           fd == proc[p].fd
<1>1. TypeOK /\ Stage(p) /\ Held(p) /\ proc[p] \in ProcType /\ j \in Job
  BY Types DEF PlanInv
<1>2. Asks(p) /\ proc[p].todo = PidOf(j) /\ j.pid /\ fd # None /\ fd \in Inodes /\ proc[p].st = "busy"
  BY <1>1, AtStage DEF Write_pid, At, ProcType
<1>3. /\ ino' = [ino EXCEPT ![fd].text = Pid(p)]
      /\ UNCHANGED <<job, name, sock, hup, budget, faulted>>
  BY DEF Write_pid, Do_pid
<1>4. proc' = [proc EXCEPT ![p].todo = ChmodOf(j)]
  <2>1. proc' = [proc EXCEPT ![p].todo = Tail(proc[p].todo)]
    BY <1>1, Types DEF Write_pid, Done
  <2>2. Tail(PidOf(j)) = ChmodOf(j)
    BY <1>1, <1>2, Suffixes
  <2> QED BY <1>2, <2>1, <2>2
<1>5. /\ proc' \in [Procs -> ProcType]
      /\ proc'[p].todo = ChmodOf(j) /\ proc'[p].fd = fd /\ proc'[p].st = "busy"
      /\ proc'[p].gen = proc[p].gen /\ Pid(p)' = Pid(p)
      /\ \A q \in Procs \ {p} : proc'[q] = proc[q]
  BY <1>1, <1>2, <1>4, DoneIs, ProcTypes, Suffixes
<1>6. /\ ino' \in [Inodes -> InoType] /\ ino'[fd].text = Pid(p) /\ ino'[fd].locker = ino[fd].locker
      /\ \A k \in Inodes \ {fd} : ino'[k] = ino[k]
  BY <1>1, <1>2, <1>3, Types DEF InoType
<1>7. TypeOK'
  <2>1. /\ name' \in Inodes \cup {None} /\ sock' \in Pids \cup {None} /\ faulted' \in BOOLEAN
        /\ hup' \subseteq [by : Pids, pid : Pids, got : {"asked", "sent", "ESRCH"}]
    BY <1>1, <1>3 DEF TypeOK
  <2> QED BY <1>1, <1>3, <1>5, <1>6, <2>1, KeepsType
<1>8. Stage(p)'
  BY <1>2, <1>3, <1>5 DEF Stage, Asks
<1>9. ~faulted => fd = name /\ ino[fd].locker = Pid(p)
  BY <1>1, <1>2 DEF Held
<1>10. Held(p)'
  BY <1>1, <1>3, <1>5, <1>6, <1>9, Distinct DEF Held
<1>11. ~faulted => \A k \in Inodes, q \in Procs \ {p} : ino[k].locker = Pid(q) => ino'[k] = ino[k]
  BY <1>1, <1>6, <1>9, Types
<1>12. \A k \in Inodes : ino'[k].locker = ino[k].locker
  BY <1>6
<1> QED BY <1>3, <1>5, <1>7, <1>8, <1>10, <1>11, <1>12, StepKeeps

LEMMA Domsock_step ==
  ASSUME PlanInv, NEW p \in Procs, Domsock_create(p) PROVE PlanInv'
<1> DEFINE j == job[p]
           fd == proc[p].fd
<1>1. TypeOK /\ Stage(p) /\ Held(p) /\ proc[p] \in ProcType /\ j \in Job /\ Pid(p) \in Pids
  BY Types DEF PlanInv
<1>2. /\ Asks(p) /\ proc[p].todo = EndOf(j) /\ j.tool = "perpd" /\ fd # None /\ fd \in Inodes
      /\ proc[p].st = "busy"
  BY <1>1, AtStage DEF Domsock_create, At, ProcType
<1>3. sock' = Pid(p) /\ UNCHANGED <<job, name, ino, hup, budget, faulted>>
  BY DEF Domsock_create
<1>4. proc' = [proc EXCEPT ![p].todo = <<>>]
  <2>1. proc' = [proc EXCEPT ![p].todo = Tail(proc[p].todo)]
    BY <1>1, Types DEF Domsock_create, Done
  <2>2. Tail(EndOf(j)) = <<>>
    BY <1>1, <1>2, Suffixes
  <2> QED BY <1>2, <2>1, <2>2
<1>5. /\ proc' \in [Procs -> ProcType]
      /\ proc'[p].todo = <<>> /\ proc'[p].fd = fd /\ proc'[p].st = "busy"
      /\ proc'[p].gen = proc[p].gen /\ Pid(p)' = Pid(p)
      /\ \A q \in Procs \ {p} : proc'[q] = proc[q]
  BY <1>1, <1>2, <1>4, DoneIs, ProcTypes, ShortPlans
<1>6. TypeOK'
  <2>1. /\ name' \in Inodes \cup {None} /\ sock' \in Pids \cup {None} /\ faulted' \in BOOLEAN
        /\ hup' \subseteq [by : Pids, pid : Pids, got : {"asked", "sent", "ESRCH"}]
    BY <1>1, <1>3 DEF TypeOK
  <2> QED BY <1>1, <1>3, <1>5, <2>1, Types, KeepsType
<1>7. Stage(p)'
  BY <1>2, <1>3, <1>5 DEF Stage, Asks, Closes
<1>8. ~faulted => fd = name /\ ino[fd].locker = Pid(p) /\ (j.pid => ino[fd].text = Pid(p))
  BY <1>1, <1>2 DEF Held
<1>9. Held(p)'
  BY <1>3, <1>5, <1>8 DEF Held
<1> QED BY <1>2, <1>3, <1>5, <1>6, <1>7, <1>8, <1>9, StepKeeps

-----------------------------------------------------------------------------
(* The theorems. *)

LEMMA PlanInit == Init => PlanInv
<1> SUFFICES ASSUME Init PROVE PlanInv
  OBVIOUS
<1>1. TypeOK
  <2>1. job \in [Procs -> Job] /\ budget \in [Events -> Nat]
    BY ScriptsAssumption, BudgetsAssumption DEF Init
  <2>2. <<>> \in Seq({"open", "lock", "pid", "chmod", "close", "unlink", "fork", "fdset",
                      "bind", "check", "kill"})
    OBVIOUS
  <2> QED BY <2>1, <2>2 DEF Init, TypeOK, Free
<1>2. \A p \in Procs : Stage(p) /\ Held(p)
  BY DEF Init, Stage, Held
<1>3. Lockers
  BY DEF Init, Lockers, Free
<1> QED BY <1>1, <1>2, <1>3 DEF PlanInv

LEMMA PlanNext == PlanInv /\ [Next]_vars => PlanInv'
<1> SUFFICES ASSUME PlanInv, [Next]_vars PROVE PlanInv'
  OBVIOUS
<1>1. CASE UNCHANGED vars
  BY <1>1 DEF vars, PlanInv, TypeOK, Stage, Held, Lockers, Asks, Pid
<1>2. ASSUME NEW p \in Procs, Own(p) PROVE PlanInv'
  BY <1>2, Open_step, Exlock_step, Locked_out_step, Write_pid_step, Fchmod_step, Close_step,
     Fork_step, Fdset_step, Domsock_step, Exec_step, Check_step, Ends DEF Own
<1>3. ASSUME NEW p \in Procs, Start(p) \/ Crash(p) \/ Set_fails(p) \/ Bind_fails(p)
      PROVE  PlanInv'
  BY <1>3, Start_step, Set_fails_step, Bind_fails_step, Ends
<1> QED BY <1>1, <1>2, <1>3 DEF Next

LEMMA PlanAlways == Spec => []PlanInv
BY PlanInit, PlanNext, PTL DEF Spec

\* What the invariant says of a program that runs with its lock.
LEMMA RunsLocked ==
  ASSUME PlanInv, NEW p \in Procs, Running(p), ~Closes(job[p]), ~faulted
  PROVE  /\ name # None /\ proc[p].fd = name /\ ino[name].locker = Pid(p)
         /\ job[p].pid => ino[name].text = Pid(p)
         /\ job[p].tool = "perpd" => sock = Pid(p)
<1>1. Stage(p) /\ Held(p) /\ proc[p].st = "run"
  BY DEF PlanInv, Running
<1>2. proc[p].todo = <<>> /\ proc[p].fd # None
  BY <1>1 DEF Stage
<1> QED BY <1>1, <1>2 DEF Held

\* For every set of processes, every mix of tools and however often they are
\* started, crash or fail: pidlock_set() lets one process at a time run with
\* the lock file, under its name, with its pid in it, and with the socket of
\* perpd_control_init() if it is perpd.
THEOREM OneHolder == Spec => []LockInv
<1>1. PlanInv => LockInv
  <2> SUFFICES ASSUME PlanInv PROVE LockInv
    OBVIOUS
  <2>1. TypeOK
    BY DEF PlanInv
  <2>2. Exclusive
    <3> SUFFICES ASSUME ~faulted, NEW p \in Procs, NEW q \in Procs, p # q,
                        Running(p), Running(q), ~job[p].closes, ~job[q].closes
                 PROVE  FALSE
      BY <2>1, Types DEF Exclusive, Job
    <3>1. ~Closes(job[p]) /\ ~Closes(job[q])
      BY DEF Closes
    <3>2. ino[name].locker = Pid(p) /\ ino[name].locker = Pid(q)
      BY <3>1, RunsLocked
    <3> QED BY <2>1, <3>2, Types
  <2>3. LockHeld
    BY RunsLocked DEF LockHeld, Closes
  <2>4. SocketOwned
    BY RunsLocked DEF SocketOwned, Closes
  <2> QED BY <2>1, <2>2, <2>3, <2>4 DEF LockInv
<1> QED BY <1>1, PlanAlways, PTL

\* The next step of a client at its pidlock_check(), if no crash ends it.
LEMMA ChecksNext ==
  ASSUME TypeOK, Next, NEW p \in Procs, At(p, "check"), proc'[p] # proc[p], budget' = budget
  PROVE  Check(p)
<1>1. proc \in [Procs -> ProcType]
  BY Types
<1>2. PICK r \in Procs : Own(r) \/ Start(r) \/ Crash(r) \/ Set_fails(r) \/ Bind_fails(r)
  BY DEF Next
<1>3. r = p
  <2> SUFFICES ASSUME r # p PROVE proc'[p] = proc[p]
    OBVIOUS
  <2>1. CASE Own(r)
    BY <1>1, <2>1 DEF Own, Open, Exlock, Locked_out, Write_pid, Fchmod, Close, Fork, Fdset,
       Domsock_create, Exec, Check, Kill, Unlink, End, Done, Gone, InUse
  <2>2. CASE Start(r) \/ Crash(r) \/ Set_fails(r) \/ Bind_fails(r)
    BY <1>1, <2>2 DEF Start, Crash, Set_fails, Bind_fails, Gone
  <2> QED BY <1>2, <2>1, <2>2
<1>4. ASSUME NEW e \in Events, Spend(e) PROVE FALSE
  <2>1. budget \in [Events -> Nat]
    BY DEF TypeOK
  <2>2. budget[e] \in Nat /\ budget'[e] = budget[e] - 1
    BY <1>4, <2>1 DEF Spend
  <2> QED BY <2>2
<1>5. ~Start(p) /\ ~Crash(p) /\ ~Set_fails(p) /\ ~Bind_fails(p)
  BY <1>4 DEF Start, Crash, Set_fails, Bind_fails, Events
<1> QED BY <1>2, <1>3, <1>5 DEF Own, Open, Exlock, Locked_out, Write_pid, Fchmod, Close, Fork,
       Fdset, Domsock_create, Exec, Kill, Unlink, End, At

\* Every perphup, perpctl and runlock -c that gets to ask finds the perpd that
\* runs, whatever other perpd's are started in vain, crash or end meanwhile.
THEOREM ClientsFindPerpd == Spec => FindsPerpd
<1>1. PlanInv /\ [Next]_vars =>
        [\A p, q \in Procs :
           /\ Running(q) /\ job[q].tool = "perpd" /\ ~faulted
           /\ At(p, "check") /\ proc'[p] # proc[p] /\ budget' = budget
           => [by |-> Pid(p), pid |-> Pid(q), got |-> "asked"] \in hup']_vars
  <2> SUFFICES ASSUME PlanInv, Next, NEW p \in Procs, NEW q \in Procs,
                      Running(q), job[q].tool = "perpd", ~faulted,
                      At(p, "check"), proc'[p] # proc[p], budget' = budget
               PROVE  [by |-> Pid(p), pid |-> Pid(q), got |-> "asked"] \in hup'
    BY DEF vars
  <2>1. TypeOK
    BY DEF PlanInv
  <2>2. name # None /\ ino[name].locker = Pid(q) /\ Pid(q) # None
    BY <2>1, RunsLocked, Types DEF Closes
  <2> QED BY <2>1, <2>2, ChecksNext DEF Check
<1> QED BY <1>1, PlanAlways, PTL DEF Spec, FindsPerpd
=============================================================================
