----------------------------- MODULE DeuxProofs -----------------------------
(***************************************************************************)
(* Proofs about Deux, for every set of pids, length of the log pipe and    *)
(* number of signals, deaths, lines and failures of fork().                *)
(***************************************************************************)
EXTENDS Deux, TLAPS

-----------------------------------------------------------------------------
(* The inductive invariants. *)

PcType == {"top", "start", "pause", "fork", "forked", "poll", "wait", "end", "close",
           "last", "done", "program"}
LoopType == [pc : PcType, i : 0 .. 2, pid : Pids \cup {None}]
ProcType == [role : {"log", "prog", "trap", "none"}, st : {"run", "stop", "zombie", "none"},
             told : BOOLEAN]
TrapType == [sig : Signals, pid : Pids, child : Pids]

\* A process is there or it is not.
There == \A p \in Pids : proc[p] = Free \/ (proc[p].role # "none" /\ proc[p].st # "none")

\* The for loop of main_loop(): it has started what is before its i, and is
\* about to start deux[i]; handlers run in poll() only.
Places ==
  /\ loop.pc \in {"pause", "fork", "forked"} => loop.i \in {0, 1} /\ deux[loop.i] = None
  /\ loop.pc \in {"start", "pause", "fork", "forked", "poll"} =>
       \A i \in {0, 1} : i < loop.i /\ (i = 0 => mode.tool # "runtrap") => deux[i] # None
  /\ loop.pc = "poll" => loop.i = 2
  /\ loop.pc \in {"close", "last"} => deux[0] # None
  /\ traps # <<>> => loop.pc = "poll"

\* Each pid that is remembered is that of the child, until the last reaping,
\* which does not clear them.
Known ==
  /\ loop.pc = "forked" => loop.pid \in Pids /\ proc[loop.pid].role = Role(loop.i)
  /\ loop.pc \notin {"close", "last", "done", "program"} =>
       \A i \in {0, 1} : deux[i] # None => proc[deux[i]].role = Role(i)
  /\ loop.pc \in {"close", "last"} => proc[deux[0]].role = "log"

\* A trapper has the pid of the program.
Trappings == \A k \in DOMAIN traps : /\ deux[1] = traps[k].child
                                     /\ proc[traps[k].pid].role \in {"trap", "none"}

CoreInv == TypeOK /\ There /\ Places /\ Known /\ OneEach /\ Trappings

\* Somebody is going to wake the supervisor for a dead child and for a
\* termination it was told of.
Woken ==
  /\ Zombies # {} /\ loop.pc \in {"top", "start", "pause", "fork", "forked", "poll"} =>
       "CHLD" \in pend \/ pinged
  /\ mode.tool # "runtrap" /\ flag_term =>
       \/ loop.pc \in {"wait", "top", "end", "close", "last", "done"}
       \/ loop.pc = "poll" /\ pinged

\* The log pipe stays open for writing until the supervisor is done with the
\* program, so that a logger that is dead before was killed.
HeldOpen ==
  mode.tool # "runtrap" /\ loop.pc \notin {"last", "done", "program"} =>
    wopen /\ \A p \in Pids : proc[p].role = "log" /\ proc[p].st = "zombie" => logdied

\* Before the first logger there is no program and no line.
FirstLogger ==
  mode.tool # "runtrap" /\ ~logdied /\ Supervising /\ deux[0] = None =>
    /\ lines = 0 /\ deux[1] = None /\ loop.i = 0 /\ ~flag_term
    /\ loop.pc \in {"top", "start", "pause", "fork", "forked"}

\* The last logger leaves no line.
LastLogger ==
  mode.tool # "runtrap" /\ ~logdied /\ loop.pc = "last" /\ proc[deux[0]].st = "zombie" =>
    lines = 0 /\ Live("prog") = {}

\* perpboot outlives the program.
Outlives ==
  mode.tool = "perpboot" /\ loop.pc \in {"close", "last", "done"} =>
    \A p \in Pids : proc[p].role # "prog"

Logs == HeldOpen /\ FirstLogger /\ LastLogger /\ Outlives /\ LinesKept /\ CleanEnd

-----------------------------------------------------------------------------
(* Types and processes. *)

LEMMA Types ==
  ASSUME TypeOK
  PROVE  /\ mode \in Mode /\ loop \in LoopType /\ proc \in [Pids -> ProcType]
         /\ deux \in [{0, 1} -> Pids \cup {None}] /\ traps \in Seq(TrapType)
         /\ recent \in [{0, 1} -> BOOLEAN] /\ budget \in [Events -> Nat]
         /\ pend \subseteq Signals \cup {"CHLD"}
         /\ lines \in Nat /\ lines <= PipeMax /\ wrote \in Nat /\ logged \in Nat
         /\ flag_term \in BOOLEAN /\ pinged \in BOOLEAN /\ wopen \in BOOLEAN /\ left \in BOOLEAN
         /\ broken \in BOOLEAN /\ logdied \in BOOLEAN /\ asked \in BOOLEAN
<1>1. lines \in Nat /\ lines <= PipeMax
  BY PipeAssumption DEF TypeOK
<1>2. traps \in Seq(TrapType)
  BY DEF TypeOK, TrapType
<1>3. loop \in LoopType /\ proc \in [Pids -> ProcType]
  BY DEF TypeOK, LoopType, PcType, ProcType
<1> QED BY <1>1, <1>2, <1>3 DEF TypeOK

\* A step keeps the types if it does so for what it changes.
LEMMA KeepsType ==
  ASSUME TypeOK, UNCHANGED mode, loop' \in LoopType, proc' \in [Pids -> ProcType],
         deux' \in [{0, 1} -> Pids \cup {None}], traps' \in Seq(TrapType),
         recent' \in [{0, 1} -> BOOLEAN],
         budget' = budget \/ \E e \in Events : Spend(e),
         pend' \subseteq Signals \cup {"CHLD"},
         lines' \in 0 .. PipeMax, wrote' \in Nat, logged' \in Nat,
         flag_term' \in BOOLEAN, pinged' \in BOOLEAN, wopen' \in BOOLEAN, left' \in BOOLEAN,
         broken' \in BOOLEAN, logdied' \in BOOLEAN, asked' \in BOOLEAN
  PROVE  TypeOK'
<1>1. budget' \in [Events -> Nat]
  <2>1. budget \in [Events -> Nat]
    BY Types
  <2>2. ASSUME NEW e \in Events, Spend(e) PROVE budget' \in [Events -> Nat]
    <3>1. budget[e] \in Nat /\ budget[e] > 0
      BY <2>1, <2>2 DEF Spend
    <3>2. budget[e] - 1 \in Nat
      BY <3>1
    <3> QED BY <2>1, <2>2, <3>2 DEF Spend
  <2> QED BY <2>1, <2>2
<1>2. mode' \in Mode
  BY Types
<1>3. loop' \in [pc : {"top", "start", "pause", "fork", "forked", "poll", "wait", "end", "close",
                       "last", "done", "program"}, i : 0 .. 2, pid : Pids \cup {None}]
  BY DEF LoopType, PcType
<1>4. proc' \in [Pids -> [role : {"log", "prog", "trap", "none"},
                          st : {"run", "stop", "zombie", "none"}, told : BOOLEAN]]
  BY DEF ProcType
<1>5. traps' \in Seq([sig : Signals, pid : Pids, child : Pids])
  BY DEF TrapType
<1> QED BY <1>1, <1>2, <1>3, <1>4, <1>5 DEF TypeOK

\* kill() leaves a process what it is, dead or alive.
LEMMA KilledIs ==
  ASSUME NEW q \in ProcType, NEW sig
  PROVE  /\ Killed(q, sig) \in ProcType /\ Killed(q, sig).role = q.role
         /\ Killed(q, sig).st = "zombie" <=> q.st = "zombie"
         /\ Killed(q, sig).st = "none" <=> q.st = "none"
         /\ q = Free => Killed(q, sig) = Free
<1>1. CASE q.st \in {"none", "zombie"}
  BY <1>1 DEF Killed
<1>2. CASE q.st \notin {"none", "zombie"} /\ sig \in {"TERM", "INT"}
  <2>1. Killed(q, sig) = [q EXCEPT !.told = TRUE]
    BY <1>2 DEF Killed
  <2>2. [q EXCEPT !.told = TRUE] \in ProcType
    BY DEF ProcType
  <2>3. /\ [q EXCEPT !.told = TRUE].role = q.role /\ [q EXCEPT !.told = TRUE].st = q.st
    BY DEF ProcType
  <2>4. q # Free
    BY <1>2 DEF Free
  <2> QED BY <2>1, <2>2, <2>3, <2>4
<1>3. CASE q.st \notin {"none", "zombie"} /\ sig = "TSTP"
  BY <1>3 DEF Killed, ProcType, Free
<1>4. CASE q.st \notin {"none", "zombie"} /\ sig = "CONT"
  BY <1>4 DEF Killed, ProcType, Free
<1>5. CASE q.st \notin {"none", "zombie"} /\ sig \notin {"TERM", "INT", "TSTP", "CONT"}
  BY <1>5 DEF Killed
<1> QED BY <1>1, <1>2, <1>3, <1>4, <1>5

LEMMA Do_killIs ==
  ASSUME NEW ps \in [Pids -> ProcType], NEW pid \in Pids \cup {None}, NEW sig
  PROVE  LET qs == Do_kill(ps, pid, sig)
         IN  /\ qs \in [Pids -> ProcType]
             /\ \A p \in Pids : /\ qs[p].role = ps[p].role
                                /\ qs[p].st = "zombie" <=> ps[p].st = "zombie"
                                /\ qs[p].st = "none" <=> ps[p].st = "none"
                                /\ ps[p] = Free => qs[p] = Free
<1>1. CASE pid = None
  BY <1>1 DEF Do_kill
<1>2. CASE pid # None
  <2>1. Do_kill(ps, pid, sig) = [ps EXCEPT ![pid] = Killed(ps[pid], sig)]
    BY <1>2 DEF Do_kill
  <2>2. pid \in Pids /\ ps[pid] \in ProcType
    BY <1>2
  <2> DEFINE x == Killed(ps[pid], sig)
  <2>3. /\ x \in ProcType /\ x.role = ps[pid].role
        /\ x.st = "zombie" <=> ps[pid].st = "zombie"
        /\ x.st = "none" <=> ps[pid].st = "none"
        /\ ps[pid] = Free => x = Free
    BY <2>2, KilledIs
  <2> HIDE DEF x
  <2> QED BY <2>1, <2>2, <2>3 DEF x
<1> QED BY <1>1, <1>2

LEMMA FreeIs == Free \in ProcType /\ Free.role = "none" /\ Free.st = "none"
BY DEF Free, ProcType

LEMMA NewPidIs ==
  ASSUME NEW p \in NewPids PROVE p \in Pids /\ proc[p] = Free
<1>1. FreePids # {} /\ p = CHOOSE q \in FreePids : TRUE
  BY DEF NewPids
<1>2. p \in FreePids
  BY <1>1
<1> QED BY <1>2 DEF FreePids

LEMMA ChildIs ==
  ASSUME NEW role \in {"log", "prog", "trap"}, NEW told \in BOOLEAN
  PROVE  /\ Child(role, told) \in ProcType /\ Child(role, told).role = role
         /\ Child(role, told).st = "run"
BY DEF Child, ProcType

-----------------------------------------------------------------------------
(* The supervisor's account of its children. *)

\* A step that leaves main_loop() where it is and every child its role.
LEMMA CoreQuiet ==
  ASSUME CoreInv, TypeOK', There', UNCHANGED <<mode, loop, deux, traps>>,
         Supervising => \A p \in Pids : proc'[p].role = proc[p].role
  PROVE  CoreInv'
<1>1. TypeOK /\ Places /\ Known /\ OneEach /\ Trappings
  BY DEF CoreInv
<1>2. Places'
  BY <1>1 DEF Places
<1>3. CASE Supervising
  <2>1. Known'
    BY <1>1, <1>3, Types DEF Known, Places, Supervising
  <2>2. OneEach'
    BY <1>1, <1>3 DEF OneEach, Supervising
  <2>3. Trappings'
    <3>1. \A k \in DOMAIN traps : traps[k].pid \in Pids
      <4>1. \A k \in DOMAIN traps : traps[k] \in TrapType
        BY <1>1, Types
      <4> QED BY <4>1 DEF TrapType
    <3> QED BY <1>1, <1>3, <3>1 DEF Trappings
  <2> QED BY <1>2, <2>1, <2>2, <2>3 DEF CoreInv
<1>4. CASE ~Supervising
  <2>1. traps = <<>>
    BY <1>1, <1>4 DEF Places, Supervising
  <2>2. Known' /\ OneEach' /\ Trappings'
    BY <1>4, <2>1 DEF Known, OneEach, Trappings, Supervising
  <2> QED BY <1>2, <2>2 DEF CoreInv
<1> QED BY <1>3, <1>4

\* A step of main_loop() that forks and reaps nothing.
LEMMA CoreLoop ==
  ASSUME CoreInv, Top \/ Start \/ Pause \/ Poll PROVE CoreInv'
<1>1. TypeOK /\ There /\ Places /\ Known /\ OneEach /\ Trappings /\ loop \in LoopType
      /\ deux \in [{0, 1} -> Pids \cup {None}]
  BY Types DEF CoreInv
<1>2. UNCHANGED <<mode, deux, flag_term, pend, traps, proc, logvars, budget, logdied, asked>>
      /\ loop'.pid = loop.pid
  <2>1. CASE Start
    BY <1>1, <2>1 DEF Start, LoopType
  <2> QED BY <1>1, <2>1 DEF Top, Pause, Poll, Goto, LoopType
<1>3. /\ loop'.pc \in {"start", "done", "end", "poll", "fork", "pause", "wait"}
      /\ loop'.pc # "poll" => traps = <<>>
      /\ loop.pc \in {"top", "start", "pause", "poll"} /\ (loop.pc # "poll" => traps = <<>>)
      /\ loop'.pc = "poll" => loop'.i = 2
      /\ loop'.pc \in {"pause", "fork"} => loop'.i \in {0, 1} /\ deux[loop'.i] = None
      /\ loop'.i \in 0 .. 2
      /\ loop'.pc \in {"start", "pause", "fork", "poll"} =>
           \A i \in {0, 1} : i < loop'.i /\ (i = 0 => mode.tool # "runtrap") => deux[i] # None
  <2>1. CASE Top
    <3>1. loop'.pc \in {"start", "done", "end"} /\ loop'.i = IF mode.tool = "runtrap" THEN 1 ELSE 0
      BY <1>1, <2>1 DEF Top, LoopType
    <3> QED BY <1>1, <2>1, <3>1 DEF Top, Places
  <2>2. CASE Start
    <3>1. loop.pc = "start" /\ traps = <<>> /\ loop.i \in 0 .. 2
      BY <1>1, <2>2 DEF Start, Places, LoopType
    <3>2. CASE loop.i = 2
      <4>1. loop'.pc = "poll" /\ loop'.i = loop.i
        BY <1>1, <2>2, <3>2 DEF Start, LoopType
      <4> QED BY <1>1, <3>1, <3>2, <4>1 DEF Places
    <3>3. CASE loop.i < 2 /\ deux[loop.i] # None
      <4>1. loop'.pc = "start" /\ loop'.i = loop.i + 1
        BY <1>1, <2>2, <3>1, <3>3 DEF Start, LoopType
      <4> QED BY <1>1, <3>1, <3>3, <4>1 DEF Places
    <3>4. CASE loop.i < 2 /\ deux[loop.i] = None
      <4>1. loop'.pc \in {"pause", "fork"} /\ loop'.i = loop.i
        BY <1>1, <2>2, <3>1, <3>4 DEF Start, LoopType
      <4> QED BY <1>1, <3>1, <3>4, <4>1 DEF Places
    <3> QED BY <3>1, <3>2, <3>3, <3>4
  <2>3. CASE Pause
    BY <1>1, <2>3 DEF Pause, Goto, Places, LoopType
  <2>4. CASE Poll
    BY <1>1, <2>4 DEF Poll, Goto, Places, LoopType, Settled
  <2> QED BY <2>1, <2>2, <2>3, <2>4
<1>4. TypeOK'
  <2>1. loop' \in LoopType
    <3>1. loop'.pc \in PcType /\ loop'.i \in 0 .. 2 /\ loop'.pid \in Pids \cup {None}
      BY <1>1, <1>2, <1>3 DEF PcType, LoopType
    <3>2. loop' = [pc |-> loop'.pc, i |-> loop'.i, pid |-> loop'.pid]
      <4>1. CASE Top
        BY <1>1, <4>1 DEF Top, LoopType
      <4>2. CASE Start
        BY <1>1, <4>2 DEF Start, LoopType
      <4> QED BY <1>1, <4>1, <4>2 DEF Pause, Poll, Goto, LoopType
    <3> QED BY <3>1, <3>2 DEF LoopType
  <2>2. recent' \in [{0, 1} -> BOOLEAN] /\ pinged' \in BOOLEAN
    BY <1>1, Types DEF Top, Start, Pause, Poll
  <2> QED BY <1>1, <1>2, <2>1, <2>2 DEF TypeOK, LoopType, PcType, logvars
<1>5. There' /\ Places'
  BY <1>1, <1>2, <1>3 DEF There, Places, Free
<1>6. Known'
  BY <1>1, <1>2, <1>3 DEF Known
<1>7. OneEach'
  BY <1>1, <1>2, <1>3 DEF OneEach, Supervising
<1>8. Trappings'
  BY <1>1, <1>2 DEF Trappings
<1> QED BY <1>4, <1>5, <1>6, <1>7, <1>8 DEF CoreInv

\* fork(): the new child takes a pid that is nobody's.
LEMMA CoreFork ==
  ASSUME CoreInv, Fork PROVE CoreInv'
<1>1. TypeOK /\ There /\ Places /\ Known /\ OneEach /\ Trappings /\ loop \in LoopType
      /\ deux \in [{0, 1} -> Pids \cup {None}] /\ proc \in [Pids -> ProcType]
  BY Types DEF CoreInv
<1>2. PICK p \in NewPids : /\ proc' = [proc EXCEPT ![p] = Child(Role(loop.i), FALSE)]
                           /\ loop' = [loop EXCEPT !.pc = "forked", !.pid = p]
  BY DEF Fork
<1>3. /\ loop.pc = "fork" /\ p \in Pids /\ proc[p] = Free
      /\ UNCHANGED <<mode, deux, recent, flag_term, pinged, pend, traps, logvars, budget, logdied, asked>>
  BY NewPidIs DEF Fork
<1>4. loop.i \in {0, 1} /\ deux[loop.i] = None /\ traps = <<>> /\ Role(loop.i) \in {"log", "prog"}
  BY <1>1, <1>3 DEF Places, Role
<1>5. /\ loop'.pc = "forked" /\ loop'.pid = p /\ loop'.i = loop.i /\ loop' \in LoopType
  BY <1>1, <1>2, <1>3 DEF LoopType, PcType
<1>6. /\ proc' \in [Pids -> ProcType] /\ proc'[p].role = Role(loop.i) /\ proc'[p].st = "run"
      /\ \A q \in Pids \ {p} : proc'[q] = proc[q]
  BY <1>1, <1>2, <1>3, <1>4, ChildIs
<1>7. TypeOK'
  BY <1>1, <1>3, <1>5, <1>6 DEF TypeOK, LoopType, PcType, ProcType, logvars
<1>8. There'
  BY <1>1, <1>4, <1>6 DEF There, Free
<1>9. Places'
  BY <1>1, <1>3, <1>4, <1>5 DEF Places
<1>10. Known'
  <2>1. ASSUME NEW i \in {0, 1}, deux[i] # None PROVE proc'[deux[i]].role = Role(i)
    <3>1. proc[deux[i]].role = Role(i) /\ deux[i] \in Pids
      BY <1>1, <1>3, <2>1 DEF Known
    <3>2. deux[i] # p
      BY <1>3, <3>1, FreeIs DEF Role
    <3> QED BY <1>6, <3>1, <3>2
  <2> QED BY <1>3, <1>5, <1>6, <2>1 DEF Known
<1>11. OneEach'
  BY <1>1, <1>3, <1>4, <1>5, <1>6 DEF OneEach, Supervising, Role
<1>12. Trappings'
  BY <1>3, <1>4 DEF Trappings
<1> QED BY <1>7, <1>8, <1>9, <1>10, <1>11, <1>12 DEF CoreInv

\* -x: the process becomes the program, and supervises no longer.
LEMMA CoreExec ==
  ASSUME CoreInv, Exec PROVE CoreInv'
<1>1. TypeOK /\ There /\ Places /\ loop \in LoopType /\ proc \in [Pids -> ProcType]
  BY Types DEF CoreInv
<1>2. PICK p \in NewPids :
         /\ proc' = [proc EXCEPT ![p] = Child("prog", pend \cap {"TERM", "INT"} # {})]
         /\ loop' = [loop EXCEPT !.pc = "program", !.pid = p]
  BY DEF Exec
<1>3. /\ loop.pc = "fork" /\ p \in Pids /\ pend' = {} /\ wopen' = FALSE
      /\ UNCHANGED <<mode, deux, recent, flag_term, pinged, traps, lines, left, wrote, logged, broken,
                 budget, logdied, asked>>
  BY NewPidIs DEF Exec
<1>4. loop'.pc = "program" /\ loop' \in LoopType /\ traps = <<>>
  BY <1>1, <1>2, <1>3 DEF LoopType, PcType, Places
<1>5. /\ proc' \in [Pids -> ProcType] /\ proc'[p].role = "prog" /\ proc'[p].st = "run"
      /\ \A q \in Pids \ {p} : proc'[q] = proc[q]
  BY <1>1, <1>2, <1>3, ChildIs
<1>6. TypeOK'
  BY <1>1, <1>3, <1>4, <1>5 DEF TypeOK, LoopType, PcType, ProcType
<1>7. There' /\ Places' /\ Known' /\ OneEach' /\ Trappings'
  BY <1>1, <1>3, <1>4, <1>5 DEF There, Free, Places, Known, OneEach, Trappings, Supervising
<1> QED BY <1>6, <1>7 DEF CoreInv

LEMMA CoreForked ==
  ASSUME CoreInv, Forked PROVE CoreInv'
<1>1. TypeOK /\ There /\ Places /\ Known /\ OneEach /\ Trappings /\ loop \in LoopType
      /\ deux \in [{0, 1} -> Pids \cup {None}] /\ proc \in [Pids -> ProcType]
      /\ recent \in [{0, 1} -> BOOLEAN]
  BY Types DEF CoreInv
<1>2. /\ loop.pc = "forked"
      /\ deux' = [deux EXCEPT ![loop.i] = loop.pid]
      /\ recent' = [recent EXCEPT ![loop.i] = TRUE]
      /\ loop' = [pc |-> "start", i |-> loop.i + 1, pid |-> None]
      /\ UNCHANGED <<mode, flag_term, pinged, pend, traps, proc, logvars, budget, logdied, asked>>
  BY DEF Forked
<1>3. /\ loop.i \in {0, 1} /\ deux[loop.i] = None /\ traps = <<>>
      /\ loop.pid \in Pids /\ proc[loop.pid].role = Role(loop.i)
  BY <1>1, <1>2 DEF Places, Known
<1>4. /\ deux' \in [{0, 1} -> Pids \cup {None}] /\ deux'[loop.i] = loop.pid
      /\ recent' \in [{0, 1} -> BOOLEAN]
      /\ \A i \in {0, 1} \ {loop.i} : deux'[i] = deux[i]
  BY <1>1, <1>2, <1>3
<1>5. loop' \in LoopType /\ loop'.pc = "start" /\ loop'.i = loop.i + 1
  BY <1>2, <1>3 DEF LoopType, PcType
<1>6. TypeOK'
  BY <1>1, <1>2, <1>4, <1>5 DEF TypeOK, LoopType, PcType, logvars
<1>7. There' /\ Trappings'
  BY <1>1, <1>2, <1>3 DEF There, Free, Trappings
<1>8. Places'
  <2>1. ASSUME NEW i \in {0, 1}, i < loop'.i, i = 0 => mode.tool # "runtrap" PROVE deux'[i] # None
    <3>1. CASE i = loop.i
      BY <1>3, <1>4, <3>1, PidsAssumption
    <3>2. CASE i # loop.i
      <4>1. i < loop.i
        BY <1>3, <1>5, <2>1, <3>2
      <4> QED BY <1>1, <1>2, <1>4, <2>1, <3>2, <4>1 DEF Places
    <3> QED BY <3>1, <3>2
  <2> QED BY <1>2, <1>3, <1>5, <2>1 DEF Places
<1>9. Known'
  BY <1>1, <1>2, <1>3, <1>4, <1>5 DEF Known
<1>10. OneEach'
  <2> SUFFICES ASSUME NEW p \in Pids, NEW i \in {0, 1}, proc[p].role = Role(i) PROVE deux'[i] = p
    BY <1>2 DEF OneEach
  <2>1. deux[i] = p \/ (loop.i = i /\ loop.pid = p)
    BY <1>1, <1>2 DEF OneEach, Supervising
  <2> QED BY <1>3, <1>4, <2>1, PidsAssumption
<1> QED BY <1>6, <1>7, <1>8, <1>9, <1>10 DEF CoreInv

\* How the processes may change while main_loop() stays where it is.
Tame == /\ proc' \in [Pids -> ProcType]
        /\ \A p \in Pids : /\ proc'[p].role = proc[p].role
                           /\ proc'[p].st = "none" <=> proc[p].st = "none"
                           /\ proc[p] = Free => proc'[p] = Free

LEMMA TameThere == There /\ Tame => There'
BY DEF There, Tame

\* A child dies: a zombie, or nothing when nobody supervises it.
LEMMA EndsIs ==
  ASSUME TypeOK, There, NEW p \in Pids, proc[p].st # "none", Ends(p)
  PROVE  /\ proc' \in [Pids -> ProcType] /\ There'
         /\ Supervising => Tame
         /\ pend' \subseteq Signals \cup {"CHLD"}
         /\ Supervising => pend' = pend \cup {"CHLD"} /\ proc'[p].st = "zombie"
         /\ ~Supervising => proc'[p] = Free
         /\ \A q \in Pids \ {p} : proc'[q] = proc[q]
         /\ proc'[p].role \in {proc[p].role, "none"} /\ proc'[p].st \in {"zombie", "none"}
<1>1. proc \in [Pids -> ProcType] /\ proc[p] \in ProcType /\ pend \subseteq Signals \cup {"CHLD"}
  BY Types
<1>2. CASE Supervising
  <2> DEFINE z == [proc[p] EXCEPT !.st = "zombie"]
  <2>1. proc' = [proc EXCEPT ![p] = z] /\ pend' = pend \cup {"CHLD"}
    BY <1>2 DEF Ends
  <2>2. z \in ProcType /\ z.role = proc[p].role /\ z.st = "zombie"
    BY <1>1 DEF ProcType
  <2>3. proc[p] # Free /\ proc[p].role # "none"
    BY FreeIs DEF There
  <2> HIDE DEF z
  <2>4. proc' \in [Pids -> ProcType] /\ proc'[p] = z /\ \A q \in Pids \ {p} : proc'[q] = proc[q]
    BY <1>1, <2>1, <2>2
  <2>5. Tame
    BY <2>2, <2>3, <2>4 DEF Tame
  <2> QED BY <1>1, <1>2, <2>1, <2>2, <2>4, <2>5, TameThere
<1>3. CASE ~Supervising
  <2>1. proc' = [proc EXCEPT ![p] = Free] /\ pend' = pend
    BY <1>3 DEF Ends
  <2>2. proc' \in [Pids -> ProcType] /\ proc'[p] = Free /\ \A q \in Pids \ {p} : proc'[q] = proc[q]
    BY <1>1, <2>1, FreeIs
  <2>3. There'
    BY <2>2 DEF There, Free
  <2> QED BY <1>1, <1>3, <2>1, <2>2, <2>3, FreeIs
<1> QED BY <1>2, <1>3

LEMMA CoreDies ==
  ASSUME CoreInv, NEW p \in Pids, Die(p) \/ Obey(p) \/ Eof(p) PROVE CoreInv'
<1>1. TypeOK /\ There
  BY DEF CoreInv
<1>2. Ends(p) /\ proc[p].st # "none" /\ UNCHANGED <<mode, loop, deux, recent, flag_term, pinged, traps, logvars, asked>>
      /\ (budget' = budget \/ \E e \in Events : Spend(e))
      /\ logdied' \in {logdied, logdied \/ proc[p].role = "log"}
  BY DEF Die, Obey, Eof, Events
<1>3. /\ proc' \in [Pids -> ProcType] /\ There' /\ pend' \subseteq Signals \cup {"CHLD"}
      /\ Supervising => \A q \in Pids : proc'[q].role = proc[q].role
  BY <1>1, <1>2, EndsIs DEF Tame
<1>4. TypeOK'
  <2>1. logdied' \in BOOLEAN
    BY <1>1, <1>2, Types
  <2>2. /\ loop' \in LoopType /\ deux' \in [{0, 1} -> Pids \cup {None}] /\ traps' \in Seq(TrapType)
        /\ recent' \in [{0, 1} -> BOOLEAN] /\ lines' \in 0 .. PipeMax /\ wrote' \in Nat /\ logged' \in Nat
        /\ flag_term' \in BOOLEAN /\ pinged' \in BOOLEAN /\ wopen' \in BOOLEAN /\ left' \in BOOLEAN
        /\ broken' \in BOOLEAN /\ asked' \in BOOLEAN
    BY <1>1, <1>2, Types DEF logvars, TypeOK
  <2> QED BY <1>1, <1>2, <1>3, <2>1, <2>2, KeepsType
<1> QED BY <1>2, <1>3, <1>4, CoreQuiet

LEMMA CoreWrite ==
  ASSUME CoreInv, NEW p \in Pids, Write(p) PROVE CoreInv'
<1>1. TypeOK /\ There
  BY DEF CoreInv
<1>2. /\ lines < PipeMax /\ Spend("line")
      /\ UNCHANGED <<mode, loop, deux, recent, flag_term, pinged, traps, wopen, left, logged, logdied, asked>>
      /\ \/ lines' = lines + 1 /\ wrote' = wrote + 1 /\ UNCHANGED <<proc, pend, broken>>
         \/ broken' = TRUE /\ Ends(p) /\ UNCHANGED <<lines, wrote>> /\ proc[p].st # "none"
  BY DEF Write
<1>3. /\ proc' \in [Pids -> ProcType] /\ There' /\ pend' \subseteq Signals \cup {"CHLD"}
      /\ Supervising => \A q \in Pids : proc'[q].role = proc[q].role
  <2>1. CASE UNCHANGED <<proc, pend>>
    BY <1>1, <2>1, Types DEF There, Free
  <2>2. CASE Ends(p) /\ proc[p].st # "none"
    BY <1>1, <2>2, EndsIs DEF Tame
  <2> QED BY <1>2, <2>1, <2>2
<1>4. lines' \in 0 .. PipeMax /\ wrote' \in Nat
  BY <1>1, <1>2, Types, PipeAssumption
<1>5. TypeOK'
  <2>2. /\ loop' \in LoopType /\ deux' \in [{0, 1} -> Pids \cup {None}] /\ traps' \in Seq(TrapType)
        /\ recent' \in [{0, 1} -> BOOLEAN] /\ logged' \in Nat
        /\ flag_term' \in BOOLEAN /\ pinged' \in BOOLEAN /\ wopen' \in BOOLEAN /\ left' \in BOOLEAN
        /\ broken' \in BOOLEAN /\ asked' \in BOOLEAN /\ logdied' \in BOOLEAN
    BY <1>1, <1>2, Types
  <2>3. \E e \in Events : Spend(e)
    BY <1>2 DEF Events
  <2> QED BY <1>1, <1>2, <1>3, <1>4, <2>2, <2>3, KeepsType
<1> QED BY <1>2, <1>3, <1>5, CoreQuiet

\* The steps that leave every process as it is, or kill() one.
LEMMA CoreTame ==
  ASSUME CoreInv, Tame, UNCHANGED <<mode, loop, deux, traps, wrote, broken>>, recent' \in [{0, 1} -> BOOLEAN],
         budget' = budget \/ \E e \in Events : Spend(e), pend' \subseteq Signals \cup {"CHLD"},
         lines' \in {lines, lines - 1}, lines' >= 0, logged' \in {logged, logged + 1},
         flag_term' \in BOOLEAN, pinged' \in BOOLEAN, wopen' \in BOOLEAN, left' \in BOOLEAN,
         logdied' \in BOOLEAN, asked' \in BOOLEAN
  PROVE  CoreInv'
<1>1. TypeOK /\ There
  BY DEF CoreInv
<1>2. There' /\ proc' \in [Pids -> ProcType] /\ \A p \in Pids : proc'[p].role = proc[p].role
  BY <1>1, TameThere DEF Tame
<1>3. lines' \in 0 .. PipeMax /\ logged' \in Nat
  BY <1>1, Types, PipeAssumption
<1>4. /\ loop' \in LoopType /\ deux' \in [{0, 1} -> Pids \cup {None}] /\ traps' \in Seq(TrapType)
      /\ wrote' \in Nat /\ broken' \in BOOLEAN
  BY <1>1, Types
<1>5. TypeOK'
  BY <1>1, <1>2, <1>3, <1>4, KeepsType
<1> QED BY <1>2, <1>5, CoreQuiet

LEMMA KillsTame ==
  ASSUME TypeOK, NEW pid \in Pids \cup {None}, NEW sig, proc' = Do_kill(proc, pid, sig)
  PROVE  Tame /\ \A p \in Pids : proc'[p].st = "zombie" <=> proc[p].st = "zombie"
<1> DEFINE qs == Do_kill(proc, pid, sig)
<1>1. proc \in [Pids -> ProcType]
  BY Types
<1>2. /\ qs \in [Pids -> ProcType]
      /\ \A p \in Pids : /\ qs[p].role = proc[p].role
                         /\ qs[p].st = "zombie" <=> proc[p].st = "zombie"
                         /\ qs[p].st = "none" <=> proc[p].st = "none"
                         /\ proc[p] = Free => qs[p] = Free
  BY <1>1, Do_killIs
<1> HIDE DEF qs
<1>3. proc' = qs
  BY DEF qs
<1> QED BY <1>2, <1>3 DEF Tame

LEMMA SigtrapIs ==
  ASSUME TypeOK, NEW sig, Sigtrap(sig)
  PROVE  Tame /\ \A p \in Pids : proc'[p].st = "zombie" <=> proc[p].st = "zombie"
<1>1. proc \in [Pids -> ProcType] /\ deux[1] \in Pids \cup {None}
  BY Types
<1>2. CASE proc' = proc
  BY <1>1, <1>2 DEF Tame
<1>3. CASE proc' # proc
  <2> DEFINE s == Passed(sig)
             told == Do_kill(proc, deux[1], s)
  <2>1. proc' \in {told, Do_kill(told, deux[1], "CONT")}
    BY <1>3 DEF Sigtrap
  <2> HIDE DEF s
  <2>2. /\ told \in [Pids -> ProcType]
        /\ \A p \in Pids : /\ told[p].role = proc[p].role
                           /\ told[p].st = "zombie" <=> proc[p].st = "zombie"
                           /\ told[p].st = "none" <=> proc[p].st = "none"
                           /\ proc[p] = Free => told[p] = Free
    BY <1>1, Do_killIs
  <2> HIDE DEF told
  <2> DEFINE cont == Do_kill(told, deux[1], "CONT")
  <2>3. /\ cont \in [Pids -> ProcType]
        /\ \A p \in Pids : /\ cont[p].role = told[p].role
                           /\ cont[p].st = "zombie" <=> told[p].st = "zombie"
                           /\ cont[p].st = "none" <=> told[p].st = "none"
                           /\ told[p] = Free => cont[p] = Free
    <3>1. told \in [Pids -> ProcType] /\ deux[1] \in Pids \cup {None}
      BY <1>1, <2>2
    <3> QED BY <3>1, Do_killIs
  <2> HIDE DEF cont
  <2>4. proc' \in {told, cont}
    BY <2>1 DEF cont
  <2>5. CASE proc' = told
    BY <2>2, <2>5 DEF Tame
  <2>6. CASE proc' = cont
    BY <2>2, <2>3, <2>6 DEF Tame
  <2> QED BY <2>4, <2>5, <2>6
<1> QED BY <1>2, <1>3

\* The trapper signals the program and ends.
LEMMA TrapperIs ==
  ASSUME CoreInv, NEW k \in DOMAIN traps, Trapper(k)
  PROVE  Tame /\ \A p \in Pids : proc'[p].st = "zombie" =>
                                   proc[p].st = "zombie" \/ (p = traps[k].pid /\ "CHLD" \in pend')
<1>1. TypeOK /\ There /\ proc \in [Pids -> ProcType] /\ traps[k] \in TrapType
  BY Types DEF CoreInv
<1>2. traps[k].pid \in Pids /\ traps[k].child \in Pids /\ proc[traps[k].pid].st = "run"
      /\ pend' = pend \cup {"CHLD"}
  BY <1>1 DEF TrapType, Trapper
<1>3. PICK kills \in BOOLEAN :
        proc' = [(IF kills THEN Do_kill(proc, traps[k].child, "TERM") ELSE proc)
                   EXCEPT ![traps[k].pid].st = "zombie"]
  BY DEF Trapper
<1> DEFINE sent == IF kills THEN Do_kill(proc, traps[k].child, "TERM") ELSE proc
           t == traps[k].pid
<1>4. /\ sent \in [Pids -> ProcType]
      /\ \A p \in Pids : /\ sent[p].role = proc[p].role
                         /\ sent[p].st = "zombie" <=> proc[p].st = "zombie"
                         /\ sent[p].st = "none" <=> proc[p].st = "none"
                         /\ proc[p] = Free => sent[p] = Free
  <2>1. CASE kills
    BY <1>1, <1>2, <2>1, Do_killIs
  <2>2. CASE ~kills
    BY <1>1, <2>2
  <2> QED BY <2>1, <2>2
<1>5. proc' = [sent EXCEPT ![t].st = "zombie"]
  BY <1>3
<1> HIDE DEF sent
<1>6. /\ proc' \in [Pids -> ProcType] /\ proc'[t].role = sent[t].role /\ proc'[t].st = "zombie"
      /\ \A p \in Pids \ {t} : proc'[p] = sent[p]
  BY <1>2, <1>4, <1>5 DEF ProcType
<1>7. proc[t] # Free
  BY <1>2, FreeIs
<1> QED BY <1>2, <1>4, <1>6, <1>7 DEF Tame

LEMMA CoreOthers ==
  ASSUME CoreInv,
         \/ Second \/ ForkFails
         \/ \E p \in Pids : Read(p) \/ Leave(p)
         \/ \E sig \in Signals : Signal(sig)
         \/ \E sig \in Signals \cup {"CHLD"} : Sigtrap(sig)
         \/ \E k \in DOMAIN traps : Trapper(k)
  PROVE  CoreInv'
<1>1. TypeOK /\ lines \in Nat /\ logged \in Nat /\ loop \in LoopType
      /\ recent \in [{0, 1} -> BOOLEAN] /\ pend \subseteq Signals \cup {"CHLD"}
      /\ proc \in [Pids -> ProcType]
      /\ flag_term \in BOOLEAN /\ pinged \in BOOLEAN /\ wopen \in BOOLEAN /\ left \in BOOLEAN
      /\ logdied \in BOOLEAN /\ asked \in BOOLEAN
  BY Types DEF CoreInv
<1>2. UNCHANGED proc => Tame
  BY <1>1 DEF Tame
<1>3. CASE Second \/ ForkFails
  <2>1. /\ recent' \in [{0, 1} -> BOOLEAN] /\ (budget' = budget \/ \E e \in Events : Spend(e))
        /\ UNCHANGED <<mode, loop, deux, flag_term, pinged, pend, traps, proc, logvars, logdied, asked>>
    BY <1>3 DEF Second, ForkFails, Events
  <2> QED BY <1>1, <1>2, <2>1, CoreTame DEF logvars
<1>4. ASSUME NEW p \in Pids, Read(p) \/ Leave(p) PROVE CoreInv'
  <2>1. /\ (budget' = budget \/ \E e \in Events : Spend(e))
        /\ UNCHANGED <<mode, loop, deux, recent, flag_term, pinged, pend, traps, proc, wopen, wrote,
                       broken, logdied, asked>>
        /\ left' \in BOOLEAN /\ logged' \in {logged, logged + 1}
        /\ lines' \in {lines, lines - 1} /\ lines' >= 0
    <3>1. CASE Read(p)
      BY <1>1, <3>1 DEF Read
    <3>2. CASE Leave(p)
      <4>1. "leave" \in Events
        BY DEF Events
      <4> QED BY <1>1, <3>2, <4>1 DEF Leave
    <3> QED BY <1>4, <3>1, <3>2
  <2> QED BY <1>1, <1>2, <2>1, CoreTame
<1>5. ASSUME NEW sig \in Signals, Signal(sig) PROVE CoreInv'
  <2>1. /\ \E e \in Events : Spend(e)
        /\ asked' \in BOOLEAN
        /\ UNCHANGED <<mode, loop, deux, recent, flag_term, pinged, traps, logvars, logdied>>
    BY <1>5 DEF Signal, Events, Signals
  <2>2. Tame /\ pend' \subseteq Signals \cup {"CHLD"}
    <3>1. CASE Supervising
      BY <1>1, <1>2, <1>5, <3>1 DEF Signal
    <3>2. CASE ~Supervising
      <4>1. loop.pid \in Pids \cup {None} /\ proc' = Do_kill(proc, loop.pid, sig) /\ pend' = pend
        BY <1>1, <1>5, <3>2 DEF Signal, LoopType
      <4> QED BY <1>1, <4>1, KillsTame
    <3> QED BY <3>1, <3>2
  <2> QED BY <1>1, <2>1, <2>2, CoreTame DEF logvars
<1>6. ASSUME NEW sig \in Signals \cup {"CHLD"}, Sigtrap(sig) PROVE CoreInv'
  <2>1. Tame
    BY <1>1, <1>6, SigtrapIs
  <2> QED BY <1>1, <1>6, <2>1, CoreTame DEF Sigtrap, logvars
<1>7. ASSUME NEW k \in DOMAIN traps, Trapper(k) PROVE CoreInv'
  <2>1. Tame
    BY <1>7, TrapperIs
  <2> QED BY <1>1, <1>7, <2>1, CoreTame DEF Trapper, logvars
<1> QED BY <1>3, <1>4, <1>5, <1>6, <1>7

\* A handler of runtrap: it starts a trapper for the program it has.
LEMMA CoreSig_trap ==
  ASSUME CoreInv, NEW sig \in Signals \cup {"CHLD"}, Sig_trap(sig) PROVE CoreInv'
<1>1. TypeOK /\ There /\ Places /\ Known /\ OneEach /\ Trappings /\ loop \in LoopType
      /\ deux \in [{0, 1} -> Pids \cup {None}] /\ proc \in [Pids -> ProcType]
      /\ traps \in Seq(TrapType) /\ pend \subseteq Signals \cup {"CHLD"}
  BY Types DEF CoreInv
<1>2. /\ loop.pc = "poll" /\ pend' = pend \ {sig} /\ flag_term' \in BOOLEAN
      /\ UNCHANGED <<mode, loop, deux, recent, logvars, budget, logdied, asked>>
  BY DEF Sig_trap, Deliverable, Unblocked
<1>3. CASE flag_term \/ sig = "CHLD" \/ deux[1] = None
  <2>1. pinged' = TRUE /\ UNCHANGED <<proc, traps>>
    BY <1>3 DEF Sig_trap
  <2>2. Tame
    BY <1>1, <2>1 DEF Tame
  <2> QED BY <1>1, <1>2, <2>1, <2>2, CoreTame, Types DEF logvars
<1>4. CASE ~(flag_term \/ sig = "CHLD" \/ deux[1] = None)
  <2>1. PICK p \in NewPids :
           /\ proc' = [proc EXCEPT ![p] = Child("trap", FALSE)]
           /\ traps' = Append(traps, [sig |-> sig, pid |-> p, child |-> deux[1]])
           /\ UNCHANGED pinged
    BY <1>4 DEF Sig_trap
  <2>2. p \in Pids /\ proc[p] = Free /\ deux[1] \in Pids /\ sig \in Signals
    BY <1>1, <1>4, NewPidIs
  <2>3. /\ proc' \in [Pids -> ProcType] /\ proc'[p].role = "trap" /\ proc'[p].st = "run"
        /\ \A q \in Pids \ {p} : proc'[q] = proc[q]
    BY <1>1, <2>1, <2>2, ChildIs
  <2> DEFINE t == [sig |-> sig, pid |-> p, child |-> deux[1]]
  <2>4. t \in TrapType /\ t.pid = p /\ t.child = deux[1]
    BY <2>2 DEF TrapType
  <2> HIDE DEF t
  <2>5. /\ traps' \in Seq(TrapType)
        /\ \A k \in DOMAIN traps' : traps'[k] = t \/ (k \in DOMAIN traps /\ traps'[k] = traps[k])
    <3>1. traps' = Append(traps, t)
      BY <2>1 DEF t
    <3> QED BY <1>1, <2>4, <3>1
  <2>6. TypeOK'
    <3>1. /\ loop' \in LoopType /\ deux' \in [{0, 1} -> Pids \cup {None}]
          /\ recent' \in [{0, 1} -> BOOLEAN] /\ lines' \in 0 .. PipeMax /\ wrote' \in Nat /\ logged' \in Nat
          /\ pinged' \in BOOLEAN /\ wopen' \in BOOLEAN /\ left' \in BOOLEAN
          /\ broken' \in BOOLEAN /\ asked' \in BOOLEAN /\ logdied' \in BOOLEAN
      BY <1>1, <1>2, <2>1, Types DEF logvars, TypeOK
    <3> QED BY <1>1, <1>2, <2>3, <2>5, <3>1, KeepsType
  <2>7. There'
    BY <1>1, <2>3 DEF There, Free
  <2>8. Places'
    BY <1>1, <1>2 DEF Places
  <2>9. Known'
    <3>1. \A i \in {0, 1} : deux[i] # None => deux[i] \in Pids /\ deux[i] # p /\ proc[deux[i]].role = Role(i)
      BY <1>1, <1>2, <2>2, FreeIs DEF Known, Role
    <3> QED BY <1>2, <2>3, <3>1 DEF Known
  <2>10. OneEach'
    BY <1>1, <1>2, <2>3 DEF OneEach, Supervising, Role
  <2>11. Trappings'
    <3> SUFFICES ASSUME NEW k \in DOMAIN traps'
                 PROVE  deux[1] = traps'[k].child /\ proc'[traps'[k].pid].role \in {"trap", "none"}
      BY <1>2 DEF Trappings
    <3>1. CASE traps'[k] = t
      BY <2>3, <2>4, <3>1
    <3>2. CASE k \in DOMAIN traps /\ traps'[k] = traps[k]
      <4>1. traps[k] \in TrapType /\ traps[k].pid \in Pids
        <5>1. traps[k] \in TrapType
          BY <1>1, <3>2
        <5> QED BY <5>1 DEF TrapType
      <4>2. deux[1] = traps[k].child /\ proc[traps[k].pid].role \in {"trap", "none"}
        BY <1>1, <3>2 DEF Trappings
      <4> QED BY <2>3, <3>2, <4>1, <4>2
    <3> QED BY <2>5, <3>1, <3>2
  <2> QED BY <2>6, <2>7, <2>8, <2>9, <2>10, <2>11 DEF CoreInv
<1> QED BY <1>3, <1>4

LEMMA CoreTrapped ==
  ASSUME CoreInv, Trapped PROVE CoreInv'
<1>1. TypeOK /\ There /\ Places /\ Known /\ OneEach /\ Trappings /\ loop \in LoopType
      /\ deux \in [{0, 1} -> Pids \cup {None}] /\ proc \in [Pids -> ProcType]
      /\ traps \in Seq(TrapType)
  BY Types DEF CoreInv
<1> DEFINE n == Len(traps)
           p == traps[n].pid
<1>2. /\ traps # <<>> /\ proc[p].st = "zombie" /\ proc' = [proc EXCEPT ![p] = Free]
      /\ traps' = SubSeq(traps, 1, n - 1) /\ pinged' = TRUE
      /\ UNCHANGED <<mode, loop, deux, recent, flag_term, pend, logvars, budget, logdied, asked>>
  BY DEF Trapped
<1>3. n \in DOMAIN traps /\ traps[n] \in TrapType /\ n \in Nat
  BY <1>1, <1>2
<1>4. p \in Pids /\ proc[p].role = "trap" /\ loop.pc = "poll"
  <2>1. p \in Pids
    BY <1>3 DEF TrapType
  <2>2. proc[p].role \in {"trap", "none"}
    BY <1>1, <1>3 DEF Trappings
  <2>3. proc[p].role # "none"
    BY <1>1, <1>2, <2>1, FreeIs DEF There
  <2> QED BY <1>1, <1>2, <2>1, <2>2, <2>3 DEF Places
<1>5. /\ proc' \in [Pids -> ProcType] /\ proc'[p] = Free
      /\ \A q \in Pids \ {p} : proc'[q] = proc[q]
  BY <1>1, <1>2, <1>4, FreeIs
<1>6. /\ traps' \in Seq(TrapType)
      /\ \A k \in DOMAIN traps' : k \in DOMAIN traps /\ traps'[k] = traps[k]
  BY <1>1, <1>2, <1>3
<1> HIDE DEF p, n
<1>7. TypeOK'
  <2>1. /\ loop' \in LoopType /\ deux' \in [{0, 1} -> Pids \cup {None}]
        /\ recent' \in [{0, 1} -> BOOLEAN] /\ lines' \in 0 .. PipeMax /\ wrote' \in Nat /\ logged' \in Nat
        /\ pinged' \in BOOLEAN /\ wopen' \in BOOLEAN /\ left' \in BOOLEAN
        /\ broken' \in BOOLEAN /\ asked' \in BOOLEAN /\ logdied' \in BOOLEAN /\ flag_term' \in BOOLEAN
        /\ pend' \subseteq Signals \cup {"CHLD"}
    BY <1>1, <1>2, Types DEF logvars, TypeOK
  <2> QED BY <1>1, <1>2, <1>5, <1>6, <2>1, KeepsType
<1>8. There' /\ Places'
  BY <1>1, <1>2, <1>4, <1>5 DEF There, Free, Places
<1>9. Known'
  <2>1. \A i \in {0, 1} : deux[i] # None => deux[i] \in Pids /\ deux[i] # p /\ proc[deux[i]].role = Role(i)
    BY <1>1, <1>4 DEF Known, Role
  <2> QED BY <1>2, <1>4, <1>5, <2>1 DEF Known
<1>10. OneEach'
  BY <1>1, <1>2, <1>5, FreeIs DEF OneEach, Supervising, Role
<1>11. Trappings'
  <2> SUFFICES ASSUME NEW k \in DOMAIN traps'
               PROVE  deux[1] = traps'[k].child /\ proc'[traps'[k].pid].role \in {"trap", "none"}
    BY <1>2 DEF Trappings
  <2>1. k \in DOMAIN traps /\ traps'[k] = traps[k] /\ traps[k] \in TrapType
    BY <1>1, <1>6
  <2>2. deux[1] = traps[k].child /\ proc[traps[k].pid].role \in {"trap", "none"} /\ traps[k].pid \in Pids
    BY <1>1, <2>1 DEF Trappings, TrapType
  <2> QED BY <1>5, <2>1, <2>2, FreeIs
<1> QED BY <1>7, <1>8, <1>9, <1>10, <1>11 DEF CoreInv

\* A dead child leaves the table and is forgotten.
LEMMA Reaped ==
  ASSUME TypeOK, There, NEW p \in Pids, proc' = [proc EXCEPT ![p] = Free]
  PROVE  /\ proc' \in [Pids -> ProcType] /\ There'
         /\ proc'[p] = Free /\ \A q \in Pids \ {p} : proc'[q] = proc[q]
<1>1. proc \in [Pids -> ProcType]
  BY Types
<1>2. proc'[p] = Free /\ \A q \in Pids \ {p} : proc'[q] = proc[q]
  BY <1>1
<1>3. There'
  BY <1>2 DEF There, Free
<1> QED BY <1>1, <1>2, <1>3, FreeIs

LEMMA CoreChild_wait ==
  ASSUME CoreInv, Child_wait PROVE CoreInv'
<1>1. TypeOK /\ There /\ Places /\ Known /\ OneEach /\ Trappings /\ loop \in LoopType
      /\ deux \in [{0, 1} -> Pids \cup {None}] /\ proc \in [Pids -> ProcType]
  BY Types DEF CoreInv
<1>2. /\ loop.pc = "wait" /\ traps = <<>>
      /\ UNCHANGED <<mode, recent, flag_term, pinged, pend, traps, logvars, budget, logdied, asked>>
  BY <1>1 DEF Child_wait, Places
<1>3. loop' \in LoopType /\ loop'.pc \in {"wait", "top"}
  <2>1. loop' \in {[loop EXCEPT !.pc = "wait"], [loop EXCEPT !.pc = "top"]}
    BY DEF Child_wait, Goto
  <2> QED BY <1>1, <2>1 DEF LoopType, PcType
<1>4. /\ proc' \in [Pids -> ProcType] /\ deux' \in [{0, 1} -> Pids \cup {None}] /\ There'
      /\ \A i \in {0, 1} : deux'[i] # None => deux'[i] = deux[i] /\ proc'[deux[i]] = proc[deux[i]]
      /\ \A q \in Pids : \A i \in {0, 1} : proc'[q].role = Role(i) => proc[q].role = Role(i) /\ deux'[i] = deux[i]
  <2>1. CASE UNCHANGED <<proc, deux>>
    BY <1>1, <2>1 DEF There, Free
  <2>2. CASE \E p \in Zombies : proc' = [proc EXCEPT ![p] = Free] /\ deux' = Forget(p)
    <3>0. PICK p \in Zombies : proc' = [proc EXCEPT ![p] = Free] /\ deux' = Forget(p)
      BY <2>2
    <3>1. p \in Pids
      BY DEF Zombies
    <3>2. /\ proc' \in [Pids -> ProcType] /\ There'
          /\ proc'[p] = Free /\ \A q \in Pids \ {p} : proc'[q] = proc[q]
      BY <1>1, <3>0, <3>1, Reaped
    <3>3. \A i \in {0, 1} : deux'[i] = IF deux[i] = p THEN None ELSE deux[i]
      BY <3>0 DEF Forget
    <3>4. deux' \in [{0, 1} -> Pids \cup {None}]
      BY <1>1, <3>0 DEF Forget
    <3>5. ASSUME NEW q \in Pids, NEW i \in {0, 1}, proc'[q].role = Role(i)
          PROVE  proc[q].role = Role(i) /\ deux'[i] = deux[i]
      <4>1. q # p
        BY <3>2, <3>5, FreeIs DEF Role
      <4>2. proc[q].role = Role(i)
        BY <3>2, <3>5, <4>1
      <4>3. deux[i] = q
        BY <1>1, <1>2, <4>2 DEF OneEach, Supervising
      <4> QED BY <3>3, <4>1, <4>2, <4>3
    <3>6. ASSUME NEW i \in {0, 1}, deux'[i] # None
          PROVE  deux'[i] = deux[i] /\ proc'[deux[i]] = proc[deux[i]]
      BY <1>1, <3>2, <3>3, <3>6
    <3> QED BY <3>2, <3>4, <3>5, <3>6
  <2> QED BY <2>1, <2>2 DEF Child_wait
<1>5. TypeOK'
  <2>1. /\ traps' \in Seq(TrapType)
        /\ recent' \in [{0, 1} -> BOOLEAN] /\ lines' \in 0 .. PipeMax /\ wrote' \in Nat /\ logged' \in Nat
        /\ pinged' \in BOOLEAN /\ wopen' \in BOOLEAN /\ left' \in BOOLEAN
        /\ broken' \in BOOLEAN /\ asked' \in BOOLEAN /\ logdied' \in BOOLEAN /\ flag_term' \in BOOLEAN
        /\ pend' \subseteq Signals \cup {"CHLD"}
    BY <1>1, <1>2, Types DEF logvars, TypeOK
  <2> QED BY <1>1, <1>2, <1>3, <1>4, <2>1, KeepsType
<1>6. Places' /\ Trappings'
  BY <1>2, <1>3 DEF Places, Trappings
<1>7. Known'
  BY <1>1, <1>2, <1>3, <1>4 DEF Known
<1>8. OneEach'
  BY <1>1, <1>2, <1>3, <1>4 DEF OneEach, Supervising
<1> QED BY <1>4, <1>5, <1>6, <1>7, <1>8 DEF CoreInv

\* The last steps of perpboot and rundeux: no pid is forgotten, none is used.
LEMMA CoreEnds ==
  ASSUME CoreInv, Harvest \/ Close_logpipe \/ Last PROVE CoreInv'
<1>1. TypeOK /\ There /\ Places /\ Known /\ OneEach /\ Trappings /\ loop \in LoopType
      /\ deux \in [{0, 1} -> Pids \cup {None}] /\ proc \in [Pids -> ProcType]
  BY Types DEF CoreInv
<1>2. /\ loop.pc \in {"end", "close", "last"} /\ traps = <<>> /\ wopen' \in BOOLEAN
      /\ UNCHANGED <<mode, deux, recent, flag_term, pinged, pend, traps, lines, left, wrote, logged,
                     broken, budget, logdied, asked>>
  BY <1>1, Types DEF Harvest, Close_logpipe, Last, Places, logvars
<1>3. /\ loop' \in LoopType /\ loop'.pc \in {"close", "last", "done"}
      /\ loop'.pc \in {"close", "last"} => deux[0] # None
  <2>1. CASE Harvest
    <3>1. loop' = [loop EXCEPT !.pc = IF deux[0] = None THEN "done" ELSE "close"]
      BY <2>1 DEF Harvest, Goto
    <3> QED BY <1>1, <3>1 DEF LoopType, PcType
  <2>2. CASE Close_logpipe
    BY <1>1, <2>2 DEF Close_logpipe, Goto, LoopType, PcType, Places
  <2>3. CASE Last
    BY <1>1, <2>3 DEF Last, Goto, LoopType, PcType
  <2> QED BY <2>1, <2>2, <2>3
<1>4. /\ proc' \in [Pids -> ProcType] /\ There'
      /\ \A q \in Pids : proc'[q].role \in {"none", proc[q].role}
      /\ loop'.pc \in {"close", "last"} => proc'[deux[0]].role = "log"
  <2>1. CASE UNCHANGED proc
    <3>1. loop'.pc \in {"close", "last"} => proc[deux[0]].role = "log"
      BY <1>1, <1>2, <1>3 DEF Known, Role
    <3> QED BY <1>1, <2>1, <3>1 DEF There, Free
  <2>2. CASE Harvest /\ mode.tool = "perpboot" /\ deux[1] # None
    <3>1. deux[1] \in Pids /\ proc' = [proc EXCEPT ![deux[1]] = Free] /\ loop.pc = "end"
      BY <1>1, <2>2 DEF Harvest, Reap
    <3>2. /\ proc' \in [Pids -> ProcType] /\ There'
          /\ proc'[deux[1]] = Free /\ \A q \in Pids \ {deux[1]} : proc'[q] = proc[q]
      BY <1>1, <3>1, Reaped
    <3>3. deux[0] # None => deux[0] \in Pids /\ deux[0] # deux[1] /\ proc[deux[0]].role = "log"
      <4>1. /\ deux[0] # None => proc[deux[0]].role = Role(0)
            /\ proc[deux[1]].role = Role(1)
        BY <1>1, <2>2, <3>1 DEF Known
      <4> QED BY <1>1, <4>1 DEF Role
    <3> QED BY <1>3, <3>2, <3>3, FreeIs
  <2>3. CASE Close_logpipe
    <3>1. deux[0] \in Pids \cup {None} /\ proc' = Do_kill(proc, deux[0], "CONT") /\ loop.pc = "close"
      BY <1>1, <2>3 DEF Close_logpipe
    <3>2. Tame
      BY <1>1, <3>1, KillsTame
    <3>3. deux[0] \in Pids /\ proc[deux[0]].role = "log"
      BY <1>1, <3>1 DEF Known, Places
    <3> QED BY <1>1, <3>2, <3>3, TameThere DEF Tame
  <2>4. CASE Last
    <3>1. /\ deux[0] \in Pids /\ proc' = [proc EXCEPT ![deux[0]] = Free] /\ loop'.pc = "done"
      BY <1>1, <2>4 DEF Last, Reap, Goto, Places, LoopType
    <3> QED BY <1>1, <3>1, Reaped, FreeIs
  <2> QED BY <2>1, <2>2, <2>3, <2>4 DEF Harvest
<1>5. TypeOK'
  <2>1. /\ traps' \in Seq(TrapType) /\ deux' \in [{0, 1} -> Pids \cup {None}]
        /\ recent' \in [{0, 1} -> BOOLEAN] /\ lines' \in 0 .. PipeMax /\ wrote' \in Nat /\ logged' \in Nat
        /\ pinged' \in BOOLEAN /\ left' \in BOOLEAN
        /\ broken' \in BOOLEAN /\ asked' \in BOOLEAN /\ logdied' \in BOOLEAN /\ flag_term' \in BOOLEAN
        /\ pend' \subseteq Signals \cup {"CHLD"}
    BY <1>1, <1>2, Types DEF TypeOK
  <2> QED BY <1>1, <1>2, <1>3, <1>4, <2>1, KeepsType
<1>6. Places' /\ Trappings'
  BY <1>2, <1>3 DEF Places, Trappings
<1>7. Known'
  BY <1>2, <1>3, <1>4 DEF Known
<1>8. OneEach'
  BY <1>1, <1>2, <1>3, <1>4 DEF OneEach, Supervising, Role
<1> QED BY <1>4, <1>5, <1>6, <1>7, <1>8 DEF CoreInv

-----------------------------------------------------------------------------

LEMMA CoreInit == Init => CoreInv
<1> SUFFICES ASSUME Init PROVE CoreInv
  OBVIOUS
<1>1. TypeOK
  <2>1. mode \in Mode /\ budget \in [Events -> Nat]
    BY ModesAssumption, BudgetsAssumption DEF Init
  <2>2. 0 \in 0 .. PipeMax /\ wopen \in BOOLEAN
    BY PipeAssumption DEF Init
  <2>3. proc \in [Pids -> ProcType]
    BY FreeIs DEF Init
  <2>4. traps \in Seq([sig : Signals, pid : Pids, child : Pids])
    BY DEF Init
  <2>5. /\ loop \in LoopType /\ deux \in [{0, 1} -> Pids \cup {None}]
        /\ recent \in [{0, 1} -> BOOLEAN]
    BY DEF Init, LoopType, PcType
  <2>6. /\ {flag_term, pinged, wopen, left, broken, logdied, asked} \subseteq BOOLEAN
        /\ pend \subseteq Signals \cup {"CHLD"}
    BY <2>2 DEF Init
  <2>7. lines \in 0 .. PipeMax /\ {wrote, logged} \subseteq Nat
    BY <2>2 DEF Init
  <2> QED BY <2>1, <2>3, <2>4, <2>5, <2>6, <2>7 DEF TypeOK, ProcType, LoopType, PcType
<1>2. There /\ Places /\ Known /\ OneEach /\ Trappings
  BY FreeIs DEF Init, There, Places, Known, OneEach, Trappings, Role
<1> QED BY <1>1, <1>2 DEF CoreInv

\* The steps of Next, by what they do to the children.
LEMMA NextCases ==
  ASSUME Next
  PROVE  \/ Top \/ Start \/ Pause \/ Poll \/ Fork \/ Exec \/ Forked \/ Trapped
         \/ Child_wait \/ Harvest \/ Close_logpipe \/ Last
         \/ \E sig \in Signals \cup {"CHLD"} : Sigtrap(sig) \/ Sig_trap(sig)
         \/ \E k \in DOMAIN traps : Trapper(k)
         \/ \E p \in Pids : Obey(p) \/ Read(p) \/ Eof(p) \/ Die(p) \/ Write(p) \/ Leave(p)
         \/ Second \/ ForkFails \/ \E sig \in Signals : Signal(sig)
BY DEF Next, Supervisor, Handle, Trappers, Children, Environment

LEMMA CoreNext == CoreInv /\ [Next]_vars => CoreInv'
<1> SUFFICES ASSUME CoreInv, [Next]_vars PROVE CoreInv'
  OBVIOUS
<1>1. CASE UNCHANGED vars
  BY <1>1 DEF vars, CoreInv, TypeOK, There, Free, Places, Known, OneEach, Supervising, Trappings
<1>2. CASE Next
  <2>1. ASSUME NEW p \in Pids, Obey(p) \/ Eof(p) \/ Die(p) PROVE CoreInv'
    BY <2>1, CoreDies
  <2>2. ASSUME NEW p \in Pids, Write(p) PROVE CoreInv'
    BY <2>2, CoreWrite
  <2>3. ASSUME NEW sig \in Signals \cup {"CHLD"}, Sig_trap(sig) PROVE CoreInv'
    BY <2>3, CoreSig_trap
  <2>4. ASSUME \E p \in Pids : Read(p) \/ Leave(p) PROVE CoreInv'
    BY <2>4, CoreOthers
  <2>5. ASSUME \E sig \in Signals \cup {"CHLD"} : Sigtrap(sig) PROVE CoreInv'
    BY <2>5, CoreOthers
  <2> QED BY <1>2, <2>1, <2>2, <2>3, <2>4, <2>5, NextCases, CoreLoop, CoreFork, CoreExec, CoreForked, CoreTrapped,
             CoreChild_wait, CoreEnds, CoreOthers
<1> QED BY <1>1, <1>2

LEMMA CoreAlways == Spec => []CoreInv
BY CoreInit, CoreNext, PTL DEF Spec

\* For any number of signals, deaths and failures of fork(), and any pids that
\* fork() reuses: perpboot, rundeux and runtrap never have two programs or two
\* loggers, and a trapper of runtrap never has a pid that is not its child's.
THEOREM ChildrenKnown == Spec => []ChildrenInv
<1>1. CoreInv => ChildrenInv
  <2> SUFFICES ASSUME CoreInv PROVE ChildrenInv
    OBVIOUS
  <2>1. TypeOK /\ Places /\ Known /\ OneEach /\ Trappings /\ traps \in Seq(TrapType)
    BY Types DEF CoreInv
  <2>2. TrapsOwnChild
    <3> SUFFICES ASSUME NEW k \in DOMAIN traps
                 PROVE  deux[1] = traps[k].child /\ proc[traps[k].child].role = "prog"
      BY DEF TrapsOwnChild
    <3>1. deux[1] = traps[k].child /\ loop.pc = "poll" /\ traps[k] \in TrapType
      BY <2>1 DEF Trappings, Places
    <3>2. deux[1] # None
      BY <3>1, PidsAssumption DEF TrapType
    <3> QED BY <2>1, <3>1, <3>2 DEF Known, Role
  <2> QED BY <2>1, <2>2 DEF ChildrenInv
<1> QED BY <1>1, CoreAlways, PTL

-----------------------------------------------------------------------------
(* The supervisor is woken for what it has to do. *)

LEMMA WokenLoop ==
  ASSUME CoreInv, Woken, Top \/ Start \/ Pause \/ Poll \/ Forked PROVE Woken'
<1>1. loop \in LoopType
  BY Types DEF CoreInv
<1>2. UNCHANGED <<mode, flag_term, pend, proc>> /\ Zombies' = Zombies
  BY DEF Top, Start, Pause, Poll, Forked, Zombies
<1>3. CASE Poll
  BY <1>1, <1>2, <1>3 DEF Woken, Poll, Goto, LoopType
<1>4. CASE Top
  <2>1. loop.pc = "top" /\ pinged' = pinged
    BY <1>4 DEF Top
  <2>2. mode.tool # "runtrap" /\ flag_term => loop'.pc = "end"
    BY <1>1, <1>4 DEF Top, Finished, LoopType
  <2> QED BY <1>2, <2>1, <2>2 DEF Woken
<1>5. CASE Start \/ Pause \/ Forked
  <2>1. loop.pc \in {"start", "pause", "forked"} /\ pinged' = pinged
    BY <1>5 DEF Start, Pause, Forked
  <2> QED BY <1>2, <2>1 DEF Woken
<1> QED BY <1>3, <1>4, <1>5

LEMMA WokenFork ==
  ASSUME CoreInv, Woken, Fork \/ Exec PROVE Woken'
<1>1. loop \in LoopType /\ proc \in [Pids -> ProcType] /\ loop.pc = "fork"
  BY Types DEF CoreInv, Fork, Exec
<1>2. mode.tool # "runtrap" => ~flag_term
  BY <1>1 DEF Woken
<1>3. CASE Fork
  <2>1. Zombies' \subseteq Zombies
    <3>1. PICK p \in NewPids : proc' = [proc EXCEPT ![p] = Child(Role(loop.i), FALSE)]
      BY <1>3 DEF Fork
    <3>2. Child(Role(loop.i), FALSE).st = "run" /\ p \in Pids
      BY NewPidIs DEF Child
    <3> QED BY <1>1, <3>1, <3>2 DEF Zombies
  <2> QED BY <1>1, <1>2, <1>3, <2>1 DEF Woken, Fork
<1>4. CASE Exec
  <2>1. loop'.pc = "program" /\ UNCHANGED <<mode, flag_term>>
    BY <1>1, <1>4 DEF Exec, LoopType
  <2> QED BY <1>2, <2>1 DEF Woken
<1> QED BY <1>3, <1>4

LEMMA WokenHandlers ==
  ASSUME CoreInv, Woken,
         \/ Trapped
         \/ \E sig \in Signals \cup {"CHLD"} : Sigtrap(sig) \/ Sig_trap(sig)
         \/ \E k \in DOMAIN traps : Trapper(k)
  PROVE  Woken'
<1>1. proc \in [Pids -> ProcType] /\ Places
  BY Types DEF CoreInv
<1>2. CASE Trapped
  <2>1. loop.pc = "poll" /\ pinged' = TRUE /\ UNCHANGED <<mode, loop>>
    BY <1>1, <1>2 DEF Trapped, Places
  <2> QED BY <2>1 DEF Woken
<1>3. ASSUME NEW sig \in Signals \cup {"CHLD"}, Sigtrap(sig) PROVE Woken'
  BY <1>3 DEF Woken, Sigtrap, Deliverable, Unblocked
<1>4. ASSUME NEW sig \in Signals \cup {"CHLD"}, Sig_trap(sig) PROVE Woken'
  <2>1. mode.tool = "runtrap" /\ UNCHANGED <<mode, loop>> /\ pend' = pend \ {sig}
    BY <1>4 DEF Sig_trap
  <2>2. CASE pinged' = TRUE
    BY <2>1, <2>2 DEF Woken
  <2>3. CASE pinged' # TRUE
    <3>1. sig # "CHLD" /\ pinged' = pinged
      BY <1>4, <2>3 DEF Sig_trap
    <3>2. PICK p \in NewPids : proc' = [proc EXCEPT ![p] = Child("trap", FALSE)]
      BY <1>4, <2>3 DEF Sig_trap
    <3>3. Child("trap", FALSE).st = "run" /\ p \in Pids
      BY NewPidIs DEF Child
    <3>4. Zombies' \subseteq Zombies
      BY <1>1, <3>2, <3>3 DEF Zombies
    <3> QED BY <2>1, <3>1, <3>4 DEF Woken
  <2> QED BY <2>2, <2>3
<1>5. ASSUME NEW k \in DOMAIN traps, Trapper(k) PROVE Woken'
  BY <1>5 DEF Woken, Trapper
<1> QED BY <1>2, <1>3, <1>4, <1>5

LEMMA WokenReaps ==
  ASSUME CoreInv, Woken, Child_wait \/ Harvest \/ Close_logpipe \/ Last PROVE Woken'
<1>1. loop \in LoopType
  BY Types DEF CoreInv
<1>2. UNCHANGED <<mode, pinged, pend>>
  BY DEF Child_wait, Harvest, Close_logpipe, Last
<1>3. CASE Child_wait
  <2>1. loop'.pc = "wait" \/ (loop'.pc = "top" /\ Zombies' = {})
    <3>1. CASE Zombies = {} /\ Goto("top") /\ UNCHANGED <<proc, deux>>
      BY <1>1, <3>1 DEF Goto, LoopType, Zombies
    <3>2. CASE Goto(IF More' THEN "wait" ELSE "top")
      BY <1>1, <3>2 DEF Goto, LoopType, More
    <3> QED BY <1>3, <3>1, <3>2 DEF Child_wait
  <2> QED BY <1>2, <2>1 DEF Woken
<1>4. CASE Harvest \/ Close_logpipe \/ Last
  <2>1. loop'.pc \in {"close", "last", "done"}
    BY <1>1, <1>4 DEF Harvest, Close_logpipe, Last, Goto, LoopType
  <2> QED BY <1>2, <2>1 DEF Woken
<1> QED BY <1>3, <1>4

LEMMA WokenOthers ==
  ASSUME CoreInv, Woken,
         \/ Second \/ ForkFails
         \/ \E p \in Pids : Obey(p) \/ Read(p) \/ Eof(p) \/ Die(p) \/ Write(p) \/ Leave(p)
         \/ \E sig \in Signals : Signal(sig)
  PROVE  Woken'
<1>1. TypeOK /\ loop \in LoopType
  BY Types DEF CoreInv
<1>2. UNCHANGED <<mode, loop, flag_term, pinged>>
  BY DEF Second, ForkFails, Obey, Read, Eof, Die, Write, Leave, Signal
<1>3. CASE ~Supervising
  BY <1>2, <1>3 DEF Woken, Supervising
<1>4. CASE Supervising /\ pend \subseteq pend' /\ proc' = proc
  BY <1>2, <1>4 DEF Woken, Zombies
<1>5. CASE Supervising /\ \E p \in Pids : Ends(p)
  BY <1>2, <1>5 DEF Woken, Ends
<1>6. ASSUME NEW p \in Pids, Obey(p) \/ Read(p) \/ Eof(p) \/ Die(p) \/ Write(p) \/ Leave(p)
      PROVE  Ends(p) \/ (pend' = pend /\ proc' = proc)
  BY <1>6 DEF Obey, Read, Eof, Die, Write, Leave
<1>7. ASSUME NEW sig \in Signals, Signal(sig), Supervising PROVE pend \subseteq pend' /\ proc' = proc
  BY <1>7 DEF Signal
<1>8. ASSUME Second \/ ForkFails PROVE pend' = pend /\ proc' = proc
  BY <1>8 DEF Second, ForkFails
<1> QED BY <1>3, <1>4, <1>5, <1>6, <1>7, <1>8

LEMMA WokenNext == CoreInv /\ Woken /\ [Next]_vars => Woken'
<1> SUFFICES ASSUME CoreInv, Woken, [Next]_vars PROVE Woken'
  OBVIOUS
<1>1. CASE UNCHANGED vars
  BY <1>1 DEF vars, Woken, Zombies
<1>2. CASE Next
  BY <1>2, NextCases, WokenLoop, WokenFork, WokenHandlers, WokenReaps, WokenOthers
<1> QED BY <1>1, <1>2

LEMMA WokenAlways == Spec => []Woken
<1>1. Init => Woken
  BY DEF Init, Woken, Zombies, Free
<1> QED BY <1>1, WokenNext, CoreAlways, PTL DEF Spec

\* However signals, deaths and failures of fork() come between the steps of
\* main_loop(): it never sleeps in poll() while a child of its is dead or
\* missing, or a termination is asked of it, with nobody to wake it.
THEOREM SleepsIdle == Spec => []Asleep
<1>1. CoreInv /\ Woken => Asleep
  <2> SUFFICES ASSUME CoreInv, Woken, loop.pc = "poll", ~pinged, pend = {}, traps = <<>>
               PROVE  /\ Zombies = {}
                      /\ Live("prog") = {deux[1]}
                      /\ mode.tool # "runtrap" => Live("log") = {deux[0]} /\ ~flag_term
    BY DEF Asleep
  <2>1. There /\ Places /\ Known /\ OneEach /\ deux \in [{0, 1} -> Pids \cup {None}]
        /\ proc \in [Pids -> ProcType]
    BY Types DEF CoreInv
  <2>2. Zombies = {} /\ (mode.tool # "runtrap" => ~flag_term)
    BY DEF Woken
  <2>3. ASSUME NEW i \in {0, 1}, i = 0 => mode.tool # "runtrap" PROVE Live(Role(i)) = {deux[i]}
    <3>1. deux[i] \in Pids /\ deux[i] # None
      BY <2>1, <2>3 DEF Places
    <3>2. proc[deux[i]].role = Role(i)
      BY <2>1, <3>1 DEF Known
    <3>3. proc[deux[i]].st \in {"run", "stop"}
      <4>1. proc[deux[i]] # Free
        BY <3>2, FreeIs DEF Role
      <4>2. proc[deux[i]].st \notin {"none", "zombie"}
        BY <2>1, <2>2, <3>1, <4>1 DEF There, Zombies
      <4> QED BY <2>1, <3>1, <4>2 DEF ProcType
    <3>4. \A p \in Pids : proc[p].role = Role(i) => p = deux[i]
      BY <2>1 DEF OneEach, Supervising
    <3> QED BY <3>1, <3>2, <3>3, <3>4 DEF Live
  <2> QED BY <2>2, <2>3 DEF Role
<1> QED BY <1>1, CoreAlways, WokenAlways, PTL

-----------------------------------------------------------------------------
(* The log. *)

\* A step of main_loop() that leaves the processes and the log alone.
LEMMA LogsLoop ==
  ASSUME CoreInv, Logs, Top \/ Start \/ Pause \/ Poll \/ Second \/ ForkFails \/ (\E p \in Pids : Leave(p))
  PROVE  Logs'
<1>1. loop \in LoopType
  BY Types DEF CoreInv
<1>2. UNCHANGED <<mode, deux, flag_term, proc, wopen, lines, wrote, logged, broken, logdied>>
  BY DEF Top, Start, Pause, Poll, Second, ForkFails, Leave, logvars
<1>3. CASE UNCHANGED loop
  BY <1>2, <1>3 DEF Logs, HeldOpen, FirstLogger, LastLogger, Outlives, LinesKept, CleanEnd,
                    Supervising, Live
<1>4. CASE Top \/ Start \/ Pause \/ Poll
  <2>1. /\ loop.pc \in {"top", "start", "pause", "poll"}
        /\ mode.tool # "runtrap" => loop'.pc \in {"start", "end", "poll", "pause", "fork", "wait"}
        /\ mode.tool = "runtrap" => loop'.pc \in {"start", "done", "poll", "pause", "fork", "wait"}
    BY <1>1, <1>4 DEF Top, Start, Pause, Poll, Goto, LoopType
  <2>2. FirstLogger'
    <3> SUFFICES ASSUME mode.tool # "runtrap", ~logdied, deux[0] = None
                 PROVE  loop'.i = 0 /\ loop'.pc \in {"top", "start", "pause", "fork", "forked"}
      BY <1>2, <2>1 DEF FirstLogger, Logs, Supervising
    <3>1. loop.i = 0 /\ ~flag_term /\ loop.pc \in {"top", "start", "pause", "fork", "forked"}
      BY <2>1 DEF FirstLogger, Logs, Supervising
    <3>2. CASE Top
      BY <1>1, <3>1, <3>2 DEF Top, Finished, LoopType
    <3>3. CASE Start \/ Pause \/ Poll
      BY <1>1, <3>1, <3>3 DEF Start, Pause, Poll, Goto, LoopType
    <3> QED BY <1>4, <3>2, <3>3
  <2>3. HeldOpen' /\ LastLogger' /\ Outlives'
    BY <1>2, <2>1 DEF Logs, HeldOpen, LastLogger, Outlives
  <2>4. LinesKept' /\ CleanEnd'
    BY <1>2, <2>1 DEF Logs, LinesKept, CleanEnd, Supervising
  <2> QED BY <2>2, <2>3, <2>4 DEF Logs
<1> QED BY <1>3, <1>4 DEF Second, ForkFails, Leave

LEMMA LogsFork ==
  ASSUME CoreInv, Logs, Fork \/ Exec \/ Forked PROVE Logs'
<1>1. /\ loop \in LoopType /\ proc \in [Pids -> ProcType] /\ Places /\ Known
      /\ deux \in [{0, 1} -> Pids \cup {None}]
  BY Types DEF CoreInv
<1>2. CASE Exec
  <2>1. loop'.pc = "program"
    BY <1>1, <1>2 DEF Exec, LoopType
  <2> QED BY <2>1 DEF Logs, HeldOpen, FirstLogger, LastLogger, Outlives, LinesKept, CleanEnd, Supervising
<1>3. CASE Fork
  <2>1. /\ loop.pc = "fork" /\ loop'.pc = "forked" /\ loop'.i = loop.i
        /\ UNCHANGED <<mode, deux, flag_term, wopen, lines, wrote, logged, broken, logdied>>
    BY <1>1, <1>3 DEF Fork, LoopType, logvars
  <2>2. \A q \in Pids : proc'[q].st = "zombie" => proc'[q] = proc[q]
    <3>1. PICK p \in NewPids : proc' = [proc EXCEPT ![p] = Child(Role(loop.i), FALSE)]
      BY <1>3 DEF Fork
    <3>2. Child(Role(loop.i), FALSE).st = "run" /\ p \in Pids
      BY NewPidIs DEF Child
    <3> QED BY <1>1, <3>1, <3>2
  <2> QED BY <2>1, <2>2 DEF Logs, HeldOpen, FirstLogger, LastLogger, Outlives, LinesKept, CleanEnd, Supervising
<1>4. CASE Forked
  <2>1. /\ loop.pc = "forked" /\ loop'.pc = "start"
        /\ deux' = [deux EXCEPT ![loop.i] = loop.pid]
        /\ UNCHANGED <<mode, flag_term, proc, wopen, lines, wrote, logged, broken, logdied>>
    BY <1>1, <1>4 DEF Forked, LoopType, logvars
  <2>2. mode.tool # "runtrap" => deux'[0] # None
    <3>1. loop.i \in {0, 1} /\ loop.pid \in Pids
      BY <1>1, <2>1 DEF Places, Known
    <3>2. CASE loop.i = 0
      BY <1>1, <2>1, <3>1, <3>2, PidsAssumption
    <3>3. CASE loop.i = 1
      <4>1. deux'[0] = deux[0]
        BY <1>1, <2>1, <3>3
      <4> QED BY <1>1, <2>1, <3>3, <4>1 DEF Places
    <3> QED BY <3>1, <3>2, <3>3
  <2> QED BY <2>1, <2>2 DEF Logs, HeldOpen, FirstLogger, LastLogger, Outlives, LinesKept, CleanEnd, Supervising
<1> QED BY <1>2, <1>3, <1>4

\* In poll() no step but the logger's own death touches the log.
LEMMA LogsPoll ==
  ASSUME CoreInv, Logs, loop.pc = "poll",
         UNCHANGED <<mode, loop, deux, wopen, lines, wrote, logged, broken, logdied>>,
         \A p \in Pids : proc'[p].role = "log" /\ proc'[p].st = "zombie" =>
                           proc[p].role = "log" /\ proc[p].st = "zombie"
  PROVE  Logs'
<1>1. mode.tool # "runtrap" => deux[0] # None
  BY DEF CoreInv, Places
<1> QED BY <1>1 DEF Logs, HeldOpen, FirstLogger, LastLogger, Outlives, LinesKept, CleanEnd, Supervising

LEMMA LogsHandlers ==
  ASSUME CoreInv, Logs,
         \/ Trapped
         \/ \E sig \in Signals \cup {"CHLD"} : Sigtrap(sig) \/ Sig_trap(sig)
         \/ \E k \in DOMAIN traps : Trapper(k)
  PROVE  Logs'
<1>1. TypeOK /\ proc \in [Pids -> ProcType] /\ Places /\ Trappings /\ traps \in Seq(TrapType)
  BY Types DEF CoreInv
<1>2. CASE Trapped
  <2> DEFINE p == traps[Len(traps)].pid
  <2>1. /\ loop.pc = "poll" /\ UNCHANGED <<mode, loop, deux, wopen, lines, wrote, logged, broken, logdied>>
        /\ proc' = [proc EXCEPT ![p] = Free]
    BY <1>1, <1>2 DEF Trapped, Places, logvars
  <2> HIDE DEF p
  <2>2. \A q \in Pids : proc'[q] \in {Free, proc[q]}
    BY <1>1, <2>1
  <2> QED BY <2>1, <2>2, LogsPoll, FreeIs
<1>3. ASSUME NEW sig \in Signals \cup {"CHLD"}, Sigtrap(sig) PROVE Logs'
  <2>1. Tame /\ \A p \in Pids : proc'[p].st = "zombie" <=> proc[p].st = "zombie"
    BY <1>1, <1>3, SigtrapIs
  <2>2. loop.pc = "poll" /\ UNCHANGED <<mode, loop, deux, wopen, lines, wrote, logged, broken, logdied>>
    BY <1>3 DEF Sigtrap, Deliverable, Unblocked, logvars
  <2> QED BY <2>1, <2>2, LogsPoll DEF Tame
<1>4. ASSUME NEW sig \in Signals \cup {"CHLD"}, Sig_trap(sig) PROVE Logs'
  <2>1. loop.pc = "poll" /\ UNCHANGED <<mode, loop, deux, wopen, lines, wrote, logged, broken, logdied>>
    BY <1>4 DEF Sig_trap, Deliverable, Unblocked, logvars
  <2>2. \A p \in Pids : proc'[p].role = "log" => proc'[p] = proc[p]
    <3>1. CASE proc' = proc
      BY <3>1
    <3>2. CASE proc' # proc
      <4>1. PICK p \in NewPids : proc' = [proc EXCEPT ![p] = Child("trap", FALSE)]
        BY <1>4, <3>2 DEF Sig_trap
      <4>2. Child("trap", FALSE).role = "trap" /\ p \in Pids
        BY NewPidIs DEF Child
      <4> QED BY <1>1, <4>1, <4>2
    <3> QED BY <3>1, <3>2
  <2> QED BY <2>1, <2>2, LogsPoll
<1>5. ASSUME NEW k \in DOMAIN traps, Trapper(k) PROVE Logs'
  <2>1. loop.pc = "poll" /\ UNCHANGED <<mode, loop, deux, wopen, lines, wrote, logged, broken, logdied>>
    BY <1>1, <1>5 DEF Trapper, Places, logvars
  <2>2. \A p \in Pids : /\ proc'[p].role = proc[p].role
                        /\ proc'[p].st = "zombie" => proc[p].st = "zombie" \/ p = traps[k].pid
    BY <1>5, TrapperIs DEF Tame
  <2>3. proc[traps[k].pid].role \in {"trap", "none"}
    BY <1>1 DEF Trappings
  <2> QED BY <2>1, <2>2, <2>3, LogsPoll
<1> QED BY <1>2, <1>3, <1>4, <1>5

LEMMA LogsChild_wait ==
  ASSUME CoreInv, Logs, Child_wait PROVE Logs'
<1>1. /\ loop \in LoopType /\ proc \in [Pids -> ProcType] /\ Known
      /\ deux \in [{0, 1} -> Pids \cup {None}]
  BY Types DEF CoreInv
<1>2. /\ loop.pc = "wait" /\ loop'.pc \in {"wait", "top"}
      /\ UNCHANGED <<mode, flag_term, wopen, lines, wrote, logged, broken, logdied>>
  <2>1. loop' \in {[loop EXCEPT !.pc = "wait"], [loop EXCEPT !.pc = "top"]}
    BY DEF Child_wait, Goto
  <2> QED BY <1>1, <2>1 DEF Child_wait, LoopType, logvars
<1>3. /\ \A p \in Pids : proc'[p] \in {Free, proc[p]}
      /\ mode.tool # "runtrap" /\ ~logdied => deux'[0] # None
  <2>1. CASE UNCHANGED <<proc, deux>>
    BY <1>2, <2>1 DEF Logs, FirstLogger, Supervising
  <2>2. ASSUME NEW p \in Zombies, proc' = [proc EXCEPT ![p] = Free], deux' = Forget(p)
        PROVE  /\ \A q \in Pids : proc'[q] \in {Free, proc[q]}
               /\ mode.tool # "runtrap" /\ ~logdied => deux'[0] # None
    <3>1. \A q \in Pids : proc'[q] \in {Free, proc[q]}
      BY <1>1, <2>2
    <3>2. ASSUME mode.tool # "runtrap", ~logdied PROVE deux'[0] # None
      <4>1. deux[0] # None
        BY <1>2, <3>2 DEF Logs, FirstLogger, Supervising
      <4>2. proc[deux[0]].role = "log" /\ deux[0] \in Pids
        BY <1>1, <1>2, <4>1 DEF Known, Role
      <4>3. deux[0] # p
        BY <1>2, <3>2, <4>2 DEF Logs, HeldOpen, Zombies
      <4> QED BY <2>2, <4>1, <4>3 DEF Forget
    <3> QED BY <3>1, <3>2
  <2> QED BY <2>1, <2>2 DEF Child_wait
<1> QED BY <1>2, <1>3, FreeIs DEF Logs, HeldOpen, FirstLogger, LastLogger, Outlives, LinesKept, CleanEnd, Supervising

LEMMA LogsHarvest ==
  ASSUME CoreInv, Logs, Harvest PROVE Logs'
<1>1. /\ loop \in LoopType /\ proc \in [Pids -> ProcType] /\ OneEach
      /\ deux \in [{0, 1} -> Pids \cup {None}]
  BY Types DEF CoreInv
<1>2. /\ loop.pc = "end" /\ loop'.pc = (IF deux[0] = None THEN "done" ELSE "close")
      /\ wopen' = (wopen /\ deux[0] # None)
      /\ UNCHANGED <<mode, deux, flag_term, lines, wrote, logged, broken, logdied>>
  BY <1>1 DEF Harvest, Goto, LoopType
<1>3. /\ \A p \in Pids : proc'[p] \in {Free, proc[p]}
      /\ mode.tool = "perpboot" => \A p \in Pids : proc'[p].role # "prog"
  <2>1. \A p \in Pids : proc[p].role = "prog" => deux[1] = p
    BY <1>1, <1>2 DEF OneEach, Supervising, Role
  <2>2. CASE mode.tool = "perpboot" /\ deux[1] # None
    <3>1. deux[1] \in Pids /\ proc' = [proc EXCEPT ![deux[1]] = Free]
      BY <1>1, <2>2 DEF Harvest, Reap
    <3> QED BY <1>1, <2>1, <3>1, FreeIs
  <2>3. CASE ~(mode.tool = "perpboot" /\ deux[1] # None)
    <3>1. proc' = proc
      BY <2>3 DEF Harvest
    <3> QED BY <2>1, <2>3, <3>1, PidsAssumption
  <2> QED BY <2>2, <2>3
<1>4. HeldOpen'
  BY <1>2, <1>3, FreeIs DEF Logs, HeldOpen
<1>5. FirstLogger' /\ LastLogger' /\ LinesKept'
  BY <1>2 DEF Logs, FirstLogger, LastLogger, LinesKept, Supervising
<1>6. Outlives'
  BY <1>2, <1>3 DEF Outlives
<1>7. CleanEnd'
  <2> SUFFICES ASSUME deux[0] = None, mode.tool # "runtrap"
               PROVE  /\ Live("log")' = {}
                      /\ ~logdied' => lines' = 0 /\ wrote' = logged'
                      /\ mode.tool = "perpboot" => Live("prog")' = {}
    BY <1>2 DEF CleanEnd
  <2>1. logdied
    BY <1>2 DEF Logs, FirstLogger, Supervising
  <2>2. \A p \in Pids : proc[p].role # "log"
    BY <1>1, <1>2, PidsAssumption DEF OneEach, Supervising, Role
  <2>3. \A p \in Pids : proc'[p].role # "log"
    BY <1>3, <2>2, FreeIs
  <2> QED BY <1>2, <1>3, <2>1, <2>3 DEF Live
<1> QED BY <1>4, <1>5, <1>6, <1>7 DEF Logs

LEMMA LogsClose ==
  ASSUME CoreInv, Logs, Close_logpipe PROVE Logs'
<1>1. /\ TypeOK /\ loop \in LoopType /\ Known /\ Places
      /\ deux \in [{0, 1} -> Pids \cup {None}]
  BY Types DEF CoreInv
<1>2. /\ loop.pc = "close" /\ loop'.pc = "last" /\ proc' = Do_kill(proc, deux[0], "CONT")
      /\ UNCHANGED <<mode, deux, flag_term, lines, wrote, logged, broken, logdied>>
  BY <1>1 DEF Close_logpipe, Goto, LoopType
<1>3. /\ \A p \in Pids : proc'[p].role = proc[p].role
      /\ \A p \in Pids : proc'[p].st = "zombie" <=> proc[p].st = "zombie"
  BY <1>1, <1>2, KillsTame DEF Tame
<1>4. deux[0] \in Pids /\ deux[0] # None /\ proc[deux[0]].role = "log"
  BY <1>1, <1>2 DEF Places, Known
<1>5. LastLogger'
  BY <1>2, <1>3, <1>4 DEF Logs, HeldOpen, LastLogger
<1>6. FirstLogger' /\ HeldOpen' /\ LinesKept' /\ CleanEnd'
  BY <1>2, <1>4 DEF Logs, FirstLogger, HeldOpen, LinesKept, CleanEnd, Supervising
<1>7. Outlives'
  BY <1>2, <1>3 DEF Logs, Outlives
<1> QED BY <1>5, <1>6, <1>7 DEF Logs

LEMMA LogsLast ==
  ASSUME CoreInv, Logs, Last PROVE Logs'
<1>1. /\ TypeOK /\ loop \in LoopType /\ OneEach /\ Places /\ proc \in [Pids -> ProcType]
      /\ deux \in [{0, 1} -> Pids \cup {None}] /\ lines \in Nat /\ logged \in Nat
  BY Types DEF CoreInv
<1>2. /\ loop.pc = "last" /\ loop'.pc = "done" /\ deux[0] \in Pids
      /\ proc[deux[0]].st = "zombie" /\ proc' = [proc EXCEPT ![deux[0]] = Free]
      /\ UNCHANGED <<mode, lines, wrote, logged, logdied>>
  BY <1>1 DEF Last, Goto, LoopType, Reap, Places, logvars
<1>3. \A p \in Pids : proc'[p].role # "log" /\ proc'[p] \in {Free, proc[p]}
  <2>1. \A p \in Pids : proc[p].role = "log" => p = deux[0]
    BY <1>1, <1>2 DEF OneEach, Supervising, Role
  <2> QED BY <1>1, <1>2, <2>1, FreeIs
<1>4. Outlives'
  BY <1>2, <1>3, FreeIs DEF Logs, Outlives
<1>5. CleanEnd'
  <2>1. Live("log")' = {}
    BY <1>3 DEF Live
  <2>2. mode.tool # "runtrap" /\ ~logdied => lines = 0 /\ wrote = logged
    BY <1>1, <1>2 DEF Logs, LastLogger, LinesKept, Supervising
  <2>3. mode.tool = "perpboot" => Live("prog")' = {}
    BY <1>2, <1>4 DEF Outlives, Live
  <2> QED BY <1>2, <2>1, <2>2, <2>3 DEF CleanEnd
<1>6. HeldOpen' /\ FirstLogger' /\ LastLogger' /\ LinesKept'
  BY <1>2 DEF HeldOpen, FirstLogger, LastLogger, LinesKept, Supervising
<1> QED BY <1>4, <1>5, <1>6 DEF Logs

\* A child dies: the logger only by a kill() or when all is logged.
LEMMA LogsDies ==
  ASSUME CoreInv, Logs, NEW p \in Pids, Ends(p), proc[p].st \in {"run", "stop"},
         UNCHANGED <<mode, loop, deux, flag_term, wopen, lines, wrote, logged>>,
         Supervising => UNCHANGED broken,
         logdied => logdied',
         \/ proc[p].role = "prog"
         \/ proc[p].role = "log" /\ logdied'
         \/ lines = 0 /\ ~wopen /\ Live("prog") = {} /\ proc[p].role = "log"
  PROVE  Logs'
<1>1. TypeOK /\ There /\ OneEach /\ Known /\ Places
  BY DEF CoreInv
<1>2. /\ \A q \in Pids \ {p} : proc'[q] = proc[q]
      /\ proc'[p].role \in {proc[p].role, "none"} /\ proc'[p].st \in {"zombie", "none"}
  BY <1>1, EndsIs
<1>3. Live("log")' \subseteq Live("log") /\ Live("prog")' \subseteq Live("prog")
  BY <1>2 DEF Live
<1>4. HeldOpen'
  BY <1>2 DEF Logs, HeldOpen
<1>5. FirstLogger'
  BY DEF Logs, FirstLogger, Supervising
<1>6. LastLogger'
  <2> SUFFICES ASSUME mode.tool # "runtrap", ~logdied', loop.pc = "last", proc'[deux[0]].st = "zombie"
               PROVE  lines = 0 /\ Live("prog") = {}
    BY <1>3 DEF LastLogger
  <2>1. deux[0] \in Pids /\ proc[deux[0]].role = "log"
    BY <1>1, Types DEF Places, Known
  <2>2. CASE deux[0] = p
    BY <2>1, <2>2
  <2>3. CASE deux[0] # p
    BY <1>2, <2>1, <2>3 DEF Logs, LastLogger
  <2> QED BY <2>2, <2>3
<1>7. Outlives'
  BY <1>2 DEF Logs, Outlives
<1>8. LinesKept' /\ CleanEnd'
  BY <1>3 DEF Logs, LinesKept, CleanEnd, Supervising
<1> QED BY <1>4, <1>5, <1>6, <1>7, <1>8 DEF Logs

LEMMA LogsOthers ==
  ASSUME CoreInv, Logs,
         \/ \E p \in Pids : Obey(p) \/ Eof(p) \/ Die(p)
         \/ \E p \in Pids : Read(p) \/ Write(p)
         \/ \E sig \in Signals : Signal(sig)
  PROVE  Logs'
<1>1. TypeOK /\ OneEach /\ lines \in Nat /\ logged \in Nat /\ wrote \in Nat
  BY Types DEF CoreInv
<1>2. ASSUME NEW p \in Pids, Obey(p) \/ Eof(p) \/ Die(p) PROVE Logs'
  <2>1. CASE Obey(p)
    BY <2>1, LogsDies DEF Obey, logvars
  <2>2. CASE Eof(p)
    BY <2>2, LogsDies DEF Eof, logvars
  <2>3. CASE Die(p)
    <3>1. /\ Ends(p) /\ proc[p].st \in {"run", "stop"}
          /\ UNCHANGED <<mode, loop, deux, flag_term, wopen, lines, wrote, logged, broken>>
          /\ proc[p].role = "prog" \/ (proc[p].role = "log" /\ logdied')
          /\ logdied => logdied'
      BY <2>3 DEF Die, logvars
    <3> QED BY <3>1, LogsDies
  <2> QED BY <1>2, <2>1, <2>2, <2>3
<1>3. ASSUME NEW p \in Pids, Read(p) PROVE Logs'
  <2>1. /\ lines > 0 /\ lines' = lines - 1 /\ logged' = logged + 1 /\ p \in Live("log")
        /\ UNCHANGED <<mode, loop, deux, flag_term, proc, wopen, wrote, broken, logdied>>
    BY <1>3 DEF Read, Live
  <2>2. FirstLogger' /\ LastLogger' /\ HeldOpen' /\ Outlives'
    BY <1>1, <2>1 DEF Logs, FirstLogger, LastLogger, HeldOpen, Outlives, Supervising
  <2>3. LinesKept' /\ CleanEnd'
    BY <1>1, <2>1 DEF Logs, LinesKept, CleanEnd, Supervising
  <2> QED BY <2>2, <2>3 DEF Logs
<1>4. ASSUME NEW p \in Pids, Write(p), Readers PROVE Logs'
  <2>1. /\ lines' = lines + 1 /\ wrote' = wrote + 1 /\ p \in Live("prog") /\ proc[p].role = "prog"
        /\ mode.tool # "runtrap"
        /\ UNCHANGED <<mode, loop, deux, flag_term, proc, wopen, logged, broken, logdied>>
    BY <1>4 DEF Write, Live
  <2>2. deux[1] # None \/ loop.i = 1 \/ ~Supervising
    BY <1>1, <2>1, PidsAssumption DEF OneEach, Role
  <2>3. FirstLogger'
    BY <2>1, <2>2 DEF Logs, FirstLogger, Supervising
  <2>4. LastLogger' /\ HeldOpen' /\ Outlives'
    BY <2>1 DEF Logs, LastLogger, HeldOpen, Outlives
  <2>5. LinesKept'
    BY <1>1, <2>1 DEF Logs, LinesKept, Supervising
  <2>6. CleanEnd'
    BY <1>4, <2>1 DEF Logs, CleanEnd, Readers, Supervising
  <2> QED BY <2>3, <2>4, <2>5, <2>6 DEF Logs
<1>5. ASSUME NEW p \in Pids, Write(p), ~Readers PROVE Logs'
  BY <1>5, LogsDies DEF Write, Readers
<1>6. ASSUME NEW sig \in Signals, Signal(sig) PROVE Logs'
  <2>1. /\ UNCHANGED <<mode, loop, deux, flag_term, wopen, lines, wrote, logged, broken, logdied>>
        /\ loop.pc # "done"
    BY <1>6 DEF Signal, logvars
  <2>2. CASE Supervising
    BY <1>6, <2>1, <2>2 DEF Signal, Logs, HeldOpen, FirstLogger, LastLogger, Outlives, LinesKept,
                            CleanEnd, Supervising, Live
  <2>3. CASE ~Supervising
    BY <2>1, <2>3 DEF Logs, HeldOpen, FirstLogger, LastLogger, Outlives, LinesKept, CleanEnd, Supervising
  <2> QED BY <2>2, <2>3
<1> QED BY <1>2, <1>3, <1>4, <1>5, <1>6

LEMMA LogsNext == CoreInv /\ Logs /\ [Next]_vars => Logs'
<1> SUFFICES ASSUME CoreInv, Logs, [Next]_vars PROVE Logs'
  OBVIOUS
<1>1. CASE UNCHANGED vars
  BY <1>1 DEF vars, Logs, HeldOpen, FirstLogger, LastLogger, Outlives, LinesKept, CleanEnd, Supervising, Live
<1>2. CASE Next
  BY <1>2, NextCases, LogsLoop, LogsFork, LogsHandlers, LogsChild_wait, LogsHarvest, LogsClose,
     LogsLast, LogsOthers
<1> QED BY <1>1, <1>2

\* Loggers may die and be restarted as often as they will: no line is lost, the
\* program never sees a broken pipe, and when perpboot or rundeux ends its
\* logger is gone, having logged every line unless it was killed.
THEOREM LogComplete == Spec => []LogInv
<1>1. Init => Logs
  <2> SUFFICES ASSUME Init PROVE Logs
    OBVIOUS
  <2>1. HeldOpen
    BY FreeIs DEF Init, HeldOpen
  <2>2. FirstLogger /\ LinesKept
    BY DEF Init, FirstLogger, LinesKept
  <2>3. LastLogger /\ Outlives /\ CleanEnd
    BY DEF Init, LastLogger, Outlives, CleanEnd
  <2> QED BY <2>1, <2>2, <2>3 DEF Logs
<1>2. Logs => LogInv
  BY DEF Logs, LogInv
<1> QED BY <1>1, <1>2, LogsNext, CoreAlways, PTL DEF Spec
=============================================================================
