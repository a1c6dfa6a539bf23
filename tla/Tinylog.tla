------------------------------ MODULE Tinylog ------------------------------
(***************************************************************************)
(* tinylog: reads lines from stdin, appends them to "current" and rotates  *)
(* it into time-stamped archives, of which it keeps a number.              *)
(*                                                                         *)
(* A step is a system call, so a process may be killed between any two.    *)
(* The directory maps names to inodes, since tinylog_keep() archives by    *)
(* link() and unlink() and tells an interrupted one by st_nlink.  Text is  *)
(* a sequence of characters: 0 is the newline, the others are numbered in  *)
(* the order in which they arrive on stdin.                                *)
(*                                                                         *)
(* There may be more than one process.  The child tinylog_gzip() forks is  *)
(* not ended with its parent: gzip goes on writing "zipped" beside the     *)
(* next tinylog.  When it cannot open its files it returns into the logger.*)
(***************************************************************************)
EXTENDS Integers, Sequences, FiniteSets

CONSTANTS
  Procs,       \* process ids
  None,        \* no process / no inode
  Inodes,      \* inode numbers
  Inputs,      \* what the service may write to its log pipe
  Scripts,     \* sets of command lines [max, keep, zip, resume] perpd may use
  LineMax,     \* LOGLINE_MAX
  InBuf,       \* INBUF_SIZE
  Budgets      \* how often the environment may do each of Events

Events == {"start", "kill", "term", "hup", "fail", "open", "clock"}
Option == [max : Nat, keep : Nat, zip : BOOLEAN, resume : BOOLEAN]

ASSUME NoneAssumption == None \notin Procs /\ None \notin Inodes
ASSUME LineAssumption == LineMax \in Nat /\ LineMax > 1 /\ InBuf \in Nat \ {0}
\* main() raises the argument of -s to 2 * LOGLINE_MAX.
ASSUME ScriptsAssumption == /\ Scripts \subseteq SUBSET Option
                            /\ \A s \in Scripts : \A o \in s : o.max >= 2 * LineMax
ASSUME InputsAssumption == Inputs \subseteq Seq(Nat)
ASSUME BudgetsAssumption == Budgets \subseteq [Events -> Nat]

VARIABLES
  dir,         \* the log directory: name -> inode
  file,        \* inode -> [data, exec, mixed]: content, the bit 0100 of the mode, and
               \* (history) whether more than one gzip has written it
  proc,        \* pid -> the state of a tinylog process
  main,        \* the process perpd started, or None
  script,      \* the command lines of this behaviour
  input,       \* what the service writes
  pos,         \* how much of it has been read
  clock,       \* the last time stamp used
  budget,      \* what is left of the events
  logged,      \* history: characters written to "current"
  risked,      \* history: characters found in "previous" by a new process, or of which
               \* the only copy is a file that two gzips have written
  returned     \* history: a child came back from a gzip that could not open(), a
               \* child of a tinylog that is gone logs beside the next one

vars == <<dir, file, proc, main, script, input, pos, clock, budget, logged, risked, returned>>
disk == <<dir, file, clock>>

(***************************************************************************)
(* Text and names.                                                         *)
(***************************************************************************)
NL == 0
Chars(s) == {s[i] : i \in 1 .. Len(s)} \ {NL}
Trunc(s) == SubSeq(s, 1, IF Len(s) > LineMax THEN LineMax ELSE Len(s))

Name(kind, t, ext) == [kind |-> kind, t |-> t, ext |-> ext]
Current == Name("current", 0, "")
Previous == Name("previous", 0, "")
Zipped == Name("zipped", 0, "")
Archive(t, ext) == Name("archive", t, ext)
Gz(name) == [name EXCEPT !.kind = "gz"]
\* fn8601 before the first use: "_yyyymmddThhmmss.uuuuuu.?"; sorts last.
Template == Archive(0, "?")

Names == [kind : {"current", "previous", "zipped", "archive", "gz"}, t : Nat, ext : {"", "s", "u", "?"}]
Archives == {n \in DOMAIN dir : n.kind \in {"archive", "gz"}}

\* The order of names under cstr_cmp().
Rank(n) == (IF n.ext = "u" THEN 2 ELSE 0) + (IF n.kind = "gz" THEN 1 ELSE 0)
Before(m, n) == IF m.t = n.t THEN Rank(m) < Rank(n) ELSE n.t = 0 \/ (m.t > 0 /\ m.t < n.t)
Oldest(S) == CHOOSE n \in S : \A m \in S \ {n} : Before(n, m)

Dir_with(n, i) == [m \in DOMAIN dir \cup {n} |-> IF m = n THEN i ELSE dir[m]]
Dir_without(n) == [m \in DOMAIN dir \ {n} |-> dir[m]]
Dir_renamed(a, b) == [m \in (DOMAIN dir \ {a}) \cup {b} |-> IF m = b THEN dir[a] ELSE dir[m]]
Nlink(i) == Cardinality({n \in DOMAIN dir : dir[n] = i})

(***************************************************************************)
(* A process.  pc is the system call it is about to make, or "off".        *)
(***************************************************************************)
PCs == {"off", "init", "keep", "link", "unlink", "fork", "child", "gzip", "wait", "publish",
        "zchmod", "drop", "unzip", "prune", "open", "line", "read", "enter",
        "reading", "post", "rename", "write", "close"}
NoOption == [max |-> 0, keep |-> 0, zip |-> FALSE, resume |-> FALSE]
Off == [pc |-> "off", opt |-> NoOption, init |-> FALSE, flagexit |-> FALSE, flagrotate |-> FALSE,
        in |-> "pipe", rest |-> <<>>, buf |-> <<>>, line |-> <<>>, eof |-> FALSE,
        fd |-> None, size |-> 0, log |-> Current, ext |-> "s", fn |-> Template, kid |-> None]
Process == [pc : PCs, opt : Option, init : BOOLEAN, flagexit : BOOLEAN, flagrotate : BOOLEAN,
            in : {"pipe", "file"}, rest : Seq(Nat), buf : Seq(Nat), line : Seq(Nat), eof : BOOLEAN,
            fd : Inodes \cup {None}, size : Nat, log : {Current, Previous}, ext : {"s", "u"},
            fn : Names, kid : Procs \cup {None}]

Up(p) == proc[p].pc # "off"
At(p, label) == proc[p].pc = label
Free(i) == i \notin {dir[n] : n \in DOMAIN dir} /\ \A p \in Procs : proc[p].fd # i
\* The process is gzip, or is going to execve() it.
Zipping(p) == proc[p].pc \in {"child", "gzip"}
\* The pid of the next process.
Pid == CHOOSE p \in Procs : ~Up(p)
Space == \E i \in Inodes : Free(i)
New == CHOOSE i \in Inodes : Free(i)
Set(p, state) == proc' = [proc EXCEPT ![p] = state]
Goto(p, label) == Set(p, [proc[p] EXCEPT !.pc = label])
Spend(e) == budget[e] > 0 /\ budget' = [budget EXCEPT ![e] = @ - 1]

\* Process p ends.  A parent that waits for it goes on with the result of
\* waitpid(): exit status 0 counts as a successful gzip.
Ends(p, ok) ==
  /\ proc' = [q \in Procs |-> IF q = p THEN Off
                              ELSE IF proc[q].kid = p
                              THEN [proc[q] EXCEPT !.kid = None, !.pc = IF ok THEN "publish" ELSE "unzip"]
                              ELSE proc[q]]
  /\ main' = IF main = p THEN None ELSE main

Init ==
  /\ dir = [n \in {} |-> None]
  /\ file = [i \in Inodes |-> [data |-> <<>>, exec |-> FALSE, mixed |-> FALSE]]
  /\ proc = [p \in Procs |-> Off]
  /\ main = None
  /\ script \in Scripts
  /\ input \in Inputs
  /\ pos = 0
  /\ clock = 1
  /\ budget \in Budgets
  /\ logged = {}
  /\ risked = {} /\ returned = {}

\* perpd starts tinylog; main() up to init_current().  The lock is free: it
\* belongs to the last process perpd started.
Start(p) ==
  /\ main = None /\ ~Up(p) /\ p = Pid /\ Spend("start")
  /\ \E o \in script : Set(p, [Off EXCEPT !.pc = "init", !.init = TRUE, !.opt = o])
  /\ main' = p
  /\ risked' = risked \cup (IF Previous \in DOMAIN dir /\ Nlink(dir[Previous]) = 1
                               THEN Chars(file[dir[Previous]].data) ELSE {})
  /\ returned' = returned \cup (IF \E q \in Procs : Up(q) /\ ~Zipping(q) THEN {"orphan"} ELSE {})
  /\ UNCHANGED <<disk, script, input, pos, logged>>

\* The size of a "current" that is resumed: st_size.
ResumedSize_zero(f) == 0
ResumedSize(f) == Len(f.data)

\* init_current(): an unclean "current" is archived as .u, a clean one is
\* resumed or, with -r, archived as .s.
InitCurrent(p) ==
  /\ At(p, "init")
  /\ LET there == Current \in DOMAIN dir
         clean == there /\ file[dir[Current]].exec
         resumed == clean /\ proc[p].opt.resume
     IN Set(p, [proc[p] EXCEPT !.pc = IF there /\ ~resumed THEN "keep" ELSE "open",
                               !.log = Current,
                               !.ext = IF clean THEN "s" ELSE "u",
                               !.size = IF resumed THEN ResumedSize(file[dir[Current]]) ELSE 0])
  /\ UNCHANGED <<disk, main, script, input, pos, budget, logged, risked, returned>>

(***************************************************************************)
(* tinylog_keep(): archive the log (current or previous), zip, prune.      *)
(***************************************************************************)

\* stat(): a log that already has a second link was archived by a process
\* that was killed before its unlink().
KeepStat(p) ==
  /\ At(p, "keep")
  /\ Goto(p, IF proc[p].log \notin DOMAIN dir THEN "open"
             ELSE IF Nlink(dir[proc[p].log]) = 1 THEN "link" ELSE "unlink")
  /\ UNCHANGED <<disk, main, script, input, pos, budget, logged, risked, returned>>

Stamps_kept(p) == {IF proc[p].fn \in DOMAIN dir THEN proc[p].fn.t ELSE clock + 1}
\* The stamp of stamp8601_make(): a new one, or once more the last one if two
\* archives are made in the same microsecond.  The clock is not set back.
Stamps(p) == {clock + 1} \cup (IF budget["clock"] > 0 /\ Archive(clock, proc[p].ext) \in DOMAIN dir
                               THEN {clock} ELSE {})

\* link(), again with a new stamp when the name is taken.
KeepLink(p) ==
  /\ At(p, "link") /\ proc[p].log \in DOMAIN dir
  /\ \E t \in Stamps(p) :
       LET name == Archive(t, proc[p].ext) IN
       /\ clock' = t
       /\ budget' = [budget EXCEPT !["clock"] = IF t = clock /\ @ > 0 THEN @ - 1 ELSE @]
       /\ IF name \in DOMAIN dir
          THEN dir' = dir /\ Set(p, [proc[p] EXCEPT !.fn = name])
          ELSE dir' = Dir_with(name, dir[proc[p].log])
               /\ Set(p, [proc[p] EXCEPT !.fn = name, !.pc = "unlink"])
  /\ UNCHANGED <<file, main, script, input, pos, logged, risked, returned>>

KeepUnlink(p) ==
  /\ At(p, "unlink") /\ proc[p].log \in DOMAIN dir
  /\ dir' = Dir_without(proc[p].log)
  /\ Goto(p, IF proc[p].opt.zip THEN "fork" ELSE "prune")
  /\ UNCHANGED <<file, clock, main, script, input, pos, budget, logged, risked, returned>>

\* tinylog_gzip(): fork() and, in the parent, waitpid()
ForkGzip(p) ==
  /\ At(p, "fork") /\ \E q \in Procs : ~Up(q)
  /\ proc' = [proc EXCEPT ![p] = [@ EXCEPT !.pc = "wait", !.kid = Pid],
                          ![Pid] = [proc[p] EXCEPT !.pc = "child"]]
  /\ UNCHANGED <<disk, main, script, input, pos, budget, logged, risked, returned>>

\* Another gzip is writing this "zipped", or has written it for a parent that
\* is about to publish it.
Shared(i) == \E q \in Procs : (At(q, "gzip") /\ proc[q].fd = i) \/ At(q, "publish")

\* The child opens the archive and "zipped", which O_TRUNC empties whoever
\* else is writing it, and becomes gzip.
ExecGzip(q) ==
  /\ At(q, "child") /\ proc[q].fn \in DOMAIN dir /\ (Zipped \in DOMAIN dir \/ Space)
  /\ LET i == IF Zipped \in DOMAIN dir THEN dir[Zipped] ELSE New IN
       /\ dir' = Dir_with(Zipped, i)
       /\ file' = [file EXCEPT ![i] = [data |-> <<>>, exec |-> FALSE, mixed |-> Shared(i)]]
       /\ Set(q, [proc[q] EXCEPT !.pc = "gzip", !.in = "file", !.rest = file[dir[proc[q].fn]].data,
                                 !.fd = i])
  /\ UNCHANGED <<clock, main, script, input, pos, budget, logged, risked, returned>>

\* Why the child may fail before execve(): the archive does not exist (fn8601
\* was never set because the log had two links, or the next tinylog has pruned
\* it), or an open() fails.
ChildFails(q) == (IF proc[q].fn \notin DOMAIN dir THEN {"missing"} ELSE {})
                 \cup (IF budget["open"] > 0 THEN {"archive"} ELSE {})
                 \cup (IF budget["open"] > 0 /\ proc[q].fn \in DOMAIN dir THEN {"zipped"} ELSE {})
Orphan(q) == \A p \in Procs : proc[p].kid # q

\* ... then it returns -1 and goes on as tinylog in tinylog_keep(), while its
\* parent waits for it.  Its stdin is already the archive if that was opened.
ChildReturns(q) ==
  /\ At(q, "child")
  /\ \E why \in ChildFails(q) :
       /\ budget' = [budget EXCEPT !["open"] = IF why = "missing" THEN @ ELSE @ - 1]
       /\ returned' = returned \cup (IF why = "missing" THEN {} ELSE {"open"})
                                \cup (IF Orphan(q) THEN {"orphan"} ELSE {})
       /\ Set(q, [proc[q] EXCEPT !.pc = "prune", !.in = IF why = "zipped" THEN "file" ELSE @,
                                 !.rest = IF why = "zipped" THEN file[dir[proc[q].fn]].data ELSE @])
  /\ UNCHANGED <<disk, main, script, input, pos, logged, risked>>

\* What "zipped" unpacks to after gzip, well or not.  Two gzips that write it
\* at a time leave the text of the one, of the other, or nothing readable.
Outcomes(q, ok) == {IF ok THEN proc[q].rest ELSE <<>>}
                   \cup (IF file[proc[q].fd].mixed THEN {file[proc[q].fd].data, <<>>} ELSE {})

\* gzip ends.
Gzip(q) ==
  /\ At(q, "gzip")
  /\ \E ok \in BOOLEAN :
       /\ IF ok THEN UNCHANGED budget ELSE Spend("fail")
       /\ \E text \in Outcomes(q, ok) : file' = [file EXCEPT ![proc[q].fd].data = text]
       /\ Ends(q, ok)
  /\ UNCHANGED <<dir, clock, script, input, pos, logged, risked, returned>>

\* rename("zipped", fn8601.Z)
Publish(p) ==
  /\ At(p, "publish")
  /\ \/ /\ Zipped \in DOMAIN dir
        /\ dir' = Dir_renamed(Zipped, Gz(proc[p].fn))
        /\ Goto(p, "zchmod")
        /\ UNCHANGED budget
     \/ /\ IF Zipped \in DOMAIN dir THEN Spend("fail") ELSE UNCHANGED budget
        /\ Goto(p, "unzip")
        /\ UNCHANGED dir
  /\ UNCHANGED <<file, clock, main, script, input, pos, logged, risked, returned>>

Zchmod(p) ==
  /\ At(p, "zchmod")
  /\ \/ Goto(p, "drop") /\ UNCHANGED <<dir, budget>>
     \/ Spend("fail") /\ dir' = Dir_without(Gz(proc[p].fn)) /\ Goto(p, "prune")
  /\ UNCHANGED <<file, clock, main, script, input, pos, logged, risked, returned>>

\* unlink() of the original, retried for ever if there is none.
Drop(p) ==
  /\ At(p, "drop") /\ proc[p].fn \in DOMAIN dir
  /\ dir' = Dir_without(proc[p].fn)
  /\ Goto(p, "prune")
  /\ risked' = risked \cup (IF Gz(proc[p].fn) \in DOMAIN dir /\ file[dir[Gz(proc[p].fn)]].mixed
                           THEN Chars(file[dir[proc[p].fn]].data) ELSE {})
  /\ UNCHANGED <<file, clock, main, script, input, pos, budget, logged, returned>>

Unzip(p) ==
  /\ At(p, "unzip")
  /\ dir' = Dir_without(Zipped)
  /\ Goto(p, "prune")
  /\ UNCHANGED <<file, clock, main, script, input, pos, budget, logged, risked, returned>>

NothingToPrune_below(count, keep) == count = 0 \/ count < keep
NothingToPrune(count, keep) == count <= keep

\* tinylog_prune(): removes the archive with the least name.  If that leaves
\* too many, it calls readdir() and closedir() on the stream it has closed:
\* either an error, and tinylog_keep() calls it again, or an abort.
Prune(p) ==
  LET count == Cardinality(Archives)
      keep == proc[p].opt.keep
  IN /\ At(p, "prune")
     /\ IF NothingToPrune(count, keep)
        THEN Goto(p, "open") /\ UNCHANGED <<dir, main>>
        ELSE /\ dir' = Dir_without(Oldest(Archives))
             /\ IF NothingToPrune(count - 1, keep)
                THEN Goto(p, "open") /\ UNCHANGED main
                ELSE \/ UNCHANGED <<proc, main>>
                     \/ Ends(p, FALSE)
     /\ UNCHANGED <<file, clock, script, input, pos, budget, logged, risked, returned>>

\* The executable bit of "current" after open() and fchmod(0644).
OpenMode_unchanged(f) == f.exec
OpenMode(f) == FALSE

\* open() and fchmod(0644) of "current", in init_current() and, after a
\* rotation, in tinylog_rotate(), which takes the new file to be empty.
OpenCurrent(p) ==
  /\ At(p, "open") /\ (Current \in DOMAIN dir \/ Space)
  /\ LET i == IF Current \in DOMAIN dir THEN dir[Current] ELSE New
         data == IF Current \in DOMAIN dir THEN file[i].data ELSE <<>>
     IN /\ dir' = Dir_with(Current, i)
        /\ file' = [file EXCEPT ![i] = [data |-> data, exec |-> OpenMode(file[i]), mixed |-> FALSE]]
        /\ Set(p, IF proc[p].init
                  THEN [proc[p] EXCEPT !.pc = "line", !.fd = i, !.init = FALSE]
                  ELSE [proc[p] EXCEPT !.pc = "write", !.fd = i, !.size = 0, !.flagrotate = FALSE])
  /\ UNCHANGED <<clock, main, script, input, pos, budget, logged, risked, returned>>

(***************************************************************************)
(* do_log()                                                                *)
(***************************************************************************)

\* The inner loop, as far as the input buffer goes.
CollectLine(p) ==
  LET buf == proc[p].buf
      newlines == {i \in 1 .. Len(buf) : buf[i] = NL}
      k == CHOOSE i \in newlines : \A j \in newlines : i <= j
      line == Trunc(proc[p].line \o IF newlines = {} THEN buf ELSE SubSeq(buf, 1, k - 1))
  IN /\ At(p, "line")
     /\ Set(p, [proc[p] EXCEPT
               !.line = line,
               !.buf = IF newlines = {} THEN <<>> ELSE SubSeq(buf, k + 1, Len(buf)),
               !.pc = IF newlines = {} THEN "read" ELSE IF line # <<>> THEN "post" ELSE "line"])
     /\ UNCHANGED <<disk, main, script, input, pos, budget, logged, risked, returned>>

\* End of file: a line without newline is posted all the same.
AtEof(p) == [proc[p] EXCEPT !.eof = TRUE, !.pc = IF proc[p].line # <<>> THEN "post" ELSE "close"]

\* read_op(): SIGTERM simulates end of file, but only if it came before this
\* test or during read().
ReadOp(p) ==
  /\ At(p, "read")
  /\ Set(p, IF proc[p].flagexit THEN AtEof(p) ELSE [proc[p] EXCEPT !.pc = "enter"])
  /\ UNCHANGED <<disk, main, script, input, pos, budget, logged, risked, returned>>

EnterRead(p) ==
  /\ At(p, "enter") /\ Goto(p, "reading")
  /\ UNCHANGED <<disk, main, script, input, pos, budget, logged, risked, returned>>

\* What read() may return: what the service writes next, or the rest of the
\* archive that has become stdin.
Stdin(p) == IF proc[p].in = "pipe" THEN SubSeq(input, pos + 1, Len(input)) ELSE proc[p].rest

\* ioq_feed() accounts for what it got, which may be less than its buffer.
Got(k) == k

ReadData(p) ==
  /\ At(p, "reading")
  /\ \E k \in 1 .. InBuf :
       LET left == SubSeq(Stdin(p), k + 1, Len(Stdin(p))) IN
       /\ k <= Len(Stdin(p))
       /\ Set(p, [proc[p] EXCEPT !.buf = SubSeq(Stdin(p), 1, k), !.pc = "line",
                                 !.rest = IF proc[p].in = "pipe" THEN @ ELSE left])
       /\ pos' = IF proc[p].in = "pipe" THEN pos + Got(k) ELSE pos
  /\ UNCHANGED <<disk, main, script, input, budget, logged, risked, returned>>

\* The service has closed the pipe after all it had to write.
ReadEof(p) ==
  /\ At(p, "reading") /\ Stdin(p) = <<>>
  /\ Set(p, AtEof(p))
  /\ UNCHANGED <<disk, main, script, input, pos, budget, logged, risked, returned>>

\* tinylog_post(): is there room for len more characters?
WantRotate_without_line(p, len) == proc[p].flagrotate \/ proc[p].size >= proc[p].opt.max
WantRotate(p, len) == proc[p].flagrotate \/ proc[p].size >= proc[p].opt.max - len

\* tinylog_post() and the first lines of tinylog_rotate(): an empty current is
\* not rotated.  fsync() and close() precede the rename().
Post(p) ==
  LET rotate == WantRotate(p, Len(proc[p].line) + 1)
      text == Append(proc[p].line, NL)
  IN /\ At(p, "post")
     /\ Set(p, IF rotate /\ proc[p].size > 0
               THEN [proc[p] EXCEPT !.line = text, !.fd = None, !.pc = "rename"]
               ELSE [proc[p] EXCEPT !.line = text, !.flagrotate = @ /\ ~rotate, !.pc = "write"])
     /\ UNCHANGED <<disk, main, script, input, pos, budget, logged, risked, returned>>

\* rename("current", "previous")
Rename(p) ==
  /\ At(p, "rename") /\ Current \in DOMAIN dir
  /\ dir' = Dir_renamed(Current, Previous)
  /\ Set(p, [proc[p] EXCEPT !.log = Previous, !.ext = "s", !.pc = "keep"])
  /\ UNCHANGED <<file, clock, main, script, input, pos, budget, logged, risked, returned>>

\* One write() of write_all(), which may be short.
Write(p) ==
  /\ At(p, "write")
  /\ \E k \in 1 .. Len(proc[p].line) :
       LET part == SubSeq(proc[p].line, 1, k)
           rest == SubSeq(proc[p].line, k + 1, Len(proc[p].line))
       IN /\ file' = [file EXCEPT ![proc[p].fd].data = @ \o part]
          /\ logged' = logged \cup Chars(part)
          /\ Set(p, [proc[p] EXCEPT !.line = rest, !.size = @ + k,
                                    !.pc = IF rest # <<>> THEN "write"
                                           ELSE IF proc[p].eof THEN "close" ELSE "line"])
  /\ UNCHANGED <<dir, clock, main, script, input, pos, budget, risked, returned>>

\* fchmod(0744), whose failure is ignored, close() and exit 0.
Close(p) ==
  /\ At(p, "close")
  /\ \/ file' = [file EXCEPT ![proc[p].fd].exec = TRUE] /\ UNCHANGED budget
     \/ Spend("fail") /\ UNCHANGED file
  /\ Ends(p, TRUE)
  /\ UNCHANGED <<dir, clock, script, input, pos, logged, risked, returned>>

(***************************************************************************)
(* Failures and signals.  A failing call that is repeated after a pause is *)
(* a stuttering step.                                                      *)
(***************************************************************************)

\* RETRY() exits when SIGTERM has come, if it is not blocked.
ExitsOnTerm(p) == proc[p].flagexit /\ ~proc[p].init
Retried == {"rename", "unlink", "fork", "open"}

\* A failure ends the process: at startup, in RETRY() after SIGTERM, or of
\* read().
Fails(p) ==
  /\ \/ proc[p].init /\ proc[p].pc \in {"init", "open"} /\ Spend("fail")
     \/ proc[p].pc \in Retried /\ ExitsOnTerm(p) /\ Spend("fail")
     \/ At(p, "drop") /\ ExitsOnTerm(p)
           /\ IF proc[p].fn \in DOMAIN dir THEN Spend("fail") ELSE UNCHANGED budget
     \/ At(p, "reading") /\ Spend("fail")
  /\ Ends(p, FALSE)
  /\ UNCHANGED <<disk, script, input, pos, logged, risked, returned>>

Step(p) == \/ InitCurrent(p) \/ KeepStat(p) \/ KeepLink(p) \/ KeepUnlink(p)
           \/ ForkGzip(p) \/ ExecGzip(p) \/ ChildReturns(p) \/ Gzip(p) \/ Publish(p) \/ Zchmod(p) \/ Drop(p)
           \/ Unzip(p) \/ Prune(p) \/ OpenCurrent(p) \/ CollectLine(p) \/ ReadOp(p)
           \/ EnterRead(p) \/ ReadEof(p) \/ Post(p) \/ Rename(p)
           \/ Write(p) \/ Close(p) \/ Fails(p)

\* A caught signal interrupts a read() in progress.
Handled(p) == IF At(p, "reading") THEN "read" ELSE proc[p].pc

\* SIGTERM: sig_handler(); a waitpid() it interrupts is not repeated.
Term ==
  /\ main # None /\ Spend("term")
  /\ \/ /\ Set(main, [proc[main] EXCEPT !.flagexit = TRUE, !.pc = Handled(main)])
        /\ UNCHANGED main
     \/ /\ At(main, "wait") /\ ~proc[main].init
        /\ Ends(main, FALSE)
  /\ UNCHANGED <<disk, script, input, pos, logged, risked, returned>>

\* SIGHUP: sig_handler()
Hup ==
  /\ main # None /\ Spend("hup")
  /\ Set(main, [proc[main] EXCEPT !.flagrotate = TRUE, !.pc = Handled(main)])
  /\ UNCHANGED <<disk, main, script, input, pos, logged, risked, returned>>

\* The process is killed where it is.
Kill ==
  /\ main # None /\ Spend("kill")
  /\ Ends(main, FALSE)
  /\ UNCHANGED <<disk, script, input, pos, logged, risked, returned>>

Next == \/ \E p \in Procs : Step(p) \/ ReadData(p) \/ Start(p)
        \/ Term \/ Hup \/ Kill

Spec == Init /\ [][Next]_vars
\* The kernel schedules every process, gzip included, and a file can always be
\* read.  Nobody has to write to the pipe, to send a signal or to start tinylog.
FairSpec == Spec /\ \A p \in Procs : WF_vars(Step(p) \/ (proc[p].in = "file" /\ ReadData(p)))

(***************************************************************************)
(* Properties.                                                             *)
(***************************************************************************)

\* The directory, the files and every process are well formed.
TypeOK ==
  /\ DOMAIN dir \subseteq Names /\ \A n \in DOMAIN dir : dir[n] \in Inodes
  /\ file \in [Inodes -> [data : Seq(Nat), exec : BOOLEAN, mixed : BOOLEAN]]
  /\ proc \in [Procs -> Process]
  /\ main \in Procs \cup {None}
  /\ script \in Scripts
  /\ input \in Inputs
  /\ pos \in 0 .. Len(input)
  /\ clock \in Nat
  /\ budget \in [Events -> Nat]
  /\ logged \subseteq Nat /\ risked \subseteq Nat /\ returned \subseteq {"open", "orphan"}

\* The text under a name, as far as it can be counted on.
Body(n) == IF file[dir[n]].mixed THEN {} ELSE Chars(file[dir[n]].data)

Kept == UNION {Body(n) : n \in DOMAIN dir \ {Zipped}}

Left == UNION {Body(n) : n \in DOMAIN dir \ {Zipped, Previous}}

\* Rotation, zipping, restarts and pruning lose nothing but the oldest text:
\* what has been written and is gone is older than all that is left in current
\* and in the archives, and then there are as many archives as -k asks for.
\* There are two exceptions.  "previous": the next rotation overwrites the text
\* that a killed process leaves there, and until then it may outlive newer
\* text.  "zipped": tinylog deletes an archive once gzip has ended well, even
\* if the gzip of a killed tinylog has written into the same file.  And a child
\* that has come back logs text of its parent once more, out of order.
Retention ==
  LET lost == logged \ (Kept \cup risked) IN
  lost # {} => /\ returned # {} \/ \A c \in lost, k \in Left : c < k
               /\ \E o \in script : Cardinality(Archives) >= o.keep

\* An archive with the suffix .s, and a current that will be resumed, ends
\* with a whole line: a write() cut short by a kill is always marked .u.  (Not
\* what two gzips have written, and not where the child of a killed tinylog
\* logs beside the next one: when one of the two marks current as clean the
\* other may be in the middle of a line.)
SafeIsWhole ==
  "orphan" \notin returned => \A n \in DOMAIN dir :
    LET f == file[dir[n]] IN
    (n.ext = "s" \/ (n = Current /\ f.exec)) /\ ~f.mixed => f.data = <<>> \/ f.data[Len(f.data)] = NL

\* The directory is sound: names, files and processes are well formed and a
\* clean file is a whole one.
FilesSafe == TypeOK /\ SafeIsWhole

\* current never outgrows the size -s asks for, over resumes and rotations, or
\* twice that size once a gzip child has come back to log beside its parent:
\* each of the two fills it as if it were alone.
CurrentBounded ==
  Current \in DOMAIN dir =>
    \E o \in script : Len(file[dir[Current]].data) <= IF returned # {} THEN 2 * o.max ELSE o.max

\* A SIGHUP is forgotten only when there is nothing in current to rotate,
\* also if it comes in the middle of a rotation.  (After a child has come back
\* from a failing gzip, current may hold what that child wrote.)
HupHonoured ==
  [][\A p \in Procs :
       proc[p].flagrotate /\ Up(p) /\ proc'[p].pc # "off" /\ ~proc'[p].flagrotate
         => file'[proc'[p].fd].data = <<>> \/ returned # {}]_vars

\* Once the service has closed the pipe tinylog exits: no retry, no wait for
\* a child and no pruning goes on for ever.  (Where the child of a killed
\* tinylog logs too it may prune what the other then tries to unlink for ever.)
EofExits == (pos = Len(input)) ~> (main = None \/ "orphan" \in returned)
=============================================================================
