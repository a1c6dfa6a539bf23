------------------------------ MODULE Runtool ------------------------------
(***************************************************************************)
(* The runtools: programs that change one thing of their own process and   *)
(* then execute the next program of their command line.  runtool does all  *)
(* of it in one process, in a fixed order.  The state is that process.     *)
(*                                                                         *)
(* A command line is a chain of tools; a tool is the sequence of steps its *)
(* main() makes of its options; a step is an operator from the process to  *)
(* the process it leaves, or that fails.  Files are sequences of lines     *)
(* that were parsed, except for what the parsing itself does.              *)
(***************************************************************************)
EXTENDS Integers, Sequences, FiniteSets, SequencesExt, TLC

CONSTANTS
  Chains,      \* command lines: sequences of [tool, o]
  Starts,      \* processes that may start one
  Users,       \* the accounts: jail -> name -> [uid, gid]
  Where,       \* what execve() gives in a directory: "ok", or an errno
  None,        \* an option that is not given, a variable without value
  Hard,        \* the hard limit of every resource
  Fails        \* how many system calls may fail

FdMax == 4
Closed == <<"closed", "">>
Options == {"alias", "args", "argfile", "insert", "env", "fresh", "envuid", "detach", "setsid", "lock",
            "umask", "fdset", "rlimit", "chdir", "chroot", "setuid", "sleep", "choom", "must", "path"}
Tools == {"runtool", "runenv", "runargs", "runfile", "runargv0", "runuid", "runlimit", "runchoom",
          "runpause", "runsession", "rundetach"}

ASSUME FailsAssumption == Fails \in Nat /\ Hard \in Nat
ASSUME ToolsAssumption == \A c \in Chains : \A i \in 1 .. Len(c) : c[i].tool \in Tools /\ DOMAIN c[i].o = Options

VARIABLES
  me,          \* the process
  chain,       \* its command line
  from,        \* the process as it was started
  fails        \* how many calls may still fail

vars == <<me, chain, from, fails>>

Fatal(r) == [r EXCEPT !.st = "fatal", !.todo = <<>>]
Usage(r) == [r EXCEPT !.st = "usage", !.todo = <<>>]

(***************************************************************************)
(* Argument files: do_argfile() and do_argvfile().                         *)
(***************************************************************************)
\* A line is [key, val, nl]: key None for an empty line or a comment.
Words(lines) == [i \in 1 .. Len(lines) |-> lines[i].key]
Do_argfile(lines) == Words(SelectSeq(lines, LAMBDA l : l.key # None))

\* "insert": the arguments of the command line before those of the file.
Arglist(prog, args, words, insert) ==
  <<prog>> \o (IF insert THEN args \o words ELSE words \o args)

Do_args(r, a) ==
  [r EXCEPT !.argv = Arglist(IF a.alias = None THEN "prog" ELSE a.alias, a.args,
                             IF a.argfile = None THEN <<>> ELSE Do_argfile(a.argfile), a.insert # None)]

\* runfile: argv[0] comes from the file, an empty one is a usage error.
Do_argvfile(r, a) ==
  LET words == Do_argfile(a.argfile) IN
  IF words = <<>> THEN Usage(r) ELSE [r EXCEPT !.argv = words \o a.args]

(***************************************************************************)
(* The new environment: runenv and newenv.c.                               *)
(***************************************************************************)
\* An escape sequence in a value; "0" is the NUL at its end.
Escape(c) == CASE c = "\\" -> <<"\\">>
               [] c = "n" -> <<"newline">>
               [] c = "_" -> <<" ">>
               [] c = "0" -> <<"\\">>
               [] OTHER -> <<"\\", c>>

\* val_unescape() on s and on what follows it in the buffer: after a backslash
\* at the end the loop steps over the NUL.
Val_unescape(s, after) ==
  LET b == s \o <<"0">> \o after
      u[i \in 1 .. Len(b) + 2] ==
        CASE i > Len(b) -> <<>>
          [] b[i] = "0" -> <<>>
          [] b[i] = "\\" -> Escape(b[i + 1]) \o u[i + 2]
          [] OTHER -> <<b[i]>> \o u[i + 1]
  IN u[1]

\* What is behind the end of a line in its buffer: cstr_trim() has put a NUL in
\* place of the newline; without one, the remains of an earlier line.
Behind(line) == IF line.nl THEN <<"0">> ELSE line.stale \o <<"0">>

Entry(name, val) == [name |-> name, val |-> val]
Envline(l) == Entry(l.key, IF l.val = None THEN None ELSE Val_unescape(l.val, Behind(l)))
Do_envfile(lines) ==
  LET keyed == SelectSeq(lines, LAMBDA l : l.key # None) IN [i \in 1 .. Len(keyed) |-> Envline(keyed[i])]

\* One file per variable, dot files (key None) skipped; an empty one removes.
Do_envdir(files) ==
  LET set == Do_envfile(files) IN
  [i \in 1 .. Len(set) |-> IF set[i].val = <<>> THEN Entry(set[i].name, None) ELSE set[i]]

Newenv_set(r, entries) == [r EXCEPT !.newenv = @ \o entries]
Do_env(r, a) ==
  CASE a.kind = "file" -> Newenv_set(r, Do_envfile(a.lines))
    [] a.kind = "dir" -> Newenv_set(r, Do_envdir(a.lines))
    [] OTHER -> Usage(r)

UID == <<3, "UI", "D">>
GID == <<3, "GI", "D">>
Do_envuid(r, user) ==
  IF user \notin DOMAIN Users[r.jail] THEN Usage(r)
  ELSE LET pw == Users[r.jail][user] IN
       Newenv_set(r, <<Entry(GID, <<ToString(pw.gid)>>), Entry(UID, <<ToString(pw.uid)>>)>>)

\* A name is <<length, all but the last character, the last character>>.
\* newenv_merge() replaces a variable of the same name, and removes one that
\* agrees with it up to the last character.
Replaces(e, old) == e.val # None /\ old.name = e.name
Removes(e, old) == old.name[1] = e.name[1] /\ old.name[2] = e.name[2]

Merge_one_hole(ee, e) ==
  LET hits == {i \in 1 .. Len(ee) : Replaces(e, ee[i]) \/ Removes(e, ee[i])}
      i == CHOOSE i \in hits : \A j \in hits : i <= j
  IN CASE hits = {} -> IF e.val = None THEN ee ELSE Append(ee, e)
       [] Replaces(e, ee[i]) -> [ee EXCEPT ![i] = e]
       [] OTHER -> SubSeq(ee, 1, i - 1)

Merge_one(ee, e) ==
  LET hits == {i \in 1 .. Len(ee) : Replaces(e, ee[i]) \/ Removes(e, ee[i])}
      i == CHOOSE i \in hits : \A j \in hits : i <= j
      less == SubSeq([ee EXCEPT ![i] = ee[Len(ee)]], 1, Len(ee) - 1)
  IN CASE hits = {} -> IF e.val = None THEN ee ELSE Append(ee, e)
       [] hits # {} /\ Replaces(e, ee[i]) -> [ee EXCEPT ![i] = e]
       [] OTHER -> IF i > Len(less) /\ e.val # None THEN Append(less, e) ELSE less

Newenv_merge(envp, newenv) == FoldLeft(Merge_one, envp, newenv)

(***************************************************************************)
(* Resource limits: runlimit, and option -R of runtool.                    *)
(***************************************************************************)
\* RLIMIT_VMEM is provided as a synonym of RLIMIT_AS.
Runlimits == <<"AS", "VMEM", "DATA", "STACK">>
Resources == {"AS", "DATA", "STACK"}
Rlimit_lookup(name) == IF name = "VMEM" THEN "AS" ELSE name
\* An argument that is no number is -1.
Truncated(u) == IF u < Hard THEN u ELSE Hard

Runlimit_set(lim, name, u) == [lim EXCEPT ![Rlimit_lookup(name)] = Truncated(u)]
\* One character of -R: "m" stands for all of the memory limits.
Limit_option(lim, s) ==
  IF s.name = "m" THEN FoldLeft(LAMBDA l, n : Runlimit_set(l, n, s.u), lim, <<"AS", "DATA", "STACK">>)
  ELSE Runlimit_set(lim, s.name, s.u)
Do_runlimit(r, specs) ==
  IF \E i \in 1 .. Len(specs) : specs[i].u = -1 THEN Usage(r)
  ELSE [r EXCEPT !.lim = FoldLeft(Limit_option, @, specs)]

Unset == [n \in {"AS", "VMEM", "DATA", "STACK"} |-> None]
Runlimit_setup_opt(tab, s) ==
  IF s.name = "m" THEN [n \in DOMAIN tab |-> IF n = "VMEM" THEN tab[n] ELSE Truncated(s.u)]
  ELSE [tab EXCEPT ![s.name] = Truncated(s.u)]
\* A value from the file or the environment, if the resource is not yet set up.
Runlimit_setup_ndx(tab, s) == IF tab[s.name] # None THEN tab ELSE [tab EXCEPT ![s.name] = Truncated(s.u)]
Do_file(tab, file) == FoldLeft(Runlimit_setup_ndx, tab, file)
Do_environment(tab, env) == FoldLeft(Runlimit_setup_ndx, tab, env)
Do_runlimits(lim, tab) ==
  FoldLeft(LAMBDA l, n : IF tab[n] = None THEN l ELSE [l EXCEPT ![Rlimit_lookup(n)] = tab[n]], lim, Runlimits)

\* main() of runlimit: options, then -F file, then -E environment; it stops at
\* the first value that is no number.
Bad(a) == \E i \in 1 .. Len(a.opt) : a.opt[i].u = -1
Limits(r, a) ==
  LET known == Do_environment(Do_file(FoldLeft(Runlimit_setup_opt, Unset, a.opt), a.file), a.env) IN
  IF Bad(a) \/ \E n \in DOMAIN known : known[n] = -1 THEN Usage(r)
  ELSE [r EXCEPT !.lim = Do_runlimits(@, known)]

(***************************************************************************)
(* Descriptors.                                                            *)
(***************************************************************************)
Lowest(fds) == CHOOSE d \in 0 .. FdMax : fds[d] = Closed /\ \A k \in 0 .. d - 1 : fds[k] # Closed
Full(fds) == \A d \in 0 .. FdMax : fds[d] # Closed
Opened(fds, file) == [fds EXCEPT ![Lowest(fds)] = file]

\* fcntl(F_DUPFD): the lowest free descriptor not below to.
Dupfd(fds, desc, to) ==
  LET free == {d \in to .. FdMax : fds[d] = Closed}
      d == CHOOSE d \in free : \A k \in free : d <= k
  IN IF free = {} THEN fds ELSE [fds EXCEPT ![d] = desc]

Fd_dupe(fds, to, old) ==
  IF to = old THEN fds ELSE Dupfd([fds EXCEPT ![to] = Closed], fds[old], to)
Fd_move(fds, to, old) ==
  IF to = old THEN fds ELSE [Dupfd([fds EXCEPT ![to] = Closed], fds[old], to) EXCEPT ![old] = Closed]

Fdset_redirect(r, s) ==
  IF Full(r.fds) THEN Fatal(r)
  ELSE [r EXCEPT !.fds = Fd_move(Opened(@, <<s.op, s.target>>), s.fd, Lowest(@))]

Fdset_duplicate(r, s) ==
  CASE s.target = "!" -> [r EXCEPT !.fds = [@ EXCEPT ![s.fd] = Closed]]
    [] s.fd # s.from /\ r.fds[s.from] = Closed -> Fatal(r)
    [] OTHER -> [r EXCEPT !.fds = Fd_dupe(@, s.fd, s.from)]

Do_fdset(r, specs) ==
  FoldLeft(LAMBDA q, s : IF q.st # "busy" THEN q
                         ELSE IF s.op = "=" THEN Fdset_duplicate(q, s) ELSE Fdset_redirect(q, s), r, specs)

\* do_setlock(): see Pidlock for the lock; here, the descriptor it takes.
Do_setlock(r, file) == IF Full(r.fds) THEN Fatal(r) ELSE [r EXCEPT !.fds = Opened(@, <<"lock", file>>)]

(***************************************************************************)
(* The other attributes of the process.                                    *)
(***************************************************************************)
\* The calls of do_setuid(): any of them may fail.  The kernel lets only uid 0
\* make them.
Setuid_calls_swapped(pw) ==
  <<[do |-> "setgroups", arg |-> {pw.gid}], [do |-> "setuid(2)", arg |-> pw.uid], [do |-> "setgid", arg |-> pw.gid]>>
Setuid_calls(pw) ==
  <<[do |-> "setgroups", arg |-> {pw.gid}], [do |-> "setgid", arg |-> pw.gid], [do |-> "setuid(2)", arg |-> pw.uid]>>
Do_setuid(r, user) ==
  IF r.uid # 0 \/ user \notin DOMAIN Users[r.jail] THEN Usage(r)
  ELSE [r EXCEPT !.todo = Setuid_calls(Users[r.jail][user]) \o @]
Setgroups(r, gids) == IF r.uid # 0 THEN Fatal(r) ELSE [r EXCEPT !.groups = gids]
Setgid(r, gid) == IF r.uid # 0 THEN Fatal(r) ELSE [r EXCEPT !.gid = gid]
Setuid(r, uid) == IF r.uid # 0 THEN Fatal(r) ELSE [r EXCEPT !.uid = uid]
Do_chroot(r, dir) == IF r.uid # 0 THEN Usage(r) ELSE [r EXCEPT !.jail = dir]
Do_chdir(r, dir) == [r EXCEPT !.cwd = dir]
Do_umask(r, mode) == IF mode = "bad" THEN Usage(r) ELSE [r EXCEPT !.umask = mode]
Do_sleep(r, secs) == IF secs = "bad" THEN Usage(r) ELSE r
\* fork(): the child goes on, it leads no process group.
Do_detach(r) == [r EXCEPT !.pid = @ + 1, !.leader = FALSE]
\* setsid() fails for the leader of a process group, which only warns.
Do_setsid(r) == IF r.leader THEN r ELSE [r EXCEPT !.leader = TRUE, !.sid = r.pid]
\* runchoom: a failure to write the setting counts only with -e.
Do_choom(r, a) == [r EXCEPT !.choom = a]

(***************************************************************************)
(* The tools: the steps of their main().                                   *)
(***************************************************************************)
Opt(o, k) == IF o[k] = None THEN <<>> ELSE <<[do |-> k, arg |-> o[k]]>>
Args(o) == <<[do |-> "args", arg |-> [k \in {"alias", "args", "argfile", "insert"} |-> o[k]]]>>

Runtool(o) ==
  Args(o) \o Opt(o, "env") \o Opt(o, "envuid") \o Opt(o, "detach")
    \o (IF o.detach = None THEN Opt(o, "setsid") ELSE <<[do |-> "setsid", arg |-> TRUE]>>)
    \o Opt(o, "lock") \o Opt(o, "umask") \o Opt(o, "fdset") \o Opt(o, "rlimit") \o Opt(o, "chdir")
    \o Opt(o, "chroot") \o Opt(o, "setuid") \o Opt(o, "sleep")
Runenv(o) == Opt(o, "env") \o Opt(o, "envuid")
Runargs(o) == Args(o)
Runfile(o) == <<[do |-> "argvfile", arg |-> [k \in {"args", "argfile"} |-> o[k]]]>>
Runargv0(o) == Args(o)
Runuid(o) == Opt(o, "setuid")
Runlimit(o) == <<[do |-> "limits", arg |-> o.rlimit]>>
Runchoom(o) == Opt(o, "choom")
Runpause(o) == Opt(o, "sleep")
Runsession(o) == <<[do |-> "setsid", arg |-> TRUE]>>
Rundetach(o) == <<[do |-> "detach", arg |-> TRUE], [do |-> "setsid", arg |-> TRUE]>>

Steps(c) ==
  CASE c.tool = "runtool" -> Runtool(c.o)
    [] c.tool = "runenv" -> Runenv(c.o)
    [] c.tool = "runargs" -> Runargs(c.o)
    [] c.tool = "runfile" -> Runfile(c.o)
    [] c.tool = "runargv0" -> Runargv0(c.o)
    [] c.tool = "runuid" -> Runuid(c.o)
    [] c.tool = "runlimit" -> Runlimit(c.o)
    [] c.tool = "runchoom" -> Runchoom(c.o)
    [] c.tool = "runpause" -> Runpause(c.o)
    [] c.tool = "runsession" -> Runsession(c.o)
    [] OTHER -> Rundetach(c.o)

Do(r, s) ==
  CASE s.do = "args" -> Do_args(r, s.arg)
    [] s.do = "argvfile" -> Do_argvfile(r, s.arg)
    [] s.do = "env" -> Do_env(r, s.arg)
    [] s.do = "envuid" -> Do_envuid(r, s.arg)
    [] s.do = "detach" -> Do_detach(r)
    [] s.do = "setsid" -> Do_setsid(r)
    [] s.do = "lock" -> Do_setlock(r, s.arg)
    [] s.do = "umask" -> Do_umask(r, s.arg)
    [] s.do = "fdset" -> Do_fdset(r, s.arg)
    [] s.do = "rlimit" -> Do_runlimit(r, s.arg)
    [] s.do = "limits" -> Limits(r, s.arg)
    [] s.do = "chdir" -> Do_chdir(r, s.arg)
    [] s.do = "chroot" -> Do_chroot(r, s.arg)
    [] s.do = "setuid" -> Do_setuid(r, s.arg)
    [] s.do = "setgroups" -> Setgroups(r, s.arg)
    [] s.do = "setgid" -> Setgid(r, s.arg)
    [] s.do = "setuid(2)" -> Setuid(r, s.arg)
    [] s.do = "choom" -> Do_choom(r, s.arg)
    [] OTHER -> Do_sleep(r, s.arg)

(***************************************************************************)
(* execvx(): a path is a sequence of directories and of ":" between them.  *)
(***************************************************************************)
\* The position after the element that begins at i.  The variant never looks
\* at what follows a ":" at the end.
Next_element(path, i) ==
  CASE path[i] = ":" -> i + 1
    [] i + 1 < Len(path) -> i + 2
    [] OTHER -> i + 1

Tries(path) ==
  LET t[i \in 1 .. Len(path) + 2] ==
        IF i > Len(path) THEN <<>>
        ELSE <<IF path[i] = ":" THEN "." ELSE path[i]>> \o t[Next_element(path, i)]
  IN t[1]

\* A directory without the program, or where it may not be run, is passed over.
Passable(errno) == errno \in {"ENOENT", "EACCES"}
Execvx(path) ==
  LET dirs == Tries(path)
      stop == {i \in 1 .. Len(dirs) : ~Passable(Where[dirs[i]])}
      i == CHOOSE i \in stop : \A j \in stop : i <= j
  IN IF stop # {} /\ Where[dirs[i]] = "ok" THEN dirs[i] ELSE "nowhere"

(***************************************************************************)
(* The process.                                                            *)
(***************************************************************************)
Init ==
  /\ chain \in Chains
  /\ from \in Starts
  /\ me = [todo |-> Steps(chain[1]), link |-> 1, st |-> "busy", argv |-> <<>>, env |-> from.env, newenv |-> <<>>,
           fds |-> from.fds, lim |-> from.lim, uid |-> from.uid, gid |-> 0, groups |-> {0}, jail |-> "/",
           cwd |-> "start", umask |-> "022", pid |-> 1, sid |-> 0, leader |-> from.leader, choom |-> None,
           ran |-> None]
  /\ fails = Fails

Step ==
  /\ me.st = "busy" /\ me.todo # <<>>
  /\ me' = Do([me EXCEPT !.todo = Tail(@)], Head(me.todo))
  /\ UNCHANGED <<chain, from, fails>>

\* A system call fails: the tool gives up, except for what it only warns of.
StepFails ==
  /\ me.st = "busy" /\ me.todo # <<>>
  /\ fails > 0
  /\ fails' = fails - 1
  /\ me' = IF Head(me.todo).do = "setsid" \/ (Head(me.todo).do = "choom" /\ chain[me.link].o.must = None)
           THEN [me EXCEPT !.todo = Tail(@)]
           ELSE Fatal(me)
  /\ UNCHANGED <<chain, from>>

\* newenv_exec() and execvx(): the next tool of the chain, or the program.
Exec ==
  /\ me.st = "busy" /\ me.todo = <<>>
  /\ LET o == chain[me.link].o
         env == Newenv_merge(IF o.fresh = None THEN me.env ELSE <<>>, me.newenv)
         r == [me EXCEPT !.env = env, !.newenv = <<>>]
     IN me' = IF me.link < Len(chain)
              THEN [r EXCEPT !.link = @ + 1, !.todo = Steps(chain[me.link + 1])]
              ELSE [r EXCEPT !.st = IF Execvx(o.path) = "nowhere" THEN "fatal" ELSE "ran", !.ran = Execvx(o.path)]
  /\ UNCHANGED <<chain, from, fails>>

Next == Step \/ StepFails \/ Exec
Spec == Init /\ [][Next]_vars

(***************************************************************************)
(* Properties.                                                             *)
(***************************************************************************)
Ran == me.st = "ran"
Asked(k) == {i \in 1 .. Len(chain) : chain[i].o[k] # None}
Of(k) == chain[CHOOSE i \in Asked(k) : \A j \in Asked(k) : j <= i].o[k]
Only(tool, k) == Ran /\ Len(chain) = 1 /\ chain[1].tool = tool /\ Asked(k) # {}

\* The process has its type; a limit never exceeds the hard one.
TypeOK ==
  /\ me.st \in {"busy", "ran", "fatal", "usage"} /\ me.link \in 1 .. Len(chain)
  /\ me.fds \in [0 .. FdMax -> {Closed} \cup (STRING \X STRING)]
  /\ \A res \in Resources : me.lim[res] \in 0 .. Hard
  /\ {me.uid, me.gid, me.pid, me.sid} \cup me.groups \subseteq Nat
  /\ fails \in 0 .. Fails

\* A program that was to run as a user runs with the uid, the gid and the
\* groups of that user in the jail it runs in, whichever of the calls before it
\* failed.  And if no call fails, a tool that has given up its uid goes on to the
\* program: the uid comes last (do_setuid()).
Dropped ==
  Asked("setuid") # {} =>
    /\ Ran => LET pw == Users[me.jail][Of("setuid")] IN me.uid = pw.uid /\ me.gid = pw.gid /\ me.groups = {pw.gid}
    /\ me.st = "fatal" /\ fails = Fails => me.uid = from.uid \/ me.ran = "nowhere"

\* The arguments are those of the command line and of the file, without its
\* comments, as two blocks in the order that -a or -A asks for, and argv[0] is
\* the alias.  The order that runargs takes is left open: runargs.8
\* gives the opposite of runargs.c:167-188.
ArgvAsAsked ==
  Ran /\ (chain[Len(chain)].tool \in {"runtool", "runargs", "runfile"}) =>
    LET tool == chain[Len(chain)].tool
        o == chain[Len(chain)].o
        file == IF o.argfile = None THEN <<>> ELSE Do_argfile(o.argfile)
        after == Tail(me.argv)
    IN CASE tool = "runfile" -> me.argv = file \o o.args
         [] tool = "runargs" -> after \in {file \o o.args, o.args \o file}
         [] OTHER -> /\ o.alias # None => Head(me.argv) = o.alias
                     /\ after = IF o.insert # None THEN o.args \o file ELSE file \o o.args

\* -F changes just the descriptors it names, in the order it names them: none
\* is leaked, and the lock keeps its own.
FdsAsAsked ==
  Only("runtool", "fdset") =>
    LET start == IF Asked("lock") = {} THEN from.fds ELSE Opened(from.fds, <<"lock", Of("lock")>>)
        one(fds, s) == [fds EXCEPT ![s.fd] = CASE s.op # "=" -> <<s.op, s.target>>
                                               [] s.target = "!" -> Closed
                                               [] OTHER -> fds[s.from]]
    IN me.fds = FoldLeft(one, start, Of("fdset"))

Value(env, name) == {env[i].val : i \in {i \in 1 .. Len(env) : env[i].name = name}}
Set_by(entries, old, name) ==
  FoldLeft(LAMBDA v, e : IF e.name # name THEN v ELSE IF e.val = None THEN {} ELSE {e.val}, old, entries)
Asked_uid == IF Asked("envuid") = {} THEN <<>>
             ELSE LET pw == Users["/"][Of("envuid")] IN
                  <<Entry(UID, <<ToString(pw.uid)>>), Entry(GID, <<ToString(pw.gid)>>)>>
Asked_env == (IF Of("env").kind = "file" THEN Do_envfile(Of("env").lines) ELSE Do_envdir(Of("env").lines)) \o Asked_uid
Names == {e.name : e \in {from.env[i] : i \in 1 .. Len(from.env)} \cup {Asked_env[i] : i \in 1 .. Len(Asked_env)}}
Env_is_as_asked ==
  \A n \in Names :
    Value(me.env, n) = Set_by(Asked_env, IF Asked("fresh") = {} THEN Value(from.env, n) ELSE {}, n)

\* The program's environment is the old one, changed just as the file or the
\* directory of runenv, or of runtool -e, says: later lines win, a line without
\* value removes.  It holds as long as no two names of one length differ in
\* their last character only, which newenv_merge() takes for one another.
EnvAsAsked ==
  Ran /\ Len(chain) = 1 /\ Asked("env") # {} /\ (\A m, n \in Names : m # n => m[1] # n[1] \/ m[2] # n[2]) =>
    Env_is_as_asked

Specs(seq, res) == SelectSeq(seq, LAMBDA s : s.name = res \/ s.name = "m")
Limits_as_asked(res) ==
  LET a == Of("rlimit")
      opt == Specs(a.opt, res)
      file == Specs(a.file, res)
      env == Specs(a.env, res)
  IN me.lim[res] = CASE opt # <<>> -> Truncated(opt[Len(opt)].u)
                        [] opt = <<>> /\ file # <<>> -> Truncated(file[1].u)
                        [] opt = <<>> /\ file = <<>> /\ env # <<>> -> Truncated(env[1].u)
                        [] OTHER -> from.lim[res]
\* runlimit: the command line overrides the file, the file the environment; a
\* limit named nowhere is left, and no bad value is passed over.  It holds where
\* RLIMIT_VMEM is not used.
LimitsAsAsked ==
  Only("runlimit", "rlimit") =>
    /\ ~Bad(Of("rlimit"))
    /\ \A res \in Resources :
         Specs(Of("rlimit").file, "VMEM") = <<>> /\ Specs(Of("rlimit").env, "VMEM") = <<>> => Limits_as_asked(res)

\* The program is taken from the first directory of the path that has it, where
\* an empty element, also at either end, is the current directory; a directory
\* without it, or where it may not be run, is passed over, any other error ends
\* the search.
FoundInOrder ==
  me.ran # None =>
    LET path == chain[Len(chain)].o.path
        n == Len(path)
        colon(i) == i \in {0, n + 1} \/ path[i] = ":"
        \* 2i is element i of the path, 2i + 1 the gap behind it
        all == SelectSeq([j \in 1 .. 2 * n + 1 |->
                            CASE j % 2 = 0 -> IF path[j \div 2] = ":" THEN "" ELSE path[j \div 2]
                              [] n = 0 -> ""
                              [] OTHER -> IF colon(j \div 2) /\ colon((j \div 2) + 1) THEN "." ELSE ""],
                         LAMBDA d : d # "")
        ends == {i \in 1 .. Len(all) : ~Passable(Where[all[i]])}
        first == all[CHOOSE i \in ends : \A j \in ends : i <= j]
    IN me.ran = IF ends # {} /\ Where[first] = "ok" THEN first ELSE "nowhere"

\* The meaning of a value: character i is escaped if an odd number of
\* backslashes stands before it.
Backslashes(s, i) == Cardinality({k \in 1 .. i - 1 : \A j \in k .. i - 1 : s[j] = "\\"})
Unescaped(s) ==
  FlattenSeq([i \in 1 .. Len(s) |->
                CASE Backslashes(s, i) % 2 = 1 -> Escape(s[i])
                  [] s[i] # "\\" -> <<s[i]>>
                  [] OTHER -> IF i = Len(s) THEN <<"\\">> ELSE <<>>])

\* A value is what its line says, with the escape sequences replaced; nothing
\* that was not in the line gets into it.  It holds except for a value that ends
\* in a single backslash, in a last line without newline.
ValuesFromLine ==
  Asked("env") # {} =>
    \A i \in 1 .. Len(Of("env").lines) :
      LET l == Of("env").lines[i] IN
      l.key # None /\ l.val # None /\ (l.nl \/ Backslashes(l.val, Len(l.val) + 1) % 2 = 0) =>
        Envline(l).val = Unescaped(l.val)

\* The program that is run is the one asked for, with the arguments, the
\* descriptors, the environment and the limits asked for, and nothing else.
AsAsked ==
  /\ TypeOK
  /\ FoundInOrder /\ ArgvAsAsked /\ FdsAsAsked /\ EnvAsAsked /\ ValuesFromLine /\ LimitsAsAsked
=============================================================================
