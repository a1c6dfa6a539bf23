----------------------------- MODULE MCRuntool -----------------------------
(***************************************************************************)
(* Instances of Runtool for TLC.                                           *)
(***************************************************************************)
EXTENDS Runtool

Plain == [k \in Options |-> CASE k = "args" -> <<>> [] k = "path" -> <<"d2">> [] OTHER -> None]
With(new) == [k \in Options |-> IF k \in DOMAIN new THEN new[k] ELSE Plain[k]]
One(tool, new) == <<[tool |-> tool, o |-> With(new)]>>

Accounts == [jail \in {"/", "/jail"} |->
               IF jail = "/" THEN ("web" :> [uid |-> 5, gid |-> 6]) @@ ("log" :> [uid |-> 7, gid |-> 7])
               ELSE "web" :> [uid |-> 8, gid |-> 9]]
Dirs == (("." :> "ok") @@ ("d1" :> "ENOENT")) @@ (("d2" :> "ok") @@ ("d3" :> "EACCES")) @@ ("d4" :> "ENOEXEC")

\* Who starts the tool: fds 0 to 2 open or not, and the environment.
A1 == <<2, "A", "1">>
A2 == <<2, "A", "2">>
B == <<1, "", "B">>
Env(names) == [i \in 1 .. Len(names) |-> Entry(names[i], <<"old">>)]
Fds(open) == [d \in 0 .. FdMax |-> IF d \in open THEN <<"std", "">> ELSE Closed]
Caller(uid, leader, open, names) ==
  [uid |-> uid, leader |-> leader, fds |-> Fds(open), env |-> Env(names), lim |-> [res \in Resources |-> 3]]
Callers == {Caller(0, TRUE, {0, 1, 2}, <<A1, B>>), Caller(0, FALSE, {1, 2}, <<B, A1, UID>>),
            Caller(5, FALSE, {0, 2}, <<A1, A2>>)}

Maybe(vals) == vals \cup {None}
Process_chains ==
  {One("runtool", [detach |-> d, setsid |-> s, lock |-> l, chdir |-> c,
                   chroot |-> j, setuid |-> u, umask |-> m, sleep |-> z]) :
     d \in Maybe({TRUE}), s \in Maybe({TRUE}), l \in Maybe({"f"}), c \in Maybe({"dir"}), j \in Maybe({"/jail"}),
     u \in Maybe({"web", "log"}), m \in Maybe({"077", "bad"}), z \in Maybe({"1", "bad"})}
Mixed_chains ==
  {One("runuid", [setuid |-> "web"]) \o One(t, [envuid |-> None]) : t \in {"rundetach", "runsession"}}
  \cup {One("runsession", [envuid |-> None]) \o One("runtool", [detach |-> TRUE, setuid |-> u, envuid |-> "web"]) :
          u \in Maybe({"log"})}
  \cup {One("runuid", [setuid |-> "web"]) \o One("runtool", [setuid |-> "log"])}
  \cup {One("runchoom", [choom |-> "-17", must |-> m]) \o One("runpause", [sleep |-> z])
          \o One("runargv0", [alias |-> "x"]) :
          m \in Maybe({TRUE}), z \in {"1", "bad"}}

Line(key, val) == [key |-> key, val |-> val, nl |-> TRUE, stale |-> <<>>]
Final(l) == [l EXCEPT !.nl = FALSE, !.stale = <<"s">>]
Texts == {<<Line("w", None), Line(None, None)>>, <<>>, <<Line("w", None), Line("v", None)>>, <<Line(None, None)>>}
Arg_seqs == {<<>>, <<"g">>, <<"g", "h">>}
Args_chains ==
  {One(t, [argfile |-> f, insert |-> i, alias |-> a, args |-> g]) :
     t \in {"runtool", "runargs"}, f \in Texts, i \in Maybe({TRUE}), a \in {None}, g \in Arg_seqs}
  \cup {One("runfile", [argfile |-> f, args |-> g]) : f \in Texts, g \in Arg_seqs}
  \cup {One("runtool", [argfile |-> f, alias |-> "x", args |-> <<"g">>]) : f \in Maybe({<<Line("w", None)>>})}

Vals == Maybe(UNION {[1 .. n -> {"\\", "n", "a"}] : n \in 0 .. 3})
Env_chains ==
  {One(t, [env |-> [kind |-> k, lines |-> <<Line(x, v), Line(None, None), Final(Line(y, w))>>],
            fresh |-> f, envuid |-> u]) :
     t \in {"runtool", "runenv"}, k \in {"file", "dir"}, x, y \in {A1, B, UID}, v \in Vals,
     w \in {None, <<"a">>, <<"\\">>},
     f \in Maybe({TRUE}), u \in Maybe({"web"})}
  \cup {One("runenv", [env |-> [kind |-> k, lines |-> <<>>], envuid |-> u]) :
          k \in {"dir", "socket"}, u \in {"web", "nobody"}}

Limit(name, u) == [name |-> name, u |-> u]
Limit_seqs == {<<>>} \cup {<<Limit(n, u)>> : n \in {"AS", "DATA"}, u \in {1, 2, 9}}
Limits_chains ==
  {One("runlimit", [rlimit |-> [opt |-> o, file |-> f, env |-> e]]) :
     o \in {<<>>, <<Limit("m", 4)>>, <<Limit("AS", 4), Limit("AS", 5)>>, <<Limit("DATA", -1)>>,
          <<Limit("AS", -1), Limit("AS", 5)>>}, f, e \in Limit_seqs}
  \cup {One("runtool", [rlimit |-> r]) : r \in {<<Limit("m", 4), Limit("AS", 2)>>, <<Limit("AS", -1)>>}}
  \cup {One("runlimit", [rlimit |-> [opt |-> <<>>, file |-> <<Limit("VMEM", 2)>>, env |-> <<Limit("STACK", -1)>>]])}

Redirect(fd, op, target) == [fd |-> fd, op |-> op, target |-> target, from |-> 0]
Duplicate(fd, old) == [fd |-> fd, op |-> "=", target |-> "", from |-> old]
Shut(fd) == [fd |-> fd, op |-> "=", target |-> "!", from |-> 0]
Instructions == {Redirect(d, op, "f") : d \in {0, 1}, op \in {"<", ">"}} \cup {Redirect(2, "+", "g")}
                  \cup {Duplicate(d, e) : d, e \in {0, 1, 3}} \cup {Shut(d) : d \in {0, 4}}
Fd_chains == {One("runtool", [fdset |-> <<a, b>>, lock |-> l]) : a, b \in Instructions, l \in Maybe({"f"})}

Paths == {<<"d1", ":", "d2">>, <<":", "d1">>, <<"d1", ":">>, <<"d3", ":", ":", "d2">>, <<"d4", ":", "d2">>, <<>>,
          <<"d1", ":", "d3">>, <<"d1", ":", ":">>, <<":">>, <<"d2", ":", "d4">>, <<"d3", ":", "d1", ":">>}
Path_chains == {One("runtool", [path |-> p]) : p \in Paths}

All_chains == Process_chains \cup Mixed_chains \cup Args_chains \cup Env_chains
                \cup Limits_chains \cup Fd_chains \cup Path_chains
=============================================================================
