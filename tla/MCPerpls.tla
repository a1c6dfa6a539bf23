------------------------------ MODULE MCPerpls ------------------------------
(***************************************************************************)
(* Instances of Perpls for TLC.                                            *)
(***************************************************************************)
EXTENDS Perpls

Up(when) == [pid |-> Pid, when |-> when, isreset |-> FALSE, isonce |-> FALSE, ispaused |-> FALSE, wantdown |-> FALSE]
Down == [Up(0) EXCEPT !.pid = 0]
Active(main, log) ==
  [kind |-> "active", st |-> [cull |-> FALSE, cycle |-> FALSE, haslog |-> TRUE, main |-> main, log |-> log]]
Plain(kind) == [Active(Up(0), Up(0)) EXCEPT !.kind = kind]

\* Any state a subservice can be in, one of its directory, and a second service.
AnySub == {s \in Sub : s.when \in {0, Tmax - 3} /\ (s.isreset => s.pid # 0)}
Dirs1 == {Active(s, Up(0)) : s \in AnySub} \cup {Active(Up(0), s) : s \in AnySub}
         \cup {[Active(Up(0), Down) EXCEPT !.st.haslog = FALSE]}
         \cup {[Active(Up(0), Up(0)) EXCEPT !.st.cull = TRUE, !.st.cycle = c] : c \in BOOLEAN}
         \cup {Plain(k) : k \in {"none", "file", "plain", "unknown"}}
AnyStart == {[n \in Names |-> IF n = 1 THEN d ELSE Active(Up(3), Up(0))] : d \in Dirs1}

Cmd(args, t, r, color) ==
  [args |-> args, t |-> t, r |-> r, color |-> color,
   db |-> [k \in 1 .. 10 |->
             [key |-> <<"df", "na", "an", "ar", "ap", "ad", "wu", "wd", "er", "ex">>[k], short |-> TRUE]]]
AnyCmd == {Cmd(<<2, 1>>, FALSE, FALSE, "G"), Cmd(<<>>, FALSE, TRUE, "tty"), Cmd(<<2, 1>>, TRUE, TRUE, "pipe"),
           Cmd(<<>>, TRUE, FALSE, "pipe")}
=============================================================================
