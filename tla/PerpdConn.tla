----------------------------- MODULE PerpdConn -----------------------------
(***************************************************************************)
(* The control socket of perpd: the part of perpd_mainloop() that tends    *)
(* client connections, the request handler of perpd_conn.c, pkt_read() and *)
(* pkt_write(), and the clients perpctl, perpls, perpstat and perpok.      *)
(*                                                                         *)
(* A packet is a few units (for bytes) tagged with the request it belongs  *)
(* to; a socket carries sequences of units, and read() and write() are     *)
(* steps of their own.  What a command does to a service is in Perpd.tla;  *)
(* here a service is known, being culled or unknown, and has a status.     *)
(***************************************************************************)
EXTENDS Integers, Sequences, FiniteSets

CONSTANTS
  Clients,     \* client processes
  Raw,         \* those that keep to no protocol; the others are perp's tools
  Services,    \* service directories
  Args,        \* how many arguments a client may have
  Scripts,     \* what clients may ask: functions client -> Seq([type, sv])
  None,        \* no client
  ConnMax,     \* PERPD_CONNMAX
  ConnSecs,    \* PERPD_CONNSECS
  Cap,         \* units a socket holds in one direction
  Budgets      \* how often the environment may do each of Events

Events == {"tick", "turn", "fail", "accept", "term", "kill", "pipe", "auto", "skip"}

ASSUME RawAssumption == Raw \subseteq Clients /\ None \notin Clients
ASSUME ArgsAssumption == Args \in Nat
ASSUME BoundAssumption == ConnMax \in Nat \ {0} /\ ConnSecs \in Nat
\* A socket has room for any packet, PKT_SIZE is 258 bytes.
ASSUME CapAssumption == Cap \in Nat /\ Cap >= 4
ASSUME BudgetsAssumption == Budgets \subseteq [Events -> Nat]

VARIABLES
  script,      \* client -> what it asks in this behaviour
  cl,          \* client -> its process
  sock,        \* client -> its connection, as the kernel sees it
  backlog,     \* connections not yet accepted
  conns,       \* clients[0 .. nconns - 1]
  loop,        \* perpd_mainloop(): pc, i, nready and what poll() reported
  sv,          \* service -> what perpd knows of it
  term,        \* SIGTERM: "no", "sent", "flag" (flag_term), "yes" (flag_terminating)
  failing,     \* flag_failing after perpd_svdef_checkfail()
  budget,      \* what is left of the events
  done, told   \* history: the result of a request, what its client heard

vars == <<script, cl, sock, backlog, conns, loop, sv, term, failing, budget, done, told>>
Honest == Clients \ Raw

(***************************************************************************)
(* Packets.  "C", "Q", "Y" are requests, "P" one with a bad protocol byte, *)
(* "L" one of type C and a bad length, "E" and "S" are the replies.        *)
(***************************************************************************)
Types == {"C", "Q", "Y", "P", "L", "E", "S"}
Header == 2
Pkt_len(t) == CASE t = "S" -> 4 [] t = "Y" -> 2 [] t = "L" -> 4 [] OTHER -> 3

Statuses == {"up", "down"}
Flip(status) == IF status = "up" THEN "down" ELSE "up"
Errors == {"OK", "ENOENT", "EBUSY", "EPROTO", "ENOTSUP", "ENOTDIR"}
Results == [type : {"E"}, v : Errors] \cup [type : {"S"}, v : Statuses]

RequestIds == Clients \X (1 .. Args)
\* A tool without arguments prints its usage and never connects.
ASSUME ScriptsAssumption ==
  \A s \in Scripts : s \in [Clients -> Seq([type : Types, sv : Services])] /\ \A c \in Clients : Len(s[c]) \in 1 .. Args

Outcome(what) == [type |-> what, v |-> ""]
Nothing == Outcome("nothing")
Lost == Outcome("lost")
Torn == Outcome("torn")

\* pkt_load(): all units of a packet carry the reply value.
Packet(t, r, v) == [i \in 1 .. Pkt_len(t) |-> [type |-> t, r |-> r, v |-> v]]
Request(c) == Packet(script[c][cl[c].k].type, <<c, cl[c].k>>, "OK")

\* The number of units pkt_read() waits for, given what it has.
To_read(buf) == IF Len(buf) < Header THEN Header ELSE Pkt_len(buf[1].type)

Conn(c) == [fd |-> c, state |-> "READING", pkt |-> <<>>, w |-> 0, age |-> 0]
Closed == [fd |-> None, state |-> "CLOSED", pkt |-> <<>>, w |-> 0, age |-> 0]
NoSock == [st |-> "none", shut |-> FALSE, up |-> <<>>, down |-> <<>>]
NoPoll == [pc |-> "top", i |-> 1, nready |-> 0, ready |-> {}, hups |-> {}, self |-> FALSE, listen |-> FALSE]
Idle == [pc |-> "off", k |-> 1, w |-> 0, buf |-> <<>>]

Spend(e) == budget[e] > 0 /\ budget' = [budget EXCEPT ![e] = @ - 1]
Goto(label) == loop' = [loop EXCEPT !.pc = label]

Init ==
  /\ script \in Scripts
  /\ cl = [c \in Clients |-> Idle]
  /\ sock = [c \in Clients |-> NoSock]
  /\ backlog = <<>> /\ conns = <<>>
  /\ loop = NoPoll
  /\ sv \in [Services -> [known : {TRUE}, cull : {FALSE}, status : {"down"}]]
  /\ term = "no" /\ failing = FALSE
  /\ budget \in Budgets
  /\ done = [r \in RequestIds |-> Nothing]
  /\ told = [r \in RequestIds |-> Nothing]

(***************************************************************************)
(* The kernel closes perpd's end of connections: a client that has sent    *)
(* what perpd has not read, or was not accepted, gets ECONNRESET, the      *)
(* others end of file.                                                     *)
(***************************************************************************)
Shut(C) ==
  sock' = [c \in Clients |-> IF c \notin C THEN sock[c]
    ELSE [sock[c] EXCEPT !.st = IF sock[c].st = "backlog" \/ sock[c].up # <<>> THEN "reset" ELSE "eof",
                         !.up = <<>>]]

(***************************************************************************)
(* perpd_mainloop().                                                       *)
(***************************************************************************)
\* perpd_conn_checkstale()
Stale(conn) == conn.fd # None /\ conn.age > ConnSecs

\* Culling moves the last connection into the place of a closed one.  A round
\* of the loop is at <<clients[0 .. nconns - 1], i>>.
Drop(s, i) == [j \in 1 .. Len(s) - 1 |-> IF j = i THEN s[Len(s)] ELSE s[j]]
Round(at) ==
  LET s == at[1]
      i == at[2]
  IN IF i > Len(s) THEN at ELSE IF s[i].fd = None THEN <<Drop(s, i), i>> ELSE <<s, i + 1>>
Culled(table) ==
  LET pass[n \in 0 .. Len(table)] == IF n = 0 THEN <<table, 1>> ELSE Round(pass[n - 1])
  IN pass[Len(table)][1]

Top ==
  /\ loop.pc = "top"
  /\ LET stale == {i \in 1 .. Len(conns) : Stale(conns[i])}
     IN /\ conns' = Culled([i \in 1 .. Len(conns) |-> IF i \in stale THEN Closed ELSE conns[i]])
        /\ Shut({conns[i].fd : i \in stale})
  /\ Goto("poll")
  /\ UNCHANGED <<script, cl, backlog, sv, term, failing, budget, done, told>>

\* What poll() finds on a connection.
Hup(conn) == sock[conn.fd].shut
In(conn) == conn.state = "READING" /\ sock[conn.fd].up # <<>>
Out(conn) == conn.state = "WRITING" /\ Len(sock[conn.fd].down) < Cap
One(b) == IF b THEN 1 ELSE 0

\* poll() sleeps until there is an event.  A signal or perpd_trigger_fail()
\* has written to the selfpipe ("self"); with -a the poll() ends by itself.
Poll ==
  /\ loop.pc = "poll"
  /\ LET open == IF term = "yes" THEN {} ELSE 1 .. Len(conns)
         hups == {i \in open : Hup(conns[i])}
         ready == hups \cup {i \in open : In(conns[i]) \/ Out(conns[i])}
         listen == term # "yes" /\ backlog # <<>>
         seen(self) == [pc |-> "post", i |-> 1, ready |-> ready, hups |-> hups, self |-> self,
                        listen |-> listen, nready |-> One(self) + One(listen) + Cardinality(ready)]
     IN \/ /\ term = "sent" \/ failing
           /\ loop' = seen(TRUE) /\ UNCHANGED budget
        \/ /\ loop' = seen(TRUE) /\ Spend("pipe")
        \/ /\ term # "sent" /\ ~failing /\ (ready # {} \/ listen)
           /\ loop' = seen(FALSE) /\ UNCHANGED budget
        \/ /\ term # "sent" /\ ~failing /\ ready = {} /\ ~listen
           /\ loop' = seen(FALSE) /\ Spend("auto")
  /\ term' = IF term = "sent" THEN "flag" ELSE term
  /\ UNCHANGED <<script, cl, sock, backlog, conns, sv, failing, done, told>>

\* The selfpipe is drained; SIGTERM closes the listening socket and dumps all
\* connections.  Services are tended to in between (Perpd.tla); while fork()
\* fails clients are ignored.
Dumped_accepted == {c \in Clients : sock[c].st = "backlog"}
Dumped == {c \in Clients : sock[c].st \in {"open", "backlog"}}
Post ==
  /\ loop.pc = "post"
  /\ \/ failing' = FALSE /\ UNCHANGED budget
     \/ failing' = TRUE /\ term = "no" /\ Spend("fail")
  /\ LET n == loop.nready - One(loop.self)
     IN loop' = IF failing' \/ n = 0 THEN NoPoll ELSE [loop EXCEPT !.nready = n, !.pc = "serve"]
  /\ IF term = "flag"
     THEN term' = "yes" /\ conns' = <<>> /\ backlog' = <<>> /\ Shut(Dumped)
     ELSE UNCHANGED <<term, conns, backlog, sock>>
  /\ UNCHANGED <<script, cl, sv, done, told>>

\* nready after one more event has been attended to.
Attended == loop.nready - 1
\* perpd_conn_close() of the connection in slot i.
Close(i) == conns' = [conns EXCEPT ![i] = Closed] /\ Shut({conns[i].fd})
AtSlot(label) == loop.pc = label /\ loop.i <= Len(conns)
NextSlot == loop' = [loop EXCEPT !.pc = "serve", !.i = @ + 1, !.ready = @ \ {loop.i}]

\* The loop over the connections: it passes those without events ...
Pass ==
  /\ AtSlot("serve") /\ loop.nready > 0 /\ loop.i \notin loop.ready
  /\ NextSlot
  /\ UNCHANGED <<script, cl, sock, backlog, conns, sv, term, failing, budget, done, told>>

\* ... ends at the last one or when nready is 0 ...
Passed ==
  /\ loop.pc = "serve"
  /\ loop.i > Len(conns) \/ loop.nready = 0
  /\ loop' = IF loop.nready = 0 THEN NoPoll
             ELSE [NoPoll EXCEPT !.pc = "accept", !.nready = loop.nready, !.listen = loop.listen]
  /\ UNCHANGED <<script, cl, sock, backlog, conns, sv, term, failing, budget, done, told>>

\* ... closes those that hung up ...
CloseHup ==
  /\ AtSlot("serve") /\ loop.nready > 0 /\ loop.i \in loop.hups
  /\ Close(loop.i)
  /\ loop' = [loop EXCEPT !.nready = Attended, !.i = @ + 1]
  /\ UNCHANGED <<script, cl, backlog, sv, term, failing, budget, done, told>>

\* ... and reads or writes the others.
Serve ==
  /\ AtSlot("serve") /\ loop.nready > 0 /\ loop.i \in loop.ready \ loop.hups
  /\ loop' = [loop EXCEPT !.nready = @ - 1,
                          !.pc = IF conns[loop.i].state = "READING" THEN "read" ELSE "write"]
  /\ UNCHANGED <<script, cl, sock, backlog, conns, sv, term, failing, budget, done, told>>

\* accept() takes the oldest connection, or fails and leaves it; after a
\* SIGTERM the listening socket is closed.
TooMany_kept == UNCHANGED conns /\ sock' = [sock EXCEPT ![Head(backlog)].st = "open"]
TooMany == UNCHANGED conns /\ Shut({Head(backlog)})
Accept ==
  /\ loop.pc = "accept"
  /\ LET took == loop.listen /\ term # "yes" /\ backlog' = Tail(backlog)
     IN \/ /\ term = "yes" \/ ~loop.listen
           /\ UNCHANGED <<conns, sock, backlog, budget>>
        \/ /\ loop.listen /\ term # "yes" /\ Spend("accept")
           /\ UNCHANGED <<conns, sock, backlog>>
        \/ /\ took /\ Spend("accept")            \* fd_nonblock() fails
           /\ UNCHANGED conns /\ Shut({Head(backlog)})
        \/ /\ took /\ Len(conns) = ConnMax
           /\ TooMany /\ UNCHANGED budget
        \/ /\ took /\ Len(conns) < ConnMax /\ UNCHANGED budget
           /\ conns' = Append(conns, Conn(Head(backlog)))
           /\ sock' = [sock EXCEPT ![Head(backlog)].st = "open"]
  /\ loop' = [loop EXCEPT !.pc = "end", !.nready = @ - One(loop.listen)]
  /\ UNCHANGED <<script, cl, sv, term, failing, done, told>>

End == /\ loop.pc = "end"
       /\ loop' = NoPoll
       /\ UNCHANGED <<script, cl, sock, backlog, conns, sv, term, failing, budget, done, told>>

(***************************************************************************)
(* perpd_conn_exec() and its handlers.                                     *)
(***************************************************************************)
\* The result of a request of type t for service s.
Exec(t, s) ==
  IF t = "Q" /\ sv[s].known THEN [type |-> "S", v |-> sv[s].status]
  ELSE [type |-> "E",
        v |-> CASE t = "Q" -> "ENOTDIR"
                [] t = "C" /\ ~sv[s].known -> "ENOENT"
                [] t = "C" /\ sv[s].known -> IF sv[s].cull THEN "EBUSY" ELSE "OK"
                [] t = "Y" -> "ENOTSUP"
                [] OTHER -> "EPROTO"]

\* The reply goes into the buffer of the connection.
Reply(conn, r, result) == [conn EXCEPT !.state = "WRITING", !.pkt = Packet(result.type, r, result.v), !.w = 0]

(***************************************************************************)
(* perpd_conn_read(): pkt_read() takes what is there until it has a packet *)
(* or the socket is empty.  More than a packet is EPROTO.                  *)
(***************************************************************************)
Overrun(pkt) == Len(pkt) > To_read(pkt)

ReadMore ==
  /\ AtSlot("read")
  /\ LET conn == conns[loop.i]
         c == conn.fd
         pkt == conn.pkt \o sock[c].up
         empty == [sock EXCEPT ![c].up = <<>>]
     IN /\ sock[c].up # <<>>
        /\ IF Overrun(pkt)
           THEN /\ conns' = [conns EXCEPT ![loop.i] = Closed]
                /\ sock' = [empty EXCEPT ![c].st = "eof"]
                /\ NextSlot /\ UNCHANGED <<sv, done>>
           ELSE IF Len(pkt) < To_read(pkt)
           THEN /\ conns' = [conns EXCEPT ![loop.i].pkt = pkt]
                /\ sock' = empty
                /\ UNCHANGED <<loop, sv, done>>
           ELSE LET r == pkt[1].r
                    req == script[r[1]][r[2]]
                    result == Exec(pkt[1].type, req.sv)
                IN /\ conns' = [conns EXCEPT ![loop.i] = Reply(conn, r, result)]
                   /\ done' = [done EXCEPT ![r] = IF @ = Nothing THEN result ELSE Outcome("twice")]
                   /\ sv' = IF pkt[1].type = "C" /\ result.v = "OK"
                            THEN [sv EXCEPT ![req.sv].status = Flip(@)] ELSE sv
                   /\ sock' = empty
                   /\ NextSlot
  /\ UNCHANGED <<script, cl, backlog, term, failing, budget, told>>

ReadEmpty ==
  /\ AtSlot("read")
  /\ sock[conns[loop.i].fd].up = <<>>
  /\ IF sock[conns[loop.i].fd].shut THEN Close(loop.i) ELSE UNCHANGED <<conns, sock>>
  /\ NextSlot
  /\ UNCHANGED <<script, cl, backlog, sv, term, failing, budget, done, told>>

(***************************************************************************)
(* perpd_conn_write(): pkt_write() writes until all is written or the      *)
(* socket is full.  A connection lives on after a reply.                   *)
(***************************************************************************)
Fit(room, n) == IF room < n THEN room ELSE n
Restart(conn) == Conn(conn.fd)

Write ==
  /\ AtSlot("write")
  /\ LET conn == conns[loop.i]
         c == conn.fd
         left == Len(conn.pkt) - conn.w
         k == Fit(Cap - Len(sock[c].down), left)
     IN IF sock[c].shut THEN Close(loop.i)
        ELSE /\ sock' = [sock EXCEPT ![c].down = @ \o SubSeq(conn.pkt, conn.w + 1, conn.w + k)]
             /\ conns' = [conns EXCEPT ![loop.i] = IF k = left THEN Restart(conn)
                                                   ELSE [conn EXCEPT !.w = @ + k]]
  /\ NextSlot
  /\ UNCHANGED <<script, cl, backlog, sv, term, failing, budget, done, told>>

(***************************************************************************)
(* The clients.  perpok asks once, the others once for each argument, all  *)
(* on one connection.                                                      *)
(***************************************************************************)
Client(c, p, s) == cl' = [cl EXCEPT ![c] = p] /\ sock' = [sock EXCEPT ![c] = s]
Tell(c, v) == told' = [told EXCEPT ![<<c, cl[c].k>>] = v]
Cut(c) == sock[c].st \in {"eof", "reset"}
Hang(c) == [sock[c] EXCEPT !.shut = TRUE, !.down = <<>>]

Connect(c) ==
  /\ cl[c].pc = "off"
  /\ IF term = "yes"                             \* ECONNREFUSED
     THEN Client(c, [cl[c] EXCEPT !.pc = "closed"], sock[c]) /\ UNCHANGED backlog
     ELSE /\ Len(backlog) < ConnMax
          /\ backlog' = Append(backlog, c)
          /\ Client(c, [cl[c] EXCEPT !.pc = "write"], [NoSock EXCEPT !.st = "backlog"])
  /\ UNCHANGED <<script, conns, loop, sv, term, failing, budget, done, told>>

\* After an argument: the next one, or the end.
After(c) == IF cl[c].k < Len(script[c]) THEN [pc |-> "write", k |-> cl[c].k + 1, w |-> 0, buf |-> <<>>]
            ELSE [Idle EXCEPT !.pc = "closed"]
Proceed(c, s) == Client(c, After(c), IF cl[c].k < Len(script[c]) THEN s ELSE [s EXCEPT !.shut = TRUE, !.down = <<>>])

\* stat() fails, or the argument is not an active service directory.
SkipArg(c) ==
  /\ cl[c].pc = "write" /\ cl[c].w = 0 /\ c \notin Raw
  /\ Spend("skip")
  /\ Tell(c, Lost) /\ Proceed(c, sock[c])
  /\ UNCHANGED <<script, backlog, conns, loop, sv, term, failing, done>>

\* pkt_write() on a blocking socket; only a raw client writes in pieces.
\* Nobody catches the SIGPIPE of a closed connection.
ClientWrite(c) ==
  /\ cl[c].pc = "write"
  /\ IF Cut(c)
     THEN /\ Client(c, [Idle EXCEPT !.pc = "killed"], Hang(c)) /\ Tell(c, Lost)
     ELSE LET left == Len(Request(c)) - cl[c].w
              room == Fit(Cap - Len(sock[c].up), left)
          IN /\ room > 0
             /\ \E k \in IF c \in Raw THEN {1, room} ELSE {room} :
                  Client(c, IF k = left THEN [cl[c] EXCEPT !.pc = "read"] ELSE [cl[c] EXCEPT !.w = @ + k],
                         [sock[c] EXCEPT !.up = @ \o SubSeq(Request(c), cl[c].w + 1, cl[c].w + k)])
             /\ UNCHANGED told
  /\ UNCHANGED <<script, backlog, conns, loop, sv, term, failing, budget, done>>

\* What the client makes of its buffer, the request overwritten by what came:
\* end of file is no error to pkt_read(), and the buffer may hold the request.
Verdict_unchecked(buf) ==
  IF buf = <<>> THEN [type |-> "E", v |-> "OK"]
  ELSE IF Len(buf) = Pkt_len(buf[1].type) THEN [type |-> buf[1].type, v |-> buf[1].v] ELSE Lost
Verdict(buf) ==
  IF buf = <<>> THEN Lost                        \* "unknown packet type"
  ELSE IF Len(buf) = Pkt_len(buf[1].type) THEN [type |-> buf[1].type, v |-> buf[1].v]
  ELSE IF buf[1].type = "S" THEN Torn ELSE Lost

ClientRead(c) ==
  /\ cl[c].pc = "read"
  /\ LET buf == cl[c].buf \o sock[c].down
         drained == [sock[c] EXCEPT !.down = <<>>]
     IN \/ /\ sock[c].down # <<>> /\ Len(buf) < To_read(buf)
           /\ Client(c, [cl[c] EXCEPT !.buf = buf], drained) /\ UNCHANGED told
        \/ /\ sock[c].down # <<>> /\ Len(buf) >= To_read(buf)
           /\ Proceed(c, drained)
           /\ Tell(c, IF Len(buf) > To_read(buf) THEN Lost ELSE Verdict(buf))
        \/ /\ sock[c].down = <<>> /\ Cut(c)
           /\ Proceed(c, drained)
           /\ Tell(c, IF sock[c].st = "reset" THEN Lost ELSE Verdict(buf))
  /\ UNCHANGED <<script, backlog, conns, loop, sv, term, failing, budget, done>>

\* A raw client goes on without waiting for the reply.
Pipeline(c) ==
  /\ c \in Raw /\ cl[c].pc = "read" /\ cl[c].k < Len(script[c])
  /\ Client(c, After(c), sock[c])
  /\ UNCHANGED <<script, backlog, conns, loop, sv, term, failing, budget, done, told>>

Kill(c) ==
  /\ cl[c].pc \in {"write", "read"} /\ Spend("kill")
  /\ Client(c, [Idle EXCEPT !.pc = "killed"], Hang(c))
  /\ UNCHANGED <<script, backlog, conns, loop, sv, term, failing, done, told>>

(***************************************************************************)
(* The rest of the world: time passes, perpd is sent SIGTERM, and services *)
(* come, go and change while perpd is not in the middle of a request.      *)
(***************************************************************************)
Tick ==
  /\ Spend("tick")
  /\ conns' = [i \in 1 .. Len(conns) |-> [conns[i] EXCEPT !.age = IF @ > ConnSecs THEN @ ELSE @ + 1]]
  /\ UNCHANGED <<script, cl, sock, backlog, loop, sv, term, failing, done, told>>

Term == /\ term = "no" /\ Spend("term") /\ term' = "sent"
        /\ UNCHANGED <<script, cl, sock, backlog, conns, loop, sv, failing, done, told>>

Turn(s) ==
  /\ loop.pc = "post" /\ Spend("turn")
  /\ \/ sv' = [sv EXCEPT ![s].status = Flip(@)]
     \/ sv[s].known /\ sv' = [sv EXCEPT ![s].cull = TRUE]
     \/ sv' = [sv EXCEPT ![s] = [known |-> ~@.known, cull |-> FALSE, status |-> @.status]]
  /\ UNCHANGED <<script, cl, sock, backlog, conns, loop, term, failing, done, told>>

Perpd == \/ Top \/ Poll \/ Post \/ Pass \/ Passed \/ CloseHup \/ Serve \/ Accept \/ End
         \/ ReadMore \/ ReadEmpty \/ Write
ClientStep(c) == Connect(c) \/ SkipArg(c) \/ ClientWrite(c) \/ ClientRead(c)
Next == \/ Perpd \/ Tick \/ Term
        \/ \E c \in Clients : ClientStep(c) \/ Pipeline(c) \/ Kill(c)
        \/ \E s \in Services : Turn(s)

Spec == Init /\ [][Next]_vars
\* perpd runs on, and so do perp's tools; other clients may stop anywhere.
FairSpec == Spec /\ WF_vars(Perpd)
                 /\ \A c \in Honest : WF_vars(ClientWrite(c) \/ ClientRead(c) \/ Connect(c))
(***************************************************************************)
(* Properties.                                                             *)
(***************************************************************************)
Unit == [type : Types, r : RequestIds, v : Errors \cup Statuses]
TypeOK ==
  /\ cl \in [Clients -> [pc : {"off", "write", "read", "closed", "killed"}, k : 1 .. Args, w : 0 .. 4, buf : Seq(Unit)]]
  /\ sock \in [Clients -> [st : {"none", "backlog", "open", "eof", "reset"}, shut : BOOLEAN,
                           up : Seq(Unit), down : Seq(Unit)]]
  /\ \A c \in Clients : Len(sock[c].up) <= Cap /\ Len(sock[c].down) <= Cap
  /\ backlog \in Seq(Clients)
  /\ conns \in Seq([fd : Clients \cup {None}, state : {"CLOSED", "READING", "WRITING"},
                    pkt : Seq(Unit), w : 0 .. 3, age : 0 .. ConnSecs + 1])
  /\ loop.nready >= 0
  /\ sv \in [Services -> [known : BOOLEAN, cull : BOOLEAN, status : Statuses]]

\* Every connection perpd has accepted and not closed is in clients[] once,
\* and there are at most PERPD_CONNMAX: accept(), the close of a stale or
\* broken connection, the culling of the array and the shutdown neither lose a
\* descriptor nor use one twice.
ConnTable ==
  LET used == {i \in 1 .. Len(conns) : conns[i].fd # None}
  IN /\ {conns[i].fd : i \in used} = {c \in Clients : sock[c].st = "open"}
     /\ \A i, j \in used : conns[i].fd = conns[j].fd => i = j
     /\ Len(conns) <= ConnMax

\* perpd_mainloop() says of nready # 0 at the end of the loop "shouldn't
\* happen": unless a SIGTERM has dumped the connections, every event poll()
\* counted has been attended to, in whatever way its connection ended.
NoUnhandled == loop.pc = "end" /\ term # "yes" => loop.nready = 0

\* perpd's account of its connections is right between any two steps: clients[]
\* is the set of open descriptors, and nready the events not attended to yet.
ConnInv == TypeOK /\ ConnTable /\ NoUnhandled

\* The control socket implements Rpc for the tools of perp: at most one
\* execution of a request, no answer but its result, and never part of one
\* (Torn): a reply fits the socket and is not written before the last is read.
HonestIds == {r \in RequestIds : r[1] \in Honest}
R == INSTANCE Rpc WITH Requests <- HonestIds,
                       done <- [r \in HonestIds |-> done[r]],
                       told <- [r \in HonestIds |-> told[r]]
Answered == R!Spec

\* A tool that has connected ends: with its answers, an error or a SIGPIPE,
\* whatever other clients do, whether perpd is full, closes the connection as
\* stale, cannot fork for a while or is terminated.
ToolsEnd == \A c \in Honest : cl[c].pc \in {"write", "read"} ~> cl[c].pc \in {"closed", "killed"}
=============================================================================
