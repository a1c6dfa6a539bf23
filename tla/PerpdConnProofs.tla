-------------------------- MODULE PerpdConnProofs --------------------------
(***************************************************************************)
(* Proofs about PerpdConn.                                                 *)
(***************************************************************************)
EXTENDS PerpdConn, TLAPS, FiniteSetTheorems, SequenceTheorems, WellFoundedInduction

(***************************************************************************)
(* Induction on natural numbers.                                           *)
(***************************************************************************)
\* A set of natural numbers has a least element: the intervals that end in it
\* are well-founded by inclusion.
LEMMA Least ==
  ASSUME NEW T \in SUBSET Nat, T # {}
  PROVE  \E m \in T : \A n \in T : m <= n
<1> DEFINE C == {0 .. n : n \in T}
           Inside == StrictSubsetOrdering(Nat)
<1>1. IsWellFoundedOn(Inside, FiniteSubsetsOf(Nat))
  BY FS_StrictSubsetOrderingWellFounded
<1>2. C \subseteq FiniteSubsetsOf(Nat) /\ C # {}
  <2>1. ASSUME NEW n \in T PROVE IsFiniteSet(0 .. n) /\ 0 .. n \in SUBSET Nat
    BY FS_Interval
  <2> QED BY <2>1 DEF FiniteSubsetsOf
<1> HIDE DEF Inside, C
<1>3. PICK x \in C : \A y \in C : ~ (<<y, x>> \in Inside)
  BY <1>1, <1>2, WFMin
<1>4. PICK m \in T : x = 0 .. m
  BY <1>3 DEF C
<1>5. ASSUME NEW n \in T, n < m PROVE FALSE
  <2>1. 0 .. n \in C /\ 0 .. n \subseteq x /\ m \in x /\ m \notin 0 .. n
    BY <1>4, <1>5 DEF C
  <2>2. x \in SUBSET Nat /\ 0 .. n \in SUBSET Nat
    BY <1>4
  <2>3. <<0 .. n, x>> \in Inside
    BY <2>1, <2>2 DEF Inside, StrictSubsetOrdering
  <2> QED BY <1>3, <2>1, <2>3
<1> QED BY <1>5

\* What holds of 0, and of n + 1 if it holds of n, holds of every number.
LEMMA Induct ==
  ASSUME NEW S \in SUBSET Nat, 0 \in S, \A n \in S : n + 1 \in S
  PROVE  S = Nat
<1> SUFFICES ASSUME Nat \ S # {} PROVE FALSE
  OBVIOUS
<1>1. PICK m \in Nat \ S : \A n \in Nat \ S : m <= n
  BY Least
<1>2. m # 0 /\ m - 1 \in Nat
  BY <1>1
<1> QED BY <1>1, <1>2

(***************************************************************************)
(* The culling of clients[].                                               *)
(***************************************************************************)
ConnType == [fd : Clients \cup {None}, state : {"CLOSED", "READING", "WRITING"},
             pkt : Seq(Unit), w : 0 .. 3, age : 0 .. ConnSecs + 1]

\* The rounds of the loop are well defined.
LEMMA Passes ==
  ASSUME NEW table, NEW N \in Nat, Len(table) = N
  PROVE  \E p : /\ p = [n \in 0 .. N |-> IF n = 0 THEN <<table, 1>> ELSE Round(p[n - 1])]
                /\ Culled(table) = p[N][1]
<1> DEFINE P(m) == \E h : h = [n \in 0 .. m |-> IF n = 0 THEN <<table, 1>> ELSE Round(h[n - 1])]
           S == {m \in Nat : P(m)}
<1>1. P(0)
  <2> DEFINE h == [n \in 0 .. 0 |-> <<table, 1>>]
  <2>1. h = [n \in 0 .. 0 |-> IF n = 0 THEN <<table, 1>> ELSE Round(h[n - 1])]
    OBVIOUS
  <2> QED BY <2>1
<1>2. ASSUME NEW m \in Nat, P(m) PROVE P(m + 1)
  <2>1. PICK h : h = [n \in 0 .. m |-> IF n = 0 THEN <<table, 1>> ELSE Round(h[n - 1])]
    BY <1>2
  <2> DEFINE k == [n \in 0 .. m + 1 |-> IF n = m + 1 THEN Round(h[m]) ELSE h[n]]
  <2>2. ASSUME NEW n \in 0 .. m + 1 PROVE k[n] = IF n = 0 THEN <<table, 1>> ELSE Round(k[n - 1])
    <3>1. CASE n = m + 1
      BY <3>1
    <3>2. CASE n \in 0 .. m
      <4>1. k[n] = h[n] /\ (n # 0 => n - 1 \in 0 .. m /\ k[n - 1] = h[n - 1])
        BY <3>2
      <4>2. h[n] = IF n = 0 THEN <<table, 1>> ELSE Round(h[n - 1])
        BY <2>1, <3>2
      <4> QED BY <4>1, <4>2
    <3> QED BY <3>1, <3>2
  <2>3. k = [n \in 0 .. m + 1 |-> k[n]]
    OBVIOUS
  <2> HIDE DEF k
  <2>4. k = [n \in 0 .. m + 1 |-> IF n = 0 THEN <<table, 1>> ELSE Round(k[n - 1])]
    BY <2>2, <2>3
  <2> QED BY <2>4
<1>3. S = Nat
  <2> HIDE DEF P
  <2>1. 0 \in S /\ \A n \in S : n + 1 \in S
    BY <1>1, <1>2
  <2> QED BY <2>1, Induct
<1>4. P(N)
  BY <1>3
<1> DEFINE f == CHOOSE p : p = [n \in 0 .. N |-> IF n = 0 THEN <<table, 1>> ELSE Round(p[n - 1])]
<1>5. f = [n \in 0 .. N |-> IF n = 0 THEN <<table, 1>> ELSE Round(f[n - 1])]
  BY <1>4
<1>6. Culled(table) = f[N][1]
  BY DEF Culled
<1> QED BY <1>5, <1>6

\* A round has looked at the first i - 1 connections, and has lost none.
Distinct(s) == \A j, k \in 1 .. Len(s) : s[j].fd = s[k].fd /\ s[j].fd # None => j = k
Round_at(table, s, i) ==
  /\ s \in Seq(ConnType) /\ Len(s) <= Len(table) /\ i \in 1 .. Len(s) + 1
  /\ \A j \in 1 .. i - 1 : s[j].fd # None
  /\ Distinct(s)
  /\ \A j \in 1 .. Len(s) : s[j].fd # None => \E m \in 1 .. Len(table) : table[m] = s[j]
  /\ \A m \in 1 .. Len(table) : table[m].fd # None => \E j \in 1 .. Len(s) : table[m] = s[j]

LEMMA RoundStep ==
  ASSUME NEW table \in Seq(ConnType), NEW s, NEW i, Round_at(table, s, i), i <= Len(s)
  PROVE  LET at == Round(<<s, i>>)
         IN /\ at = <<at[1], at[2]>> /\ Round_at(table, at[1], at[2])
            /\ Len(at[1]) - at[2] = Len(s) - i - 1
<1>1. /\ Len(s) \in Nat /\ Len(table) \in Nat /\ Len(s) <= Len(table) /\ i \in 1 .. Len(s)
      /\ s \in Seq(ConnType) /\ \A j \in 1 .. Len(s) : s[j] \in ConnType
  BY DEF Round_at
<1>2. /\ \A j \in 1 .. i - 1 : s[j].fd # None
      /\ Distinct(s)
      /\ \A j \in 1 .. Len(s) : s[j].fd # None => \E m \in 1 .. Len(table) : table[m] = s[j]
      /\ \A m \in 1 .. Len(table) : table[m].fd # None => \E j \in 1 .. Len(s) : table[m] = s[j]
  BY DEF Round_at
<1>3. CASE s[i].fd = None
  <2> DEFINE d == Drop(s, i)
             N == Len(s) - 1
  <2>1. /\ d \in Seq(ConnType) /\ Len(d) = N /\ N \in Nat
        /\ \A j \in 1 .. N : d[j] = IF j = i THEN s[N + 1] ELSE s[j]
    <3>1. d \in [1 .. N -> ConnType] /\ N \in Nat
      BY <1>1 DEF Drop
    <3> QED BY <1>1, <3>1 DEF Drop
  <2>2. Round(<<s, i>>) = <<d, i>>
    BY <1>1, <1>3 DEF Round
  <2>3. Len(s) = N + 1
    BY <1>1
  <2> HIDE DEF d, N
  <2>4. \A j \in 1 .. i - 1 : j \in 1 .. N /\ d[j] = s[j]
    BY <1>1, <2>1, <2>3
  <2>5. ASSUME NEW j \in 1 .. N, NEW k \in 1 .. N, d[j].fd = d[k].fd, d[j].fd # None
        PROVE  j = k
    <3>1. /\ d[j] = IF j = i THEN s[N + 1] ELSE s[j]
          /\ d[k] = IF k = i THEN s[N + 1] ELSE s[k]
          /\ N + 1 \in 1 .. Len(s) /\ j \in 1 .. Len(s) /\ k \in 1 .. Len(s) /\ j # N + 1 /\ k # N + 1
      BY <2>1, <2>3
    <3> QED BY <1>2, <2>5, <3>1 DEF Distinct
  <2>6. ASSUME NEW j \in 1 .. N, d[j].fd # None PROVE \E m \in 1 .. Len(table) : table[m] = d[j]
    <3>1. \E k \in 1 .. Len(s) : d[j] = s[k]
      BY <2>1, <2>3
    <3> QED BY <1>2, <2>6, <3>1
  <2>7. ASSUME NEW m \in 1 .. Len(table), table[m].fd # None
        PROVE  \E j \in 1 .. N : table[m] = d[j]
    <3>1. PICK j \in 1 .. Len(s) : table[m] = s[j]
      BY <1>2, <2>7
    <3>2. j # i
      BY <2>7, <3>1, <1>3
    <3>3. CASE j = N + 1
      <4>1. i \in 1 .. N
        BY <1>1, <2>1, <2>3, <3>2, <3>3
      <4> QED BY <2>1, <3>1, <3>3, <4>1
    <3>4. CASE j \in 1 .. N
      BY <2>1, <3>1, <3>2, <3>4
    <3> QED BY <2>1, <2>3, <3>3, <3>4
  <2>8. Round_at(table, d, i)
    <3>1. i \in 1 .. Len(d) + 1 /\ Len(d) <= Len(table)
      BY <1>1, <2>1, <2>3
    <3>2. \A j \in 1 .. i - 1 : d[j].fd # None
      BY <1>2, <2>4
    <3> QED BY <2>1, <2>5, <2>6, <2>7, <3>1, <3>2 DEF Round_at, Distinct
  <2> QED BY <1>1, <2>1, <2>2, <2>3, <2>8
<1>4. CASE s[i].fd # None
  <2>1. Round(<<s, i>>) = <<s, i + 1>>
    BY <1>1, <1>4 DEF Round
  <2>2. \A j \in 1 .. (i + 1) - 1 : s[j].fd # None
    BY <1>1, <1>2, <1>4
  <2>3. Round_at(table, s, i + 1)
    BY <1>1, <1>2, <2>2 DEF Round_at
  <2> QED BY <1>1, <2>1, <2>3
<1> QED BY <1>3, <1>4

\* Culling leaves the connections that are open, each once.
LEMMA CulledIs ==
  ASSUME NEW table \in Seq(ConnType), Distinct(table)
  PROVE  LET s == Culled(table)
         IN /\ s \in Seq(ConnType) /\ Len(s) <= Len(table) /\ Distinct(s)
            /\ \A j \in 1 .. Len(s) : s[j].fd # None /\ \E m \in 1 .. Len(table) : table[m] = s[j]
            /\ \A m \in 1 .. Len(table) : table[m].fd # None => \E j \in 1 .. Len(s) : table[m] = s[j]
<1> DEFINE N == Len(table)
<1>0. N \in Nat
  OBVIOUS
<1>1. PICK p : /\ p = [n \in 0 .. N |-> IF n = 0 THEN <<table, 1>> ELSE Round(p[n - 1])]
               /\ Culled(table) = p[N][1]
  BY <1>0, Passes
<1> DEFINE Good(n) == n <= N => /\ p[n] = <<p[n][1], p[n][2]>> /\ Round_at(table, p[n][1], p[n][2])
                                /\ Len(p[n][1]) - p[n][2] < N - n
           S == {n \in Nat : Good(n)}
<1>2. Good(0)
  <2>1. p[0] = <<table, 1>>
    BY <1>0, <1>1
  <2>2. Round_at(table, table, 1)
    BY <1>0 DEF Round_at
  <2> QED BY <1>0, <2>1, <2>2
<1>3. ASSUME NEW n \in Nat, Good(n) PROVE Good(n + 1)
  <2> SUFFICES ASSUME n + 1 <= N PROVE Good(n + 1)
    OBVIOUS
  <2> DEFINE s == p[n][1]
             i == p[n][2]
  <2>1. p[n] = <<s, i>> /\ Round_at(table, s, i) /\ Len(s) - i < N - n
    BY <1>0, <1>3
  <2>2. p[n + 1] = Round(<<s, i>>)
    <3>1. n + 1 \in 0 .. N /\ n + 1 # 0 /\ (n + 1) - 1 = n
      BY <1>0
    <3>2. p[n + 1] = Round(p[n])
      BY <1>1, <3>1
    <3> QED BY <3>2, <2>1
  <2>3. Len(s) \in Nat /\ i \in Nat
    BY <2>1 DEF Round_at
  <2> HIDE DEF s, i, N
  <2>4. CASE i > Len(s)
    <3>1. p[n + 1] = <<s, i>>
      BY <2>2, <2>4 DEF Round
    <3>2. i = Len(s) + 1
      BY <2>1, <2>3, <2>4 DEF Round_at
    <3> QED BY <1>0, <2>1, <2>3, <3>1, <3>2
  <2>5. CASE i <= Len(s)
    <3> DEFINE at == Round(<<s, i>>)
    <3>1. /\ at = <<at[1], at[2]>> /\ Round_at(table, at[1], at[2])
          /\ Len(at[1]) - at[2] = Len(s) - i - 1
      BY <2>1, <2>5, RoundStep
    <3> HIDE DEF at
    <3>2. p[n + 1] = at
      BY <2>2 DEF at
    <3> QED BY <1>0, <2>1, <2>3, <3>1, <3>2
  <2> QED BY <2>3, <2>4, <2>5
<1>4. Good(N)
  <2> HIDE DEF Good
  <2>1. 0 \in S /\ \A n \in S : n + 1 \in S
    BY <1>2, <1>3
  <2>2. S = Nat
    BY <2>1, Induct
  <2> QED BY <1>0, <2>2
<1> DEFINE s == p[N][1]
           i == p[N][2]
<1>5. Culled(table) = s /\ Round_at(table, s, i) /\ Len(s) - i < 0
  BY <1>0, <1>1, <1>4
<1> HIDE DEF s, i, N
<1>6. i = Len(s) + 1 /\ Len(s) \in Nat
  BY <1>5 DEF Round_at
<1> QED BY <1>5, <1>6 DEF Round_at

(***************************************************************************)
(* The inductive invariant.                                                *)
(***************************************************************************)
LoopType == [pc : {"top", "poll", "post", "serve", "read", "write", "accept", "end"},
             i : Nat \ {0}, nready : Nat, ready : SUBSET Nat, hups : SUBSET Nat,
             self : BOOLEAN, listen : BOOLEAN]
Used == {i \in 1 .. Len(conns) : conns[i].fd # None}

\* The types in full.  A client is at one of its arguments, and what is on its
\* way to perpd, or in a buffer of perpd, is about one of them.
ClientType == [pc : {"off", "write", "read", "closed", "killed"}, k : 1 .. Args, w : 0 .. 4, buf : Seq(Unit)]
SockType == [st : {"none", "backlog", "open", "eof", "reset"}, shut : BOOLEAN, up : Seq(Unit), down : Seq(Unit)]
About(c, s) == \A n \in 1 .. Len(s) : s[n].r[1] = c /\ s[n].r[2] \in 1 .. Len(script[c])
ClientOK(c, p) == /\ p \in ClientType /\ p.k <= Len(script[c])
                  /\ p.pc = "off" => p = Idle
                  /\ p.pc = "write" => p.w < Pkt_len(script[c][p.k].type)
SockOK(c, s) == /\ s \in SockType /\ Len(s.up) <= Cap /\ Len(s.down) <= Cap /\ About(c, s.up)
ConnOK(conn) == /\ conn \in ConnType
                /\ conn.fd = None <=> conn.state = "CLOSED"
                /\ conn.fd # None => About(conn.fd, conn.pkt)
                /\ conn.state = "WRITING" => conn.w < Len(conn.pkt) /\ Len(conn.pkt) <= 4

ClientsOK == cl \in [Clients -> ClientType] /\ \A c \in Clients : ClientOK(c, cl[c])
SocksOK == sock \in [Clients -> SockType] /\ \A c \in Clients : SockOK(c, sock[c])
ConnsOK == conns \in Seq(ConnType) /\ \A i \in 1 .. Len(conns) : ConnOK(conns[i])
RestOK ==
  /\ backlog \in Seq(Clients)
  /\ sv \in [Services -> [known : BOOLEAN, cull : BOOLEAN, status : Statuses]]
  /\ script \in Scripts
  /\ term \in {"no", "sent", "flag", "yes"} /\ failing \in BOOLEAN
  /\ budget \in [Events -> Nat]
  /\ done = [r \in RequestIds |-> done[r]] /\ told = [r \in RequestIds |-> told[r]]
LoopOK == loop \in LoopType /\ IsFiniteSet(loop.ready)
TypeInv == ClientsOK /\ SocksOK /\ ConnsOK /\ RestOK /\ LoopOK

\* A connection not yet accepted is in the queue of the listening socket, once.
Queue ==
  /\ \A c \in Clients : sock[c].st = "backlog" <=> \E n \in 1 .. Len(backlog) : backlog[n] = c
  /\ \A m, n \in 1 .. Len(backlog) : backlog[m] = backlog[n] => m = n
  /\ \A c \in Clients : cl[c].pc = "off" => sock[c] = NoSock

\* Where the main loop is, and what nready counts.
Left == CASE loop.pc \in {"post", "serve"} -> {j \in loop.ready : loop.i <= j}
          [] loop.pc \in {"read", "write"} -> {j \in loop.ready : loop.i < j}
          [] OTHER -> {}
Counted == (IF loop.pc = "post" THEN One(loop.self) ELSE 0) + One(loop.listen) + Cardinality(Left)
Progress ==
  /\ \A j \in loop.hups : loop.i <= j => j \in loop.ready
  /\ loop.pc = "poll" => Used = 1 .. Len(conns)
  /\ loop.pc = "post" => loop.i = 1
  /\ term = "yes" => conns = <<>> /\ backlog = <<>> /\ loop.pc \notin {"read", "write"}
  /\ loop.pc \in {"post", "serve", "read", "write"} /\ term # "yes" => Left \subseteq Used
  /\ loop.pc \in {"read", "write"} => /\ loop.i \in Used
                                      /\ conns[loop.i].state = IF loop.pc = "read" THEN "READING" ELSE "WRITING"
  /\ loop.pc \in {"post", "serve", "read", "write", "accept"} /\ term # "yes" =>
       /\ loop.nready = Counted
       /\ loop.listen => backlog # <<>>
  /\ loop.pc = "post" => loop.nready = Counted
  /\ loop.pc = "accept" => loop.nready # 0
  /\ loop.pc = "end" /\ term # "yes" => loop.nready = 0

TableInv == TypeInv /\ ConnTable /\ Queue /\ Progress

\* What is between perpd and one of perp's tools.
ReplyTo(r) == Packet(done[r].type, r, done[r].v)
Asking(c, j) == /\ j \in 1 .. Len(script[c])
                /\ sock[c].up = Packet(script[c][j].type, <<c, j>>, "OK")
                /\ done[<<c, j>>] = Nothing
PerpdSide(c) ==
  /\ sock[c].up # <<>> => \E j \in 1 .. Args : Asking(c, j)
  /\ \A i \in Used : conns[i].fd = c =>
       \/ conns[i].state = "READING" /\ conns[i].pkt = <<>>
       \/ /\ conns[i].state = "WRITING" /\ conns[i].w = 0 /\ sock[c].up = <<>>
          /\ sock[c].down = <<>>
          /\ \E j \in 1 .. Args : done[<<c, j>>] \in Results /\ conns[i].pkt = ReplyTo(<<c, j>>)
Reading(c) == \A i \in Used : conns[i].fd = c => conns[i].state = "READING"
ClientSide(c) ==
  LET r == <<c, cl[c].k>> IN
  /\ cl[c].pc \in {"off", "write", "read"} =>
       /\ ~sock[c].shut /\ cl[c].buf = <<>>
       /\ \A j \in 1 .. Args : /\ cl[c].k <= j => told[<<c, j>>] = Nothing
                               /\ cl[c].k < j => done[<<c, j>>] = Nothing
  /\ cl[c].pc \in {"write", "read"} => sock[c].st # "none"
  /\ cl[c].pc \in {"closed", "killed"} => sock[c].down = <<>> /\ (sock[c].shut \/ sock[c].st = "none")
  /\ cl[c].pc \in {"off", "write"} =>
       /\ cl[c].w = 0 /\ done[r] = Nothing /\ sock[c].up = <<>> /\ sock[c].down = <<>>
       /\ Reading(c)
  /\ cl[c].pc = "read" =>
       \/ /\ Asking(c, cl[c].k) /\ sock[c].down = <<>> 
          /\ sock[c].st \in {"backlog", "open"}
       \/ /\ sock[c].up = <<>> /\ sock[c].down = <<>> /\ done[r] \in Results
          /\ \E i \in Used : conns[i].fd = c /\ conns[i].state = "WRITING" /\ conns[i].pkt = ReplyTo(r)
       \/ sock[c].up = <<>> /\ sock[c].down = ReplyTo(r) /\ done[r] \in Results /\ Reading(c)
       \/ Cut(c) /\ sock[c].up = <<>> /\ sock[c].down = <<>>
TalkInv == \A c \in Honest : PerpdSide(c) /\ ClientSide(c)

(***************************************************************************)
(* The operators.                                                          *)
(***************************************************************************)
LEMMA ScriptIs ==
  ASSUME script \in Scripts, NEW c \in Clients
  PROVE  /\ Len(script[c]) \in 1 .. Args
         /\ \A j \in 1 .. Len(script[c]) :
              script[c][j].type \in Types /\ script[c][j].sv \in Services /\ <<c, j>> \in RequestIds
<1>1. script[c] \in Seq([type : Types, sv : Services]) /\ Len(script[c]) \in 1 .. Args
  BY ScriptsAssumption
<1>2. ASSUME NEW j \in 1 .. Len(script[c])
      PROVE  script[c][j] \in [type : Types, sv : Services] /\ j \in 1 .. Args
  <2>1. script[c][j] \in [type : Types, sv : Services]
    BY <1>1, ElementOfSeq
  <2>2. j \in 1 .. Args
    BY <1>1, ArgsAssumption
  <2> QED BY <2>1, <2>2
<1> QED BY <1>1, <1>2 DEF RequestIds

LEMMA PacketIs ==
  ASSUME NEW t \in Types, NEW r \in RequestIds, NEW v \in Errors \cup Statuses
  PROVE  /\ Pkt_len(t) \in 2 .. 4
         /\ Packet(t, r, v) \in Seq(Unit) /\ Len(Packet(t, r, v)) = Pkt_len(t)
         /\ \A n \in 1 .. Pkt_len(t) : Packet(t, r, v)[n] = [type |-> t, r |-> r, v |-> v]
<1>1. Pkt_len(t) \in 2 .. 4
  BY DEF Pkt_len, Types
<1>2. [type |-> t, r |-> r, v |-> v] \in Unit
  BY DEF Unit
<1>3. Packet(t, r, v) \in [1 .. Pkt_len(t) -> Unit]
  BY <1>2 DEF Packet
<1> QED BY <1>1, <1>3 DEF Packet

LEMMA RequestIs ==
  ASSUME TypeInv, NEW c \in Clients
  PROVE  LET t == script[c][cl[c].k].type
         IN /\ t \in Types /\ Pkt_len(t) \in 2 .. 4 /\ <<c, cl[c].k>> \in RequestIds
            /\ cl[c].k \in 1 .. Len(script[c])
            /\ Request(c) \in Seq(Unit) /\ Len(Request(c)) = Pkt_len(t)
            /\ \A n \in 1 .. Pkt_len(t) : Request(c)[n] = [type |-> t, r |-> <<c, cl[c].k>>, v |-> "OK"]
<1>1. cl[c].k \in 1 .. Len(script[c])
  BY ScriptIs DEF TypeInv, ClientsOK, ClientOK, ClientType, RestOK
<1>2. script[c][cl[c].k].type \in Types /\ <<c, cl[c].k>> \in RequestIds
  BY <1>1, ScriptIs DEF TypeInv, RestOK
<1>3. "OK" \in Errors \cup Statuses
  BY DEF Errors
<1> QED BY <1>1, <1>2, <1>3, PacketIs DEF Request

LEMMA ExecIs ==
  ASSUME RestOK, NEW t \in Types, NEW s \in Services
  PROVE  Exec(t, s) \in Results
<1>1. sv[s] \in [known : BOOLEAN, cull : BOOLEAN, status : Statuses]
  BY DEF RestOK
<1>2. CASE t = "Q" /\ sv[s].known
  <2>1. Exec(t, s) = [type |-> "S", v |-> sv[s].status]
    BY <1>2 DEF Exec
  <2> QED BY <1>1, <2>1 DEF Results
<1>3. CASE ~(t = "Q" /\ sv[s].known)
  <2>1. \E e \in Errors : Exec(t, s) = [type |-> "E", v |-> e]
    BY <1>1, <1>3 DEF Exec, Errors
  <2> QED BY <2>1 DEF Results
<1> QED BY <1>2, <1>3

\* A result is not one of the other outcomes, and its reply is a packet.
LEMMA ResultIs ==
  ASSUME NEW v \in Results
  PROVE  /\ v # Nothing /\ v # Lost /\ v.type \in {"E", "S"} /\ v.type \in Types
         /\ v.v \in Errors \cup Statuses /\ v = [type |-> v.type, v |-> v.v]
<1>0. Nothing.type = "nothing" /\ Lost.type = "lost"
  BY DEF Nothing, Lost, Outcome
<1>1. \/ \E x \in Errors : v = [type |-> "E", v |-> x]
      \/ \E x \in Statuses : v = [type |-> "S", v |-> x]
  BY DEF Results
<1>2. CASE \E x \in Errors : v = [type |-> "E", v |-> x]
  <2>1. v.type = "E" /\ v.v \in Errors /\ v = [type |-> v.type, v |-> v.v]
    BY <1>2
  <2> QED BY <1>0, <2>1 DEF Types
<1>3. CASE \E x \in Statuses : v = [type |-> "S", v |-> x]
  <2>1. v.type = "S" /\ v.v \in Statuses /\ v = [type |-> v.type, v |-> v.v]
    BY <1>3
  <2> QED BY <1>0, <2>1 DEF Types
<1> QED BY <1>1, <1>2, <1>3

LEMMA ReplyIs ==
  ASSUME NEW r \in RequestIds, NEW v \in Results
  PROVE  LET pkt == Packet(v.type, r, v.v)
         IN /\ pkt \in Seq(Unit) /\ Len(pkt) = Pkt_len(v.type) /\ Len(pkt) \in 2 .. 4
            /\ \A n \in 1 .. Len(pkt) : pkt[n] = [type |-> v.type, r |-> r, v |-> v.v]
<1> DEFINE t == v.type
           w == v.v
<1>1. t \in Types /\ w \in Errors \cup Statuses
  BY ResultIs
<1> HIDE DEF t, w
<1>2. /\ Packet(t, r, w) \in Seq(Unit) /\ Len(Packet(t, r, w)) = Pkt_len(t) /\ Pkt_len(t) \in 2 .. 4
      /\ \A n \in 1 .. Pkt_len(t) : Packet(t, r, w)[n] = [type |-> t, r |-> r, v |-> w]
  BY <1>1, PacketIs
<1> QED BY <1>2 DEF t, w

LEMMA ReplyOK ==
  ASSUME NEW conn, ConnOK(conn), conn.fd \in Clients, NEW r \in RequestIds, NEW v \in Results,
         r[1] = conn.fd, r[2] \in 1 .. Len(script[conn.fd])
  PROVE  /\ ConnOK(Reply(conn, r, v)) /\ Reply(conn, r, v).fd = conn.fd
         /\ Reply(conn, r, v).state = "WRITING" /\ Reply(conn, r, v).w = 0
         /\ Reply(conn, r, v).pkt = Packet(v.type, r, v.v)
<1> DEFINE pkt == Packet(v.type, r, v.v)
<1>1. /\ pkt \in Seq(Unit) /\ Len(pkt) \in 2 .. 4
      /\ \A n \in 1 .. Len(pkt) : pkt[n] = [type |-> v.type, r |-> r, v |-> v.v]
  BY ReplyIs
<1> HIDE DEF pkt
<1>2. conn \in ConnType
  BY DEF ConnOK
<1>3. Reply(conn, r, v) = [conn EXCEPT !.state = "WRITING", !.pkt = pkt, !.w = 0]
  BY DEF Reply, pkt
<1>4. conn = [fd |-> conn.fd, state |-> conn.state, pkt |-> conn.pkt, w |-> conn.w, age |-> conn.age]
  BY <1>2 DEF ConnType
<1>5. Reply(conn, r, v) = [fd |-> conn.fd, state |-> "WRITING", pkt |-> pkt, w |-> 0, age |-> conn.age]
  BY <1>3, <1>4
<1>6. conn.age \in 0 .. ConnSecs + 1 /\ conn.fd \in Clients \cup {None} /\ 0 \in 0 .. 3
  BY <1>2 DEF ConnType
<1>7. Reply(conn, r, v) \in ConnType
  BY <1>1, <1>5, <1>6 DEF ConnType
<1>8. About(conn.fd, pkt)
  BY <1>1 DEF About
<1> DEFINE x == Reply(conn, r, v)
<1>9. x.fd = conn.fd /\ x.state = "WRITING" /\ x.pkt = pkt /\ x.w = 0 /\ x \in ConnType /\ x.fd # None
  BY <1>5, <1>7, RawAssumption
<1> HIDE DEF x
<1>10. x.w < Len(x.pkt) /\ Len(x.pkt) <= 4 /\ About(x.fd, x.pkt)
  <2>1. Len(pkt) \in 2 .. 4
    BY <1>1
  <2>2. \A n \in 2 .. 4 : 0 < n /\ n <= 4
    OBVIOUS
  <2>3. 0 < Len(pkt) /\ Len(pkt) <= 4
    BY <2>1, <2>2
  <2> QED BY <1>8, <1>9, <2>3
<1>11. ConnOK(x)
  BY <1>9, <1>10 DEF ConnOK
<1> QED BY <1>9, <1>11 DEF pkt, x

LEMMA FlipOK ==
  ASSUME RestOK, NEW s \in Services, sv' = [sv EXCEPT ![s].status = Flip(@)]
  PROVE  sv' \in [Services -> [known : BOOLEAN, cull : BOOLEAN, status : Statuses]]
<1>1. sv[s] \in [known : BOOLEAN, cull : BOOLEAN, status : Statuses]
  BY DEF RestOK
<1>2. Flip(sv[s].status) \in Statuses
  BY DEF Flip, Statuses
<1>3. [sv[s] EXCEPT !.status = Flip(@)] \in [known : BOOLEAN, cull : BOOLEAN, status : Statuses]
  BY <1>1, <1>2
<1> QED BY <1>3 DEF RestOK

(***************************************************************************)
(* What changes of one client, socket or connection do to the types.       *)
(***************************************************************************)
LEMMA SetClient ==
  ASSUME ClientsOK, script' = script, NEW c \in Clients, NEW p, ClientOK(c, p), cl' = [cl EXCEPT ![c] = p]
  PROVE  ClientsOK' /\ cl'[c] = p /\ \A d \in Clients \ {c} : cl'[d] = cl[d]
<1>1. p \in ClientType
  BY DEF ClientOK
<1>2. cl' \in [Clients -> ClientType] /\ cl'[c] = p /\ \A d \in Clients \ {c} : cl'[d] = cl[d]
  BY <1>1 DEF ClientsOK
<1> QED BY <1>2 DEF ClientsOK, ClientOK

LEMMA SetSock ==
  ASSUME SocksOK, script' = script, NEW c \in Clients, NEW s, SockOK(c, s), sock' = [sock EXCEPT ![c] = s]
  PROVE  SocksOK' /\ sock'[c] = s /\ \A d \in Clients \ {c} : sock'[d] = sock[d]
<1>1. s \in SockType
  BY DEF SockOK
<1>2. sock' \in [Clients -> SockType] /\ sock'[c] = s /\ \A d \in Clients \ {c} : sock'[d] = sock[d]
  BY <1>1 DEF SocksOK
<1> QED BY <1>2 DEF SocksOK, SockOK, About

LEMMA SetConn ==
  ASSUME ConnsOK, script' = script, NEW i \in 1 .. Len(conns), NEW conn, ConnOK(conn),
         conns' = [conns EXCEPT ![i] = conn]
  PROVE  /\ ConnsOK' /\ Len(conns') = Len(conns)
         /\ conns'[i] = conn /\ \A j \in 1 .. Len(conns) : j # i => conns'[j] = conns[j]
<1>1. conn \in ConnType
  BY DEF ConnOK
<1>2. /\ conns' \in Seq(ConnType) /\ Len(conns') = Len(conns)
      /\ conns'[i] = conn /\ \A j \in 1 .. Len(conns) : j # i => conns'[j] = conns[j]
  BY <1>1 DEF ConnsOK
<1> QED BY <1>2 DEF ConnsOK, ConnOK, About

LEMMA ClosedOK == ConnOK(Closed) /\ Closed.fd = None
  BY RawAssumption, BoundAssumption DEF ConnOK, Closed, ConnType, About

LEMMA ConnIs ==
  ASSUME NEW c \in Clients
  PROVE  ConnOK(Conn(c)) /\ Conn(c).fd = c /\ Conn(c).state = "READING" /\ Conn(c).pkt = <<>>
  BY RawAssumption, BoundAssumption DEF ConnOK, Conn, ConnType, About

\* The kernel closes: the bytes to perpd are lost, those from perpd are not.
LEMMA ShutIs ==
  ASSUME SocksOK, script' = script, NEW C, Shut(C)
  PROVE  /\ SocksOK'
         /\ \A c \in Clients :
              /\ c \notin C => sock'[c] = sock[c]
              /\ c \in C => /\ sock'[c].st \in {"eof", "reset"} /\ sock'[c].up = <<>>
                            /\ sock'[c].down = sock[c].down /\ sock'[c].shut = sock[c].shut
<1>1. ASSUME NEW c \in Clients
      PROVE  /\ SockOK(c, sock'[c])
             /\ c \notin C => sock'[c] = sock[c]
             /\ c \in C => /\ sock'[c].st \in {"eof", "reset"} /\ sock'[c].up = <<>>
                           /\ sock'[c].down = sock[c].down /\ sock'[c].shut = sock[c].shut
  <2>1. SockOK(c, sock[c]) /\ sock[c] \in SockType
    BY DEF SocksOK
  <2>2. CASE c \notin C
    BY <2>1, <2>2 DEF Shut
  <2>3. CASE c \in C
    <3>1. PICK st \in {"eof", "reset"} : sock'[c] = [sock[c] EXCEPT !.st = st, !.up = <<>>]
      BY <2>3 DEF Shut
    <3>2. /\ sock'[c] \in SockType /\ sock'[c].st \in {"eof", "reset"} /\ sock'[c].up = <<>>
          /\ sock'[c].down = sock[c].down /\ sock'[c].shut = sock[c].shut
      <4>1. <<>> \in Seq(Unit)
        OBVIOUS
      <4>2. sock[c] = [st |-> sock[c].st, shut |-> sock[c].shut, up |-> sock[c].up, down |-> sock[c].down]
        BY <2>1 DEF SockType
      <4>3. sock'[c] = [st |-> st, shut |-> sock[c].shut, up |-> <<>>, down |-> sock[c].down]
        BY <3>1, <4>2
      <4> QED BY <2>1, <4>1, <4>3 DEF SockType
    <3> QED BY <2>1, <2>3, <3>2, CapAssumption DEF SockOK, About
  <2> QED BY <2>2, <2>3
<1>2. sock' = [c \in Clients |-> sock'[c]]
  BY DEF Shut
<1> QED BY <1>1, <1>2 DEF SocksOK, SockOK, About

\* perpd_conn_close()
LEMMA CloseIs ==
  ASSUME TypeInv, script' = script, NEW i \in Used, Close(i)
  PROVE  /\ ConnsOK' /\ SocksOK' /\ Len(conns') = Len(conns)
         /\ conns'[i] = Closed /\ \A j \in 1 .. Len(conns) : j # i => conns'[j] = conns[j]
         /\ conns[i].fd \in Clients
         /\ \A c \in Clients :
              /\ c # conns[i].fd => sock'[c] = sock[c]
              /\ c = conns[i].fd => /\ sock'[c].st \in {"eof", "reset"} /\ sock'[c].up = <<>>
                                    /\ sock'[c].down = sock[c].down /\ sock'[c].shut = sock[c].shut
<1>1. i \in 1 .. Len(conns) /\ conns[i] \in ConnType /\ conns[i].fd \in Clients
  <2>1. i \in 1 .. Len(conns) /\ conns[i].fd # None /\ conns \in Seq(ConnType)
    BY DEF Used, TypeInv, ConnsOK
  <2>2. conns[i] \in ConnType
    BY <2>1, ElementOfSeq
  <2> QED BY <2>1, <2>2 DEF ConnType
<1>2. /\ ConnsOK' /\ Len(conns') = Len(conns)
      /\ conns'[i] = Closed /\ \A j \in 1 .. Len(conns) : j # i => conns'[j] = conns[j]
  BY <1>1, ClosedOK, SetConn DEF Close, TypeInv
<1> QED BY <1>1, <1>2, ShutIs DEF Close, TypeInv

LEMMA SpendOK ==
  ASSUME RestOK, NEW e \in Events, Spend(e)
  PROVE  budget' \in [Events -> Nat]
  BY DEF RestOK, Spend

LEMMA Unchanged ==
  ASSUME TypeInv, script' = script
  PROVE  /\ cl' = cl => ClientsOK'
         /\ sock' = sock => SocksOK'
         /\ conns' = conns => ConnsOK'
         /\ UNCHANGED <<backlog, sv, term, failing, budget, done, told>> => RestOK'
<1>1. ASSUME cl' = cl PROVE ClientsOK'
  BY <1>1 DEF TypeInv, ClientsOK, ClientOK
<1>2. ASSUME sock' = sock PROVE SocksOK'
  BY <1>2 DEF TypeInv, SocksOK, SockOK, About
<1>3. ASSUME conns' = conns PROVE ConnsOK'
  BY <1>3 DEF TypeInv, ConnsOK, ConnOK, About
<1>4. ASSUME UNCHANGED <<backlog, sv, term, failing, budget, done, told>> PROVE RestOK'
  BY <1>4 DEF TypeInv, RestOK
<1> QED BY <1>1, <1>2, <1>3, <1>4

\* What the types say of a connection that is in use.
LEMMA UsedIs ==
  ASSUME TypeInv, NEW i \in Used
  PROVE  /\ i \in 1 .. Len(conns) /\ conns[i] \in ConnType /\ ConnOK(conns[i])
         /\ conns[i].fd \in Clients /\ sock[conns[i].fd] \in SockType /\ SockOK(conns[i].fd, sock[conns[i].fd])
<1>1. i \in 1 .. Len(conns) /\ conns[i].fd # None /\ conns \in Seq(ConnType) /\ ConnOK(conns[i])
  BY DEF Used, TypeInv, ConnsOK
<1>2. conns[i] \in ConnType
  BY <1>1, ElementOfSeq
<1>3. conns[i].fd \in Clients
  BY <1>1, <1>2 DEF ConnType
<1> QED BY <1>1, <1>2, <1>3 DEF TypeInv, SocksOK

(***************************************************************************)
(* The types, action by action.  The type of loop comes with Progress.     *)
(***************************************************************************)
Typed == ClientsOK /\ SocksOK /\ ConnsOK /\ RestOK

\* Closing stale connections and culling.
StaleOnes == {i \in 1 .. Len(conns) : Stale(conns[i])}
LEMMA TopIs ==
  ASSUME TypeInv, ConnTable, Top
  PROVE  /\ Typed' /\ Distinct(conns') /\ Len(conns') <= Len(conns)
         /\ \A j \in 1 .. Len(conns') :
              conns'[j].fd # None /\ \E m \in Used \ StaleOnes : conns'[j] = conns[m]
         /\ \A m \in Used \ StaleOnes : \E j \in 1 .. Len(conns') : conns'[j] = conns[m]
         /\ \A c \in Clients :
              /\ c \notin {conns[i].fd : i \in StaleOnes} => sock'[c] = sock[c]
              /\ c \in {conns[i].fd : i \in StaleOnes} =>
                   /\ sock'[c].st \in {"eof", "reset"} /\ sock'[c].up = <<>>
                   /\ sock'[c].down = sock[c].down /\ sock'[c].shut = sock[c].shut
<1> DEFINE table == [i \in 1 .. Len(conns) |-> IF i \in StaleOnes THEN Closed ELSE conns[i]]
<1>1. conns' = Culled(table) /\ Shut({conns[i].fd : i \in StaleOnes}) /\ script' = script
  BY DEF Top, StaleOnes
<1>2. conns \in Seq(ConnType) /\ Len(conns) \in Nat
      /\ \A i \in 1 .. Len(conns) : conns[i] \in ConnType /\ ConnOK(conns[i])
  BY ElementOfSeq DEF TypeInv, ConnsOK
<1>3. Closed \in ConnType /\ Closed.fd = None
  BY ClosedOK DEF ConnOK
<1>4. table \in [1 .. Len(conns) -> ConnType]
  BY <1>2, <1>3
<1>5. /\ table \in Seq(ConnType) /\ Len(table) = Len(conns)
      /\ \A i \in 1 .. Len(conns) : table[i] = IF i \in StaleOnes THEN Closed ELSE conns[i]
  BY <1>2, <1>4
<1> HIDE DEF table
<1>6. Distinct(conns)
  BY DEF ConnTable, Distinct
<1>7. Distinct(table)
  BY <1>3, <1>5, <1>6 DEF Distinct
<1> DEFINE s == Culled(table)
<1>8. /\ s \in Seq(ConnType) /\ Len(s) <= Len(table) /\ Distinct(s)
      /\ \A j \in 1 .. Len(s) : s[j].fd # None /\ \E m \in 1 .. Len(table) : table[m] = s[j]
      /\ \A m \in 1 .. Len(table) : table[m].fd # None => \E j \in 1 .. Len(s) : table[m] = s[j]
  BY <1>5, <1>7, CulledIs
<1> HIDE DEF s
<1>9. conns' = s
  BY <1>1 DEF s
<1>10. ASSUME NEW j \in 1 .. Len(s) PROVE s[j].fd # None /\ \E m \in Used \ StaleOnes : s[j] = conns[m]
  <2>1. PICK m \in 1 .. Len(conns) : table[m] = s[j]
    BY <1>5, <1>8
  <2>2. m \notin StaleOnes /\ s[j] = conns[m] /\ s[j].fd # None
    BY <1>3, <1>5, <1>8, <2>1
  <2> QED BY <2>2 DEF Used
<1>11. ASSUME NEW m \in Used \ StaleOnes PROVE \E j \in 1 .. Len(s) : s[j] = conns[m]
  <2>1. m \in 1 .. Len(conns) /\ table[m] = conns[m] /\ conns[m].fd # None
    BY <1>5 DEF Used
  <2> QED BY <1>5, <1>8, <2>1
<1>12. ConnsOK'
  <2>1. \A j \in 1 .. Len(s) : ConnOK(s[j])
    BY <1>2, <1>10 DEF Used
  <2> QED BY <1>1, <1>8, <1>9, <2>1 DEF ConnsOK, ConnOK, About
<1>13. ClientsOK' /\ RestOK'
  BY <1>1, Unchanged DEF Top
<1>14. /\ SocksOK'
       /\ \A c \in Clients :
            /\ c \notin {conns[i].fd : i \in StaleOnes} => sock'[c] = sock[c]
            /\ c \in {conns[i].fd : i \in StaleOnes} =>
                 /\ sock'[c].st \in {"eof", "reset"} /\ sock'[c].up = <<>>
                 /\ sock'[c].down = sock[c].down /\ sock'[c].shut = sock[c].shut
  BY <1>1, ShutIs DEF TypeInv
<1>15. Typed'
  BY <1>12, <1>13, <1>14 DEF Typed
<1> QED BY <1>5, <1>8, <1>9, <1>10, <1>11, <1>14, <1>15

LEMMA PollTypes ==
  ASSUME TypeInv, Poll
  PROVE  Typed'
<1>1. UNCHANGED <<script, cl, sock, conns>>
  BY DEF Poll
<1>2. budget' \in [Events -> Nat]
  BY SpendOK DEF Poll, TypeInv, RestOK, Events
<1>3. RestOK'
  BY <1>1, <1>2 DEF Poll, TypeInv, RestOK
<1> QED BY <1>1, <1>3, Unchanged DEF Typed

LEMMA PostTypes ==
  ASSUME TypeInv, Post
  PROVE  Typed'
<1>1. script' = script /\ cl' = cl
  BY DEF Post
<1>2. budget' \in [Events -> Nat] /\ failing' \in BOOLEAN
  BY SpendOK DEF Post, TypeInv, RestOK, Events
<1>3. CASE term = "flag"
  <2>1. term' = "yes" /\ conns' = <<>> /\ backlog' = <<>> /\ Shut(Dumped)
    BY <1>3 DEF Post
  <2>2. SocksOK'
    BY <1>1, <2>1, ShutIs DEF TypeInv
  <2>3. ConnsOK'
    BY <2>1 DEF ConnsOK
  <2>4. RestOK'
    BY <1>1, <1>2, <2>1 DEF Post, TypeInv, RestOK
  <2> QED BY <1>1, <2>2, <2>3, <2>4, Unchanged DEF Typed
<1>4. CASE term # "flag"
  <2>1. UNCHANGED <<term, conns, backlog, sock>>
    BY <1>4 DEF Post
  <2>2. RestOK'
    BY <1>1, <1>2, <2>1 DEF Post, TypeInv, RestOK
  <2> QED BY <1>1, <2>1, <2>2, Unchanged DEF Typed
<1> QED BY <1>3, <1>4

\* The steps of the loop that change nothing but where it is.
LoopStep == Pass \/ Passed \/ Serve \/ End
LEMMA LoopTypes ==
  ASSUME TypeInv, LoopStep
  PROVE  Typed'
<1>1. UNCHANGED <<script, cl, sock, backlog, conns, sv, term, failing, budget, done, told>>
  BY DEF LoopStep, Pass, Passed, Serve, End
<1> QED BY <1>1, Unchanged DEF Typed

\* accept(): nothing, a refusal, or a new connection.
AcceptNothing == UNCHANGED <<conns, sock, backlog>>
AcceptRefused == /\ backlog # <<>> /\ backlog' = Tail(backlog)
                 /\ UNCHANGED conns /\ Shut({Head(backlog)})
AcceptTaken == /\ backlog # <<>> /\ backlog' = Tail(backlog) /\ Len(conns) < ConnMax
               /\ conns' = Append(conns, Conn(Head(backlog)))
               /\ sock' = [sock EXCEPT ![Head(backlog)].st = "open"]
LEMMA AcceptIs ==
  ASSUME TypeInv, Progress, Accept
  PROVE  /\ Typed'
         /\ AcceptNothing \/ (term # "yes" /\ (AcceptRefused \/ AcceptTaken))
<1>1. script' = script /\ cl' = cl /\ budget' \in [Events -> Nat]
  BY SpendOK DEF Accept, TypeInv, RestOK, Events
<1>2. AcceptNothing \/ (term # "yes" /\ (AcceptRefused \/ AcceptTaken))
  <2>1. loop.listen /\ term # "yes" => backlog # <<>>
    BY DEF Accept, Progress
  <2>2. \/ UNCHANGED <<conns, sock, backlog>>
        \/ /\ loop.listen /\ term # "yes" /\ backlog' = Tail(backlog)
           /\ \/ UNCHANGED conns /\ Shut({Head(backlog)})
              \/ /\ Len(conns) < ConnMax
                 /\ conns' = Append(conns, Conn(Head(backlog)))
                 /\ sock' = [sock EXCEPT ![Head(backlog)].st = "open"]
    BY DEF Accept, TooMany
  <2> QED BY <2>1, <2>2 DEF AcceptNothing, AcceptRefused, AcceptTaken
<1>3. backlog' \in Seq(Clients)
  <2>1. backlog' = backlog \/ (backlog # <<>> /\ backlog' = Tail(backlog))
    BY <1>2 DEF AcceptNothing, AcceptRefused, AcceptTaken
  <2>2. backlog \in Seq(Clients)
    BY DEF TypeInv, RestOK
  <2>3. backlog # <<>> => Tail(backlog) \in Seq(Clients)
    BY <2>2, HeadTailProperties
  <2> QED BY <2>1, <2>2, <2>3
<1>4. RestOK'
  BY <1>1, <1>3 DEF Accept, TypeInv, RestOK
<1>5. SocksOK' /\ ConnsOK'
  <2>1. CASE AcceptNothing
    BY <1>1, <2>1, Unchanged DEF AcceptNothing
  <2>2. CASE AcceptRefused
    BY <1>1, <2>2, Unchanged, ShutIs DEF AcceptRefused, TypeInv
  <2>3. CASE AcceptTaken
    <3> DEFINE h == Head(backlog)
    <3>1. h \in Clients
      BY <2>3, HeadTailProperties DEF AcceptTaken, TypeInv, RestOK
    <3>2. sock[h] \in SockType /\ SockOK(h, sock[h])
      BY <3>1 DEF TypeInv, SocksOK
    <3>3. sock' = [sock EXCEPT ![h] = [sock[h] EXCEPT !.st = "open"]]
      BY <2>3 DEF AcceptTaken
    <3>4. [sock[h] EXCEPT !.st = "open"] \in SockType
      BY <3>2 DEF SockType
    <3>5. SockOK(h, [sock[h] EXCEPT !.st = "open"])
      BY <3>2, <3>4 DEF SockOK, SockType
    <3>6. SocksOK'
      BY <1>1, <3>1, <3>3, <3>5, SetSock DEF TypeInv
    <3>7. ConnOK(Conn(h)) /\ Conn(h) \in ConnType
      BY <3>1, ConnIs DEF ConnOK
    <3>8. /\ conns' \in Seq(ConnType) /\ Len(conns') = Len(conns) + 1
          /\ \A j \in 1 .. Len(conns) : conns'[j] = conns[j]
          /\ conns'[Len(conns) + 1] = Conn(h)
      BY <2>3, <3>7, AppendProperties DEF AcceptTaken, TypeInv, ConnsOK
    <3>9. \A j \in 1 .. Len(conns') : ConnOK(conns'[j])
      BY <3>7, <3>8 DEF TypeInv, ConnsOK
    <3>10. ConnsOK'
      BY <1>1, <3>8, <3>9 DEF ConnsOK, ConnOK, About
    <3> QED BY <3>6, <3>10
  <2> QED BY <1>2, <2>1, <2>2, <2>3
<1> QED BY <1>1, <1>2, <1>4, <1>5, Unchanged DEF Typed

\* A connection that hung up.
LEMMA HupTypes ==
  ASSUME TypeInv, CloseHup, loop.i \in Used
  PROVE  Typed'
<1>1. script' = script /\ UNCHANGED <<cl, backlog, sv, term, failing, budget, done, told>> /\ Close(loop.i)
  BY DEF CloseHup
<1> QED BY <1>1, CloseIs, Unchanged DEF Typed

(***************************************************************************)
(* perpd_conn_read(): too much, too little, or a request.                  *)
(***************************************************************************)
Got == conns[loop.i].pkt \o sock[conns[loop.i].fd].up
Taken == [sock[conns[loop.i].fd] EXCEPT !.up = <<>>]
ReadOver == /\ conns' = [conns EXCEPT ![loop.i] = Closed]
            /\ sock' = [sock EXCEPT ![conns[loop.i].fd] = [Taken EXCEPT !.st = "eof"]]
            /\ NextSlot /\ UNCHANGED <<sv, done>>
ReadPart == /\ conns' = [conns EXCEPT ![loop.i] = [conns[loop.i] EXCEPT !.pkt = Got]]
            /\ sock' = [sock EXCEPT ![conns[loop.i].fd] = Taken]
            /\ UNCHANGED <<loop, sv, done>>
ReadWhole ==
  LET r == Got[1].r
      req == script[r[1]][r[2]]
      result == Exec(Got[1].type, req.sv)
  IN /\ Len(Got) = To_read(Got)
     /\ conns' = [conns EXCEPT ![loop.i] = Reply(conns[loop.i], r, result)]
     /\ sock' = [sock EXCEPT ![conns[loop.i].fd] = Taken]
     /\ done' = [done EXCEPT ![r] = IF @ = Nothing THEN result ELSE Outcome("twice")]
     /\ sv' = IF Got[1].type = "C" /\ result.v = "OK" THEN [sv EXCEPT ![req.sv].status = Flip(@)] ELSE sv
     /\ NextSlot

LEMMA AboutConcat ==
  ASSUME NEW c, NEW s \in Seq(Unit), NEW t \in Seq(Unit), About(c, s), About(c, t), s \o t # <<>>
  PROVE  /\ s \o t \in Seq(Unit) /\ Len(s \o t) \in Nat \ {0} /\ About(c, s \o t) /\ (s \o t)[1] \in Unit
<1> DEFINE u == s \o t
<1>1. u \in Seq(Unit) /\ Len(u) = Len(s) + Len(t)
      /\ \A n \in 1 .. Len(s) + Len(t) : u[n] = IF n <= Len(s) THEN s[n] ELSE t[n - Len(s)]
  BY ConcatProperties
<1>2. Len(s) \in Nat /\ Len(t) \in Nat /\ Len(u) \in Nat \ {0}
  BY <1>1, EmptySeq
<1> HIDE DEF u
<1>3. ASSUME NEW n \in 1 .. Len(u) PROVE u[n].r[1] = c /\ u[n].r[2] \in 1 .. Len(script[c])
  <2>1. CASE n <= Len(s)
    BY <1>1, <1>2, <2>1 DEF About
  <2>2. CASE n > Len(s)
    <3>1. n - Len(s) \in 1 .. Len(t) /\ u[n] = t[n - Len(s)]
      BY <1>1, <1>2, <2>2
    <3> QED BY <3>1 DEF About
  <2> QED BY <1>2, <2>1, <2>2
<1>4. u[1] \in Unit
  BY <1>1, <1>2, ElementOfSeq
<1> QED BY <1>1, <1>2, <1>3, <1>4 DEF About, u

\* What pkt_read() has after the read.
LEMMA GotIs ==
  ASSUME TypeInv, loop.i \in Used, sock[conns[loop.i].fd].up # <<>>
  PROVE  /\ Got \in Seq(Unit) /\ Len(Got) \in Nat \ {0} /\ About(conns[loop.i].fd, Got)
         /\ Got[1] \in Unit /\ To_read(Got) \in 2 .. 4
         /\ SockOK(conns[loop.i].fd, Taken) /\ Taken.st = sock[conns[loop.i].fd].st /\ Taken.up = <<>>
         /\ Taken.down = sock[conns[loop.i].fd].down /\ Taken.shut = sock[conns[loop.i].fd].shut
<1> DEFINE conn == conns[loop.i]
           c == conn.fd
<1>1. /\ conn \in ConnType /\ c \in Clients /\ sock[c] \in SockType /\ SockOK(c, sock[c])
      /\ c # None /\ About(c, conn.pkt)
  BY UsedIs, RawAssumption DEF ConnOK
<1> HIDE DEF conn
<1>2. /\ conn.pkt \in Seq(Unit) /\ sock[c].up \in Seq(Unit) /\ Len(sock[c].up) \in Nat \ {0}
      /\ Len(conn.pkt) \in Nat
  <2>1. conn.pkt \in Seq(Unit) /\ sock[c].up \in Seq(Unit)
    BY <1>1 DEF ConnType, SockType
  <2>2. sock[c].up # <<>>
    BY DEF conn
  <2> QED BY <2>1, <2>2, EmptySeq
<1>3. conn.pkt \o sock[c].up # <<>>
  BY <1>2, ConcatEqualIffEmpty
<1>5. Got \in Seq(Unit) /\ Len(Got) \in Nat \ {0} /\ About(c, Got) /\ Got[1] \in Unit
  BY <1>1, <1>2, <1>3, AboutConcat DEF Got, conn, SockOK
<1>6. To_read(Got) \in 2 .. 4
  <2>1. Got[1].type \in Types
    BY <1>5 DEF Unit
  <2>2. Pkt_len(Got[1].type) \in 2 .. 4
    BY <2>1 DEF Pkt_len, Types
  <2> QED BY <2>2 DEF To_read, Header
<1>7. /\ SockOK(c, Taken) /\ Taken.st = sock[c].st /\ Taken.up = <<>>
      /\ Taken.down = sock[c].down /\ Taken.shut = sock[c].shut
  <2>1. Taken = [sock[c] EXCEPT !.up = <<>>]
    BY DEF Taken, conn
  <2>2. sock[c] = [st |-> sock[c].st, shut |-> sock[c].shut, up |-> sock[c].up, down |-> sock[c].down]
    BY <1>1 DEF SockType
  <2>3. Taken = [st |-> sock[c].st, shut |-> sock[c].shut, up |-> <<>>, down |-> sock[c].down]
    BY <2>1, <2>2
  <2>4. <<>> \in Seq(Unit) /\ Len(<<>>) = 0
    OBVIOUS
  <2>5. Taken \in SockType
    BY <1>1, <2>3, <2>4 DEF SockType
  <2> QED BY <1>1, <2>3, <2>4, <2>5, CapAssumption DEF SockOK, About
<1> QED BY <1>5, <1>6, <1>7 DEF conn

LEMMA ReadIs ==
  ASSUME TypeInv, Progress, ReadMore, loop.i \in Used
  PROVE  /\ Typed' /\ sock[conns[loop.i].fd].up # <<>>
         /\ ReadOver \/ ReadPart \/ ReadWhole
         /\ Got[1].r \in RequestIds /\ Got[1].r[1] = conns[loop.i].fd
         /\ Exec(Got[1].type, script[Got[1].r[1]][Got[1].r[2]].sv) \in Results
<1> DEFINE conn == conns[loop.i]
           c == conn.fd
<1>1. /\ loop.i \in 1 .. Len(conns) /\ conn \in ConnType /\ ConnOK(conn)
      /\ c \in Clients /\ sock[c] \in SockType /\ SockOK(c, sock[c]) /\ c # None
  BY UsedIs, RawAssumption
<1>2. sock[c].up # <<>>
  BY DEF ReadMore
<1>3. /\ Got \in Seq(Unit) /\ Len(Got) \in Nat \ {0} /\ About(c, Got)
      /\ Got[1] \in Unit /\ To_read(Got) \in 2 .. 4
      /\ SockOK(c, Taken) /\ Taken.st = sock[c].st /\ Taken.up = <<>>
      /\ Taken.down = sock[c].down /\ Taken.shut = sock[c].shut
  BY <1>2, GotIs
<1>4. ReadOver \/ ReadPart \/ ReadWhole
  <2>1. Overrun(Got) \/ Len(Got) < To_read(Got) \/ Len(Got) = To_read(Got)
    BY <1>3 DEF Overrun
  <2>2. ASSUME Overrun(Got) PROVE ReadOver
    BY <1>1, <2>2 DEF ReadMore, ReadOver, Got, Taken, TypeInv, SocksOK
  <2>3. ASSUME ~Overrun(Got), Len(Got) < To_read(Got) PROVE ReadPart
    BY <2>3 DEF ReadMore, ReadPart, Got, Taken
  <2>4. ASSUME ~Overrun(Got), Len(Got) = To_read(Got) PROVE ReadWhole
    <3>1. ~(Len(Got) < To_read(Got))
      BY <1>3, <2>4
    <3> QED BY <2>4, <3>1 DEF ReadMore, ReadWhole, Got, Taken
  <2> QED BY <2>1, <2>2, <2>3, <2>4
<1>5. script' = script /\ UNCHANGED <<cl, backlog, term, failing, budget, told>>
  BY DEF ReadMore
<1>6. ASSUME ReadOver PROVE Typed'
  <2>1. ConnsOK'
    BY <1>1, <1>5, <1>6, ClosedOK, SetConn DEF ReadOver, TypeInv
  <2>2. SockOK(c, [Taken EXCEPT !.st = "eof"])
    BY <1>3 DEF SockOK, SockType
  <2>3. SocksOK'
    BY <1>1, <1>5, <1>6, <2>2, SetSock DEF ReadOver, TypeInv
  <2>4. ClientsOK' /\ RestOK'
    BY <1>5, <1>6, Unchanged DEF ReadOver
  <2> QED BY <2>1, <2>3, <2>4 DEF Typed
<1>7. ASSUME ReadPart PROVE Typed'
  <2>1. ConnOK([conn EXCEPT !.pkt = Got])
    <3>1. conn.state = "READING"
      BY DEF ReadMore, AtSlot, Progress
    <3> QED BY <1>1, <1>3, <3>1 DEF ConnOK, ConnType
  <2>2. ConnsOK'
    BY <1>1, <1>5, <1>7, <2>1, SetConn DEF ReadPart, TypeInv
  <2>3. SocksOK'
    BY <1>1, <1>3, <1>5, <1>7, SetSock DEF ReadPart, TypeInv
  <2>4. ClientsOK' /\ RestOK'
    BY <1>5, <1>7, Unchanged DEF ReadPart
  <2> QED BY <2>2, <2>3, <2>4 DEF Typed
<1> DEFINE r == Got[1].r
           req == script[r[1]][r[2]]
           result == Exec(Got[1].type, req.sv)
<1>8. /\ r \in RequestIds /\ r[1] = c /\ r[2] \in 1 .. Len(script[c])
      /\ Got[1].type \in Types /\ req.sv \in Services /\ result \in Results
  <2>1. r \in RequestIds /\ Got[1].type \in Types
    BY <1>3 DEF Unit
  <2>2. r[1] = c /\ r[2] \in 1 .. Len(script[c])
    BY <1>3 DEF About
  <2>3. req.sv \in Services
    BY <1>1, <2>2, ScriptIs DEF TypeInv, RestOK
  <2> QED BY <2>1, <2>2, <2>3, ExecIs DEF TypeInv
<1>9. ASSUME ReadWhole PROVE Typed'
  <2>3. ConnOK(Reply(conn, r, result))
    <3> HIDE DEF r, result, conn
    <3> QED BY <1>1, <1>8, ReplyOK
  <2>4. ConnsOK'
    BY <1>1, <1>5, <1>9, <2>3, SetConn DEF ReadWhole, TypeInv
  <2>5. SocksOK'
    BY <1>1, <1>3, <1>5, <1>9, SetSock DEF ReadWhole, TypeInv
  <2>6. sv' \in [Services -> [known : BOOLEAN, cull : BOOLEAN, status : Statuses]]
    <3>1. sv' = sv \/ sv' = [sv EXCEPT ![req.sv].status = Flip(@)]
      BY <1>9 DEF ReadWhole
    <3> HIDE DEF req
    <3> QED BY <1>8, <3>1, FlipOK DEF TypeInv, RestOK
  <2>7. done' = [x \in RequestIds |-> done'[x]]
    BY <1>9 DEF ReadWhole, TypeInv, RestOK
  <2>8. RestOK'
    BY <1>5, <2>6, <2>7 DEF TypeInv, RestOK
  <2> QED BY <1>5, <2>4, <2>5, <2>8, Unchanged DEF Typed
<1> QED BY <1>2, <1>4, <1>6, <1>7, <1>8, <1>9

LEMMA EmptyIs ==
  ASSUME TypeInv, ReadEmpty, loop.i \in Used
  PROVE  /\ Typed' /\ NextSlot
         /\ Close(loop.i) \/ UNCHANGED <<conns, sock>>
<1>1. script' = script /\ UNCHANGED <<cl, backlog, sv, term, failing, budget, done, told>> /\ NextSlot
  BY DEF ReadEmpty
<1>2. Close(loop.i) \/ UNCHANGED <<conns, sock>>
  BY DEF ReadEmpty
<1> QED BY <1>1, <1>2, CloseIs, Unchanged DEF Typed

(***************************************************************************)
(* perpd_conn_write().                                                     *)
(***************************************************************************)
\* Part of a packet: k units of s after the first m.
LEMMA PartIs ==
  ASSUME NEW s \in Seq(Unit), NEW m \in Nat, NEW k \in Nat, m + k <= Len(s)
  PROVE  /\ SubSeq(s, m + 1, m + k) \in Seq(Unit) /\ Len(SubSeq(s, m + 1, m + k)) = k
         /\ \A n \in 1 .. k : SubSeq(s, m + 1, m + k)[n] = s[m + n]
<1>1. Len(s) \in Nat /\ \A n \in (m + 1) .. (m + k) : s[n] \in Unit
  BY ElementOfSeq
<1> DEFINE a == m + 1
           b == m + k
<1>2. a \in Int /\ b \in Int /\ b - a + 1 = k /\ (k # 0 => a <= b) /\ (k = 0 => ~(a <= b))
  OBVIOUS
<1>3. \A n \in a .. b : s[n] \in Unit
  BY <1>1
<1> HIDE DEF a, b
<1>4. /\ SubSeq(s, a, b) \in Seq(Unit)
      /\ Len(SubSeq(s, a, b)) = IF a <= b THEN b - a + 1 ELSE 0
      /\ \A n \in 1 .. b - a + 1 : SubSeq(s, a, b)[n] = s[a + n - 1]
  BY <1>2, <1>3, SubSeqProperties
<1>5. \A n \in 1 .. k : a + n - 1 = m + n
  BY DEF a
<1> QED BY <1>2, <1>4, <1>5 DEF a, b

LEMMA FitIs ==
  ASSUME NEW cap \in Nat, NEW n \in Nat, NEW len \in Nat, NEW w \in Nat, n <= cap, w <= len
  PROVE  LET k == Fit(cap - n, len - w)
         IN k \in 0 .. len - w /\ k <= cap - n /\ w + k <= len /\ (len <= cap - n => w + k = len)
  BY DEF Fit

\* All of a packet.
LEMMA WholeIs ==
  ASSUME NEW s \in Seq(Unit)
  PROVE  SubSeq(s, 1, Len(s)) = s
<1>1. Len(s) \in Nat /\ 0 + Len(s) = Len(s) /\ 0 + 1 = 1
  OBVIOUS
<1>2. /\ SubSeq(s, 1, Len(s)) \in Seq(Unit) /\ Len(SubSeq(s, 1, Len(s))) = Len(s)
      /\ \A n \in 1 .. Len(s) : SubSeq(s, 1, Len(s))[n] = s[0 + n]
  BY <1>1, PartIs
<1>3. \A n \in 1 .. Len(s) : SubSeq(s, 1, Len(s))[n] = s[n]
  BY <1>2
<1> QED BY <1>2, <1>3, SeqEqual

\* A socket, with what is in it replaced.
LEMMA SockIs ==
  ASSUME NEW c \in Clients, SockOK(c, sock[c]), NEW shut \in BOOLEAN, NEW up \in Seq(Unit),
         NEW down \in Seq(Unit), Len(up) <= Cap, Len(down) <= Cap, About(c, up)
  PROVE  /\ sock[c] = [st |-> sock[c].st, shut |-> sock[c].shut, up |-> sock[c].up, down |-> sock[c].down]
         /\ SockOK(c, [st |-> sock[c].st, shut |-> shut, up |-> up, down |-> down])
<1>1. sock[c] \in SockType
  BY DEF SockOK
<1>2. sock[c] = [st |-> sock[c].st, shut |-> sock[c].shut, up |-> sock[c].up, down |-> sock[c].down]
  BY <1>1 DEF SockType
<1> DEFINE s == [st |-> sock[c].st, shut |-> shut, up |-> up, down |-> down]
<1>3. s \in SockType /\ s.up = up /\ s.down = down
  BY <1>1 DEF SockType
<1> HIDE DEF s
<1>4. SockOK(c, s)
  BY <1>3 DEF SockOK
<1> QED BY <1>2, <1>4 DEF s

\* What pkt_write() does: k more units of the reply.
Wrote(conn, k) == IF k = Len(conn.pkt) - conn.w THEN Restart(conn) ELSE [conn EXCEPT !.w = @ + k]
WriteSome(k) ==
  LET conn == conns[loop.i]
      c == conn.fd
      s == sock[c]
  IN /\ k = Fit(Cap - Len(s.down), Len(conn.pkt) - conn.w)
     /\ conns' = [conns EXCEPT ![loop.i] = Wrote(conn, k)]
     /\ sock' = [sock EXCEPT ![c] = [st |-> s.st, shut |-> s.shut, up |-> s.up,
                                     down |-> s.down \o SubSeq(conn.pkt, conn.w + 1, conn.w + k)]]
LEMMA WroteOK ==
  ASSUME NEW conn, ConnOK(conn), conn.fd \in Clients, conn.state = "WRITING", NEW k \in 0 .. Len(conn.pkt) - conn.w
  PROVE  ConnOK(Wrote(conn, k)) /\ Wrote(conn, k).fd = conn.fd
<1>1. /\ conn \in ConnType /\ conn.fd # None /\ About(conn.fd, conn.pkt)
      /\ conn.w < Len(conn.pkt) /\ Len(conn.pkt) <= 4 /\ conn.w \in 0 .. 3 /\ Len(conn.pkt) \in Nat
      /\ conn.fd \in Clients \cup {None} /\ conn.age \in 0 .. ConnSecs + 1 /\ conn.pkt \in Seq(Unit)
  BY RawAssumption DEF ConnOK, ConnType
<1>2. CASE k = Len(conn.pkt) - conn.w
  BY <1>2, ConnIs DEF Wrote, Restart
<1>3. CASE k # Len(conn.pkt) - conn.w
  <2> DEFINE x == Wrote(conn, k)
  <2>1. conn = [fd |-> conn.fd, state |-> "WRITING", pkt |-> conn.pkt, w |-> conn.w, age |-> conn.age]
    BY <1>1 DEF ConnType
  <2>2. x = [conn EXCEPT !.w = conn.w + k]
    BY <1>3 DEF Wrote
  <2>3. x = [fd |-> conn.fd, state |-> "WRITING", pkt |-> conn.pkt, w |-> conn.w + k, age |-> conn.age]
    BY <2>1, <2>2
  <2>4. conn.w + k \in 0 .. 3 /\ conn.w + k < Len(conn.pkt)
    BY <1>1, <1>3
  <2> HIDE DEF x
  <2>5. x \in ConnType
    BY <1>1, <2>3, <2>4 DEF ConnType
  <2>6. x.fd = conn.fd /\ x.state = "WRITING" /\ x.pkt = conn.pkt /\ x.w = conn.w + k
    BY <2>3
  <2>7. ConnOK(x)
    BY <1>1, <2>4, <2>5, <2>6 DEF ConnOK
  <2> QED BY <2>6, <2>7 DEF x
<1> QED BY <1>2, <1>3

LEMMA WriteIs ==
  ASSUME TypeInv, Progress, Write, loop.i \in Used
  PROVE  /\ Typed' /\ NextSlot
         /\ \/ sock[conns[loop.i].fd].shut /\ Close(loop.i)
            \/ /\ ~sock[conns[loop.i].fd].shut
               /\ \E k \in 0 .. Len(conns[loop.i].pkt) - conns[loop.i].w : WriteSome(k)
<1> DEFINE conn == conns[loop.i]
           c == conn.fd
           left == Len(conn.pkt) - conn.w
           k == Fit(Cap - Len(sock[c].down), left)
<1>1. script' = script /\ UNCHANGED <<cl, backlog, sv, term, failing, budget, done, told>> /\ NextSlot
  BY DEF Write
<1>2. /\ loop.i \in 1 .. Len(conns) /\ conn \in ConnType /\ ConnOK(conn)
      /\ c \in Clients /\ sock[c] \in SockType /\ SockOK(c, sock[c]) /\ c # None
  BY UsedIs, RawAssumption
<1>3. CASE sock[c].shut
  <2>1. Close(loop.i)
    BY <1>3 DEF Write
  <2> QED BY <1>1, <1>3, <2>1, CloseIs, Unchanged DEF Typed
<1>4. CASE ~sock[c].shut
  <2>1. conn.state = "WRITING"
    BY DEF Write, AtSlot, Progress
  <2>2. /\ conn.w < Len(conn.pkt) /\ Len(conn.pkt) <= 4 /\ conn.w \in 0 .. 3 /\ conn.pkt \in Seq(Unit)
        /\ Len(conn.pkt) \in Nat
    BY <1>2, <2>1 DEF ConnOK, ConnType
  <2>3. /\ sock[c].down \in Seq(Unit) /\ Len(sock[c].down) \in Nat /\ Len(sock[c].down) <= Cap
        /\ sock[c].up \in Seq(Unit) /\ Len(sock[c].up) <= Cap /\ About(c, sock[c].up) /\ sock[c].shut \in BOOLEAN
    BY <1>2 DEF SockOK, SockType
  <2>4. k \in 0 .. left /\ k <= Cap - Len(sock[c].down) /\ conn.w + k <= Len(conn.pkt)
    <3>1. conn.w \in Nat /\ conn.w <= Len(conn.pkt) /\ Cap \in Nat
      BY <2>2, CapAssumption
    <3> DEFINE n == Len(sock[c].down)
               len == Len(conn.pkt)
               w == conn.w
    <3>2. n \in Nat /\ len \in Nat /\ w \in Nat /\ n <= Cap /\ w <= len /\ k = Fit(Cap - n, len - w) /\ left = len - w
      BY <2>2, <2>3, <3>1
    <3> HIDE DEF n, len, w, k, left
    <3>3. k \in 0 .. len - w /\ k <= Cap - n /\ w + k <= len
      BY <3>1, <3>2, FitIs
    <3> QED BY <3>2, <3>3 DEF n, len, w
  <2>5. /\ sock' = [sock EXCEPT ![c].down = @ \o SubSeq(conn.pkt, conn.w + 1, conn.w + k)]
        /\ conns' = [conns EXCEPT ![loop.i] = Wrote(conn, k)]
    BY <1>4 DEF Write, Wrote
  <2> HIDE DEF k, conn
  <2> DEFINE part == SubSeq(conn.pkt, conn.w + 1, conn.w + k)
             down == sock[c].down \o part
  <2>6. part \in Seq(Unit) /\ Len(part) = k
    BY <2>2, <2>4, PartIs
  <2> HIDE DEF part
  <2>7. down \in Seq(Unit) /\ Len(down) <= Cap
    BY <2>3, <2>4, <2>6, ConcatProperties, CapAssumption
  <2>8. sock' = [sock EXCEPT ![c] = [sock[c] EXCEPT !.down = down]]
    BY <2>5 DEF part
  <2> HIDE DEF down
  <2> DEFINE s == [st |-> sock[c].st, shut |-> sock[c].shut, up |-> sock[c].up, down |-> down]
  <2>9. /\ sock[c] = [st |-> sock[c].st, shut |-> sock[c].shut, up |-> sock[c].up, down |-> sock[c].down]
        /\ SockOK(c, s)
    BY <1>2, <2>3, <2>7, SockIs
  <2>10. [sock[c] EXCEPT !.down = down] = s
    BY <2>9
  <2>11. sock' = [sock EXCEPT ![c] = s]
    BY <2>8, <2>10
  <2>12. SocksOK'
    <3> HIDE DEF s
    <3> QED BY <1>1, <1>2, <2>9, <2>11, SetSock DEF TypeInv
  <2>13. ConnOK(Wrote(conn, k))
    BY <1>2, <2>1, <2>4, WroteOK
  <2>14. ConnsOK'
    BY <1>1, <1>2, <2>5, <2>13, SetConn DEF TypeInv, conn
  <2>15. WriteSome(k)
    BY <2>5, <2>11 DEF WriteSome, k, conn, down, part
  <2>16. Typed'
    BY <1>1, <2>12, <2>14, Unchanged DEF Typed
  <2> QED BY <1>1, <1>4, <2>4, <2>15, <2>16 DEF conn
<1> QED BY <1>3, <1>4

(***************************************************************************)
(* The clients.                                                            *)
(***************************************************************************)
\* A step of client c: it becomes p, its socket s.
LEMMA ClientMove ==
  ASSUME TypeInv, script' = script, conns' = conns, RestOK', NEW c \in Clients, NEW p, NEW s,
         ClientOK(c, p), SockOK(c, s), Client(c, p, s)
  PROVE  /\ Typed' /\ cl'[c] = p /\ sock'[c] = s
         /\ \A d \in Clients \ {c} : cl'[d] = cl[d] /\ sock'[d] = sock[d]
<1>1. ClientsOK' /\ cl'[c] = p /\ \A d \in Clients \ {c} : cl'[d] = cl[d]
  BY SetClient DEF Client, TypeInv
<1>2. SocksOK' /\ sock'[c] = s /\ \A d \in Clients \ {c} : sock'[d] = sock[d]
  BY SetSock DEF Client, TypeInv
<1> QED BY <1>1, <1>2, Unchanged DEF Typed

LEMMA ClientIs ==
  ASSUME TypeInv, NEW c \in Clients
  PROVE  /\ cl[c] = [pc |-> cl[c].pc, k |-> cl[c].k, w |-> cl[c].w, buf |-> cl[c].buf]
         /\ cl[c].pc \in {"off", "write", "read", "closed", "killed"} /\ cl[c].k \in 1 .. Len(script[c])
         /\ cl[c].k \in 1 .. Args /\ cl[c].w \in 0 .. 4 /\ cl[c].buf \in Seq(Unit)
         /\ sock[c] = [st |-> sock[c].st, shut |-> sock[c].shut, up |-> sock[c].up, down |-> sock[c].down]
         /\ sock[c].st \in {"none", "backlog", "open", "eof", "reset"} /\ sock[c].shut \in BOOLEAN
         /\ sock[c].up \in Seq(Unit) /\ sock[c].down \in Seq(Unit)
         /\ Len(sock[c].up) \in 0 .. Cap /\ Len(sock[c].down) \in 0 .. Cap /\ About(c, sock[c].up)
         /\ SockOK(c, sock[c]) /\ ClientOK(c, cl[c])
<1>1. cl[c] \in ClientType /\ ClientOK(c, cl[c]) /\ cl[c].k \in 1 .. Len(script[c])
  BY RequestIs DEF TypeInv, ClientsOK
<1>2. sock[c] \in SockType /\ SockOK(c, sock[c])
  BY DEF TypeInv, SocksOK
<1>3. /\ sock[c].up \in Seq(Unit) /\ sock[c].down \in Seq(Unit)
      /\ Len(sock[c].up) \in 0 .. Cap /\ Len(sock[c].down) \in 0 .. Cap /\ About(c, sock[c].up)
  BY <1>2, CapAssumption DEF SockOK, SockType
<1>4. cl[c] = [pc |-> cl[c].pc, k |-> cl[c].k, w |-> cl[c].w, buf |-> cl[c].buf]
  BY <1>1 DEF ClientType
<1>5. sock[c] = [st |-> sock[c].st, shut |-> sock[c].shut, up |-> sock[c].up, down |-> sock[c].down]
  BY <1>2 DEF SockType
<1>6. /\ cl[c].pc \in {"off", "write", "read", "closed", "killed"}
      /\ cl[c].k \in 1 .. Args /\ cl[c].w \in 0 .. 4 /\ cl[c].buf \in Seq(Unit)
  BY <1>1 DEF ClientType
<1>7. sock[c].st \in {"none", "backlog", "open", "eof", "reset"} /\ sock[c].shut \in BOOLEAN
  BY <1>2 DEF SockType
<1> QED BY <1>1, <1>2, <1>3, <1>4, <1>5, <1>6, <1>7

\* A client that has ended.
LEMMA IdleIs ==
  ASSUME NEW pc
  PROVE  [Idle EXCEPT !.pc = pc] = [pc |-> pc, k |-> 1, w |-> 0, buf |-> <<>>]
  BY DEF Idle

LEMMA NoSockIs ==
  ASSUME NEW st
  PROVE  [NoSock EXCEPT !.st = st] = [st |-> st, shut |-> FALSE, up |-> <<>>, down |-> <<>>]
<1>1. /\ NoSock = [st |-> NoSock.st, shut |-> NoSock.shut, up |-> NoSock.up, down |-> NoSock.down]
      /\ NoSock.shut = FALSE /\ NoSock.up = <<>> /\ NoSock.down = <<>>
  BY DEF NoSock
<1>2. PICK s : s = [NoSock EXCEPT !.st = st]
  OBVIOUS
<1>3. s = [st |-> st, shut |-> NoSock.shut, up |-> NoSock.up, down |-> NoSock.down]
  BY <1>1, <1>2
<1> QED BY <1>1, <1>2, <1>3

LEMMA EndedOK ==
  ASSUME TypeInv, NEW c \in Clients, NEW pc \in {"closed", "killed"}
  PROVE  /\ [Idle EXCEPT !.pc = pc] = [pc |-> pc, k |-> 1, w |-> 0, buf |-> <<>>]
         /\ ClientOK(c, [Idle EXCEPT !.pc = pc])
<1>1. Len(script[c]) \in 1 .. Args
  BY ScriptIs DEF TypeInv, RestOK
<1>2. 1 \in 1 .. Args /\ 1 <= Len(script[c])
  BY <1>1, ArgsAssumption
<1>3. [Idle EXCEPT !.pc = pc] = [pc |-> pc, k |-> 1, w |-> 0, buf |-> <<>>]
  BY DEF Idle
<1> DEFINE p == [pc |-> pc, k |-> 1, w |-> 0, buf |-> <<>>]
<1>4. <<>> \in Seq(Unit)
  OBVIOUS
<1>5. p \in ClientType /\ p.k = 1 /\ p.pc # "write" /\ p.pc # "off"
  BY <1>2, <1>4 DEF ClientType
<1> HIDE DEF p
<1>6. ClientOK(c, p)
  BY <1>2, <1>5 DEF ClientOK
<1> QED BY <1>3, <1>6 DEF p

\* A client hangs up, or has read what there is.
LEMMA HangOK ==
  ASSUME TypeInv, NEW c \in Clients, NEW shut \in BOOLEAN
  PROVE  LET s == [st |-> sock[c].st, shut |-> shut, up |-> sock[c].up, down |-> <<>>]
         IN SockOK(c, s) /\ (shut => Hang(c) = s)
<1>1. /\ sock[c] = [st |-> sock[c].st, shut |-> sock[c].shut, up |-> sock[c].up, down |-> sock[c].down]
      /\ sock[c].up \in Seq(Unit) /\ Len(sock[c].up) <= Cap /\ About(c, sock[c].up) /\ SockOK(c, sock[c])
  BY ClientIs, CapAssumption DEF SockOK
<1>2. <<>> \in Seq(Unit) /\ Len(<<>>) <= Cap
  BY CapAssumption
<1>3. SockOK(c, [st |-> sock[c].st, shut |-> shut, up |-> sock[c].up, down |-> <<>>])
  BY <1>1, <1>2, SockIs
<1>4. ASSUME shut PROVE Hang(c) = [st |-> sock[c].st, shut |-> shut, up |-> sock[c].up, down |-> <<>>]
  <2>1. Hang(c) = [sock[c] EXCEPT !.shut = TRUE, !.down = <<>>] /\ shut = TRUE
    BY <1>4 DEF Hang
  <2> QED BY <1>1, <2>1
<1> QED BY <1>3, <1>4

\* The next argument, or the end.
Nxt(c) == [pc |-> "write", k |-> cl[c].k + 1, w |-> 0, buf |-> <<>>]
Gone == [pc |-> "closed", k |-> 1, w |-> 0, buf |-> <<>>]
Last(c) == cl[c].k = Len(script[c])
LEMMA AfterIs ==
  ASSUME TypeInv, NEW c \in Clients
  PROVE  /\ ClientOK(c, After(c))
         /\ Last(c) => After(c) = Gone /\ ~(cl[c].k < Len(script[c]))
         /\ ~Last(c) => /\ After(c) = Nxt(c) /\ cl[c].k < Len(script[c])
                        /\ cl[c].k + 1 \in 1 .. Len(script[c]) /\ cl[c].k + 1 \in 1 .. Args
<1>1. cl[c].k \in 1 .. Len(script[c]) /\ Len(script[c]) \in 1 .. Args /\ Args \in Nat
  BY ClientIs, ScriptIs, ArgsAssumption DEF TypeInv, RestOK
<1>2. ASSUME Last(c) PROVE ClientOK(c, After(c)) /\ After(c) = Gone /\ ~(cl[c].k < Len(script[c]))
  <2>1. ~(cl[c].k < Len(script[c]))
    BY <1>1, <1>2 DEF Last
  <2>2. After(c) = [Idle EXCEPT !.pc = "closed"]
    BY <2>1 DEF After
  <2> QED BY <2>1, <2>2, EndedOK DEF Gone
<1>3. ASSUME ~Last(c)
      PROVE  /\ ClientOK(c, After(c)) /\ After(c) = Nxt(c) /\ cl[c].k < Len(script[c])
             /\ cl[c].k + 1 \in 1 .. Len(script[c]) /\ cl[c].k + 1 \in 1 .. Args
  <2>1. cl[c].k < Len(script[c]) /\ cl[c].k + 1 \in 1 .. Len(script[c]) /\ cl[c].k + 1 \in 1 .. Args
    BY <1>1, <1>3 DEF Last
  <2> DEFINE k == cl[c].k + 1
  <2>2. After(c) = Nxt(c)
    BY <2>1 DEF After, Nxt
  <2>3. script[c][k].type \in Types
    BY <2>1, ScriptIs DEF TypeInv, RestOK
  <2>4. Pkt_len(script[c][k].type) \in 2 .. 4
    BY <2>3 DEF Pkt_len, Types
  <2>5. 0 < Pkt_len(script[c][k].type)
    BY <2>4
  <2>6. <<>> \in Seq(Unit)
    OBVIOUS
  <2> HIDE DEF k
  <2>7. Nxt(c) = [pc |-> "write", k |-> k, w |-> 0, buf |-> <<>>] /\ k \in 1 .. Args /\ k <= Len(script[c])
    BY <1>1, <2>1 DEF Nxt, k
  <2>8. Nxt(c) \in ClientType /\ Nxt(c).k = k /\ Nxt(c).w = 0
    BY <2>6, <2>7 DEF ClientType
  <2>9. ClientOK(c, Nxt(c))
    BY <2>5, <2>7, <2>8 DEF ClientOK
  <2> QED BY <2>1, <2>2, <2>9 DEF k
<1> QED BY <1>2, <1>3

Shutting(s) == [s EXCEPT !.shut = TRUE, !.down = <<>>]
LEMMA ShutRec ==
  ASSUME NEW s, s = [st |-> s.st, shut |-> s.shut, up |-> s.up, down |-> s.down]
  PROVE  Shutting(s) = [st |-> s.st, shut |-> TRUE, up |-> s.up, down |-> <<>>]
<1>1. Shutting(s) = [s EXCEPT !.shut = TRUE, !.down = <<>>]
  BY DEF Shutting
<1> QED BY <1>1

\* The socket of a client that goes on, or hangs up after its last argument.
LEMMA ProceedIs ==
  ASSUME TypeInv, script' = script, conns' = conns, RestOK', NEW c \in Clients,
         NEW down \in {<<>>, sock[c].down},
         Proceed(c, [st |-> sock[c].st, shut |-> sock[c].shut, up |-> sock[c].up, down |-> down])
  PROVE  /\ Typed' /\ \A d \in Clients \ {c} : cl'[d] = cl[d] /\ sock'[d] = sock[d]
         /\ Last(c) => /\ cl'[c] = Gone
                       /\ sock'[c] = [st |-> sock[c].st, shut |-> TRUE, up |-> sock[c].up, down |-> <<>>]
         /\ ~Last(c) => /\ cl'[c] = Nxt(c)
                        /\ sock'[c] = [st |-> sock[c].st, shut |-> sock[c].shut, up |-> sock[c].up, down |-> down]
<1> DEFINE s == [st |-> sock[c].st, shut |-> sock[c].shut, up |-> sock[c].up, down |-> down]
           e == [st |-> sock[c].st, shut |-> TRUE, up |-> sock[c].up, down |-> <<>>]
<1>1. SockOK(c, e)
  BY HangOK
<1>2. SockOK(c, s)
  <2>1. s = sock[c] \/ down = <<>>
    BY ClientIs
  <2>2. SockOK(c, sock[c]) /\ sock[c].shut \in BOOLEAN
    BY ClientIs
  <2> QED BY <2>1, <2>2, HangOK
<1>3. Shutting(s) = e
  <2>1. s = [st |-> s.st, shut |-> s.shut, up |-> s.up, down |-> s.down] /\ s.st = sock[c].st /\ s.up = sock[c].up
    OBVIOUS
  <2> HIDE DEF s
  <2> QED BY <2>1, ShutRec
<1>4. Client(c, After(c), IF cl[c].k < Len(script[c]) THEN s ELSE e)
  <2>1. Client(c, After(c), IF cl[c].k < Len(script[c]) THEN s ELSE Shutting(s))
    BY DEF Proceed, Shutting
  <2> QED BY <1>3, <2>1
<1> HIDE DEF s, e
<1>5. ASSUME Last(c) PROVE Client(c, Gone, e) /\ ClientOK(c, Gone)
  BY <1>4, <1>5, AfterIs
<1>6. ASSUME ~Last(c) PROVE Client(c, Nxt(c), s) /\ ClientOK(c, Nxt(c))
  BY <1>4, <1>6, AfterIs
<1>7. ASSUME Last(c) PROVE /\ Typed' /\ \A d \in Clients \ {c} : cl'[d] = cl[d] /\ sock'[d] = sock[d]
                           /\ cl'[c] = Gone /\ sock'[c] = e
  BY <1>1, <1>5, <1>7, ClientMove
<1>8. ASSUME ~Last(c) PROVE /\ Typed' /\ \A d \in Clients \ {c} : cl'[d] = cl[d] /\ sock'[d] = sock[d]
                            /\ cl'[c] = Nxt(c) /\ sock'[c] = s
  BY <1>2, <1>6, <1>8, ClientMove
<1> QED BY <1>7, <1>8 DEF s, e

\* The parts of RestOK a client changes.
LEMMA ToldOK ==
  ASSUME TypeInv, NEW c \in Clients, NEW v, Tell(c, v)
  PROVE  told' = [r \in RequestIds |-> told'[r]]
  BY RequestIs DEF Tell, TypeInv, RestOK

LEMMA ConnectIs ==
  ASSUME TypeInv, Queue, NEW c \in Clients, Connect(c)
  PROVE  /\ Typed' /\ cl[c].pc = "off" /\ \A d \in Clients \ {c} : cl'[d] = cl[d] /\ sock'[d] = sock[d]
         /\ \/ /\ term = "yes" /\ cl'[c].pc = "closed" /\ sock'[c] = sock[c] /\ backlog' = backlog
            \/ /\ term # "yes" /\ cl'[c] = [pc |-> "write", k |-> 1, w |-> 0, buf |-> <<>>]
               /\ sock'[c] = [st |-> "backlog", shut |-> FALSE, up |-> <<>>, down |-> <<>>]
               /\ backlog' = Append(backlog, c)
<1>1. cl[c].pc = "off" /\ UNCHANGED <<script, conns, loop, sv, term, failing, budget, done, told>>
  BY DEF Connect
<1>2. cl[c] = Idle
  BY <1>1 DEF TypeInv, ClientsOK, ClientOK
<1>3. CASE term = "yes"
  <2>1. Client(c, [cl[c] EXCEPT !.pc = "closed"], sock[c]) /\ UNCHANGED backlog
    BY <1>3 DEF Connect
  <2>2. Client(c, [Idle EXCEPT !.pc = "closed"], sock[c])
    BY <1>2, <2>1
  <2> DEFINE p == [Idle EXCEPT !.pc = "closed"]
  <2>3. ClientOK(c, p) /\ p.pc = "closed"
    BY EndedOK
  <2>4. RestOK'
    BY <1>1, <2>1, Unchanged
  <2>5. SockOK(c, sock[c])
    BY ClientIs
  <2> HIDE DEF p
  <2>6. /\ Typed' /\ cl'[c] = p /\ sock'[c] = sock[c]
        /\ \A d \in Clients \ {c} : cl'[d] = cl[d] /\ sock'[d] = sock[d]
    BY <1>1, <2>2, <2>3, <2>4, <2>5, ClientMove DEF p
  <2> QED BY <1>1, <1>3, <2>1, <2>3, <2>6
<1>4. CASE term # "yes"
  <2> DEFINE p == [pc |-> "write", k |-> 1, w |-> 0, buf |-> <<>>]
             s == [st |-> "backlog", shut |-> FALSE, up |-> <<>>, down |-> <<>>]
             cp == [cl[c] EXCEPT !.pc = "write"]
             cs == [NoSock EXCEPT !.st = "backlog"]
  <2>1. Client(c, cp, cs) /\ backlog' = Append(backlog, c)
    BY <1>4 DEF Connect
  <2>2. cp = p
    BY <1>2, IdleIs
  <2>3. cs = s
    BY NoSockIs
  <2>4. Client(c, p, s)
    BY <2>1, <2>2, <2>3
  <2>5. 1 \in 1 .. Args /\ 1 \in 1 .. Len(script[c]) /\ 1 <= Len(script[c])
    <3>1. Len(script[c]) \in 1 .. Args
      BY ScriptIs DEF TypeInv, RestOK
    <3> QED BY <3>1, ArgsAssumption
  <2>6. script[c][1].type \in Types
    BY <2>5, ScriptIs DEF TypeInv, RestOK
  <2>7. 0 < Pkt_len(script[c][1].type)
    BY <2>6 DEF Pkt_len, Types
  <2>8. <<>> \in Seq(Unit) /\ Len(<<>>) = 0
    OBVIOUS
  <2>9. p \in ClientType /\ s \in SockType
    BY <2>5, <2>8 DEF ClientType, SockType
  <2>10. ClientOK(c, p)
    BY <2>5, <2>7, <2>9 DEF ClientOK
  <2>11. SockOK(c, s)
    BY <2>8, <2>9, CapAssumption DEF SockOK, About
  <2>12. backlog' \in Seq(Clients)
    BY <2>1, AppendProperties DEF TypeInv, RestOK
  <2>13. RestOK'
    BY <1>1, <2>12 DEF TypeInv, RestOK
  <2> HIDE DEF p, s
  <2>14. /\ Typed' /\ cl'[c] = p /\ sock'[c] = s
         /\ \A d \in Clients \ {c} : cl'[d] = cl[d] /\ sock'[d] = sock[d]
    BY <1>1, <2>4, <2>10, <2>11, <2>13, ClientMove
  <2> QED BY <1>1, <1>4, <2>1, <2>14 DEF p, s
<1> QED BY <1>3, <1>4

\* What the steps of a connected client have in common.
Talks(c) == /\ Typed' /\ cl'[c].pc # "off" /\ cl[c].pc # "off" /\ sock'[c].st = sock[c].st
            /\ \A d \in Clients \ {c} : cl'[d] = cl[d] /\ sock'[d] = sock[d]
            /\ UNCHANGED <<script, backlog, conns, loop, sv, term, failing, done>>
Ends(c) == /\ cl'[c].pc \in {"closed", "killed"}
           /\ sock'[c] = [st |-> sock[c].st, shut |-> TRUE, up |-> sock[c].up, down |-> <<>>]
GoesOn(c, down) == /\ cl'[c] = Nxt(c) /\ cl[c].k + 1 \in 1 .. Len(script[c]) /\ cl[c].k + 1 \in 1 .. Args
                   /\ sock'[c] = [st |-> sock[c].st, shut |-> sock[c].shut, up |-> sock[c].up, down |-> down]

\* What ProceedIs says of them.
LEMMA ProceedTalks ==
  ASSUME TypeInv, RestOK', NEW c \in Clients, cl[c].pc # "off", NEW down \in {<<>>, sock[c].down},
         Proceed(c, [st |-> sock[c].st, shut |-> sock[c].shut, up |-> sock[c].up, down |-> down]),
         UNCHANGED <<script, backlog, conns, loop, sv, term, failing, done>>
  PROVE  Talks(c) /\ (Ends(c) \/ GoesOn(c, down))
<1>1. /\ Typed' /\ \A d \in Clients \ {c} : cl'[d] = cl[d] /\ sock'[d] = sock[d]
      /\ Last(c) => /\ cl'[c] = Gone
                    /\ sock'[c] = [st |-> sock[c].st, shut |-> TRUE, up |-> sock[c].up, down |-> <<>>]
      /\ ~Last(c) => /\ cl'[c] = Nxt(c)
                     /\ sock'[c] = [st |-> sock[c].st, shut |-> sock[c].shut, up |-> sock[c].up, down |-> down]
  BY ProceedIs
<1>2. CASE Last(c)
  <2>1. cl'[c].pc = "closed" /\ sock'[c].st = sock[c].st
    BY <1>1, <1>2 DEF Gone
  <2> QED BY <1>1, <1>2, <2>1 DEF Talks, Ends
<1>3. CASE ~Last(c)
  <2>1. cl'[c].pc = "write" /\ sock'[c].st = sock[c].st
    BY <1>1, <1>3 DEF Nxt
  <2>2. GoesOn(c, down)
    BY <1>1, <1>3, AfterIs DEF GoesOn
  <2> QED BY <1>1, <1>3, <2>1, <2>2 DEF Talks
<1> QED BY <1>2, <1>3

LEMMA SkipIs ==
  ASSUME TypeInv, NEW c \in Clients, SkipArg(c)
  PROVE  /\ Talks(c) /\ Tell(c, Lost) /\ cl[c].pc = "write"
         /\ Ends(c) \/ GoesOn(c, sock[c].down)
<1>1. /\ UNCHANGED <<script, backlog, conns, loop, sv, term, failing, done>>
      /\ cl[c].pc = "write" /\ Spend("skip") /\ Tell(c, Lost) /\ Proceed(c, sock[c])
  BY DEF SkipArg
<1>2. budget' \in [Events -> Nat]
  BY <1>1, SpendOK DEF Events, TypeInv
<1>3. told' = [r \in RequestIds |-> told'[r]]
  BY <1>1, ToldOK
<1>4. RestOK'
  BY <1>1, <1>2, <1>3 DEF TypeInv, RestOK
<1>5. Proceed(c, [st |-> sock[c].st, shut |-> sock[c].shut, up |-> sock[c].up, down |-> sock[c].down])
  BY <1>1, ClientIs
<1> QED BY <1>1, <1>4, <1>5, ProceedTalks

\* A client that is killed hangs up.
LEMMA KilledIs ==
  ASSUME TypeInv, RestOK', NEW c \in Clients, cl[c].pc # "off", Client(c, [Idle EXCEPT !.pc = "killed"], Hang(c)),
         UNCHANGED <<script, backlog, conns, loop, sv, term, failing, done>>
  PROVE  Talks(c) /\ Ends(c)
<1> DEFINE p == [Idle EXCEPT !.pc = "killed"]
           s == [st |-> sock[c].st, shut |-> TRUE, up |-> sock[c].up, down |-> <<>>]
<1>1. ClientOK(c, p) /\ p.pc = "killed"
  BY EndedOK
<1>2. SockOK(c, s) /\ Hang(c) = s
  BY HangOK
<1>3. s.st = sock[c].st
  OBVIOUS
<1> HIDE DEF p, s
<1>4. Client(c, p, s)
  BY <1>2 DEF p
<1>5. /\ Typed' /\ cl'[c] = p /\ sock'[c] = s
      /\ \A d \in Clients \ {c} : cl'[d] = cl[d] /\ sock'[d] = sock[d]
  BY <1>1, <1>2, <1>4, ClientMove
<1>6. Talks(c)
  BY <1>1, <1>3, <1>5 DEF Talks
<1>7. Ends(c)
  BY <1>1, <1>5 DEF Ends, s
<1> QED BY <1>6, <1>7

LEMMA KillIs ==
  ASSUME TypeInv, NEW c \in Clients, Kill(c)
  PROVE  Talks(c) /\ Ends(c) /\ UNCHANGED told
<1>1. /\ UNCHANGED <<script, backlog, conns, loop, sv, term, failing, done, told>>
      /\ cl[c].pc # "off" /\ Spend("kill") /\ Client(c, [Idle EXCEPT !.pc = "killed"], Hang(c))
  BY DEF Kill
<1>2. budget' \in [Events -> Nat]
  BY <1>1, SpendOK DEF Events, TypeInv
<1>3. RestOK'
  BY <1>1, <1>2 DEF TypeInv, RestOK
<1> QED BY <1>1, <1>3, KilledIs

LEMMA PipelineIs ==
  ASSUME TypeInv, NEW c \in Clients, Pipeline(c)
  PROVE  Talks(c) /\ c \in Raw /\ UNCHANGED told
<1>1. /\ UNCHANGED <<script, backlog, conns, loop, sv, term, failing, budget, done, told>>
      /\ c \in Raw /\ cl[c].pc = "read" /\ cl[c].k < Len(script[c]) /\ Client(c, After(c), sock[c])
  BY DEF Pipeline
<1>2. RestOK'
  BY <1>1, Unchanged
<1>3. ~Last(c)
  BY <1>1, AfterIs
<1>4. ClientOK(c, After(c)) /\ After(c) = Nxt(c) /\ SockOK(c, sock[c])
  BY <1>3, AfterIs, ClientIs
<1>5. /\ Typed' /\ cl'[c] = After(c) /\ sock'[c] = sock[c]
      /\ \A d \in Clients \ {c} : cl'[d] = cl[d] /\ sock'[d] = sock[d]
  BY <1>1, <1>2, <1>4, ClientMove
<1>6. cl'[c].pc = "write"
  BY <1>4, <1>5 DEF Nxt
<1> QED BY <1>1, <1>5, <1>6 DEF Talks

\* pkt_write() in a client: n more units of the request, all of it but for a
\* raw client that writes in pieces.
Asked(c, n) ==
  LET all == n = Len(Request(c)) - cl[c].w
  IN /\ ~Cut(c) /\ UNCHANGED told
     /\ n = 1 \/ n = Fit(Cap - Len(sock[c].up), Len(Request(c)) - cl[c].w)
     /\ c \notin Raw => n = Fit(Cap - Len(sock[c].up), Len(Request(c)) - cl[c].w)
     /\ cl'[c] = [pc |-> IF all THEN "read" ELSE "write", k |-> cl[c].k,
                  w |-> IF all THEN cl[c].w ELSE cl[c].w + n, buf |-> cl[c].buf]
     /\ sock'[c] = [st |-> sock[c].st, shut |-> sock[c].shut,
                    up |-> sock[c].up \o SubSeq(Request(c), cl[c].w + 1, cl[c].w + n), down |-> sock[c].down]

\* The records a client writing leaves.
LEMMA AskRecs ==
  ASSUME NEW p, p = [pc |-> p.pc, k |-> p.k, w |-> p.w, buf |-> p.buf], NEW n, NEW all \in BOOLEAN,
         NEW s, s = [st |-> s.st, shut |-> s.shut, up |-> s.up, down |-> s.down], NEW up,
         NEW q, q = IF all THEN [p EXCEPT !.pc = "read"] ELSE [p EXCEPT !.w = @ + n],
         NEW t, t = [s EXCEPT !.up = up]
  PROVE  /\ q = [pc |-> IF all THEN "read" ELSE p.pc, k |-> p.k, w |-> IF all THEN p.w ELSE p.w + n, buf |-> p.buf]
         /\ t = [st |-> s.st, shut |-> s.shut, up |-> up, down |-> s.down]
<1>1. t = [st |-> s.st, shut |-> s.shut, up |-> up, down |-> s.down]
  OBVIOUS
<1>2. CASE all
  <2>1. q = [p EXCEPT !.pc = "read"]
    BY <1>2
  <2>2. q = [pc |-> "read", k |-> p.k, w |-> p.w, buf |-> p.buf]
    BY <2>1
  <2> QED BY <1>1, <1>2, <2>2
<1>3. CASE ~all
  <2>1. q = [p EXCEPT !.w = p.w + n]
    BY <1>3
  <2>2. q = [pc |-> p.pc, k |-> p.k, w |-> p.w + n, buf |-> p.buf]
    BY <2>1
  <2> QED BY <1>1, <1>3, <2>2
<1> QED BY <1>2, <1>3

\* n units of a packet are added to what is on its way.
LEMMA PieceIs ==
  ASSUME NEW c, NEW rq \in Seq(Unit), NEW up \in Seq(Unit), NEW w \in Nat, NEW n \in Nat \ {0},
         w + n <= Len(rq), Len(up) + n <= Cap, About(c, up), About(c, rq)
  PROVE  LET new == up \o SubSeq(rq, w + 1, w + n)
         IN new \in Seq(Unit) /\ Len(new) <= Cap /\ About(c, new)
<1> DEFINE part == SubSeq(rq, w + 1, w + n)
<1>1. part \in Seq(Unit) /\ Len(part) = n /\ \A m \in 1 .. n : part[m] = rq[w + m]
  BY PartIs
<1> HIDE DEF part
<1>2. Len(rq) \in Nat /\ Len(up) \in Nat /\ \A m \in 1 .. n : w + m \in 1 .. Len(rq)
  OBVIOUS
<1>3. About(c, part)
  BY <1>1, <1>2 DEF About
<1>4. up \o part \in Seq(Unit) /\ Len(up \o part) = Len(up) + n
  BY <1>1, ConcatProperties
<1>5. up \o part # <<>>
  <2>1. Len(up \o part) # 0
    BY <1>2, <1>4
  <2> QED BY <2>1
<1>6. About(c, up \o part)
  BY <1>1, <1>3, <1>5, AboutConcat
<1> QED BY <1>4, <1>6 DEF part

LEMMA AskIs ==
  ASSUME TypeInv, NEW c \in Clients, ClientWrite(c), ~Cut(c)
  PROVE  Talks(c) /\ \E n \in 1 .. Len(Request(c)) - cl[c].w : Asked(c, n)
<1> DEFINE rq == Request(c)
           left == Len(rq) - cl[c].w
           room == Fit(Cap - Len(sock[c].up), left)
<1>1. /\ UNCHANGED <<script, backlog, conns, loop, sv, term, failing, budget, done, told>>
      /\ cl[c].pc = "write" /\ room > 0
  BY DEF ClientWrite
<1>2. PICK n \in (IF c \in Raw THEN {1, room} ELSE {room}) :
        Client(c, IF n = left THEN [cl[c] EXCEPT !.pc = "read"] ELSE [cl[c] EXCEPT !.w = @ + n],
                  [sock[c] EXCEPT !.up = @ \o SubSeq(rq, cl[c].w + 1, cl[c].w + n)])
  BY DEF ClientWrite
<1>3. /\ cl[c].k \in 1 .. Len(script[c]) /\ cl[c].k \in 1 .. Args /\ cl[c].w \in 0 .. 4 /\ cl[c].buf \in Seq(Unit)
      /\ cl[c].w < Pkt_len(script[c][cl[c].k].type) /\ SockOK(c, sock[c])
      /\ sock[c].up \in Seq(Unit) /\ sock[c].down \in Seq(Unit) /\ Len(sock[c].up) \in 0 .. Cap
      /\ Len(sock[c].down) \in 0 .. Cap /\ About(c, sock[c].up) /\ sock[c].shut \in BOOLEAN
  BY <1>1, ClientIs DEF ClientOK
<1>4. rq \in Seq(Unit) /\ Len(rq) \in 2 .. 4 /\ Len(rq) = Pkt_len(script[c][cl[c].k].type) /\ About(c, rq)
  <2> DEFINE t == script[c][cl[c].k].type
  <2>1. /\ rq \in Seq(Unit) /\ Pkt_len(t) \in 2 .. 4 /\ Len(rq) = Pkt_len(t) /\ cl[c].k \in 1 .. Len(script[c])
        /\ \A m \in 1 .. Pkt_len(t) : rq[m] = [type |-> t, r |-> <<c, cl[c].k>>, v |-> "OK"]
    BY RequestIs
  <2> HIDE DEF t, rq
  <2>2. \A m \in 1 .. Len(rq) : rq[m].r[1] = c /\ rq[m].r[2] = cl[c].k
    BY <2>1
  <2> QED BY <2>1, <2>2 DEF About, t
<1> HIDE DEF rq
<1> DEFINE u == Len(sock[c].up)
           l == Len(rq)
           w == cl[c].w
<1>5. /\ Cap \in Nat /\ l \in Nat /\ w \in Nat /\ w < l /\ w <= l /\ u \in Nat /\ u <= Cap /\ l <= 4
      /\ room = Fit(Cap - u, l - w) /\ left = l - w
  BY <1>3, <1>4, CapAssumption
<1> HIDE DEF u, l, w, room, left
<1>6. room \in 0 .. l - w /\ room <= Cap - u
  BY <1>5, FitIs
<1>7. n \in Nat \ {0} /\ n <= l - w /\ n <= Cap - u /\ (n = 1 \/ n = room) /\ (c \notin Raw => n = room)
  BY <1>1, <1>2, <1>5, <1>6
<1>8. n \in 1 .. left /\ w + n <= l /\ u + n <= Cap /\ (n # left => w + n < l /\ w + n \in 0 .. 4)
  BY <1>5, <1>7
<1> DEFINE up == sock[c].up \o SubSeq(rq, cl[c].w + 1, cl[c].w + n)
           all == n = left
           p == [pc |-> IF all THEN "read" ELSE "write", k |-> cl[c].k, w |-> IF all THEN cl[c].w ELSE cl[c].w + n,
                 buf |-> cl[c].buf]
           s == [st |-> sock[c].st, shut |-> sock[c].shut, up |-> up, down |-> sock[c].down]
<1>10. up \in Seq(Unit) /\ Len(up) <= Cap /\ About(c, up)
  <2>1. cl[c].w + n <= Len(rq) /\ Len(sock[c].up) + n <= Cap /\ cl[c].w \in Nat
    BY <1>5, <1>8 DEF u, l, w
  <2> QED BY <1>3, <1>4, <1>7, <2>1, PieceIs
<1> HIDE DEF up
<1>12. SockOK(c, s)
  <2>1. Len(sock[c].down) <= Cap
    BY <1>3, CapAssumption
  <2> QED BY <1>3, <1>10, <2>1, SockIs
<1>13. ClientOK(c, p)
  <2>1. all => cl[c].w \in 0 .. 4
    BY <1>3
  <2>2. ~all => cl[c].w + n \in 0 .. 4 /\ cl[c].w + n < Len(rq)
    BY <1>8 DEF l, w
  <2> HIDE DEF all
  <2> DEFINE pw == IF all THEN cl[c].w ELSE cl[c].w + n
             pp == IF all THEN "read" ELSE "write"
  <2>3. pw \in 0 .. 4 /\ pp \in {"read", "write"} /\ (pp = "write" => pw < Len(rq))
    BY <2>1, <2>2
  <2>4. p = [pc |-> pp, k |-> cl[c].k, w |-> pw, buf |-> cl[c].buf]
    OBVIOUS
  <2> HIDE DEF pw, pp, p
  <2>5. p \in ClientType /\ p.pc = pp /\ p.w = pw /\ p.k = cl[c].k
    BY <1>3, <2>3, <2>4 DEF ClientType
  <2> QED BY <1>3, <1>4, <2>3, <2>5 DEF ClientOK
<1>14. Client(c, p, s)
  <2> DEFINE q == IF n = left THEN [cl[c] EXCEPT !.pc = "read"] ELSE [cl[c] EXCEPT !.w = @ + n]
             t == [sock[c] EXCEPT !.up = up]
  <2>1. Client(c, q, t)
    BY <1>2 DEF up
  <2>2. /\ cl[c] = [pc |-> cl[c].pc, k |-> cl[c].k, w |-> cl[c].w, buf |-> cl[c].buf]
        /\ sock[c] = [st |-> sock[c].st, shut |-> sock[c].shut, up |-> sock[c].up, down |-> sock[c].down]
    BY ClientIs
  <2>3. q = IF all THEN [cl[c] EXCEPT !.pc = "read"] ELSE [cl[c] EXCEPT !.w = @ + n]
    OBVIOUS
  <2>4. t = [sock[c] EXCEPT !.up = up]
    OBVIOUS
  <2>5. all \in BOOLEAN
    OBVIOUS
  <2> HIDE DEF q, t, all
  <2>6. q = p /\ t = s
    BY <1>1, <2>2, <2>3, <2>4, <2>5, AskRecs
  <2> QED BY <2>1, <2>6
<1>15. RestOK'
  BY <1>1, Unchanged
<1>16. s.st = sock[c].st /\ p.pc # "off"
  OBVIOUS
<1> HIDE DEF p, s
<1>17. /\ Typed' /\ cl'[c] = p /\ sock'[c] = s
       /\ \A d \in Clients \ {c} : cl'[d] = cl[d] /\ sock'[d] = sock[d]
  BY <1>1, <1>12, <1>13, <1>14, <1>15, ClientMove
<1>18. Talks(c)
  BY <1>1, <1>16, <1>17 DEF Talks
<1>19. Asked(c, n)
  BY <1>1, <1>7, <1>17 DEF Asked, p, s, up, rq, room, left
<1> QED BY <1>8, <1>18, <1>19 DEF rq, left

LEMMA WriteToIs ==
  ASSUME TypeInv, NEW c \in Clients, ClientWrite(c)
  PROVE  /\ Talks(c) /\ cl[c].pc = "write"
         /\ \/ Cut(c) /\ Ends(c) /\ Tell(c, Lost)
            \/ \E n \in 1 .. Len(Request(c)) - cl[c].w : Asked(c, n)
<1>1. cl[c].pc = "write"
  BY DEF ClientWrite
<1>2. CASE Cut(c)
  <2>1. /\ UNCHANGED <<script, backlog, conns, loop, sv, term, failing, budget, done>>
        /\ Client(c, [Idle EXCEPT !.pc = "killed"], Hang(c)) /\ Tell(c, Lost)
    BY <1>2 DEF ClientWrite
  <2>2. told' = [r \in RequestIds |-> told'[r]]
    BY <2>1, ToldOK
  <2>3. RestOK'
    BY <2>1, <2>2 DEF TypeInv, RestOK
  <2> QED BY <1>1, <1>2, <2>1, <2>3, KilledIs
<1> QED BY <1>1, <1>2, AskIs

\* pkt_read() in a client: part of a packet, or the end of the exchange.
Heard(c) == cl[c].buf \o sock[c].down
LEMMA ReadFromIs ==
  ASSUME TypeInv, NEW c \in Clients, ClientRead(c)
  PROVE  /\ Talks(c) /\ cl[c].pc = "read"
         /\ \/ /\ sock[c].down # <<>> /\ Len(Heard(c)) < To_read(Heard(c)) /\ UNCHANGED told
               /\ cl'[c] = [pc |-> "read", k |-> cl[c].k, w |-> cl[c].w, buf |-> Heard(c)]
               /\ sock'[c] = [st |-> sock[c].st, shut |-> sock[c].shut, up |-> sock[c].up, down |-> <<>>]
            \/ /\ sock[c].down # <<>> /\ Len(Heard(c)) >= To_read(Heard(c))
               /\ Tell(c, IF Len(Heard(c)) > To_read(Heard(c)) THEN Lost ELSE Verdict(Heard(c)))
               /\ Ends(c) \/ GoesOn(c, <<>>)
            \/ /\ sock[c].down = <<>> /\ Cut(c)
               /\ Tell(c, IF sock[c].st = "reset" THEN Lost ELSE Verdict(Heard(c)))
               /\ Ends(c) \/ GoesOn(c, <<>>)
<1> DEFINE s == [st |-> sock[c].st, shut |-> sock[c].shut, up |-> sock[c].up, down |-> <<>>]
           drained == [sock[c] EXCEPT !.down = <<>>]
<1>1. UNCHANGED <<script, backlog, conns, loop, sv, term, failing, budget, done>> /\ cl[c].pc = "read"
  BY DEF ClientRead
<1>2. /\ sock[c] = [st |-> sock[c].st, shut |-> sock[c].shut, up |-> sock[c].up, down |-> sock[c].down]
      /\ cl[c] = [pc |-> "read", k |-> cl[c].k, w |-> cl[c].w, buf |-> cl[c].buf]
      /\ sock[c].shut \in BOOLEAN /\ sock[c].down \in Seq(Unit) /\ cl[c].buf \in Seq(Unit)
  BY <1>1, ClientIs
<1>3. drained = s
  <2>1. PICK t : t = [sock[c] EXCEPT !.down = <<>>]
    OBVIOUS
  <2>2. t = s
    BY <1>2, <2>1
  <2> QED BY <2>1, <2>2
<1>4. SockOK(c, s)
  BY <1>2, HangOK
<1>5. \/ /\ sock[c].down # <<>> /\ Len(Heard(c)) < To_read(Heard(c))
         /\ Client(c, [cl[c] EXCEPT !.buf = Heard(c)], drained) /\ UNCHANGED told
      \/ /\ sock[c].down # <<>> /\ Len(Heard(c)) >= To_read(Heard(c))
         /\ Proceed(c, drained)
         /\ Tell(c, IF Len(Heard(c)) > To_read(Heard(c)) THEN Lost ELSE Verdict(Heard(c)))
      \/ /\ sock[c].down = <<>> /\ Cut(c)
         /\ Proceed(c, drained)
         /\ Tell(c, IF sock[c].st = "reset" THEN Lost ELSE Verdict(Heard(c)))
  BY DEF ClientRead, Heard
<1>6. Heard(c) \in Seq(Unit)
  BY <1>2, ConcatProperties DEF Heard
<1> HIDE DEF drained, s
<1>7. ASSUME UNCHANGED told, Client(c, [cl[c] EXCEPT !.buf = Heard(c)], drained)
      PROVE  /\ Talks(c) /\ sock'[c] = s
             /\ cl'[c] = [pc |-> "read", k |-> cl[c].k, w |-> cl[c].w, buf |-> Heard(c)]
  <2> DEFINE p == [pc |-> "read", k |-> cl[c].k, w |-> cl[c].w, buf |-> Heard(c)]
  <2>1. PICK q : q = [cl[c] EXCEPT !.buf = Heard(c)]
    OBVIOUS
  <2>2. q = p
    BY <1>2, <2>1
  <2>3. ClientOK(c, p)
    <3>1. cl[c].k \in 1 .. Args /\ cl[c].k <= Len(script[c]) /\ cl[c].w \in 0 .. 4
      BY ClientIs DEF ClientOK
    <3>2. p \in ClientType /\ p.pc = "read" /\ p.k = cl[c].k
      BY <1>6, <3>1 DEF ClientType
    <3> QED BY <3>1, <3>2 DEF ClientOK
  <2>4. RestOK'
    BY <1>1, <1>7, Unchanged
  <2>5. p.pc = "read"
    OBVIOUS
  <2>6. s.st = sock[c].st
    BY DEF s
  <2> HIDE DEF p
  <2>7. /\ Typed' /\ cl'[c] = p /\ sock'[c] = s
        /\ \A d \in Clients \ {c} : cl'[d] = cl[d] /\ sock'[d] = sock[d]
    BY <1>1, <1>3, <1>4, <1>7, <2>1, <2>2, <2>3, <2>4, ClientMove
  <2>8. Talks(c)
    BY <1>1, <2>5, <2>6, <2>7 DEF Talks
  <2> QED BY <2>7, <2>8 DEF p
<1>8. ASSUME NEW v, Tell(c, v), Proceed(c, drained) PROVE Talks(c) /\ (Ends(c) \/ GoesOn(c, <<>>))
  <2>1. told' = [r \in RequestIds |-> told'[r]]
    BY <1>8, ToldOK
  <2>2. RestOK'
    BY <1>1, <2>1 DEF TypeInv, RestOK
  <2>3. Proceed(c, s)
    BY <1>3, <1>8
  <2>4. cl[c].pc # "off"
    BY <1>1
  <2> QED BY <1>1, <2>2, <2>3, <2>4, ProceedTalks DEF s
<1> QED BY <1>1, <1>5, <1>7, <1>8 DEF s

(***************************************************************************)
(* The rest of the world.                                                  *)
(***************************************************************************)
LEMMA TickIs ==
  ASSUME TypeInv, Tick
  PROVE  /\ Typed' /\ Len(conns') = Len(conns)
         /\ \A i \in 1 .. Len(conns) : /\ conns'[i].fd = conns[i].fd /\ conns'[i].state = conns[i].state
                                       /\ conns'[i].pkt = conns[i].pkt /\ conns'[i].w = conns[i].w
<1>1. UNCHANGED <<script, cl, sock, backlog, loop, sv, term, failing, done, told>> /\ Spend("tick")
  BY DEF Tick
<1>2. budget' \in [Events -> Nat]
  BY <1>1, SpendOK DEF Events, TypeInv
<1>3. RestOK'
  BY <1>1, <1>2 DEF TypeInv, RestOK
<1>4. conns \in Seq(ConnType) /\ Len(conns) \in Nat
  BY DEF TypeInv, ConnsOK
<1> DEFINE Older(x) == [x EXCEPT !.age = IF @ > ConnSecs THEN @ ELSE @ + 1]
<1>5. conns' = [i \in 1 .. Len(conns) |-> Older(conns[i])]
  BY DEF Tick
<1>6. ASSUME NEW x, ConnOK(x)
      PROVE  /\ ConnOK(Older(x)) /\ Older(x) \in ConnType
             /\ Older(x).fd = x.fd /\ Older(x).state = x.state /\ Older(x).pkt = x.pkt /\ Older(x).w = x.w
  <2> DEFINE a == IF x.age > ConnSecs THEN x.age ELSE x.age + 1
  <2>1. x \in ConnType /\ x.age \in 0 .. ConnSecs + 1 /\ ConnSecs \in Nat
    BY <1>6, BoundAssumption DEF ConnOK, ConnType
  <2>2. a \in 0 .. ConnSecs + 1
    BY <2>1
  <2>3. PICK y : y = Older(x)
    OBVIOUS
  <2>4. y = [x EXCEPT !.age = a]
    BY <2>3
  <2> HIDE DEF a, Older
  <2>5. x = [fd |-> x.fd, state |-> x.state, pkt |-> x.pkt, w |-> x.w, age |-> x.age]
    BY <2>1 DEF ConnType
  <2>6. y = [fd |-> x.fd, state |-> x.state, pkt |-> x.pkt, w |-> x.w, age |-> a]
    BY <2>4, <2>5
  <2>7. y.fd = x.fd /\ y.state = x.state /\ y.pkt = x.pkt /\ y.w = x.w
    BY <2>6
  <2>8. y \in ConnType
    BY <2>1, <2>2, <2>6 DEF ConnType
  <2>9. ConnOK(y)
    BY <1>6, <2>7, <2>8 DEF ConnOK
  <2> QED BY <2>3, <2>7, <2>8, <2>9
<1> HIDE DEF Older
<1>7. \A i \in 1 .. Len(conns) : ConnOK(conns[i])
  BY DEF TypeInv, ConnsOK
<1>8. conns' \in [1 .. Len(conns) -> ConnType]
  BY <1>5, <1>6, <1>7
<1>9. conns' \in Seq(ConnType) /\ Len(conns') = Len(conns) /\ \A i \in 1 .. Len(conns) : conns'[i] = Older(conns[i])
  BY <1>4, <1>5, <1>8
<1>10. \A i \in 1 .. Len(conns') : ConnOK(conns'[i])
  BY <1>6, <1>7, <1>9
<1>11. ConnsOK'
  BY <1>1, <1>9, <1>10 DEF ConnsOK, ConnOK, About
<1>12. Typed'
  BY <1>1, <1>3, <1>11, Unchanged DEF Typed
<1> QED BY <1>6, <1>7, <1>9, <1>12

LEMMA TermTypes ==
  ASSUME TypeInv, Term
  PROVE  Typed'
<1>1. /\ UNCHANGED <<script, cl, sock, backlog, conns, loop, sv, failing, done, told>>
      /\ Spend("term") /\ term' = "sent"
  BY DEF Term
<1>2. budget' \in [Events -> Nat]
  BY <1>1, SpendOK DEF Events, TypeInv
<1>3. RestOK'
  BY <1>1, <1>2 DEF TypeInv, RestOK
<1> QED BY <1>1, <1>3, Unchanged DEF Typed

LEMMA TurnTypes ==
  ASSUME TypeInv, NEW s \in Services, Turn(s)
  PROVE  Typed'
<1> DEFINE SvType == [known : BOOLEAN, cull : BOOLEAN, status : Statuses]
<1>1. UNCHANGED <<script, cl, sock, backlog, conns, loop, term, failing, done, told>> /\ Spend("turn")
  BY DEF Turn
<1>2. budget' \in [Events -> Nat]
  BY <1>1, SpendOK DEF Events, TypeInv
<1>3. sv \in [Services -> SvType]
  BY DEF TypeInv, RestOK
<1>4. sv' \in [Services -> SvType]
  <2>1. CASE sv' = [sv EXCEPT ![s].status = Flip(@)]
    BY <2>1, FlipOK DEF TypeInv
  <2>2. CASE sv' = [sv EXCEPT ![s].cull = TRUE]
    BY <1>3, <2>2
  <2>3. CASE sv' = [sv EXCEPT ![s] = [known |-> ~@.known, cull |-> FALSE, status |-> @.status]]
    BY <1>3, <2>3
  <2> QED BY <2>1, <2>2, <2>3 DEF Turn
<1>5. RestOK'
  BY <1>1, <1>2, <1>4 DEF TypeInv, RestOK
<1> QED BY <1>1, <1>5, Unchanged DEF Typed

(***************************************************************************)
(* clients[] and the open descriptors.                                     *)
(***************************************************************************)
LEMMA TableIs ==
  ASSUME TypeInv, ConnTable
  PROVE  /\ Distinct(conns) /\ Len(conns) <= ConnMax
         /\ \A i \in Used : sock[conns[i].fd].st = "open"
         /\ \A c \in Clients : sock[c].st = "open" => \E i \in Used : conns[i].fd = c
<1>1. {conns[i].fd : i \in Used} = {c \in Clients : sock[c].st = "open"} /\ Len(conns) <= ConnMax
  BY DEF ConnTable, Used
<1>2. Distinct(conns)
  BY DEF ConnTable, Distinct
<1> QED BY <1>1, <1>2

LEMMA TableFrom ==
  ASSUME ConnsOK', Distinct(conns'), Len(conns') <= ConnMax,
         \A i \in 1 .. Len(conns') : conns'[i].fd # None => sock'[conns'[i].fd].st = "open",
         \A c \in Clients : sock'[c].st = "open" => \E i \in 1 .. Len(conns') : conns'[i].fd = c
  PROVE  ConnTable'
<1> DEFINE used == {i \in 1 .. Len(conns') : conns'[i].fd # None}
<1>1. \A i \in used : conns'[i].fd \in Clients
  <2>1. \A i \in 1 .. Len(conns') : conns'[i] \in ConnType
    BY ElementOfSeq DEF ConnsOK
  <2> QED BY <2>1 DEF ConnType
<1>2. \A c \in Clients : sock'[c].st = "open" => \E i \in used : conns'[i].fd = c
  BY RawAssumption
<1>3. {conns'[i].fd : i \in used} = {c \in Clients : sock'[c].st = "open"}
  BY <1>1, <1>2
<1>4. \A i, j \in used : conns'[i].fd = conns'[j].fd => i = j
  BY DEF Distinct
<1> QED BY <1>3, <1>4 DEF ConnTable

\* Nothing is opened or closed.
LEMMA TableSame ==
  ASSUME TypeInv, ConnTable, Typed', Len(conns') = Len(conns),
         \A i \in 1 .. Len(conns) : conns'[i].fd = conns[i].fd,
         \A c \in Clients : sock'[c].st = "open" <=> sock[c].st = "open"
  PROVE  ConnTable'
<1>1. Distinct(conns') /\ Len(conns') <= ConnMax
  BY TableIs DEF Distinct
<1>2. \A i \in 1 .. Len(conns') : conns'[i].fd # None => sock'[conns'[i].fd].st = "open"
  <2>1. SUFFICES ASSUME NEW i \in 1 .. Len(conns), conns[i].fd # None PROVE sock'[conns[i].fd].st = "open"
    OBVIOUS
  <2>2. i \in Used
    BY <2>1 DEF Used
  <2> QED BY <2>2, TableIs, UsedIs
<1>3. \A c \in Clients : sock'[c].st = "open" => \E i \in 1 .. Len(conns') : conns'[i].fd = c
  BY TableIs DEF Used
<1> QED BY <1>1, <1>2, <1>3, TableFrom DEF Typed

\* One connection is closed, in perpd and in the kernel.
LEMMA TableClose ==
  ASSUME TypeInv, ConnTable, Typed', Len(conns') = Len(conns), NEW i \in Used,
         conns'[i].fd = None, \A j \in 1 .. Len(conns) : j # i => conns'[j].fd = conns[j].fd,
         sock'[conns[i].fd].st # "open",
         \A c \in Clients : c # conns[i].fd => (sock'[c].st = "open" <=> sock[c].st = "open")
  PROVE  ConnTable'
<1>1. Distinct(conns') /\ Len(conns') <= ConnMax
  BY TableIs DEF Distinct
<1>2. ASSUME NEW j \in 1 .. Len(conns'), conns'[j].fd # None PROVE sock'[conns'[j].fd].st = "open"
  <2>1. j # i /\ j \in Used /\ conns'[j].fd = conns[j].fd /\ i \in 1 .. Len(conns)
    BY <1>2 DEF Used
  <2>2. conns[j].fd # conns[i].fd
    BY <2>1, TableIs DEF Distinct, Used
  <2> QED BY <2>1, <2>2, TableIs, UsedIs
<1>3. ASSUME NEW c \in Clients, sock'[c].st = "open" PROVE \E j \in 1 .. Len(conns') : conns'[j].fd = c
  <2>1. c # conns[i].fd /\ sock[c].st = "open"
    BY <1>3, UsedIs
  <2>2. PICK j \in Used : conns[j].fd = c
    BY <2>1, TableIs
  <2> QED BY <2>1, <2>2 DEF Used
<1> QED BY <1>1, <1>2, <1>3, TableFrom DEF Typed

LEMMA TableTop ==
  ASSUME TypeInv, ConnTable, Top
  PROVE  ConnTable'
<1>1. /\ Typed' /\ Distinct(conns') /\ Len(conns') <= Len(conns)
      /\ \A j \in 1 .. Len(conns') : conns'[j].fd # None /\ \E m \in Used \ StaleOnes : conns'[j] = conns[m]
      /\ \A m \in Used \ StaleOnes : \E j \in 1 .. Len(conns') : conns'[j] = conns[m]
      /\ \A c \in Clients :
           /\ c \notin {conns[i].fd : i \in StaleOnes} => sock'[c] = sock[c]
           /\ c \in {conns[i].fd : i \in StaleOnes} => sock'[c].st \in {"eof", "reset"}
  BY TopIs
<1>2. Len(conns') <= ConnMax
  <2>1. Len(conns) \in Nat /\ Len(conns') \in Nat /\ ConnMax \in Nat /\ Len(conns) <= ConnMax
    BY <1>1, TableIs, BoundAssumption DEF Typed, TypeInv, ConnsOK
  <2> QED BY <1>1, <2>1
<1>3. ASSUME NEW m \in Used \ StaleOnes PROVE conns[m].fd \notin {conns[i].fd : i \in StaleOnes}
  <2>1. SUFFICES ASSUME NEW i \in StaleOnes, conns[i].fd = conns[m].fd PROVE FALSE
    OBVIOUS
  <2>2. i \in 1 .. Len(conns) /\ m \in 1 .. Len(conns) /\ conns[m].fd # None /\ i # m
    BY DEF StaleOnes, Used
  <2> QED BY <2>1, <2>2, TableIs DEF Distinct
<1>4. ASSUME NEW j \in 1 .. Len(conns'), conns'[j].fd # None PROVE sock'[conns'[j].fd].st = "open"
  <2>1. PICK m \in Used \ StaleOnes : conns'[j] = conns[m]
    BY <1>1
  <2>2. sock[conns[m].fd].st = "open" /\ conns[m].fd \in Clients
    BY TableIs, UsedIs
  <2>3. sock'[conns[m].fd] = sock[conns[m].fd]
    BY <1>1, <1>3, <2>2
  <2> QED BY <2>1, <2>2, <2>3
<1>5. ASSUME NEW c \in Clients, sock'[c].st = "open" PROVE \E j \in 1 .. Len(conns') : conns'[j].fd = c
  <2>1. c \notin {conns[i].fd : i \in StaleOnes} /\ sock[c].st = "open"
    BY <1>1, <1>5
  <2>2. PICK m \in Used : conns[m].fd = c
    BY <2>1, TableIs
  <2>3. m \in Used \ StaleOnes
    BY <2>1, <2>2
  <2>4. PICK j \in 1 .. Len(conns') : conns'[j] = conns[m]
    BY <1>1, <2>3
  <2> QED BY <2>2, <2>4
<1> QED BY <1>1, <1>2, <1>4, <1>5, TableFrom DEF Typed

LEMMA TableAccept ==
  ASSUME TypeInv, ConnTable, Queue, Progress, Accept
  PROVE  ConnTable'
<1>1. Typed' /\ (AcceptNothing \/ (term # "yes" /\ (AcceptRefused \/ AcceptTaken))) /\ script' = script
  BY AcceptIs DEF Accept
<1> DEFINE h == Head(backlog)
<1>2. ASSUME backlog # <<>> PROVE h \in Clients /\ sock[h].st = "backlog"
  <2>1. backlog \in Seq(Clients) /\ h \in Clients /\ h = backlog[1] /\ 1 \in 1 .. Len(backlog)
    BY <1>2, HeadTailProperties, EmptySeq DEF TypeInv, RestOK
  <2> QED BY <2>1 DEF Queue
<1>3. CASE AcceptNothing
  BY <1>1, <1>3, TableSame DEF AcceptNothing
<1>4. CASE AcceptRefused
  <2>1. h \in Clients /\ sock[h].st = "backlog" /\ conns' = conns
    BY <1>2, <1>4 DEF AcceptRefused
  <2>2. \A c \in Clients : /\ c # h => sock'[c] = sock[c]
                           /\ c = h => sock'[c].st \in {"eof", "reset"}
    BY <1>1, <1>4, ShutIs DEF AcceptRefused, TypeInv
  <2> QED BY <1>1, <2>1, <2>2, TableSame
<1>5. CASE AcceptTaken
  <2>1. h \in Clients /\ sock[h].st = "backlog" /\ Len(conns) < ConnMax
    BY <1>2, <1>5 DEF AcceptTaken
  <2>2. sock' = [sock EXCEPT ![h].st = "open"] /\ conns' = Append(conns, Conn(h))
    BY <1>5 DEF AcceptTaken
  <2>3. sock'[h].st = "open" /\ \A c \in Clients : c # h => sock'[c] = sock[c]
    BY <2>1, <2>2, ClientIs DEF TypeInv, SocksOK, SockType
  <2>4. conns \in Seq(ConnType) /\ Len(conns) \in Nat /\ ConnMax \in Nat
    BY BoundAssumption DEF TypeInv, ConnsOK
  <2> DEFINE n == Len(conns) + 1
  <2>5. Conn(h) \in ConnType /\ Conn(h).fd = h
    BY <2>1, ConnIs DEF ConnOK
  <2>6. /\ Len(conns') = n /\ conns'[n].fd = h
        /\ \A j \in 1 .. Len(conns) : conns'[j] = conns[j]
    BY <2>2, <2>4, <2>5, AppendProperties
  <2>7. \A j \in 1 .. n : j = n \/ j \in 1 .. Len(conns)
    BY <2>4
  <2> HIDE DEF n
  <2>8. ASSUME NEW j \in 1 .. Len(conns), conns[j].fd # None
        PROVE  conns[j].fd # h /\ sock'[conns[j].fd].st = "open"
    <3>1. j \in Used
      BY <2>8 DEF Used
    <3>2. sock[conns[j].fd].st = "open" /\ conns[j].fd \in Clients
      BY <3>1, TableIs, UsedIs
    <3> QED BY <2>1, <2>3, <3>2
  <2>9. Distinct(conns')
    <3>1. Distinct(conns)
      BY TableIs
    <3> QED BY <2>6, <2>7, <2>8, <3>1 DEF Distinct
  <2>10. \A j \in 1 .. Len(conns') : conns'[j].fd # None => sock'[conns'[j].fd].st = "open"
    BY <2>3, <2>6, <2>7, <2>8
  <2>11. ASSUME NEW c \in Clients, sock'[c].st = "open" PROVE \E i \in 1 .. Len(conns') : conns'[i].fd = c
    <3>1. CASE c = h
      <4>1. n \in 1 .. Len(conns')
        BY <2>4, <2>6 DEF n
      <4> QED BY <2>6, <3>1, <4>1
    <3>2. CASE c # h
      <4>1. sock[c].st = "open"
        BY <2>3, <2>11, <3>2
      <4>2. PICK i \in Used : conns[i].fd = c
        BY <4>1, TableIs
      <4>3. i \in 1 .. Len(conns) /\ i \in 1 .. Len(conns')
        BY <2>4, <2>6 DEF Used, n
      <4> QED BY <2>6, <4>2, <4>3
    <3> QED BY <3>1, <3>2
  <2>12. Len(conns') <= ConnMax
    BY <2>1, <2>4, <2>6 DEF n
  <2> QED BY <1>1, <2>9, <2>10, <2>11, <2>12, TableFrom DEF Typed
<1> QED BY <1>1, <1>3, <1>4, <1>5

(***************************************************************************)
(* The queue of the listening socket.                                      *)
(***************************************************************************)
LEMMA OffIs ==
  ASSUME Queue, NEW c \in Clients, cl[c].pc = "off"
  PROVE  sock[c].st = "none" /\ sock[c].up = <<>> /\ sock[c].down = <<>> /\ ~sock[c].shut
  BY DEF Queue, NoSock

LEMMA QueueSame ==
  ASSUME Queue, backlog' = backlog,
         \A c \in Clients : sock'[c].st = "backlog" <=> sock[c].st = "backlog",
         \A c \in Clients : cl'[c].pc = "off" => cl[c].pc = "off" /\ sock'[c] = sock[c]
  PROVE  Queue'
  BY DEF Queue

\* perpd closes accepted connections.
LEMMA QueueClose ==
  ASSUME TypeInv, ConnTable, Queue, NEW I \in SUBSET Used, UNCHANGED <<cl, backlog>>,
         \A c \in Clients : /\ c \notin {conns[i].fd : i \in I} => sock'[c] = sock[c]
                            /\ c \in {conns[i].fd : i \in I} => sock'[c].st \in {"open", "eof", "reset"}
  PROVE  Queue'
<1>1. ASSUME NEW c \in Clients, c \in {conns[i].fd : i \in I} PROVE sock[c].st = "open" /\ cl[c].pc # "off"
  <2>1. sock[c].st = "open"
    BY <1>1, TableIs
  <2> QED BY <2>1, OffIs
<1>2. \A c \in Clients : sock'[c].st = "backlog" <=> sock[c].st = "backlog"
  BY <1>1
<1>3. \A c \in Clients : cl'[c].pc = "off" => cl[c].pc = "off" /\ sock'[c] = sock[c]
  BY <1>1
<1> QED BY <1>2, <1>3, QueueSame

LEMMA QueueAccept ==
  ASSUME TypeInv, ConnTable, Queue, Progress, Accept
  PROVE  Queue'
<1>1. (AcceptNothing \/ AcceptRefused \/ AcceptTaken) /\ cl' = cl /\ script' = script
  BY AcceptIs DEF Accept
<1>2. CASE AcceptNothing
  BY <1>1, <1>2, QueueSame DEF AcceptNothing
<1>3. CASE AcceptRefused \/ AcceptTaken
  <2> DEFINE h == Head(backlog)
  <2>1. /\ backlog \in Seq(Clients) /\ backlog # <<>> /\ backlog' = Tail(backlog) /\ Len(backlog) \in Nat \ {0}
    BY <1>3, EmptySeq DEF AcceptRefused, AcceptTaken, TypeInv, RestOK
  <2>2. /\ h \in Clients /\ h = backlog[1] /\ Len(backlog') = Len(backlog) - 1
        /\ \A n \in 1 .. Len(backlog') : backlog'[n] = backlog[n + 1]
    BY <2>1, HeadTailProperties
  <2>3. /\ sock'[h].st # "backlog" /\ \A c \in Clients : c # h => sock'[c] = sock[c]
    <3>1. CASE AcceptRefused
      BY <1>1, <2>2, <3>1, ShutIs DEF AcceptRefused, TypeInv
    <3>2. CASE AcceptTaken
      <4>1. sock' = [sock EXCEPT ![h].st = "open"]
        BY <3>2 DEF AcceptTaken
      <4> QED BY <2>2, <4>1 DEF TypeInv, SocksOK, SockType
    <3> QED BY <1>3, <3>1, <3>2
  <2> HIDE DEF h
  <2>4. /\ \A n \in 1 .. Len(backlog') : n + 1 \in 1 .. Len(backlog) /\ n + 1 # 1
        /\ \A n \in 1 .. Len(backlog) : n # 1 => n - 1 \in 1 .. Len(backlog') /\ (n - 1) + 1 = n
        /\ 1 \in 1 .. Len(backlog)
    BY <2>1, <2>2
  <2>5. sock[h].st = "backlog"
    BY <2>2, <2>4 DEF Queue
  <2>6. ASSUME NEW c \in Clients
        PROVE  sock'[c].st = "backlog" <=> \E n \in 1 .. Len(backlog') : backlog'[n] = c
    <3>1. CASE c = h
      <4>1. \A n \in 1 .. Len(backlog') : backlog'[n] # h
        BY <2>2, <2>4 DEF Queue
      <4> QED BY <2>3, <3>1, <4>1
    <3>2. CASE c # h
      <4>1. sock'[c].st = "backlog" <=> \E n \in 1 .. Len(backlog) : backlog[n] = c
        BY <2>3, <3>2 DEF Queue
      <4>2. ASSUME NEW n \in 1 .. Len(backlog), backlog[n] = c PROVE \E m \in 1 .. Len(backlog') : backlog'[m] = c
        <5>1. n # 1
          BY <2>2, <3>2, <4>2
        <5> QED BY <2>2, <2>4, <4>2, <5>1
      <4>3. ASSUME NEW m \in 1 .. Len(backlog'), backlog'[m] = c PROVE \E n \in 1 .. Len(backlog) : backlog[n] = c
        BY <2>2, <2>4, <4>3
      <4> QED BY <4>1, <4>2, <4>3
    <3> QED BY <3>1, <3>2
  <2>7. ASSUME NEW m \in 1 .. Len(backlog'), NEW n \in 1 .. Len(backlog'), backlog'[m] = backlog'[n] PROVE m = n
    <3>1. m + 1 = n + 1
      BY <2>2, <2>4, <2>7 DEF Queue
    <3> QED BY <2>1, <2>2, <3>1
  <2>8. ASSUME NEW c \in Clients, cl'[c].pc = "off" PROVE sock'[c] = NoSock
    <3>1. cl[c].pc = "off"
      BY <1>1, <2>8
    <3>2. sock[c] = NoSock /\ sock[c].st = "none"
      BY <3>1, OffIs DEF Queue
    <3> QED BY <2>3, <2>5, <3>2
  <2> QED BY <2>6, <2>7, <2>8 DEF Queue
<1> QED BY <1>1, <1>2, <1>3

LEMMA QueueConnect ==
  ASSUME TypeInv, Queue, NEW c \in Clients, Connect(c)
  PROVE  Queue'
<1>1. /\ cl[c].pc = "off" /\ \A d \in Clients \ {c} : cl'[d] = cl[d] /\ sock'[d] = sock[d]
      /\ \/ /\ term = "yes" /\ cl'[c].pc = "closed" /\ sock'[c] = sock[c] /\ backlog' = backlog
         \/ /\ term # "yes" /\ cl'[c] = [pc |-> "write", k |-> 1, w |-> 0, buf |-> <<>>]
            /\ sock'[c] = [st |-> "backlog", shut |-> FALSE, up |-> <<>>, down |-> <<>>]
            /\ backlog' = Append(backlog, c)
  BY ConnectIs
<1>2. CASE backlog' = backlog /\ cl'[c].pc = "closed" /\ sock'[c] = sock[c]
  BY <1>1, <1>2, QueueSame
<1>3. CASE /\ cl'[c] = [pc |-> "write", k |-> 1, w |-> 0, buf |-> <<>>]
           /\ sock'[c] = [st |-> "backlog", shut |-> FALSE, up |-> <<>>, down |-> <<>>]
           /\ backlog' = Append(backlog, c)
  <2> DEFINE n == Len(backlog) + 1
  <2>1. backlog \in Seq(Clients) /\ Len(backlog) \in Nat
    BY DEF TypeInv, RestOK
  <2>2. /\ Len(backlog') = n /\ backlog'[n] = c /\ \A m \in 1 .. Len(backlog) : backlog'[m] = backlog[m]
    BY <1>3, <2>1, AppendProperties
  <2>3. /\ \A m \in 1 .. n : m = n \/ m \in 1 .. Len(backlog)
        /\ n \in 1 .. n /\ \A m \in 1 .. Len(backlog) : m \in 1 .. n
    BY <2>1
  <2> HIDE DEF n
  <2>4. sock'[c].st = "backlog" /\ cl'[c].pc = "write" /\ sock[c].st = "none"
    BY <1>1, <1>3, OffIs
  <2>5. \A m \in 1 .. Len(backlog) : backlog[m] # c
    BY <2>4 DEF Queue
  <2>6. ASSUME NEW d \in Clients
        PROVE  sock'[d].st = "backlog" <=> \E m \in 1 .. Len(backlog') : backlog'[m] = d
    BY <1>1, <2>2, <2>3, <2>4 DEF Queue
  <2>7. \A k, m \in 1 .. Len(backlog') : backlog'[k] = backlog'[m] => k = m
    BY <2>2, <2>3, <2>5 DEF Queue
  <2>8. \A d \in Clients : cl'[d].pc = "off" => sock'[d] = NoSock
    BY <1>1, <2>4 DEF Queue
  <2> QED BY <2>6, <2>7, <2>8 DEF Queue
<1> QED BY <1>1, <1>2, <1>3

\* SIGTERM: every connection is closed, whether it was accepted or not.
LEMMA DumpIs ==
  ASSUME TypeInv, Queue, Post, term = "flag"
  PROVE  /\ conns' = <<>> /\ backlog' = <<>> /\ term' = "yes" /\ ConnTable' /\ Queue'
         /\ \A c \in Clients :
              /\ sock[c].st \notin {"open", "backlog"} => sock'[c] = sock[c]
              /\ sock[c].st \in {"open", "backlog"} =>
                   /\ sock'[c].st \in {"eof", "reset"} /\ sock'[c].up = <<>>
                   /\ sock'[c].down = sock[c].down /\ sock'[c].shut = sock[c].shut
<1>1. script' = script /\ cl' = cl /\ term' = "yes" /\ conns' = <<>> /\ backlog' = <<>> /\ Shut(Dumped) /\ Typed'
  BY PostTypes DEF Post
<1>2. \A c \in Clients : /\ c \notin Dumped => sock'[c] = sock[c]
                         /\ c \in Dumped => /\ sock'[c].st \in {"eof", "reset"} /\ sock'[c].up = <<>>
                                            /\ sock'[c].down = sock[c].down /\ sock'[c].shut = sock[c].shut
  BY <1>1, ShutIs DEF TypeInv
<1>3. \A c \in Clients :
        /\ sock[c].st \notin {"open", "backlog"} => sock'[c] = sock[c]
        /\ sock[c].st \in {"open", "backlog"} =>
             /\ sock'[c].st \in {"eof", "reset"} /\ sock'[c].up = <<>>
             /\ sock'[c].down = sock[c].down /\ sock'[c].shut = sock[c].shut
  BY <1>2 DEF Dumped
<1>4. \A c \in Clients : sock'[c].st \notin {"open", "backlog"}
  BY <1>3
<1>5. Len(conns') = 0 /\ Len(backlog') = 0
  BY <1>1
<1>6. ConnTable'
  BY <1>1, <1>4, <1>5, TableFrom, BoundAssumption DEF Typed, Distinct
<1>7. ASSUME NEW c \in Clients, cl'[c].pc = "off" PROVE sock'[c] = NoSock
  <2>1. sock[c] = NoSock /\ sock[c].st = "none"
    BY <1>1, <1>7, OffIs DEF Queue
  <2> QED BY <1>3, <2>1
<1>8. Queue'
  BY <1>4, <1>5, <1>7 DEF Queue
<1> QED BY <1>1, <1>3, <1>6, <1>8

(***************************************************************************)
(* The main loop, and what nready counts.                                  *)
(***************************************************************************)
LEMMA LoopIs ==
  ASSUME LoopOK
  PROVE  /\ loop.pc \in {"top", "poll", "post", "serve", "read", "write", "accept", "end"}
         /\ loop.i \in Nat \ {0} /\ loop.nready \in Nat /\ loop.ready \in SUBSET Nat /\ loop.hups \in SUBSET Nat
         /\ loop.self \in BOOLEAN /\ loop.listen \in BOOLEAN /\ IsFiniteSet(loop.ready)
         /\ One(loop.self) \in {0, 1} /\ One(loop.listen) \in {0, 1}
         /\ Left \in SUBSET loop.ready /\ IsFiniteSet(Left) /\ Cardinality(Left) \in Nat
         /\ loop = [pc |-> loop.pc, i |-> loop.i, nready |-> loop.nready, ready |-> loop.ready, hups |-> loop.hups,
                    self |-> loop.self, listen |-> loop.listen]
<1>1. loop \in LoopType /\ IsFiniteSet(loop.ready)
  BY DEF LoopOK
<1>2. /\ loop.pc \in {"top", "poll", "post", "serve", "read", "write", "accept", "end"}
      /\ loop.i \in Nat \ {0} /\ loop.nready \in Nat /\ loop.ready \in SUBSET Nat /\ loop.hups \in SUBSET Nat
      /\ loop.self \in BOOLEAN /\ loop.listen \in BOOLEAN
  BY <1>1 DEF LoopType
<1>3. loop = [pc |-> loop.pc, i |-> loop.i, nready |-> loop.nready, ready |-> loop.ready, hups |-> loop.hups,
              self |-> loop.self, listen |-> loop.listen]
  BY <1>1 DEF LoopType
<1>4. One(loop.self) \in {0, 1} /\ One(loop.listen) \in {0, 1}
  BY DEF One
<1>5. Left \in SUBSET loop.ready
  BY DEF Left
<1>6. IsFiniteSet(Left) /\ Cardinality(Left) \in Nat
  BY <1>1, <1>5, FS_Subset, FS_CardinalityType
<1> QED BY <1>1, <1>2, <1>3, <1>4, <1>5, <1>6

\* Nothing happens to the loop.
LEMMA ProgressSame ==
  ASSUME TypeInv, Progress, loop' = loop, Len(conns') = Len(conns),
         \A i \in 1 .. Len(conns) : conns'[i].fd = conns[i].fd /\ conns'[i].state = conns[i].state,
         term' = "yes" <=> term = "yes", backlog # <<>> => backlog' # <<>>,
         term = "yes" => backlog' = <<>> /\ conns' = <<>>
  PROVE  LoopOK' /\ Progress'
<1>1. LoopOK'
  BY DEF TypeInv, LoopOK
<1>2. Used' = Used /\ Left' = Left /\ Counted' = Counted
  BY DEF Used, Left, Counted
<1>3. \A i \in Used : conns'[i].state = conns[i].state
  BY DEF Used
<1> QED BY <1>1, <1>2, <1>3 DEF Progress

\* A new record for the loop.
LEMMA LoopFrom ==
  ASSUME NEW pc \in {"top", "poll", "post", "serve", "read", "write", "accept", "end"}, NEW i \in Nat \ {0},
         NEW n \in Nat, NEW ready \in SUBSET Nat, NEW hups \in SUBSET Nat, NEW self \in BOOLEAN,
         NEW listen \in BOOLEAN, IsFiniteSet(ready),
         loop' = [pc |-> pc, i |-> i, nready |-> n, ready |-> ready, hups |-> hups, self |-> self, listen |-> listen]
  PROVE  /\ LoopOK' /\ loop'.pc = pc /\ loop'.i = i /\ loop'.nready = n /\ loop'.ready = ready
         /\ loop'.hups = hups /\ loop'.self = self /\ loop'.listen = listen
<1>1. loop' \in LoopType
  BY DEF LoopType
<1>2. /\ loop'.pc = pc /\ loop'.i = i /\ loop'.nready = n /\ loop'.ready = ready
      /\ loop'.hups = hups /\ loop'.self = self /\ loop'.listen = listen
  OBVIOUS
<1> QED BY <1>1, <1>2 DEF LoopOK

LEMMA NextIs ==
  ASSUME LoopOK, NextSlot
  PROVE  /\ LoopOK' /\ loop'.pc = "serve" /\ loop'.i = loop.i + 1 /\ loop'.nready = loop.nready
         /\ loop'.ready = loop.ready \ {loop.i} /\ loop'.hups = loop.hups
         /\ loop'.self = loop.self /\ loop'.listen = loop.listen
<1>1. loop' = [loop EXCEPT !.pc = "serve", !.i = loop.i + 1, !.ready = loop.ready \ {loop.i}]
  BY DEF NextSlot
<1> DEFINE i == loop.i + 1
           ready == loop.ready \ {loop.i}
<1>2. i \in Nat \ {0} /\ ready \in SUBSET Nat /\ IsFiniteSet(ready)
  BY LoopIs, FS_RemoveElement
<1> HIDE DEF i, ready
<1>3. loop' = [pc |-> "serve", i |-> i, nready |-> loop.nready, ready |-> ready, hups |-> loop.hups,
               self |-> loop.self, listen |-> loop.listen]
  BY <1>1, LoopIs DEF i, ready
<1>4. /\ LoopOK' /\ loop'.pc = "serve" /\ loop'.i = i /\ loop'.nready = loop.nready
      /\ loop'.ready = ready /\ loop'.hups = loop.hups /\ loop'.self = loop.self /\ loop'.listen = loop.listen
  BY <1>2, <1>3, LoopIs, LoopFrom
<1> QED BY <1>4 DEF i, ready

\* The loop goes on to the next slot, having done with this one.
LEMMA ServeNext ==
  ASSUME TypeInv, Progress, term # "yes", term' = term, backlog' = backlog, LoopOK',
         loop.pc \in {"serve", "read", "write"},
         loop'.pc = "serve", loop'.i = loop.i + 1, loop'.listen = loop.listen, loop'.hups = loop.hups,
         loop'.ready \in {loop.ready, loop.ready \ {loop.i}}, loop'.nready \in Nat,
         loop.pc \in {"read", "write"} \/ loop.i \notin loop.ready => loop'.nready = loop.nready,
         loop.pc = "serve" /\ loop.i \in loop.ready => loop'.nready = loop.nready - 1,
         Len(conns') = Len(conns), \A j \in 1 .. Len(conns) : j # loop.i => conns'[j].fd = conns[j].fd
  PROVE  Progress'
<1>1. loop.i \in Nat /\ loop.nready \in Nat /\ loop.ready \in SUBSET Nat /\ loop.hups \in SUBSET Nat
      /\ IsFiniteSet(Left) /\ Cardinality(Left) \in Nat /\ One(loop.listen) \in {0, 1}
  BY LoopIs DEF TypeInv
<1>2. Left' = {j \in loop.ready : loop.i < j}
  <2>1. Left' = {j \in loop'.ready : loop.i + 1 <= j}
    BY DEF Left
  <2> QED BY <1>1, <2>1
<1>3. Left' = Left \ {loop.i}
  <2>1. CASE loop.pc = "serve"
    <3>1. Left = {j \in loop.ready : loop.i <= j}
      BY <2>1 DEF Left
    <3> QED BY <1>1, <1>2, <3>1
  <2>2. CASE loop.pc \in {"read", "write"}
    <3>1. Left = {j \in loop.ready : loop.i < j}
      BY <2>2 DEF Left
    <3> QED BY <1>1, <1>2, <3>1
  <2> QED BY <2>1, <2>2
<1>4. Left' \subseteq Used'
  <2>1. Left \subseteq Used
    BY DEF Progress
  <2> QED BY <1>3, <2>1 DEF Used
<1>5. loop'.nready = Counted'
  <2>1. loop.nready = One(loop.listen) + Cardinality(Left)
    BY <1>1 DEF Progress, Counted
  <2>2. Counted' = One(loop.listen) + Cardinality(Left')
    <3>1. Counted' = 0 + One(loop.listen) + Cardinality(Left')
      BY DEF Counted
    <3>2. Cardinality(Left') \in Nat
      BY <1>1, <1>3, FS_RemoveElement, FS_CardinalityType
    <3> QED BY <1>1, <3>1, <3>2
  <2>3. Cardinality(Left') = IF loop.i \in Left THEN Cardinality(Left) - 1 ELSE Cardinality(Left)
    BY <1>1, <1>3, FS_RemoveElement
  <2>4. loop.i \in Left <=> loop.pc = "serve" /\ loop.i \in loop.ready
    BY <1>1 DEF Left
  <2> QED BY <1>1, <2>1, <2>2, <2>3, <2>4
<1>6. \A j \in loop'.hups : loop'.i <= j => j \in loop'.ready
  BY <1>1 DEF Progress
<1>7. loop'.listen => backlog' # <<>>
  BY DEF Progress
<1> QED BY <1>4, <1>5, <1>6, <1>7 DEF Progress

\* A step that ends the round.
LEMMA ProgressTop ==
  ASSUME Progress, loop' = NoPoll, conns' = conns, backlog' = backlog, term' = term
  PROVE  LoopOK' /\ Progress'
<1>1. loop' = [pc |-> "top", i |-> 1, nready |-> 0, ready |-> {}, hups |-> {}, self |-> FALSE, listen |-> FALSE]
  BY DEF NoPoll
<1>2. IsFiniteSet({}) /\ 1 \in Nat \ {0}
  BY FS_EmptySet
<1>3. loop' \in LoopType
  BY <1>1 DEF LoopType
<1>4. loop'.pc = "top" /\ loop'.hups = {} /\ loop'.ready = {}
  BY <1>1
<1>5. LoopOK'
  BY <1>2, <1>3, <1>4 DEF LoopOK
<1> QED BY <1>4, <1>5 DEF Progress

LEMMA TopProgress ==
  ASSUME TypeInv, ConnTable, Progress, Top
  PROVE  LoopOK' /\ Progress'
<1>1. loop.pc = "top" /\ loop' = [loop EXCEPT !.pc = "poll"] /\ UNCHANGED <<term, backlog>>
  BY DEF Top, Goto
<1>2. loop' = [pc |-> "poll", i |-> loop.i, nready |-> loop.nready, ready |-> loop.ready, hups |-> loop.hups,
               self |-> loop.self, listen |-> loop.listen]
  BY <1>1, LoopIs DEF TypeInv
<1>3. LoopOK' /\ loop'.pc = "poll" /\ loop'.i = loop.i /\ loop'.ready = loop.ready /\ loop'.hups = loop.hups
  BY <1>2, LoopIs, LoopFrom DEF TypeInv
<1>4. \A j \in 1 .. Len(conns') : conns'[j].fd # None
  BY TopIs
<1>5. Used' = 1 .. Len(conns')
  BY <1>4 DEF Used
<1>6. term' = "yes" => conns' = <<>> /\ backlog' = <<>>
  <2>1. term = "yes" => Len(conns) = 0
    BY DEF Progress
  <2>2. Len(conns') <= Len(conns) /\ conns' \in Seq(ConnType)
    BY TopIs DEF Typed, ConnsOK
  <2>3. term = "yes" => conns' = <<>>
    BY <2>1, <2>2, EmptySeq
  <2> QED BY <1>1, <2>3 DEF Progress
<1> QED BY <1>1, <1>3, <1>5, <1>6 DEF Progress

\* poll() reports connections that are there.
LEMMA PollProgress ==
  ASSUME TypeInv, Progress, Poll
  PROVE  LoopOK' /\ Progress'
<1>1. loop.pc = "poll" /\ UNCHANGED <<conns, backlog>> /\ (term' = "yes" <=> term = "yes")
  BY DEF Poll
<1> DEFINE open == IF term = "yes" THEN {} ELSE 1 .. Len(conns)
           hups == {i \in open : Hup(conns[i])}
           ready == hups \cup {i \in open : In(conns[i]) \/ Out(conns[i])}
           listen == term # "yes" /\ backlog # <<>>
<1>2. PICK self \in BOOLEAN :
        loop' = [pc |-> "post", i |-> 1, ready |-> ready, hups |-> hups, self |-> self,
                 listen |-> listen, nready |-> One(self) + One(listen) + Cardinality(ready)]
  BY DEF Poll
<1>3. Used = 1 .. Len(conns) /\ Len(conns) \in Nat
  BY <1>1 DEF Progress, TypeInv, ConnsOK
<1>4. open \in SUBSET Used /\ open \in SUBSET (Nat \ {0}) /\ IsFiniteSet(open)
  <2>1. IsFiniteSet(1 .. Len(conns))
    BY <1>3, FS_Interval
  <2> QED BY <1>3, <2>1, FS_EmptySet
<1> HIDE DEF open
<1>5. hups \subseteq ready /\ ready \subseteq open
  OBVIOUS
<1>6. listen \in BOOLEAN /\ (listen => backlog # <<>>)
  OBVIOUS
<1> HIDE DEF hups, ready, listen
<1>7. IsFiniteSet(ready) /\ Cardinality(ready) \in Nat
  BY <1>4, <1>5, FS_Subset, FS_CardinalityType
<1> DEFINE n == One(self) + One(listen) + Cardinality(ready)
<1>8. n \in Nat
  BY <1>7 DEF One
<1> HIDE DEF n
<1>9. loop' = [pc |-> "post", i |-> 1, nready |-> n, ready |-> ready, hups |-> hups, self |-> self, listen |-> listen]
  BY <1>2 DEF n
<1>10. /\ LoopOK' /\ loop'.pc = "post" /\ loop'.i = 1 /\ loop'.nready = n /\ loop'.ready = ready
       /\ loop'.hups = hups /\ loop'.self = self /\ loop'.listen = listen
  <2>1. 1 \in Nat \ {0} /\ ready \in SUBSET Nat /\ hups \in SUBSET Nat
    BY <1>4, <1>5
  <2> QED BY <1>6, <1>7, <1>8, <1>9, <2>1, LoopFrom
<1>11. Left' = ready
  <2>1. Left' = {j \in ready : 1 <= j}
    BY <1>10 DEF Left
  <2>2. \A j \in ready : j \in Nat \ {0}
    BY <1>4, <1>5
  <2>3. \A j \in ready : 1 <= j
    BY <2>2
  <2> QED BY <2>1, <2>3
<1>12. Counted' = n
  BY <1>10, <1>11 DEF Counted, n
<1>13. Used' = Used
  BY <1>1 DEF Used
<1> QED BY <1>1, <1>4, <1>5, <1>6, <1>10, <1>11, <1>12, <1>13 DEF Progress

LEMMA PostProgress ==
  ASSUME TypeInv, Progress, Post
  PROVE  LoopOK' /\ Progress'
<1> DEFINE n == loop.nready - One(loop.self)
<1>1. loop.pc = "post" /\ loop' = IF failing' \/ n = 0 THEN NoPoll ELSE [loop EXCEPT !.nready = n, !.pc = "serve"]
  BY DEF Post
<1>2. \/ term = "flag" /\ term' = "yes" /\ conns' = <<>> /\ backlog' = <<>>
      \/ term # "flag" /\ UNCHANGED <<term, conns, backlog>>
  BY DEF Post
<1>3. loop.i = 1 /\ loop.nready = One(loop.self) + One(loop.listen) + Cardinality(Left)
  BY <1>1 DEF Progress, Counted
<1>4. n \in Nat /\ n = One(loop.listen) + Cardinality(Left)
  BY <1>3, LoopIs DEF TypeInv
<1> HIDE DEF n
<1>5. CASE loop' = NoPoll
  <2>1. LoopOK' /\ loop'.pc = "top" /\ loop'.hups = {}
    <3>1. loop' = [pc |-> "top", i |-> 1, nready |-> 0, ready |-> {}, hups |-> {}, self |-> FALSE, listen |-> FALSE]
      BY <1>5 DEF NoPoll
    <3>2. loop' \in LoopType
      BY <3>1 DEF LoopType
    <3>3. loop'.pc = "top" /\ loop'.hups = {} /\ loop'.ready = {}
      BY <3>1
    <3> QED BY <3>2, <3>3, FS_EmptySet DEF LoopOK
  <2> QED BY <1>2, <2>1 DEF Progress
<1>6. CASE loop' = [loop EXCEPT !.nready = n, !.pc = "serve"]
  <2>1. loop' = [pc |-> "serve", i |-> loop.i, nready |-> n, ready |-> loop.ready, hups |-> loop.hups,
                 self |-> loop.self, listen |-> loop.listen]
    BY <1>6, LoopIs DEF TypeInv
  <2>2. /\ LoopOK' /\ loop'.pc = "serve" /\ loop'.i = loop.i /\ loop'.nready = n /\ loop'.ready = loop.ready
        /\ loop'.hups = loop.hups /\ loop'.self = loop.self /\ loop'.listen = loop.listen
    BY <1>4, <2>1, LoopIs, LoopFrom DEF TypeInv
  <2>3. Left' = Left
    BY <1>1, <2>2 DEF Left
  <2>4. Counted' = n
    <3>1. Counted' = 0 + One(loop.listen) + Cardinality(Left)
      BY <2>2, <2>3 DEF Counted
    <3> QED BY <1>4, <3>1, LoopIs DEF TypeInv
  <2>5. term' # "yes" => Used' = Used /\ Left \subseteq Used /\ (loop.listen => backlog' # <<>>)
    BY <1>1, <1>2 DEF Used, Progress
  <2>6. term' = "yes" => conns' = <<>> /\ backlog' = <<>>
    BY <1>2 DEF Progress
  <2> QED BY <2>2, <2>3, <2>4, <2>5, <2>6 DEF Progress
<1> QED BY <1>1, <1>5, <1>6

LEMMA PassedProgress ==
  ASSUME TypeInv, Progress, Passed
  PROVE  LoopOK' /\ Progress'
<1>1. UNCHANGED <<conns, backlog, term>> /\ loop.pc = "serve" /\ (loop.i > Len(conns) \/ loop.nready = 0)
  BY DEF Passed
<1>2. CASE loop.nready = 0
  BY <1>1, <1>2, ProgressTop DEF Passed
<1>3. CASE loop.nready # 0
  <2>1. loop' = [NoPoll EXCEPT !.pc = "accept", !.nready = loop.nready, !.listen = loop.listen]
    BY <1>3 DEF Passed
  <2>2. PICK f \in BOOLEAN : f = FALSE
    OBVIOUS
  <2>3. loop' = [pc |-> "accept", i |-> 1, nready |-> loop.nready, ready |-> {}, hups |-> {}, self |-> f,
                 listen |-> loop.listen]
    <3>1. NoPoll = [pc |-> "top", i |-> 1, nready |-> 0, ready |-> {}, hups |-> {}, self |-> f, listen |-> f]
      BY <2>2 DEF NoPoll
    <3> QED BY <2>1, <3>1
  <2>4. /\ LoopOK' /\ loop'.pc = "accept" /\ loop'.nready = loop.nready /\ loop'.ready = {}
        /\ loop'.hups = {} /\ loop'.listen = loop.listen
    <3>1. 1 \in Nat \ {0} /\ IsFiniteSet({}) /\ {} \in SUBSET Nat
      BY FS_EmptySet
    <3> QED BY <2>2, <2>3, <3>1, LoopIs, LoopFrom DEF TypeInv
  <2>5. ASSUME term # "yes" PROVE loop.nready = Counted' /\ (loop.listen => backlog # <<>>)
    <3>1. /\ loop.nready = One(loop.listen) + Cardinality(Left) /\ Left \subseteq Used
          /\ (loop.listen => backlog # <<>>)
      <4>1. loop.nready = 0 + One(loop.listen) + Cardinality(Left)
        BY <1>1, <2>5 DEF Progress, Counted
      <4> QED BY <1>1, <2>5, <4>1, LoopIs DEF Progress, TypeInv
    <3>2. Left = {}
      <4>1. Left = {j \in loop.ready : loop.i <= j} /\ loop.i > Len(conns)
        BY <1>1, <1>3 DEF Left
      <4>2. Len(conns) \in Nat /\ loop.i \in Nat
        BY LoopIs DEF TypeInv, ConnsOK
      <4> QED BY <3>1, <4>1, <4>2 DEF Used
    <3>3. Cardinality(Left) = 0
      BY <3>2, FS_EmptySet
    <3>4. Counted' = One(loop.listen)
      <4>1. Left' = {}
        BY <2>4 DEF Left
      <4>2. Counted' = 0 + One(loop.listen) + 0
        BY <2>4, <4>1, FS_EmptySet DEF Counted
      <4> QED BY <4>2, LoopIs DEF TypeInv
    <3> QED BY <3>1, <3>3, <3>4, LoopIs DEF TypeInv
  <2>6. term = "yes" => conns = <<>> /\ backlog = <<>>
    BY DEF Progress
  <2> QED BY <1>1, <1>3, <2>4, <2>5, <2>6 DEF Progress
<1> QED BY <1>2, <1>3

LEMMA AcceptProgress ==
  ASSUME TypeInv, Progress, Accept
  PROVE  LoopOK' /\ Progress'
<1> DEFINE n == loop.nready - One(loop.listen)
<1>1. loop.pc = "accept" /\ loop' = [loop EXCEPT !.pc = "end", !.nready = n] /\ term' = term
  BY DEF Accept
<1>2. n \in Nat /\ (term # "yes" => n = 0)
  <2>1. loop.nready # 0 /\ loop.nready \in Nat /\ One(loop.listen) \in {0, 1}
    BY <1>1, LoopIs DEF Progress, TypeInv
  <2>2. term # "yes" => loop.nready = One(loop.listen)
    <3>1. Left = {}
      BY <1>1 DEF Left
    <3>2. term # "yes" => loop.nready = 0 + One(loop.listen) + 0
      BY <1>1, <3>1, FS_EmptySet DEF Progress, Counted
    <3> QED BY <2>1, <3>2
  <2> QED BY <2>1, <2>2
<1> HIDE DEF n
<1>3. loop' = [pc |-> "end", i |-> loop.i, nready |-> n, ready |-> loop.ready, hups |-> loop.hups,
               self |-> loop.self, listen |-> loop.listen]
  BY <1>1, LoopIs DEF TypeInv
<1>4. LoopOK' /\ loop'.pc = "end" /\ loop'.i = loop.i /\ loop'.nready = n /\ loop'.ready = loop.ready /\ loop'.hups = loop.hups
  BY <1>2, <1>3, LoopIs, LoopFrom DEF TypeInv
<1>5. term = "yes" => conns' = <<>> /\ backlog' = <<>>
  <2>1. term = "yes" => conns = <<>> /\ backlog = <<>>
    BY DEF Progress
  <2>2. term = "yes" => AcceptNothing
    BY AcceptIs
  <2> QED BY <2>1, <2>2 DEF AcceptNothing
<1> QED BY <1>1, <1>2, <1>4, <1>5 DEF Progress

\* The loop over clients[].
LEMMA AtIs ==
  ASSUME TypeInv, Progress, NEW label \in {"serve", "read", "write"}, AtSlot(label)
  PROVE  /\ term # "yes" /\ loop.pc = label /\ loop.i \in 1 .. Len(conns)
         /\ label # "serve" => loop.i \in Used
         /\ label = "serve" /\ loop.i \in loop.ready => loop.i \in Used
<1>1. loop.pc = label /\ loop.i <= Len(conns) /\ loop.i \in Nat \ {0} /\ Len(conns) \in Nat
  BY LoopIs DEF AtSlot, TypeInv, ConnsOK
<1>2. term # "yes"
  <2>1. conns # <<>>
    BY <1>1
  <2> QED BY <2>1 DEF Progress
<1>3. label # "serve" => loop.i \in Used
  BY <1>1 DEF Progress
<1>4. label = "serve" /\ loop.i \in loop.ready => loop.i \in Used
  <2>1. label = "serve" /\ loop.i \in loop.ready => loop.i \in Left
    BY <1>1 DEF Left
  <2> QED BY <1>1, <1>2, <2>1 DEF Progress
<1> QED BY <1>1, <1>2, <1>3, <1>4

LEMMA PassProgress ==
  ASSUME TypeInv, Progress, Pass
  PROVE  LoopOK' /\ Progress'
<1>1. AtSlot("serve") /\ loop.i \notin loop.ready /\ NextSlot /\ UNCHANGED <<conns, backlog, term>>
  BY DEF Pass
<1>2. term # "yes" /\ loop.pc = "serve"
  BY <1>1, AtIs
<1>3. /\ LoopOK' /\ loop'.pc = "serve" /\ loop'.i = loop.i + 1 /\ loop'.nready = loop.nready
      /\ loop'.ready = loop.ready \ {loop.i} /\ loop'.hups = loop.hups /\ loop'.listen = loop.listen
  BY <1>1, NextIs DEF TypeInv
<1>4. loop'.nready \in Nat
  BY <1>3, LoopIs DEF TypeInv
<1> QED BY <1>1, <1>2, <1>3, <1>4, ServeNext

\* The ends of a turn in "read" and "write".
LEMMA TurnOver ==
  ASSUME TypeInv, Progress, NEW label \in {"read", "write"}, AtSlot(label), NextSlot, UNCHANGED <<backlog, term>>,
         Len(conns') = Len(conns), \A j \in 1 .. Len(conns) : j # loop.i => conns'[j].fd = conns[j].fd
  PROVE  LoopOK' /\ Progress'
<1>1. term # "yes" /\ loop.pc \in {"read", "write"}
  BY AtIs
<1>2. /\ LoopOK' /\ loop'.pc = "serve" /\ loop'.i = loop.i + 1 /\ loop'.nready = loop.nready
      /\ loop'.ready = loop.ready \ {loop.i} /\ loop'.hups = loop.hups /\ loop'.listen = loop.listen
  BY NextIs DEF TypeInv
<1>3. loop'.nready \in Nat
  BY <1>2, LoopIs DEF TypeInv
<1> QED BY <1>1, <1>2, <1>3, ServeNext

\* An event of slot i is counted, so nready does not become negative.
LEMMA CountedOnce ==
  ASSUME TypeInv, Progress, AtSlot("serve"), loop.i \in loop.ready
  PROVE  /\ loop.nready - 1 \in Nat /\ Left = {j \in loop.ready : loop.i <= j} /\ loop.i \in Left
         /\ loop.nready = One(loop.listen) + Cardinality(Left)
<1>1. term # "yes" /\ loop.pc = "serve"
  BY AtIs
<1>2. Left = {j \in loop.ready : loop.i <= j}
  BY <1>1 DEF Left
<1>3. loop.i \in Left
  BY <1>2, LoopIs DEF TypeInv
<1>4. loop.nready = 0 + One(loop.listen) + Cardinality(Left)
  BY <1>1 DEF Progress, Counted
<1>5. Cardinality(Left) # 0
  BY <1>3, LoopIs, FS_EmptySet DEF TypeInv
<1> QED BY <1>2, <1>3, <1>4, <1>5, LoopIs DEF TypeInv

LEMMA HupProgress ==
  ASSUME TypeInv, Progress, CloseHup
  PROVE  LoopOK' /\ Progress' /\ loop.i \in Used
<1> DEFINE n == loop.nready - 1
           i == loop.i + 1
<1>1. /\ AtSlot("serve") /\ loop.i \in loop.hups /\ Close(loop.i) /\ UNCHANGED <<script, backlog, term>>
      /\ loop' = [loop EXCEPT !.nready = n, !.i = i]
  BY DEF CloseHup, Attended
<1>2. loop.i \in loop.ready
  BY <1>1, LoopIs DEF Progress, TypeInv
<1>3. term # "yes" /\ loop.pc = "serve" /\ loop.i \in Used
  BY <1>1, <1>2, AtIs
<1>4. n \in Nat /\ i \in Nat \ {0}
  BY <1>1, <1>2, CountedOnce, LoopIs DEF TypeInv
<1>5. /\ Len(conns') = Len(conns) /\ \A j \in 1 .. Len(conns) : j # loop.i => conns'[j].fd = conns[j].fd
  BY <1>1, <1>3, CloseIs
<1> HIDE DEF n, i
<1>6. loop' = [pc |-> "serve", i |-> i, nready |-> n, ready |-> loop.ready, hups |-> loop.hups,
               self |-> loop.self, listen |-> loop.listen]
  BY <1>1, <1>3, LoopIs DEF TypeInv
<1>7. /\ LoopOK' /\ loop'.pc = "serve" /\ loop'.i = i /\ loop'.nready = n /\ loop'.ready = loop.ready
      /\ loop'.hups = loop.hups /\ loop'.listen = loop.listen
  BY <1>4, <1>6, LoopIs, LoopFrom DEF TypeInv
<1>8. Progress'
  BY <1>1, <1>2, <1>3, <1>4, <1>5, <1>7, ServeNext DEF n, i
<1> QED BY <1>3, <1>7, <1>8

LEMMA ServeProgress ==
  ASSUME TypeInv, Progress, Serve
  PROVE  LoopOK' /\ Progress'
<1> DEFINE n == loop.nready - 1
           pc == IF conns[loop.i].state = "READING" THEN "read" ELSE "write"
<1>1. /\ AtSlot("serve") /\ loop.i \in loop.ready /\ UNCHANGED <<conns, backlog, term>>
      /\ loop' = [loop EXCEPT !.nready = n, !.pc = pc]
  BY DEF Serve
<1>2. term # "yes" /\ loop.pc = "serve" /\ loop.i \in Used
  BY <1>1, AtIs
<1>3. /\ n \in Nat /\ Left = {j \in loop.ready : loop.i <= j} /\ loop.i \in Left
      /\ loop.nready = One(loop.listen) + Cardinality(Left)
  BY <1>1, CountedOnce
<1>4. pc \in {"read", "write"} /\ conns[loop.i].state = IF pc = "read" THEN "READING" ELSE "WRITING"
  <2>1. conns[loop.i].state \in {"READING", "WRITING"}
    BY <1>2, UsedIs, RawAssumption DEF ConnOK, ConnType
  <2> QED BY <2>1
<1> HIDE DEF n, pc
<1>5. loop' = [pc |-> pc, i |-> loop.i, nready |-> n, ready |-> loop.ready, hups |-> loop.hups,
               self |-> loop.self, listen |-> loop.listen]
  BY <1>1, LoopIs DEF TypeInv
<1>6. /\ LoopOK' /\ loop'.pc = pc /\ loop'.i = loop.i /\ loop'.nready = n /\ loop'.ready = loop.ready
      /\ loop'.hups = loop.hups /\ loop'.listen = loop.listen
  BY <1>3, <1>4, <1>5, LoopIs, LoopFrom DEF TypeInv
<1>7. Left' = Left \ {loop.i}
  <2>1. Left' = {j \in loop.ready : loop.i < j}
    BY <1>4, <1>6 DEF Left
  <2>2. loop.i \in Nat /\ loop.ready \in SUBSET Nat
    BY LoopIs DEF TypeInv
  <2> QED BY <1>3, <2>1, <2>2
<1>8. Counted' = n
  <2>1. Cardinality(Left') = Cardinality(Left) - 1 /\ Cardinality(Left) \in Nat /\ Cardinality(Left') \in Nat
    <3>1. IsFiniteSet(Left) /\ Cardinality(Left) \in Nat
      BY LoopIs DEF TypeInv
    <3> QED BY <1>3, <1>7, <3>1, FS_RemoveElement, FS_CardinalityType
  <2>2. Counted' = 0 + One(loop.listen) + Cardinality(Left')
    BY <1>4, <1>6 DEF Counted
  <2> QED BY <1>3, <2>1, <2>2, LoopIs DEF n, TypeInv
<1>9. Used' = Used /\ Left' \subseteq Used
  <2>1. Used' = Used
    BY <1>1 DEF Used
  <2>2. Left \subseteq Used
    BY <1>2 DEF Progress
  <2> QED BY <1>7, <2>1, <2>2
<1>10. loop.listen => backlog # <<>>
  BY <1>2 DEF Progress
<1>11. \A j \in loop.hups : loop.i <= j => j \in loop.ready
  BY DEF Progress
<1> QED BY <1>1, <1>2, <1>4, <1>6, <1>8, <1>9, <1>10, <1>11 DEF Progress

(***************************************************************************)
(* TableInv is inductive.                                                  *)
(***************************************************************************)
Kept == ConnTable' /\ Queue' /\ LoopOK' /\ Progress'
LEMMA TableFromParts ==
  ASSUME Typed', Kept
  PROVE  TableInv'
  BY DEF Typed, Kept, TableInv, TypeInv

LEMMA InitTable ==
  ASSUME Init
  PROVE  TableInv
<1>1. /\ script \in Scripts /\ cl = [c \in Clients |-> Idle] /\ sock = [c \in Clients |-> NoSock]
      /\ backlog = <<>> /\ conns = <<>> /\ loop = NoPoll /\ term = "no" /\ failing = FALSE
      /\ sv \in [Services -> [known : {TRUE}, cull : {FALSE}, status : {"down"}]]
      /\ budget \in [Events -> Nat]
      /\ done = [r \in RequestIds |-> Nothing] /\ told = [r \in RequestIds |-> Nothing]
  BY BudgetsAssumption DEF Init
<1>2. <<>> \in Seq(Unit) /\ Len(<<>>) = 0
  OBVIOUS
<1>3. ClientsOK
  <2>1. ASSUME NEW c \in Clients PROVE ClientOK(c, Idle) /\ Idle \in ClientType
    <3>1. Len(script[c]) \in 1 .. Args
      BY <1>1, ScriptIs
    <3>2. 1 \in 1 .. Args /\ 1 <= Len(script[c])
      BY <3>1, ArgsAssumption
    <3>3. Idle \in ClientType /\ Idle.k = 1 /\ Idle.pc = "off"
      BY <1>2, <3>2 DEF Idle, ClientType
    <3> QED BY <3>2, <3>3 DEF ClientOK
  <2> QED BY <1>1, <2>1 DEF ClientsOK
<1>4. SocksOK
  <2>1. NoSock \in SockType /\ NoSock.up = <<>> /\ NoSock.down = <<>> /\ NoSock.st = "none"
    BY <1>2 DEF NoSock, SockType
  <2>2. \A c \in Clients : SockOK(c, NoSock)
    BY <1>2, <2>1, CapAssumption DEF SockOK, About
  <2> QED BY <1>1, <2>1, <2>2 DEF SocksOK
<1>5. ConnsOK
  BY <1>1 DEF ConnsOK
<1>6. RestOK
  <2>1. sv \in [Services -> [known : BOOLEAN, cull : BOOLEAN, status : Statuses]]
    BY <1>1 DEF Statuses
  <2>2. done = [r \in RequestIds |-> done[r]] /\ told = [r \in RequestIds |-> told[r]]
    BY <1>1
  <2>3. backlog \in Seq(Clients) /\ term \in {"no", "sent", "flag", "yes"} /\ failing \in BOOLEAN
    <3>1. backlog \in Seq(Clients)
      BY <1>1
    <3>2. failing \in BOOLEAN
      BY <1>1
    <3> QED BY <1>1, <3>1, <3>2
  <2> QED BY <1>1, <2>1, <2>2, <2>3 DEF RestOK
<1>7. LoopOK /\ loop.pc = "top" /\ loop.hups = {}
  <2>1. loop = [pc |-> "top", i |-> 1, nready |-> 0, ready |-> {}, hups |-> {}, self |-> FALSE, listen |-> FALSE]
    BY <1>1 DEF NoPoll
  <2>2. loop \in LoopType
    BY <2>1 DEF LoopType
  <2>3. loop.pc = "top" /\ loop.hups = {} /\ loop.ready = {}
    BY <2>1
  <2> QED BY <2>2, <2>3, FS_EmptySet DEF LoopOK
<1>8. ConnTable
  <2>1. \A c \in Clients : sock[c].st = "none"
    BY <1>1 DEF NoSock
  <2> QED BY <1>1, <2>1, BoundAssumption DEF ConnTable
<1>9. Queue
  <2>1. \A c \in Clients : sock[c].st = "none" /\ sock[c] = NoSock
    BY <1>1 DEF NoSock
  <2> QED BY <1>1, <2>1 DEF Queue
<1>10. Progress
  BY <1>1, <1>7 DEF Progress
<1> QED BY <1>3, <1>4, <1>5, <1>6, <1>7, <1>8, <1>9, <1>10 DEF TableInv, TypeInv

\* perpd_conn_close()
LEMMA CloseKeeps ==
  ASSUME TypeInv, ConnTable, Queue, Typed', NEW i \in Used, Close(i), UNCHANGED <<script, cl, backlog>>
  PROVE  ConnTable' /\ Queue'
<1>1. /\ Len(conns') = Len(conns) /\ conns'[i] = Closed /\ \A j \in 1 .. Len(conns) : j # i => conns'[j] = conns[j]
      /\ \A c \in Clients : /\ c # conns[i].fd => sock'[c] = sock[c]
                            /\ c = conns[i].fd => sock'[c].st \in {"eof", "reset"}
      /\ conns[i].fd \in Clients
  BY CloseIs
<1>2. ConnTable'
  BY <1>1, ClosedOK, TableClose
<1>3. {i} \in SUBSET Used
  OBVIOUS
<1>4. \A c \in Clients : /\ c \notin {conns[j].fd : j \in {i}} => sock'[c] = sock[c]
                         /\ c \in {conns[j].fd : j \in {i}} => sock'[c].st \in {"open", "eof", "reset"}
  BY <1>1
<1>5. Queue'
  BY <1>3, <1>4, QueueClose
<1> QED BY <1>2, <1>5

LEMMA PerpdKeeps ==
  ASSUME TableInv, \/ Top \/ Poll \/ Post \/ LoopStep \/ CloseHup \/ Accept
  PROVE  TableInv'
<1>0. TypeInv /\ ConnTable /\ Queue /\ Progress
  BY DEF TableInv
<1>1. ASSUME Top PROVE TableInv'
  <2>1. /\ Typed'
        /\ \A c \in Clients :
             /\ c \notin {conns[i].fd : i \in StaleOnes} => sock'[c] = sock[c]
             /\ c \in {conns[i].fd : i \in StaleOnes} => sock'[c].st \in {"eof", "reset"}
    BY <1>0, <1>1, TopIs
  <2>2. StaleOnes \in SUBSET Used
    BY DEF StaleOnes, Used, Stale
  <2>3. UNCHANGED <<cl, backlog>>
    BY <1>1 DEF Top
  <2>4. Queue'
    BY <1>0, <2>1, <2>2, <2>3, QueueClose
  <2> QED BY <1>0, <1>1, <2>1, <2>4, TableTop, TopProgress, TableFromParts DEF Kept
<1>2. ASSUME Poll PROVE TableInv'
  <2>1. UNCHANGED <<cl, sock, backlog, conns>>
    BY <1>2 DEF Poll
  <2>2. Typed'
    BY <1>0, <1>2, PollTypes
  <2> QED BY <1>0, <1>2, <2>1, <2>2, TableSame, QueueSame, PollProgress, TableFromParts DEF Kept
<1>3. ASSUME Post PROVE TableInv'
  <2>1. Typed' /\ LoopOK' /\ Progress'
    BY <1>0, <1>3, PostTypes, PostProgress
  <2>2. ConnTable' /\ Queue'
    <3>1. CASE term = "flag"
      BY <1>0, <1>3, <3>1, DumpIs
    <3>2. CASE term # "flag"
      <4>1. UNCHANGED <<cl, sock, backlog, conns>>
        BY <1>3, <3>2 DEF Post
      <4> QED BY <1>0, <2>1, <4>1, TableSame, QueueSame
    <3> QED BY <3>1, <3>2
  <2> QED BY <2>1, <2>2, TableFromParts DEF Kept
<1>4. ASSUME LoopStep PROVE TableInv'
  <2>1. UNCHANGED <<cl, sock, backlog, conns, term>>
    BY <1>4 DEF LoopStep, Pass, Passed, Serve, End
  <2>2. Typed'
    BY <1>0, <1>4, LoopTypes
  <2>3. ConnTable' /\ Queue'
    BY <1>0, <2>1, <2>2, TableSame, QueueSame
  <2>4. End => LoopOK' /\ Progress'
    BY <1>0, <2>1, ProgressTop DEF End
  <2>5. LoopOK' /\ Progress'
    BY <1>0, <1>4, <2>4, PassProgress, PassedProgress, ServeProgress DEF LoopStep
  <2> QED BY <2>2, <2>3, <2>5, TableFromParts DEF Kept
<1>5. ASSUME CloseHup PROVE TableInv'
  <2>1. loop.i \in Used /\ LoopOK' /\ Progress'
    BY <1>0, <1>5, HupProgress
  <2>2. Typed'
    BY <1>0, <1>5, <2>1, HupTypes
  <2>3. Close(loop.i) /\ UNCHANGED <<script, cl, backlog>>
    BY <1>5 DEF CloseHup
  <2>4. ConnTable' /\ Queue'
    BY <1>0, <2>1, <2>2, <2>3, CloseKeeps
  <2> QED BY <2>1, <2>2, <2>4, TableFromParts DEF Kept
<1>6. ASSUME Accept PROVE TableInv'
  BY <1>0, <1>6, AcceptIs, TableAccept, QueueAccept, AcceptProgress, TableFromParts DEF Kept
<1> QED BY <1>1, <1>2, <1>3, <1>4, <1>5, <1>6

LEMMA ServingKeeps ==
  ASSUME TableInv, \/ ReadMore \/ ReadEmpty \/ Write
  PROVE  TableInv'
<1>0. TypeInv /\ ConnTable /\ Queue /\ Progress
  BY DEF TableInv
<1>1. UNCHANGED <<script, cl, backlog, term>> /\ \E label \in {"read", "write"} : AtSlot(label)
  BY DEF ReadMore, ReadEmpty, Write
<1>2. loop.i \in Used
  BY <1>0, <1>1, AtIs
<1> DEFINE conn == conns[loop.i]
           c == conn.fd
<1>3. loop.i \in 1 .. Len(conns) /\ conn \in ConnType /\ ConnOK(conn) /\ c \in Clients /\ sock[c] \in SockType /\ conn.fd # None
      /\ sock[c].st = "open" /\ Len(conns) \in Nat
  BY <1>0, <1>2, UsedIs, TableIs DEF Used
<1>4. Typed'
  BY <1>0, <1>2, ReadIs, EmptyIs, WriteIs
<1>5. ASSUME Close(loop.i), NextSlot PROVE TableInv'
  <2>1. ConnTable' /\ Queue'
    BY <1>0, <1>1, <1>2, <1>4, <1>5, CloseKeeps
  <2>2. Len(conns') = Len(conns) /\ \A j \in 1 .. Len(conns) : j # loop.i => conns'[j].fd = conns[j].fd
    BY <1>0, <1>1, <1>2, <1>5, CloseIs
  <2> QED BY <1>0, <1>1, <1>4, <1>5, <2>1, <2>2, TurnOver, TableFromParts DEF Kept
\* The connection stays.
<1>6. ASSUME NEW x, ConnOK(x), x.fd = c, conns' = [conns EXCEPT ![loop.i] = x],
             NEW s, SockOK(c, s), s.st = "open", sock' = [sock EXCEPT ![c] = s],
             NextSlot \/ (UNCHANGED loop /\ x.state = conn.state)
      PROVE  TableInv'
  <2>1. /\ Len(conns') = Len(conns) /\ conns'[loop.i] = x
        /\ \A j \in 1 .. Len(conns) : j # loop.i => conns'[j] = conns[j]
    BY <1>0, <1>1, <1>3, <1>6, SetConn DEF TypeInv
  <2>2. sock'[c] = s /\ \A d \in Clients \ {c} : sock'[d] = sock[d]
    BY <1>0, <1>1, <1>3, <1>6, SetSock DEF TypeInv
  <2>3. ConnTable'
    BY <1>0, <1>3, <1>4, <1>6, <2>1, <2>2, TableSame
  <2>4. Queue'
    <3>1. {loop.i} \in SUBSET Used
      BY <1>2
    <3>2. \A d \in Clients : /\ d \notin {conns[i].fd : i \in {loop.i}} => sock'[d] = sock[d]
                             /\ d \in {conns[i].fd : i \in {loop.i}} => sock'[d].st \in {"open", "eof", "reset"}
      BY <1>6, <2>2
    <3> QED BY <1>0, <1>1, <3>1, <3>2, QueueClose
  <2>5. LoopOK' /\ Progress'
    <3>1. CASE NextSlot
      BY <1>0, <1>1, <2>1, <3>1, TurnOver
    <3>2. CASE UNCHANGED loop /\ x.state = conn.state
      <4>1. \A j \in 1 .. Len(conns) : conns'[j].fd = conns[j].fd /\ conns'[j].state = conns[j].state
        BY <1>6, <2>1, <3>2
      <4>2. term # "yes"
        BY <1>0, <1>1, AtIs
      <4> QED BY <1>0, <1>1, <2>1, <3>2, <4>1, <4>2, ProgressSame
    <3> QED BY <1>6, <3>1, <3>2
  <2> QED BY <1>4, <2>3, <2>4, <2>5, TableFromParts DEF Kept
<1>7. ASSUME UNCHANGED <<conns, sock>>, NextSlot PROVE TableInv'
  BY <1>0, <1>1, <1>4, <1>7, TableSame, QueueSame, TurnOver, TableFromParts DEF Kept
<1>8. ASSUME ReadMore PROVE TableInv'
  <2>1. /\ sock[c].up # <<>> /\ (ReadOver \/ ReadPart \/ ReadWhole)
        /\ Got[1].r \in RequestIds /\ Got[1].r[1] = c
        /\ Exec(Got[1].type, script[Got[1].r[1]][Got[1].r[2]].sv) \in Results
    BY <1>0, <1>2, <1>8, ReadIs
  <2>2. /\ Got \in Seq(Unit) /\ Len(Got) \in Nat \ {0} /\ About(c, Got)
        /\ SockOK(c, Taken) /\ Taken.st = "open"
    <3>0. sock[conns[loop.i].fd].up # <<>>
      BY <1>8 DEF ReadMore
    <3>1. /\ Got \in Seq(Unit) /\ Len(Got) \in Nat \ {0} /\ About(conns[loop.i].fd, Got)
          /\ SockOK(conns[loop.i].fd, Taken) /\ Taken.st = sock[conns[loop.i].fd].st
      <4> HIDE DEF c, conn
      <4> QED BY <1>0, <1>2, <3>0, GotIs
    <3> QED BY <1>3, <3>1
  <2>3. ASSUME ReadOver PROVE TableInv'
    <3> DEFINE s == [Taken EXCEPT !.st = "eof"]
    <3>1. SockOK(c, s) /\ s.st = "eof"
      BY <2>2 DEF SockOK, SockType
    <3> HIDE DEF s
    <3>2. /\ sock'[c] = s /\ \A d \in Clients \ {c} : sock'[d] = sock[d]
      BY <1>0, <1>1, <1>3, <2>3, <3>1, SetSock DEF TypeInv, ReadOver, s
    <3>3. /\ Len(conns') = Len(conns) /\ conns'[loop.i] = Closed
          /\ \A j \in 1 .. Len(conns) : j # loop.i => conns'[j] = conns[j]
      BY <1>0, <1>1, <1>3, <2>3, ClosedOK, SetConn DEF TypeInv, ReadOver
    <3>4. ConnTable'
      BY <1>0, <1>2, <1>4, <3>1, <3>2, <3>3, ClosedOK, TableClose
    <3>5. Queue'
      <4>1. {loop.i} \in SUBSET Used
        BY <1>2
      <4>2. \A d \in Clients : /\ d \notin {conns[i].fd : i \in {loop.i}} => sock'[d] = sock[d]
                               /\ d \in {conns[i].fd : i \in {loop.i}} => sock'[d].st \in {"open", "eof", "reset"}
        BY <3>1, <3>2
      <4> QED BY <1>0, <1>1, <4>1, <4>2, QueueClose
    <3>6. LoopOK' /\ Progress'
      BY <1>0, <1>1, <2>3, <3>3, TurnOver DEF ReadOver
    <3> QED BY <1>4, <3>4, <3>5, <3>6, TableFromParts DEF Kept
  <2>4. ASSUME ReadPart PROVE TableInv'
    <3> DEFINE x == [conn EXCEPT !.pkt = Got]
    <3>1. x.fd = c /\ x.state = conn.state
      BY <1>3 DEF ConnType
    <3>2. ConnOK(x)
      <4>1. conns'[loop.i] = x
        BY <1>0, <1>3, <2>4 DEF ReadPart, TypeInv, ConnsOK
      <4>2. conn.state = "READING" /\ conn.w \in 0 .. 3 /\ conn.age \in 0 .. ConnSecs + 1
        BY <1>0, <1>3, <1>8 DEF ReadMore, AtSlot, Progress, ConnType
      <4> QED BY <1>3, <2>2, <4>2 DEF ConnOK, ConnType
    <3> HIDE DEF x, conn
    <3> QED BY <1>6, <2>2, <2>4, <3>1, <3>2 DEF ReadPart, x, conn
  <2>5. ASSUME ReadWhole PROVE TableInv'
    <3> DEFINE r == Got[1].r
               result == Exec(Got[1].type, script[r[1]][r[2]].sv)
               x == Reply(conn, r, result)
    <3>1. conns' = [conns EXCEPT ![loop.i] = x] /\ sock' = [sock EXCEPT ![c] = Taken] /\ NextSlot
      BY <2>5 DEF ReadWhole
    <3>2. r \in RequestIds /\ r[1] = c /\ result \in Results /\ r[2] \in 1 .. Len(script[c])
      BY <2>1, <2>2 DEF About
    <3> HIDE DEF r, result
    <3>3. ConnOK(x) /\ x.fd = c
      <4> HIDE DEF conn
      <4> QED BY <1>3, <3>2, ReplyOK
    <3> HIDE DEF x
    <3> QED BY <1>6, <2>2, <3>1, <3>3
  <2> QED BY <2>1, <2>3, <2>4, <2>5
<1>9. ASSUME ReadEmpty PROVE TableInv'
  BY <1>0, <1>2, <1>5, <1>7, <1>9, EmptyIs
<1>10. ASSUME Write PROVE TableInv'
  <2>1. NextSlot /\ (Close(loop.i) \/ \E k \in 0 .. Len(conn.pkt) - conn.w : WriteSome(k))
    <3>1. /\ NextSlot
          /\ \/ sock[conns[loop.i].fd].shut /\ Close(loop.i)
             \/ /\ ~sock[conns[loop.i].fd].shut
                /\ \E k \in 0 .. Len(conns[loop.i].pkt) - conns[loop.i].w : WriteSome(k)
      BY <1>0, <1>2, <1>10, WriteIs
    <3> QED BY <3>1
  <2>2. ASSUME NEW k \in 0 .. Len(conn.pkt) - conn.w, WriteSome(k) PROVE TableInv'
    <3> DEFINE x == Wrote(conn, k)
               s == [st |-> sock[c].st, shut |-> sock[c].shut, up |-> sock[c].up,
                     down |-> sock[c].down \o SubSeq(conn.pkt, conn.w + 1, conn.w + k)]
    <3>1. conns' = [conns EXCEPT ![loop.i] = x] /\ sock' = [sock EXCEPT ![c] = s]
      BY <2>2 DEF WriteSome
    <3>2. conn.state = "WRITING"
      BY <1>0, <1>10 DEF Write, AtSlot, Progress
    <3>3. ConnOK(x) /\ x.fd = c
      <4> HIDE DEF conn
      <4> QED BY <1>3, <2>2, <3>2, WroteOK
    <3>4. s.st = "open"
      BY <1>3
    <3> HIDE DEF x, s, conn
    <3>5. sock'[c] = s
      BY <1>0, <1>3, <3>1 DEF TypeInv, SocksOK
    <3>6. SockOK(c, s)
      BY <1>1, <1>3, <1>4, <3>5 DEF Typed, SocksOK, SockOK, About
    <3> QED BY <1>6, <2>1, <3>1, <3>3, <3>4, <3>6 DEF conn
  <2> QED BY <1>5, <2>1, <2>2
<1> QED BY <1>8, <1>9, <1>10

\* A client that is connected changes nothing perpd counts.
LEMMA TalksKeeps ==
  ASSUME TableInv, NEW c \in Clients, Talks(c)
  PROVE  TableInv'
<1>0. TypeInv /\ ConnTable /\ Queue /\ Progress
  BY DEF TableInv
<1>1. /\ Typed' /\ cl'[c].pc # "off" /\ sock'[c].st = sock[c].st
      /\ \A d \in Clients \ {c} : cl'[d] = cl[d] /\ sock'[d] = sock[d]
      /\ UNCHANGED <<backlog, conns, loop, term>>
  BY DEF Talks
<1>2. \A d \in Clients : sock'[d].st = sock[d].st
  BY <1>1
<1>3. ConnTable'
  BY <1>0, <1>1, <1>2, TableSame
<1>4. Queue'
  BY <1>0, <1>1, <1>2, QueueSame
<1>5. LoopOK' /\ Progress'
  <2>1. term = "yes" => backlog = <<>> /\ conns = <<>>
    BY <1>0 DEF Progress
  <2> QED BY <1>0, <1>1, <2>1, ProgressSame
<1> QED BY <1>1, <1>3, <1>4, <1>5, TableFromParts DEF Kept

LEMMA ClientKeeps ==
  ASSUME TableInv, NEW c \in Clients, ClientStep(c) \/ Pipeline(c) \/ Kill(c)
  PROVE  TableInv'
<1>0. TypeInv /\ ConnTable /\ Queue /\ Progress
  BY DEF TableInv
<1>1. ASSUME Connect(c) PROVE TableInv'
  <2>1. /\ Typed' /\ cl[c].pc = "off" /\ \A d \in Clients \ {c} : cl'[d] = cl[d] /\ sock'[d] = sock[d]
        /\ \/ term = "yes" /\ sock'[c] = sock[c] /\ backlog' = backlog
           \/ /\ term # "yes" /\ backlog' = Append(backlog, c)
              /\ sock'[c] = [st |-> "backlog", shut |-> FALSE, up |-> <<>>, down |-> <<>>]
    BY <1>0, <1>1, ConnectIs
  <2>2. UNCHANGED <<conns, loop, term>>
    BY <1>1 DEF Connect
  <2>3. sock[c].st = "none"
    BY <1>0, <2>1, OffIs
  <2>4. sock'[c].st \in {"none", "backlog"}
    BY <2>1, <2>3
  <2>5. ConnTable'
    BY <1>0, <2>1, <2>2, <2>3, <2>4, TableSame
  <2>6. Queue'
    BY <1>0, <1>1, QueueConnect
  <2>7. LoopOK' /\ Progress'
    <3>1. term = "yes" => backlog = <<>> /\ conns = <<>>
      BY <1>0 DEF Progress
    <3>2. Append(backlog, c) # <<>>
      BY <1>0, AppendProperties DEF TypeInv, RestOK
    <3> QED BY <1>0, <2>1, <2>2, <3>1, <3>2, ProgressSame
  <2> QED BY <2>1, <2>5, <2>6, <2>7, TableFromParts DEF Kept
<1>2. ASSUME SkipArg(c) \/ ClientWrite(c) \/ ClientRead(c) \/ Pipeline(c) \/ Kill(c) PROVE TableInv'
  <2>1. Talks(c)
    BY <1>0, <1>2, SkipIs, WriteToIs, ReadFromIs, PipelineIs, KillIs
  <2> QED BY <2>1, TalksKeeps
<1> QED BY <1>1, <1>2 DEF ClientStep

LEMMA WorldKeeps ==
  ASSUME TableInv, Tick \/ Term \/ (\E s \in Services : Turn(s)) \/ UNCHANGED vars
  PROVE  TableInv'
<1>0. TypeInv /\ ConnTable /\ Queue /\ Progress
  BY DEF TableInv
<1>1. term = "yes" => backlog = <<>> /\ conns = <<>>
  BY <1>0 DEF Progress
<1>2. ASSUME Tick PROVE TableInv'
  <2>1. UNCHANGED <<cl, sock, backlog, loop, term>>
    BY <1>2 DEF Tick
  <2>2. /\ Typed' /\ Len(conns') = Len(conns)
        /\ \A i \in 1 .. Len(conns) : conns'[i].fd = conns[i].fd /\ conns'[i].state = conns[i].state
    BY <1>0, <1>2, TickIs
  <2>3. ConnTable' /\ Queue'
    BY <1>0, <2>1, <2>2, TableSame, QueueSame
  <2>4. term = "yes" => conns' = <<>>
    <3>1. conns' \in Seq(ConnType) /\ (term = "yes" => Len(conns') = 0)
      BY <1>1, <2>2 DEF Typed, ConnsOK
    <3> QED BY <3>1, EmptySeq
  <2>5. LoopOK' /\ Progress'
    BY <1>0, <1>1, <2>1, <2>2, <2>4, ProgressSame
  <2> QED BY <2>2, <2>3, <2>5, TableFromParts DEF Kept
<1>3. ASSUME UNCHANGED <<cl, sock, backlog, conns, loop>>, Typed', term' = "yes" <=> term = "yes" PROVE TableInv'
  BY <1>0, <1>1, <1>3, TableSame, QueueSame, ProgressSame, TableFromParts DEF Kept
<1>4. ASSUME Term PROVE TableInv'
  BY <1>0, <1>3, <1>4, TermTypes DEF Term
<1>5. ASSUME NEW s \in Services, Turn(s) PROVE TableInv'
  BY <1>0, <1>3, <1>5, TurnTypes DEF Turn
<1>6. ASSUME UNCHANGED vars PROVE TableInv'
  <2>1. Typed' /\ UNCHANGED <<cl, sock, backlog, conns, loop, term>>
    BY <1>0, <1>6, Unchanged DEF vars, Typed
  <2> QED BY <1>3, <2>1
<1> QED BY <1>2, <1>4, <1>5, <1>6

LEMMA NextTable ==
  ASSUME TableInv, [Next]_vars
  PROVE  TableInv'
  BY PerpdKeeps, ServingKeeps, ClientKeeps, WorldKeeps DEF Next, Perpd, LoopStep

LEMMA TableInvIs ==
  ASSUME TableInv
  PROVE  ConnInv
<1>1. TypeInv /\ ConnTable /\ Progress
  BY DEF TableInv
<1>2. /\ cl \in [Clients -> [pc : {"off", "write", "read", "closed", "killed"}, k : 1 .. Args, w : 0 .. 4,
                             buf : Seq(Unit)]]
      /\ sock \in [Clients -> [st : {"none", "backlog", "open", "eof", "reset"}, shut : BOOLEAN,
                               up : Seq(Unit), down : Seq(Unit)]]
      /\ conns \in Seq([fd : Clients \cup {None}, state : {"CLOSED", "READING", "WRITING"},
                        pkt : Seq(Unit), w : 0 .. 3, age : 0 .. ConnSecs + 1])
  BY <1>1 DEF TypeInv, ClientsOK, SocksOK, ConnsOK, ClientType, SockType, ConnType
<1>3. \A c \in Clients : Len(sock[c].up) <= Cap /\ Len(sock[c].down) <= Cap
  BY <1>1 DEF TypeInv, SocksOK, SockOK
<1>4. loop.nready >= 0
  BY <1>1, LoopIs DEF TypeInv
<1>5. /\ backlog \in Seq(Clients)
      /\ sv \in [Services -> [known : BOOLEAN, cull : BOOLEAN, status : Statuses]]
  BY <1>1 DEF TypeInv, RestOK
<1>6. NoUnhandled
  BY <1>1 DEF Progress, NoUnhandled
<1> QED BY <1>1, <1>2, <1>3, <1>4, <1>5, <1>6 DEF ConnInv, TypeOK

\* perpd's account of its connections is right whatever clients do, however
\* many there are and wherever SIGTERM, a timeout, a hang-up or a failing
\* accept() strikes: clients[] holds each open descriptor once and no other,
\* and nready, which poll() set, is 0 when the loop of perpd_mainloop() ends.
THEOREM ConnsAccounted == Spec => []ConnInv
<1>1. Init => TableInv
  BY InitTable
<1>2. TableInv /\ [Next]_vars => TableInv'
  BY NextTable
<1>3. TableInv => ConnInv
  BY TableInvIs
<1> QED BY <1>1, <1>2, <1>3, PTL DEF Spec

(***************************************************************************)
(* TalkInv is inductive: for a tool c, steps that do not concern c, ...    *)
(***************************************************************************)
SameOf(c) == /\ cl'[c] = cl[c] /\ script' = script
             /\ \A j \in 1 .. Args : done'[<<c, j>>] = done[<<c, j>>] /\ told'[<<c, j>>] = told[<<c, j>>]
Like(x, y) == x.fd = y.fd /\ x.state = y.state /\ x.pkt = y.pkt /\ x.w = y.w
SameConns(c) == /\ \A i \in Used' : conns'[i].fd = c => \E m \in Used : Like(conns'[i], conns[m])
                /\ \A m \in Used : conns[m].fd = c => \E i \in Used' : Like(conns'[i], conns[m])
Talk(c) == PerpdSide(c) /\ ClientSide(c)

LEMMA TalkSame ==
  ASSUME TypeInv, NEW c \in Clients, Talk(c), SameOf(c), SameConns(c), sock'[c] = sock[c]
  PROVE  Talk(c)'
<1>1. cl[c].k \in 1 .. Args
  BY ClientIs
<1>2. \A j \in 1 .. Args : /\ Asking(c, j)' <=> Asking(c, j)
                           /\ ReplyTo(<<c, j>>)' = ReplyTo(<<c, j>>)
                           /\ done'[<<c, j>>] = done[<<c, j>>] /\ told'[<<c, j>>] = told[<<c, j>>]
  BY DEF SameOf, Asking, ReplyTo
<1>3. PerpdSide(c)'
  <2>1. sock'[c].up # <<>> => \E j \in 1 .. Args : Asking(c, j)'
    BY <1>2 DEF Talk, PerpdSide
  <2>2. ASSUME NEW i \in Used', conns'[i].fd = c
        PROVE  \/ conns'[i].state = "READING" /\ conns'[i].pkt = <<>>
               \/ /\ conns'[i].state = "WRITING" /\ conns'[i].w = 0 /\ sock'[c].up = <<>>
                  /\ sock'[c].down = <<>>
                  /\ \E j \in 1 .. Args : done'[<<c, j>>] \in Results /\ conns'[i].pkt = ReplyTo(<<c, j>>)'
    <3>1. PICK m \in Used : Like(conns'[i], conns[m])
      BY <2>2 DEF SameConns
    <3>2. \/ conns[m].state = "READING" /\ conns[m].pkt = <<>>
          \/ /\ conns[m].state = "WRITING" /\ conns[m].w = 0 /\ sock[c].up = <<>>
             /\ sock[c].down = <<>>
             /\ \E j \in 1 .. Args : done[<<c, j>>] \in Results /\ conns[m].pkt = ReplyTo(<<c, j>>)
      BY <2>2, <3>1 DEF Talk, PerpdSide, Like
    <3> QED BY <1>2, <3>1, <3>2 DEF Like
  <2> QED BY <2>1, <2>2 DEF PerpdSide
<1>4. Reading(c) => Reading(c)'
  BY DEF Reading, SameConns, Like
<1>5. ASSUME NEW i \in Used, conns[i].fd = c, conns[i].state = "WRITING", conns[i].pkt = ReplyTo(<<c, cl[c].k>>)
      PROVE  \E m \in Used' : /\ conns'[m].fd = c /\ conns'[m].state = "WRITING"
                              /\ conns'[m].pkt = ReplyTo(<<c, cl[c].k>>)'
  <2>1. PICK m \in Used' : Like(conns'[m], conns[i])
    BY <1>5 DEF SameConns
  <2>2. cl'[c].k = cl[c].k
    BY DEF SameOf
  <2> QED BY <1>1, <1>2, <1>5, <2>1, <2>2 DEF Like
<1>6. (Cut(c)' <=> Cut(c)) /\ cl'[c] = cl[c]
  BY DEF Cut, SameOf
<1>7. ClientSide(c)'
  BY <1>1, <1>2, <1>4, <1>5, <1>6 DEF Talk, ClientSide
<1> QED BY <1>3, <1>7 DEF Talk

\* ... the close of its connection, ...
LEMMA NotOpen ==
  ASSUME TypeInv', ConnTable', NEW c \in Clients, sock'[c].st # "open"
  PROVE  \A i \in Used' : conns'[i].fd # c
<1>1. {conns'[i].fd : i \in Used'} = {d \in Clients : sock'[d].st = "open"}
  BY DEF ConnTable, Used
<1> QED BY <1>1

LEMMA TalkClosed ==
  ASSUME TypeInv, TableInv', NEW c \in Clients, Talk(c), SameOf(c), sock[c].st # "none",
         sock'[c].st \in {"eof", "reset"}, sock'[c].up = <<>>, sock'[c].down = sock[c].down,
         sock'[c].shut = sock[c].shut
  PROVE  Talk(c)'
<1>1. cl[c].k \in 1 .. Args
  BY ClientIs
<1>2. \A i \in Used' : conns'[i].fd # c
  <2>1. sock'[c].st # "open"
    OBVIOUS
  <2> QED BY <2>1, NotOpen DEF TableInv
<1>3. PerpdSide(c)' /\ Reading(c)'
  BY <1>2 DEF PerpdSide, Reading
<1>4. Cut(c)' /\ cl'[c] = cl[c]
  BY DEF Cut, SameOf
<1>5. \A j \in 1 .. Args : /\ ReplyTo(<<c, j>>)' = ReplyTo(<<c, j>>)
                           /\ done'[<<c, j>>] = done[<<c, j>>] /\ told'[<<c, j>>] = told[<<c, j>>]
  BY DEF SameOf, ReplyTo
<1>6. ClientSide(c)'
  BY <1>1, <1>3, <1>4, <1>5 DEF Talk, ClientSide
<1> QED BY <1>3, <1>6 DEF Talk

\* ... the steps of c itself: it ends, ...
LEMMA TalkEnds ==
  ASSUME TypeInv, NEW c \in Clients, Talk(c), Talks(c), Ends(c)
  PROVE  Talk(c)'
<1>1. UNCHANGED <<script, conns, done>> /\ Used' = Used
  BY DEF Talks, Used
<1>2. /\ sock'[c].up = sock[c].up /\ sock'[c].down = <<>> /\ sock'[c].shut = TRUE
      /\ cl'[c].pc \in {"closed", "killed"}
  BY DEF Ends
<1>3. \A j \in 1 .. Args : (Asking(c, j)' <=> Asking(c, j)) /\ ReplyTo(<<c, j>>)' = ReplyTo(<<c, j>>)
  BY <1>1, <1>2 DEF Asking, ReplyTo
<1>4. PerpdSide(c)'
  BY <1>1, <1>2, <1>3 DEF Talk, PerpdSide
<1>5. ClientSide(c)'
  BY <1>2 DEF ClientSide
<1> QED BY <1>4, <1>5 DEF Talk

\* ... or goes on to its next argument ...
LEMMA TalkNext ==
  ASSUME TypeInv, NEW c \in Clients, Talk(c), Talks(c), GoesOn(c, <<>>), cl[c].pc \in {"write", "read"},
         NEW v, Tell(c, v), sock[c].up = <<>>, Reading(c)
  PROVE  Talk(c)'
<1>1. UNCHANGED <<script, conns, done>> /\ Used' = Used
  BY DEF Talks, Used
<1>2. /\ sock'[c].up = <<>> /\ sock'[c].down = <<>> /\ sock'[c].shut = sock[c].shut /\ sock'[c].st = sock[c].st
  BY DEF GoesOn
<1>3. /\ cl'[c].pc = "write" /\ cl'[c].k = cl[c].k + 1 /\ cl'[c].w = 0 /\ cl'[c].buf = <<>>
      /\ cl[c].k \in Nat /\ cl[c].k \in 1 .. Args /\ cl[c].k + 1 \in 1 .. Args
  <2>1. cl'[c] = [pc |-> "write", k |-> cl[c].k + 1, w |-> 0, buf |-> <<>>] /\ cl[c].k + 1 \in 1 .. Args
    BY DEF GoesOn, Nxt
  <2>2. cl[c].k \in 1 .. Args
    BY ClientIs
  <2>3. cl[c].k \in Nat
    BY <2>2, ArgsAssumption
  <2> QED BY <2>1, <2>2, <2>3
<1>4. \A j \in 1 .. Args : j # cl[c].k => told'[<<c, j>>] = told[<<c, j>>]
  <2>1. told' = [told EXCEPT ![<<c, cl[c].k>>] = v]
    BY DEF Tell
  <2>2. \A j \in 1 .. Args : <<c, j>> \in RequestIds /\ (j # cl[c].k => <<c, j>> # <<c, cl[c].k>>)
    BY DEF RequestIds
  <2>3. told = [r \in RequestIds |-> told[r]]
    BY DEF TypeInv, RestOK
  <2> QED BY <2>1, <2>2, <2>3
<1>5. PerpdSide(c)' /\ Reading(c)'
  BY <1>1, <1>2 DEF Talk, PerpdSide, Reading
<1>6. /\ ~sock[c].shut /\ sock[c].st # "none"
      /\ \A j \in 1 .. Args : /\ cl[c].k <= j => told[<<c, j>>] = Nothing
                              /\ cl[c].k < j => done[<<c, j>>] = Nothing
  BY DEF Talk, ClientSide
<1>7. \A j \in 1 .. Args : /\ cl[c].k + 1 <= j => told'[<<c, j>>] = Nothing
                           /\ cl[c].k + 1 < j => done'[<<c, j>>] = Nothing
  BY <1>1, <1>3, <1>4, <1>6
<1>8. done'[<<c, cl[c].k + 1>>] = Nothing
  BY <1>1, <1>3, <1>6
<1>9. ClientSide(c)'
  BY <1>2, <1>3, <1>5, <1>6, <1>7, <1>8 DEF ClientSide
<1> QED BY <1>5, <1>9 DEF Talk

LEMMA AskingIs ==
  ASSUME TypeInv, NEW c \in Clients, NEW j, Asking(c, j)
  PROVE  LET t == script[c][j].type
         IN /\ j \in 1 .. Args /\ j \in 1 .. Len(script[c]) /\ <<c, j>> \in RequestIds /\ t \in Types
            /\ sock[c].up \in Seq(Unit) /\ Len(sock[c].up) = Pkt_len(t) /\ Len(sock[c].up) \in 2 .. 4
            /\ sock[c].up # <<>> /\ sock[c].up[1] = [type |-> t, r |-> <<c, j>>, v |-> "OK"]
            /\ To_read(sock[c].up) = Len(sock[c].up)
<1> DEFINE t == script[c][j].type
           up == sock[c].up
<1>1. j \in 1 .. Len(script[c]) /\ up = Packet(t, <<c, j>>, "OK")
  BY DEF Asking
<1>2. t \in Types /\ <<c, j>> \in RequestIds
  BY <1>1, ScriptIs DEF TypeInv, RestOK
<1>3. j \in 1 .. Args
  BY <1>2 DEF RequestIds
<1>4. "OK" \in Errors \cup Statuses
  BY DEF Errors
<1> HIDE DEF t, up
<1>5. /\ Pkt_len(t) \in 2 .. 4 /\ up \in Seq(Unit) /\ Len(up) = Pkt_len(t)
      /\ \A n \in 1 .. Pkt_len(t) : up[n] = [type |-> t, r |-> <<c, j>>, v |-> "OK"]
  BY <1>1, <1>2, <1>4, PacketIs
<1>6. /\ up # <<>> /\ up[1] = [type |-> t, r |-> <<c, j>>, v |-> "OK"] /\ ~(Len(up) < Header) /\ Len(up) \in 2 .. 4
  <2>1. Len(up) \in 2 .. 4 /\ 1 \in 1 .. Pkt_len(t)
    BY <1>5
  <2>2. \A n \in 2 .. 4 : ~(n < 2) /\ n # 0
    OBVIOUS
  <2>3. ~(Len(up) < 2) /\ Len(up) # 0
    BY <2>1, <2>2
  <2> QED BY <1>5, <2>1, <2>3 DEF Header
<1>7. To_read(up) = Len(up)
  <2>1. up[1].type = t
    BY <1>6
  <2> QED BY <1>5, <1>6, <2>1 DEF To_read
<1> QED BY <1>1, <1>2, <1>3, <1>5, <1>6, <1>7 DEF t, up

LEMMA ReplyToIs ==
  ASSUME NEW r \in RequestIds, done[r] \in Results
  PROVE  LET pkt == ReplyTo(r)
         IN /\ pkt \in Seq(Unit) /\ Len(pkt) \in 2 .. 4 /\ pkt # <<>> /\ To_read(pkt) = Len(pkt)
            /\ Verdict(pkt) = done[r]
<1> DEFINE pkt == ReplyTo(r)
           v == done[r]
<1>1. pkt = Packet(v.type, r, v.v)
  BY DEF ReplyTo
<1> HIDE DEF pkt, v
<1>2. v \in Results
  BY DEF v
<1>3. /\ pkt \in Seq(Unit) /\ Len(pkt) = Pkt_len(v.type) /\ Len(pkt) \in 2 .. 4
      /\ \A n \in 1 .. Len(pkt) : pkt[n] = [type |-> v.type, r |-> r, v |-> v.v]
  BY <1>1, <1>2, ReplyIs
<1>4. v = [type |-> v.type, v |-> v.v]
  BY <1>2, ResultIs
<1>5. ~(Len(pkt) < Header) /\ pkt # <<>> /\ pkt[1] = [type |-> v.type, r |-> r, v |-> v.v]
  <2>1. \A n \in 2 .. 4 : ~(n < 2) /\ n # 0 /\ 1 \in 1 .. n
    OBVIOUS
  <2>2. ~(Len(pkt) < 2) /\ Len(pkt) # 0 /\ 1 \in 1 .. Len(pkt)
    BY <1>3, <2>1
  <2> QED BY <1>3, <2>2 DEF Header
<1>6. pkt[1].type = v.type /\ pkt[1].v = v.v
  BY <1>5
<1>7. To_read(pkt) = Len(pkt)
  BY <1>3, <1>5, <1>6 DEF To_read
<1>8. Verdict(pkt) = v
  BY <1>3, <1>4, <1>5, <1>6 DEF Verdict
<1> QED BY <1>3, <1>5, <1>7, <1>8 DEF pkt, v

\* ... connects, ...
LEMMA TalkConnect ==
  ASSUME TableInv, NEW c \in Clients, Talk(c), Connect(c)
  PROVE  Talk(c)'
<1>0. TypeInv /\ ConnTable /\ Queue
  BY DEF TableInv
<1>1. /\ cl[c].pc = "off"
      /\ \/ /\ term = "yes" /\ cl'[c].pc = "closed" /\ sock'[c] = sock[c]
         \/ /\ cl'[c] = [pc |-> "write", k |-> 1, w |-> 0, buf |-> <<>>]
            /\ sock'[c] = [st |-> "backlog", shut |-> FALSE, up |-> <<>>, down |-> <<>>]
  BY <1>0, ConnectIs
<1>2. UNCHANGED <<script, conns, done, told>> /\ Used' = Used
  BY DEF Connect, Used
<1>3. sock[c].st = "none" /\ sock[c].up = <<>> /\ sock[c].down = <<>> /\ ~sock[c].shut
  BY <1>0, <1>1, OffIs
<1>4. sock'[c].up = <<>> /\ sock'[c].down = <<>>
  BY <1>1, <1>3
<1>5. PerpdSide(c)' /\ (Reading(c) => Reading(c)')
  <2>1. \A j \in 1 .. Args : ReplyTo(<<c, j>>)' = ReplyTo(<<c, j>>)
    BY <1>2 DEF ReplyTo
  <2> QED BY <1>2, <1>3, <1>4, <2>1 DEF Talk, PerpdSide, Reading
<1>6. CASE cl'[c].pc = "closed" /\ sock'[c] = sock[c]
  <2>1. ClientSide(c)'
    BY <1>3, <1>6 DEF ClientSide
  <2> QED BY <1>5, <2>1 DEF Talk
<1>7. CASE /\ cl'[c] = [pc |-> "write", k |-> 1, w |-> 0, buf |-> <<>>]
           /\ sock'[c] = [st |-> "backlog", shut |-> FALSE, up |-> <<>>, down |-> <<>>]
  <2>1. cl[c].k = 1
    BY <1>0, <1>1 DEF TypeInv, ClientsOK, ClientOK, Idle
  <2>2. /\ cl'[c].pc = "write" /\ cl'[c].k = cl[c].k /\ cl'[c].w = 0 /\ cl'[c].buf = <<>>
        /\ sock'[c].st = "backlog" /\ sock'[c].shut = FALSE
    BY <1>7, <2>1
  <2>3. ClientSide(c)'
    BY <1>1, <1>2, <1>4, <1>5, <2>2 DEF Talk, ClientSide
  <2> QED BY <1>5, <2>3 DEF Talk
<1> QED BY <1>1, <1>6, <1>7

LEMMA RoomIs ==
  ASSUME NEW n, NEW L \in 2 .. 4, n = Fit(Cap - 0, L - 0)
  PROVE  n = L
BY CapAssumption DEF Fit

\* ... writes a request, all at once, ...
LEMMA TalkAsk ==
  ASSUME TableInv, NEW c \in Honest, Talk(c), cl[c].pc = "write", Talks(c),
         NEW n \in 1 .. Len(Request(c)) - cl[c].w, Asked(c, n)
  PROVE  Talk(c)'
<1>0. TypeInv /\ c \in Clients /\ c \notin Raw
  BY DEF TableInv, Honest
<1>1. UNCHANGED <<script, conns, done, told>> /\ Used' = Used
  BY DEF Talks, Used, Asked
<1>2. /\ cl[c].w = 0 /\ done[<<c, cl[c].k>>] = Nothing /\ sock[c].up = <<>> /\ sock[c].down = <<>>
      /\ Reading(c) /\ ~sock[c].shut /\ cl[c].buf = <<>> /\ sock[c].st # "none"
      /\ \A j \in 1 .. Args : /\ cl[c].k <= j => told[<<c, j>>] = Nothing
                              /\ cl[c].k < j => done[<<c, j>>] = Nothing
  BY DEF Talk, ClientSide
<1> DEFINE rq == Request(c)
<1>3. rq \in Seq(Unit) /\ Len(rq) \in 2 .. 4 /\ cl[c].k \in 1 .. Len(script[c]) /\ cl[c].k \in 1 .. Args
  <2>1. rq \in Seq(Unit) /\ Len(rq) \in 2 .. 4
    BY <1>0, RequestIs
  <2> QED BY <1>0, <2>1, ClientIs
<1>4. n = Len(rq)
  <2>1. n = Fit(Cap - 0, Len(rq) - 0)
    BY <1>0, <1>2 DEF Asked
  <2> QED BY <1>3, <2>1, RoomIs
<1>5. /\ cl'[c] = [pc |-> "read", k |-> cl[c].k, w |-> 0, buf |-> <<>>]
      /\ sock'[c] = [st |-> sock[c].st, shut |-> sock[c].shut,
                     up |-> <<>> \o SubSeq(rq, 1, Len(rq)), down |-> <<>>]
  <2>1. 0 + 1 = 1 /\ 0 + Len(rq) = Len(rq) /\ Len(rq) - 0 = Len(rq)
    BY <1>3
  <2> QED BY <1>2, <1>4, <2>1 DEF Asked
<1>6. <<>> \o SubSeq(rq, 1, Len(rq)) = rq
  <2> HIDE DEF rq
  <2> QED BY <1>3, WholeIs, ConcatEmptySeq
<1>7. sock'[c] = [st |-> sock[c].st, shut |-> sock[c].shut, up |-> rq, down |-> <<>>]
  BY <1>5, <1>6
<1>8. sock'[c].up = rq /\ sock'[c].down = <<>> /\ sock'[c].st = sock[c].st /\ sock'[c].shut = sock[c].shut
  BY <1>7
<1>9. cl'[c].pc = "read" /\ cl'[c].k = cl[c].k /\ cl'[c].buf = <<>>
  BY <1>5
<1>10. ASSUME NEW k, k = cl[c].k PROVE Asking(c, k)'
  <2>1. rq = Packet(script[c][k].type, <<c, k>>, "OK")
    BY <1>10 DEF Request
  <2> HIDE DEF rq
  <2> QED BY <1>1, <1>2, <1>3, <1>8, <1>10, <2>1 DEF Asking, Packet
<1>11. Asking(c, cl[c].k)'
  BY <1>9, <1>10
<1>12. PerpdSide(c)' /\ Reading(c)'
  <2>1. \E j \in 1 .. Args : Asking(c, j)'
    BY <1>3, <1>10
  <2>2. \A i \in Used' : conns'[i].fd = c => conns'[i].state = "READING" /\ conns'[i].pkt = <<>>
    BY <1>1, <1>2 DEF Talk, PerpdSide, Reading
  <2>3. Reading(c)'
    BY <1>1, <1>2 DEF Reading
  <2>4. PerpdSide(c)'
    BY <2>1, <2>2 DEF PerpdSide
  <2> QED BY <2>3, <2>4
<1>13. sock[c].st \in {"backlog", "open"}
  BY <1>0, <1>2, ClientIs DEF Asked, Cut
<1>14. ClientSide(c)'
  <2>1. \A j \in 1 .. Args : /\ cl'[c].k <= j => told'[<<c, j>>] = Nothing
                             /\ cl'[c].k < j => done'[<<c, j>>] = Nothing
    BY <1>1, <1>2, <1>9
  <2>2. ~sock'[c].shut /\ sock'[c].st \in {"backlog", "open"}
    BY <1>2, <1>8, <1>13
  <2> QED BY <1>8, <1>9, <1>11, <2>1, <2>2 DEF ClientSide
<1> QED BY <1>12, <1>14 DEF Talk
\* ... and reads the reply, or hears that the connection is gone.
Hears(c) == \E v : /\ Tell(c, v)
                   /\ v = Lost \/ (v = done[<<c, cl[c].k>>] /\ v \in Results)
LEMMA TalkHear ==
  ASSUME TableInv, NEW c \in Honest, Talk(c), ClientRead(c)
  PROVE  Talk(c)' /\ Talks(c) /\ Hears(c)
<1> DEFINE r == <<c, cl[c].k>>
           down == sock[c].down
<1>0. TypeInv /\ ConnTable /\ c \in Clients
  BY DEF TableInv, Honest
<1>1. Talks(c) /\ cl[c].pc = "read"
  BY <1>0, ReadFromIs
<1>2. /\ cl[c].buf = <<>>
      /\ \/ Asking(c, cl[c].k) /\ down = <<>> /\ sock[c].st \in {"backlog", "open"}
         \/ down = <<>> /\ \E i \in Used : conns[i].fd = c
         \/ sock[c].up = <<>> /\ down = ReplyTo(r) /\ done[r] \in Results /\ Reading(c)
         \/ Cut(c) /\ sock[c].up = <<>> /\ down = <<>>
  BY <1>1 DEF Talk, ClientSide
<1>3. Heard(c) = down
  <2>1. down \in Seq(Unit)
    BY <1>0, ClientIs
  <2> QED BY <1>2, <2>1, ConcatEmptySeq DEF Heard
<1>4. ASSUME NEW v, Tell(c, v), Ends(c) \/ GoesOn(c, <<>>), sock[c].up = <<>>, Reading(c)
      PROVE  Talk(c)'
  BY <1>0, <1>1, <1>4, TalkEnds, TalkNext
<1>5. CASE down # <<>>
  <2>1. sock[c].up = <<>> /\ down = ReplyTo(r) /\ done[r] \in Results /\ Reading(c)
    BY <1>2, <1>5
  <2>2. r \in RequestIds
    BY <1>0, RequestIs
  <2>3. To_read(down) = Len(down) /\ Verdict(down) = done[r] /\ Len(down) \in Nat
    <3>1. /\ ReplyTo(r) \in Seq(Unit) /\ Len(ReplyTo(r)) \in 2 .. 4
          /\ To_read(ReplyTo(r)) = Len(ReplyTo(r)) /\ Verdict(ReplyTo(r)) = done[r]
      BY <2>1, <2>2, ReplyToIs
    <3> QED BY <2>1, <3>1
  <2>4. /\ Tell(c, IF Len(Heard(c)) > To_read(Heard(c)) THEN Lost ELSE Verdict(Heard(c)))
        /\ Ends(c) \/ GoesOn(c, <<>>)
    <3>1. ~(Len(Heard(c)) < To_read(Heard(c)))
      BY <1>3, <2>3
    <3> QED BY <1>0, <1>5, <3>1, ReadFromIs
  <2>5. Tell(c, done[r])
    BY <1>3, <2>3, <2>4
  <2> QED BY <1>1, <1>4, <2>1, <2>4, <2>5 DEF Hears
<1>6. CASE down = <<>>
  <2>1. /\ Cut(c) /\ (Ends(c) \/ GoesOn(c, <<>>))
        /\ Tell(c, IF sock[c].st = "reset" THEN Lost ELSE Verdict(Heard(c)))
    BY <1>0, <1>6, ReadFromIs
  <2>2. Tell(c, Lost)
    BY <1>3, <1>6, <2>1 DEF Verdict
  <2>3. Reading(c) /\ \A i \in Used : conns[i].fd # c
    <3>1. \A i \in Used : sock[conns[i].fd].st = "open"
      BY <1>0, TableIs
    <3>2. \A i \in Used : conns[i].fd # c
      BY <2>1, <3>1 DEF Cut
    <3> QED BY <3>2 DEF Reading
  <2>4. sock[c].up = <<>>
    <3>1. ReplyTo(r) # <<>> \/ done[r] \notin Results
      BY <1>0, RequestIs, ReplyToIs
    <3> QED BY <1>2, <1>6, <2>1, <2>3, <3>1 DEF Cut
  <2> QED BY <1>1, <1>4, <2>1, <2>2, <2>3, <2>4 DEF Hears
<1> QED BY <1>5, <1>6

\* Its other steps.
LEMMA TalkSkip ==
  ASSUME TableInv, NEW c \in Honest, Talk(c), SkipArg(c)
  PROVE  Talk(c)' /\ Talks(c) /\ Tell(c, Lost)
<1>0. TypeInv /\ c \in Clients
  BY DEF TableInv, Honest
<1>1. Talks(c) /\ Tell(c, Lost) /\ cl[c].pc = "write" /\ (Ends(c) \/ GoesOn(c, sock[c].down))
  BY <1>0, SkipIs
<1>2. sock[c].down = <<>> /\ sock[c].up = <<>> /\ Reading(c)
  BY <1>1 DEF Talk, ClientSide
<1> QED BY <1>0, <1>1, <1>2, TalkEnds, TalkNext

LEMMA TalkWrite ==
  ASSUME TableInv, NEW c \in Honest, Talk(c), ClientWrite(c)
  PROVE  Talk(c)' /\ Talks(c) /\ (Tell(c, Lost) \/ UNCHANGED told)
<1>0. TypeInv /\ c \in Clients
  BY DEF TableInv, Honest
<1>1. Talks(c) /\ cl[c].pc = "write"
  BY <1>0, WriteToIs
<1>2. CASE Ends(c) /\ Tell(c, Lost)
  BY <1>0, <1>1, <1>2, TalkEnds
<1>3. CASE \E n \in 1 .. Len(Request(c)) - cl[c].w : Asked(c, n)
  <2>1. UNCHANGED told
    BY <1>3 DEF Asked
  <2> QED BY <1>1, <1>3, <2>1, TalkAsk
<1> QED BY <1>0, <1>2, <1>3, WriteToIs

LEMMA TalkKill ==
  ASSUME TableInv, NEW c \in Honest, Talk(c), Kill(c)
  PROVE  Talk(c)' /\ Talks(c) /\ UNCHANGED told
<1>0. TypeInv /\ c \in Clients
  BY DEF TableInv, Honest
<1> QED BY <1>0, KillIs, TalkEnds

(***************************************************************************)
(* perpd's steps, as a tool c sees them.                                   *)
(***************************************************************************)
\* What the steps of perpd and of others leave to c.
Spared(c) == cl'[c] = cl[c] /\ UNCHANGED <<script, done, told>>
LEMMA SparedIs ==
  ASSUME NEW c, Spared(c)
  PROVE  SameOf(c)
BY DEF Spared, SameOf

LEMMA SameSlots ==
  ASSUME NEW c \in Clients, Len(conns') = Len(conns),
         \A i \in 1 .. Len(conns) : conns[i].fd = c \/ conns'[i].fd = c => Like(conns'[i], conns[i])
  PROVE  SameConns(c)
<1>1. c # None
  BY RawAssumption
<1> QED BY <1>1 DEF SameConns, Used, Like

LEMMA TalkLeft ==
  ASSUME TypeInv, NEW c \in Clients, Talk(c), Spared(c), conns' = conns, sock'[c] = sock[c]
  PROVE  Talk(c)'
<1>1. SameConns(c)
  BY SameSlots DEF Like
<1> QED BY <1>1, SparedIs, TalkSame

\* perpd_conn_close()
LEMMA TalkClose ==
  ASSUME TypeInv, TableInv', ConnTable, NEW c \in Clients, Talk(c), Spared(c), NEW i \in Used, Close(i)
  PROVE  Talk(c)'
<1>1. script' = script
  BY DEF Spared
<1>2. /\ Len(conns') = Len(conns) /\ conns'[i] = Closed /\ conns[i].fd \in Clients
      /\ \A j \in 1 .. Len(conns) : j # i => conns'[j] = conns[j]
      /\ c # conns[i].fd => sock'[c] = sock[c]
      /\ c = conns[i].fd => /\ sock'[c].st \in {"eof", "reset"} /\ sock'[c].up = <<>>
                            /\ sock'[c].down = sock[c].down /\ sock'[c].shut = sock[c].shut
  BY <1>1, CloseIs
<1>3. CASE c = conns[i].fd
  <2>1. sock[c].st # "none"
    BY <1>3, TableIs
  <2> QED BY <1>2, <1>3, <2>1, SparedIs, TalkClosed
<1>4. CASE c # conns[i].fd
  <2>1. c # None /\ Closed.fd = None
    BY RawAssumption DEF Closed
  <2>2. \A j \in 1 .. Len(conns) : conns[j].fd = c \/ conns'[j].fd = c => Like(conns'[j], conns[j])
    BY <1>2, <1>4, <2>1 DEF Like
  <2>3. SameConns(c)
    BY <1>2, <2>2, SameSlots
  <2> QED BY <1>2, <1>4, <2>3, SparedIs, TalkSame
<1> QED BY <1>3, <1>4

\* Stale connections, and all of them at SIGTERM.
LEMMA TalkTop ==
  ASSUME TypeInv, TableInv', ConnTable, NEW c \in Clients, Talk(c), Top
  PROVE  Talk(c)'
<1>1. Spared(c)
  BY DEF Top, Spared
<1> DEFINE S == {conns[i].fd : i \in StaleOnes}
<1>2. /\ \A j \in 1 .. Len(conns') : conns'[j].fd # None /\ \E m \in Used \ StaleOnes : conns'[j] = conns[m]
      /\ \A m \in Used \ StaleOnes : \E j \in 1 .. Len(conns') : conns'[j] = conns[m]
      /\ c \notin S => sock'[c] = sock[c]
      /\ c \in S => /\ sock'[c].st \in {"eof", "reset"} /\ sock'[c].up = <<>>
                    /\ sock'[c].down = sock[c].down /\ sock'[c].shut = sock[c].shut
  BY TopIs
<1>3. CASE c \in S
  <2>1. PICK i \in StaleOnes : c = conns[i].fd
    BY <1>3
  <2>2. i \in Used
    BY <2>1 DEF StaleOnes, Stale, Used
  <2>3. sock[c].st # "none"
    BY <2>1, <2>2, TableIs
  <2> QED BY <1>1, <1>2, <1>3, <2>3, SparedIs, TalkClosed
<1>4. CASE c \notin S
  <2>1. \A m \in Used : conns[m].fd = c => m \in Used \ StaleOnes
    BY <1>4
  <2>2. SameConns(c)
    BY <1>2, <2>1 DEF SameConns, Like, Used
  <2> QED BY <1>1, <1>2, <1>4, <2>2, SparedIs, TalkSame
<1> QED BY <1>3, <1>4

LEMMA TalkPost ==
  ASSUME TableInv, TableInv', NEW c \in Clients, Talk(c), Post
  PROVE  Talk(c)'
<1>0. TypeInv /\ ConnTable /\ Queue
  BY DEF TableInv
<1>1. Spared(c)
  BY DEF Post, Spared
<1>2. CASE term # "flag"
  <2>1. UNCHANGED <<conns, sock>>
    BY <1>2 DEF Post
  <2> QED BY <1>0, <1>1, <2>1, TalkLeft
<1>3. CASE term = "flag"
  <2>1. /\ conns' = <<>>
        /\ sock[c].st \notin {"open", "backlog"} => sock'[c] = sock[c]
        /\ sock[c].st \in {"open", "backlog"} =>
             /\ sock'[c].st \in {"eof", "reset"} /\ sock'[c].up = <<>>
             /\ sock'[c].down = sock[c].down /\ sock'[c].shut = sock[c].shut
    BY <1>0, <1>3, DumpIs
  <2>2. CASE sock[c].st \in {"open", "backlog"}
    BY <1>0, <1>1, <2>1, <2>2, SparedIs, TalkClosed
  <2>3. CASE sock[c].st \notin {"open", "backlog"}
    <3>1. \A m \in Used : conns[m].fd # c
      BY <1>0, <2>3, TableIs
    <3>2. SameConns(c)
      BY <2>1, <3>1 DEF SameConns, Used
    <3> QED BY <1>0, <1>1, <2>1, <2>3, <3>2, SparedIs, TalkSame
  <2> QED BY <2>2, <2>3
<1> QED BY <1>2, <1>3

\* accept() of the connection of c, ...
LEMMA TalkAccepted ==
  ASSUME TypeInv, ConnTable, NEW c \in Clients, Talk(c), Spared(c), sock[c].st = "backlog",
         NEW n, n = Len(conns) + 1, Len(conns') = n, conns'[n] = Conn(c),
         \A j \in 1 .. Len(conns) : conns'[j] = conns[j],
         sock'[c] = [st |-> "open", shut |-> sock[c].shut, up |-> sock[c].up, down |-> sock[c].down]
  PROVE  Talk(c)'
<1>1. cl[c].k \in 1 .. Args
  BY ClientIs
<1>2. \A i \in Used : conns[i].fd # c
  BY TableIs
<1>3. \A i \in Used' : conns'[i].fd = c => conns'[i].state = "READING" /\ conns'[i].pkt = <<>>
  <2>1. ASSUME NEW i \in Used', conns'[i].fd = c PROVE i = n
    <3>1. CASE i \in 1 .. Len(conns)
      <4>1. conns'[i] = conns[i] /\ c # None
        BY <3>1, RawAssumption
      <4> QED BY <1>2, <2>1, <3>1, <4>1 DEF Used
    <3>2. Len(conns) \in Nat
      BY DEF TypeInv, ConnsOK
    <3> QED BY <2>1, <3>1, <3>2 DEF Used
  <2> QED BY <2>1, ConnIs
<1>4. sock'[c].up = sock[c].up /\ sock'[c].down = sock[c].down /\ sock'[c].shut = sock[c].shut /\ sock'[c].st = "open"
  OBVIOUS
<1>5. \A j \in 1 .. Args : /\ Asking(c, j)' <=> Asking(c, j)
                           /\ ReplyTo(<<c, j>>)' = ReplyTo(<<c, j>>)
                           /\ done'[<<c, j>>] = done[<<c, j>>] /\ told'[<<c, j>>] = told[<<c, j>>]
  BY <1>4 DEF Spared, Asking, ReplyTo
<1>6. PerpdSide(c)' /\ Reading(c)'
  BY <1>3, <1>4, <1>5 DEF Talk, PerpdSide, Reading
<1>7. cl'[c] = cl[c] /\ ~Cut(c)
  BY DEF Spared, Cut
<1>8. ClientSide(c)'
  BY <1>1, <1>2, <1>4, <1>5, <1>6, <1>7 DEF Talk, ClientSide
<1> QED BY <1>6, <1>8 DEF Talk

LEMMA TalkAccept ==
  ASSUME TableInv, TableInv', NEW c \in Clients, Talk(c), Accept
  PROVE  Talk(c)'
<1>0. TypeInv /\ ConnTable /\ Queue /\ Progress
  BY DEF TableInv
<1>1. Spared(c) /\ script' = script
  BY DEF Accept, Spared
<1> DEFINE h == Head(backlog)
<1>2. ASSUME backlog # <<>> PROVE h \in Clients /\ sock[h].st = "backlog"
  <2>1. backlog \in Seq(Clients) /\ h \in Clients /\ h = backlog[1] /\ 1 \in 1 .. Len(backlog)
    BY <1>0, <1>2, HeadTailProperties, EmptySeq DEF TypeInv, RestOK
  <2> QED BY <1>0, <2>1 DEF Queue
<1>3. CASE AcceptNothing
  BY <1>0, <1>1, <1>3, TalkLeft DEF AcceptNothing
<1>4. CASE AcceptRefused
  <2>1. h \in Clients /\ sock[h].st = "backlog" /\ conns' = conns
    BY <1>2, <1>4 DEF AcceptRefused
  <2>2. /\ c # h => sock'[c] = sock[c]
        /\ c = h => /\ sock'[c].st \in {"eof", "reset"} /\ sock'[c].up = <<>>
                    /\ sock'[c].down = sock[c].down /\ sock'[c].shut = sock[c].shut
    BY <1>0, <1>1, <1>4, ShutIs DEF AcceptRefused, TypeInv
  <2>3. CASE c = h
    <3>1. sock[c].st # "none"
      BY <2>1, <2>3
    <3> QED BY <1>0, <1>1, <2>2, <2>3, <3>1, SparedIs, TalkClosed
  <2>4. CASE c # h
    BY <1>0, <1>1, <2>1, <2>2, <2>4, TalkLeft
  <2> QED BY <2>3, <2>4
<1>5. CASE AcceptTaken
  <2>1. h \in Clients /\ sock[h].st = "backlog"
    BY <1>2, <1>5 DEF AcceptTaken
  <2>2. sock' = [sock EXCEPT ![h].st = "open"] /\ conns' = Append(conns, Conn(h))
    BY <1>5 DEF AcceptTaken
  <2>3. conns \in Seq(ConnType) /\ Len(conns) \in Nat
    BY <1>0 DEF TypeInv, ConnsOK
  <2> DEFINE n == Len(conns) + 1
  <2>4. Conn(h) \in ConnType /\ Conn(h).fd = h
    BY <2>1, ConnIs DEF ConnOK
  <2>5. Len(conns') = n /\ conns'[n] = Conn(h) /\ \A j \in 1 .. Len(conns) : conns'[j] = conns[j]
    BY <2>2, <2>3, <2>4, AppendProperties
  <2>6. CASE c = h
    <3>1. sock'[c] = [st |-> "open", shut |-> sock[c].shut, up |-> sock[c].up, down |-> sock[c].down]
      <4>1. sock'[c] = [sock[c] EXCEPT !.st = "open"]
        BY <1>0, <2>2, <2>6 DEF TypeInv, SocksOK
      <4>2. sock[c] = [st |-> sock[c].st, shut |-> sock[c].shut, up |-> sock[c].up, down |-> sock[c].down]
        BY <1>0, ClientIs
      <4> HIDE DEF h
      <4> QED BY <4>1, <4>2
    <3>2. sock[c].st = "backlog" /\ conns'[n] = Conn(c)
      BY <2>1, <2>5, <2>6
    <3> HIDE DEF h
    <3> QED BY <1>0, <1>1, <2>5, <3>1, <3>2, TalkAccepted
  <2>7. CASE c # h
    <3>1. sock'[c] = sock[c]
      BY <1>0, <2>2, <2>7 DEF TypeInv, SocksOK
    <3>2. c # None
      BY RawAssumption
    <3>3. \A j \in 1 .. n : j = n \/ j \in 1 .. Len(conns)
      BY <2>3
    <3>4. \A j \in 1 .. Len(conns) : j \in 1 .. n
      BY <2>3
    <3> HIDE DEF n, h
    <3>5. SameConns(c)
      <4>1. ASSUME NEW i \in Used', conns'[i].fd = c
            PROVE  \E m \in Used : Like(conns'[i], conns[m])
        <5>1. i \in 1 .. n /\ i # n
          BY <2>4, <2>5, <2>7, <4>1 DEF Used
        <5>2. i \in Used /\ conns'[i] = conns[i]
          BY <2>5, <3>2, <3>3, <4>1, <5>1 DEF Used
        <5> QED BY <5>2 DEF Like
      <4>2. ASSUME NEW m \in Used, conns[m].fd = c
            PROVE  \E i \in Used' : Like(conns'[i], conns[m])
        <5>1. m \in Used' /\ conns'[m] = conns[m]
          BY <2>5, <3>2, <3>4, <4>2 DEF Used
        <5> QED BY <5>1 DEF Like
      <4> QED BY <4>1, <4>2 DEF SameConns
    <3> QED BY <1>0, <1>1, <3>1, <3>5, SparedIs, TalkSame
  <2> QED BY <2>6, <2>7
<1> QED BY <1>0, <1>3, <1>4, <1>5, AcceptIs

\* A request of c is acted upon: it was whole, and the first of its kind.
Executes(c) ==
  \E j \in 1 .. Args, v \in Results :
    done[<<c, j>>] = Nothing /\ done' = [done EXCEPT ![<<c, j>>] = v]

LEMMA AskingOne ==
  ASSUME TypeInv, NEW c \in Clients, NEW j, NEW k, Asking(c, j), Asking(c, k)
  PROVE  j = k
<1>1. \A n : Asking(c, n) => \E t : sock[c].up[1] = [type |-> t, r |-> <<c, n>>, v |-> "OK"]
  <2>1. ASSUME NEW n, Asking(c, n) PROVE \E t : sock[c].up[1] = [type |-> t, r |-> <<c, n>>, v |-> "OK"]
    BY <2>1, AskingIs
  <2> QED BY <2>1
<1>2. PICK t : sock[c].up[1] = [type |-> t, r |-> <<c, j>>, v |-> "OK"]
  BY <1>1
<1>3. PICK u : sock[c].up[1] = [type |-> u, r |-> <<c, k>>, v |-> "OK"]
  BY <1>1
<1>4. <<c, j>> = <<c, k>>
  BY <1>2, <1>3
<1> QED BY <1>4

LEMMA TalkExec ==
  ASSUME TypeInv, ConnTable, NEW c \in Clients, Talk(c), cl'[c] = cl[c], UNCHANGED <<script, told>>,
         NEW i \in Used, conns[i].fd = c, Len(conns') = Len(conns),
         \A m \in 1 .. Len(conns) : m # i => conns'[m] = conns[m],
         NEW j \in 1 .. Args, Asking(c, j), NEW v \in Results, done' = [done EXCEPT ![<<c, j>>] = v],
         conns'[i].fd = c, conns'[i].state = "WRITING", conns'[i].w = 0,
         conns'[i].pkt = Packet(v.type, <<c, j>>, v.v),
         sock'[c].st = sock[c].st, sock'[c].shut = sock[c].shut, sock'[c].up = <<>>, sock'[c].down = sock[c].down
  PROVE  Talk(c)'
<1>1. cl[c].k \in 1 .. Args /\ sock[c].up # <<>>
  BY ClientIs, AskingIs
<1>2. sock[c].down = <<>> /\ cl[c].pc \notin {"off", "write"}
  <2>1. ReplyTo(<<c, cl[c].k>>) = ReplyTo(<<c, cl[c].k>>)
    OBVIOUS
  <2> QED BY <1>1, ClientIs DEF Talk, ClientSide
<1>3. cl[c].pc = "read" => cl[c].k = j /\ sock[c].st \in {"backlog", "open"}
  <2>1. ASSUME cl[c].pc = "read" PROVE Asking(c, cl[c].k) /\ sock[c].st \in {"backlog", "open"}
    BY <1>1, <2>1 DEF Talk, ClientSide
  <2> QED BY <2>1, AskingOne
<1>4. done'[<<c, j>>] = v /\ \A n \in 1 .. Args : n # j => done'[<<c, n>>] = done[<<c, n>>]
  <2>1. done = [r \in RequestIds |-> done[r]] /\ \A n \in 1 .. Args : <<c, n>> \in RequestIds
    BY DEF TypeInv, RestOK, RequestIds
  <2> QED BY <2>1
<1>5. ReplyTo(<<c, j>>)' = conns'[i].pkt
  BY <1>4 DEF ReplyTo
<1>6. i \in Used' /\ c # None
  BY RawAssumption DEF Used
<1>7. \A m \in Used' : conns'[m].fd = c => m = i
  <2>1. ASSUME NEW m \in Used', conns'[m].fd = c, m # i PROVE FALSE
    <3>1. m \in Used /\ conns[m].fd = c
      BY <1>6, <2>1 DEF Used
    <3>2. Distinct(conns) /\ m \in 1 .. Len(conns) /\ i \in 1 .. Len(conns)
      BY <3>1, TableIs DEF Used
    <3> QED BY <1>6, <2>1, <3>1, <3>2 DEF Distinct
  <2> QED BY <2>1
<1>8. PerpdSide(c)'
  BY <1>2, <1>4, <1>5, <1>7 DEF PerpdSide
<1>9. CASE cl[c].pc = "read"
  <2>1. cl'[c].pc = "read" /\ cl'[c].k = j /\ cl[c].k = j
    BY <1>3, <1>9
  <2>2. /\ ~sock'[c].shut /\ cl'[c].buf = <<>> /\ sock'[c].st # "none"
        /\ \A n \in 1 .. Args : /\ cl'[c].k <= n => told'[<<c, n>>] = Nothing
                                /\ cl'[c].k < n => done'[<<c, n>>] = Nothing
    BY <1>3, <1>4, <1>9 DEF Talk, ClientSide
  <2>3. \E m \in Used' : conns'[m].fd = c /\ conns'[m].state = "WRITING" /\ conns'[m].pkt = ReplyTo(<<c, j>>)'
    BY <1>5, <1>6
  <2>4. sock'[c].up = <<>> /\ sock'[c].down = <<>> /\ done'[<<c, j>>] \in Results
    BY <1>2, <1>4
  <2>5. ClientSide(c)'
    BY <2>1, <2>2, <2>3, <2>4 DEF ClientSide
  <2> QED BY <1>8, <2>5 DEF Talk
<1>10. CASE cl[c].pc \in {"closed", "killed"}
  <2>1. ClientSide(c)'
    BY <1>2, <1>10 DEF Talk, ClientSide
  <2> QED BY <1>8, <2>1 DEF Talk
<1> QED BY <1>2, <1>9, <1>10, ClientIs

\* perpd reads the request of c: all of it, and acts upon it.
Replied(c, j, v) ==
  /\ done' = [done EXCEPT ![<<c, j>>] = v]
  /\ Len(conns') = Len(conns) /\ \A m \in 1 .. Len(conns) : m # loop.i => conns'[m] = conns[m]
  /\ conns'[loop.i].fd = c /\ conns'[loop.i].state = "WRITING" /\ conns'[loop.i].w = 0
  /\ conns'[loop.i].pkt = Packet(v.type, <<c, j>>, v.v)
  /\ sock'[c].st = sock[c].st /\ sock'[c].shut = sock[c].shut
  /\ sock'[c].up = <<>> /\ sock'[c].down = sock[c].down
LEMMA ReadOwn ==
  ASSUME TableInv, NEW c \in Clients, Talk(c), ReadMore, conns[loop.i].fd = c
  PROVE  \E j \in 1 .. Args : Asking(c, j) /\ \E v \in Results : Replied(c, j, v)
<1>0. TypeInv /\ Progress /\ ConnTable
  BY DEF TableInv
<1>1. loop.i \in Used /\ conns[loop.i].state = "READING" /\ script' = script
  BY <1>0, AtIs DEF ReadMore, AtSlot, Progress
<1>2. sock[c].up # <<>> /\ Got[1].r \in RequestIds /\ Exec(Got[1].type, script[Got[1].r[1]][Got[1].r[2]].sv) \in Results
  BY <1>0, <1>1, ReadIs
<1>3. PICK j \in 1 .. Args : Asking(c, j)
  BY <1>2 DEF Talk, PerpdSide
<1>4. conns[loop.i].pkt = <<>> /\ ConnOK(conns[loop.i]) /\ loop.i \in 1 .. Len(conns)
  BY <1>0, <1>1, UsedIs DEF Talk, PerpdSide
<1>5. /\ Got = sock[c].up /\ To_read(Got) = Len(Got) /\ Len(Got) \in 2 .. 4
      /\ \E t : Got[1] = [type |-> t, r |-> <<c, j>>, v |-> "OK"]
      /\ <<c, j>> \in RequestIds /\ j \in 1 .. Len(script[c])
  <2>1. Got = sock[c].up
    <3>1. sock[c].up \in Seq(Unit)
      BY <1>0, ClientIs
    <3> QED BY <1>4, <3>1, ConcatEmptySeq DEF Got
  <2>2. /\ To_read(sock[c].up) = Len(sock[c].up) /\ Len(sock[c].up) \in 2 .. 4
        /\ \E t : sock[c].up[1] = [type |-> t, r |-> <<c, j>>, v |-> "OK"]
        /\ <<c, j>> \in RequestIds /\ j \in 1 .. Len(script[c])
    BY <1>0, <1>3, AskingIs
  <2> QED BY <2>1, <2>2
<1>6. Got[1].r = <<c, j>>
  BY <1>5
<1>7. ReadWhole
  <2>1. ~Overrun(Got) /\ ~(Len(Got) < To_read(Got))
    BY <1>5 DEF Overrun
  <2> QED BY <1>5, <2>1 DEF ReadMore, ReadWhole, Got, Taken
<1> DEFINE v == Exec(Got[1].type, script[c][j].sv)
<1>8. v \in Results
  BY <1>2, <1>6
<1>9. /\ conns' = [conns EXCEPT ![loop.i] = Reply(conns[loop.i], <<c, j>>, v)]
      /\ sock' = [sock EXCEPT ![c] = Taken]
      /\ done' = [done EXCEPT ![<<c, j>>] = IF @ = Nothing THEN v ELSE Outcome("twice")]
  <2>1. script[Got[1].r[1]][Got[1].r[2]] = script[c][j]
    BY <1>6
  <2> QED BY <1>6, <1>7, <2>1 DEF ReadWhole
<1> HIDE DEF v
<1>10. done' = [done EXCEPT ![<<c, j>>] = v]
  <2>1. done[<<c, j>>] = Nothing
    BY <1>3 DEF Asking
  <2>2. done = [r \in RequestIds |-> done[r]]
    BY <1>0 DEF TypeInv, RestOK
  <2> QED BY <1>9, <2>1, <2>2
<1>11. LET conn == Reply(conns[loop.i], <<c, j>>, v)
       IN /\ ConnOK(conn) /\ conn.fd = c /\ conn.state = "WRITING" /\ conn.w = 0
          /\ conn.pkt = Packet(v.type, <<c, j>>, v.v)
  BY <1>4, <1>5, <1>8, ReplyOK
<1>12. /\ Len(conns') = Len(conns) /\ conns'[loop.i] = Reply(conns[loop.i], <<c, j>>, v)
       /\ \A m \in 1 .. Len(conns) : m # loop.i => conns'[m] = conns[m]
  BY <1>0, <1>1, <1>4, <1>9, <1>11, SetConn DEF TypeInv
<1>13. /\ sock'[c].st = sock[c].st /\ sock'[c].shut = sock[c].shut
       /\ sock'[c].up = <<>> /\ sock'[c].down = sock[c].down
  <2>1. /\ Taken.st = sock[c].st /\ Taken.up = <<>> /\ Taken.down = sock[c].down /\ Taken.shut = sock[c].shut
    BY <1>0, <1>1, <1>2, GotIs
  <2>2. sock'[c] = Taken
    BY <1>0, <1>9 DEF TypeInv, SocksOK
  <2> QED BY <2>1, <2>2
<1>14. Replied(c, j, v)
  BY <1>10, <1>11, <1>12, <1>13 DEF Replied
<1> QED BY <1>3, <1>8, <1>14

\* It reads what is another's.
LEMMA ReadOther ==
  ASSUME TableInv, NEW c \in Clients, ReadMore, conns[loop.i].fd # c
  PROVE  SameOf(c) /\ SameConns(c) /\ sock'[c] = sock[c]
<1>0. TypeInv /\ Progress /\ ConnTable
  BY DEF TableInv
<1> DEFINE i == loop.i
           d == conns[i].fd
<1>1. i \in Used /\ conns[i].state = "READING" /\ UNCHANGED <<script, cl, told>>
  BY <1>0, AtIs DEF ReadMore, AtSlot, Progress
<1>2. /\ ReadOver \/ ReadPart \/ ReadWhole
      /\ Got[1].r \in RequestIds /\ Got[1].r[1] = d
      /\ Exec(Got[1].type, script[Got[1].r[1]][Got[1].r[2]].sv) \in Results
  BY <1>0, <1>1, ReadIs
<1>3. i \in 1 .. Len(conns) /\ d # c /\ c # None /\ conns \in Seq(ConnType) /\ d \in Clients /\ conns[i] \in ConnType
  BY <1>0, <1>1, UsedIs, RawAssumption DEF TypeInv, ConnsOK
<1>4. sock'[c] = sock[c]
  BY <1>0, <1>2, <1>3 DEF ReadOver, ReadPart, ReadWhole, TypeInv, SocksOK
<1>5. SameConns(c)
  <2>1. ASSUME NEW x, conns' = [conns EXCEPT ![i] = x], x.fd # c PROVE SameConns(c)
    <3>1. Len(conns') = Len(conns) /\ conns'[i] = x /\ \A m \in 1 .. Len(conns) : m # i => conns'[m] = conns[m]
      BY <1>3, <2>1
    <3>2. \A m \in 1 .. Len(conns) : conns[m].fd = c \/ conns'[m].fd = c => Like(conns'[m], conns[m])
      BY <1>3, <2>1, <3>1 DEF Like
    <3> QED BY <3>1, <3>2, SameSlots
  <2>2. Closed.fd # c
    BY <1>3 DEF Closed
  <2>3. [conns[i] EXCEPT !.pkt = Got].fd # c
    BY <1>3 DEF ConnType
  <2>4. ASSUME NEW r, NEW v PROVE Reply(conns[i], r, v).fd # c
    BY <1>3 DEF ConnType, Reply
  <2>5. CASE ReadOver
    BY <2>1, <2>2, <2>5 DEF ReadOver
  <2>6. CASE ReadPart
    <3>1. conns' = [conns EXCEPT ![i] = [conns[i] EXCEPT !.pkt = Got]]
      BY <2>6 DEF ReadPart
    <3> QED BY <2>1, <2>3, <3>1
  <2>7. CASE ReadWhole
    <3>1. \E r, v : conns' = [conns EXCEPT ![i] = Reply(conns[i], r, v)]
      BY <2>7 DEF ReadWhole
    <3> QED BY <2>1, <2>4, <3>1
  <2> QED BY <1>2, <2>5, <2>6, <2>7
<1>6. \A j \in 1 .. Args : done'[<<c, j>>] = done[<<c, j>>]
  <2>1. CASE done' = done
    BY <2>1
  <2>2. CASE ReadWhole
    <3>1. \E x : done' = [done EXCEPT ![Got[1].r] = x]
      BY <2>2 DEF ReadWhole
    <3>2. \A j \in 1 .. Args : <<c, j>> # Got[1].r /\ <<c, j>> \in RequestIds
      BY <1>2, <1>3 DEF RequestIds
    <3>3. done = [r \in RequestIds |-> done[r]]
      BY <1>0 DEF TypeInv, RestOK
    <3> QED BY <3>1, <3>2, <3>3
  <2> QED BY <1>2, <2>1, <2>2 DEF ReadOver, ReadPart
<1>7. SameOf(c)
  BY <1>1, <1>6 DEF SameOf
<1> QED BY <1>4, <1>5, <1>7

LEMMA TalkRead ==
  ASSUME TableInv, NEW c \in Clients, Talk(c), ReadMore
  PROVE  Talk(c)'
<1>0. TypeInv /\ ConnTable /\ Progress
  BY DEF TableInv
<1>1. loop.i \in Used /\ cl' = cl /\ UNCHANGED <<script, told>>
  BY <1>0, AtIs DEF ReadMore
<1>2. CASE conns[loop.i].fd = c
  <2>1. PICK j \in 1 .. Args : Asking(c, j) /\ \E v \in Results : Replied(c, j, v)
    BY <1>2, ReadOwn
  <2>2. PICK v \in Results : Replied(c, j, v)
    BY <2>1
  <2> QED BY <1>0, <1>1, <1>2, <2>1, <2>2, TalkExec DEF Replied
<1>3. CASE conns[loop.i].fd # c
  BY <1>0, <1>3, ReadOther, TalkSame
<1> QED BY <1>2, <1>3

\* perpd writes the reply to c: all of it, into an empty socket.
LEMMA TalkReply ==
  ASSUME TypeInv, ConnTable, NEW c \in Clients, Talk(c), Spared(c), NEW i \in Used, conns[i].fd = c,
         conns[i].state = "WRITING", ~sock[c].shut, Len(conns') = Len(conns), conns'[i] = Conn(c),
         \A m \in 1 .. Len(conns) : m # i => conns'[m] = conns[m],
         sock'[c] = [st |-> sock[c].st, shut |-> sock[c].shut, up |-> sock[c].up, down |-> conns[i].pkt]
  PROVE  Talk(c)'
<1>1. cl[c].k \in 1 .. Args /\ sock[c].st = "open"
  BY ClientIs, TableIs
<1>2. sock[c].up = <<>> /\ sock[c].down = <<>>
  BY DEF Talk, PerpdSide
<1>3. \A j \in 1 .. Args : /\ ReplyTo(<<c, j>>)' = ReplyTo(<<c, j>>)
                           /\ done'[<<c, j>>] = done[<<c, j>>] /\ told'[<<c, j>>] = told[<<c, j>>]
  BY DEF Spared, ReplyTo
<1>4. ASSUME NEW m \in Used, conns[m].fd = c PROVE m = i
  <2>1. Distinct(conns) /\ m \in 1 .. Len(conns) /\ i \in 1 .. Len(conns) /\ c # None
    BY TableIs, RawAssumption DEF Used
  <2> QED BY <1>4, <2>1 DEF Distinct
<1>5. \A m \in Used' : conns'[m].fd = c => conns'[m].state = "READING" /\ conns'[m].pkt = <<>>
  <2>1. ASSUME NEW m \in Used', conns'[m].fd = c, m # i PROVE m \in Used /\ conns[m].fd = c
    BY <2>1, RawAssumption DEF Used
  <2> QED BY <1>4, <2>1, ConnIs
<1>6. PerpdSide(c)' /\ Reading(c)'
  <2>1. sock'[c].up = <<>>
    BY <1>2
  <2> QED BY <1>5, <2>1 DEF PerpdSide, Reading
<1>7. ~Reading(c) /\ ~Cut(c)
  BY <1>1 DEF Reading, Cut
<1>8. cl[c].pc = "read"
  BY <1>1, <1>7, ClientIs DEF Talk, ClientSide
<1>9. done[<<c, cl[c].k>>] \in Results /\ conns[i].pkt = ReplyTo(<<c, cl[c].k>>)
  <2>1. ~Asking(c, cl[c].k)
    BY <1>2, AskingIs
  <2>2. /\ done[<<c, cl[c].k>>] \in Results
        /\ \E m \in Used : conns[m].fd = c /\ conns[m].state = "WRITING" /\ conns[m].pkt = ReplyTo(<<c, cl[c].k>>)
    BY <1>7, <1>8, <2>1 DEF Talk, ClientSide
  <2> QED BY <1>4, <2>2
<1>10. /\ cl'[c] = cl[c] /\ sock'[c].st = sock[c].st /\ sock'[c].shut = sock[c].shut
       /\ sock'[c].up = <<>> /\ sock'[c].down = ReplyTo(<<c, cl[c].k>>)
  BY <1>2, <1>9 DEF Spared
<1>11. ClientSide(c)'
  <2>1. /\ ~sock[c].shut /\ cl[c].buf = <<>>
        /\ \A j \in 1 .. Args : /\ cl[c].k <= j => told[<<c, j>>] = Nothing
                                /\ cl[c].k < j => done[<<c, j>>] = Nothing
    BY <1>8 DEF Talk, ClientSide
  <2>2. sock'[c].down = ReplyTo(<<c, cl[c].k>>)' /\ done'[<<c, cl'[c].k>>] \in Results
    <3>1. \A k \in 1 .. Args : k = cl[c].k => sock'[c].down = ReplyTo(<<c, k>>)' /\ done'[<<c, k>>] \in Results
      BY <1>3, <1>9, <1>10
    <3>2. cl'[c].k = cl[c].k
      BY <1>10
    <3> QED BY <1>1, <3>1, <3>2
  <2> QED BY <1>1, <1>3, <1>6, <1>8, <1>10, <2>1, <2>2 DEF ClientSide
<1> QED BY <1>6, <1>11 DEF Talk

\* All of a reply fits, and the connection starts anew.
LEMMA RestartIs ==
  ASSUME NEW conn, conn.w = 0, Len(conn.pkt) \in 2 .. 4, NEW k, k = Fit(Cap - 0, Len(conn.pkt) - 0)
  PROVE  k = Len(conn.pkt) /\ Wrote(conn, k) = Conn(conn.fd)
<1>1. k = Len(conn.pkt)
  BY RoomIs
<1>2. Len(conn.pkt) - 0 = Len(conn.pkt)
  OBVIOUS
<1> QED BY <1>1, <1>2 DEF Wrote, Restart

LEMMA TalkWritten ==
  ASSUME TableInv, TableInv', NEW c \in Clients, Talk(c), Write
  PROVE  Talk(c)'
<1>0. TypeInv /\ Progress /\ ConnTable
  BY DEF TableInv
<1> DEFINE i == loop.i
           conn == conns[i]
           d == conn.fd
<1>1. /\ i \in Used /\ conn.state = "WRITING" /\ Spared(c)
      /\ i \in 1 .. Len(conns) /\ d \in Clients /\ conns \in Seq(ConnType) /\ ConnOK(conn)
  <2>1. i \in Used /\ conn.state = "WRITING" /\ Spared(c)
    BY <1>0, AtIs DEF Write, AtSlot, Progress, Spared
  <2> QED BY <1>0, <2>1, UsedIs DEF TypeInv, ConnsOK
<1>2. CASE Close(i)
  BY <1>0, <1>1, <1>2, TalkClose
<1>3. CASE ~sock[d].shut /\ \E k \in 0 .. Len(conn.pkt) - conn.w : WriteSome(k)
  <2>1. PICK k \in 0 .. Len(conn.pkt) - conn.w : WriteSome(k)
    BY <1>3
  <2>2. /\ k = Fit(Cap - Len(sock[d].down), Len(conn.pkt) - conn.w)
        /\ conns' = [conns EXCEPT ![i] = Wrote(conn, k)]
        /\ sock' = [sock EXCEPT ![d] = [st |-> sock[d].st, shut |-> sock[d].shut, up |-> sock[d].up,
                                        down |-> sock[d].down \o SubSeq(conn.pkt, conn.w + 1, conn.w + k)]]
    BY <2>1 DEF WriteSome
  <2>3. Len(conns') = Len(conns) /\ conns'[i] = Wrote(conn, k)
        /\ \A m \in 1 .. Len(conns) : m # i => conns'[m] = conns[m]
    <3>1. ASSUME NEW x, conns' = [conns EXCEPT ![i] = x]
          PROVE  Len(conns') = Len(conns) /\ conns'[i] = x /\ \A m \in 1 .. Len(conns) : m # i => conns'[m] = conns[m]
      <4> HIDE DEF i
      <4> QED BY <1>1, <3>1
    <3> QED BY <2>2, <3>1
  <2>4. CASE d # c
    <3>1. sock'[c] = sock[c]
      BY <1>0, <2>2, <2>4 DEF TypeInv, SocksOK
    <3>2. Wrote(conn, k).fd = d
      <4> HIDE DEF conn
      <4> QED BY <1>1, WroteOK
    <3>3. \A m \in 1 .. Len(conns) : conns[m].fd = c \/ conns'[m].fd = c => Like(conns'[m], conns[m])
      BY <2>3, <2>4, <3>2 DEF Like
    <3>4. SameConns(c)
      BY <2>3, <3>3, SameSlots
    <3> QED BY <1>0, <1>1, <3>1, <3>4, SparedIs, TalkSame
  <2>5. CASE d = c
    <3>1. /\ conn.w = 0 /\ sock[c].down = <<>>
          /\ \E j \in 1 .. Args : done[<<c, j>>] \in Results /\ conn.pkt = ReplyTo(<<c, j>>)
      BY <1>1, <2>5 DEF Talk, PerpdSide
    <3>2. conn.pkt \in Seq(Unit) /\ Len(conn.pkt) \in 2 .. 4
      <4>1. PICK j \in 1 .. Args : done[<<c, j>>] \in Results /\ conn.pkt = ReplyTo(<<c, j>>)
        BY <3>1
      <4>2. <<c, j>> \in RequestIds
        BY DEF RequestIds
      <4>3. ReplyTo(<<c, j>>) \in Seq(Unit) /\ Len(ReplyTo(<<c, j>>)) \in 2 .. 4
        BY <4>1, <4>2, ReplyToIs
      <4> QED BY <4>1, <4>3
    <3>3. k = Fit(Cap - 0, Len(conn.pkt) - 0)
      BY <2>2, <2>5, <3>1
    <3>4. k = Len(conn.pkt) /\ Wrote(conn, k) = Conn(c)
      <4> HIDE DEF conn
      <4> QED BY <2>5, <3>1, <3>2, <3>3, RestartIs DEF d
    <3>5. sock[c].down \o SubSeq(conn.pkt, conn.w + 1, conn.w + k) = conn.pkt
      <4>1. conn.w + 1 = 1 /\ conn.w + k = Len(conn.pkt)
        BY <3>1, <3>2, <3>4
      <4> HIDE DEF conn
      <4> QED BY <3>1, <3>2, <4>1, WholeIs, ConcatEmptySeq
    <3>6. sock'[c] = [st |-> sock[c].st, shut |-> sock[c].shut, up |-> sock[c].up, down |-> conn.pkt]
      BY <1>0, <2>2, <2>5, <3>5 DEF TypeInv, SocksOK
    <3> QED BY <1>0, <1>1, <1>3, <2>3, <2>5, <3>4, <3>6, TalkReply
  <2> QED BY <2>4, <2>5
<1> QED BY <1>0, <1>1, <1>2, <1>3, WriteIs

LEMMA TalkPerpd ==
  ASSUME TableInv, TableInv', NEW c \in Clients, Talk(c), Perpd
  PROVE  Talk(c)'
<1>0. TypeInv /\ ConnTable /\ Progress
  BY DEF TableInv
<1>1. ASSUME Poll \/ LoopStep PROVE Talk(c)'
  <2>1. Spared(c) /\ conns' = conns /\ sock'[c] = sock[c]
    BY <1>1 DEF Poll, LoopStep, Pass, Passed, Serve, End, Spared
  <2> QED BY <1>0, <2>1, TalkLeft
<1>2. ASSUME CloseHup PROVE Talk(c)'
  <2>1. Spared(c) /\ Close(loop.i) /\ loop.i \in Used
    BY <1>0, <1>2, HupProgress DEF CloseHup, Spared
  <2> QED BY <1>0, <2>1, TalkClose
<1>3. ASSUME ReadEmpty PROVE Talk(c)'
  <2>1. Spared(c) /\ loop.i \in Used
    BY <1>0, <1>3, AtIs DEF ReadEmpty, Spared
  <2>2. Close(loop.i) \/ UNCHANGED <<conns, sock>>
    BY <1>0, <1>3, <2>1, EmptyIs
  <2> QED BY <1>0, <2>1, <2>2, TalkClose, TalkLeft
<1> QED BY <1>0, <1>1, <1>2, <1>3, TalkTop, TalkPost, TalkAccept, TalkRead, TalkWritten DEF Perpd, LoopStep

LEMMA TalkWorld ==
  ASSUME TypeInv, NEW c \in Clients, Talk(c), Tick \/ Term \/ (\E s \in Services : Turn(s)) \/ UNCHANGED vars
  PROVE  Talk(c)' /\ UNCHANGED <<done, told>>
<1>1. Spared(c) /\ sock' = sock
  BY DEF Tick, Term, Turn, vars, Spared
<1>2. CASE Tick
  <2>1. Len(conns') = Len(conns) /\ \A i \in 1 .. Len(conns) : Like(conns'[i], conns[i])
    BY <1>2, TickIs DEF Like
  <2>2. SameConns(c)
    BY <2>1, SameSlots
  <2> QED BY <1>1, <2>2, SparedIs, TalkSame DEF Spared
<1>3. CASE Term \/ (\E s \in Services : Turn(s)) \/ UNCHANGED vars
  <2>1. conns' = conns
    BY <1>3 DEF Term, Turn, vars
  <2> QED BY <1>1, <2>1, TalkLeft DEF Spared
<1> QED BY <1>2, <1>3

\* The steps of other clients.
ByClient(d) == ClientStep(d) \/ Pipeline(d) \/ Kill(d)
LEMMA ByIs ==
  ASSUME TableInv, NEW d \in Clients, ByClient(d)
  PROVE  /\ UNCHANGED <<script, conns, done>>
         /\ \A c \in Clients \ {d} : cl'[c] = cl[c] /\ sock'[c] = sock[c]
         /\ UNCHANGED told \/ \E v : Tell(d, v)
<1>0. TypeInv /\ Queue
  BY DEF TableInv
<1>1. CASE Connect(d)
  <2>1. \A c \in Clients \ {d} : cl'[c] = cl[c] /\ sock'[c] = sock[c]
    BY <1>0, <1>1, ConnectIs
  <2> QED BY <1>1, <2>1 DEF Connect
<1>2. CASE SkipArg(d)
  <2>1. Talks(d) /\ Tell(d, Lost)
    BY <1>0, <1>2, SkipIs
  <2> QED BY <2>1 DEF Talks
<1>3. CASE ClientWrite(d)
  <2>1. Talks(d) /\ (Tell(d, Lost) \/ UNCHANGED told)
    BY <1>0, <1>3, WriteToIs DEF Asked
  <2> QED BY <2>1 DEF Talks
<1>4. CASE ClientRead(d)
  <2>1. Talks(d) /\ (UNCHANGED told \/ \E v : Tell(d, v))
    BY <1>0, <1>4, ReadFromIs
  <2> QED BY <2>1 DEF Talks
<1>5. CASE Pipeline(d) \/ Kill(d)
  <2>1. Talks(d) /\ UNCHANGED told
    BY <1>0, <1>5, PipelineIs, KillIs
  <2> QED BY <2>1 DEF Talks
<1> QED BY <1>1, <1>2, <1>3, <1>4, <1>5 DEF ByClient, ClientStep

LEMMA ToldOther ==
  ASSUME TypeInv, NEW d \in Clients, NEW r \in RequestIds, r[1] # d, UNCHANGED told \/ \E v : Tell(d, v)
  PROVE  told'[r] = told[r]
<1>1. CASE \E v : Tell(d, v)
  <2>1. PICK v : told' = [told EXCEPT ![<<d, cl[d].k>>] = v]
    BY <1>1 DEF Tell
  <2>2. <<d, cl[d].k>> # r /\ told = [x \in RequestIds |-> told[x]]
    BY DEF TypeInv, RestOK
  <2> QED BY <2>1, <2>2
<1> QED BY <1>1

LEMMA TalkClients ==
  ASSUME TableInv, NEW d \in Clients, ByClient(d), TalkInv
  PROVE  TalkInv'
<1>0. TypeInv /\ Honest \subseteq Clients
  BY DEF TableInv, Honest
<1>1. /\ UNCHANGED <<script, conns, done>>
      /\ \A c \in Clients \ {d} : cl'[c] = cl[c] /\ sock'[c] = sock[c]
      /\ UNCHANGED told \/ \E v : Tell(d, v)
  BY ByIs
<1>2. ASSUME NEW c \in Honest, c # d PROVE Talk(c)'
  <2>1. \A j \in 1 .. Args : told'[<<c, j>>] = told[<<c, j>>]
    <3>1. ASSUME NEW j \in 1 .. Args PROVE told'[<<c, j>>] = told[<<c, j>>]
      <4>1. <<c, j>> \in RequestIds /\ <<c, j>>[1] # d
        BY <1>0, <1>2 DEF RequestIds
      <4> QED BY <1>0, <1>1, <4>1, ToldOther
    <3> QED BY <3>1
  <2>2. SameOf(c) /\ sock'[c] = sock[c]
    BY <1>0, <1>1, <1>2, <2>1 DEF SameOf
  <2>3. SameConns(c)
    BY <1>0, <1>1, SameSlots DEF Like
  <2>4. Talk(c)
    BY DEF TalkInv, Talk
  <2> QED BY <1>0, <2>2, <2>3, <2>4, TalkSame
<1>3. ASSUME d \in Honest PROVE Talk(d)'
  <2>1. Talk(d) /\ d \notin Raw
    BY <1>3 DEF TalkInv, Talk, Honest
  <2>2. ~Pipeline(d)
    BY <2>1 DEF Pipeline
  <2> QED BY <1>3, <2>1, <2>2, TalkConnect, TalkSkip, TalkWrite, TalkHear, TalkKill DEF ByClient, ClientStep
<1>4. \A c \in Honest : Talk(c)'
  BY <1>2, <1>3
<1> QED BY <1>4 DEF TalkInv, Talk, Honest

LEMMA NextTalk ==
  ASSUME TableInv, TableInv', TalkInv, [Next]_vars
  PROVE  TalkInv'
<1>0. TypeInv /\ Honest \subseteq Clients /\ \A c \in Honest : Talk(c)
  BY DEF TableInv, Honest, TalkInv, Talk
<1>1. ASSUME Perpd PROVE TalkInv'
  <2>1. \A c \in Honest : Talk(c)'
    BY <1>0, <1>1, TalkPerpd
  <2> QED BY <2>1 DEF TalkInv, Talk, Honest
<1>2. ASSUME Tick \/ Term \/ (\E s \in Services : Turn(s)) \/ UNCHANGED vars PROVE TalkInv'
  <2>1. \A c \in Honest : Talk(c)'
    BY <1>0, <1>2, TalkWorld
  <2> QED BY <2>1 DEF TalkInv, Talk, Honest
<1>3. ASSUME NEW c \in Clients, ByClient(c) PROVE TalkInv'
  BY <1>3, TalkClients
<1>4. \/ Perpd
      \/ Tick \/ Term \/ (\E s \in Services : Turn(s)) \/ UNCHANGED vars
      \/ \E c \in Clients : ByClient(c)
  BY DEF Next, ByClient
<1> QED BY <1>1, <1>2, <1>3, <1>4

LEMMA InitTalk ==
  ASSUME Init
  PROVE  TalkInv
<1>1. /\ cl = [c \in Clients |-> Idle] /\ sock = [c \in Clients |-> NoSock] /\ conns = <<>> /\ script \in Scripts
      /\ done = [r \in RequestIds |-> Nothing] /\ told = [r \in RequestIds |-> Nothing]
  BY DEF Init
<1>2. Used = {}
  BY <1>1 DEF Used
<1>3. ASSUME NEW c \in Honest PROVE PerpdSide(c) /\ ClientSide(c)
  <2>1. c \in Clients /\ Len(script[c]) \in 1 .. Args
    BY <1>1, ScriptIs DEF Honest
  <2>2. \A j \in 1 .. Args : done[<<c, j>>] = Nothing /\ told[<<c, j>>] = Nothing
    BY <1>1, <2>1 DEF RequestIds
  <2>3. sock[c].up = <<>> /\ sock[c].down = <<>> /\ sock[c].shut = FALSE
    BY <1>1, <2>1 DEF NoSock
  <2>4. cl[c].pc = "off" /\ cl[c].k = 1 /\ cl[c].w = 0 /\ cl[c].buf = <<>> /\ 1 \in 1 .. Args
    BY <1>1, <2>1, ArgsAssumption DEF Idle
  <2>5. PerpdSide(c) /\ Reading(c)
    BY <1>2, <2>3 DEF PerpdSide, Reading
  <2>6. ClientSide(c)
    BY <2>2, <2>3, <2>4, <2>5 DEF ClientSide
  <2> QED BY <2>5, <2>6
<1> QED BY <1>3 DEF TalkInv

(***************************************************************************)
(* The control socket implements Rpc, step by step.                        *)
(***************************************************************************)
LEMMA Unmoved ==
  ASSUME \A r \in HonestIds : done'[r] = done[r] /\ told'[r] = told[r]
  PROVE  UNCHANGED R!vars
<1>1. HonestIds' = HonestIds
  BY DEF HonestIds, RequestIds, Honest
<1>2. [r \in HonestIds |-> done[r]]' = [r \in HonestIds |-> done[r]]
  BY <1>1
<1>3. [r \in HonestIds |-> told[r]]' = [r \in HonestIds |-> told[r]]
  BY <1>1
<1> QED BY <1>2, <1>3 DEF R!vars

\* perpd acts upon a request: Do.
LEMMA DoRefines ==
  ASSUME TypeInv, NEW r \in HonestIds, NEW v \in Results, done[r] = Nothing,
         done' = [done EXCEPT ![r] = v], told' = told
  PROVE  R!Next
<1>1. done = [x \in RequestIds |-> done[x]] /\ r \in RequestIds
  BY DEF TypeInv, RestOK, HonestIds
<1>2. done'[r] = v /\ \A x \in HonestIds : x # r => done'[x] = done[x]
  BY <1>1 DEF HonestIds
<1>3. [x \in HonestIds |-> done'[x]] = [[x \in HonestIds |-> done[x]] EXCEPT ![r] = v]
  BY <1>2
<1>4. [x \in HonestIds |-> done[x]][r] = Nothing
  OBVIOUS
<1>5. [x \in HonestIds |-> told'[x]] = [x \in HonestIds |-> told[x]]
  OBVIOUS
<1>6. R!Do(r)
  BY <1>3, <1>4, <1>5 DEF R!Do
<1> QED BY <1>6 DEF R!Next

\* A tool hears the result of its request, or of an error: Tell, Lose.
LEMMA TellRefines ==
  ASSUME TypeInv, NEW r \in HonestIds, NEW v, v = Lost \/ (v = done[r] /\ v \in Results), told[r] = Nothing,
         told' = [told EXCEPT ![r] = v], done' = done
  PROVE  R!Next
<1>1. told = [x \in RequestIds |-> told[x]] /\ r \in RequestIds
  BY DEF TypeInv, RestOK, HonestIds
<1>2. told'[r] = v /\ \A x \in HonestIds : x # r => told'[x] = told[x]
  BY <1>1 DEF HonestIds
<1>3. [x \in HonestIds |-> told'[x]] = [[x \in HonestIds |-> told[x]] EXCEPT ![r] = v]
  BY <1>2
<1>4. [x \in HonestIds |-> told[x]][r] = Nothing /\ [x \in HonestIds |-> done[x]][r] = done[r]
  OBVIOUS
<1>5. [x \in HonestIds |-> done'[x]] = [x \in HonestIds |-> done[x]]
  OBVIOUS
<1>6. CASE v = Lost
  <2>1. R!Lose(r)
    BY <1>3, <1>4, <1>5, <1>6 DEF R!Lose
  <2> QED BY <2>1 DEF R!Next
<1>7. CASE v = done[r] /\ v \in Results
  <2>1. v # Nothing
    BY <1>7, ResultIs
  <2>2. R!Tell(r)
    BY <1>3, <1>4, <1>5, <1>7, <2>1 DEF R!Tell
  <2> QED BY <2>2 DEF R!Next
<1> QED BY <1>6, <1>7

LEMMA IdIs ==
  ASSUME NEW c \in Clients, NEW j \in 1 .. Args
  PROVE  /\ <<c, j>> \in RequestIds /\ (c \in Honest => <<c, j>> \in HonestIds)
         /\ \A r \in HonestIds : r \in RequestIds /\ r[1] \in Honest
BY DEF RequestIds, HonestIds

LEMMA ReadRefines ==
  ASSUME TableInv, TalkInv, ReadMore
  PROVE  R!Next \/ UNCHANGED R!vars
<1>0. TypeInv /\ Progress /\ told' = told
  BY DEF TableInv, ReadMore
<1> DEFINE c == conns[loop.i].fd
<1>1. c \in Clients
  BY <1>0, AtIs, UsedIs DEF ReadMore
<1>2. CASE c \in Honest
  <2>1. Talk(c)
    BY <1>2 DEF TalkInv, Talk
  <2>2. PICK j \in 1 .. Args : Asking(c, j) /\ \E v \in Results : Replied(c, j, v)
    BY <1>1, <2>1, ReadOwn
  <2>3. PICK v \in Results : Replied(c, j, v)
    BY <2>2
  <2>4. <<c, j>> \in HonestIds
    BY <1>1, <1>2, IdIs
  <2>5. done[<<c, j>>] = Nothing /\ done' = [done EXCEPT ![<<c, j>>] = v]
    BY <2>2, <2>3 DEF Asking, Replied
  <2> QED BY <1>0, <2>4, <2>5, DoRefines
<1>3. CASE c \notin Honest
  <2>1. ASSUME NEW r \in HonestIds PROVE done'[r] = done[r]
    <3>1. PICK d \in Clients, j \in 1 .. Args : r = <<d, j>>
      BY DEF HonestIds, RequestIds
    <3>2. d # c
      BY <1>3, <3>1 DEF HonestIds
    <3>3. SameOf(d)
      BY <3>2, ReadOther
    <3> QED BY <3>1, <3>3 DEF SameOf
  <2> QED BY <1>0, <2>1, Unmoved
<1> QED BY <1>2, <1>3

LEMMA ClientRefines ==
  ASSUME TableInv, TalkInv, NEW c \in Clients, ByClient(c)
  PROVE  R!Next \/ UNCHANGED R!vars
<1>0. TypeInv /\ Queue
  BY DEF TableInv
<1>1. done' = done /\ (UNCHANGED told \/ \E v : Tell(c, v))
  BY ByIs
<1>2. CASE UNCHANGED told
  BY <1>1, <1>2, Unmoved
<1>3. CASE c \notin Honest
  <2>1. ASSUME NEW r \in HonestIds PROVE told'[r] = told[r]
    <3>1. r \in RequestIds /\ r[1] # c
      BY <1>3 DEF HonestIds
    <3> QED BY <1>0, <1>1, <3>1, ToldOther
  <2> QED BY <1>1, <2>1, Unmoved
<1>4. CASE c \in Honest /\ told' # told
  <2>1. Talk(c) /\ c \notin Raw
    BY <1>4 DEF TalkInv, Talk, Honest
  <2>2. cl[c].pc \in {"write", "read"} /\ Hears(c)
    <3>1. CASE SkipArg(c)
      BY <1>0, <1>4, <2>1, <3>1, SkipIs DEF Hears
    <3>2. CASE ClientWrite(c)
      <4>1. cl[c].pc = "write" /\ Tell(c, Lost)
        BY <1>0, <1>4, <2>1, <3>2, TalkWrite, WriteToIs
      <4> QED BY <4>1 DEF Hears
    <3>3. CASE ClientRead(c)
      BY <1>0, <1>4, <2>1, <3>3, TalkHear, ReadFromIs
    <3>4. ~Connect(c) /\ ~Kill(c) /\ ~Pipeline(c)
      BY <1>4, <2>1 DEF Connect, Kill, Pipeline
    <3> QED BY <3>1, <3>2, <3>3, <3>4 DEF ByClient, ClientStep
  <2>3. cl[c].k \in 1 .. Args
    BY <1>0, ClientIs
  <2>4. told[<<c, cl[c].k>>] = Nothing /\ <<c, cl[c].k>> \in HonestIds
    <3>1. told[<<c, cl[c].k>>] = Nothing
      BY <2>1, <2>2, <2>3, ArgsAssumption DEF Talk, ClientSide
    <3> QED BY <1>4, <2>3, <3>1, IdIs
  <2>5. PICK v : Tell(c, v) /\ (v = Lost \/ (v = done[<<c, cl[c].k>>] /\ v \in Results))
    BY <2>2 DEF Hears
  <2>6. told' = [told EXCEPT ![<<c, cl[c].k>>] = v]
    BY <2>5 DEF Tell
  <2> QED BY <1>0, <1>1, <2>4, <2>5, <2>6, TellRefines
<1> QED BY <1>2, <1>3, <1>4

LEMMA StepRefines ==
  ASSUME TableInv, TalkInv, [Next]_vars
  PROVE  R!Next \/ UNCHANGED R!vars
<1>1. CASE ReadMore
  BY <1>1, ReadRefines
<1>2. CASE \E c \in Clients : ByClient(c)
  BY <1>2, ClientRefines
<1>3. CASE UNCHANGED <<done, told>>
  BY <1>3, Unmoved
<1>4. ReadMore \/ (\E c \in Clients : ByClient(c)) \/ UNCHANGED <<done, told>>
  BY DEF Next, Perpd, ByClient, Top, Poll, Post, Pass, Passed, CloseHup, Serve, Accept, End, ReadEmpty, Write,
         Tick, Term, Turn, vars
<1> QED BY <1>1, <1>2, <1>3, <1>4

\* The control socket keeps its promise to each of perp's tools, however many
\* clients, connections and arguments there are, whatever raw clients send and
\* wherever a timeout, a hang-up, a kill or SIGTERM strikes: perpd_conn_exec()
\* acts upon a request at most once, and what a tool is told of it is its own
\* result, whole, or an error.
THEOREM RequestsAnswered == Spec => Answered
<1>1. Init => TableInv /\ TalkInv
  BY InitTable, InitTalk
<1>2. TableInv /\ TalkInv /\ [Next]_vars => (TableInv /\ TalkInv)'
  BY NextTable, NextTalk
<1>3. Init => R!Init
  BY DEF Init, R!Init, HonestIds
<1>4. TableInv /\ TalkInv /\ [Next]_vars => [R!Next]_(R!vars)
  BY StepRefines
<1> QED BY <1>1, <1>2, <1>3, <1>4, PTL DEF Spec, Answered, R!Spec
=============================================================================
