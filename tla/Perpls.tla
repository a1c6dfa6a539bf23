------------------------------- MODULE Perpls -------------------------------
(***************************************************************************)
(* What perp's tools show of a service: the panel of perpls, its listing   *)
(* and colours, the report of perpstat and the verdict of perpok, all made *)
(* from the status perpd sends (perpd_conn_exec_query()).                  *)
(*                                                                         *)
(* perpls is a process that asks for one service after the other while     *)
(* services change and time passes; the socket is in PerpdConn.tla.  The   *)
(* clock ticks thirds of a second, so that tain_uptime() rounds both ways. *)
(***************************************************************************)
EXTENDS Encodings, FiniteSets

CONSTANTS
  Names,       \* service directories: numbers, in the order of their names
  Long,        \* those whose name is longer than PADMAX
  Starts,      \* what services there may be at the start: sets of dir
  Options,     \* command lines [args, t, r, color, db]
  Tmax,        \* the clock stops here
  Changes      \* how often a service may change

Caps == {"df", "na", "an", "ar", "ap", "ad", "wu", "wd", "er", "ex"}
Pid == 70001
Sub == [pid : {0, Pid}, when : 0 .. Tmax, isreset : BOOLEAN, isonce : BOOLEAN,
        ispaused : BOOLEAN, wantdown : BOOLEAN]
Status == [cull : BOOLEAN, cycle : BOOLEAN, haslog : BOOLEAN, main : Sub, log : Sub]
\* kind: "none", "file", "plain" (no sticky bit), "unknown" to perpd, "active"
Dir == [kind : {"none", "file", "plain", "unknown", "active"}, st : Status]

ASSUME NamesAssumption == Names \subseteq Nat /\ IsFiniteSet(Names) /\ Long \subseteq Names
ASSUME StartsAssumption == Starts \subseteq [Names -> Dir]
ASSUME OptionsAssumption == \A o \in Options : o.args \in Seq(Names) /\ o.t \in BOOLEAN /\ o.r \in BOOLEAN
\* An uptime is printed as a uint32_t: the seconds of an uptime fit in 4 bytes.
ASSUME BoundAssumption ==
  Tmax \in Nat /\ 2 <= Tmax /\ Shifted(Tmax \div 3 + 1, 4) = 0 /\ Changes \in Nat

VARIABLES
  clock,       \* the time
  svc,         \* service -> its directory and what perpd knows of it
  opt,         \* perpls: the command line
  pc,          \* perpls: "list", "now", "query", "show", "done"
  now,         \* perpls: the time uptimes are compared to
  list,        \* perpls: svstuf, a sequence of entries
  i,           \* perpls: the next entry to ask for
  out,         \* perpls: the lines printed
  changes      \* what is left of Changes

vars == <<clock, svc, opt, pc, now, list, i, out, changes>>

Tain(t) == [sec |-> 1000000 + t \div 3, nsec |-> (t % 3) * 333333333]

(***************************************************************************)
(* perpd_conn_exec_query(): the status, 66 bytes.                          *)
(***************************************************************************)
Bit(flag, value) == IF flag THEN value ELSE 0
Svdef_bitflags(st) == 1 + Bit(st.haslog, 2) + Bit(st.cull, 4) + Bit(st.cycle, 8)
Subsv_bitflags(sub) ==
  Bit(sub.isreset, 2) + Bit(sub.isonce, 4) + Bit(sub.ispaused, 8) + Bit(sub.wantdown, 16)
Subsv_bytes(sub, islog) ==
  Upak_pack(4, sub.pid) \o Tain_pack(Tain(sub.when)) \o <<Subsv_bitflags(sub) + Bit(islog, 1), 0>>
Exec_query(st) ==
  Upak_pack(4, 1) \o Tain_pack(Tain(0)) \o Tain_pack(Tain(0)) \o <<Svdef_bitflags(st), 0>>
    \o Subsv_bytes(st.main, FALSE) \o (IF st.haslog THEN Subsv_bytes(st.log, TRUE) ELSE Upak_pack(18, 0))

\* How the tools read it: flags, and what they find at three offsets.
Has(b, offset, value) == (b[offset + 1] \div value) % 2 = 1
Subsv_at(b, pid, when, flags) ==
  [pid |-> Upak_unpack(At(b, pid, 4)), when |-> Tain_unpack(At(b, when, 12)),
   isreset |-> Has(b, flags, 2), isonce |-> Has(b, flags, 4), ispaused |-> Has(b, flags, 8),
   wantdown |-> Has(b, flags, 16)]

(***************************************************************************)
(* svstat_unpack(): a triple of the panel.  A process younger than a       *)
(* second counts as not up yet.                                            *)
(***************************************************************************)
Svstat_main(e) == Subsv_at(e.binstat, 30, 34, 46)
Svstat_log(e) == Subsv_at(e.binstat, 48, 52, 64)
Young(sub, t) == Tain_uptime(t, sub.when) < 1 /\ ~sub.isreset
Attention_up(sub) == sub.pid # 0 /\ sub.wantdown
Attention(sub) == (sub.pid = 0) # sub.wantdown
Triple(sub, t) ==
  LET all == IF sub.pid # 0 THEN "+" ELSE "."
      first == IF Attention(sub) THEN "!" ELSE all
  IN IF sub.pid = 0 THEN <<first, all, all>>
     ELSE IF Young(sub, t) THEN <<"!", ".", ".">>
     ELSE <<first, IF sub.isonce THEN "o" ELSE all,
            IF sub.isreset THEN "r" ELSE IF sub.ispaused THEN "p" ELSE all>>

\* svstat_query() and svstat_unpack(): the first place of the panel.
Head1(entry) ==
  CASE entry.kind \in {"none", "file", "unknown"} -> "E"
    [] entry.kind = "plain" -> "-"
    [] entry.kind = "active" -> IF ~Has(entry.binstat, 28, 4) THEN "+"
                                ELSE IF Has(entry.binstat, 28, 8) THEN "R" ELSE "!"

Blank == <<"-", "-", "-">>
Panel(entry, t) ==
  LET shown == entry.kind = "active"
  IN [head |-> Head1(entry),
      main |-> IF shown THEN Triple(Svstat_main(entry), t) ELSE Blank,
      log |-> IF shown /\ Has(entry.binstat, 28, 2) THEN Triple(Svstat_log(entry), t) ELSE Blank]

(***************************************************************************)
(* svstat_setcap() and captab: the colour of a line.                       *)
(***************************************************************************)
Setcap(p) ==
  LET want(triple) == IF triple[2] = "." THEN "wu" ELSE "wd"
  IN CASE p.head = "E" -> "er" [] p.head \in {"!", "R"} -> "ex" [] p.head = "-" -> "na"
       [] p.head = "+" ->
          IF p.main[1] = "!" THEN want(p.main)
          ELSE IF p.log[1] = "!" THEN want(p.log)
          ELSE IF p.main[2] = "." THEN "ad"
          ELSE IF p.main[3] = "p" THEN "ap"
          ELSE IF p.main[3] = "r" THEN "ar" ELSE "an"

\* captab_lookup(): the first attribute given for a key; captab_init(): one
\* that is missing or too long is replaced by the one of "df".
Attrs(db, key) == {n \in 1 .. Len(db) : db[n].key = key}
First(S) == CHOOSE n \in S : \A k \in S : n <= k
Usable(db, key) == Attrs(db, key) # {} /\ db[First(Attrs(db, key))].short
Attr(db, key) == IF Usable(db, key) THEN <<key, First(Attrs(db, key))>>
                 ELSE IF Usable(db, "df") THEN <<"df", First(Attrs(db, "df"))>> ELSE <<"0", 0>>

\* main(): colours are used if asked for, or if defined and on a terminal.
UseColor == CASE opt.color = "G" -> TRUE [] opt.color = "g" -> FALSE
              [] opt.color = "tty" -> opt.db # <<>> [] opt.color = "pipe" -> FALSE

(***************************************************************************)
(* perpstat: report(), here of main, and perpok -u secs: main().           *)
(***************************************************************************)
Report(b, t) ==
  LET sub == Subsv_at(b, 30, 34, 46)
      up == sub.pid # 0 /\ ~Young(sub, t)
  IN [state |-> IF ~up THEN "down" ELSE IF sub.isreset THEN "resetting" ELSE "up",
      secs |-> Tain_uptime(t, sub.when),
      wantup |-> IF sub.pid = 0 THEN ~sub.wantdown ELSE ~up,
      once |-> sub.isonce,
      paused |-> up /\ sub.ispaused]

Perpok(entry, t, secs) ==
  /\ entry.kind = "active"
  /\ secs > 0 => /\ Upak_unpack(At(entry.binstat, 30, 4)) > 0
                 /\ ~Has(entry.binstat, 46, 2) /\ ~Has(entry.binstat, 46, 16)
                 /\ Tain_uptime(t, Tain_unpack(At(entry.binstat, 34, 12))) >= secs

(***************************************************************************)
(* perpls: main().                                                         *)
(***************************************************************************)
\* svstat_init(): uptime_main is 0 until svstat_unpack() fills it in.  sent, for
\* the properties, is the status behind binstat.
Entry(n) == [name |-> n, kind |-> "plain", sent |-> svc[n].st, binstat |-> <<>>, uptime_main |-> 0]

Init ==
  /\ clock = Tmax - 2
  /\ svc \in Starts
  /\ opt \in Options
  /\ pc = "list" /\ now = 0 /\ list = <<>> /\ i = 1 /\ out = <<>>
  /\ changes = Changes

\* The services named, or the directories found, in any order.
Orders(S) == {f \in [1 .. Cardinality(S) -> S] : \A a, b \in 1 .. Cardinality(S) : f[a] = f[b] => a = b}
List ==
  /\ pc = "list"
  /\ IF opt.args # <<>> THEN list' = [k \in 1 .. Len(opt.args) |-> Entry(opt.args[k])]
     ELSE \E f \in Orders({n \in Names : svc[n].kind \notin {"none", "file"}}) :
            list' = [k \in DOMAIN f |-> Entry(f[k])]
  /\ pc' = "now"
  /\ UNCHANGED <<clock, svc, opt, now, i, out, changes>>

\* connect(), then tain_now().
Now ==
  /\ pc = "now"
  /\ now' = clock /\ pc' = "query"
  /\ UNCHANGED <<clock, svc, opt, list, i, out, changes>>

\* svstat_query()
Following == i + 1
Query ==
  /\ pc = "query" /\ i <= Len(list)
  /\ LET e == list[i]
         dir == svc[e.name]
         binstat == IF dir.kind = "active" THEN Exec_query(dir.st) ELSE e.binstat
     IN list' = [list EXCEPT ![i] = [e EXCEPT !.kind = dir.kind, !.sent = dir.st, !.binstat = binstat]]
  /\ i' = Following
  /\ UNCHANGED <<clock, svc, opt, pc, now, out, changes>>

\* cmp_byname(), cmp_byuptime(), dynstuf_sort(), dynstuf_reverse(): the list is
\* sorted before svstat_unpack() has filled in uptime_main.
ByName(e, f) == e.name < f.name
ByUptime(e, f) == e.uptime_main < f.uptime_main \/ (e.uptime_main = f.uptime_main /\ ByName(e, f))
Before_swapped(e, f) == ByName(f, e)
Before(e, f) == IF opt.t THEN ByUptime(e, f) ELSE ByName(e, f)
Sorted(s) ==
  LET n == Len(s)
      rank(k) == 1 + Cardinality({j \in 1 .. n : Before(s[j], s[k]) \/ (j < k /\ ~Before(s[k], s[j]))})
  IN [k \in 1 .. n |-> s[CHOOSE j \in 1 .. n : rank(j) = k]]
Sort == IF opt.t \/ opt.args = <<>> THEN Sorted(list) ELSE list
Reversed(s) == IF opt.r THEN [k \in 1 .. Len(s) |-> s[Len(s) + 1 - k]] ELSE s
Show ==
  /\ pc = "query" /\ i > Len(list)
  /\ list' = Reversed(Sort)
  /\ pc' = "show" /\ i' = 1
  /\ UNCHANGED <<clock, svc, opt, now, out, changes>>

\* name_pad(): the width of the longest name, if it is not too long.
Padded == \A k \in 1 .. Len(list) : list[k].name \notin Long
Line(e) ==
  LET p == Panel(e, Tain(now))
      up(triple) == p.head = "+" /\ triple[2] \in {"+", "o"}
      numbers(triple, pid, uptime) == IF up(triple) THEN [pid |-> Nfmt_uint32(pid), uptime |-> Nfmt_uint32(uptime)]
                                      ELSE [pid |-> <<>>, uptime |-> <<>>]
  IN [entry |-> e, panel |-> p, named |-> Padded,
      attr |-> IF UseColor THEN Attr(opt.db, Setcap(p)) ELSE <<"none", 0>>,
      main |-> numbers(p.main, Svstat_main(e).pid, e.uptime_main),
      log |-> numbers(p.log, Svstat_log(e).pid, Tain_uptime(Tain(now), Svstat_log(e).when))]

\* svstat_unpack(): only now is uptime_main that of the main service.
Uptime_main(e) == Tain_uptime(Tain(now), Svstat_main(e).when)
Unpacked(e) == [e EXCEPT !.uptime_main = IF e.kind = "active" THEN Uptime_main(e) ELSE @]
Output ==
  /\ pc = "show"
  /\ LET entries == [k \in 1 .. Len(list) |-> Unpacked(list[k])]
     IN list' = entries /\ out' = [k \in 1 .. Len(list) |-> Line(entries[k])]
  /\ pc' = "done"
  /\ UNCHANGED <<clock, svc, opt, now, i, changes>>

\* Services start and die meanwhile, and are set to go down or up.
Change(n) ==
  /\ pc # "done" /\ changes > 0 /\ svc[n].kind = "active"
  /\ changes' = changes - 1
  /\ clock' = IF clock < Tmax THEN clock + 1 ELSE clock
  /\ \/ LET main == svc[n].st.main IN
        svc' = [svc EXCEPT ![n].st.main = [main EXCEPT !.pid = Pid - main.pid, !.when = clock', !.isreset = FALSE]]
     \/ svc' = [svc EXCEPT ![n].st.main.wantdown = ~@]
     \/ svc' = [svc EXCEPT ![n].kind = "unknown"]
  /\ UNCHANGED <<opt, pc, now, list, i, out>>

Next == List \/ Now \/ Query \/ Show \/ Output \/ \E n \in Names : Change(n)
Spec == Init /\ [][Next]_vars

(***************************************************************************)
(* Properties.                                                             *)
(***************************************************************************)
Lines == {out[k] : k \in 1 .. Len(out)}

TypeOK ==
  /\ clock \in 0 .. Tmax /\ now \in 0 .. Tmax /\ changes \in 0 .. Changes
  /\ svc \in [Names -> Dir]
  /\ opt \in Options /\ pc \in {"list", "now", "query", "show", "done"}
  /\ i \in 1 .. Len(list) + 1
  /\ \A k \in 1 .. Len(list) :
       /\ list[k].name \in Names /\ list[k].sent \in Status /\ list[k].uptime_main \in Nat
       /\ list[k].kind \in {"none", "file", "plain", "unknown", "active"}
       /\ list[k].binstat \in Seq(0 .. 255)
       /\ list[k].kind = "active" => Len(list[k].binstat) = 66

\* The three tools make the same of a status: perpstat calls main down exactly
\* when perpls shows a dot, says "want up!" exactly when the panel is "!..",
\* and perpok -u secs agrees only to a service perpls shows up, undisturbed
\* and not resetting, and perpstat calls up for as long.
ToolsAgree ==
  \A line \in Lines : line.entry.kind = "active" =>
    LET rep == Report(line.entry.binstat, Tain(now))
        main == line.panel.main
    IN /\ rep.state = "down" <=> main[2] = "."
       /\ rep.wantup <=> main = <<"!", ".", ".">>
       /\ rep.state = "resetting" <=> main[3] = "r"
       /\ \A secs \in 1 .. Tmax : Perpok(line.entry, Tain(now), secs) =>
            rep.state = "up" /\ rep.secs >= secs /\ main[1] = "+" /\ main[3] # "r"

\* What perpls prints of an active service is what perpd sent, through packet,
\* time arithmetic and decimal digits: the pids, and uptimes within half a
\* second of the true ones, of the process the number is printed for.
Number(digits) == LET v[k \in 0 .. Len(digits)] == IF k = 0 THEN 0 ELSE 10 * v[k - 1] + digits[k] IN v[Len(digits)]
Thirds(when) == IF when < now THEN now - when ELSE when - now
Shows(numbers, triple, sub) ==
  /\ numbers.pid # <<>> => /\ Number(numbers.pid) = sub.pid
                           /\ 3 * Number(numbers.uptime) - Thirds(sub.when) \in -1 .. 1
  /\ triple[2] = "o" <=> sub.isonce /\ numbers.pid # <<>>
  /\ triple[3] = "p" <=> sub.ispaused /\ ~sub.isreset /\ numbers.pid # <<>>
ShownIsSent ==
  \A line \in Lines : line.entry.kind = "active" /\ ~line.entry.sent.cull =>
    /\ line.panel.head = "+"
    /\ Shows(line.main, line.panel.main, line.entry.sent.main)
    /\ line.entry.sent.haslog => Shows(line.log, line.panel.log, line.entry.sent.log)

\* With colours on, a line is given one of the colours for trouble exactly when
\* something in its panel asks for attention: an error, a deactivation, or a
\* "!" of main or log (perpls.8, PERPLS_COLORS; each key its own colour).
Coloured == UseColor /\ \A key \in Caps : Usable(opt.db, key)
TroubleCaps == {"wu", "wd", "er", "ex"}
TroubleShows ==
  \A line \in Lines : Coloured =>
    ((line.attr[1] \in TroubleCaps) <=>
     (line.panel.head \in {"E", "!", "R"} \/ line.panel.main[1] = "!" \/ line.panel.log[1] = "!"))

\* A listing of the directory has no service twice and, without -t, is in the
\* order of names or its reverse; of services named as arguments there is one
\* line for each, in their order if nothing else is asked for (perpls main()).
Shown(k) == out[k].entry.name
Listing ==
  pc = "done" =>
    /\ opt.args = <<>> => \A j, k \in 1 .. Len(out) : Shown(j) = Shown(k) => j = k
    /\ opt.args = <<>> /\ ~opt.t =>
         \A j, k \in 1 .. Len(out) : j < k => IF opt.r THEN Shown(k) < Shown(j) ELSE Shown(j) < Shown(k)
    /\ opt.args # <<>> => /\ Len(out) = Len(opt.args)
                         /\ \A k \in 1 .. Len(out) : \E j \in 1 .. Len(out) : Shown(j) = opt.args[k]
    /\ opt.args # <<>> /\ ~opt.t /\ ~opt.r => \A k \in 1 .. Len(out) : Shown(k) = opt.args[k]

\* The listing is complete, in order (but for -t), and marks what is in trouble.
ListingInv == TypeOK /\ Listing /\ TroubleShows
=============================================================================
