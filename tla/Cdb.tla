-------------------------------- MODULE Cdb --------------------------------
(***************************************************************************)
(* The constant databases of lasagna: cdb and its variant hdb.  A writer   *)
(* (cdbmk, hdbmk) appends records to a file, then the hash tables, then    *)
(* the header; readers find records by key or walk through all of them.    *)
(*                                                                         *)
(* A file is a sequence of units, each a pair of numbers: the two lengths  *)
(* that begin a record, a byte of a key or of data, a slot (hash, offset), *)
(* a pointer to a table (base, slots), the identification of an hdb, or    *)
(* the zeros of a hole.  Offsets count units and are numbers of W values.  *)
(***************************************************************************)
EXTENDS Integers, Sequences, FiniteSets, SequencesExt, Bitwise

CONSTANTS
  Records,      \* what may be added: [key, data], sequences of bytes (numbers)
  W,            \* how many offsets there are: 2^32 bytes in the code
  Buf,          \* the size of the writer's buffer
  Nrecs,        \* records in an input block
  Kbuf,         \* how much of a key is compared at a time
  U24max,       \* the longest key, or data, of an hdb
  Gens,         \* bound: how many files are written
  Looks,        \* bound: how many searches and walks a reader begins
  Budgets       \* bounds: how many records are offered to the writers (adds)
                \* and how many calls of the system fail under them (fails)

ASSUME BoundsAssumption == /\ {W, Buf, Nrecs, Kbuf, U24max, Gens, Looks} \subseteq Nat \ {0}
                           /\ Budgets \subseteq [adds : Nat, fails : Nat]

VARIABLES
  db,      \* "cdb" or "hdb"
  m,       \* the writer, with the file it writes
  c,       \* the reader and its cursors
  saved,   \* a copy of it
  added,   \* per file, the records whose addition was reported a success
  old,     \* the file written before this one: [file, whole, bad]
  left,    \* how many records may still be offered
  fails    \* how many calls may still fail

vars == <<db, m, c, saved, added, old, left, fails>>

Zero == <<0, 0>>
Byte(b) == <<b, 0>>
Bytes(s) == [i \in 1 .. Len(s) |-> Byte(s[i])]
Ident == <<7, 7>>

(***************************************************************************)
(* The two formats.                                                        *)
(***************************************************************************)
Hash_space == 64
Ntabs == IF db = "cdb" THEN 4 ELSE 2
Pbase == IF db = "cdb" THEN 0 ELSE 2
Cbase == Pbase + Ntabs
Nlists == 2
\* cdb has four lists for its 256 tables, hdb one for each of its eight.
Nlist(ntab) == IF db = "cdb" THEN ntab \div 2 ELSE ntab

Cdb_hashpart(h, part) == FoldLeft(LAMBDA a, b : ((33 * a) % Hash_space) ^^ b, h, part)
Hdb_hashpart(h, part) == FoldLeft(LAMBDA a, b : (37 * (a ^^ b)) % Hash_space, h, part)
Hashpart(h, part) == IF db = "cdb" THEN Cdb_hashpart(h, part) ELSE Hdb_hashpart(h, part)
Hashinit == IF db = "cdb" THEN 5 ELSE 0
Hash(key) == Hashpart(Hashinit, key)

Ntab(h) == h % Ntabs
Slot(h, tslots) ==
  IF db = "cdb" THEN (h \div Ntabs) % tslots ELSE (((h \div 8) ^^ h) \div Ntabs) % tslots

(***************************************************************************)
(* The writer's buffered output.                                           *)
(***************************************************************************)
Overlay(file, at, data) ==
  IF data = <<>> THEN file
  ELSE [i \in 1 .. (IF at + Len(data) > Len(file) THEN at + Len(data) ELSE Len(file)) |->
          CASE i \in at + 1 .. at + Len(data) -> data[i - at]
            [] i \notin at + 1 .. at + Len(data) /\ i <= Len(file) -> file[i]
            [] OTHER -> Zero]
Write_all(w, data) == [w EXCEPT !.file = Overlay(@, w.at, data), !.at = @ + Len(data)]
Ioq_flush(w) == [Write_all(w, w.buf) EXCEPT !.buf = <<>>]
\* A flush that fails has written less than all, and the buffer is empty.
Flush_failed(w) == {[Write_all(w, SubSeq(w.buf, 1, k)) EXCEPT !.buf = <<>>] : k \in 0 .. Len(w.buf) - 1}

\* What does not fit behind the buffered data is put into the emptied buffer,
\* after as many buffers full of it as must go first.
Direct(data) == Buf * ((Len(data) - 1) \div Buf)
Ioq_put(w, data) ==
  IF Len(data) <= Buf - Len(w.buf) THEN [w EXCEPT !.buf = @ \o data]
  ELSE [Write_all(Ioq_flush(w), SubSeq(data, 1, Direct(data))) EXCEPT !.buf = SubSeq(data, Direct(data) + 1, Len(data))]
Put_failed(w, data) ==
  IF Len(data) <= Buf - Len(w.buf) THEN {}
  ELSE Flush_failed(w) \cup {Write_all(Ioq_flush(w), SubSeq(data, 1, k)) : k \in 0 .. Direct(data) - 1}

\* Several puts after each other, all of them good, or the last one failed.
Put_all(w, pieces) == FoldLeft(Ioq_put, w, pieces)
Put_all_failed(w, pieces) ==
  UNION {Put_failed(Put_all(w, SubSeq(pieces, 1, i - 1)), pieces[i]) : i \in DOMAIN pieces}

(***************************************************************************)
(* cdbmk, hdbmk: the writer.                                               *)
(***************************************************************************)
Overflow == -1
Ufunc_u32add(u, add) ==
  IF u = Overflow \/ (u + add) % W < add THEN Overflow ELSE (u + add) % W
Fp_up(fp, klen, dlen) == Ufunc_u32add(Ufunc_u32add(Ufunc_u32add(fp, 1), klen), dlen)

\* bad: an addition has failed after output, or cdbmk_addrec() has spoilt a
\* record; list: how many lists' tables are put out; head: how much of the
\* header is written.
Idle == [st |-> "idle", gen |-> 0, fp |-> 0, at |-> 0, buf |-> <<>>, file |-> <<>>, rbase |-> 0,
         bad |-> FALSE, list |-> 0, head |-> 0,
         lists |-> [i \in 0 .. 1 |-> <<>>], count |-> [t \in 0 .. 3 |-> 0]]

\* The header is written, and no record was spoilt.
Whole == m.st \in {"done", "cleared"} /\ ~m.bad

\* hdbmk_start(): the records follow a comment of clen units.
Hdbmk_start(clen) ==
  LET new == [Idle EXCEPT !.st = "adding", !.gen = m.gen + 1, !.at = Cbase]
  IN [Ioq_put(new, [i \in 1 .. clen |-> Byte(9)]) EXCEPT !.rbase = Cbase + clen, !.fp = Cbase + clen]
\* cdbmk_init() knows no comment.
Cdbmk_init(clen) ==
  /\ m.st \in {"idle", "cleared"} /\ m.gen < Gens /\ c.gen \in {0, m.gen}
  /\ db = "cdb" => clen = 0
  /\ m' = Hdbmk_start(clen)
  /\ old' = [file |-> m.file, whole |-> Whole, bad |-> m.bad]
  /\ UNCHANGED <<db, c, saved, added, left, fails>>

\* cdbmk__update(): the newest block of a list comes first.
Needs_block(w, hash) ==
  LET blocks == w.lists[Nlist(Ntab(hash))] IN blocks = <<>> \/ Len(blocks[1]) >= Nrecs
Cdbmk__update(w, hash, rpos, fp_up) ==
  LET blocks == w.lists[Nlist(Ntab(hash))]
      entry == <<hash, rpos>>
      new == IF Needs_block(w, hash) THEN <<<<entry>>>> \o blocks ELSE [blocks EXCEPT ![1] = Append(@, entry)]
  IN [w EXCEPT !.lists = [@ EXCEPT ![Nlist(Ntab(hash))] = new], !.fp = fp_up,
               !.count = [@ EXCEPT ![Ntab(hash)] = @ + 1]]

Refused(w, klen, dlen) ==
  \/ db = "hdb" /\ (klen > U24max \/ dlen > U24max)
  \/ Fp_up(w.fp, klen, dlen) = Overflow

Record(key, data) == [key |-> key, data |-> data]
Note(rec) == added' = [added EXCEPT ![m.gen] = Append(@, rec)]
Fail == fails > 0 /\ fails' = fails - 1

\* The steps all additions share.  The offset is moved last: an addition that
\* fails in a put, for want of a block, or in another way that leaves the writer
\* as in cut, leaves it behind the output, and the caller may go on.
Put_record(rec, pieces, hash, spoils, cut) ==
  /\ m.st = "adding" /\ left > 0 /\ left' = left - 1
  /\ LET klen == Len(rec.key)
         dlen == Len(rec.data)
         ok == Cdbmk__update(Put_all(m, pieces), hash, m.fp, Fp_up(m.fp, klen, dlen))
         no_block == IF Needs_block(m, hash) THEN {Put_all(m, pieces)} ELSE {}
     IN \/ Refused(m, klen, dlen) /\ UNCHANGED <<m, added, fails>>
        \/ ~Refused(m, klen, dlen) /\ m' = [ok EXCEPT !.bad = @ \/ spoils] /\ Note(rec) /\ UNCHANGED fails
        \/ /\ ~Refused(m, klen, dlen) /\ Fail
           /\ m' \in {[w EXCEPT !.bad = TRUE] : w \in Put_all_failed(m, pieces) \cup no_block \cup cut}
           /\ UNCHANGED added
  /\ UNCHANGED <<db, c, saved, old>>

Lengths(key, data) == <<<<Len(key), Len(data)>>>>
Cdbmk_add(key, data) ==
  Put_record(Record(key, data), <<Lengths(key, data), Bytes(key), Bytes(data)>>, Hash(key), FALSE, {})

\* cdbmk_addioq(): key and data come in pieces; the input may end early, or
\* have something else between key and data.
Cdbmk_addioq(key, data) ==
  LET bytes == key \o data
      pieces == <<Lengths(key, data)>> \o [i \in 1 .. Len(bytes) |-> Bytes(<<bytes[i]>>)]
      hash == FoldLeft(LAMBDA h, b : Hashpart(h, <<b>>), Hashinit, key)
  IN Put_record(Record(key, data), pieces, hash, FALSE,
                {Put_all(m, SubSeq(pieces, 1, n)) : n \in 1 .. Len(pieces)})

Cdbmk_clear ==
  /\ m.st \in {"failed", "done"} \/ (m.st = "adding" /\ m.bad)
  /\ m' = [m EXCEPT !.st = IF @ = "done" THEN "cleared" ELSE "idle", !.lists = Idle.lists]
  /\ UNCHANGED <<db, c, saved, added, old, left, fails>>

(***************************************************************************)
(* cdbmk_finish(): the tables, each with twice as many slots as records,   *)
(* and then the header.  Every write may fail, and the maker be killed     *)
(* between any two.                                                        *)
(***************************************************************************)
Zeros(n) == [i \in 1 .. n |-> Zero]

\* The slot nearest to target that is free, in the table at base of tbuf.
Tbuf_load(tbuf, base, tslots, target, entry) ==
  LET at(k) == base + ((target + k) % tslots) + 1
      k == CHOOSE k \in 0 .. tslots - 1 : tbuf[at(k)][2] = 0 /\ \A j \in 0 .. k - 1 : tbuf[at(j)][2] # 0
  IN [tbuf EXCEPT ![at(k)] = entry]

List_reverse_not(blocks) == blocks
List_reverse(blocks) == Reverse(blocks)

Subtab_slots(t) == 2 * m.count[t]
Sum_slots(tabs) == FoldLeft(LAMBDA s, t : s + (IF t \in tabs THEN Subtab_slots(t) ELSE 0), 0, <<0, 1, 2, 3>>)
Subtab_offset(t) == Sum_slots(0 .. t - 1)
Tables(i) == {t \in 0 .. Ntabs - 1 : Nlist(t) = i}

\* The tables of list i, loaded in the order in which its records were added.
Tbuf(i) ==
  LET first == Sum_slots({t \in 0 .. Ntabs - 1 : Nlist(t) < i})
      load(tbuf, e) == LET t == Ntab(e[1]) IN
        Tbuf_load(tbuf, Subtab_offset(t) - first, Subtab_slots(t), Slot(e[1], Subtab_slots(t)), e)
  IN FoldLeft(load, Zeros(Sum_slots(Tables(i))), FlattenSeq(List_reverse(m.lists[i])))

Header ==
  LET nrecs == m.count[0] + m.count[1]
      ptrs == [t \in 1 .. Ntabs |-> <<m.fp + Subtab_offset(t - 1), Subtab_slots(t - 1)>>]
  IN IF db = "cdb" THEN ptrs ELSE <<Ident, <<nrecs, m.rbase>>>> \o ptrs

\* One call of cdbmk_finish() goes on with w in st, or returns an error having
\* left one of failed.
Finishing == UNCHANGED <<db, c, saved, added, old, left>>
Goes_on_regardless(w, st, failed) ==
  \/ m' = [w EXCEPT !.st = st] /\ UNCHANGED fails
  \/ Fail /\ m' \in {[x EXCEPT !.st = st, !.list = w.list] : x \in failed}
Goes_on(w, st, failed) ==
  \/ m' = [w EXCEPT !.st = st] /\ UNCHANGED fails
  \/ Fail /\ m' \in {[x EXCEPT !.st = "failed"] : x \in failed}

\* The offsets are checked and the buffer for the tables is allocated.
Finish ==
  /\ m.st = "adding" /\ Finishing
  /\ IF Ufunc_u32add(m.fp, Sum_slots(0 .. Ntabs - 1)) = Overflow
     THEN m' = [m EXCEPT !.st = "failed"] /\ UNCHANGED fails
     ELSE Goes_on(m, "tables", {m})

Finish_list ==
  /\ m.st = "tables" /\ m.list < Nlists /\ Finishing
  /\ Goes_on([Ioq_put(m, Tbuf(m.list)) EXCEPT !.list = @ + 1], "tables", Put_failed(m, Tbuf(m.list)))

Finish_flush ==
  /\ m.st = "tables" /\ m.list = Nlists /\ Finishing
  /\ Goes_on(Ioq_flush(m), "header", Flush_failed(m))

\* All of the header fits in the buffer.  When lseek() fails nothing of it is
\* written.
Finish_header ==
  /\ m.st = "header" /\ Finishing
  /\ LET part(n) == [Write_all([m EXCEPT !.at = 0], SubSeq(Header, 1, n)) EXCEPT !.head = n]
     IN Goes_on(part(Cbase), "done", {m} \cup {part(n) : n \in 0 .. Cbase - 1})

(***************************************************************************)
(* The reader.  res is the result of its last operation; hits counts the   *)
(* records found for the key, walk the records passed in sequence, both    *)
(* None when an operation of the other kind has moved the cursors.         *)
(***************************************************************************)
None == -1
Shut == [st |-> "shut", gen |-> 0, map |-> FALSE, size |-> 0, whole |-> FALSE,
         hbase |-> 0, rbase |-> 0, tndx |-> <<>>, key |-> <<>>, klen |-> 0, h |-> 0,
         tbase |-> 0, tslots |-> 0, s0 |-> 0, sN |-> 0, rpos |-> 0, dlen |-> 0,
         op |-> "none", res |-> 0, hits |-> None, walk |-> None, looks |-> 0]

File(g) == IF g = m.gen THEN m.file ELSE old.file

\* cdb_read(): the mapping is as long as the file was when it was made.
Readable(r, len, offset) ==
  IF r.map THEN offset < r.size /\ r.size - offset >= len ELSE offset + len <= Len(File(r.gen))
Cdb_read(r, offset) == File(r.gen)[offset + 1]

\* cdb_init(): hbase is what the first pointer says.  hdb_init() checks the
\* identification and loads all of the header.
Cdb_init(g, map) ==
  /\ c.st = "shut" /\ g \in {m.gen, m.gen - 1} \ {0, -1}
  /\ LET size == Len(File(g))
         new == [Shut EXCEPT !.st = "open", !.gen = g, !.map = map /\ size > 0, !.size = size,
                             !.whole = IF g = m.gen THEN Whole ELSE old.whole]
     IN c' = IF db = "cdb" /\ Readable(new, 1, 0) THEN [new EXCEPT !.hbase = Cdb_read(new, 0)[1], !.rbase = Cbase]
             ELSE IF db = "hdb" /\ Readable(new, Cbase, 0) /\ Cdb_read(new, 0) = Ident
             THEN [new EXCEPT !.rbase = Cdb_read(new, 1)[2], !.hbase = Cdb_read(new, Pbase)[1],
                              !.tndx = SubSeq(File(g), Pbase + 1, Cbase)]
             ELSE Shut
  /\ UNCHANGED <<db, m, saved, added, old, left, fails>>

\* cdb_key_match(): each part of the record's key is compared with the
\* beginning of the key that is sought.
Key_match(r, key, kpos) ==
  LET n(i) == IF Len(key) - i * Kbuf < Kbuf THEN Len(key) - i * Kbuf ELSE Kbuf
      parts == 0 .. (Len(key) - 1) \div Kbuf
  IN Len(key) = 0 \/ \A i \in parts : \A j \in 1 .. n(i) : Cdb_read(r, kpos + i * Kbuf + j - 1) = Byte(key[j])

\* What the probe of one slot gives.
Probed(r, target) ==
  LET slot == Cdb_read(r, r.tbase + target)
      rpos == slot[2]
  IN IF ~Readable(r, 1, r.tbase + target) THEN "error"
     ELSE IF rpos = 0 THEN "empty"
     ELSE IF slot[1] # r.h THEN "other"
     ELSE IF ~Readable(r, 1, rpos) THEN "error"
     ELSE IF Cdb_read(r, rpos)[1] # r.klen THEN "other"
     ELSE IF r.klen > 0 /\ ~Readable(r, r.klen, rpos + 1) THEN "error"
     ELSE IF Key_match(r, r.key, rpos + 1) THEN "match" ELSE "other"

\* cdb_hash_probe(): from target on, around the table, up to s0.
Probes(r, target) == IF target = r.s0 THEN r.tslots ELSE (r.s0 - target + r.tslots) % r.tslots
Cdb_hash_probe(r, target) ==
  LET at(i) == (target + i) % r.tslots
      ends == {i \in 0 .. Probes(r, target) - 1 : Probed(r, at(i)) # "other"}
      i == CHOOSE i \in ends : \A j \in ends : i <= j
  IN IF ends = {} THEN [r EXCEPT !.res = 0]
     ELSE CASE Probed(r, at(i)) = "error" -> [r EXCEPT !.res = -1]
            [] Probed(r, at(i)) = "empty" -> [r EXCEPT !.res = 0]
            [] OTHER -> LET rpos == Cdb_read(r, r.tbase + at(i))[2] IN
                        [r EXCEPT !.res = 1, !.sN = at(i), !.rpos = rpos, !.dlen = Cdb_read(r, rpos)[2]]

\* The header of a cdb is read by every search.
Cdb_find(r, key) ==
  LET k == [r EXCEPT !.key = key, !.klen = Len(key), !.h = Hash(key)]
      ptr == IF db = "hdb" THEN r.tndx[Ntab(k.h) + 1] ELSE Cdb_read(r, Ntab(k.h))
      t == [k EXCEPT !.tbase = ptr[1], !.tslots = ptr[2]]
      s == Slot(k.h, ptr[2])
  IN CASE db = "hdb" /\ Len(key) > U24max -> [r EXCEPT !.res = -1]
       [] db = "cdb" /\ ~Readable(r, 1, Ntab(k.h)) -> [k EXCEPT !.res = -1]
       [] OTHER -> IF ptr[2] = 0 THEN [t EXCEPT !.res = 0] ELSE Cdb_hash_probe([t EXCEPT !.s0 = s], s)

Cdb_findnext(r) ==
  LET next == (r.sN + 1) % r.tslots IN
  IF next = r.s0 THEN [r EXCEPT !.res = 0] ELSE Cdb_hash_probe(r, next)

\* After cdb_find(): the key, the data, the distance from the first slot probed.
Kpos(r) == r.rpos + 1
Dpos(r) == r.rpos + 1 + r.klen
Cdb_get(r, len) == LET n == IF len > r.dlen THEN r.dlen ELSE len IN SubSeq(File(r.gen), Dpos(r) + 1, Dpos(r) + n)
Cdb_distance(r) == IF r.sN >= r.s0 THEN r.sN - r.s0 ELSE (r.tslots - r.s0) + r.sN

Cdb_seq_(r, rpos) ==
  CASE rpos >= r.hbase -> [r EXCEPT !.res = 0]
    [] rpos < r.hbase /\ ~Readable(r, 1, rpos) -> [r EXCEPT !.res = -1]
    [] OTHER -> [r EXCEPT !.rpos = rpos, !.klen = Cdb_read(r, rpos)[1], !.dlen = Cdb_read(r, rpos)[2], !.res = 1]
Cdb_seqinit(r) == Cdb_seq_(r, r.rbase)
Cdb_seqnext_data(r) == Cdb_seq_(r, r.rpos + r.dlen + 1)
Cdb_seqnext(r) == Cdb_seq_(r, r.rpos + r.klen + r.dlen + 1)

(***************************************************************************)
(* The reader's operations.                                                *)
(***************************************************************************)
Reading == c.st = "open" /\ UNCHANGED <<db, m, saved, added, old, left, fails>>

Find(key) ==
  /\ Reading /\ c.looks < Looks
  /\ LET r == Cdb_find(c, key) IN
     c' = [r EXCEPT !.op = IF db = "hdb" /\ Len(key) > U24max THEN "none" ELSE "find",
                    !.hits = IF r.res = 1 THEN 1 ELSE 0, !.walk = None, !.looks = @ + 1]

FindNext ==
  /\ Reading /\ c.op = "find" /\ c.res = 1
  /\ LET r == Cdb_findnext(c) IN c' = [r EXCEPT !.hits = IF r.res = 1 THEN @ + 1 ELSE @]

SeqInit ==
  /\ Reading /\ c.looks < Looks
  /\ LET r == Cdb_seqinit(c) IN
     c' = [r EXCEPT !.op = "seq", !.hits = None, !.walk = IF r.res = 1 THEN 1 ELSE 0, !.looks = @ + 1]

\* No record of the reader's file was spoilt.
Good(r) == r.st = "open" /\ ~(IF r.gen = m.gen THEN m.bad ELSE old.bad)
\* Which of the records added is at the cursor, by the lengths of those before it.
Place(r, i) == FoldLeft(LAMBDA at, rec : at + 1 + Len(rec.key) + Len(rec.data), r.rbase, SubSeq(added[r.gen], 1, i - 1))
Passed(r) == CHOOSE i \in DOMAIN added[r.gen] : Place(r, i) = r.rpos

SeqNext ==
  /\ Reading /\ c.op = "seq" /\ c.res = 1
  /\ LET r == Cdb_seqnext(c) IN c' = [r EXCEPT !.walk = IF r.res = 1 THEN @ + 1 ELSE @]

\* A walk may go on from the record that a search with the same reader has
\* found last; after a search that found none there is no such record.
SeqNextFound ==
  /\ Reading /\ c.op = "find" /\ c.hits > 0 /\ Good(c)
  /\ LET r == Cdb_seqnext(c) IN
     c' = [r EXCEPT !.op = "seq", !.hits = None, !.walk = IF r.res = 1 THEN Passed(c) + 1 ELSE Passed(c)]

\* cdb_cc(): a copy of the reader, to search in the middle of a walk.
Cdb_cc ==
  /\ c.op = "seq" /\ c.res = 1 /\ saved = Shut
  /\ saved' = c
  /\ c' = [c EXCEPT !.looks = 0]
  /\ UNCHANGED <<db, m, added, old, left, fails>>
Back ==
  /\ c.op = "find" /\ saved # Shut
  /\ c' = saved /\ saved' = Shut
  /\ UNCHANGED <<db, m, added, old, left, fails>>

Cdb_close ==
  /\ c.st = "open"
  /\ c' = Shut /\ saved' = Shut
  /\ UNCHANGED <<db, m, added, old, left, fails>>

\* cdbmk_addrec(): the record at the cursor of a reader, all of it in the file.
\* Unless that is mapped the copy begins at the record and not at its key, has
\* no lengths of its own, and its hash is that of key and data.
Numbers(units) == [i \in 1 .. Len(units) |-> units[i][1]]
Key_at(r) == SubSeq(File(r.gen), Kpos(r) + 1, Kpos(r) + r.klen)
Cdbmk_addrec ==
  /\ c.st = "open" /\ c.gen < m.gen /\ c.res = 1 /\ Readable(c, 1 + c.klen + c.dlen, c.rpos)
  /\ LET key == Numbers(Key_at(c))
         data == Numbers(Cdb_get(c, c.dlen))
         raw == SubSeq(File(c.gen), c.rpos + 1, c.rpos + c.klen + c.dlen)
     IN IF c.map THEN Cdbmk_add(key, data)
        ELSE Put_record(Record(key, data), <<SubSeq(raw, 1, c.klen), SubSeq(raw, c.klen + 1, Len(raw))>>,
                        Hash(Numbers(raw)), TRUE, {})

(***************************************************************************)
(* The specification.                                                      *)
(***************************************************************************)
Init ==
  /\ db \in {"cdb", "hdb"}
  /\ m = Idle /\ c = Shut /\ saved = Shut
  /\ added = [g \in 1 .. Gens |-> <<>>]
  /\ old = [file |-> <<>>, whole |-> FALSE, bad |-> FALSE]
  /\ \E b \in Budgets : left = b.adds /\ fails = b.fails

Next ==
  \/ \E clen \in 0 .. 1 : Cdbmk_init(clen)
  \/ \E rec \in Records : Cdbmk_add(rec.key, rec.data) \/ Cdbmk_addioq(rec.key, rec.data)
  \/ Cdbmk_addrec \/ Cdbmk_clear
  \/ Finish \/ Finish_list \/ Finish_flush \/ Finish_header
  \/ \E g \in 1 .. Gens, map \in BOOLEAN : Cdb_init(g, map)
  \/ \E rec \in Records : Find(rec.key)
  \/ FindNext \/ SeqInit \/ SeqNext \/ SeqNextFound \/ Cdb_cc \/ Back \/ Cdb_close

Spec == Init /\ [][Next]_vars

(***************************************************************************)
(* Properties.                                                             *)
(***************************************************************************)
\* Every field has its type; offsets, and with them a file whose records are
\* sound, stay below W.
TypeOK ==
  /\ m.st \in {"idle", "adding", "tables", "header", "done", "failed", "cleared"} /\ m.gen \in 0 .. Gens
  /\ {m.fp, m.rbase} \subseteq 0 .. W - 1 /\ Len(m.buf) <= Buf /\ (~m.bad => Len(m.file) < W)
  /\ c.st \in {"shut", "open"} /\ c.res \in -1 .. 1 /\ {c.tslots, c.rpos} \subseteq Nat
  /\ c.tslots > 0 => {c.s0, c.sN} \subseteq Nat
  /\ left \in Nat /\ fails \in Nat

\* The writer's idea of where it is agrees with what it has put out, whatever
\* additions were refused, until one fails after output: a record is where its
\* table entry says, and a table where the header will say.
InStep ==
  /\ m.st = "adding" /\ ~m.bad => m.at + Len(m.buf) = m.fp
  /\ m.st = "tables" /\ ~m.bad =>
       m.at + Len(m.buf) = m.fp + Sum_slots({t \in 0 .. Ntabs - 1 : Nlist(t) < m.list})

Matches(r) == SelectSeq(added[r.gen], LAMBDA rec : rec.key = r.key)
At_cursor(r, rec) == Key_at(r) = Bytes(rec.key) /\ Cdb_get(r, r.dlen) = Bytes(rec.data)

\* A search by cdb_find() and cdb_findnext() gives the records that were added
\* with the key, each once, in the order of their addition, and in a finished
\* file all of them, also where keys collide and tables wrap around; where the
\* header was written in part it gives no other records.  It holds for keys that
\* are compared in one part.
Found ==
  Good(c) /\ c.op = "find" /\ Len(c.key) <= Kbuf =>
    /\ c.res = 1 => /\ c.hits <= Len(Matches(c))
                    /\ At_cursor(c, Matches(c)[c.hits])
                    /\ \A i \in 0 .. Cdb_distance(c) : Cdb_read(c, c.tbase + ((c.s0 + i) % c.tslots))[2] # 0
    /\ c.whole => c.res # -1 /\ (c.res = 0 => c.hits = Len(Matches(c)))

\* The walk through a finished file passes all of its records in order, also
\* when searches are made in between with a copy of the reader, and goes on in
\* order from a record that was searched with the same reader.
Walked ==
  Good(c) /\ c.op = "seq" =>
    /\ c.res = 1 => c.walk <= Len(added[c.gen]) /\ At_cursor(c, added[c.gen][c.walk])
    /\ c.whole => c.res # -1 /\ (c.res = 0 => c.walk = Len(added[c.gen]))

\* A file shows no record before its header is written, and for ever when its
\* maker fails or is killed earlier, whatever of records and tables is there.
UnfinishedIsEmpty ==
  c.st = "open" /\ c.gen = m.gen /\ m.head = 0 => c.res # 1

\* The writer is sound at every step: it knows where it is, stays within the
\* offsets there are, and shows nothing before it is done.
WriterInv == TypeOK /\ InStep /\ UnfinishedIsEmpty
=============================================================================
