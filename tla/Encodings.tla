----------------------------- MODULE Encodings -----------------------------
(***************************************************************************)
(* The encodings of lasagna that perpd's status packets and its tools use: *)
(* numbers as bytes (upak), times (tain) as numbers and as bytes, numbers  *)
(* as text (nfmt).  A byte is a number below 256; seconds are counted from *)
(* any fixed instant, which stands for the offset of TAI labels.           *)
(***************************************************************************)
EXTENDS Integers, Sequences, SequencesExt

\* n bytes at an offset that counts from 0, as in the code
At(b, offset, n) == SubSeq(b, offset + 1, offset + n)

\* u >> 8 * n
Shifted(u, n) == LET s[k \in 0 .. n] == IF k = 0 THEN u ELSE s[k - 1] \div 256 IN s[n]

\* upak32_pack(), upak64_pack(): the low byte first.
Upak_pack(width, u) == [k \in 1 .. width |-> Shifted(u, k - 1) % 256]
Upak_unpack(b) ==
  LET u[k \in 0 .. Len(b)] == IF k = 0 THEN 0 ELSE u[k - 1] * 256 + b[Len(b) + 1 - k] IN u[Len(b)]

\* tain_pack(), tain_unpack(): seconds and nanoseconds, the high byte first.
Tain_tai_pack(t) == Reverse(Upak_pack(8, t.sec))
Tain_pack(t) == Tain_tai_pack(t) \o Reverse(Upak_pack(4, t.nsec))
Tain_tai_unpack(b) == Upak_unpack(Reverse(b))
Tain_unpack(b) == [sec |-> Tain_tai_unpack(At(b, 0, 8)), nsec |-> Upak_unpack(Reverse(At(b, 8, 4)))]

Billion == 1000000000
Tain_less(t1, t2) == t1.sec < t2.sec \/ (t1.sec = t2.sec /\ t1.nsec < t2.nsec)
Tain_minus_borrowless(a, b) ==
  [sec |-> a.sec - b.sec, nsec |-> IF a.nsec >= b.nsec THEN a.nsec - b.nsec ELSE (Billion + a.nsec) - b.nsec]
Tain_minus(a, b) ==
  IF a.nsec >= b.nsec THEN [sec |-> a.sec - b.sec, nsec |-> a.nsec - b.nsec]
  ELSE [sec |-> a.sec - b.sec - 1, nsec |-> (Billion + a.nsec) - b.nsec]

\* The distance of two times, whichever is the later, rounded to seconds.
Tain_uptime(now, when) ==
  LET d == IF Tain_less(when, now) THEN Tain_minus(now, when) ELSE Tain_minus(when, now)
  IN d.sec + IF d.nsec > 500000000 THEN 1 ELSE 0

\* nfmt_uint32(): len counts the digits, which are then stored from the right.
Nfmt_len(n) == LET len[q \in 0 .. n] == IF q > 9 THEN 1 + len[q \div 10] ELSE 1 IN len[n]
Nfmt_uint32(n) ==
  LET len == Nfmt_len(n)
      rest[k \in 0 .. len] == IF k = 0 THEN n ELSE rest[k - 1] \div 10
  IN [k \in 1 .. len |-> rest[len - k] % 10]
=============================================================================
