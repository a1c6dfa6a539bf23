--------------------------- MODULE TinylogProofs ---------------------------
(***************************************************************************)
(* Proofs about Tinylog, for every set of processes, files, inputs and     *)
(* command lines and every number of kills, signals and failures.          *)
(***************************************************************************)
EXTENDS Tinylog, SequenceTheorems, FiniteSetTheorems, WellFoundedInduction, TLAPS

-----------------------------------------------------------------------------
(* Types. *)

Files == [data : Seq(Nat), exec : BOOLEAN, mixed : BOOLEAN]
DirOK == DOMAIN dir \subseteq Names /\ \A n \in DOMAIN dir : dir[n] \in Inodes

LEMMA NamesTyped ==
  /\ {Current, Previous, Zipped, Template} \subseteq Names
  /\ \A t \in Nat, ext \in {"s", "u"} : Archive(t, ext) \in Names
  /\ \A n \in Names : Gz(n) \in Names
<1>1. {Current, Previous, Zipped, Template} \subseteq Names
  BY DEF Current, Previous, Zipped, Template, Archive, Name, Names
<1>2. \A t \in Nat, ext \in {"s", "u"} : Archive(t, ext) \in Names
  BY DEF Archive, Name, Names
<1>3. \A n \in Names : Gz(n) \in Names
  BY DEF Gz, Names
<1> QED  BY <1>1, <1>2, <1>3

LEMMA OffTyped == Off \in Process
BY NamesTyped, EmptySeq DEF Off, Process, PCs, NoOption, Option

LEMMA CharsTyped ==
  ASSUME NEW s \in Seq(Nat)
  PROVE  Chars(s) \subseteq Nat
BY ElementOfSeq DEF Chars

LEMMA CutTyped ==
  ASSUME NEW s \in Seq(Nat), NEW a \in Nat \ {0}, NEW b \in Nat, b <= Len(s)
  PROVE  /\ SubSeq(s, a, b) \in Seq(Nat)
         /\ Len(SubSeq(s, a, b)) = IF a <= b THEN b - a + 1 ELSE 0
         /\ \A i \in 1 .. b - a + 1 : SubSeq(s, a, b)[i] = s[a + i - 1]
<1>1. \A i \in a .. b : s[i] \in Nat
  BY ElementOfSeq
<1> QED  BY <1>1, SubSeqProperties

LEMMA TruncTyped ==
  ASSUME NEW s \in Seq(Nat)
  PROVE  Trunc(s) \in Seq(Nat) /\ Len(Trunc(s)) <= LineMax
<1> DEFINE n == IF Len(s) > LineMax THEN LineMax ELSE Len(s)
<1>1. n \in Nat /\ n <= Len(s) /\ n <= LineMax
  BY LenProperties, LineAssumption
<1> QED  BY <1>1, CutTyped, LineAssumption DEF Trunc

\* The characters of the input are numbered as they arrive: in an increasing
\* text they stand in the order of their arrival.
Below(S, T) == \A c \in S, k \in T : c < k
Increasing(s) == \A i, j \in 1 .. Len(s) : i < j /\ s[i] # NL /\ s[j] # NL => s[i] < s[j]

LEMMA PartOf ==
  ASSUME NEW s \in Seq(Nat), NEW a \in Nat \ {0}, NEW b \in Nat, b <= Len(s)
  PROVE  /\ Chars(SubSeq(s, a, b)) \subseteq Chars(s)
         /\ Increasing(s) => Increasing(SubSeq(s, a, b))
<1> DEFINE t == SubSeq(s, a, b)
<1>1. /\ t \in Seq(Nat) /\ Len(t) = (IF a <= b THEN b - a + 1 ELSE 0)
      /\ \A i \in 1 .. b - a + 1 : t[i] = s[a + i - 1]
  BY CutTyped
<1> HIDE DEF t
<1>2. \A i \in 1 .. Len(t) : t[i] = s[a + i - 1] /\ a + i - 1 \in 1 .. Len(s)
  BY <1>1, LenProperties
<1>3. Chars(t) \subseteq Chars(s)
  BY <1>1, <1>2 DEF Chars
<1>4. ASSUME Increasing(s) PROVE Increasing(t)
  <2> SUFFICES ASSUME NEW i \in 1 .. Len(t), NEW j \in 1 .. Len(t), i < j, t[i] # NL, t[j] # NL
               PROVE  t[i] < t[j]
    BY DEF Increasing
  <2>1. a + i - 1 < a + j - 1
    BY <1>1
  <2> QED  BY <1>2, <1>4, <2>1 DEF Increasing
<1> QED  BY <1>3, <1>4 DEF t

\* What comes first in an increasing text is below the rest.
LEMMA PartsBelow ==
  ASSUME NEW s \in Seq(Nat), NEW k \in Nat, k <= Len(s), Increasing(s),
         NEW a \in Nat, k < a
  PROVE  Below(Chars(SubSeq(s, 1, k)), Chars(SubSeq(s, a, Len(s))))
<1> DEFINE first == SubSeq(s, 1, k)
           rest == SubSeq(s, a, Len(s))
<1>1. Len(s) \in Nat /\ a \in Nat \ {0}
  BY LenProperties
<1>2. /\ first \in Seq(Nat) /\ Len(first) = (IF 1 <= k THEN k - 1 + 1 ELSE 0)
      /\ \A i \in 1 .. k - 1 + 1 : first[i] = s[1 + i - 1]
  BY CutTyped
<1>3. /\ rest \in Seq(Nat) /\ Len(rest) = (IF a <= Len(s) THEN Len(s) - a + 1 ELSE 0)
      /\ \A i \in 1 .. Len(s) - a + 1 : rest[i] = s[a + i - 1]
  BY <1>1, CutTyped
<1> HIDE DEF first, rest
<1>4. \A i \in 1 .. Len(first) : first[i] = s[i] /\ i \in 1 .. k
  BY <1>2
<1>5. \A j \in 1 .. Len(rest) : rest[j] = s[a + j - 1] /\ a + j - 1 \in 1 .. Len(s) /\ k < a + j - 1
  BY <1>1, <1>3
<1> SUFFICES ASSUME NEW i \in 1 .. Len(first), NEW j \in 1 .. Len(rest), first[i] # NL, rest[j] # NL
             PROVE  first[i] < rest[j]
  BY <1>2, <1>3 DEF Chars, Below, first, rest
<1>6. i \in 1 .. Len(s) /\ i < a + j - 1
  BY <1>1, <1>4, <1>5
<1> QED  BY <1>4, <1>5, <1>6 DEF Increasing

LEMMA Joined ==
  ASSUME NEW s \in Seq(Nat), NEW t \in Seq(Nat)
  PROVE  /\ s \o t \in Seq(Nat)
         /\ Chars(s \o t) = Chars(s) \cup Chars(t)
         /\ Increasing(s) /\ Increasing(t) /\ Below(Chars(s), Chars(t)) => Increasing(s \o t)
<1> DEFINE u == s \o t
<1>1. /\ u \in Seq(Nat) /\ Len(u) = Len(s) + Len(t) /\ Len(s) \in Nat /\ Len(t) \in Nat
      /\ \A i \in 1 .. Len(s) + Len(t) : u[i] = IF i <= Len(s) THEN s[i] ELSE t[i - Len(s)]
  BY ConcatProperties, LenProperties
<1> HIDE DEF u
<1>2. \A i \in 1 .. Len(u) : \/ i \in 1 .. Len(s) /\ u[i] = s[i]
                             \/ i - Len(s) \in 1 .. Len(t) /\ u[i] = t[i - Len(s)] /\ ~(i <= Len(s))
  BY <1>1
<1>3. /\ \A i \in 1 .. Len(s) : i \in 1 .. Len(u) /\ u[i] = s[i]
      /\ \A i \in 1 .. Len(t) : i + Len(s) \in 1 .. Len(u) /\ u[i + Len(s)] = t[i]
  <2>1. ASSUME NEW i \in 1 .. Len(t) PROVE i + Len(s) \in 1 .. Len(u) /\ u[i + Len(s)] = t[i]
    <3>1. i + Len(s) \in 1 .. Len(s) + Len(t) /\ ~(i + Len(s) <= Len(s)) /\ (i + Len(s)) - Len(s) = i
      BY <1>1
    <3> QED  BY <1>1, <3>1
  <2> QED  BY <1>1, <2>1
<1>4. Chars(u) = Chars(s) \cup Chars(t)
  <2>1. \A c : c \in Chars(u) => c \in Chars(s) \/ c \in Chars(t)
    BY <1>1, <1>2 DEF Chars
  <2>2. \A c : c \in Chars(s) => c \in Chars(u)
    BY <1>1, <1>3 DEF Chars
  <2>3. \A c : c \in Chars(t) => c \in Chars(u)
    BY <1>1, <1>3 DEF Chars
  <2> QED  BY <2>1, <2>2, <2>3
<1>5. ASSUME Increasing(s), Increasing(t), Below(Chars(s), Chars(t)) PROVE Increasing(u)
  <2> SUFFICES ASSUME NEW i \in 1 .. Len(u), NEW j \in 1 .. Len(u), i < j, u[i] # NL, u[j] # NL
               PROVE  u[i] < u[j]
    BY DEF Increasing
  <2>1. CASE i \in 1 .. Len(s) /\ u[i] = s[i] /\ j \in 1 .. Len(s) /\ u[j] = s[j]
    BY <1>5, <2>1 DEF Increasing
  <2>2. CASE i \in 1 .. Len(s) /\ u[i] = s[i] /\ j - Len(s) \in 1 .. Len(t) /\ u[j] = t[j - Len(s)]
    <3>1. u[i] \in Chars(s) /\ u[j] \in Chars(t)
      BY <2>2 DEF Chars
    <3> QED  BY <1>5, <3>1 DEF Below
  <2>3. CASE /\ i - Len(s) \in 1 .. Len(t) /\ u[i] = t[i - Len(s)]
             /\ j - Len(s) \in 1 .. Len(t) /\ u[j] = t[j - Len(s)]
    <3>1. i - Len(s) < j - Len(s)
      BY <1>1
    <3> QED  BY <1>5, <2>3, <3>1 DEF Increasing
  <2>4. ~(~(i <= Len(s)) /\ j \in 1 .. Len(s))
    BY <1>1
  <2> QED  BY <1>2, <2>1, <2>2, <2>3, <2>4
<1> QED  BY <1>1, <1>4, <1>5 DEF u

LEMMA Ended ==
  ASSUME NEW s \in Seq(Nat)
  PROVE  Chars(Append(s, NL)) = Chars(s) /\ (Increasing(s) => Increasing(Append(s, NL)))
<1> DEFINE t == Append(s, NL)
<1>1. t \in Seq(Nat) /\ Len(t) = Len(s) + 1 /\ Len(s) \in Nat
      /\ (\A i \in 1 .. Len(s) : t[i] = s[i]) /\ t[Len(s) + 1] = NL
  BY AppendProperties, LenProperties DEF NL
<1> HIDE DEF t
<1>2. \A i \in 1 .. Len(t) : t[i] # NL => i \in 1 .. Len(s) /\ t[i] = s[i]
  BY <1>1
<1>3. \A i \in 1 .. Len(s) : i \in 1 .. Len(t) /\ t[i] = s[i]
  BY <1>1
<1>4. Chars(t) = Chars(s)
  BY <1>1, <1>2, <1>3 DEF Chars
<1>5. Increasing(s) => Increasing(t)
  BY <1>2 DEF Increasing
<1> QED  BY <1>4, <1>5 DEF t

LEMMA Cut ==
  ASSUME NEW s \in Seq(Nat)
  PROVE  Chars(Trunc(s)) \subseteq Chars(s) /\ (Increasing(s) => Increasing(Trunc(s)))
<1> DEFINE n == IF Len(s) > LineMax THEN LineMax ELSE Len(s)
<1>1. n \in Nat /\ n <= Len(s)
  BY LenProperties, LineAssumption
<1> HIDE DEF n
<1>2. Chars(SubSeq(s, 1, n)) \subseteq Chars(s) /\ (Increasing(s) => Increasing(SubSeq(s, 1, n)))
  BY <1>1, PartOf
<1> QED  BY <1>2 DEF Trunc, n

LEMMA TailOf ==
  ASSUME NEW s \in Seq(Nat), NEW a \in Nat, a <= Len(s)
  PROVE  /\ SubSeq(s, a + 1, Len(s)) \in Seq(Nat) /\ Len(SubSeq(s, a + 1, Len(s))) = Len(s) - a
         /\ \A i \in 1 .. Len(s) - a : SubSeq(s, a + 1, Len(s))[i] = s[a + i]
<1> DEFINE t == SubSeq(s, a + 1, Len(s))
<1>1. Len(s) \in Nat /\ Len(s) <= Len(s) /\ a + 1 \in Nat \ {0}
  BY LenProperties
<1>2. /\ t \in Seq(Nat) /\ Len(t) = (IF a + 1 <= Len(s) THEN Len(s) - (a + 1) + 1 ELSE 0)
      /\ \A i \in 1 .. Len(s) - (a + 1) + 1 : t[i] = s[a + 1 + i - 1]
  BY <1>1, CutTyped
<1> HIDE DEF t
<1>3. t \in Seq(Nat) /\ Len(t) = Len(s) - a /\ \A i \in 1 .. Len(s) - a : t[i] = s[a + i]
  BY <1>1, <1>2
<1> QED  BY <1>3 DEF t

LEMMA TailOfTail ==
  ASSUME NEW s \in Seq(Nat), NEW a \in Nat, a <= Len(s), NEW k \in Nat, k <= Len(s) - a
  PROVE  SubSeq(s, a + k + 1, Len(s)) = SubSeq(SubSeq(s, a + 1, Len(s)), k + 1, Len(s) - a)
<1> DEFINE left == SubSeq(s, a + 1, Len(s))
           ahead == SubSeq(s, a + k + 1, Len(s))
           rest == SubSeq(left, k + 1, Len(s) - a)
<1>1. Len(s) \in Nat /\ a + k \in Nat /\ a + k <= Len(s) /\ Len(s) - a \in Nat
  BY LenProperties
<1>2. left \in Seq(Nat) /\ Len(left) = Len(s) - a /\ \A i \in 1 .. Len(s) - a : left[i] = s[a + i]
  BY TailOf
<1>3. ahead \in Seq(Nat) /\ Len(ahead) = Len(s) - (a + k)
  BY <1>1, TailOf
<1>4. \A i \in 1 .. Len(s) - (a + k) : ahead[i] = s[a + k + i]
  BY <1>1, TailOf
<1> HIDE DEF left
<1>5. SubSeq(left, k + 1, Len(left)) = rest
  BY <1>2
<1> HIDE DEF ahead, rest
<1>6. /\ rest \in Seq(Nat) /\ Len(rest) = Len(left) - k
      /\ \A i \in 1 .. Len(left) - k : rest[i] = left[k + i]
  BY <1>2, <1>5, TailOf
<1>7. Len(rest) = Len(ahead)
  BY <1>1, <1>2, <1>3, <1>6
<1>8. ASSUME NEW i \in 1 .. Len(ahead) PROVE ahead[i] = rest[i]
  <2>1. i \in 1 .. Len(s) - (a + k) /\ i \in 1 .. Len(left) - k /\ k + i \in 1 .. Len(s) - a
        /\ a + (k + i) = a + k + i
    BY <1>1, <1>2, <1>3
  <2>2. ahead[i] = s[a + k + i] /\ rest[i] = left[k + i] /\ left[k + i] = s[a + (k + i)]
    BY <1>2, <1>4, <1>6, <2>1
  <2> QED  BY <2>1, <2>2
<1>9. ahead = rest
  BY <1>3, <1>6, <1>7, <1>8, SeqEqual
<1> QED  BY <1>9 DEF ahead, rest, left

\* What is left after the first a characters: the next k, and those ahead.
LEMMA NextOf ==
  ASSUME NEW s \in Seq(Nat), NEW a \in Nat, a <= Len(s), NEW k \in Nat, k <= Len(s) - a
  PROVE  LET left == SubSeq(s, a + 1, Len(s))
             buf == SubSeq(left, 1, k)
             ahead == SubSeq(s, a + k + 1, Len(s))
         IN /\ Chars(buf) \subseteq Chars(left) /\ Chars(ahead) \subseteq Chars(left)
            /\ Increasing(s) => Increasing(buf) /\ Below(Chars(buf), Chars(ahead))
<1> DEFINE left == SubSeq(s, a + 1, Len(s))
           ahead == SubSeq(s, a + k + 1, Len(s))
<1>1. left \in Seq(Nat) /\ Len(left) = Len(s) - a
  BY TailOf
<1>2. Increasing(s) => Increasing(left)
  <2>1. a + 1 \in Nat \ {0} /\ Len(s) \in Nat /\ Len(s) <= Len(s)
    BY LenProperties
  <2> QED  BY <2>1, PartOf
<1>3. ahead = SubSeq(left, k + 1, Len(left))
  BY <1>1, TailOfTail
<1> HIDE DEF left, ahead
<1>4. Len(left) \in Nat /\ Len(left) <= Len(left) /\ k <= Len(left) /\ k + 1 \in Nat \ {0} /\ k < k + 1
      /\ 1 \in Nat \ {0}
  BY <1>1, LenProperties
<1>5. Chars(SubSeq(left, 1, k)) \subseteq Chars(left) /\ (Increasing(left) => Increasing(SubSeq(left, 1, k)))
  BY <1>1, <1>4, PartOf
<1>6. Chars(ahead) \subseteq Chars(left)
  BY <1>1, <1>3, <1>4, PartOf
<1>7. Increasing(left) => Below(Chars(SubSeq(left, 1, k)), Chars(ahead))
  BY <1>1, <1>3, <1>4, PartsBelow
<1> QED  BY <1>2, <1>5, <1>6, <1>7 DEF left, ahead

\* A non-empty set of natural numbers has a least one.
LEMMA SmallestOf ==
  ASSUME NEW S, S \subseteq Nat, S # {}
  PROVE  \E i \in S : \A j \in S : i <= j
<1> DEFINE R == {ss \in Nat \X Nat : ss[1] < ss[2]}
<1>1. IsWellFoundedOn(R, Nat)
  BY NatLessThanWellFounded DEF OpToRel
<1>2. PICK i \in S : \A j \in S : ~(<<j, i>> \in R)
  <2> HIDE DEF R
  <2> QED  BY <1>1, WFMin
<1>3. ASSUME NEW j \in S PROVE i <= j
  <2>1. <<j, i>> \in Nat \X Nat /\ ~(j < i)
    BY <1>2
  <2> QED  BY <2>1
<1> QED  BY <1>3

LEMMA SpendTyped ==
  ASSUME budget \in [Events -> Nat], NEW e \in Events, Spend(e)
  PROVE  budget' \in [Events -> Nat]
BY DEF Spend

LEMMA SetTyped ==
  ASSUME proc \in [Procs -> Process], NEW p \in Procs, NEW r \in Process, Set(p, r)
  PROVE  proc' \in [Procs -> Process]
BY DEF Set

LEMMA GotoTyped ==
  ASSUME proc \in [Procs -> Process], NEW p \in Procs, NEW label \in PCs, Goto(p, label)
  PROVE  proc' \in [Procs -> Process]
<1>1. \A r \in Process : [r EXCEPT !.pc = label] \in Process
  BY Zenon DEF Process
<1> QED  BY <1>1, SetTyped DEF Goto

LEMMA EndsTyped ==
  ASSUME proc \in [Procs -> Process], main \in Procs \cup {None}, NEW p, NEW ok, Ends(p, ok)
  PROVE  proc' \in [Procs -> Process] /\ main' \in Procs \cup {None}
<1>1. \A r \in Process, label \in PCs : [r EXCEPT !.kid = None, !.pc = label] \in Process
  BY Zenon DEF Process
<1>2. (IF ok THEN "publish" ELSE "unzip") \in PCs
  BY DEF PCs
<1>3. \A q \in Procs : [proc[q] EXCEPT !.kid = None, !.pc = IF ok THEN "publish" ELSE "unzip"] \in Process
  BY <1>1, <1>2
<1> QED  BY <1>3, OffTyped DEF Ends

LEMMA DirTyped ==
  ASSUME DirOK
  PROVE  /\ \A n, i : n \in Names /\ i \in Inodes /\ dir' = Dir_with(n, i) => DirOK'
         /\ \A n : dir' = Dir_without(n) => DirOK'
         /\ \A a, b : a \in DOMAIN dir /\ b \in Names /\ dir' = Dir_renamed(a, b) => DirOK'
<1>1. ASSUME NEW n, NEW i, n \in Names, i \in Inodes, dir' = Dir_with(n, i)
      PROVE  DirOK'
  BY <1>1 DEF DirOK, Dir_with
<1>2. ASSUME NEW n, dir' = Dir_without(n)
      PROVE  DirOK'
  BY <1>2 DEF DirOK, Dir_without
<1>3. ASSUME NEW a, NEW b, a \in DOMAIN dir, b \in Names, dir' = Dir_renamed(a, b)
      PROVE  DirOK'
  BY <1>3 DEF DirOK, Dir_renamed
<1> QED  BY <1>1, <1>2, <1>3

LEMMA NewTyped == Space => New \in Inodes /\ Free(New)
BY DEF Space, New

LEMMA StdinTyped ==
  ASSUME TypeOK, NEW p \in Procs
  PROVE  /\ Stdin(p) \in Seq(Nat)
         /\ proc[p].in = "pipe" => Len(Stdin(p)) = Len(input) - pos
<1>1. CASE proc[p].in = "pipe"
  <2>1. input \in Seq(Nat) /\ pos \in Nat /\ pos <= Len(input) /\ Len(input) \in Nat
    BY InputsAssumption, LenProperties DEF TypeOK
  <2>2. pos + 1 \in Nat \ {0}
    BY <2>1
  <2> QED  BY <1>1, <2>1, <2>2, CutTyped DEF Stdin
<1>2. CASE proc[p].in # "pipe"
  BY <1>2 DEF Stdin, TypeOK, Process
<1> QED  BY <1>1, <1>2

LEMMA TypeInit == Init => TypeOK
<1> SUFFICES ASSUME Init PROVE TypeOK
  OBVIOUS
<1>1. Len(input) \in Nat
  BY InputsAssumption, LenProperties DEF Init
<1>2. file \in [Inodes -> Files] /\ proc \in [Procs -> Process]
  BY OffTyped, EmptySeq DEF Init, Files
<1>3. DOMAIN dir = {}
  BY DEF Init
<1>4. budget \in [Events -> Nat] /\ pos \in 0 .. Len(input) /\ clock \in Nat
  BY <1>1, BudgetsAssumption DEF Init
<1>5. main \in Procs \cup {None} /\ script \in Scripts /\ input \in Inputs
      /\ logged \subseteq Nat /\ risked \subseteq Nat /\ returned \subseteq {"open", "orphan"}
  BY DEF Init
<1>6. DOMAIN dir \subseteq Names /\ \A n \in DOMAIN dir : dir[n] \in Inodes
  BY <1>3
<1> QED  BY <1>2, <1>4, <1>5, <1>6, Zenon DEF TypeOK, Files

LEMMA TypeStart ==
  ASSUME TypeOK, NEW p \in Procs, Start(p)
  PROVE  TypeOK'
<1>1. proc' \in [Procs -> Process]
  <2>1. PICK o \in script : Set(p, [Off EXCEPT !.pc = "init", !.init = TRUE, !.opt = o])
    BY DEF Start
  <2>2. o \in Option /\ "init" \in PCs
    BY ScriptsAssumption DEF TypeOK, PCs
  <2>3. \A r \in Process : [r EXCEPT !.pc = "init", !.init = TRUE, !.opt = o] \in Process
    BY <2>2, Zenon DEF Process
  <2> QED  BY <2>1, <2>3, OffTyped, SetTyped DEF TypeOK
<1>2. budget' \in [Events -> Nat]
  BY SpendTyped DEF TypeOK, Start, Events
<1>3. risked' \subseteq Nat /\ returned' \subseteq {"open", "orphan"}
  BY CharsTyped DEF TypeOK, Start
<1> QED  BY <1>1, <1>2, <1>3 DEF TypeOK, Start, disk

LEMMA TypeInitCurrent ==
  ASSUME TypeOK, NEW p \in Procs, InitCurrent(p)
  PROVE  TypeOK'
<1> DEFINE there == Current \in DOMAIN dir
           clean == there /\ file[dir[Current]].exec
           resumed == clean /\ proc[p].opt.resume
           pc == IF there /\ ~resumed THEN "keep" ELSE "open"
           ext == IF clean THEN "s" ELSE "u"
           size == IF resumed THEN ResumedSize(file[dir[Current]]) ELSE 0
<1>1. Set(p, [proc[p] EXCEPT !.pc = pc, !.log = Current, !.ext = ext, !.size = size])
  BY DEF InitCurrent
<1>2. pc \in PCs /\ ext \in {"s", "u"}
  BY DEF PCs
<1>3. size \in Nat
  BY LenProperties DEF TypeOK, ResumedSize
<1> HIDE DEF pc, ext, size
<1>4. \A r \in Process : [r EXCEPT !.pc = pc, !.log = Current, !.ext = ext, !.size = size] \in Process
  BY <1>2, <1>3, Zenon DEF Process
<1>5. proc' \in [Procs -> Process]
  BY <1>1, <1>4, SetTyped DEF TypeOK
<1> QED  BY <1>5 DEF TypeOK, InitCurrent, disk

LEMMA TypeKeepStat ==
  ASSUME TypeOK, NEW p \in Procs, KeepStat(p)
  PROVE  TypeOK'
<1>1. PICK label \in PCs : Goto(p, label)
  BY DEF KeepStat, PCs
<1>2. proc' \in [Procs -> Process]
  BY <1>1, GotoTyped DEF TypeOK
<1> QED  BY <1>2 DEF TypeOK, KeepStat, disk

LEMMA StampsTyped ==
  ASSUME TypeOK, NEW p \in Procs
  PROVE  Stamps(p) \subseteq {clock, clock + 1} /\ Stamps(p) \subseteq Nat
BY DEF TypeOK, Stamps

LEMMA TypeKeepLink ==
  ASSUME TypeOK, NEW p \in Procs, KeepLink(p)
  PROVE  TypeOK'
<1> DEFINE name(t) == Archive(t, proc[p].ext)
<1>1. PICK t \in Stamps(p) :
        /\ clock' = t
        /\ budget' = [budget EXCEPT !["clock"] = IF t = clock /\ @ > 0 THEN @ - 1 ELSE @]
        /\ \/ dir' = dir /\ Set(p, [proc[p] EXCEPT !.fn = name(t)])
           \/ /\ dir' = Dir_with(name(t), dir[proc[p].log])
              /\ Set(p, [proc[p] EXCEPT !.fn = name(t), !.pc = "unlink"])
  BY DEF KeepLink
<1>2. clock' \in Nat /\ proc[p].ext \in {"s", "u"} /\ proc[p] \in Process
  BY <1>1, StampsTyped DEF TypeOK, Process
<1>3. name(t) \in Names /\ "unlink" \in PCs
  BY <1>1, <1>2, NamesTyped DEF PCs
<1>4. DirOK'
  <2>1. dir[proc[p].log] \in Inodes /\ DirOK
    BY DEF KeepLink, TypeOK, DirOK
  <2> HIDE DEF name
  <2> QED  BY <1>1, <1>3, <2>1, DirTyped DEF DirOK
<1>5. budget' \in [Events -> Nat]
  BY <1>1 DEF TypeOK, Events
<1>6. proc' \in [Procs -> Process]
  <2> HIDE DEF name
  <2>1. \A r \in Process : /\ [r EXCEPT !.fn = name(t)] \in Process
                           /\ [r EXCEPT !.fn = name(t), !.pc = "unlink"] \in Process
    BY <1>3, Zenon DEF Process
  <2> QED  BY <1>1, <1>2, <2>1, SetTyped DEF TypeOK
<1> QED  BY <1>2, <1>4, <1>5, <1>6 DEF TypeOK, KeepLink, DirOK

LEMMA TypeKeepUnlink ==
  ASSUME TypeOK, NEW p \in Procs, KeepUnlink(p)
  PROVE  TypeOK'
<1>1. PICK label \in PCs : Goto(p, label)
  BY DEF KeepUnlink, PCs
<1>2. proc' \in [Procs -> Process]
  BY <1>1, GotoTyped DEF TypeOK
<1>3. DirOK'
  BY DirTyped DEF KeepUnlink, TypeOK, DirOK
<1> QED  BY <1>2, <1>3 DEF TypeOK, KeepUnlink, DirOK

LEMMA PidTyped == (\E q \in Procs : ~Up(q)) => Pid \in Procs /\ ~Up(Pid)
BY DEF Pid

LEMMA TypeForkGzip ==
  ASSUME TypeOK, NEW p \in Procs, ForkGzip(p)
  PROVE  TypeOK'
<1>1. Pid \in Procs
  BY PidTyped DEF ForkGzip
<1>2. proc[p] \in Process /\ proc \in [Procs -> Process]
  BY DEF TypeOK
<1>3. {"wait", "child"} \subseteq PCs /\ Pid \in Procs \cup {None}
  BY <1>1 DEF PCs
<1>4. \A r \in Process : [r EXCEPT !.pc = "wait", !.kid = Pid] \in Process /\ [r EXCEPT !.pc = "child"] \in Process
  BY <1>3, Zenon DEF Process
<1>5. proc' = [proc EXCEPT ![p] = [proc[p] EXCEPT !.pc = "wait", !.kid = Pid],
                           ![Pid] = [proc[p] EXCEPT !.pc = "child"]]
  BY DEF ForkGzip
<1>6. proc' \in [Procs -> Process]
  BY <1>1, <1>2, <1>4, <1>5
<1> QED  BY <1>6 DEF TypeOK, ForkGzip, disk

LEMMA TypeExecGzip ==
  ASSUME TypeOK, NEW q \in Procs, ExecGzip(q)
  PROVE  TypeOK'
<1> DEFINE i == IF Zipped \in DOMAIN dir THEN dir[Zipped] ELSE New
           text == file[dir[proc[q].fn]].data
           mixed == Shared(i)
<1>1. i \in Inodes /\ mixed \in BOOLEAN
  BY NewTyped DEF ExecGzip, TypeOK, Shared
<1>2. /\ dir' = Dir_with(Zipped, i)
      /\ file' = [file EXCEPT ![i] = [data |-> <<>>, exec |-> FALSE, mixed |-> mixed]]
      /\ Set(q, [proc[q] EXCEPT !.pc = "gzip", !.in = "file", !.rest = text, !.fd = i])
  BY DEF ExecGzip
<1>3. text \in Seq(Nat)
  BY DEF ExecGzip, TypeOK
<1> HIDE DEF i, text, mixed
<1>4. DirOK'
  <2>1. DirOK
    BY DEF TypeOK, DirOK
  <2> QED  BY <1>1, <1>2, <2>1, DirTyped, NamesTyped
<1>5. file' \in [Inodes -> Files]
  BY <1>1, <1>2, EmptySeq DEF TypeOK, Files
<1>6. proc' \in [Procs -> Process]
  <2>1. "gzip" \in PCs /\ i \in Inodes \cup {None}
    BY <1>1 DEF PCs
  <2>2. \A r \in Process : [r EXCEPT !.pc = "gzip", !.in = "file", !.rest = text, !.fd = i] \in Process
    BY <1>3, <2>1, Zenon DEF Process
  <2> QED  BY <1>2, <2>2, SetTyped DEF TypeOK
<1> QED  BY <1>4, <1>5, <1>6 DEF TypeOK, ExecGzip, DirOK, Files

LEMMA TypeChildReturns ==
  ASSUME TypeOK, NEW q \in Procs, ChildReturns(q)
  PROVE  TypeOK'
<1>1. PICK why \in ChildFails(q) :
       /\ budget' = [budget EXCEPT !["open"] = IF why = "missing" THEN @ ELSE @ - 1]
       /\ returned' = returned \cup (IF why = "missing" THEN {} ELSE {"open"})
                               \cup (IF Orphan(q) THEN {"orphan"} ELSE {})
       /\ Set(q, [proc[q] EXCEPT !.pc = "prune", !.in = IF why = "zipped" THEN "file" ELSE @,
                                 !.rest = IF why = "zipped" THEN file[dir[proc[q].fn]].data ELSE @])
  BY DEF ChildReturns
<1> DEFINE in == IF why = "zipped" THEN "file" ELSE proc[q].in
           rest == IF why = "zipped" THEN file[dir[proc[q].fn]].data ELSE proc[q].rest
<1>2. proc[q] \in Process /\ proc \in [Procs -> Process]
  BY DEF TypeOK
<1>3. "prune" \in PCs
  BY DEF PCs
<1>4. in \in {"pipe", "file"} /\ rest \in Seq(Nat)
  <2>1. why = "zipped" => proc[q].fn \in DOMAIN dir
    BY <1>1 DEF ChildFails
  <2>2. why = "zipped" => file[dir[proc[q].fn]].data \in Seq(Nat)
    BY <2>1 DEF TypeOK
  <2> QED  BY <1>2, <2>2 DEF Process
<1>5. Set(q, [proc[q] EXCEPT !.pc = "prune", !.in = in, !.rest = rest])
  BY <1>1, <1>2 DEF Process
<1>6. budget' \in [Events -> Nat] /\ returned' \subseteq {"open", "orphan"}
  BY <1>1 DEF TypeOK, Events, ChildFails
<1> HIDE DEF in, rest
<1>7. proc' \in [Procs -> Process]
  <2>1. \A r \in Process : [r EXCEPT !.pc = "prune", !.in = in, !.rest = rest] \in Process
    BY <1>3, <1>4, Zenon DEF Process
  <2> QED  BY <1>2, <1>5, <2>1, SetTyped
<1> QED  BY <1>6, <1>7 DEF TypeOK, ChildReturns, disk

LEMMA OutcomesTyped ==
  ASSUME TypeOK, NEW q \in Procs, proc[q].fd \in Inodes, NEW ok
  PROVE  Outcomes(q, ok) \subseteq Seq(Nat)
<1>1. proc[q].rest \in Seq(Nat) /\ file[proc[q].fd].data \in Seq(Nat)
  BY DEF TypeOK, Process
<1>2. <<>> \in Seq(Nat)
  BY EmptySeq
<1> QED  BY <1>1, <1>2, Zenon DEF Outcomes

LEMMA TypeGzip ==
  ASSUME TypeOK, NEW q \in Procs, Gzip(q)
  PROVE  TypeOK'
<1>1. PICK ok \in BOOLEAN : \E t \in Outcomes(q, ok) :
        /\ budget' = budget \/ Spend("fail")
        /\ file' = [file EXCEPT ![proc[q].fd].data = t]
        /\ Ends(q, ok)
  BY DEF Gzip
<1> PICK text \in Outcomes(q, ok) :
        /\ budget' = budget \/ Spend("fail")
        /\ file' = [file EXCEPT ![proc[q].fd].data = text]
        /\ Ends(q, ok)
  BY <1>1
<1>2. file' \in [Inodes -> Files]
  <2>1. file \in [Inodes -> Files]
    BY DEF TypeOK, Files
  <2>2. CASE proc[q].fd \in Inodes
    <3>1. text \in Seq(Nat)
      BY <2>2, OutcomesTyped
    <3> QED  BY <1>1, <2>1, <3>1 DEF Files
  <2>3. CASE proc[q].fd \notin Inodes
    BY <1>1, <2>1, <2>3
  <2> QED  BY <2>2, <2>3
<1>3. budget' \in [Events -> Nat]
  BY <1>1, SpendTyped DEF TypeOK, Events
<1>4. proc' \in [Procs -> Process] /\ main' \in Procs \cup {None}
  BY <1>1, EndsTyped DEF TypeOK
<1> QED  BY <1>2, <1>3, <1>4 DEF TypeOK, Gzip, Files

LEMMA TypePublish ==
  ASSUME TypeOK, NEW p \in Procs, Publish(p)
  PROVE  TypeOK'
<1>1. \/ Zipped \in DOMAIN dir /\ dir' = Dir_renamed(Zipped, Gz(proc[p].fn)) /\ budget' = budget
      \/ dir' = dir /\ (Spend("fail") \/ budget' = budget)
  BY DEF Publish
<1>2. Gz(proc[p].fn) \in Names /\ DirOK
  BY NamesTyped DEF TypeOK, Process, DirOK
<1>3. DirOK'
  BY <1>1, <1>2, DirTyped DEF DirOK
<1>4. budget' \in [Events -> Nat]
  BY <1>1, SpendTyped DEF TypeOK, Events
<1>5. PICK label \in PCs : Goto(p, label)
  BY DEF Publish, PCs
<1>6. proc' \in [Procs -> Process]
  BY <1>5, GotoTyped DEF TypeOK
<1> QED  BY <1>3, <1>4, <1>6 DEF TypeOK, Publish, DirOK

LEMMA TypeZchmod ==
  ASSUME TypeOK, NEW p \in Procs, Zchmod(p)
  PROVE  TypeOK'
<1>1. \/ dir' = dir /\ budget' = budget
      \/ dir' = Dir_without(Gz(proc[p].fn)) /\ Spend("fail")
  BY DEF Zchmod
<1>2. DirOK'
  BY <1>1, DirTyped DEF TypeOK, DirOK
<1>3. budget' \in [Events -> Nat]
  BY <1>1, SpendTyped DEF TypeOK, Events
<1>4. PICK label \in PCs : Goto(p, label)
  BY DEF Zchmod, PCs
<1>5. proc' \in [Procs -> Process]
  BY <1>4, GotoTyped DEF TypeOK
<1> QED  BY <1>2, <1>3, <1>5 DEF TypeOK, Zchmod, DirOK

LEMMA TypeDrop ==
  ASSUME TypeOK, NEW p \in Procs, Drop(p) \/ Unzip(p)
  PROVE  TypeOK'
<1>1. DirOK'
  BY DirTyped DEF Drop, Unzip, TypeOK, DirOK
<1>2. proc' \in [Procs -> Process]
  BY GotoTyped DEF TypeOK, Drop, Unzip, PCs
<1>3. risked' \subseteq Nat
  BY CharsTyped DEF TypeOK, Drop, Unzip
<1> QED  BY <1>1, <1>2, <1>3 DEF TypeOK, Drop, Unzip, DirOK

LEMMA TypePrune ==
  ASSUME TypeOK, NEW p \in Procs, Prune(p)
  PROVE  TypeOK'
<1>1. /\ dir' = dir \/ dir' = Dir_without(Oldest(Archives))
      /\ \/ Goto(p, "open") /\ main' = main
         \/ proc' = proc /\ main' = main
         \/ Ends(p, FALSE)
  BY DEF Prune
<1>2. DirOK'
  BY <1>1, DirTyped DEF TypeOK, DirOK
<1>3. proc' \in [Procs -> Process] /\ main' \in Procs \cup {None}
  BY <1>1, GotoTyped, EndsTyped DEF TypeOK, PCs
<1> QED  BY <1>2, <1>3 DEF TypeOK, Prune, DirOK

LEMMA TypeOpenCurrent ==
  ASSUME TypeOK, NEW p \in Procs, OpenCurrent(p)
  PROVE  TypeOK'
<1> DEFINE i == IF Current \in DOMAIN dir THEN dir[Current] ELSE New
           data == IF Current \in DOMAIN dir THEN file[i].data ELSE <<>>
<1>1. i \in Inodes
  BY NewTyped DEF OpenCurrent, TypeOK
<1>2. data \in Seq(Nat)
  BY <1>1, EmptySeq DEF TypeOK
<1>3. /\ dir' = Dir_with(Current, i)
      /\ file' = [file EXCEPT ![i] = [data |-> data, exec |-> OpenMode(file[i]), mixed |-> FALSE]]
      /\ \/ Set(p, [proc[p] EXCEPT !.pc = "line", !.fd = i, !.init = FALSE])
         \/ Set(p, [proc[p] EXCEPT !.pc = "write", !.fd = i, !.size = 0, !.flagrotate = FALSE])
  BY DEF OpenCurrent
<1> HIDE DEF i, data
<1>4. DirOK'
  <2>1. DirOK
    BY DEF TypeOK, DirOK
  <2> QED  BY <1>1, <1>3, <2>1, DirTyped, NamesTyped
<1>5. file' \in [Inodes -> Files]
  BY <1>1, <1>2, <1>3 DEF TypeOK, Files, OpenMode
<1>6. proc' \in [Procs -> Process]
  <2>1. {"line", "write"} \subseteq PCs /\ i \in Inodes \cup {None} /\ 0 \in Nat
    BY <1>1 DEF PCs
  <2>2. \A r \in Process :
          /\ [r EXCEPT !.pc = "line", !.fd = i, !.init = FALSE] \in Process
          /\ [r EXCEPT !.pc = "write", !.fd = i, !.size = 0, !.flagrotate = FALSE] \in Process
    BY <2>1, Zenon DEF Process
  <2> QED  BY <1>3, <2>2, SetTyped DEF TypeOK
<1> QED  BY <1>4, <1>5, <1>6 DEF TypeOK, OpenCurrent, DirOK, Files

\* The texts s and t hold nothing but what was in line and buf, and if those
\* were in order so are they.
TakenFrom(line, buf, s, t) ==
  /\ Chars(s) \cup Chars(t) \subseteq Chars(line) \cup Chars(buf)
  /\ Increasing(line) /\ Increasing(buf) /\ Below(Chars(line), Chars(buf))
       => Increasing(s) /\ Increasing(t) /\ Below(Chars(s), Chars(t))

\* What the inner loop of do_log() makes of its line and its buffer.
LEMMA Collected ==
  ASSUME TypeOK, NEW p \in Procs, CollectLine(p)
  PROVE  \E line, buf \in Seq(Nat), pc \in {"line", "read", "post"} :
           /\ Len(line) <= LineMax
           /\ pc = "post" => line # <<>>
           /\ TakenFrom(proc[p].line, proc[p].buf, line, buf)
           /\ Set(p, [proc[p] EXCEPT !.line = line, !.buf = buf, !.pc = pc])
<1> DEFINE buffer == proc[p].buf
           newlines == {i \in 1 .. Len(buffer) : buffer[i] = NL}
           k == CHOOSE i \in newlines : \A j \in newlines : i <= j
           text == proc[p].line \o IF newlines = {} THEN buffer ELSE SubSeq(buffer, 1, k - 1)
           line == Trunc(text)
           buf == IF newlines = {} THEN <<>> ELSE SubSeq(buffer, k + 1, Len(buffer))
           pc == IF newlines = {} THEN "read" ELSE IF line # <<>> THEN "post" ELSE "line"
<1>1. buffer \in Seq(Nat) /\ proc[p].line \in Seq(Nat) /\ Len(buffer) \in Nat
  BY LenProperties DEF TypeOK, Process
<1>2. newlines # {} => k \in newlines
  <2> SUFFICES ASSUME newlines # {} PROVE \E i \in newlines : \A j \in newlines : i <= j
    OBVIOUS
  <2>1. newlines \subseteq Nat
    OBVIOUS
  <2>2. PICK n \in newlines : TRUE
    OBVIOUS
  <2> QED  BY <2>1, <2>2, SmallestOf
<1> HIDE DEF k
<1>3. newlines # {} => k \in Nat \ {0} /\ k - 1 \in Nat /\ k + 1 \in Nat \ {0} /\ k - 1 <= Len(buffer)
  BY <1>1, <1>2
<1>4. newlines # {} => SubSeq(buffer, 1, k - 1) \in Seq(Nat) /\ SubSeq(buffer, k + 1, Len(buffer)) \in Seq(Nat)
  <2> HIDE DEF newlines, buffer
  <2> QED  BY <1>1, <1>3, CutTyped
<1>5. text \in Seq(Nat) /\ buf \in Seq(Nat)
  BY <1>1, <1>4, ConcatProperties, EmptySeq
<1>6. line \in Seq(Nat) /\ Len(line) <= LineMax
  BY <1>5, TruncTyped
<1>7. Set(p, [proc[p] EXCEPT !.line = line, !.buf = buf, !.pc = pc])
  BY DEF CollectLine, k
<1>8. pc \in {"line", "read", "post"} /\ (pc = "post" => line # <<>>)
  OBVIOUS
<1> DEFINE head == IF newlines = {} THEN buffer ELSE SubSeq(buffer, 1, k - 1)
<1>9. /\ head \in Seq(Nat) /\ Chars(head) \subseteq Chars(buffer) /\ Chars(buf) \subseteq Chars(buffer)
      /\ Increasing(buffer) => Increasing(head) /\ Increasing(buf) /\ Below(Chars(head), Chars(buf))
  <2>1. CASE newlines = {}
    <3>1. Chars(<<>>) = {} /\ Increasing(<<>>)
      BY DEF Chars, Increasing
    <3>2. head = buffer /\ buf = <<>>
      BY <2>1
    <3> HIDE DEF head, buf, buffer
    <3> QED  BY <1>1, <3>1, <3>2 DEF Below
  <2>2. CASE newlines # {}
    <3>1. head = SubSeq(buffer, 1, k - 1) /\ buf = SubSeq(buffer, k + 1, Len(buffer))
      BY <2>2
    <3>2. k - 1 < k + 1 /\ Len(buffer) <= Len(buffer)
      BY <1>1, <1>3, <2>2
    <3> HIDE DEF newlines, head, buf, buffer
    <3>3. Increasing(buffer) => Below(Chars(head), Chars(buf))
      BY <1>1, <1>3, <2>2, <3>1, <3>2, PartsBelow
    <3>4. Chars(head) \subseteq Chars(buffer) /\ (Increasing(buffer) => Increasing(head))
      BY <1>1, <1>3, <2>2, <3>1, PartOf
    <3>5. Chars(buf) \subseteq Chars(buffer) /\ (Increasing(buffer) => Increasing(buf))
      BY <1>1, <1>3, <2>2, <3>1, <3>2, PartOf
    <3> QED  BY <1>4, <2>2, <3>1, <3>3, <3>4, <3>5
  <2> QED  BY <2>1, <2>2
<1>10. TakenFrom(proc[p].line, proc[p].buf, line, buf)
  <2>1. line = Trunc(proc[p].line \o head) /\ buffer = proc[p].buf
    OBVIOUS
  <2> HIDE DEF head, line, buf, buffer
  <2>2. /\ proc[p].line \o head \in Seq(Nat)
        /\ Chars(proc[p].line \o head) = Chars(proc[p].line) \cup Chars(head)
        /\ Increasing(proc[p].line) /\ Increasing(head) /\ Below(Chars(proc[p].line), Chars(head))
             => Increasing(proc[p].line \o head)
    BY <1>1, <1>9, Joined
  <2>3. /\ Chars(line) \subseteq Chars(proc[p].line) \cup Chars(head)
        /\ Increasing(proc[p].line \o head) => Increasing(line)
    BY <2>1, <2>2, Cut
  <2>4. Chars(line) \cup Chars(buf) \subseteq Chars(proc[p].line) \cup Chars(proc[p].buf)
    BY <1>9, <2>1, <2>3
  <2>5. ASSUME Increasing(proc[p].line), Increasing(buffer), Below(Chars(proc[p].line), Chars(buffer))
        PROVE  Increasing(line) /\ Increasing(buf) /\ Below(Chars(line), Chars(buf))
    <3>1. Below(Chars(proc[p].line), Chars(head)) /\ Below(Chars(proc[p].line), Chars(buf))
      BY <1>9, <2>5 DEF Below
    <3>2. Below(Chars(line), Chars(buf))
      BY <1>9, <2>3, <2>5, <3>1 DEF Below
    <3> QED  BY <1>9, <2>2, <2>3, <2>5, <3>1, <3>2
  <2> QED  BY <2>1, <2>4, <2>5 DEF TakenFrom
<1> HIDE DEF line, buf, pc
<1> QED  BY <1>5, <1>6, <1>7, <1>8, <1>10

LEMMA TypeCollectLine ==
  ASSUME TypeOK, NEW p \in Procs, CollectLine(p)
  PROVE  TypeOK'
<1>1. PICK line \in Seq(Nat), buf \in Seq(Nat), pc \in {"line", "read", "post"} :
        Set(p, [proc[p] EXCEPT !.line = line, !.buf = buf, !.pc = pc])
  BY Collected
<1>2. pc \in PCs
  BY DEF PCs
<1>3. \A r \in Process : [r EXCEPT !.line = line, !.buf = buf, !.pc = pc] \in Process
  BY <1>2, Zenon DEF Process
<1>4. proc' \in [Procs -> Process]
  BY <1>1, <1>3, SetTyped DEF TypeOK
<1> QED  BY <1>4 DEF TypeOK, CollectLine, disk

LEMMA AtEofTyped ==
  ASSUME TypeOK, NEW p \in Procs
  PROVE  /\ AtEof(p) \in Process
         /\ \E pc \in {"post", "close"} : AtEof(p) = [proc[p] EXCEPT !.eof = TRUE, !.pc = pc]
<1> DEFINE pc == IF proc[p].line # <<>> THEN "post" ELSE "close"
<1>1. pc \in PCs /\ pc \in {"post", "close"}
  BY DEF PCs
<1>2. AtEof(p) = [proc[p] EXCEPT !.eof = TRUE, !.pc = pc]
  BY DEF AtEof
<1> HIDE DEF pc
<1>3. \A r \in Process : [r EXCEPT !.eof = TRUE, !.pc = pc] \in Process
  BY <1>1, Zenon DEF Process
<1>4. proc[p] \in Process
  BY DEF TypeOK
<1> QED  BY <1>1, <1>2, <1>3, <1>4

LEMMA TypeReadOp ==
  ASSUME TypeOK, NEW p \in Procs, ReadOp(p) \/ EnterRead(p) \/ ReadEof(p)
  PROVE  TypeOK'
<1>1. Set(p, AtEof(p)) \/ Goto(p, "enter") \/ Goto(p, "reading")
  BY DEF ReadOp, EnterRead, ReadEof, Goto
<1>2. proc' \in [Procs -> Process]
  BY <1>1, AtEofTyped, SetTyped, GotoTyped DEF TypeOK, PCs
<1> QED  BY <1>2 DEF TypeOK, ReadOp, EnterRead, ReadEof, disk

LEMMA TypeReadData ==
  ASSUME TypeOK, NEW p \in Procs, ReadData(p)
  PROVE  TypeOK'
<1> DEFINE left(k) == SubSeq(Stdin(p), k + 1, Len(Stdin(p)))
           rest(k) == IF proc[p].in = "pipe" THEN proc[p].rest ELSE left(k)
<1>1. proc[p] \in Process
  BY DEF TypeOK
<1>2. PICK k \in 1 .. InBuf :
        /\ k <= Len(Stdin(p))
        /\ Set(p, [proc[p] EXCEPT !.buf = SubSeq(Stdin(p), 1, k), !.pc = "line", !.rest = rest(k)])
        /\ pos' = IF proc[p].in = "pipe" THEN pos + Got(k) ELSE pos
  <2>1. PICK k \in 1 .. InBuf :
          /\ k <= Len(Stdin(p))
          /\ Set(p, [proc[p] EXCEPT !.buf = SubSeq(Stdin(p), 1, k), !.pc = "line",
                                    !.rest = IF proc[p].in = "pipe" THEN @ ELSE left(k)])
          /\ pos' = IF proc[p].in = "pipe" THEN pos + Got(k) ELSE pos
    BY DEF ReadData
  <2> QED  BY <1>1, <2>1 DEF Process
<1>3. k \in Nat /\ k + 1 \in Nat \ {0}
  BY LineAssumption
<1>4. Stdin(p) \in Seq(Nat) /\ Len(Stdin(p)) \in Nat /\ proc[p].rest \in Seq(Nat)
  BY <1>1, StdinTyped, LenProperties DEF Process
<1>5. SubSeq(Stdin(p), 1, k) \in Seq(Nat) /\ left(k) \in Seq(Nat)
  BY <1>2, <1>3, <1>4, CutTyped
<1>6. rest(k) \in Seq(Nat) /\ "line" \in PCs
  BY <1>4, <1>5 DEF PCs
<1>7. proc' \in [Procs -> Process]
  <2> HIDE DEF rest
  <2>1. \A r \in Process, buf \in Seq(Nat) : [r EXCEPT !.buf = buf, !.pc = "line", !.rest = rest(k)] \in Process
    BY <1>6, Zenon DEF Process
  <2> QED  BY <1>1, <1>2, <1>5, <2>1, SetTyped DEF TypeOK
<1>8. pos' \in 0 .. Len(input)
  BY <1>2, <1>3, StdinTyped DEF TypeOK, Got
<1> QED  BY <1>7, <1>8 DEF TypeOK, ReadData, disk

LEMMA TypePost ==
  ASSUME TypeOK, NEW p \in Procs, Post(p)
  PROVE  TypeOK'
<1> DEFINE text == Append(proc[p].line, NL)
           flag == proc[p].flagrotate /\ ~WantRotate(p, Len(proc[p].line) + 1)
<1>1. proc[p] \in Process
  BY DEF TypeOK
<1>2. \/ Set(p, [proc[p] EXCEPT !.line = text, !.fd = None, !.pc = "rename"])
      \/ Set(p, [proc[p] EXCEPT !.line = text, !.flagrotate = flag, !.pc = "write"])
  BY <1>1 DEF Post, Process
<1>3. text \in Seq(Nat) /\ flag \in BOOLEAN /\ {"rename", "write"} \subseteq PCs
  BY <1>1, AppendProperties DEF Process, PCs, NL
<1> HIDE DEF text, flag
<1>4. \A r \in Process : /\ [r EXCEPT !.line = text, !.fd = None, !.pc = "rename"] \in Process
                         /\ [r EXCEPT !.line = text, !.flagrotate = flag, !.pc = "write"] \in Process
  BY <1>3, Zenon DEF Process
<1>5. proc' \in [Procs -> Process]
  BY <1>1, <1>2, <1>4, SetTyped DEF TypeOK
<1> QED  BY <1>5 DEF TypeOK, Post, disk

LEMMA TypeRename ==
  ASSUME TypeOK, NEW p \in Procs, Rename(p)
  PROVE  TypeOK'
<1>1. "keep" \in PCs
  BY DEF PCs
<1>2. \A r \in Process : [r EXCEPT !.log = Previous, !.ext = "s", !.pc = "keep"] \in Process
  BY <1>1, Zenon DEF Process
<1>3. proc' \in [Procs -> Process]
  BY <1>2, SetTyped DEF TypeOK, Rename
<1>4. DirOK'
  BY DirTyped, NamesTyped DEF Rename, TypeOK, DirOK
<1> QED  BY <1>3, <1>4 DEF TypeOK, Rename, DirOK

\* One write() of write_all(): of the first k characters of the line.
OneWrite(p, k, part, rest, pc) ==
  /\ k <= Len(proc[p].line)
  /\ part = SubSeq(proc[p].line, 1, k) /\ Len(part) = k
  /\ part[Len(part)] = proc[p].line[k]
  /\ rest = SubSeq(proc[p].line, k + 1, Len(proc[p].line))
  /\ Len(rest) = Len(proc[p].line) - k
  /\ rest # <<>> => rest[Len(rest)] = proc[p].line[Len(proc[p].line)]
  /\ pc = IF rest # <<>> THEN "write" ELSE IF proc[p].eof THEN "close" ELSE "line"
  /\ file' = [file EXCEPT ![proc[p].fd].data = @ \o part]
  /\ logged' = logged \cup Chars(part)
  /\ Set(p, [proc[p] EXCEPT !.line = rest, !.size = proc[p].size + k, !.pc = pc])

LEMMA Written ==
  ASSUME TypeOK, NEW p \in Procs, Write(p)
  PROVE  \E k \in Nat \ {0}, part, rest \in Seq(Nat), pc \in {"write", "close", "line"} :
           OneWrite(p, k, part, rest, pc)
<1> DEFINE line == proc[p].line
<1>1. proc[p] \in Process /\ line \in Seq(Nat) /\ Len(line) \in Nat
  BY LenProperties DEF TypeOK, Process
<1>2. PICK k \in 1 .. Len(line) :
        LET part == SubSeq(line, 1, k)
            rest == SubSeq(line, k + 1, Len(line))
            pc == IF rest # <<>> THEN "write" ELSE IF proc[p].eof THEN "close" ELSE "line"
        IN /\ file' = [file EXCEPT ![proc[p].fd].data = @ \o part]
           /\ logged' = logged \cup Chars(part)
           /\ Set(p, [proc[p] EXCEPT !.line = rest, !.size = @ + k, !.pc = pc])
  BY DEF Write
<1> DEFINE part == SubSeq(line, 1, k)
           rest == SubSeq(line, k + 1, Len(line))
           pc == IF rest # <<>> THEN "write" ELSE IF proc[p].eof THEN "close" ELSE "line"
<1>3. k \in Nat \ {0} /\ k + 1 \in Nat \ {0} /\ k <= Len(line)
  BY <1>1, <1>2
<1>4. part \in Seq(Nat) /\ Len(part) = k /\ part[Len(part)] = line[k]
  <2> HIDE DEF line
  <2> QED  BY <1>1, <1>3, CutTyped
<1>5. rest \in Seq(Nat) /\ Len(rest) = Len(line) - k /\ (rest # <<>> => rest[Len(rest)] = line[Len(line)])
  <2> HIDE DEF line
  <2>1. /\ rest \in Seq(Nat) /\ Len(rest) = Len(line) - k
        /\ \A i \in 1 .. Len(line) - (k + 1) + 1 : rest[i] = line[k + 1 + i - 1]
    <3>1. Len(line) <= Len(line) /\ (k + 1 <= Len(line) \/ Len(line) - k = 0)
          /\ Len(line) - (k + 1) + 1 = Len(line) - k
      BY <1>1, <1>3
    <3> QED  BY <1>1, <1>3, <3>1, CutTyped
  <2>2. rest # <<>> => Len(rest) \in 1 .. Len(line) - (k + 1) + 1
    <3> HIDE DEF rest
    <3> QED  BY <1>1, <1>3, <2>1, EmptySeq
  <2>3. k + 1 + Len(rest) - 1 = Len(line)
    <3> HIDE DEF rest
    <3> QED  BY <1>1, <1>3, <2>1
  <2> QED  BY <2>1, <2>2, <2>3
<1>6. Set(p, [proc[p] EXCEPT !.line = rest, !.size = proc[p].size + k, !.pc = pc])
  BY <1>1, <1>2 DEF Process
<1>7. file' = [file EXCEPT ![proc[p].fd].data = @ \o part] /\ logged' = logged \cup Chars(part)
  BY <1>2
<1>8. pc \in {"write", "close", "line"}
  OBVIOUS
<1>9. part = SubSeq(line, 1, k) /\ rest = SubSeq(line, k + 1, Len(line))
      /\ pc = IF rest # <<>> THEN "write" ELSE IF proc[p].eof THEN "close" ELSE "line"
  OBVIOUS
<1> HIDE DEF part, rest, pc
<1>10. OneWrite(p, k, part, rest, pc)
  BY <1>3, <1>4, <1>5, <1>6, <1>7, <1>9 DEF OneWrite
<1> QED  BY <1>3, <1>4, <1>5, <1>8, <1>10

LEMMA TypeWrite ==
  ASSUME TypeOK, NEW p \in Procs, Write(p)
  PROVE  TypeOK'
<1>1. PICK k \in Nat \ {0}, part \in Seq(Nat), rest \in Seq(Nat), pc \in {"write", "close", "line"} :
        OneWrite(p, k, part, rest, pc)
  BY Written, Zenon
<1>2. pc \in PCs /\ proc[p] \in Process
  BY DEF PCs, TypeOK
<1>3. \A size \in Nat, r \in Process : [r EXCEPT !.line = rest, !.size = size, !.pc = pc] \in Process
  BY <1>2, Zenon DEF Process
<1>4. proc[p].size + k \in Nat
  BY <1>2 DEF Process
<1>5. proc' \in [Procs -> Process]
  <2>1. [proc[p] EXCEPT !.line = rest, !.size = proc[p].size + k, !.pc = pc] \in Process
    BY <1>2, <1>3, <1>4, Zenon
  <2>2. proc \in [Procs -> Process]
    BY DEF TypeOK
  <2> QED  BY <1>1, <2>1, <2>2, SetTyped, Zenon DEF OneWrite
<1>6. file' \in [Inodes -> Files]
  <2>1. \A i \in Inodes : file[i].data \o part \in Seq(Nat)
    BY ConcatProperties DEF TypeOK
  <2> QED  BY <1>1, <2>1 DEF TypeOK, Files, OneWrite
<1>7. logged' \subseteq Nat
  BY <1>1, CharsTyped DEF TypeOK, OneWrite
<1> QED  BY <1>5, <1>6, <1>7 DEF TypeOK, Write, Files

LEMMA TypeClose ==
  ASSUME TypeOK, NEW p \in Procs, Close(p)
  PROVE  TypeOK'
<1>1. proc' \in [Procs -> Process] /\ main' \in Procs \cup {None}
  BY EndsTyped DEF TypeOK, Close
<1>2. file' \in [Inodes -> Files]
  <2>1. file' = [file EXCEPT ![proc[p].fd].exec = TRUE] \/ file' = file
    BY DEF Close
  <2>2. \A f \in Files : [f EXCEPT !.exec = TRUE] \in Files
    BY DEF Files
  <2>3. file \in [Inodes -> Files]
    BY DEF TypeOK, Files
  <2> QED  BY <2>1, <2>2, <2>3
<1>3. budget' \in [Events -> Nat]
  BY SpendTyped DEF Close, TypeOK, Events
<1> QED  BY <1>1, <1>2, <1>3 DEF TypeOK, Close, Files

LEMMA TypeFails ==
  ASSUME TypeOK, NEW p \in Procs, Fails(p)
  PROVE  TypeOK'
<1>1. proc' \in [Procs -> Process] /\ main' \in Procs \cup {None}
  BY EndsTyped DEF TypeOK, Fails
<1>2. budget' = budget \/ Spend("fail")
  BY DEF Fails
<1>3. budget' \in [Events -> Nat]
  BY <1>2, SpendTyped DEF TypeOK, Events
<1> QED  BY <1>1, <1>3 DEF TypeOK, Fails, disk

LEMMA HandledTyped ==
  ASSUME TypeOK, NEW p \in Procs
  PROVE  /\ Handled(p) \in PCs
         /\ [proc[p] EXCEPT !.flagexit = TRUE, !.pc = Handled(p)] \in Process
         /\ [proc[p] EXCEPT !.flagrotate = TRUE, !.pc = Handled(p)] \in Process
<1>1. proc[p] \in Process /\ Handled(p) \in PCs
  BY DEF TypeOK, Handled, Process, PCs
<1>2. \A r \in Process, pc \in PCs : /\ [r EXCEPT !.flagexit = TRUE, !.pc = pc] \in Process
                                     /\ [r EXCEPT !.flagrotate = TRUE, !.pc = pc] \in Process
  BY Zenon DEF Process
<1> QED  BY <1>1, <1>2

LEMMA TypeSignal ==
  ASSUME TypeOK, Term \/ Hup \/ Kill
  PROVE  TypeOK'
<1>1. main \in Procs
  BY NoneAssumption DEF TypeOK, Term, Hup, Kill
<1>2. \/ Ends(main, FALSE)
      \/ /\ main' = main
         /\ \/ Set(main, [proc[main] EXCEPT !.flagexit = TRUE, !.pc = Handled(main)])
            \/ Set(main, [proc[main] EXCEPT !.flagrotate = TRUE, !.pc = Handled(main)])
  BY DEF Term, Hup, Kill
<1>3. proc' \in [Procs -> Process] /\ main' \in Procs \cup {None}
  BY <1>1, <1>2, HandledTyped, EndsTyped, SetTyped DEF TypeOK
<1>4. budget' \in [Events -> Nat]
  BY SpendTyped DEF TypeOK, Term, Hup, Kill, Events
<1> QED  BY <1>3, <1>4 DEF TypeOK, Term, Hup, Kill, disk

LEMMA TypeNext == TypeOK /\ [Next]_vars => TypeOK'
<1> SUFFICES ASSUME TypeOK, [Next]_vars PROVE TypeOK'
  OBVIOUS
<1>1. CASE UNCHANGED vars
  BY <1>1 DEF vars, TypeOK
<1>2. ASSUME NEW p \in Procs, Step(p) PROVE TypeOK'
  BY <1>2, TypeInitCurrent, TypeKeepStat, TypeKeepLink, TypeKeepUnlink, TypeForkGzip,
     TypeExecGzip, TypeChildReturns, TypeGzip, TypePublish, TypeZchmod, TypeDrop, TypePrune, TypeOpenCurrent,
     TypeCollectLine, TypeReadOp, TypePost, TypeRename, TypeWrite, TypeClose, TypeFails DEF Step
<1> QED  BY <1>1, <1>2, TypeReadData, TypeStart, TypeSignal DEF Next

-----------------------------------------------------------------------------
(***************************************************************************)
(* One logger at a time.                                                   *)
(*                                                                         *)
(* What follows is about behaviours in which the only tinylog that logs is *)
(* the one perpd started: no child has come back from a gzip that could    *)
(* not open its files.  With a second logger a process renames a current   *)
(* in which the other is in the middle of a line.  There may be any number *)
(* of gzip processes, of tinylogs that have been killed too.               *)
(***************************************************************************)
Logger(p) == Up(p) /\ ~Zipping(p)
Alone == \A p \in Procs : Logger(p) => p = main

\* perpd's rc.log does not change its mind about -r.  Without this a process
\* may resume a clean current that one started with -r has linked as .s, and
\* not unlinked before it was killed: a line cut short then ends up in a .s.
SameResume == \A s \in Scripts : \A a, b \in s : a.resume = b.resume

Whole(f) == f.data = <<>> \/ f.data[Len(f.data)] = NL
WholeLine(line) == line # <<>> /\ line[Len(line)] = NL

Opened(p) == proc[p].pc \in {"line", "read", "enter", "reading", "post", "write", "close"}
Keeping(p) == proc[p].pc \in {"keep", "link", "unlink"}
Archiving(p) == proc[p].pc \in {"fork", "wait", "publish", "zchmod", "drop", "unzip", "prune"}
\* In tinylog_rotate(), with the line that is to be written next.
Rotating(p) == ~proc[p].init /\ (At(p, "rename") \/ Keeping(p) \/ Archiving(p) \/ At(p, "open"))

Stage(p) ==
  /\ proc[p].kid # None => At(p, "wait")
  /\ p = main => ~Zipping(p)
  /\ proc[p].fn.kind = "archive"
  /\ Up(p) => proc[p].opt \in script
  /\ At(p, "init") => proc[p].init
  /\ At(p, "rename") \/ Opened(p) => ~proc[p].init
  /\ ~Opened(p) /\ ~At(p, "gzip") => proc[p].fd = None
  /\ At(p, "gzip") => proc[p].fd \in Inodes
  /\ proc[p].init => proc[p].line = <<>>
  /\ Keeping(p) => proc[p].log = IF proc[p].init THEN Current ELSE Previous

\* The open log is current, and only current; size is its size.
OpenLog(p) ==
  Opened(p) =>
    /\ Current \in DOMAIN dir /\ dir[Current] = proc[p].fd
    /\ SameResume => \A n \in DOMAIN dir : dir[n] = proc[p].fd => n = Current
    /\ ~file[proc[p].fd].exec
    /\ proc[p].size = Len(file[proc[p].fd].data)

\* While no log is open: current is whole when it is renamed, and is gone
\* until it is opened anew, except before init_current() has dealt with it.
ClosedLog(p) ==
  /\ SameResume /\ At(p, "rename") /\ Current \in DOMAIN dir => Whole(file[dir[Current]])
  /\ Archiving(p) \/ (~proc[p].init /\ (Keeping(p) \/ At(p, "open"))) => Current \notin DOMAIN dir
  /\ ~proc[p].init /\ Keeping(p) => proc[p].ext = "s"
  /\ proc[p].init /\ Keeping(p) /\ Current \in DOMAIN dir =>
       /\ proc[p].ext = "s" => file[dir[Current]].exec
       /\ file[dir[Current]].exec => ~proc[p].opt.resume
  /\ proc[p].init /\ (Keeping(p) \/ Archiving(p)) => proc[p].size = 0
  /\ proc[p].init /\ At(p, "open") /\ Current \notin DOMAIN dir => proc[p].size = 0
  /\ proc[p].init /\ At(p, "open") /\ Current \in DOMAIN dir =>
       /\ file[dir[Current]].exec /\ proc[p].opt.resume
       /\ proc[p].size = Len(file[dir[Current]].data)

\* A line is cut at LOGLINE_MAX, and is written only where there is room.
Text(p) ==
  /\ Opened(p) /\ ~At(p, "write") /\ ~At(p, "close") => Len(proc[p].line) <= LineMax
  /\ SameResume /\ Opened(p) /\ ~At(p, "write") => Whole(file[proc[p].fd])
  /\ Rotating(p) \/ At(p, "write") => WholeLine(proc[p].line)
  /\ Rotating(p) => Len(proc[p].line) <= LineMax + 1
  /\ At(p, "write") => proc[p].size + Len(proc[p].line) <= proc[p].opt.max
  /\ SameResume /\ At(p, "publish") /\ proc[p].fn.ext = "s" /\ Zipped \in DOMAIN dir =>
       file[dir[Zipped]].mixed \/ Whole(file[dir[Zipped]])

ProcInv(p) == Stage(p) /\ OpenLog(p) /\ ClosedLog(p) /\ Text(p)

\* Which names may share a file.
Links ==
  /\ Zipped \in DOMAIN dir => \A n \in DOMAIN dir : dir[n] = dir[Zipped] => n = Zipped
  /\ SameResume /\ Previous \in DOMAIN dir => Whole(file[dir[Previous]])
  /\ SameResume /\ Current \in DOMAIN dir /\ file[dir[Current]].exec /\ (\E o \in script : o.resume) =>
       \A n \in DOMAIN dir : dir[n] = dir[Current] => n = Current

Bounded == Current \in DOMAIN dir => \E o \in script : Len(file[dir[Current]].data) <= o.max

CleanIsWhole ==
  SameResume => \A n \in DOMAIN dir :
    (n.ext = "s" \/ (n = Current /\ file[dir[n]].exec)) /\ ~file[dir[n]].mixed => Whole(file[dir[n]])

DirInv == Links /\ Bounded /\ CleanIsWhole

\* The gzips.  Unless it is shared, what a gzip writes has no name but
\* "zipped", and is not what a parent is about to publish.
OwnFile(q) ==
  At(q, "gzip") =>
    /\ \A n \in DOMAIN dir : dir[n] = proc[q].fd => n = Zipped \/ file[dir[n]].mixed
    /\ \A r \in Procs \ {q} : At(r, "gzip") /\ proc[r].fd = proc[q].fd => file[proc[q].fd].mixed
    /\ \A p \in Procs : At(p, "publish") /\ Zipped \in DOMAIN dir /\ dir[Zipped] = proc[q].fd
                         => file[proc[q].fd].mixed

\* tinylog waits for the gzip of the archive it has just made.
Awaited(p) ==
  At(p, "wait") /\ proc[p].kid # None =>
    LET q == proc[p].kid IN
    /\ Zipping(q) /\ proc[q].fn = proc[p].fn
    /\ At(q, "gzip") => /\ Zipped \in DOMAIN dir /\ dir[Zipped] = proc[q].fd
                        /\ proc[p].fn \in DOMAIN dir /\ proc[q].rest = file[dir[proc[p].fn]].data

ZipInv == /\ \A n \in DOMAIN dir : file[dir[n]].mixed => n = Zipped \/ n.kind = "gz"
          /\ \A q \in Procs : OwnFile(q) /\ Awaited(q)

LoneInv == TypeOK /\ (\A p \in Procs : ProcInv(p)) /\ DirInv /\ ZipInv

LEMMA NamesDiffer ==
  /\ Current # Previous /\ Current # Zipped /\ Previous # Zipped
  /\ Current.ext = "" /\ Previous.ext = "" /\ Zipped.ext = ""
  /\ \A t, ext : Archive(t, ext) \notin {Current, Previous, Zipped} /\ Archive(t, ext).ext = ext
  /\ \A n \in Names : Gz(n) \notin {Current, Previous, Zipped} /\ Gz(n).ext = n.ext
<1>1. /\ Current # Previous /\ Current # Zipped /\ Previous # Zipped
      /\ Current.ext = "" /\ Previous.ext = "" /\ Zipped.ext = ""
  BY DEF Current, Previous, Zipped, Name
<1>2. \A t, ext : Archive(t, ext) \notin {Current, Previous, Zipped} /\ Archive(t, ext).ext = ext
  BY DEF Current, Previous, Zipped, Archive, Name
<1>3. \A n \in Names : Gz(n) \notin {Current, Previous, Zipped} /\ Gz(n).ext = n.ext
  BY DEF Current, Previous, Zipped, Gz, Name, Names
<1> QED  BY <1>1, <1>2, <1>3

LEMMA KindsDiffer ==
  /\ Current.kind = "current" /\ Previous.kind = "previous" /\ Zipped.kind = "zipped"
  /\ Template.kind = "archive" /\ Template.t = 0
  /\ \A t, ext : Archive(t, ext).kind = "archive" /\ Archive(t, ext).t = t /\ Archive(t, ext).ext = ext
  /\ \A n \in Names : Gz(n).kind = "gz" /\ Gz(n).t = n.t /\ Gz(n).ext = n.ext
  /\ \A n \in Archives : n \notin {Current, Previous, Zipped}
<1>1. /\ Current.kind = "current" /\ Previous.kind = "previous" /\ Zipped.kind = "zipped"
      /\ Template.kind = "archive" /\ Template.t = 0
  BY DEF Current, Previous, Zipped, Template, Archive, Name
<1>2. \A t, ext : Archive(t, ext).kind = "archive" /\ Archive(t, ext).t = t /\ Archive(t, ext).ext = ext
  BY DEF Archive, Name
<1>3. \A n \in Names : Gz(n).kind = "gz" /\ Gz(n).t = n.t /\ Gz(n).ext = n.ext
  BY DEF Gz, Names
<1>4. \A n \in Archives : n.kind \in {"archive", "gz"}
  BY DEF Archives
<1>5. \A n \in Archives : n \notin {Current, Previous, Zipped}
  BY <1>1, <1>4
<1> QED  BY <1>1, <1>2, <1>3, <1>5

\* A process that does not log has nothing to say about the files.
LEMMA QuietInv ==
  ASSUME NEW q \in Procs, ~Logger(q)', Stage(q)'
  PROVE  ProcInv(q)'
BY DEF ProcInv, OpenLog, ClosedLog, Text, Opened, Keeping, Archiving, Rotating, At, Up, Logger, Zipping

LEMMA OffInv ==
  ASSUME NEW q \in Procs, proc'[q] = Off
  PROVE  ProcInv(q)' /\ ~Logger(q)'
<1>1. Off.pc = "off" /\ Off.kid = None /\ Off.fd = None /\ ~Off.init /\ Off.fn.kind = "archive"
  BY DEF Off, Template, Archive, Name
<1>2. ~Logger(q)'
  BY <1>1 DEF Logger, Up
<1>3. Stage(q)'
  BY <1>1 DEF Stage, Opened, Keeping, At, Up, Zipping
<1> QED  BY <1>2, <1>3, QuietInv

\* No other process logs.
Only(p) == \A q \in Procs \ {p} : ~Logger(q)

LEMMA OnlyOne ==
  ASSUME Alone, NEW p \in Procs, Logger(p) \/ main = None \/ main = p
  PROVE  Only(p)
BY NoneAssumption DEF Alone, Only

\* A step of the only logger: of the others there is little to be shown.
LEMMA LoneStep ==
  ASSUME LoneInv, TypeOK', NEW p \in Procs, Only(p), script' = script, main' \in {main, p, None},
         \A q \in Procs \ {p} : proc'[q] = proc[q],
         ProcInv(p)', DirInv', ZipInv'
  PROVE  LoneInv'
<1>1. ASSUME NEW q \in Procs, q # p PROVE ProcInv(q)'
  <2>1. ~Logger(q) /\ proc'[q] = proc[q] /\ Stage(q)
    BY <1>1 DEF Only, LoneInv, ProcInv
  <2>2. ~Logger(q)'
    BY <2>1 DEF Logger, Up, Zipping, At
  <2>3. q = main' => q = main
    BY <1>1, NoneAssumption
  <2>4. Stage(q)'
    BY <2>1, <2>3 DEF Stage, Opened, Keeping, At, Up, Zipping
  <2> QED  BY <2>2, <2>4, QuietInv
<1> QED  BY <1>1 DEF LoneInv

LEMMA EndsLone ==
  ASSUME LoneInv, NEW p \in Procs, NEW ok, ~Zipping(p), Ends(p, ok)
  PROVE  /\ \A q \in Procs \ {p} : proc'[q] = proc[q]
         /\ proc'[p] = Off /\ proc'[p].pc = "off" /\ main' \in {main, None}
         /\ ProcInv(p)'
<1>1. \A q \in Procs : proc[q].kid # p
  BY NoneAssumption DEF LoneInv, ProcInv, Stage, ZipInv, Awaited
<1>2. proc'[p] = Off /\ (\A q \in Procs \ {p} : proc'[q] = proc[q]) /\ main' \in {main, None}
  BY <1>1 DEF Ends, LoneInv, TypeOK
<1>3. Off.pc = "off"
  BY DEF Off
<1> QED  BY <1>2, <1>3, OffInv

\* Steps that leave the files alone, or remove a name.
LEMMA DirStays ==
  ASSUME DirInv, script' = script, file' = file,
         dir' = dir \/ \E n : dir' = Dir_without(n)
  PROVE  DirInv'
<1>1. DOMAIN dir' \subseteq DOMAIN dir /\ \A n \in DOMAIN dir' : dir'[n] = dir[n]
  BY DEF Dir_without
<1>2. Links'
  BY <1>1 DEF DirInv, Links, Whole
<1>3. Bounded'
  BY <1>1 DEF DirInv, Bounded
<1>4. CleanIsWhole'
  BY <1>1 DEF DirInv, CleanIsWhole, Whole
<1> QED  BY <1>2, <1>3, <1>4 DEF DirInv

\* No gzip writes a log or an archive.
LEMMA NotMixed ==
  ASSUME LoneInv, NEW n \in DOMAIN dir, n \in {Current, Previous} \/ n.kind = "archive"
  PROVE  ~file[dir[n]].mixed /\ \A q \in Procs : At(q, "gzip") => proc[q].fd # dir[n]
<1>1. n # Zipped /\ n.kind # "gz"
  BY KindsDiffer, NamesDiffer
<1>2. ~file[dir[n]].mixed
  BY <1>1 DEF LoneInv, ZipInv
<1>3. ASSUME NEW q \in Procs, At(q, "gzip"), proc[q].fd = dir[n] PROVE FALSE
  <2>1. OwnFile(q)
    BY DEF LoneInv, ZipInv
  <2> QED  BY <1>1, <1>2, <1>3, <2>1 DEF OwnFile
<1> QED  BY <1>2, <1>3

\* Steps of the logger that name no other file than they found in a log, and
\* of which no gzip is waited for.
LEMMA ZipStays ==
  ASSUME LoneInv, NEW p \in Procs, Only(p), \A q \in Procs \ {p} : proc'[q] = proc[q],
         ~Zipping(p), ~Zipping(p)', At(p, "publish")' => At(p, "publish"), Awaited(p)',
         \A n \in DOMAIN dir' :
           \E m \in DOMAIN dir : dir'[n] = dir[m] /\ (m = n \/ m \in {Current, Previous}),
         \A i \in Inodes : file'[i].mixed = file[i].mixed
  PROVE  ZipInv'
<1>1. \A n \in DOMAIN dir : dir[n] \in Inodes /\ file'[dir[n]].mixed = file[dir[n]].mixed
  BY DEF LoneInv, TypeOK
<1>2. /\ Current \in DOMAIN dir => ~file[dir[Current]].mixed
      /\ Previous \in DOMAIN dir => ~file[dir[Previous]].mixed
  BY NotMixed
<1>3. \A n \in DOMAIN dir' : file'[dir'[n]].mixed => n = Zipped \/ n.kind = "gz"
  <2> SUFFICES ASSUME NEW n \in DOMAIN dir', file'[dir'[n]].mixed PROVE n = Zipped \/ n.kind = "gz"
    OBVIOUS
  <2>1. PICK m \in DOMAIN dir : dir'[n] = dir[m] /\ (m = n \/ m \in {Current, Previous})
    OBVIOUS
  <2>2. m = n
    BY <1>1, <1>2, <2>1
  <2> QED  BY <1>1, <2>1, <2>2 DEF LoneInv, ZipInv
<1>4. ASSUME NEW q \in Procs PROVE OwnFile(q)'
  <2> SUFFICES ASSUME At(q, "gzip")' PROVE OwnFile(q)'
    BY DEF OwnFile
  <2>1. q # p /\ proc'[q] = proc[q] /\ At(q, "gzip") /\ OwnFile(q) /\ proc[q].fd \in Inodes
    BY DEF Zipping, At, LoneInv, ProcInv, Stage, ZipInv
  <2>2. ASSUME NEW n \in DOMAIN dir', dir'[n] = proc[q].fd PROVE n = Zipped \/ file'[dir'[n]].mixed
    <3>1. PICK m \in DOMAIN dir : dir'[n] = dir[m] /\ (m = n \/ m \in {Current, Previous})
      OBVIOUS
    <3>2. m = Zipped \/ file[dir[m]].mixed
      BY <2>1, <2>2, <3>1 DEF OwnFile
    <3>3. m = n
      BY <1>2, <3>1, <3>2, NamesDiffer
    <3> QED  BY <1>1, <3>1, <3>2, <3>3
  <2>3. ASSUME NEW r \in Procs \ {q}, At(r, "gzip")', proc'[r].fd = proc[q].fd
        PROVE  file'[proc[q].fd].mixed
    <3>1. r # p /\ proc'[r] = proc[r]
      BY <2>3 DEF Zipping, At
    <3>2. At(r, "gzip") /\ proc[r].fd = proc[q].fd
      BY <2>3, <3>1 DEF At
    <3>3. file[proc[q].fd].mixed
      BY <2>1, <2>3, <3>2, Zenon DEF OwnFile
    <3> QED  BY <2>1, <3>3
  <2>4. ASSUME NEW r \in Procs, At(r, "publish")', Zipped \in DOMAIN dir', dir'[Zipped] = proc[q].fd
        PROVE  file'[proc[q].fd].mixed
    <3>1. At(r, "publish")
      BY <2>4 DEF At
    <3>2. PICK m \in DOMAIN dir : dir'[Zipped] = dir[m] /\ (m = Zipped \/ m \in {Current, Previous})
      BY <2>4
    <3>3. m = Zipped \/ file[dir[m]].mixed
      BY <2>1, <2>4, <3>2 DEF OwnFile
    <3>4. m = Zipped
      BY <1>2, <3>2, <3>3
    <3> QED  BY <2>1, <2>4, <3>1, <3>2, <3>4 DEF OwnFile
  <2> QED  BY <2>1, <2>2, <2>3, <2>4 DEF OwnFile
<1>5. ASSUME NEW q \in Procs PROVE Awaited(q)'
  <2>1. CASE q # p
    <3>1. ~Logger(q) /\ proc'[q] = proc[q]
      BY <2>1 DEF Only
    <3> QED  BY <3>1 DEF Awaited, At, Logger, Up, Zipping
  <2> QED  BY <2>1
<1> QED  BY <1>3, <1>4, <1>5 DEF ZipInv

\* ... as most of its steps are.
LEMMA ZipSame ==
  ASSUME LoneInv, NEW p \in Procs, Only(p), \A q \in Procs \ {p} : proc'[q] = proc[q],
         ~Zipping(p), proc'[p].pc \notin {"child", "gzip", "publish", "wait"},
         DOMAIN dir' \subseteq DOMAIN dir, \A n \in DOMAIN dir' : dir'[n] = dir[n],
         \A i \in Inodes : file'[i].mixed = file[i].mixed
  PROVE  ZipInv'
<1>1. ~Zipping(p)' /\ ~At(p, "publish")' /\ Awaited(p)'
  BY DEF Zipping, At, Awaited
<1>2. \A n \in DOMAIN dir' :
        \E m \in DOMAIN dir : dir'[n] = dir[m] /\ (m = n \/ m \in {Current, Previous})
  OBVIOUS
<1> QED  BY <1>1, <1>2, ZipStays

\* What a step of process p alone has to keep, and where it does not lead.
LogOf(p) == /\ \A q \in Procs \ {p} : proc'[q] = proc[q]
            /\ ProcInv(p)' /\ DirInv'
            /\ proc'[p].pc \notin {"child", "gzip", "publish", "wait"}

LEMMA SetOthers ==
  ASSUME TypeOK, NEW p \in Procs, NEW r, Set(p, r)
  PROVE  proc'[p] = r /\ \A q \in Procs \ {p} : proc'[q] = proc[q]
BY DEF Set, TypeOK

LEMMA GotoFields ==
  ASSUME TypeOK, NEW p \in Procs, NEW label, Goto(p, label)
  PROVE  /\ \A q \in Procs \ {p} : proc'[q] = proc[q]
         /\ proc'[p].pc = label /\ proc'[p].opt = proc[p].opt /\ proc'[p].init = proc[p].init
         /\ proc'[p].fd = proc[p].fd /\ proc'[p].size = proc[p].size /\ proc'[p].line = proc[p].line
         /\ proc'[p].log = proc[p].log /\ proc'[p].ext = proc[p].ext /\ proc'[p].fn = proc[p].fn
         /\ proc'[p].kid = proc[p].kid
<1>1. proc[p] \in Process
  BY DEF TypeOK
<1>2. proc'[p] = [proc[p] EXCEPT !.pc = label] /\ \A q \in Procs \ {p} : proc'[q] = proc[q]
  BY SetOthers DEF Goto
<1> QED  BY <1>1, <1>2 DEF Process

LEMMA LoneStart ==
  ASSUME LoneInv, NEW p \in Procs, Start(p)
  PROVE  LogOf(p)
<1>1. PICK o \in script : Set(p, [Off EXCEPT !.pc = "init", !.init = TRUE, !.opt = o])
  BY DEF Start
<1>2. /\ proc'[p].pc = "init" /\ proc'[p].init /\ proc'[p].opt = o
      /\ proc'[p].fd = None /\ proc'[p].line = <<>> /\ proc'[p].kid = None
      /\ proc'[p].fn.kind = "archive"
      /\ \A q \in Procs \ {p} : proc'[q] = proc[q]
  <2>1. /\ proc'[p] = [Off EXCEPT !.pc = "init", !.init = TRUE, !.opt = o]
        /\ \A q \in Procs \ {p} : proc'[q] = proc[q]
    BY <1>1, SetOthers DEF LoneInv
  <2> QED  BY <2>1 DEF Off, Template, Archive, Name
<1>3. script' = script /\ file' = file /\ dir' = dir
  BY DEF Start, disk
<1>4. ProcInv(p)'
  BY <1>2, <1>3 DEF ProcInv, Stage, OpenLog, ClosedLog, Text, Opened, Keeping, Archiving, Rotating, At, Up, Zipping
<1> QED  BY <1>2, <1>3, <1>4, DirStays DEF LoneInv, LogOf

LEMMA LoneInitCurrent ==
  ASSUME LoneInv, NEW p \in Procs, InitCurrent(p)
  PROVE  LogOf(p)
<1> DEFINE there == Current \in DOMAIN dir
           clean == there /\ file[dir[Current]].exec
           resumed == clean /\ proc[p].opt.resume
<1>1. proc[p] \in Process
  BY DEF LoneInv, TypeOK
<1>2. /\ proc'[p] = [proc[p] EXCEPT !.pc = IF there /\ ~resumed THEN "keep" ELSE "open",
                               !.log = Current,
                               !.ext = IF clean THEN "s" ELSE "u",
                               !.size = IF resumed THEN ResumedSize(file[dir[Current]]) ELSE 0]
      /\ \A q \in Procs \ {p} : proc'[q] = proc[q]
  <2>1. Set(p, [proc[p] EXCEPT !.pc = IF there /\ ~resumed THEN "keep" ELSE "open",
                               !.log = Current,
                               !.ext = IF clean THEN "s" ELSE "u",
                               !.size = IF resumed THEN ResumedSize(file[dir[Current]]) ELSE 0])
    BY DEF InitCurrent
  <2> QED  BY <2>1, SetOthers DEF LoneInv
<1>3. /\ proc'[p].pc = (IF there /\ ~resumed THEN "keep" ELSE "open")
      /\ proc'[p].log = Current /\ proc'[p].ext = (IF clean THEN "s" ELSE "u")
      /\ proc'[p].size = (IF resumed THEN Len(file[dir[Current]].data) ELSE 0)
      /\ proc'[p].opt = proc[p].opt /\ proc'[p].init = proc[p].init
      /\ proc'[p].fd = proc[p].fd /\ proc'[p].line = proc[p].line /\ proc'[p].kid = proc[p].kid /\ proc'[p].fn = proc[p].fn
  BY <1>1, <1>2 DEF Process, ResumedSize
<1>4. script' = script /\ file' = file /\ dir' = dir /\ At(p, "init")
  BY DEF InitCurrent, disk
<1>5. proc[p].init /\ ProcInv(p) /\ proc[p].fd = None
  BY <1>4 DEF LoneInv, ProcInv, Stage, Opened, At
<1>6. ProcInv(p)'
  BY <1>3, <1>4, <1>5
     DEF ProcInv, Stage, OpenLog, ClosedLog, Text, Opened, Keeping, Archiving, Rotating, At, Up, Zipping
<1> QED  BY <1>2, <1>4, <1>6, DirStays DEF LoneInv, LogOf

LEMMA LoneKeepStat ==
  ASSUME LoneInv, NEW p \in Procs, KeepStat(p)
  PROVE  LogOf(p)
<1>1. PICK label \in {"open", "link", "unlink"} :
        /\ Goto(p, label)
        /\ label = "open" => proc[p].log \notin DOMAIN dir
        /\ label # "open" => proc[p].log \in DOMAIN dir
  BY DEF KeepStat
<1>2. script' = script /\ file' = file /\ dir' = dir /\ At(p, "keep") /\ ProcInv(p)
  BY DEF KeepStat, disk, LoneInv
<1>3. ProcInv(p)'
  BY <1>1, <1>2, GotoFields
     DEF LoneInv, ProcInv, Stage, OpenLog, ClosedLog, Text, Opened, Keeping, Archiving, Rotating, At, Up, Zipping
<1> QED  BY <1>1, <1>2, <1>3, GotoFields, DirStays DEF LoneInv, LogOf

LEMMA LoneKeepUnlink ==
  ASSUME LoneInv, NEW p \in Procs, KeepUnlink(p)
  PROVE  LogOf(p)
<1>1. PICK label \in {"fork", "prune"} : Goto(p, label)
  BY DEF KeepUnlink
<1>2. script' = script /\ file' = file /\ dir' = Dir_without(proc[p].log) /\ At(p, "unlink") /\ ProcInv(p)
  BY DEF KeepUnlink, LoneInv
<1>3. DOMAIN dir' = DOMAIN dir \ {proc[p].log}
  BY <1>2 DEF Dir_without
<1>4. Current \notin DOMAIN dir'
  BY <1>2, <1>3 DEF ProcInv, Stage, ClosedLog, Keeping, At
<1>5. ProcInv(p)'
  BY <1>1, <1>2, <1>4, GotoFields
     DEF LoneInv, ProcInv, Stage, OpenLog, ClosedLog, Text, Opened, Keeping, Archiving, Rotating, At, Up, Zipping
<1>6. DirInv'
  BY <1>2, DirStays, Zenon DEF LoneInv
<1> QED  BY <1>1, <1>5, <1>6, GotoFields DEF LoneInv, LogOf

LEMMA LoneKeepLink ==
  ASSUME LoneInv, NEW p \in Procs, KeepLink(p)
  PROVE  LogOf(p)
<1> DEFINE name(t) == Archive(t, proc[p].ext)
           i == dir[proc[p].log]
<1>1. PICK t \in Stamps(p) :
        \/ dir' = dir /\ Set(p, [proc[p] EXCEPT !.fn = name(t)])
        \/ /\ dir' = Dir_with(name(t), i)
           /\ Set(p, [proc[p] EXCEPT !.fn = name(t), !.pc = "unlink"])
  BY DEF KeepLink
<1>2. /\ proc[p] \in Process /\ script' = script /\ file' = file /\ At(p, "link")
      /\ proc[p].log \in DOMAIN dir /\ ProcInv(p)
  BY DEF LoneInv, TypeOK, KeepLink
<1>3. /\ \A q \in Procs \ {p} : proc'[q] = proc[q]
      /\ proc'[p].pc \in {"link", "unlink"}
      /\ proc'[p].opt = proc[p].opt /\ proc'[p].init = proc[p].init
      /\ proc'[p].fd = proc[p].fd /\ proc'[p].size = proc[p].size /\ proc'[p].line = proc[p].line
      /\ proc'[p].log = proc[p].log /\ proc'[p].ext = proc[p].ext /\ proc'[p].kid = proc[p].kid
      /\ proc'[p].fn.kind = "archive"
  <2>1. /\ \A q \in Procs \ {p} : proc'[q] = proc[q]
        /\ \/ proc'[p] = [proc[p] EXCEPT !.fn = name(t)]
           \/ proc'[p] = [proc[p] EXCEPT !.fn = name(t), !.pc = "unlink"]
    BY <1>1, SetOthers DEF LoneInv
  <2>2. name(t).kind = "archive"
    BY DEF Archive, Name
  <2> HIDE DEF name
  <2> QED  BY <1>2, <2>1, <2>2 DEF Process, At
<1>4. name(t) \notin {Current, Previous, Zipped} /\ name(t).ext = proc[p].ext
  BY NamesDiffer
<1> HIDE DEF name
<1>5. /\ DOMAIN dir \subseteq DOMAIN dir' /\ DOMAIN dir' \subseteq DOMAIN dir \cup {name(t)}
      /\ \A n \in DOMAIN dir' : \/ n \in DOMAIN dir /\ dir'[n] = dir[n]
                                \/ n = name(t) /\ dir'[n] = i
  <2>1. CASE dir' = dir
    BY <2>1
  <2>2. CASE dir' = Dir_with(name(t), i)
    BY <2>2 DEF Dir_with
  <2> QED  BY <1>1, <2>1, <2>2
<1>6. /\ Current \in DOMAIN dir' <=> Current \in DOMAIN dir
      /\ Current \in DOMAIN dir => dir'[Current] = dir[Current]
      /\ Previous \in DOMAIN dir' => Previous \in DOMAIN dir /\ dir'[Previous] = dir[Previous]
      /\ Zipped \in DOMAIN dir' => Zipped \in DOMAIN dir /\ dir'[Zipped] = dir[Zipped]
  BY <1>4, <1>5
<1>7. ProcInv(p)'
  BY <1>2, <1>3, <1>6
     DEF LoneInv, ProcInv, Stage, OpenLog, ClosedLog, Text, Opened, Keeping, Archiving, Rotating, At, Up, Zipping
<1>8. proc[p].log = (IF proc[p].init THEN Current ELSE Previous)
  BY <1>2 DEF ProcInv, Stage, Keeping, At
<1>9. Links'
  <2>1. Zipped \in DOMAIN dir' => \A n \in DOMAIN dir' : dir'[n] = dir'[Zipped] => n = Zipped
    <3>1. Zipped \in DOMAIN dir => i # dir[Zipped]
      BY <1>2, <1>8, NamesDiffer DEF LoneInv, DirInv, Links
    <3> QED  BY <1>5, <1>6, <3>1 DEF LoneInv, DirInv, Links
  <2>2. SameResume /\ Previous \in DOMAIN dir' => Whole(file[dir'[Previous]])
    BY <1>6 DEF LoneInv, DirInv, Links
  <2>3. ASSUME SameResume, Current \in DOMAIN dir', file[dir'[Current]].exec, \E o \in script : o.resume
        PROVE  FALSE
    <3>1. Current \in DOMAIN dir /\ file[dir[Current]].exec
      BY <2>3, <1>6
    <3>2. proc[p].init /\ ~proc[p].opt.resume /\ proc[p].opt \in script
      BY <3>1, <1>2 DEF ProcInv, Stage, ClosedLog, Keeping, At, Up
    <3>3. \A o \in script : o.resume = proc[p].opt.resume
      BY <2>3, <3>2 DEF LoneInv, TypeOK, SameResume
    <3> QED  BY <2>3, <3>2, <3>3
  <2> QED  BY <1>2, <2>1, <2>2, <2>3 DEF Links, Whole
<1>10. Bounded'
  BY <1>2, <1>6 DEF LoneInv, DirInv, Bounded
<1>11. CleanIsWhole'
  <2>1. SameResume /\ proc[p].ext = "s" => Whole(file[i])
    <3>1. CASE proc[p].init
      <4>1. ~file[i].mixed /\ (proc[p].ext = "s" => file[i].exec)
        BY <1>2, <1>8, <3>1, NotMixed DEF ProcInv, ClosedLog, Keeping, At
      <4> QED  BY <1>2, <1>8, <3>1, <4>1 DEF LoneInv, DirInv, CleanIsWhole
    <3>2. CASE ~proc[p].init
      BY <1>2, <1>8, <3>2 DEF LoneInv, DirInv, Links
    <3> QED  BY <3>1, <3>2
  <2> SUFFICES ASSUME SameResume, NEW n \in DOMAIN dir',
                      n.ext = "s" \/ (n = Current /\ file[dir'[n]].exec), ~file[dir'[n]].mixed
               PROVE  Whole(file[dir'[n]])
    BY <1>2 DEF CleanIsWhole, Whole
  <2>2. CASE n \in DOMAIN dir /\ dir'[n] = dir[n]
    BY <2>2 DEF LoneInv, DirInv, CleanIsWhole, Whole
  <2>3. CASE n = name(t) /\ dir'[n] = i
    BY <2>3, <2>1, <1>4
  <2> QED  BY <2>2, <2>3, <1>5
<1> QED  BY <1>3, <1>7, <1>9, <1>10, <1>11 DEF LogOf, DirInv

LEMMA Forked ==
  ASSUME TypeOK, NEW p \in Procs, ForkGzip(p)
  PROVE  /\ Pid \in Procs \ {p} /\ ~Up(Pid)
         /\ proc'[p] = [proc[p] EXCEPT !.pc = "wait", !.kid = Pid]
         /\ proc'[Pid] = [proc[p] EXCEPT !.pc = "child"]
         /\ \A q \in Procs \ {p, Pid} : proc'[q] = proc[q]
<1>1. Pid \in Procs \ {p} /\ ~Up(Pid)
  BY PidTyped DEF ForkGzip, At, Up
<1>2. proc' = [proc EXCEPT ![p] = [proc[p] EXCEPT !.pc = "wait", !.kid = Pid],
                           ![Pid] = [proc[p] EXCEPT !.pc = "child"]]
  BY DEF ForkGzip
<1> HIDE DEF Pid
<1>3. DOMAIN proc = Procs
  BY DEF TypeOK
<1> QED  BY <1>1, <1>2, <1>3

LEMMA LoneForkGzip ==
  ASSUME LoneInv, Alone, TypeOK', NEW p \in Procs, ForkGzip(p)
  PROVE  LoneInv'
<1>1. /\ dir' = dir /\ file' = file /\ script' = script /\ main' = main /\ At(p, "fork")
      /\ ProcInv(p) /\ proc[p] \in Process
  BY DEF ForkGzip, disk, LoneInv, TypeOK
<1>2. p = main /\ Only(p)
  BY <1>1, OnlyOne DEF Alone, Logger, Up, Zipping, At
<1> DEFINE a(k) == [proc[p] EXCEPT !.pc = "wait", !.kid = k]
           b == [proc[p] EXCEPT !.pc = "child"]
<1>14. PICK k \in Procs :
         /\ k # p /\ ~Up(k) /\ proc'[p] = a(k) /\ proc'[k] = b
         /\ \A q \in Procs : q # p /\ q # k => proc'[q] = proc[q]
  <2>1. /\ Pid \in Procs \ {p} /\ ~Up(Pid) /\ proc'[p] = a(Pid) /\ proc'[Pid] = b
        /\ \A q \in Procs \ {p, Pid} : proc'[q] = proc[q]
    BY Forked DEF LoneInv
  <2> HIDE DEF a, b
  <2> QED  BY <2>1
<1>3. k \in Procs /\ k # p /\ \A q \in Procs : q # p /\ q # k => proc'[q] = proc[q]
  BY <1>14, Zenon
<1>4. /\ proc'[p].pc = "wait" /\ proc'[p].kid = k
      /\ proc'[p].opt = proc[p].opt /\ proc'[p].init = proc[p].init /\ proc'[p].fd = proc[p].fd
      /\ proc'[p].size = proc[p].size /\ proc'[p].line = proc[p].line /\ proc'[p].fn = proc[p].fn
      /\ proc'[p].log = proc[p].log /\ proc'[p].ext = proc[p].ext
  <2>1. proc'[p] = [proc[p] EXCEPT !.pc = "wait", !.kid = k]
    BY <1>14, Zenon DEF a
  <2> QED  BY <1>1, <2>1 DEF Process
<1>5. /\ proc'[k].pc = "child" /\ proc'[k].kid = proc[p].kid
      /\ proc'[k].opt = proc[p].opt /\ proc'[k].init = proc[p].init /\ proc'[k].fd = proc[p].fd
      /\ proc'[k].line = proc[p].line /\ proc'[k].fn = proc[p].fn
  <2>1. proc'[k] = [proc[p] EXCEPT !.pc = "child"]
    BY <1>14, Zenon DEF b
  <2> QED  BY <1>1, <2>1 DEF Process
<1> HIDE DEF a, b
<1>6. ProcInv(p)'
  BY <1>1, <1>4
     DEF ProcInv, Stage, OpenLog, ClosedLog, Text, Opened, Keeping, Archiving, Rotating, At, Up, Zipping
<1>7. ProcInv(k)'
  <2>1. Stage(k)'
    BY <1>1, <1>2, <1>3, <1>5 DEF ProcInv, Stage, Opened, Keeping, At, Up, Zipping
  <2> QED  BY <1>3, <1>5, <2>1, QuietInv DEF Logger, Zipping
<1>8. ASSUME NEW q \in Procs, q # p, q # k PROVE ProcInv(q)' /\ ~Logger(q)'
  <2>1. ~Logger(q)' /\ Stage(q)
    BY <1>2, <1>3, <1>8 DEF Only, Logger, Up, Zipping, LoneInv, ProcInv
  <2>2. Stage(q)'
    BY <1>1, <1>3, <1>8, <2>1 DEF Stage, Opened, Keeping, At, Up, Zipping
  <2> QED  BY <2>1, <2>2, QuietInv
<1>9. DirInv'
  BY <1>1, DirStays DEF LoneInv
<1>10. \A q \in Procs : At(q, "gzip")' \/ At(q, "publish")' => proc'[q] = proc[q]
  BY <1>3, <1>4, <1>5 DEF At
<1>11. ASSUME NEW q \in Procs PROVE OwnFile(q)'
  <2>1. OwnFile(q)
    BY DEF LoneInv, ZipInv
  <2> QED  BY <1>1, <1>10, <2>1 DEF OwnFile, At
<1>12. ASSUME NEW q \in Procs PROVE Awaited(q)'
  <2>1. Awaited(p)'
    BY <1>3, <1>4, <1>5 DEF Awaited, Zipping, At
  <2>2. q # p => ~At(q, "wait")'
    BY <1>5, <1>8 DEF At, Logger, Up, Zipping
  <2> QED  BY <2>1, <2>2 DEF Awaited
<1>13. ZipInv'
  BY <1>1, <1>11, <1>12 DEF LoneInv, ZipInv
<1> QED  BY <1>6, <1>7, <1>8, <1>9, <1>13 DEF LoneInv

LEMMA LoneExecGzip ==
  ASSUME LoneInv, TypeOK', NEW q \in Procs, ExecGzip(q)
  PROVE  LoneInv'
<1> DEFINE i == IF Zipped \in DOMAIN dir THEN dir[Zipped] ELSE New
           text == file[dir[proc[q].fn]].data
<1>1. /\ dir' = Dir_with(Zipped, i)
      /\ file' = [file EXCEPT ![i] = [data |-> <<>>, exec |-> FALSE, mixed |-> Shared(i)]]
      /\ script' = script /\ main' = main /\ At(q, "child") /\ ProcInv(q) /\ proc[q] \in Process
      /\ proc[q].fn \in DOMAIN dir
  BY DEF ExecGzip, LoneInv, TypeOK
<1>2. /\ \A p \in Procs \ {q} : proc'[p] = proc[p]
      /\ proc'[q].pc = "gzip" /\ proc'[q].fd = i /\ proc'[q].rest = text /\ proc'[q].kid = proc[q].kid
      /\ proc'[q].opt = proc[q].opt /\ proc'[q].init = proc[q].init /\ proc'[q].line = proc[q].line
      /\ proc'[q].fn = proc[q].fn
  <2>1. /\ proc'[q] = [proc[q] EXCEPT !.pc = "gzip", !.in = "file", !.rest = text, !.fd = i]
        /\ \A p \in Procs \ {q} : proc'[p] = proc[p]
    BY SetOthers DEF ExecGzip, LoneInv
  <2> HIDE DEF i, text
  <2> QED  BY <1>1, <2>1 DEF Process
<1>3. i \in Inodes /\ \A n \in DOMAIN dir : dir[n] = i => n = Zipped
  BY NewTyped DEF ExecGzip, LoneInv, TypeOK, DirInv, Links, Free
<1>4. Zipped \in DOMAIN dir => i = dir[Zipped]
  OBVIOUS
<1>5. \A p \in Procs : Opened(p) => proc[p].fd # i
  <2> SUFFICES ASSUME NEW p \in Procs, Opened(p) PROVE proc[p].fd # i
    OBVIOUS
  <2>1. Current \in DOMAIN dir /\ dir[Current] = proc[p].fd
    BY DEF LoneInv, ProcInv, OpenLog
  <2> QED  BY <1>3, <2>1, NamesDiffer
<1> HIDE DEF i
<1>6. /\ DOMAIN dir' = DOMAIN dir \cup {Zipped} /\ dir'[Zipped] = i
      /\ \A n \in DOMAIN dir' \ {Zipped} : n \in DOMAIN dir /\ dir'[n] = dir[n]
  BY <1>1 DEF Dir_with
<1>7. /\ file'[i].mixed = Shared(i)
      /\ \A j \in Inodes \ {i} : file'[j] = file[j]
      /\ ~file'[i].exec
  BY <1>1, <1>3 DEF LoneInv, TypeOK
<1>8. \A n \in DOMAIN dir' \ {Zipped} : dir'[n] # i /\ file'[dir'[n]] = file[dir[n]]
  BY <1>3, <1>6, <1>7 DEF LoneInv, TypeOK
<1>9. /\ Current \in DOMAIN dir' <=> Current \in DOMAIN dir
      /\ Current \in DOMAIN dir => dir'[Current] = dir[Current] /\ file'[dir[Current]] = file[dir[Current]]
  BY <1>6, <1>8, NamesDiffer
<1>10. ASSUME NEW p \in Procs \ {q} PROVE ProcInv(p)'
  <2>1. ProcInv(p) /\ proc'[p] = proc[p]
    BY <1>2 DEF LoneInv
  <2>2. Stage(p)'
    BY <1>1, <2>1 DEF ProcInv, Stage, Opened, Keeping, At, Up, Zipping
  <2>3. Opened(p) => file'[proc[p].fd] = file[proc[p].fd]
    BY <1>9, <2>1 DEF ProcInv, OpenLog
  <2>4. OpenLog(p)'
    <3> SUFFICES ASSUME Opened(p) PROVE OpenLog(p)'
      BY <2>1 DEF OpenLog, Opened
    <3>1. proc[p].fd # i
      BY <1>5
    <3> QED  BY <1>6, <1>9, <2>1, <2>3, <3>1 DEF ProcInv, OpenLog
  <2>5. ClosedLog(p)'
    BY <1>1, <1>9, <2>1 DEF ProcInv, ClosedLog, Archiving, Keeping, At, Whole
  <2>6. At(p, "publish") => file'[dir'[Zipped]].mixed
    BY <1>6, <1>7 DEF Shared
  <2>7. Text(p)'
    BY <2>1, <2>3, <2>6 DEF ProcInv, Text, Archiving, Keeping, Rotating, Opened, At, Whole
  <2> QED  BY <2>2, <2>4, <2>5, <2>7 DEF ProcInv
<1>11. ProcInv(q)'
  <2>1. Stage(q)'
    BY <1>1, <1>2, <1>3 DEF ProcInv, Stage, Opened, Keeping, At, Up, Zipping
  <2> QED  BY <1>2, <2>1, QuietInv DEF Logger, Zipping
<1>12. DirInv'
  <2>1. \A n \in DOMAIN dir' : dir'[n] = dir'[Zipped] => n = Zipped
    BY <1>6, <1>8
  <2>2. SameResume /\ Previous \in DOMAIN dir' => Whole(file'[dir'[Previous]])
    BY <1>6, <1>8, NamesDiffer DEF LoneInv, DirInv, Links, Whole
  <2>3. SameResume /\ Current \in DOMAIN dir' /\ file'[dir'[Current]].exec /\ (\E o \in script : o.resume) =>
          \A n \in DOMAIN dir' : dir'[n] = dir'[Current] => n = Current
    BY <1>6, <1>8, <1>9, NamesDiffer DEF LoneInv, DirInv, Links
  <2>4. Links'
    BY <1>1, <2>1, <2>2, <2>3 DEF Links, Whole
  <2>5. Bounded'
    BY <1>1, <1>9 DEF LoneInv, DirInv, Bounded
  <2>6. CleanIsWhole'
    <3> SUFFICES ASSUME SameResume, NEW n \in DOMAIN dir', ~file'[dir'[n]].mixed,
                        n.ext = "s" \/ (n = Current /\ file'[dir'[n]].exec)
                 PROVE  Whole(file'[dir'[n]])
      BY DEF CleanIsWhole, Whole
    <3>1. n # Zipped
      BY NamesDiffer
    <3> QED  BY <3>1, <1>6, <1>8 DEF LoneInv, DirInv, CleanIsWhole, Whole
  <2> QED  BY <2>4, <2>5, <2>6 DEF DirInv
<1>13. \A n \in DOMAIN dir' : file'[dir'[n]].mixed => n = Zipped \/ n.kind = "gz"
  BY <1>6, <1>8 DEF LoneInv, ZipInv
<1>14. ASSUME NEW r \in Procs, At(r, "gzip")' PROVE OwnFile(r)'
  <2>1. r # q => proc'[r] = proc[r] /\ At(r, "gzip") /\ OwnFile(r) /\ proc[r].fd \in Inodes
    BY <1>2, <1>14 DEF At, LoneInv, ProcInv, Stage, ZipInv
  <2>2. (r # q /\ proc[r].fd = i) \/ (\E p \in Procs \ {q} : At(p, "publish")) => Shared(i)
    BY <2>1 DEF Shared
  <2>3. ASSUME NEW n \in DOMAIN dir', dir'[n] = proc'[r].fd PROVE n = Zipped \/ file'[dir'[n]].mixed
    <3>1. CASE r = q
      BY <1>2, <1>8, <2>3, <3>1
    <3>2. CASE r # q
      <4> SUFFICES ASSUME n # Zipped PROVE file'[dir'[n]].mixed
        OBVIOUS
      <4>1. n \in DOMAIN dir /\ dir[n] = proc[r].fd /\ file'[dir'[n]] = file[dir[n]]
        BY <1>6, <1>8, <2>1, <2>3, <3>2
      <4> QED  BY <2>1, <3>2, <4>1 DEF OwnFile
    <3> QED  BY <3>1, <3>2
  <2>4. ASSUME NEW p \in Procs \ {r}, At(p, "gzip")', proc'[p].fd = proc'[r].fd
        PROVE  file'[proc'[r].fd].mixed
    <3>1. p # q => proc'[p] = proc[p] /\ At(p, "gzip")
      BY <1>2, <2>4 DEF At
    <3>2. CASE proc'[r].fd = i
      <4>1. r # q \/ p # q
        BY <2>4
      <4>2. Shared(i)
        BY <2>1, <2>4, <3>1, <3>2, <4>1 DEF Shared
      <4> QED  BY <1>7, <3>2, <4>2
    <3>3. CASE proc'[r].fd # i
      <4>1. r # q /\ p # q
        BY <1>2, <2>4, <3>3
      <4>2. file[proc[r].fd].mixed
        BY <2>1, <2>4, <3>1, <4>1, Zenon DEF OwnFile
      <4> QED  BY <1>7, <2>1, <3>3, <4>1, <4>2
    <3> QED  BY <3>2, <3>3
  <2>5. ASSUME NEW p \in Procs, At(p, "publish")', dir'[Zipped] = proc'[r].fd
        PROVE  file'[proc'[r].fd].mixed
    <3>1. At(p, "publish")
      BY <1>2, <2>5 DEF At
    <3> QED  BY <1>6, <1>7, <2>5, <3>1 DEF Shared
  <2> QED  BY <2>3, <2>4, <2>5 DEF OwnFile
<1>15. ASSUME NEW p \in Procs PROVE Awaited(p)'
  <2> SUFFICES ASSUME At(p, "wait")', proc'[p].kid # None PROVE Awaited(p)'
    BY DEF Awaited
  <2> DEFINE k == proc[p].kid
  <2>1. p # q /\ proc'[p] = proc[p] /\ At(p, "wait") /\ k # None /\ Awaited(p)
    BY <1>2 DEF At, LoneInv, ZipInv
  <2>2. Zipping(k) /\ proc[k].fn = proc[p].fn /\ k \in Procs
    BY <2>1 DEF Awaited, LoneInv, TypeOK, Process
  <2>3. proc[p].fn \in DOMAIN dir => proc[p].fn \in DOMAIN dir'
                                     /\ file'[dir'[proc[p].fn]] = file[dir[proc[p].fn]]
    <3>1. proc[p].fn.kind = "archive"
      BY DEF LoneInv, ProcInv, Stage
    <3>2. proc[p].fn # Zipped
      BY <3>1, KindsDiffer
    <3> QED  BY <1>6, <1>8, <3>2
  <2>4. CASE k = q
    BY <1>1, <1>2, <1>6, <2>1, <2>2, <2>3, <2>4 DEF Awaited, Zipping, At
  <2>5. CASE k # q
    <3>1. proc'[k] = proc[k]
      BY <1>2, <2>2, <2>5
    <3> QED  BY <1>4, <1>6, <2>1, <2>2, <2>3, <3>1 DEF Awaited, Zipping, At
  <2> QED  BY <2>4, <2>5
<1>16. ZipInv'
  BY <1>13, <1>14, <1>15 DEF ZipInv, OwnFile
<1> QED  BY <1>10, <1>11, <1>12, <1>16 DEF LoneInv

\* The end of a gzip, for its parent or for nobody.
GzipOver(p, pc) ==
  /\ proc'[p].pc = pc /\ proc'[p].kid = None
  /\ proc'[p].opt = proc[p].opt /\ proc'[p].init = proc[p].init /\ proc'[p].fd = proc[p].fd
  /\ proc'[p].size = proc[p].size /\ proc'[p].line = proc[p].line /\ proc'[p].fn = proc[p].fn
  /\ proc'[p].flagrotate = proc[p].flagrotate /\ proc'[p].in = proc[p].in /\ proc'[p].buf = proc[p].buf

LEMMA GzipEnds ==
  ASSUME LoneInv, NEW q \in Procs, Gzip(q)
  PROVE  \E ok \in BOOLEAN : \E text, pc :
           /\ text \in Outcomes(q, ok) /\ pc = IF ok THEN "publish" ELSE "unzip"
           /\ file' = [file EXCEPT ![proc[q].fd].data = text]
           /\ proc'[q] = Off /\ main' = main /\ q # main
           /\ \A p \in Procs \ {q} : /\ proc[p].kid # q => proc'[p] = proc[p]
                                     /\ proc[p].kid = q => GzipOver(p, pc)
<1>1. PICK ok \in BOOLEAN :
        /\ \E text \in Outcomes(q, ok) : file' = [file EXCEPT ![proc[q].fd].data = text]
        /\ Ends(q, ok)
  BY DEF Gzip
<1>2. q # main
  BY DEF Gzip, LoneInv, ProcInv, Stage, Zipping, At
<1> DEFINE pc == IF ok THEN "publish" ELSE "unzip"
<1>3. main' = main /\ proc' = [p \in Procs |->
        IF p = q THEN Off
        ELSE IF proc[p].kid = q THEN [proc[p] EXCEPT !.kid = None, !.pc = pc]
        ELSE proc[p]]
  BY <1>1, <1>2 DEF Ends
<1> HIDE DEF pc
<1>4. proc'[q] = Off
  BY <1>3
<1>5. ASSUME NEW p \in Procs \ {q} PROVE /\ proc[p].kid # q => proc'[p] = proc[p]
                                         /\ proc[p].kid = q => GzipOver(p, pc)
  <2>1. proc[p].kid # q => proc'[p] = proc[p]
    BY <1>3
  <2>2. ASSUME proc[p].kid = q PROVE GzipOver(p, pc)
    <3>1. proc'[p] = [proc[p] EXCEPT !.kid = None, !.pc = pc]
      BY <1>3, <2>2
    <3>2. proc[p] \in Process
      BY DEF LoneInv, TypeOK
    <3> QED  BY <3>1, <3>2 DEF GzipOver, Process
  <2> QED  BY <2>1, <2>2
<1>6. pc = IF ok THEN "publish" ELSE "unzip"
  BY DEF pc
<1> QED  BY <1>1, <1>2, <1>3, <1>4, <1>5, <1>6

LEMMA LoneGzip ==
  ASSUME LoneInv, TypeOK', NEW q \in Procs, Gzip(q)
  PROVE  LoneInv'
<1>0. PICK ok \in BOOLEAN : \E text, pc :
        /\ text \in Outcomes(q, ok) /\ pc = IF ok THEN "publish" ELSE "unzip"
        /\ file' = [file EXCEPT ![proc[q].fd].data = text]
        /\ proc'[q] = Off /\ main' = main /\ q # main
        /\ \A p \in Procs \ {q} : /\ proc[p].kid # q => proc'[p] = proc[p]
                                  /\ proc[p].kid = q => GzipOver(p, pc)
  BY GzipEnds
<1>1. PICK text : \E pc :
        /\ text \in Outcomes(q, ok) /\ pc = IF ok THEN "publish" ELSE "unzip"
        /\ file' = [file EXCEPT ![proc[q].fd].data = text]
        /\ proc'[q] = Off /\ main' = main /\ q # main
        /\ \A p \in Procs \ {q} : /\ proc[p].kid # q => proc'[p] = proc[p]
                                  /\ proc[p].kid = q => GzipOver(p, pc)
  BY <1>0
<1>15. PICK pc :
        /\ pc = IF ok THEN "publish" ELSE "unzip"
        /\ \A p \in Procs \ {q} : /\ proc[p].kid # q => proc'[p] = proc[p]
                                  /\ proc[p].kid = q => GzipOver(p, pc)
  BY <1>1
<1>14. pc \in {"publish", "unzip"} /\ (ok <=> pc = "publish")
  BY <1>15
<1>16. Off.pc = "off"
  BY DEF Off
<1> DEFINE i == proc[q].fd
<1>2. dir' = dir /\ script' = script /\ At(q, "gzip") /\ i \in Inodes /\ OwnFile(q)
  BY DEF Gzip, LoneInv, ProcInv, Stage, ZipInv
<1>3. /\ \A j \in Inodes : file'[j].mixed = file[j].mixed /\ file'[j].exec = file[j].exec
      /\ \A j \in Inodes \ {i} : file'[j] = file[j]
      /\ file'[i].data = text
  BY <1>1, <1>2 DEF LoneInv, TypeOK
<1>4. \A n \in DOMAIN dir : n \in {Current, Previous} \/ n.kind = "archive" => file'[dir[n]] = file[dir[n]]
  <2>1. \A n \in DOMAIN dir : n \in {Current, Previous} \/ n.kind = "archive" => dir[n] # i
    BY <1>2, NotMixed
  <2> QED  BY <1>3, <2>1 DEF LoneInv, TypeOK
<1>5. ASSUME NEW p \in Procs \ {q}, proc[p].kid # q PROVE ProcInv(p)'
  <2>1. ProcInv(p) /\ proc'[p] = proc[p]
    BY <1>5, <1>15 DEF LoneInv
  <2>2. Stage(p)'
    BY <1>1, <1>2, <2>1 DEF ProcInv, Stage, Opened, Keeping, At, Up, Zipping
  <2>3. Opened(p) => file'[proc[p].fd] = file[proc[p].fd]
    BY <1>4, <2>1 DEF ProcInv, OpenLog
  <2>4. OpenLog(p)'
    BY <1>2, <2>1, <2>3 DEF ProcInv, OpenLog, Opened
  <2>5. ClosedLog(p)'
    BY <1>2, <1>4, <2>1 DEF ProcInv, ClosedLog, Archiving, Keeping, At, Whole
  <2>6. At(p, "publish") /\ Zipped \in DOMAIN dir => file[dir[Zipped]].mixed \/ dir[Zipped] # i
    BY <1>2 DEF OwnFile
  <2>7. Zipped \in DOMAIN dir => dir[Zipped] \in Inodes
    BY DEF LoneInv, TypeOK
  <2>8. Text(p)'
    BY <1>2, <1>3, <2>1, <2>3, <2>6, <2>7
       DEF ProcInv, Text, Archiving, Keeping, Rotating, Opened, At, Whole
  <2> QED  BY <2>2, <2>4, <2>5, <2>8 DEF ProcInv
<1>6. ASSUME NEW p \in Procs \ {q}, proc[p].kid = q
      PROVE  /\ At(p, "wait") /\ Zipped \in DOMAIN dir /\ dir[Zipped] = i
             /\ proc[p].fn \in DOMAIN dir /\ proc[q].rest = file[dir[proc[p].fn]].data
  <2>1. At(p, "wait")
    BY <1>6, NoneAssumption DEF LoneInv, ProcInv, Stage
  <2>2. Awaited(p)
    BY DEF LoneInv, ZipInv
  <2> QED  BY <1>2, <1>6, <2>1, <2>2, NoneAssumption DEF Awaited
<1>7. ASSUME NEW p \in Procs \ {q}, proc[p].kid = q PROVE ProcInv(p)'
  <2>1. ProcInv(p) /\ At(p, "wait")
    BY <1>6, <1>7 DEF LoneInv
  <2>2. /\ proc'[p].pc \in {"publish", "unzip"} /\ (ok <=> proc'[p].pc = "publish") /\ proc'[p].kid = None
        /\ proc'[p].opt = proc[p].opt /\ proc'[p].init = proc[p].init /\ proc'[p].fd = proc[p].fd
        /\ proc'[p].size = proc[p].size /\ proc'[p].line = proc[p].line /\ proc'[p].fn = proc[p].fn
    BY <1>7, <1>14, <1>15 DEF GzipOver
  <2>3. SameResume /\ ok /\ proc[p].fn.ext = "s" => file'[dir[Zipped]].mixed \/ Whole(file'[dir[Zipped]])
    <3>1. proc[p].fn.kind = "archive"
      BY <2>1 DEF ProcInv, Stage
    <3>2. ~file[dir[proc[p].fn]].mixed
      BY <1>6, <1>7, <3>1, NotMixed
    <3>3. SameResume /\ proc[p].fn.ext = "s" => Whole(file[dir[proc[p].fn]])
      BY <1>6, <1>7, <3>2 DEF LoneInv, DirInv, CleanIsWhole
    <3>4. ok => file[i].mixed \/ text = proc[q].rest
      BY <1>1 DEF Outcomes
    <3> QED  BY <1>2, <1>3, <1>6, <1>7, <3>3, <3>4 DEF Whole
  <2>4. Stage(p)'
    BY <1>1, <1>2, <2>1, <2>2 DEF ProcInv, Stage, Opened, Keeping, At, Up, Zipping
  <2>5. OpenLog(p)' /\ ClosedLog(p)'
    BY <1>2, <2>1, <2>2 DEF ProcInv, OpenLog, ClosedLog, Archiving, Keeping, Opened, At
  <2>6. Text(p)'
    BY <1>2, <2>1, <2>2, <2>3 DEF ProcInv, Text, Archiving, Keeping, Rotating, Opened, At, Whole
  <2> QED  BY <2>4, <2>5, <2>6 DEF ProcInv
<1>8. ProcInv(q)'
  BY <1>1, OffInv
<1>9. DirInv'
  <2>1. Links'
    BY <1>2, <1>4 DEF LoneInv, DirInv, Links, Whole
  <2>2. Bounded'
    BY <1>2, <1>4 DEF LoneInv, DirInv, Bounded
  <2>3. CleanIsWhole'
    <3> SUFFICES ASSUME SameResume, NEW n \in DOMAIN dir, ~file'[dir[n]].mixed,
                        n.ext = "s" \/ (n = Current /\ file'[dir[n]].exec)
                 PROVE  Whole(file'[dir[n]])
      BY <1>2 DEF CleanIsWhole, Whole
    <3>1. dir[n] \in Inodes
      BY DEF LoneInv, TypeOK
    <3>2. n # Zipped
      BY NamesDiffer
    <3>3. dir[n] # i
      BY <1>2, <1>3, <3>1, <3>2 DEF OwnFile
    <3>4. file'[dir[n]] = file[dir[n]]
      BY <1>3, <3>1, <3>3
    <3> QED  BY <3>4 DEF LoneInv, DirInv, CleanIsWhole
  <2> QED  BY <2>1, <2>2, <2>3 DEF DirInv
<1>10. \A n \in DOMAIN dir : file'[dir[n]].mixed = file[dir[n]].mixed
  BY <1>3 DEF LoneInv, TypeOK
<1>11. ASSUME NEW r \in Procs, At(r, "gzip")' PROVE OwnFile(r)'
  <2>1. \A p \in Procs : At(p, "gzip")' => p # q /\ proc[p].kid # q /\ proc'[p] = proc[p]
    <3> SUFFICES ASSUME NEW p \in Procs, At(p, "gzip")' PROVE p # q /\ proc[p].kid # q /\ proc'[p] = proc[p]
      OBVIOUS
    <3>1. p # q
      BY <1>1, <1>16 DEF At
    <3>2. proc[p].kid # q
      BY <1>14, <1>15, <3>1 DEF At, GzipOver
    <3> QED  BY <1>15, <3>1, <3>2
  <2>2. proc'[r] = proc[r] /\ r # q /\ At(r, "gzip") /\ OwnFile(r) /\ proc[r].fd \in Inodes
    BY <1>11, <2>1 DEF At, LoneInv, ZipInv, ProcInv, Stage
  <2>3. file'[proc[r].fd].mixed = file[proc[r].fd].mixed
    BY <1>3, <2>2
  <2>4. \A n \in DOMAIN dir : dir[n] = proc[r].fd => n = Zipped \/ file'[dir[n]].mixed
    BY <1>10, <2>2 DEF OwnFile
  <2>5. ASSUME NEW p \in Procs \ {r}, At(p, "gzip")', proc'[p].fd = proc[r].fd
        PROVE  file'[proc[r].fd].mixed
    <3>1. At(p, "gzip") /\ proc[p].fd = proc[r].fd
      BY <2>1, <2>5 DEF At
    <3> QED  BY <2>2, <2>3, <2>5, <3>1, Zenon DEF OwnFile
  <2>6. ASSUME NEW p \in Procs, At(p, "publish")', Zipped \in DOMAIN dir, dir[Zipped] = proc[r].fd
        PROVE  file'[proc[r].fd].mixed
    <3>1. p # q
      BY <1>1, <1>16, <2>6 DEF At
    <3>2. CASE proc[p].kid # q
      <4>1. At(p, "publish")
        BY <1>15, <2>6, <3>1, <3>2 DEF At
      <4> QED  BY <2>2, <2>3, <2>6, <4>1, Zenon DEF OwnFile
    <3>3. CASE proc[p].kid = q
      <4>1. proc[r].fd = i
        BY <1>6, <2>6, <3>1, <3>3
      <4>2. file[i].mixed
        BY <1>2, <2>2, <4>1, Zenon DEF OwnFile
      <4> QED  BY <2>3, <4>1, <4>2
    <3> QED  BY <3>2, <3>3
  <2> QED  BY <1>2, <2>2, <2>4, <2>5, <2>6 DEF OwnFile
<1>12. ASSUME NEW p \in Procs PROVE Awaited(p)'
  <2> SUFFICES ASSUME At(p, "wait")', proc'[p].kid # None PROVE Awaited(p)'
    BY DEF Awaited
  <2> DEFINE k == proc[p].kid
  <2>1. p # q
    BY <1>1, <1>16 DEF At
  <2>2. k # q
    BY <1>15, <2>1 DEF GzipOver
  <2>3. proc'[p] = proc[p] /\ At(p, "wait") /\ k # None /\ Awaited(p)
    BY <1>15, <2>1, <2>2 DEF At, LoneInv, ZipInv
  <2>4. Zipping(k) /\ proc[k].fn = proc[p].fn /\ k \in Procs
    BY <2>3 DEF Awaited, LoneInv, TypeOK, Process
  <2>5. proc'[k] = proc[k]
    <3>1. proc[k].kid # q
      BY <2>4, NoneAssumption DEF LoneInv, ProcInv, Stage, Zipping, At
    <3> QED  BY <1>15, <2>2, <2>4, <3>1
  <2>6. proc[p].fn \in DOMAIN dir => file'[dir[proc[p].fn]] = file[dir[proc[p].fn]]
    <3>1. proc[p].fn.kind = "archive"
      BY DEF LoneInv, ProcInv, Stage
    <3> QED  BY <1>4, <3>1
  <2> QED  BY <1>2, <2>3, <2>4, <2>5, <2>6 DEF Awaited, Zipping, At
<1>13. ZipInv'
  BY <1>2, <1>10, <1>11, <1>12 DEF LoneInv, ZipInv, OwnFile
<1> QED  BY <1>5, <1>7, <1>8, <1>9, <1>13 DEF LoneInv

LEMMA LonePublish ==
  ASSUME LoneInv, NEW p \in Procs, Publish(p)
  PROVE  LogOf(p)
<1> DEFINE name == Gz(proc[p].fn)
<1>1. /\ file' = file /\ script' = script /\ At(p, "publish") /\ ProcInv(p)
      /\ \/ Zipped \in DOMAIN dir /\ dir' = Dir_renamed(Zipped, name) /\ Goto(p, "zchmod")
         \/ dir' = dir /\ Goto(p, "unzip")
  BY DEF Publish, LoneInv
<1>2. Current \notin DOMAIN dir
  BY <1>1 DEF ProcInv, ClosedLog, Archiving, At
<1>3. CASE dir' = dir /\ Goto(p, "unzip")
  <2>1. ProcInv(p)'
    BY <1>1, <1>2, <1>3, GotoFields
       DEF LoneInv, ProcInv, Stage, OpenLog, ClosedLog, Text, Opened, Keeping, Archiving, Rotating, At, Up, Zipping
  <2> QED  BY <1>1, <1>3, <2>1, GotoFields, DirStays DEF LogOf, LoneInv
<1>4. CASE Zipped \in DOMAIN dir /\ dir' = Dir_renamed(Zipped, name) /\ Goto(p, "zchmod")
  <2>1. name \notin {Current, Previous, Zipped} /\ name.ext = proc[p].fn.ext
    BY NamesDiffer DEF LoneInv, TypeOK, Process
  <2> HIDE DEF name
  <2>2. /\ DOMAIN dir' = (DOMAIN dir \ {Zipped}) \cup {name} /\ dir'[name] = dir[Zipped]
        /\ \A n \in DOMAIN dir' \ {name} : dir'[n] = dir[n] /\ n \in DOMAIN dir
    BY <1>4 DEF Dir_renamed
  <2>3. Current \notin DOMAIN dir' /\ Zipped \notin DOMAIN dir'
    BY <1>2, <2>1, <2>2
  <2>4. SameResume /\ proc[p].fn.ext = "s" => file[dir[Zipped]].mixed \/ Whole(file[dir[Zipped]])
    BY <1>1, <1>4 DEF ProcInv, Text
  <2>5. ProcInv(p)'
    BY <1>1, <1>4, <2>3, GotoFields
       DEF LoneInv, ProcInv, Stage, OpenLog, ClosedLog, Text, Opened, Keeping, Archiving, Rotating, At, Up, Zipping
  <2>6. Links'
    BY <1>1, <2>1, <2>2, <2>3 DEF LoneInv, DirInv, Links, Whole
  <2>7. Bounded'
    BY <2>3 DEF Bounded
  <2>8. CleanIsWhole'
    <3> SUFFICES ASSUME SameResume, NEW n \in DOMAIN dir', n.ext = "s", ~file[dir'[n]].mixed PROVE Whole(file[dir'[n]])
      BY <1>1, <2>3 DEF CleanIsWhole, Whole
    <3>1. CASE n = name
      BY <3>1, <2>1, <2>2, <2>4
    <3>2. CASE n # name
      BY <3>2, <2>2 DEF LoneInv, DirInv, CleanIsWhole, Whole
    <3> QED  BY <3>1, <3>2
  <2> QED  BY <1>4, <2>5, <2>6, <2>7, <2>8, GotoFields DEF LogOf, DirInv, LoneInv
<1> QED  BY <1>1, <1>3, <1>4

\* The steps of tinylog_gzip() and tinylog_prune() that only remove names.
LEMMA LoneRemove ==
  ASSUME LoneInv, NEW p \in Procs, Zchmod(p) \/ Drop(p) \/ Unzip(p) \/ Prune(p)
  PROVE  LogOf(p)
<1>1. /\ file' = file /\ script' = script /\ Archiving(p) /\ ~At(p, "wait") /\ ProcInv(p)
      /\ dir' = dir \/ \E n : dir' = Dir_without(n)
      /\ \/ Goto(p, "drop") \/ Goto(p, "prune") \/ Goto(p, "open")
         \/ Prune(p) /\ proc' = proc
         \/ Ends(p, FALSE)
  BY DEF Zchmod, Drop, Unzip, Prune, LoneInv, Archiving, At
<1>2. Current \notin DOMAIN dir'
  BY <1>1 DEF ProcInv, ClosedLog, Dir_without
<1>3. DirInv'
  BY <1>1, DirStays DEF LoneInv
<1>4. CASE Ends(p, FALSE)
  BY <1>1, <1>3, <1>4, EndsLone DEF LogOf, Archiving, Zipping, At
<1>5. CASE Prune(p) /\ proc' = proc
  <2>1. ProcInv(p)'
    BY <1>1, <1>2, <1>5
       DEF ProcInv, Stage, OpenLog, ClosedLog, Text, Opened, Keeping, Archiving, Rotating, At, Up, Zipping, Prune
  <2> QED  BY <1>3, <1>5, <2>1 DEF LogOf, Prune, At
<1>6. ASSUME NEW label \in {"drop", "prune", "open"}, Goto(p, label) PROVE LogOf(p)
  <2>1. Goto(p, label) /\ TypeOK
    BY <1>6 DEF LoneInv
  <2>2. /\ proc'[p].pc = label /\ proc'[p].opt = proc[p].opt /\ proc'[p].init = proc[p].init
        /\ proc'[p].fd = proc[p].fd /\ proc'[p].size = proc[p].size /\ proc'[p].line = proc[p].line
        /\ proc'[p].kid = proc[p].kid /\ proc'[p].fn = proc[p].fn
    BY <2>1, GotoFields
  <2>3. Stage(p)'
    BY <1>1, <2>2 DEF ProcInv, Stage, Opened, Keeping, Archiving, At, Up, Zipping
  <2>4. OpenLog(p)' /\ ClosedLog(p)'
    BY <1>1, <1>2, <2>2 DEF ProcInv, OpenLog, ClosedLog, Opened, Keeping, Archiving, At
  <2>5. Text(p)'
    BY <1>1, <2>2 DEF ProcInv, Text, Opened, Keeping, Archiving, Rotating, At
  <2>6. ProcInv(p)'
    BY <2>3, <2>4, <2>5 DEF ProcInv
  <2> QED  BY <1>3, <1>6, <2>6, GotoFields DEF LogOf, LoneInv
<1> QED  BY <1>1, <1>4, <1>5, <1>6

LEMMA ScriptMax ==
  ASSUME TypeOK, NEW o \in script
  PROVE  o \in Option /\ o.max \in Nat /\ o.max >= LineMax + 1
BY ScriptsAssumption, LineAssumption DEF TypeOK, Option

LEMMA LoneOpenCurrent ==
  ASSUME LoneInv, NEW p \in Procs, OpenCurrent(p)
  PROVE  /\ LogOf(p)
         /\ ~proc[p].init => file'[proc'[p].fd].data = <<>>
<1> DEFINE i == IF Current \in DOMAIN dir THEN dir[Current] ELSE New
           data == IF Current \in DOMAIN dir THEN file[i].data ELSE <<>>
<1>1. /\ dir' = Dir_with(Current, i)
      /\ file' = [file EXCEPT ![i] = [data |-> data, exec |-> FALSE, mixed |-> FALSE]]
      /\ script' = script /\ At(p, "open") /\ ProcInv(p) /\ proc[p] \in Process
  BY DEF OpenCurrent, OpenMode, LoneInv, TypeOK
<1>2. /\ proc[p].init => Set(p, [proc[p] EXCEPT !.pc = "line", !.fd = i, !.init = FALSE])
      /\ ~proc[p].init => Set(p, [proc[p] EXCEPT !.pc = "write", !.fd = i, !.size = 0, !.flagrotate = FALSE])
  BY DEF OpenCurrent
<1>3. /\ Current \in DOMAIN dir => /\ proc[p].init /\ i = dir[Current] /\ data = file[i].data
                                   /\ file[i].exec /\ proc[p].size = Len(data)
                                   /\ \E o \in script : o.resume
      /\ Current \notin DOMAIN dir => data = <<>> /\ Free(i) /\ (proc[p].init => proc[p].size = 0)
  BY <1>1, NewTyped DEF OpenCurrent, ProcInv, Stage, ClosedLog, At, Up
<1>4. i \in Inodes /\ (SameResume => \A n \in DOMAIN dir : dir[n] = i => n = Current)
  BY <1>3, NewTyped DEF OpenCurrent, LoneInv, TypeOK, DirInv, Links, Free
<1> HIDE DEF i, data
<1>5. /\ DOMAIN dir' = DOMAIN dir \cup {Current} /\ dir'[Current] = i
      /\ \A n \in DOMAIN dir' \ {Current} : dir'[n] = dir[n] /\ n \in DOMAIN dir
  BY <1>1 DEF Dir_with
<1>6. SameResume => \A n \in DOMAIN dir' \ {Current} : dir'[n] # i /\ file'[dir'[n]] = file[dir[n]]
  BY <1>1, <1>4, <1>5 DEF LoneInv, TypeOK
<1>7. file'[i].data = data /\ ~file'[i].exec
  BY <1>1, <1>4 DEF LoneInv, TypeOK
<1>8. /\ proc[p].opt \in script /\ proc[p].opt.max >= LineMax + 1 /\ proc[p].opt.max \in Nat
      /\ proc[p].kid = None /\ LineMax \in Nat
  BY <1>1, ScriptMax, LineAssumption DEF LoneInv, ProcInv, Stage, At, Up
<1>9. Len(<<>>) = 0
  BY EmptySeq
<1>10. SameResume => Whole(file'[i])
  BY <1>3, <1>7, NotMixed DEF LoneInv, DirInv, CleanIsWhole, Whole
<1>11. Links'
  <2>1. Zipped \in DOMAIN dir' => \A n \in DOMAIN dir' : dir'[n] = dir'[Zipped] => n = Zipped
    <3>1. Zipped \in DOMAIN dir => dir[Zipped] # i
      BY <1>3, NamesDiffer DEF LoneInv, DirInv, Links, Free
    <3> QED  BY <1>5, <3>1, NamesDiffer DEF LoneInv, DirInv, Links
  <2>2. SameResume /\ Previous \in DOMAIN dir' => Whole(file'[dir'[Previous]])
    BY <1>5, <1>6, NamesDiffer DEF LoneInv, DirInv, Links, Whole
  <2> QED  BY <1>5, <1>7, <2>1, <2>2 DEF Links, Whole
<1>12. Bounded'
  <2>1. \E o \in script : Len(data) <= o.max
    <3>1. CASE Current \in DOMAIN dir
      BY <1>3, <3>1 DEF LoneInv, DirInv, Bounded
    <3>2. CASE Current \notin DOMAIN dir
      BY <1>3, <1>8, <1>9, <3>2
    <3> QED  BY <3>1, <3>2
  <2> QED  BY <1>1, <1>5, <1>7, <2>1 DEF Bounded
<1>13. CleanIsWhole'
  <2> SUFFICES ASSUME SameResume, NEW n \in DOMAIN dir', n.ext = "s", ~file'[dir'[n]].mixed
               PROVE  Whole(file'[dir'[n]])
    BY <1>5, <1>7 DEF CleanIsWhole, Whole
  <2>1. n # Current
    BY NamesDiffer
  <2> QED  BY <2>1, <1>5, <1>6 DEF LoneInv, DirInv, CleanIsWhole, Whole
<1>14. DirInv'
  BY <1>11, <1>12, <1>13 DEF DirInv
<1>15. CASE proc[p].init
  <2>1. /\ \A q \in Procs \ {p} : proc'[q] = proc[q]
        /\ proc'[p].pc = "line" /\ proc'[p].fd = i /\ ~proc'[p].init
        /\ proc'[p].opt = proc[p].opt /\ proc'[p].size = proc[p].size
        /\ proc'[p].line = proc[p].line /\ proc'[p].kid = proc[p].kid /\ proc'[p].fn = proc[p].fn
    <3>1. /\ proc'[p] = [proc[p] EXCEPT !.pc = "line", !.fd = i, !.init = FALSE]
          /\ \A q \in Procs \ {p} : proc'[q] = proc[q]
      BY <1>2, <1>15, SetOthers DEF LoneInv
    <3> QED  BY <1>1, <3>1 DEF Process
  <2>2. proc[p].line = <<>>
    BY <1>1, <1>15 DEF ProcInv, Stage
  <2>3. Stage(p)'
    BY <1>1, <1>8, <2>1 DEF ProcInv, Stage, Opened, Keeping, At, Up, Zipping
  <2>4. OpenLog(p)'
    <3>1. proc[p].size = Len(data)
      BY <1>3, <1>9, <1>15
    <3> QED  BY <1>5, <1>6, <1>7, <2>1, <3>1 DEF OpenLog
  <2>5. ClosedLog(p)'
    BY <2>1 DEF ClosedLog, Keeping, Archiving, At
  <2>6. Text(p)'
    BY <1>8, <1>9, <1>10, <2>1, <2>2 DEF Text, Keeping, Archiving, Rotating, At, Whole
  <2> QED  BY <1>14, <1>15, <2>1, <2>3, <2>4, <2>5, <2>6 DEF LogOf, ProcInv
<1>16. CASE ~proc[p].init
  <2>1. /\ \A q \in Procs \ {p} : proc'[q] = proc[q]
        /\ proc'[p].pc = "write" /\ proc'[p].fd = i /\ proc'[p].init = proc[p].init
        /\ proc'[p].opt = proc[p].opt /\ proc'[p].size = 0
        /\ proc'[p].line = proc[p].line /\ proc'[p].kid = proc[p].kid /\ proc'[p].fn = proc[p].fn
    <3>1. /\ proc'[p] = [proc[p] EXCEPT !.pc = "write", !.fd = i, !.size = 0, !.flagrotate = FALSE]
          /\ \A q \in Procs \ {p} : proc'[q] = proc[q]
      BY <1>2, <1>16, SetOthers DEF LoneInv
    <3> QED  BY <1>1, <3>1 DEF Process
  <2>2. /\ WholeLine(proc[p].line) /\ Len(proc[p].line) <= LineMax + 1 /\ data = <<>>
        /\ Len(proc[p].line) \in Nat
    BY <1>1, <1>3, <1>16, LenProperties DEF ProcInv, Text, Rotating, Process
  <2>3. Stage(p)'
    BY <1>1, <1>8, <1>16, <2>1 DEF ProcInv, Stage, Opened, Keeping, At, Up, Zipping
  <2>4. OpenLog(p)'
    BY <1>5, <1>6, <1>7, <1>9, <2>1, <2>2 DEF OpenLog
  <2>5. ClosedLog(p)'
    BY <2>1 DEF ClosedLog, Keeping, Archiving, At
  <2>6. Text(p)'
    BY <1>8, <2>1, <2>2 DEF Text, Keeping, Archiving, Rotating, At, Whole, Opened
  <2> QED  BY <1>7, <1>14, <2>1, <2>2, <2>3, <2>4, <2>5, <2>6 DEF LogOf, ProcInv
<1> QED  BY <1>15, <1>16

\* The steps of do_log() between two lines: what they do to their process.
LEMMA LoneReading ==
  ASSUME LoneInv, NEW p \in Procs,
         CollectLine(p) \/ ReadOp(p) \/ EnterRead(p) \/ ReadData(p) \/ ReadEof(p)
  PROVE  LogOf(p)
<1>1. /\ file' = file /\ script' = script /\ dir' = dir /\ ProcInv(p) /\ proc[p] \in Process
      /\ proc[p].pc \in {"line", "read", "enter", "reading"}
  BY DEF CollectLine, ReadOp, EnterRead, ReadData, ReadEof, disk, LoneInv, TypeOK, At
<1> DEFINE same ==
      /\ \A q \in Procs \ {p} : proc'[q] = proc[q]
      /\ proc'[p].pc \in {"line", "read", "enter", "reading", "post", "close"}
      /\ proc'[p].opt = proc[p].opt /\ proc'[p].init = proc[p].init
      /\ proc'[p].fd = proc[p].fd /\ proc'[p].size = proc[p].size /\ proc'[p].kid = proc[p].kid /\ proc'[p].fn = proc[p].fn
      /\ proc'[p].line = proc[p].line \/ Len(proc'[p].line) <= LineMax
<1>2. same
  <2>1. CASE CollectLine(p)
    <3>1. PICK line \in Seq(Nat), buf \in Seq(Nat), pc \in {"line", "read", "post"} :
            Len(line) <= LineMax /\ Set(p, [proc[p] EXCEPT !.line = line, !.buf = buf, !.pc = pc])
      BY <2>1, Collected DEF LoneInv
    <3>2. /\ proc'[p] = [proc[p] EXCEPT !.line = line, !.buf = buf, !.pc = pc]
          /\ \A q \in Procs \ {p} : proc'[q] = proc[q]
      BY <3>1, SetOthers DEF LoneInv
    <3> QED  BY <1>1, <3>1, <3>2 DEF Process
  <2>2. CASE Set(p, AtEof(p))
    <3>1. PICK pc \in {"post", "close"} : AtEof(p) = [proc[p] EXCEPT !.eof = TRUE, !.pc = pc]
      BY AtEofTyped DEF LoneInv
    <3>2. /\ proc'[p] = [proc[p] EXCEPT !.eof = TRUE, !.pc = pc]
          /\ \A q \in Procs \ {p} : proc'[q] = proc[q]
      BY <2>2, <3>1, SetOthers DEF LoneInv
    <3> QED  BY <1>1, <3>2 DEF Process
  <2>3. ASSUME NEW label \in {"enter", "reading"}, Goto(p, label) PROVE same
    BY <2>3, GotoFields DEF LoneInv
  <2>4. CASE ReadData(p)
    <3>1. \E buf, rest : Set(p, [proc[p] EXCEPT !.buf = buf, !.pc = "line", !.rest = rest])
      <4>1. PICK k \in 1 .. InBuf :
              Set(p, [proc[p] EXCEPT !.buf = SubSeq(Stdin(p), 1, k), !.pc = "line",
                        !.rest = IF proc[p].in = "pipe" THEN @
                                 ELSE SubSeq(Stdin(p), k + 1, Len(Stdin(p)))])
        BY <2>4 DEF ReadData
      <4> DEFINE rest == IF proc[p].in = "pipe" THEN proc[p].rest
                         ELSE SubSeq(Stdin(p), k + 1, Len(Stdin(p)))
      <4>2. Set(p, [proc[p] EXCEPT !.buf = SubSeq(Stdin(p), 1, k), !.pc = "line", !.rest = rest])
        BY <1>1, <4>1 DEF Process
      <4> HIDE DEF rest
      <4> QED  BY <4>2
    <3>2. PICK buf, rest : Set(p, [proc[p] EXCEPT !.buf = buf, !.pc = "line", !.rest = rest])
      BY <3>1
    <3>3. /\ proc'[p] = [proc[p] EXCEPT !.buf = buf, !.pc = "line", !.rest = rest]
          /\ \A q \in Procs \ {p} : proc'[q] = proc[q]
      BY <3>2, SetOthers DEF LoneInv
    <3> QED  BY <1>1, <3>3 DEF Process
  <2> QED  BY <2>1, <2>2, <2>3, <2>4 DEF ReadOp, EnterRead, ReadEof, Goto
<1>3. Stage(p)'
  BY <1>1, <1>2 DEF ProcInv, Stage, Opened, Keeping, At, Up, Zipping
<1>4. OpenLog(p)'
  BY <1>1, <1>2 DEF ProcInv, OpenLog, Opened
<1>5. ClosedLog(p)'
  BY <1>2 DEF ClosedLog, Keeping, Archiving, At
<1>6. Text(p)'
  BY <1>1, <1>2 DEF ProcInv, Text, Keeping, Archiving, Rotating, At, Whole, Opened
<1> QED  BY <1>1, <1>2, <1>3, <1>4, <1>5, <1>6, DirStays DEF LoneInv, LogOf, ProcInv

LEMMA LonePost ==
  ASSUME LoneInv, NEW p \in Procs, Post(p)
  PROVE  /\ LogOf(p)
         /\ proc[p].flagrotate /\ ~proc'[p].flagrotate => file'[proc'[p].fd].data = <<>>
<1> DEFINE len == Len(proc[p].line)
           text == Append(proc[p].line, NL)
           rotate == WantRotate(p, len + 1)
<1>1. /\ file' = file /\ script' = script /\ dir' = dir /\ ProcInv(p) /\ proc[p] \in Process
      /\ At(p, "post")
      /\ rotate /\ proc[p].size > 0 =>
            Set(p, [proc[p] EXCEPT !.line = text, !.fd = None, !.pc = "rename"])
      /\ ~(rotate /\ proc[p].size > 0) =>
            Set(p, [proc[p] EXCEPT !.line = text, !.flagrotate = @ /\ ~rotate, !.pc = "write"])
  BY DEF Post, disk, LoneInv, TypeOK
<1>2. /\ text \in Seq(Nat) /\ WholeLine(text) /\ Len(text) = len + 1 /\ len \in Nat
  <2>1. proc[p].line \in Seq(Nat) /\ NL \in Nat /\ len \in Nat
    BY <1>1, LenProperties DEF Process, NL
  <2>2. /\ text \in Seq(Nat) /\ text # <<>> /\ Len(text) = len + 1 /\ text[len + 1] = NL
    BY <2>1, AppendProperties
  <2> QED  BY <2>1, <2>2 DEF WholeLine
<1>3. /\ len <= LineMax /\ LineMax \in Nat /\ proc[p].size \in Nat
      /\ proc[p].opt \in script /\ proc[p].opt.max \in Nat /\ proc[p].opt.max >= LineMax + 1
      /\ ~proc[p].init /\ proc[p].kid = None
  BY <1>1, ScriptMax, LineAssumption DEF ProcInv, Stage, Text, Opened, At, Up, LoneInv, Process
<1>4. /\ Current \in DOMAIN dir /\ dir[Current] = proc[p].fd
      /\ SameResume => /\ \A n \in DOMAIN dir : dir[n] = proc[p].fd => n = Current
                       /\ Whole(file[proc[p].fd])
      /\ ~file[proc[p].fd].exec
      /\ proc[p].size = Len(file[proc[p].fd].data) /\ file[proc[p].fd].data \in Seq(Nat)
  BY <1>1 DEF ProcInv, OpenLog, Text, Opened, At, LoneInv, TypeOK
<1> HIDE DEF text, rotate
<1>5. DirInv'
  BY <1>1, DirStays DEF LoneInv
<1>6. CASE rotate /\ proc[p].size > 0
  <2>1. /\ \A q \in Procs \ {p} : proc'[q] = proc[q]
        /\ proc'[p].pc = "rename" /\ proc'[p].fd = None /\ proc'[p].line = text
        /\ proc'[p].opt = proc[p].opt /\ proc'[p].init = proc[p].init
        /\ proc'[p].kid = proc[p].kid /\ proc'[p].fn = proc[p].fn /\ proc'[p].flagrotate = proc[p].flagrotate
    <3>1. /\ proc'[p] = [proc[p] EXCEPT !.line = text, !.fd = None, !.pc = "rename"]
          /\ \A q \in Procs \ {p} : proc'[q] = proc[q]
      BY <1>1, <1>6, SetOthers DEF LoneInv
    <3> QED  BY <1>1, <3>1 DEF Process
  <2>2. Stage(p)'
    BY <1>1, <1>3, <2>1 DEF ProcInv, Stage, Opened, Keeping, At, Up, Zipping
  <2>3. OpenLog(p)' /\ ClosedLog(p)'
    BY <1>1, <1>4, <2>1 DEF OpenLog, ClosedLog, Keeping, Archiving, At, Whole, Opened
  <2>4. Text(p)'
    BY <1>2, <1>3, <2>1 DEF Text, Keeping, Archiving, Rotating, At, Whole, Opened
  <2> QED  BY <1>5, <2>1, <2>2, <2>3, <2>4 DEF LogOf, ProcInv
<1>7. CASE ~(rotate /\ proc[p].size > 0)
  <2>1. /\ \A q \in Procs \ {p} : proc'[q] = proc[q]
        /\ proc'[p].pc = "write" /\ proc'[p].fd = proc[p].fd /\ proc'[p].line = text
        /\ proc'[p].opt = proc[p].opt /\ proc'[p].init = proc[p].init /\ proc'[p].size = proc[p].size
        /\ proc'[p].kid = proc[p].kid /\ proc'[p].fn = proc[p].fn
        /\ proc'[p].flagrotate = (proc[p].flagrotate /\ ~rotate)
    <3>1. /\ proc'[p] = [proc[p] EXCEPT !.line = text, !.flagrotate = @ /\ ~rotate, !.pc = "write"]
          /\ \A q \in Procs \ {p} : proc'[q] = proc[q]
      BY <1>1, <1>7, SetOthers DEF LoneInv
    <3> QED  BY <1>1, <3>1 DEF Process
  <2>2. Stage(p)'
    BY <1>1, <1>3, <2>1 DEF ProcInv, Stage, Opened, Keeping, At, Up, Zipping
  <2>3. OpenLog(p)' /\ ClosedLog(p)'
    BY <1>1, <1>4, <2>1 DEF OpenLog, ClosedLog, Keeping, Archiving, At, Whole, Opened
  <2>4. proc[p].size + (len + 1) <= proc[p].opt.max
    <3> HIDE DEF len
    <3>1. CASE proc[p].size = 0
      BY <1>2, <1>3, <3>1
    <3>2. CASE ~(proc[p].size >= proc[p].opt.max - (len + 1))
      BY <1>2, <1>3, <3>2
    <3> QED  BY <1>3, <1>7, <3>1, <3>2 DEF WantRotate, rotate
  <2>5. Text(p)'
    BY <1>2, <1>3, <2>1, <2>4 DEF Text, Keeping, Archiving, Rotating, At, Whole, Opened
  <2>6. proc[p].flagrotate /\ ~proc'[p].flagrotate => file'[proc'[p].fd].data = <<>>
    <3>1. proc[p].flagrotate => rotate
      BY DEF rotate, WantRotate
    <3>2. proc[p].size = 0 => file[proc[p].fd].data = <<>>
      BY <1>4, EmptySeq
    <3> QED  BY <1>1, <1>3, <1>7, <2>1, <3>1, <3>2
  <2> QED  BY <1>5, <2>1, <2>2, <2>3, <2>5, <2>6 DEF LogOf, ProcInv
<1> QED  BY <1>6, <1>7

LEMMA LoneRename ==
  ASSUME LoneInv, NEW p \in Procs, Rename(p)
  PROVE  LogOf(p)
<1>1. /\ file' = file /\ script' = script /\ ProcInv(p) /\ proc[p] \in Process
      /\ At(p, "rename") /\ Current \in DOMAIN dir /\ dir' = Dir_renamed(Current, Previous)
      /\ Set(p, [proc[p] EXCEPT !.log = Previous, !.ext = "s", !.pc = "keep"])
  BY DEF Rename, LoneInv, TypeOK
<1>2. /\ \A q \in Procs \ {p} : proc'[q] = proc[q]
      /\ proc'[p].pc = "keep" /\ proc'[p].log = Previous /\ proc'[p].ext = "s"
      /\ proc'[p].opt = proc[p].opt /\ proc'[p].init = proc[p].init /\ proc'[p].fd = proc[p].fd
      /\ proc'[p].line = proc[p].line /\ proc'[p].kid = proc[p].kid /\ proc'[p].fn = proc[p].fn
  <2>1. /\ proc'[p] = [proc[p] EXCEPT !.log = Previous, !.ext = "s", !.pc = "keep"]
        /\ \A q \in Procs \ {p} : proc'[q] = proc[q]
    BY <1>1, SetOthers DEF LoneInv
  <2> QED  BY <1>1, <2>1 DEF Process
<1>3. /\ DOMAIN dir' = (DOMAIN dir \ {Current}) \cup {Previous} /\ dir'[Previous] = dir[Current]
      /\ \A n \in DOMAIN dir' \ {Previous} : dir'[n] = dir[n] /\ n \in DOMAIN dir
  BY <1>1 DEF Dir_renamed
<1>4. Current \notin DOMAIN dir'
  BY <1>3, NamesDiffer
<1>5. ProcInv(p)'
  BY <1>1, <1>2, <1>4
     DEF ProcInv, Stage, OpenLog, ClosedLog, Text, Opened, Keeping, Archiving, Rotating, At, Up, Zipping
<1>6. Links'
  <2>1. Zipped \in DOMAIN dir' => \A n \in DOMAIN dir' : dir'[n] = dir'[Zipped] => n = Zipped
    BY <1>1, <1>3, NamesDiffer DEF LoneInv, DirInv, Links
  <2>2. SameResume => Whole(file[dir'[Previous]])
    BY <1>1, <1>3 DEF ProcInv, ClosedLog
  <2> QED  BY <1>1, <1>4, <2>1, <2>2 DEF Links, Whole
<1>7. Bounded'
  BY <1>4 DEF Bounded
<1>8. CleanIsWhole'
  <2> SUFFICES ASSUME SameResume, NEW n \in DOMAIN dir', n.ext = "s", ~file[dir'[n]].mixed PROVE Whole(file[dir'[n]])
    BY <1>1, <1>4 DEF CleanIsWhole, Whole
  <2>1. n # Previous
    BY NamesDiffer
  <2> QED  BY <1>3, <2>1 DEF LoneInv, DirInv, CleanIsWhole, Whole
<1> QED  BY <1>2, <1>5, <1>6, <1>7, <1>8 DEF LogOf, DirInv

\* A whole part makes a whole file.
LEMMA Appended ==
  ASSUME NEW s \in Seq(Nat), NEW t \in Seq(Nat), t # <<>>
  PROVE  /\ s \o t \in Seq(Nat) /\ Len(s \o t) = Len(s) + Len(t)
         /\ (s \o t)[Len(s \o t)] = t[Len(t)]
<1>1. Len(s) \in Nat /\ Len(t) \in Nat \ {0}
  BY LenProperties, EmptySeq
<1>2. /\ s \o t \in Seq(Nat) /\ Len(s \o t) = Len(s) + Len(t)
      /\ \A i \in 1 .. Len(s) + Len(t) : (s \o t)[i] = IF i <= Len(s) THEN s[i] ELSE t[i - Len(s)]
  BY ConcatProperties
<1>3. Len(s) + Len(t) \in 1 .. Len(s) + Len(t) /\ ~(Len(s) + Len(t) <= Len(s))
      /\ (Len(s) + Len(t)) - Len(s) = Len(t)
  BY <1>1
<1> QED  BY <1>2, <1>3

LEMMA LoneWrite ==
  ASSUME LoneInv, NEW p \in Procs, Write(p)
  PROVE  LogOf(p)
<1>1. PICK k \in Nat \ {0}, part \in Seq(Nat), rest \in Seq(Nat), pc \in {"write", "close", "line"} :
        OneWrite(p, k, part, rest, pc)
  BY Written, Zenon DEF LoneInv
<1>2. dir' = dir /\ script' = script /\ ProcInv(p) /\ proc[p] \in Process /\ At(p, "write")
  BY DEF Write, LoneInv, TypeOK
<1> DEFINE i == proc[p].fd
           len == Len(proc[p].line)
<1>3. /\ Current \in DOMAIN dir /\ dir[Current] = i
      /\ SameResume => \A n \in DOMAIN dir : dir[n] = i => n = Current
      /\ ~file[i].exec /\ proc[p].size = Len(file[i].data)
      /\ i \in Inodes /\ file[i].data \in Seq(Nat)
  BY <1>2 DEF ProcInv, OpenLog, Opened, At, LoneInv, TypeOK
<1>4. /\ proc[p].opt \in script /\ proc[p].kid = None /\ ~proc[p].init
      /\ WholeLine(proc[p].line) /\ proc[p].size + len <= proc[p].opt.max
      /\ proc[p].opt.max \in Nat /\ proc[p].size \in Nat /\ len \in Nat
  BY <1>2, ScriptMax, LenProperties DEF ProcInv, Stage, Text, Opened, At, Up, LoneInv, Process
<1>5. /\ part # <<>> /\ Len(part) = k /\ k <= len /\ Len(rest) = len - k
      /\ part[Len(part)] = proc[p].line[k]
      /\ rest # <<>> => rest[Len(rest)] = proc[p].line[len]
      /\ rest = <<>> => k = len
      /\ rest # <<>> => pc = "write"
      /\ rest = <<>> => pc \in {"close", "line"}
  <2>1. part # <<>> /\ (rest = <<>> => len - k = 0)
    BY <1>1, EmptySeq DEF OneWrite
  <2>2. /\ Len(part) = k /\ k <= len /\ Len(rest) = len - k
        /\ part[Len(part)] = proc[p].line[k]
        /\ rest # <<>> => rest[Len(rest)] = proc[p].line[len]
        /\ rest # <<>> => pc = "write"
        /\ rest = <<>> => pc \in {"close", "line"}
    BY <1>1 DEF OneWrite
  <2> HIDE DEF len
  <2>3. rest = <<>> => k = len
    BY <1>4, <2>1
  <2> QED  BY <2>1, <2>2, <2>3
<1>6. /\ \A q \in Procs \ {p} : proc'[q] = proc[q]
      /\ proc'[p].pc = pc /\ proc'[p].line = rest /\ proc'[p].size = proc[p].size + k
      /\ proc'[p].opt = proc[p].opt /\ proc'[p].init = proc[p].init /\ proc'[p].fd = i
      /\ proc'[p].kid = proc[p].kid /\ proc'[p].fn = proc[p].fn
  <2>1. /\ proc'[p] = [proc[p] EXCEPT !.line = rest, !.size = proc[p].size + k, !.pc = pc]
        /\ \A q \in Procs \ {p} : proc'[q] = proc[q]
    BY <1>1, SetOthers DEF LoneInv, OneWrite
  <2> QED  BY <1>2, <2>1 DEF Process
<1> DEFINE data == file[i].data \o part
<1>7. /\ file'[i].data = data /\ file'[i].exec = file[i].exec
      /\ \A j \in Inodes \ {i} : file'[j] = file[j]
  BY <1>1, <1>3 DEF OneWrite, LoneInv, TypeOK
<1>8. Len(data) = proc[p].size + k /\ data # <<>> /\ data[Len(data)] = proc[p].line[k]
  <2>1. Len(data) = Len(file[i].data) + Len(part) /\ data \in Seq(Nat) /\ data[Len(data)] = part[Len(part)]
    BY <1>3, <1>5, Appended
  <2> HIDE DEF data
  <2>2. data # <<>>
    BY <1>3, <1>4, <1>5, <2>1, EmptySeq
  <2> QED  BY <1>3, <1>5, <2>1, <2>2
<1> HIDE DEF data
<1>9. rest = <<>> => Whole(file'[i])
  BY <1>4, <1>5, <1>7, <1>8 DEF Whole, WholeLine
<1>10. SameResume => \A n \in DOMAIN dir \ {Current} : file'[dir[n]] = file[dir[n]]
  BY <1>3, <1>7 DEF LoneInv, TypeOK
<1>11. Stage(p)'
  BY <1>2, <1>4, <1>5, <1>6 DEF ProcInv, Stage, Opened, Keeping, At, Up, Zipping
<1>12. OpenLog(p)' /\ ClosedLog(p)'
  BY <1>2, <1>3, <1>5, <1>6, <1>7, <1>8 DEF OpenLog, ClosedLog, Keeping, Archiving, At, Opened
<1>13. Text(p)'
  <2>1. proc[p].size + k + Len(rest) <= proc[p].opt.max /\ (rest = <<>> => Len(rest) <= LineMax)
    <3> HIDE DEF len
    <3>1. Len(rest) = len - k /\ k \in Nat /\ len \in Nat /\ proc[p].size \in Nat
      BY <1>4, <1>5
    <3>2. proc[p].size + k + Len(rest) = proc[p].size + len
      BY <3>1
    <3> QED  BY <1>4, <3>2, EmptySeq, LineAssumption
  <2>2. rest # <<>> => WholeLine(rest)
    BY <1>4, <1>5 DEF WholeLine
  <2> QED  BY <1>4, <1>5, <1>6, <1>9, <2>1, <2>2 DEF Text, Keeping, Archiving, Rotating, At, Opened, Whole
<1>14. Links'
  BY <1>2, <1>3, <1>7, <1>10, NamesDiffer DEF LoneInv, DirInv, Links, Whole
<1>15. Bounded'
  <2>1. Len(data) <= proc[p].opt.max
    <3> HIDE DEF len
    <3>1. k <= len /\ k \in Nat /\ len \in Nat /\ proc[p].size \in Nat /\ Len(data) = proc[p].size + k
      BY <1>4, <1>5, <1>8
    <3>2. proc[p].size + k <= proc[p].size + len
      BY <3>1
    <3> QED  BY <1>4, <3>1, <3>2
  <2> QED  BY <1>2, <1>3, <1>4, <1>7, <2>1 DEF Bounded
<1>16. CleanIsWhole'
  <2> SUFFICES ASSUME SameResume, NEW n \in DOMAIN dir, n.ext = "s", ~file'[dir[n]].mixed PROVE Whole(file'[dir[n]])
    BY <1>2, <1>3, <1>7 DEF CleanIsWhole, Whole
  <2>1. n # Current
    BY NamesDiffer
  <2> QED  BY <1>10, <2>1 DEF LoneInv, DirInv, CleanIsWhole, Whole
<1> QED  BY <1>6, <1>11, <1>12, <1>13, <1>14, <1>15, <1>16 DEF LogOf, ProcInv, DirInv

LEMMA LoneClose ==
  ASSUME LoneInv, NEW p \in Procs, Close(p)
  PROVE  LogOf(p)
<1> DEFINE i == proc[p].fd
<1>1. /\ dir' = dir /\ script' = script /\ ProcInv(p) /\ At(p, "close") /\ Ends(p, TRUE)
      /\ file' = file \/ file' = [file EXCEPT ![i].exec = TRUE]
  BY DEF Close, LoneInv
<1>4. ~Zipping(p)
  BY <1>1 DEF Zipping, At
<1>2. CASE file' = file
  BY <1>1, <1>2, <1>4, EndsLone, DirStays DEF LogOf, LoneInv
<1>3. CASE file' = [file EXCEPT ![i].exec = TRUE]
  <2>1. /\ Current \in DOMAIN dir /\ dir[Current] = i
        /\ SameResume => Whole(file[i]) /\ \A n \in DOMAIN dir : dir[n] = i => n = Current
        /\ i \in Inodes
    BY <1>1 DEF ProcInv, OpenLog, Text, Opened, At, LoneInv, TypeOK
  <2> HIDE DEF i
  <2>2. ASSUME NEW n \in DOMAIN dir
        PROVE  /\ file'[dir[n]].data = file[dir[n]].data /\ file'[dir[n]].mixed = file[dir[n]].mixed
               /\ n = Current \/ ~SameResume \/ file'[dir[n]].exec = file[dir[n]].exec
    <3>1. dir[n] \in Inodes /\ file \in [Inodes -> [data : Seq(Nat), exec : BOOLEAN, mixed : BOOLEAN]]
      BY DEF LoneInv, TypeOK
    <3>2. file'[dir[n]].data = file[dir[n]].data /\ file'[dir[n]].mixed = file[dir[n]].mixed
      BY <1>3, <3>1
    <3>3. dir[n] # i => file'[dir[n]].exec = file[dir[n]].exec
      BY <1>3, <3>1
    <3> QED  BY <2>1, <3>2, <3>3
  <2>3. Links'
    <3>1. Zipped \in DOMAIN dir => \A n \in DOMAIN dir : dir[n] = dir[Zipped] => n = Zipped
      BY DEF LoneInv, DirInv, Links
    <3>2. SameResume /\ Previous \in DOMAIN dir => Whole(file'[dir[Previous]])
      BY <2>2 DEF LoneInv, DirInv, Links, Whole
    <3> QED  BY <1>1, <2>1, <3>1, <3>2 DEF Links, Whole
  <2>4. Bounded'
    <3>1. file'[dir[Current]].data = file[dir[Current]].data
      BY <2>1, <2>2
    <3> QED  BY <1>1, <3>1 DEF LoneInv, DirInv, Bounded
  <2>5. CleanIsWhole'
    <3> SUFFICES ASSUME SameResume, NEW n \in DOMAIN dir, ~file[dir[n]].mixed, n.ext = "s" \/ n = Current
                 PROVE  Whole(file'[dir[n]])
      BY <1>1, <2>2 DEF CleanIsWhole, Whole
    <3>1. Whole(file[dir[n]])
      BY <2>1 DEF LoneInv, DirInv, CleanIsWhole
    <3> QED  BY <2>2, <3>1 DEF Whole
  <2> QED  BY <1>1, <1>4, <2>3, <2>4, <2>5, EndsLone DEF LogOf, DirInv
<1> QED  BY <1>1, <1>2, <1>3

LEMMA LoneEnds ==
  ASSUME LoneInv, NEW p \in Procs, ~Zipping(p), Ends(p, FALSE), UNCHANGED <<disk, script>>
  PROVE  LogOf(p)
BY EndsLone, DirStays DEF LogOf, LoneInv, disk

\* A caught signal.
LEMMA LoneSignal ==
  ASSUME LoneInv, NEW p \in Procs, p = main, UNCHANGED <<disk, script>>,
         \/ Set(p, [proc[p] EXCEPT !.flagexit = TRUE, !.pc = Handled(p)])
         \/ Set(p, [proc[p] EXCEPT !.flagrotate = TRUE, !.pc = Handled(p)])
  PROVE  /\ \A q \in Procs \ {p} : proc'[q] = proc[q]
         /\ ProcInv(p)' /\ DirInv'
         /\ proc'[p].pc = proc[p].pc \/ (proc[p].pc = "reading" /\ proc'[p].pc = "read")
         /\ proc'[p].kid = proc[p].kid /\ proc'[p].fn = proc[p].fn
         /\ proc[p].flagrotate => proc'[p].flagrotate
<1>1. dir' = dir /\ file' = file /\ script' = script /\ ProcInv(p) /\ proc[p] \in Process
  BY DEF disk, LoneInv, TypeOK
<1>2. /\ \A q \in Procs \ {p} : proc'[q] = proc[q]
      /\ proc'[p].pc = proc[p].pc \/ (proc[p].pc = "reading" /\ proc'[p].pc = "read")
      /\ proc'[p].opt = proc[p].opt /\ proc'[p].init = proc[p].init
      /\ proc'[p].fd = proc[p].fd /\ proc'[p].size = proc[p].size /\ proc'[p].line = proc[p].line
      /\ proc'[p].log = proc[p].log /\ proc'[p].ext = proc[p].ext /\ proc'[p].fn = proc[p].fn
      /\ proc'[p].kid = proc[p].kid
      /\ proc[p].flagrotate => proc'[p].flagrotate
  <2>1. /\ \A q \in Procs \ {p} : proc'[q] = proc[q]
        /\ \/ proc'[p] = [proc[p] EXCEPT !.flagexit = TRUE, !.pc = Handled(p)]
           \/ proc'[p] = [proc[p] EXCEPT !.flagrotate = TRUE, !.pc = Handled(p)]
    BY SetOthers DEF LoneInv
  <2>2. Handled(p) = proc[p].pc \/ (proc[p].pc = "reading" /\ Handled(p) = "read")
    BY DEF Handled, At
  <2> QED  BY <1>1, <2>1, <2>2 DEF Process
<1>3. Stage(p)'
  BY <1>1, <1>2 DEF ProcInv, Stage, Opened, Keeping, At, Up, Zipping
<1>4. OpenLog(p)'
  BY <1>1, <1>2 DEF ProcInv, OpenLog, Opened
<1>5. ClosedLog(p)'
  BY <1>1, <1>2 DEF ProcInv, ClosedLog, Keeping, Archiving, At, Whole
<1>6. Text(p)'
  BY <1>1, <1>2 DEF ProcInv, Text, Keeping, Archiving, Rotating, At, Whole, Opened
<1> QED  BY <1>1, <1>2, <1>3, <1>4, <1>5, <1>6, DirStays DEF LoneInv, ProcInv

\* A child that comes back is a second logger.
LEMMA NoReturn ==
  ASSUME LoneInv, Alone', NEW q \in Procs, ChildReturns(q)
  PROVE  FALSE
<1>1. q # main /\ main' = main
  BY DEF ChildReturns, LoneInv, ProcInv, Stage, Zipping, At
<1>2. proc'[q].pc = "prune"
  <2>1. PICK why \in ChildFails(q) :
          Set(q, [proc[q] EXCEPT !.pc = "prune", !.in = IF why = "zipped" THEN "file" ELSE @,
                                 !.rest = IF why = "zipped" THEN file[dir[proc[q].fn]].data ELSE @])
    BY DEF ChildReturns
  <2> DEFINE in == IF why = "zipped" THEN "file" ELSE proc[q].in
             rest == IF why = "zipped" THEN file[dir[proc[q].fn]].data ELSE proc[q].rest
  <2>2. proc[q] \in Process
    BY DEF LoneInv, TypeOK
  <2>3. Set(q, [proc[q] EXCEPT !.pc = "prune", !.in = in, !.rest = rest])
    BY <2>1, <2>2 DEF Process
  <2> HIDE DEF in, rest
  <2>4. proc'[q] = [proc[q] EXCEPT !.pc = "prune", !.in = in, !.rest = rest]
    BY <2>3, SetOthers DEF LoneInv
  <2> QED  BY <2>2, <2>4 DEF Process
<1> QED  BY <1>1, <1>2 DEF Alone, Logger, Up, Zipping, At

\* What the steps of a logger, other than those of tinylog_gzip(), do to the
\* names: some go, and a log gets another one.
Moved == \A n \in DOMAIN dir' :
           \E m \in DOMAIN dir : dir'[n] = dir[m] /\ (m = n \/ m \in {Current, Previous})

LEMMA LoneMoved ==
  ASSUME LoneInv, NEW p \in Procs,
         \/ InitCurrent(p) \/ KeepStat(p) \/ KeepLink(p) \/ KeepUnlink(p)
         \/ Zchmod(p) \/ Drop(p) \/ Unzip(p) \/ Prune(p) \/ CollectLine(p) \/ ReadOp(p) \/ EnterRead(p)
         \/ ReadEof(p) \/ ReadData(p) \/ Post(p) \/ Rename(p) \/ Write(p) \/ Close(p) \/ Fails(p) \/ Start(p)
  PROVE  Moved /\ (\A i \in Inodes : file'[i].mixed = file[i].mixed) /\ ~Zipping(p)
<1>1. ~Zipping(p)
  BY DEF Zipping, At, Up, InitCurrent, KeepStat, KeepLink, KeepUnlink, Zchmod, Drop, Unzip, Prune,
     CollectLine, ReadOp, EnterRead, ReadEof, ReadData, Post, Rename, Write, Close, Fails, Retried, Start
<1>2. CASE KeepLink(p)
  <2>1. /\ \/ dir' = dir \/ \E n : dir' = Dir_with(n, dir[proc[p].log])
        /\ proc[p].log \in DOMAIN dir /\ proc[p].log \in {Current, Previous} /\ file' = file
    BY <1>2 DEF KeepLink, LoneInv, TypeOK, Process
  <2> QED  BY <1>1, <2>1 DEF Moved, Dir_with
<1>3. CASE Rename(p)
  BY <1>1, <1>3 DEF Rename, Dir_renamed, Moved
<1>4. CASE Write(p) \/ Close(p)
  <2>1. \/ \E data : file' = [file EXCEPT ![proc[p].fd].data = data]
        \/ file' = [file EXCEPT ![proc[p].fd].exec = TRUE]
        \/ file' = file
    BY <1>4, Zenon DEF Write, Close
  <2>2. \A i \in Inodes : file'[i].mixed = file[i].mixed
    <3>1. file \in [Inodes -> [data : Seq(Nat), exec : BOOLEAN, mixed : BOOLEAN]]
      BY DEF LoneInv, TypeOK
    <3> DEFINE i == proc[p].fd
    <3> HIDE DEF i
    <3>2. \A data : file' = [file EXCEPT ![i].data = data] => \A j \in Inodes : file'[j].mixed = file[j].mixed
      BY <3>1
    <3>3. file' = [file EXCEPT ![i].exec = TRUE] => \A j \in Inodes : file'[j].mixed = file[j].mixed
      BY <3>1
    <3> QED  BY <2>1, <3>2, <3>3, Zenon DEF i
  <2>3. dir' = dir
    BY <1>4 DEF Write, Close
  <2> QED  BY <1>1, <2>2, <2>3 DEF Moved
<1>5. CASE KeepUnlink(p) \/ Zchmod(p) \/ Drop(p) \/ Unzip(p) \/ Prune(p)
  <2>1. file' = file /\ (dir' = dir \/ \E n : dir' = Dir_without(n))
    BY <1>5 DEF KeepUnlink, Zchmod, Drop, Unzip, Prune
  <2> QED  BY <1>1, <2>1 DEF Moved, Dir_without
<1>6. CASE dir' = dir /\ file' = file
  BY <1>1, <1>6 DEF Moved
<1> QED  BY <1>2, <1>3, <1>4, <1>5, <1>6
         DEF InitCurrent, KeepStat, CollectLine, ReadOp, EnterRead, ReadEof, ReadData, Post, Fails, Start, disk

LEMMA LoneInit == Init => LoneInv
<1> SUFFICES ASSUME Init PROVE LoneInv
  OBVIOUS
<1>1. \A p \in Procs : proc[p].pc = "off" /\ proc[p].kid = None
  BY DEF Init, Off
<1>2. \A p \in Procs : ProcInv(p)
  BY <1>1 DEF Init, Off, Template, Archive, Name, ProcInv, Stage, OpenLog, ClosedLog, Text, Opened, Keeping, Archiving, Rotating,
     At, Up, Zipping
<1>3. DOMAIN dir = {}
  BY DEF Init
<1>4. DirInv
  BY <1>3 DEF DirInv, Links, Bounded, CleanIsWhole, Whole
<1>5. ZipInv
  BY <1>1, <1>3 DEF ZipInv, OwnFile, Awaited, At
<1> QED  BY <1>2, <1>4, <1>5, TypeInit DEF LoneInv

\* "zipped" becomes an archive.
LEMMA ZipPublish ==
  ASSUME LoneInv, NEW p \in Procs, Only(p), Publish(p), LogOf(p)
  PROVE  ZipInv'
<1> DEFINE name == Gz(proc[p].fn)
<1>1. /\ file' = file /\ At(p, "publish") /\ ~Zipping(p)
      /\ dir' = dir \/ (Zipped \in DOMAIN dir /\ dir' = Dir_renamed(Zipped, name))
  BY DEF Publish, Zipping, At
<1>2. CASE dir' = dir
  BY <1>1, <1>2, ZipSame DEF LogOf
<1>3. CASE Zipped \in DOMAIN dir /\ dir' = Dir_renamed(Zipped, name)
  <2>1. name \in Names /\ name.kind = "gz"
    BY KindsDiffer, NamesTyped DEF LoneInv, TypeOK, Process
  <2> HIDE DEF name
  <2>2. name # Zipped
    BY <2>1, KindsDiffer
  <2>3. /\ DOMAIN dir' = (DOMAIN dir \ {Zipped}) \cup {name} /\ dir'[name] = dir[Zipped]
        /\ \A n \in DOMAIN dir' \ {name} : dir'[n] = dir[n] /\ n \in DOMAIN dir
    BY <1>3 DEF Dir_renamed
  <2>4. \A n \in DOMAIN dir' : file'[dir'[n]].mixed => n = Zipped \/ n.kind = "gz"
    BY <1>1, <2>1, <2>3 DEF LoneInv, ZipInv
  <2>5. \A q \in Procs : At(q, "gzip")' \/ At(q, "publish")' \/ At(q, "wait")' => q # p /\ proc'[q] = proc[q]
    BY DEF LogOf, At
  <2>6. ASSUME NEW q \in Procs PROVE OwnFile(q)'
    <3> SUFFICES ASSUME At(q, "gzip")' PROVE OwnFile(q)'
      BY DEF OwnFile
    <3>1. proc'[q] = proc[q] /\ At(q, "gzip") /\ OwnFile(q)
      BY <2>5 DEF At, LoneInv, ZipInv
    <3>2. dir[Zipped] = proc[q].fd => file[proc[q].fd].mixed
      BY <1>1, <1>3, <3>1, Zenon DEF OwnFile
    <3>3. \A n \in DOMAIN dir' : dir'[n] = proc[q].fd => file[dir'[n]].mixed
      <4> SUFFICES ASSUME NEW n \in DOMAIN dir', dir'[n] = proc[q].fd PROVE file[dir'[n]].mixed
        OBVIOUS
      <4>1. CASE n = name
        BY <2>3, <3>2, <4>1
      <4>2. CASE n # name
        <5>1. n \in DOMAIN dir /\ dir[n] = proc[q].fd /\ n # Zipped
          BY <2>2, <2>3, <4>2
        <5> QED  BY <3>1, <4>2, <2>3, <5>1 DEF OwnFile
      <4> QED  BY <4>1, <4>2
    <3>4. ASSUME NEW r \in Procs \ {q}, At(r, "gzip")', proc'[r].fd = proc[q].fd
          PROVE  file[proc[q].fd].mixed
      <4>1. At(r, "gzip") /\ proc[r].fd = proc[q].fd
        BY <2>5, <3>4 DEF At
      <4> QED  BY <3>1, <3>4, <4>1, Zenon DEF OwnFile
    <3>5. Zipped \notin DOMAIN dir'
      BY <2>2, <2>3
    <3> QED  BY <1>1, <3>1, <3>3, <3>4, <3>5 DEF OwnFile
  <2>7. \A q \in Procs : Awaited(q)'
    BY <2>5 DEF Awaited, Only, Logger, Up, Zipping, At
  <2> QED  BY <2>4, <2>6, <2>7 DEF ZipInv
<1> QED  BY <1>1, <1>2, <1>3

\* No gzip has the file that is opened as "current".
LEMMA ZipOpen ==
  ASSUME LoneInv, NEW p \in Procs, Only(p), OpenCurrent(p), LogOf(p)
  PROVE  ZipInv' /\ ~Zipping(p)
<1> DEFINE i == IF Current \in DOMAIN dir THEN dir[Current] ELSE New
           data == IF Current \in DOMAIN dir THEN file[i].data ELSE <<>>
<1>1. /\ dir' = Dir_with(Current, i) /\ At(p, "open") /\ ~Zipping(p)
      /\ file' = [file EXCEPT ![i] = [data |-> data, exec |-> FALSE, mixed |-> FALSE]]
  BY DEF OpenCurrent, OpenMode, Zipping, At
<1>2. i \in Inodes /\ \A q \in Procs : At(q, "gzip") => proc[q].fd # i
  <2>1. CASE Current \in DOMAIN dir
    BY <2>1, NotMixed DEF LoneInv, TypeOK
  <2>2. CASE Current \notin DOMAIN dir
    BY <2>2, NewTyped DEF OpenCurrent, Free
  <2> QED  BY <2>1, <2>2
<1> HIDE DEF i, data
<1>3. /\ DOMAIN dir' = DOMAIN dir \cup {Current} /\ dir'[Current] = i
      /\ \A n \in DOMAIN dir' \ {Current} : dir'[n] = dir[n] /\ n \in DOMAIN dir
  BY <1>1 DEF Dir_with
<1>4. ~file'[i].mixed /\ \A j \in Inodes \ {i} : file'[j] = file[j]
  BY <1>1, <1>2 DEF LoneInv, TypeOK
<1>5. \A n \in DOMAIN dir' : file'[dir'[n]].mixed => n = Zipped \/ n.kind = "gz"
  <2> SUFFICES ASSUME NEW n \in DOMAIN dir', file'[dir'[n]].mixed PROVE n = Zipped \/ n.kind = "gz"
    OBVIOUS
  <2>1. n # Current /\ dir'[n] # i
    BY <1>3, <1>4
  <2>2. n \in DOMAIN dir /\ dir[n] \in Inodes /\ dir'[n] = dir[n]
    BY <1>3, <2>1 DEF LoneInv, TypeOK
  <2> QED  BY <1>4, <2>1, <2>2 DEF LoneInv, ZipInv
<1>6. \A q \in Procs : At(q, "gzip")' \/ At(q, "publish")' \/ At(q, "wait")' => q # p /\ proc'[q] = proc[q]
  BY DEF LogOf, At
<1>7. ASSUME NEW q \in Procs PROVE OwnFile(q)'
  <2> SUFFICES ASSUME At(q, "gzip")' PROVE OwnFile(q)'
    BY DEF OwnFile
  <2>1. proc'[q] = proc[q] /\ At(q, "gzip") /\ OwnFile(q) /\ proc[q].fd \in Inodes \ {i}
    BY <1>2, <1>6 DEF At, LoneInv, ZipInv, ProcInv, Stage
  <2>2. file'[proc[q].fd] = file[proc[q].fd]
    BY <1>4, <2>1
  <2>3. ASSUME NEW n \in DOMAIN dir', dir'[n] = proc[q].fd PROVE n = Zipped \/ file'[dir'[n]].mixed
    <3>1. n \in DOMAIN dir /\ dir[n] = proc[q].fd
      BY <1>3, <2>1, <2>3
    <3> QED  BY <2>1, <2>2, <2>3, <3>1 DEF OwnFile
  <2>4. ASSUME NEW r \in Procs \ {q}, At(r, "gzip")', proc'[r].fd = proc[q].fd
        PROVE  file[proc[q].fd].mixed
    <3>1. At(r, "gzip") /\ proc[r].fd = proc[q].fd
      BY <1>6, <2>4 DEF At
    <3> QED  BY <2>1, <2>4, <3>1, Zenon DEF OwnFile
  <2>5. \A r \in Procs : ~At(r, "publish")'
    BY <1>6 DEF Only, Logger, Up, Zipping, At
  <2> QED  BY <2>1, <2>2, <2>3, <2>4, <2>5 DEF OwnFile
<1>8. \A q \in Procs : Awaited(q)'
  BY <1>6 DEF Awaited, Only, Logger, Up, Zipping, At
<1> QED  BY <1>1, <1>5, <1>7, <1>8 DEF ZipInv

\* What the steps of the logger, but those that fork or return, keep.
LEMMA LoneLogger ==
  ASSUME LoneInv, NEW p \in Procs, Step(p) \/ ReadData(p) \/ Start(p),
         ~ForkGzip(p), ~ExecGzip(p), ~ChildReturns(p), ~Gzip(p)
  PROVE  LogOf(p)
<1>1. CASE Fails(p)
  BY <1>1, LoneEnds, LoneMoved DEF Fails
<1> QED  BY <1>1, LoneInitCurrent, LoneKeepStat, LoneKeepLink, LoneKeepUnlink, LonePublish, LoneRemove,
            LoneOpenCurrent, LoneReading, LonePost, LoneRename, LoneWrite, LoneClose, LoneStart DEF Step

LEMMA LoneMain ==
  ASSUME NEW p \in Procs, Step(p) \/ ReadData(p) \/ Start(p), ~Gzip(p)
  PROVE  script' = script /\ main' \in {main, p, None}
BY DEF Step, ReadData, Start, InitCurrent, KeepStat, KeepLink, KeepUnlink, ForkGzip, ExecGzip,
   ChildReturns, Publish, Zchmod, Drop, Unzip, Prune, OpenCurrent, CollectLine, ReadOp,
   EnterRead, ReadEof, Post, Rename, Write, Close, Fails, Ends

\* Who makes a step is up, or is started.
LEMMA LoneActive ==
  ASSUME Alone, NEW p \in Procs, Step(p) \/ ReadData(p) \/ Start(p),
         ~ExecGzip(p), ~ChildReturns(p), ~Gzip(p)
  PROVE  Only(p)
<1>1. main = None \/ proc[p].pc \notin {"off", "child", "gzip"}
  BY DEF Step, ReadData, Start, At, InitCurrent, KeepStat, KeepLink, KeepUnlink, ForkGzip,
     Publish, Zchmod, Drop, Unzip, Prune, OpenCurrent, CollectLine, ReadOp,
     EnterRead, ReadEof, Post, Rename, Write, Close, Fails, Retried
<1>2. Logger(p) \/ main = None
  BY <1>1 DEF Logger, Up, Zipping, At
<1> QED  BY <1>2, OnlyOne

LEMMA LoneActs ==
  ASSUME LoneInv, Alone, Alone', TypeOK', NEW p \in Procs, Step(p) \/ ReadData(p) \/ Start(p)
  PROVE  LoneInv'
<1>1. CASE ForkGzip(p) \/ ExecGzip(p) \/ ChildReturns(p) \/ Gzip(p)
  BY <1>1, LoneForkGzip, LoneExecGzip, NoReturn, LoneGzip
<1>2. CASE ~(ForkGzip(p) \/ ExecGzip(p) \/ ChildReturns(p) \/ Gzip(p))
  <2>1. LogOf(p) /\ Only(p) /\ script' = script /\ main' \in {main, p, None}
    BY <1>2, LoneLogger, LoneActive, LoneMain
  <2>2. ZipInv'
    <3>1. CASE Publish(p)
      BY <2>1, <3>1, ZipPublish
    <3>2. CASE OpenCurrent(p)
      BY <2>1, <3>2, ZipOpen
    <3>3. CASE ~Publish(p) /\ ~OpenCurrent(p)
      <4>1. Moved /\ (\A i \in Inodes : file'[i].mixed = file[i].mixed) /\ ~Zipping(p)
        BY <1>2, <3>3, LoneMoved DEF Step
      <4>2. ~Zipping(p)' /\ ~At(p, "publish")' /\ Awaited(p)'
        BY <2>1 DEF LogOf, Zipping, Awaited, At
      <4> QED  BY <2>1, <4>1, <4>2, ZipStays DEF Moved, LogOf
    <3> QED  BY <3>1, <3>2, <3>3
  <2> QED  BY <2>1, <2>2, LoneStep DEF LogOf
<1> QED  BY <1>1, <1>2

LEMMA LoneSignals ==
  ASSUME LoneInv, Alone, TypeOK', Term \/ Hup \/ Kill
  PROVE  LoneInv' /\ (main' = main => (proc[main].flagrotate => proc'[main].flagrotate))
<1>1. PICK p \in Procs : p = main
  BY DEF LoneInv, TypeOK, Term, Hup, Kill
<1>2. UNCHANGED <<disk, script>> /\ Only(p) /\ ~Zipping(p) /\ p # None
  BY <1>1, OnlyOne, NoneAssumption DEF Term, Hup, Kill, LoneInv, ProcInv, Stage
<1>3. dir' = dir /\ file' = file
  BY <1>2 DEF disk
<1>4. CASE Ends(main, FALSE)
  <2>3. Ends(p, FALSE)
    BY <1>1, <1>4
  <2>1. LogOf(p) /\ main' = None
    BY <1>1, <1>2, <2>3, LoneEnds DEF Ends
  <2>2. ZipInv'
    BY <1>2, <1>3, <2>1, ZipSame DEF LogOf
  <2> QED  BY <1>1, <1>2, <2>1, <2>2, LoneStep DEF LogOf
<1>5. CASE /\ main' = main
           /\ \/ Set(p, [proc[p] EXCEPT !.flagexit = TRUE, !.pc = Handled(p)])
              \/ Set(p, [proc[p] EXCEPT !.flagrotate = TRUE, !.pc = Handled(p)])
  <2>1. /\ \A q \in Procs \ {p} : proc'[q] = proc[q]
        /\ ProcInv(p)' /\ DirInv'
        /\ proc'[p].pc = proc[p].pc \/ (proc[p].pc = "reading" /\ proc'[p].pc = "read")
        /\ proc'[p].kid = proc[p].kid /\ proc'[p].fn = proc[p].fn
        /\ proc[p].flagrotate => proc'[p].flagrotate
    BY <1>1, <1>2, <1>5, LoneSignal
  <2>2. ~Zipping(p)' /\ (At(p, "publish")' => At(p, "publish"))
    BY <1>2, <2>1 DEF Zipping, At
  <2>3. Awaited(p)'
    <3> SUFFICES ASSUME At(p, "wait")', proc'[p].kid # None PROVE Awaited(p)'
      BY DEF Awaited
    <3> DEFINE k == proc[p].kid
    <3>1. At(p, "wait") /\ k # None /\ Awaited(p)
      BY <2>1 DEF At, LoneInv, ZipInv
    <3>2. Zipping(k) /\ k \in Procs /\ k # p
      BY <1>2, <3>1 DEF Awaited, LoneInv, TypeOK, Process
    <3>3. proc'[k] = proc[k] /\ proc'[p].kid = k /\ proc'[p].fn = proc[p].fn
      BY <2>1, <3>2
    <3> QED  BY <1>3, <3>1, <3>3 DEF Awaited, Zipping, At
  <2>4. ZipInv'
    BY <1>2, <1>3, <2>1, <2>2, <2>3, ZipStays
  <2> QED  BY <1>1, <1>2, <1>5, <2>1, <2>4, LoneStep
<1>6. \/ Ends(main, FALSE)
      \/ /\ main' = main
         /\ \/ Set(p, [proc[p] EXCEPT !.flagexit = TRUE, !.pc = Handled(p)])
            \/ Set(p, [proc[p] EXCEPT !.flagrotate = TRUE, !.pc = Handled(p)])
  <2>1. CASE Term
    BY <1>1, <2>1, Zenon DEF Term
  <2>2. CASE Hup
    BY <1>1, <2>2, Zenon DEF Hup
  <2>3. CASE Kill
    BY <1>1, <2>3, Zenon DEF Kill
  <2> QED  BY <2>1, <2>2, <2>3
<1> QED  BY <1>4, <1>5, <1>6

LEMMA LoneNext == LoneInv /\ Alone /\ Alone' /\ [Next]_vars => LoneInv'
<1> SUFFICES ASSUME LoneInv, Alone, Alone', [Next]_vars PROVE LoneInv'
  OBVIOUS
<1>1. TypeOK'
  BY TypeNext DEF LoneInv
<1>2. CASE UNCHANGED vars
  <2>1. DirInv'
    BY <1>2, DirStays DEF vars, LoneInv
  <2>2. dir' = dir /\ file' = file /\ proc' = proc /\ script' = script /\ main' = main
    BY <1>2 DEF vars
  <2>3. ASSUME NEW p \in Procs PROVE ProcInv(p)'
    <3>1. ProcInv(p)
      BY DEF LoneInv
    <3> QED  BY <2>2, <3>1 DEF ProcInv, Stage, OpenLog, ClosedLog, Text, Opened, Keeping, Archiving,
                               Rotating, At, Up, Zipping, Whole
  <2>4. ZipInv'
    BY <2>2 DEF LoneInv, ZipInv, OwnFile, Awaited, At, Zipping
  <2> QED  BY <1>1, <2>1, <2>3, <2>4 DEF LoneInv
<1>3. ASSUME NEW p \in Procs, Step(p) \/ ReadData(p) \/ Start(p) PROVE LoneInv'
  BY <1>1, <1>3, LoneActs
<1>4. CASE Term \/ Hup \/ Kill
  BY <1>1, <1>4, LoneSignals
<1> QED  BY <1>2, <1>3, <1>4 DEF Next

LEMMA LoneForever == Spec /\ []Alone => []LoneInv
BY LoneInit, LoneNext, PTL DEF Spec

\* Whatever is read, cut short, killed, restarted or fails: the directory,
\* the files and every process of tinylog stay well formed.
THEOREM TinylogTyped == Spec => []TypeOK
BY TypeInit, TypeNext, PTL DEF Spec

\* Files marked clean are whole (tinylog.c, init_current() and the end of
\* main()): in every behaviour with one logger at a time, and whose command
\* lines agree about -r, an archive with suffix .s and a current that will be
\* resumed end with a whole line.
THEOREM CleanFilesWhole == SameResume => (Spec /\ []Alone => []FilesSafe)
<1> SUFFICES ASSUME SameResume PROVE Spec /\ []Alone => []FilesSafe
  OBVIOUS
<1>1. LoneInv => FilesSafe
  BY DEF LoneInv, DirInv, CleanIsWhole, Whole, FilesSafe, SafeIsWhole
<1> QED  BY <1>1, LoneForever, PTL

\* The size test of tinylog_post() works (tinylog.c): with one logger at a
\* time current never outgrows the size the command line asks for, over
\* resumes with a different size, rotations, kills and failures.
THEOREM CurrentFits == Spec /\ []Alone => []CurrentBounded
<1>1. LoneInv => CurrentBounded
  <2> SUFFICES ASSUME LoneInv, Current \in DOMAIN dir
               PROVE  \E o \in script : Len(file[dir[Current]].data) <= IF returned # {} THEN 2 * o.max ELSE o.max
    BY DEF CurrentBounded
  <2>1. PICK o \in script : Len(file[dir[Current]].data) <= o.max
    BY DEF LoneInv, DirInv, Bounded
  <2>2. o.max \in Nat /\ Len(file[dir[Current]].data) \in Nat
    BY ScriptMax, LenProperties DEF LoneInv, TypeOK
  <2>3. Len(file[dir[Current]].data) <= 2 * o.max
    BY <2>1, <2>2
  <2> QED  BY <2>1, <2>3
<1> QED  BY <1>1, LoneForever, PTL

LEMMA EndsOff ==
  ASSUME TypeOK, NEW p \in Procs, NEW ok, Ends(p, ok)
  PROVE  proc'[p] = Off /\ proc'[p].pc = "off"
BY DEF Ends, Off

\* In every other step a process keeps the flag, or ends.
LEMMA FlagKept ==
  ASSUME LoneInv, Alone', NEW p \in Procs, Step(p) \/ ReadData(p), ~OpenCurrent(p), ~Post(p)
  PROVE  proc'[p].flagrotate = proc[p].flagrotate \/ proc'[p].pc = "off"
<1>1. proc[p] \in Process
  BY DEF LoneInv, TypeOK
<1>2. ASSUME NEW ok, Ends(p, ok) PROVE proc'[p].pc = "off"
  BY <1>2, EndsOff DEF LoneInv
<1>3. ASSUME NEW label, Goto(p, label) PROVE proc'[p].flagrotate = proc[p].flagrotate
  <2>1. proc'[p] = [proc[p] EXCEPT !.pc = label]
    BY <1>3, SetOthers DEF Goto, LoneInv
  <2> QED  BY <1>1, <2>1 DEF Process
<1>4. CASE InitCurrent(p)
  <2>1. PICK pc, ext, size : Set(p, [proc[p] EXCEPT !.pc = pc, !.log = Current, !.ext = ext, !.size = size])
    BY <1>4 DEF InitCurrent
  <2>2. proc'[p] = [proc[p] EXCEPT !.pc = pc, !.log = Current, !.ext = ext, !.size = size]
    BY <2>1, SetOthers DEF LoneInv
  <2> QED  BY <1>1, <2>2 DEF Process
<1>5. CASE KeepLink(p)
  <2>1. PICK fn : \/ Set(p, [proc[p] EXCEPT !.fn = fn])
                  \/ Set(p, [proc[p] EXCEPT !.fn = fn, !.pc = "unlink"])
    BY <1>5 DEF KeepLink
  <2>2. \/ proc'[p] = [proc[p] EXCEPT !.fn = fn]
        \/ proc'[p] = [proc[p] EXCEPT !.fn = fn, !.pc = "unlink"]
    BY <2>1, SetOthers DEF LoneInv
  <2> QED  BY <1>1, <2>2 DEF Process
<1>6. CASE CollectLine(p)
  <2>1. PICK line \in Seq(Nat), buf \in Seq(Nat), pc \in {"line", "read", "post"} :
          Set(p, [proc[p] EXCEPT !.line = line, !.buf = buf, !.pc = pc])
    BY <1>6, Collected DEF LoneInv
  <2>2. proc'[p] = [proc[p] EXCEPT !.line = line, !.buf = buf, !.pc = pc]
    BY <2>1, SetOthers DEF LoneInv
  <2> QED  BY <1>1, <2>2 DEF Process
<1>7. CASE Set(p, AtEof(p))
  <2>1. PICK pc \in {"post", "close"} : AtEof(p) = [proc[p] EXCEPT !.eof = TRUE, !.pc = pc]
    BY AtEofTyped DEF LoneInv
  <2>2. proc'[p] = [proc[p] EXCEPT !.eof = TRUE, !.pc = pc]
    BY <1>7, <2>1, SetOthers DEF LoneInv
  <2> QED  BY <1>1, <2>2 DEF Process
<1>8. CASE ReadOp(p) \/ EnterRead(p) \/ ReadEof(p)
  BY <1>3, <1>7, <1>8 DEF ReadOp, EnterRead, ReadEof, Goto
<1>9. CASE ReadData(p)
  <2>1. PICK buf, left :
          Set(p, [proc[p] EXCEPT !.buf = buf, !.pc = "line", !.rest = IF proc[p].in = "pipe" THEN @ ELSE left])
    BY <1>9 DEF ReadData
  <2>2. proc'[p] = [proc[p] EXCEPT !.buf = buf, !.pc = "line",
                                   !.rest = IF proc[p].in = "pipe" THEN @ ELSE left]
    BY <2>1, SetOthers DEF LoneInv
  <2> QED  BY <1>1, <2>2 DEF Process
<1>10. CASE Rename(p)
  <2>1. proc'[p] = [proc[p] EXCEPT !.log = Previous, !.ext = "s", !.pc = "keep"]
    BY <1>10, SetOthers DEF LoneInv, Rename
  <2> QED  BY <1>1, <2>1 DEF Process
<1>11. CASE Write(p)
  <2>1. PICK k \in Nat \ {0}, part \in Seq(Nat), rest \in Seq(Nat), pc \in {"write", "close", "line"} :
          OneWrite(p, k, part, rest, pc)
    BY <1>11, Written, Zenon DEF LoneInv
  <2>2. proc'[p] = [proc[p] EXCEPT !.line = rest, !.size = proc[p].size + k, !.pc = pc]
    BY <2>1, SetOthers DEF LoneInv, OneWrite
  <2> QED  BY <1>1, <2>2 DEF Process
<1>12. CASE Close(p) \/ Fails(p)
  BY <1>2, <1>12 DEF Close, Fails
<1>13. CASE Prune(p)
  BY <1>2, <1>3, <1>13 DEF Prune
<1>14. CASE KeepStat(p) \/ KeepUnlink(p) \/ Publish(p) \/ Zchmod(p) \/ Drop(p) \/ Unzip(p)
  BY <1>3, <1>14 DEF KeepStat, KeepUnlink, Publish, Zchmod, Drop, Unzip
<1>15. CASE ForkGzip(p)
  <2>1. PICK k : proc'[p] = [proc[p] EXCEPT !.pc = "wait", !.kid = k]
    BY <1>15, Forked DEF LoneInv
  <2> QED  BY <1>1, <2>1 DEF Process
<1>16. CASE ExecGzip(p)
  <2>1. PICK text, i : Set(p, [proc[p] EXCEPT !.pc = "gzip", !.in = "file", !.rest = text, !.fd = i])
    BY <1>16 DEF ExecGzip
  <2>2. proc'[p] = [proc[p] EXCEPT !.pc = "gzip", !.in = "file", !.rest = text, !.fd = i]
    BY <2>1, SetOthers DEF LoneInv
  <2> QED  BY <1>1, <2>2 DEF Process
<1>17. CASE Gzip(p)
  BY <1>2, <1>17 DEF Gzip
<1> QED  BY <1>4, <1>5, <1>6, <1>8, <1>9, <1>10, <1>11, <1>12, <1>13, <1>14, <1>15, <1>16, <1>17,
            NoReturn DEF Step

\* What a step of one process does to the others: a gzip that ends wakes its
\* parent, and a free process becomes a child.
LEMMA OthersKept ==
  ASSUME LoneInv, Alone', NEW p \in Procs, Step(p) \/ ReadData(p) \/ Start(p),
         NEW q \in Procs \ {p}, Up(q)
  PROVE  /\ proc'[q].flagrotate = proc[q].flagrotate /\ proc'[q].line = proc[q].line
         /\ proc'[q].buf = proc[q].buf /\ proc'[q].in = proc[q].in /\ proc'[q].fn = proc[q].fn
<1>1. CASE ForkGzip(p)
  <2>1. proc'[q] = proc[q]
    BY <1>1, Forked DEF LoneInv
  <2> QED  BY <2>1
<1>2. CASE ExecGzip(p)
  <2>1. proc'[q] = proc[q]
    BY <1>2, SetOthers DEF ExecGzip, LoneInv
  <2> QED  BY <2>1
<1>3. CASE Gzip(p)
  <2>1. proc'[q] = proc[q] \/ \E pc : GzipOver(q, pc)
    BY <1>3, GzipEnds
  <2> QED  BY <2>1 DEF GzipOver
<1>4. CASE ~ForkGzip(p) /\ ~ExecGzip(p) /\ ~ChildReturns(p) /\ ~Gzip(p)
  <2>1. proc'[q] = proc[q]
    BY <1>4, LoneLogger DEF LogOf
  <2> QED  BY <2>1
<1> QED  BY <1>1, <1>2, <1>3, <1>4, NoReturn

\* ... and what a signal does.
LEMMA SignalKept ==
  ASSUME LoneInv, Term \/ Hup \/ Kill, NEW q \in Procs
  PROVE  \/ proc'[q].pc = "off"
         \/ /\ proc[q].flagrotate => proc'[q].flagrotate
            /\ Logger(q)' => Logger(q)
            /\ proc'[q].line = proc[q].line /\ proc'[q].buf = proc[q].buf /\ proc'[q].in = proc[q].in
            /\ proc'[q].fn = proc[q].fn
<1>1. PICK p \in Procs : p = main /\ ~Zipping(p)
  BY NoneAssumption DEF LoneInv, TypeOK, Term, Hup, Kill, ProcInv, Stage
<1>2. CASE Ends(main, FALSE)
  <2>1. Ends(p, FALSE)
    BY <1>1, <1>2
  <2>2. /\ \A r \in Procs \ {p} : proc'[r] = proc[r]
        /\ proc'[p].pc = "off"
    BY <1>1, <2>1, EndsLone
  <2> QED  BY <2>2 DEF Logger, Up, Zipping, At
<1>3. CASE \/ Set(p, [proc[p] EXCEPT !.flagexit = TRUE, !.pc = Handled(p)])
           \/ Set(p, [proc[p] EXCEPT !.flagrotate = TRUE, !.pc = Handled(p)])
  <2>1. /\ \A r \in Procs \ {p} : proc'[r] = proc[r]
        /\ \/ proc'[p] = [proc[p] EXCEPT !.flagexit = TRUE, !.pc = Handled(p)]
           \/ proc'[p] = [proc[p] EXCEPT !.flagrotate = TRUE, !.pc = Handled(p)]
    BY <1>3, SetOthers DEF LoneInv
  <2>2. proc[p] \in Process
    BY DEF LoneInv, TypeOK
  <2>3. /\ proc[p].flagrotate => proc'[p].flagrotate
        /\ proc'[p].pc = Handled(p)
        /\ proc'[p].line = proc[p].line /\ proc'[p].buf = proc[p].buf /\ proc'[p].in = proc[p].in
        /\ proc'[p].fn = proc[p].fn
    BY <2>1, <2>2 DEF Process
  <2>4. Logger(p)' => Logger(p)
    BY <2>3 DEF Handled, Logger, Up, Zipping, At
  <2> QED  BY <2>1, <2>3, <2>4 DEF Logger, Up, Zipping, At
<1>4. \/ Ends(main, FALSE)
      \/ Set(p, [proc[p] EXCEPT !.flagexit = TRUE, !.pc = Handled(p)])
      \/ Set(p, [proc[p] EXCEPT !.flagrotate = TRUE, !.pc = Handled(p)])
  <2>1. CASE Term
    BY <1>1, <2>1, Zenon DEF Term
  <2>2. CASE Hup
    BY <1>1, <2>2, Zenon DEF Hup
  <2>3. CASE Kill
    BY <1>1, <2>3, Zenon DEF Kill
  <2> QED  BY <2>1, <2>2, <2>3
<1> QED  BY <1>2, <1>3, <1>4

\* sig_handler() and flagrotate (tinylog.c): with one logger at a time a
\* SIGHUP, at whatever moment it comes, is forgotten only when there is
\* nothing in current that it could have rotated.
THEOREM HupsHonoured == Spec /\ []Alone => HupHonoured
<1> DEFINE Honoured(p) ==
      proc[p].flagrotate /\ Up(p) /\ proc'[p].pc # "off" /\ ~proc'[p].flagrotate
        => file'[proc'[p].fd].data = <<>> \/ returned # {}
<1>1. ASSUME LoneInv, Alone, Alone', Next, NEW q \in Procs PROVE Honoured(q)
  <2>1. ASSUME NEW p \in Procs, Step(p) \/ ReadData(p) \/ Start(p), q # p PROVE Honoured(q)
    BY <1>1, <2>1, OthersKept
  <2>2. CASE OpenCurrent(q)
    <3>1. CASE proc[q].init
      <4>1. PICK i : Set(q, [proc[q] EXCEPT !.pc = "line", !.fd = i, !.init = FALSE])
        BY <2>2, <3>1 DEF OpenCurrent
      <4>2. proc'[q] = [proc[q] EXCEPT !.pc = "line", !.fd = i, !.init = FALSE]
        BY <1>1, <4>1, SetOthers DEF LoneInv
      <4> QED  BY <1>1, <4>2 DEF LoneInv, TypeOK, Process
    <3> QED  BY <1>1, <2>2, <3>1, LoneOpenCurrent
  <2>3. CASE Post(q)
    BY <1>1, <2>3, LonePost
  <2>4. CASE Start(q)
    BY <2>4 DEF Start
  <2>5. CASE Step(q) \/ ReadData(q)
    BY <1>1, <2>2, <2>3, <2>5, FlagKept
  <2>6. CASE Term \/ Hup \/ Kill
    BY <1>1, <2>6, SignalKept
  <2> QED  BY <1>1, <2>1, <2>4, <2>5, <2>6 DEF Next
<1>2. LoneInv /\ Alone /\ Alone' /\ [Next]_vars =>
        [\A p \in Procs : Honoured(p)]_vars
  BY <1>1
<1> QED  BY <1>2, LoneForever, PTL DEF Spec, HupHonoured

-----------------------------------------------------------------------------
(***************************************************************************)
(* Nothing but the oldest text is lost.                                    *)
(***************************************************************************)

\* What the service will have written and nobody has read.
Ahead == Chars(SubSeq(input, pos + 1, Len(input)))

\* The text on its way through a process is newer than all that is in the
\* files, and older than what has not been read.
OnItsWay(p) ==
  LET text == Chars(proc[p].line) \cup Chars(proc[p].buf) IN
  /\ proc[p].in = "pipe"
  /\ Increasing(proc[p].line) /\ Increasing(proc[p].buf)
  /\ Below(Chars(proc[p].line), Chars(proc[p].buf))
  /\ Below(logged, text) /\ Below(text, Ahead)

InOrder ==
  /\ Increasing(input)
  /\ Below(logged, Ahead)
  /\ \A p \in Procs : Logger(p) => OnItsWay(p)

\* What a step of process p does to the text.
OrderOf(p) == Below(logged, Ahead)' /\ (Logger(p) => OnItsWay(p))'

\* Steps that leave the text and the archive's name alone, or end the process.
LEMMA FieldsKept ==
  ASSUME LoneInv, Alone', NEW p \in Procs, Step(p),
         ~CollectLine(p), ~Post(p), ~Write(p), ~KeepLink(p), ~ExecGzip(p)
  PROVE  \/ /\ proc'[p].line = proc[p].line /\ proc'[p].buf = proc[p].buf /\ proc'[p].in = proc[p].in
            /\ proc'[p].fn = proc[p].fn
         \/ proc'[p].pc = "off"
<1> DEFINE Same == /\ proc'[p].line = proc[p].line /\ proc'[p].buf = proc[p].buf
                   /\ proc'[p].in = proc[p].in /\ proc'[p].fn = proc[p].fn
<1>1. proc[p] \in Process
  BY DEF LoneInv, TypeOK
<1>2. ASSUME NEW ok, Ends(p, ok) PROVE proc'[p].pc = "off"
  BY <1>2, EndsOff DEF LoneInv
<1>3. ASSUME NEW label, Goto(p, label) PROVE Same
  <2>1. proc'[p] = [proc[p] EXCEPT !.pc = label]
    BY <1>3, SetOthers DEF Goto, LoneInv
  <2> QED  BY <1>1, <2>1 DEF Process
<1>4. CASE InitCurrent(p)
  <2>1. PICK pc, ext, size : Set(p, [proc[p] EXCEPT !.pc = pc, !.log = Current, !.ext = ext, !.size = size])
    BY <1>4 DEF InitCurrent
  <2>2. proc'[p] = [proc[p] EXCEPT !.pc = pc, !.log = Current, !.ext = ext, !.size = size]
    BY <2>1, SetOthers DEF LoneInv
  <2> QED  BY <1>1, <2>2 DEF Process
<1>5. CASE Set(p, AtEof(p))
  <2>1. PICK pc \in {"post", "close"} : AtEof(p) = [proc[p] EXCEPT !.eof = TRUE, !.pc = pc]
    BY AtEofTyped DEF LoneInv
  <2>2. proc'[p] = [proc[p] EXCEPT !.eof = TRUE, !.pc = pc]
    BY <1>5, <2>1, SetOthers DEF LoneInv
  <2> QED  BY <1>1, <2>2 DEF Process
<1>6. CASE ReadOp(p) \/ EnterRead(p) \/ ReadEof(p)
  BY <1>3, <1>5, <1>6 DEF ReadOp, EnterRead, ReadEof, Goto
<1>7. CASE OpenCurrent(p)
  <2>1. PICK i : \/ Set(p, [proc[p] EXCEPT !.pc = "line", !.fd = i, !.init = FALSE])
                 \/ Set(p, [proc[p] EXCEPT !.pc = "write", !.fd = i, !.size = 0, !.flagrotate = FALSE])
    BY <1>7 DEF OpenCurrent
  <2>2. \/ proc'[p] = [proc[p] EXCEPT !.pc = "line", !.fd = i, !.init = FALSE]
        \/ proc'[p] = [proc[p] EXCEPT !.pc = "write", !.fd = i, !.size = 0, !.flagrotate = FALSE]
    BY <2>1, SetOthers DEF LoneInv
  <2> QED  BY <1>1, <2>2 DEF Process
<1>8. CASE Rename(p)
  <2>1. proc'[p] = [proc[p] EXCEPT !.log = Previous, !.ext = "s", !.pc = "keep"]
    BY <1>8, SetOthers DEF LoneInv, Rename
  <2> QED  BY <1>1, <2>1 DEF Process
<1>9. CASE Close(p) \/ Fails(p)
  BY <1>2, <1>9 DEF Close, Fails
<1>10. CASE Prune(p)
  BY <1>2, <1>3, <1>10 DEF Prune
<1>11. CASE KeepStat(p) \/ KeepUnlink(p) \/ Publish(p) \/ Zchmod(p) \/ Drop(p) \/ Unzip(p)
  BY <1>3, <1>11 DEF KeepStat, KeepUnlink, Publish, Zchmod, Drop, Unzip
<1>12. CASE ForkGzip(p)
  <2>1. PICK k : proc'[p] = [proc[p] EXCEPT !.pc = "wait", !.kid = k]
    BY <1>12, Forked DEF LoneInv
  <2> QED  BY <1>1, <2>1 DEF Process
<1>13. CASE Gzip(p)
  BY <1>2, <1>13 DEF Gzip
<1> QED  BY <1>4, <1>6, <1>7, <1>8, <1>9, <1>10, <1>11, <1>12, <1>13, NoReturn DEF Step

LEMMA OrderKept ==
  ASSUME InOrder, NEW p \in Procs, UNCHANGED <<input, pos, logged>>,
         \/ /\ Logger(p) /\ proc'[p].line = proc[p].line /\ proc'[p].buf = proc[p].buf
            /\ proc'[p].in = proc[p].in
         \/ ~Logger(p)'
  PROVE  OrderOf(p)
<1>1. logged' = logged /\ Ahead' = Ahead
  BY DEF Ahead
<1>2. Below(logged, Ahead)'
  BY <1>1 DEF InOrder, Below
<1>3. ASSUME Logger(p)' PROVE OnItsWay(p)'
  <2>1. OnItsWay(p) /\ proc'[p].line = proc[p].line /\ proc'[p].buf = proc[p].buf
        /\ proc'[p].in = proc[p].in
    BY <1>3 DEF InOrder
  <2> QED  BY <1>1, <2>1 DEF OnItsWay, Increasing, Below
<1> QED  BY <1>2, <1>3 DEF OrderOf

LEMMA OrderStart ==
  ASSUME LoneInv, InOrder, NEW p \in Procs, Start(p)
  PROVE  OrderOf(p)
<1>1. PICK o \in script : Set(p, [Off EXCEPT !.pc = "init", !.init = TRUE, !.opt = o])
  BY DEF Start
<1>2. proc'[p] = [Off EXCEPT !.pc = "init", !.init = TRUE, !.opt = o]
  BY <1>1, SetOthers DEF LoneInv
<1>3. proc'[p].line = <<>> /\ proc'[p].buf = <<>> /\ proc'[p].in = "pipe"
  BY <1>2 DEF Off
<1>4. Chars(<<>>) = {} /\ Increasing(<<>>)
  BY DEF Chars, Increasing
<1>5. OnItsWay(p)'
  BY <1>3, <1>4 DEF OnItsWay, Below, Chars, Increasing
<1>6. Below(logged, Ahead)'
  BY DEF Start, InOrder, Ahead, Below
<1> QED  BY <1>5, <1>6 DEF OrderOf

LEMMA OrderCollectLine ==
  ASSUME LoneInv, InOrder, NEW p \in Procs, CollectLine(p)
  PROVE  OrderOf(p)
<1>1. PICK line \in Seq(Nat), buf \in Seq(Nat), pc \in {"line", "read", "post"} :
        /\ TakenFrom(proc[p].line, proc[p].buf, line, buf)
        /\ Set(p, [proc[p] EXCEPT !.line = line, !.buf = buf, !.pc = pc])
  BY Collected DEF LoneInv
<1>2. proc'[p] = [proc[p] EXCEPT !.line = line, !.buf = buf, !.pc = pc] /\ proc[p] \in Process
  BY <1>1, SetOthers DEF LoneInv, TypeOK
<1>3. proc'[p].line = line /\ proc'[p].buf = buf /\ proc'[p].in = proc[p].in
  BY <1>2 DEF Process
<1>4. OnItsWay(p)
  BY DEF InOrder, CollectLine, Logger, Zipping, At, Up
<1>5. logged' = logged /\ Ahead' = Ahead
  BY DEF CollectLine, Ahead
<1>6. OnItsWay(p)'
  <2>1. \A c \in Chars(line) \cup Chars(buf) : c \in Chars(proc[p].line) \cup Chars(proc[p].buf)
    BY <1>1 DEF TakenFrom
  <2>2. Increasing(line) /\ Increasing(buf) /\ Below(Chars(line), Chars(buf))
    BY <1>1, <1>4 DEF TakenFrom, OnItsWay
  <2>3. /\ Below(logged, Chars(line) \cup Chars(buf))
        /\ Below(Chars(line) \cup Chars(buf), Ahead)
    BY <1>4, <2>1 DEF OnItsWay, Below
  <2>4. proc'[p].in = "pipe"
    BY <1>3, <1>4 DEF OnItsWay
  <2>5. OnItsWay(p)' <=>
          /\ proc'[p].in = "pipe"
          /\ Increasing(line) /\ Increasing(buf) /\ Below(Chars(line), Chars(buf))
          /\ Below(logged, Chars(line) \cup Chars(buf)) /\ Below(Chars(line) \cup Chars(buf), Ahead)
    BY <1>3, <1>5 DEF OnItsWay, Increasing, Below
  <2> QED  BY <2>2, <2>3, <2>4, <2>5
<1> QED  BY <1>5, <1>6 DEF OrderOf, InOrder, Below

LEMMA OrderPost ==
  ASSUME LoneInv, InOrder, NEW p \in Procs, Post(p)
  PROVE  OrderOf(p)
<1> DEFINE text == Append(proc[p].line, NL)
<1>1. \/ Set(p, [proc[p] EXCEPT !.line = text, !.fd = None, !.pc = "rename"])
      \/ \E rotate \in BOOLEAN :
           Set(p, [proc[p] EXCEPT !.line = text, !.flagrotate = rotate, !.pc = "write"])
  <2>1. proc[p].flagrotate \in BOOLEAN
    BY DEF LoneInv, TypeOK, Process
  <2> QED  BY <2>1 DEF Post
<1>2. /\ proc[p] \in Process /\ proc[p].line \in Seq(Nat)
      /\ \/ proc'[p] = [proc[p] EXCEPT !.line = text, !.fd = None, !.pc = "rename"]
         \/ \E rotate \in BOOLEAN :
              proc'[p] = [proc[p] EXCEPT !.line = text, !.flagrotate = rotate, !.pc = "write"]
  BY <1>1, SetOthers DEF LoneInv, TypeOK, Process
<1> HIDE DEF text
<1>3. proc'[p].line = text /\ proc'[p].buf = proc[p].buf /\ proc'[p].in = proc[p].in
  BY <1>2 DEF Process
<1>4. Chars(text) = Chars(proc[p].line) /\ (Increasing(proc[p].line) => Increasing(text))
  BY <1>2, Ended DEF text
<1>5. OnItsWay(p)
  BY DEF InOrder, Post, Logger, Zipping, At, Up
<1>6. logged' = logged /\ Ahead' = Ahead
  BY DEF Post, Ahead
<1>7. OnItsWay(p)' <=>
        /\ proc[p].in = "pipe"
        /\ Increasing(text) /\ Increasing(proc[p].buf) /\ Below(Chars(text), Chars(proc[p].buf))
        /\ Below(logged, Chars(text) \cup Chars(proc[p].buf))
        /\ Below(Chars(text) \cup Chars(proc[p].buf), Ahead)
  BY <1>3, <1>6 DEF OnItsWay, Increasing, Below
<1>8. OnItsWay(p)'
  BY <1>4, <1>5, <1>7 DEF OnItsWay
<1> QED  BY <1>6, <1>8 DEF OrderOf, InOrder, Below

\* read() takes the next characters off the pipe.
LEMMA OrderReadData ==
  ASSUME LoneInv, InOrder, NEW p \in Procs, ReadData(p)
  PROVE  OrderOf(p)
<1> DEFINE left == SubSeq(input, pos + 1, Len(input))
<1>1. OnItsWay(p) /\ proc[p] \in Process /\ proc[p].in = "pipe" /\ Stdin(p) = left
  <2>1. Logger(p)
    BY DEF ReadData, Logger, Zipping, At, Up
  <2> QED  BY <2>1 DEF InOrder, OnItsWay, LoneInv, TypeOK, Stdin
<1>2. PICK k \in 1 .. InBuf :
        /\ k <= Len(left)
        /\ pos' = pos + k
        /\ \E rest : Set(p, [proc[p] EXCEPT !.buf = SubSeq(left, 1, k), !.pc = "line", !.rest = rest])
  BY <1>1 DEF ReadData, Got
<1>3. input \in Seq(Nat) /\ Len(input) \in Nat /\ pos \in Nat /\ pos <= Len(input) /\ k \in Nat \ {0}
  BY <1>2, InputsAssumption, LineAssumption, LenProperties DEF LoneInv, TypeOK
<1> DEFINE buf == SubSeq(left, 1, k)
           ahead == SubSeq(input, pos + k + 1, Len(input))
<1>4. /\ Chars(buf) \subseteq Chars(left) /\ Chars(ahead) \subseteq Chars(left)
      /\ Increasing(input) => Increasing(buf) /\ Below(Chars(buf), Chars(ahead))
  <2>1. Len(left) = Len(input) - pos
    BY <1>3, TailOf
  <2>2. k \in Nat /\ k <= Len(input) - pos
    BY <1>2, <1>3, <2>1
  <2> QED  BY <1>3, <2>2, NextOf
<1>5. proc'[p].line = proc[p].line /\ proc'[p].buf = buf /\ proc'[p].in = "pipe"
  <2>1. PICK rest : proc'[p] = [proc[p] EXCEPT !.buf = buf, !.pc = "line", !.rest = rest]
    BY <1>2, SetOthers DEF LoneInv
  <2> HIDE DEF buf
  <2> QED  BY <1>1, <2>1 DEF Process
<1>6. Ahead = Chars(left) /\ Ahead' = Chars(ahead) /\ logged' = logged
  <2>1. input' = input /\ logged' = logged
    BY DEF ReadData
  <2> QED  BY <1>2, <2>1 DEF Ahead
<1> HIDE DEF left, buf, ahead
<1>7. OnItsWay(p)' <=>
        /\ Increasing(proc[p].line) /\ Increasing(buf) /\ Below(Chars(proc[p].line), Chars(buf))
        /\ Below(logged, Chars(proc[p].line) \cup Chars(buf))
        /\ Below(Chars(proc[p].line) \cup Chars(buf), Chars(ahead))
  BY <1>5, <1>6 DEF OnItsWay, Increasing, Below
<1>8. /\ Below(Chars(proc[p].line), Chars(left)) /\ Below(logged, Chars(left))
      /\ Below(logged, Chars(proc[p].line)) /\ Increasing(proc[p].line) /\ Increasing(input)
  BY <1>1, <1>6 DEF OnItsWay, Below, InOrder
<1>9. OnItsWay(p)'
  BY <1>4, <1>7, <1>8 DEF Below
<1>10. Below(logged, Chars(ahead))
  BY <1>4, <1>8 DEF Below
<1> QED  BY <1>6, <1>9, <1>10 DEF OrderOf, Below

LEMMA OrderWrite ==
  ASSUME LoneInv, InOrder, NEW p \in Procs, Write(p)
  PROVE  OrderOf(p)
<1>1. PICK k \in Nat \ {0}, part \in Seq(Nat), rest \in Seq(Nat), pc \in {"write", "close", "line"} :
        OneWrite(p, k, part, rest, pc)
  BY Written, Zenon DEF LoneInv
<1>2. OnItsWay(p) /\ proc[p] \in Process /\ proc[p].line \in Seq(Nat) /\ Len(proc[p].line) \in Nat
  <2>1. Logger(p)
    BY DEF Write, Logger, Zipping, At, Up
  <2> QED  BY <2>1, LenProperties DEF InOrder, LoneInv, TypeOK, Process
<1>3. proc'[p] = [proc[p] EXCEPT !.line = rest, !.size = proc[p].size + k, !.pc = pc]
  BY <1>1, SetOthers DEF LoneInv, OneWrite
<1>4. proc'[p].line = rest /\ proc'[p].buf = proc[p].buf /\ proc'[p].in = proc[p].in
  BY <1>2, <1>3 DEF Process
<1>5. logged' = logged \cup Chars(part) /\ k <= Len(proc[p].line)
      /\ part = SubSeq(proc[p].line, 1, k) /\ rest = SubSeq(proc[p].line, k + 1, Len(proc[p].line))
  BY <1>1 DEF OneWrite
<1>6. Increasing(proc[p].line)
  BY <1>2 DEF OnItsWay
<1>7. Chars(part) \subseteq Chars(proc[p].line)
  <2>1. 1 \in Nat \ {0}
    OBVIOUS
  <2> QED  BY <1>2, <1>5, <2>1, PartOf
<1>8. Chars(rest) \subseteq Chars(proc[p].line) /\ Increasing(rest) /\ Below(Chars(part), Chars(rest))
  <2>1. Len(proc[p].line) <= Len(proc[p].line) /\ k < k + 1 /\ k + 1 \in Nat \ {0}
    BY <1>2
  <2> QED  BY <1>2, <1>5, <1>6, <2>1, PartOf, PartsBelow
<1>9. Ahead' = Ahead
  BY DEF Write, Ahead
<1>10. OnItsWay(p)' <=>
        /\ proc[p].in = "pipe"
        /\ Increasing(rest) /\ Increasing(proc[p].buf) /\ Below(Chars(rest), Chars(proc[p].buf))
        /\ Below(logged \cup Chars(part), Chars(rest) \cup Chars(proc[p].buf))
        /\ Below(Chars(rest) \cup Chars(proc[p].buf), Ahead)
  BY <1>4, <1>5, <1>9 DEF OnItsWay, Increasing, Below
<1>11. /\ Below(Chars(proc[p].line), Chars(proc[p].buf)) /\ Increasing(proc[p].buf)
       /\ Below(logged, Chars(proc[p].line) \cup Chars(proc[p].buf)) /\ proc[p].in = "pipe"
       /\ Below(Chars(proc[p].line) \cup Chars(proc[p].buf), Ahead)
  BY <1>2 DEF OnItsWay
<1>12. OnItsWay(p)'
  BY <1>7, <1>8, <1>10, <1>11 DEF Below
<1>13. Below(logged', Ahead)
  BY <1>5, <1>7, <1>11 DEF InOrder, Below
<1> QED  BY <1>9, <1>12, <1>13 DEF OrderOf, Below

LEMMA SignalFields ==
  ASSUME LoneInv, NEW p \in Procs,
         \/ Set(p, [proc[p] EXCEPT !.flagexit = TRUE, !.pc = Handled(p)])
         \/ Set(p, [proc[p] EXCEPT !.flagrotate = TRUE, !.pc = Handled(p)])
  PROVE  /\ proc'[p].line = proc[p].line /\ proc'[p].buf = proc[p].buf /\ proc'[p].in = proc[p].in
         /\ proc'[p].fn = proc[p].fn /\ proc'[p].init = proc[p].init /\ proc'[p].log = proc[p].log
         /\ proc'[p].pc = proc[p].pc \/ (proc[p].pc = "reading" /\ proc'[p].pc = "read")
<1>1. /\ proc[p] \in Process
      /\ \/ proc'[p] = [proc[p] EXCEPT !.flagexit = TRUE, !.pc = Handled(p)]
         \/ proc'[p] = [proc[p] EXCEPT !.flagrotate = TRUE, !.pc = Handled(p)]
  BY SetOthers DEF LoneInv, TypeOK
<1>2. Handled(p) = proc[p].pc \/ (proc[p].pc = "reading" /\ Handled(p) = "read")
  BY DEF Handled, At
<1> QED  BY <1>1, <1>2 DEF Process

\* Besides the process that makes a step nobody logs, unless that is a gzip.
LEMMA OthersQuiet ==
  ASSUME LoneInv, Alone, Alone', NEW p \in Procs, Step(p) \/ ReadData(p) \/ Start(p),
         NEW q \in Procs \ {p}, Logger(q)'
  PROVE  Logger(q) /\ (ExecGzip(p) \/ Gzip(p))
<1>1. CASE ForkGzip(p)
  <2>1. Pid # p /\ proc'[Pid] = [proc[p] EXCEPT !.pc = "child"] /\ (q # Pid => proc'[q] = proc[q])
    BY <1>1, Forked DEF LoneInv
  <2>2. proc[p] \in Process
    BY DEF LoneInv, TypeOK
  <2>3. q # Pid
    BY <2>1, <2>2 DEF Process, Logger, Zipping
  <2>4. Only(p)
    BY <1>1, LoneActive DEF ForkGzip, ExecGzip, ChildReturns, Gzip, At
  <2> QED  BY <2>1, <2>3, <2>4 DEF Only, Logger, Up, Zipping
<1>2. CASE ExecGzip(p)
  <2>1. proc'[q] = proc[q]
    BY <1>2, SetOthers DEF ExecGzip, LoneInv
  <2> QED  BY <1>2, <2>1 DEF Logger, Up, Zipping
<1>3. CASE Gzip(p)
  <2>1. proc[q].kid # p => proc'[q] = proc[q]
    BY <1>3, GzipEnds
  <2>2. proc[q].kid = p => At(q, "wait")
    BY NoneAssumption DEF LoneInv, ProcInv, Stage
  <2> QED  BY <1>3, <2>1, <2>2 DEF Logger, Up, Zipping, At
<1>4. CASE ~ForkGzip(p) /\ ~ExecGzip(p) /\ ~ChildReturns(p) /\ ~Gzip(p)
  <2>1. proc'[q] = proc[q] /\ ~Logger(q)
    BY <1>4, LoneLogger, LoneActive DEF LogOf, Only
  <2> QED  BY <2>1 DEF Logger, Up, Zipping
<1> QED  BY <1>1, <1>2, <1>3, <1>4, NoReturn

LEMMA OrderNext == LoneInv /\ InOrder /\ Alone /\ Alone' /\ [Next]_vars => InOrder'
<1> SUFFICES ASSUME LoneInv, InOrder, Alone, Alone', [Next]_vars PROVE InOrder'
  OBVIOUS
<1>1. CASE UNCHANGED vars
  <2>1. logged' = logged /\ Ahead' = Ahead /\ proc' = proc /\ input' = input
    BY <1>1 DEF vars, Ahead
  <2> QED  BY <2>1 DEF InOrder, OnItsWay, Below, Increasing, Logger, Up, Zipping
<1>2. ASSUME NEW p \in Procs, Step(p) \/ ReadData(p) \/ Start(p) PROVE InOrder'
  <2>1. input' = input
    BY <1>2 DEF Step, ReadData, Start, InitCurrent, KeepStat, KeepLink, KeepUnlink, ForkGzip,
       ExecGzip, ChildReturns, Gzip, Publish, Zchmod, Drop, Unzip, Prune, OpenCurrent, CollectLine,
       ReadOp, EnterRead, ReadEof, Post, Rename, Write, Close, Fails
  <2>2. CASE CollectLine(p) \/ Post(p) \/ Write(p) \/ ReadData(p) \/ Start(p)
    <3>1. OrderOf(p)
      BY <2>2, OrderCollectLine, OrderPost, OrderWrite, OrderReadData, OrderStart
    <3>2. ~ExecGzip(p) /\ ~Gzip(p)
      BY <2>2 DEF CollectLine, Post, Write, ReadData, Start, ExecGzip, Gzip, At, Up
    <3>3. \A q \in Procs \ {p} : ~Logger(q)'
      BY <1>2, <3>2, OthersQuiet
    <3> QED  BY <2>1, <3>1, <3>3 DEF InOrder, OrderOf, Increasing
  <2>3. CASE Step(p) /\ ~CollectLine(p) /\ ~Post(p) /\ ~Write(p)
    <3>1. UNCHANGED <<input, pos, logged>>
      BY <2>3 DEF Step, InitCurrent, KeepStat, KeepLink, KeepUnlink, ForkGzip,
         ExecGzip, ChildReturns, Gzip, Publish, Zchmod, Drop, Unzip, Prune, OpenCurrent, ReadOp,
         EnterRead, ReadEof, Rename, Close, Fails
    <3>2. CASE ExecGzip(p) \/ Gzip(p)
      <4>1. ~Logger(p)'
        <5>1. CASE ExecGzip(p)
          <6>1. PICK text, i : Set(p, [proc[p] EXCEPT !.pc = "gzip", !.in = "file", !.rest = text, !.fd = i])
            BY <5>1 DEF ExecGzip
          <6>2. proc'[p] = [proc[p] EXCEPT !.pc = "gzip", !.in = "file", !.rest = text, !.fd = i]
                /\ proc[p] \in Process
            BY <6>1, SetOthers DEF LoneInv, TypeOK
          <6> QED  BY <6>2 DEF Process, Logger, Zipping
        <5>2. CASE Gzip(p)
          BY <5>2, EndsOff DEF Gzip, LoneInv, Logger, Up
        <5> QED  BY <3>2, <5>1, <5>2
      <4>2. OrderOf(p)
        BY <3>1, <4>1, OrderKept
      <4>3. ASSUME NEW q \in Procs \ {p}, Logger(q)' PROVE OnItsWay(q)'
        <5>1. Logger(q)
          BY <1>2, <4>3, OthersQuiet
        <5>2. Up(q)
          BY <5>1 DEF Logger
        <5>3. proc'[q].line = proc[q].line /\ proc'[q].buf = proc[q].buf /\ proc'[q].in = proc[q].in
          BY <1>2, <5>2, OthersKept
        <5>4. OrderOf(q)
          BY <3>1, <5>1, <5>3, OrderKept
        <5> QED  BY <4>3, <5>4 DEF OrderOf
      <4> QED  BY <2>1, <4>2, <4>3 DEF InOrder, OrderOf, Increasing
    <3>3. CASE ~ExecGzip(p) /\ ~Gzip(p)
      <4>1. Logger(p)
        BY <2>3, <3>3, NoReturn DEF Step, Logger, Zipping, Up, At, InitCurrent, KeepStat, KeepLink,
           KeepUnlink, ForkGzip, Publish, Zchmod, Drop, Unzip, Prune, OpenCurrent, CollectLine, ReadOp,
           EnterRead, ReadEof, Post, Rename, Write, Close, Fails, Retried, LoneInv, ProcInv, Stage
      <4>2. OrderOf(p)
        <5>1. CASE KeepLink(p)
          <6>1. PICK fn : \/ Set(p, [proc[p] EXCEPT !.fn = fn])
                          \/ Set(p, [proc[p] EXCEPT !.fn = fn, !.pc = "unlink"])
            BY <5>1 DEF KeepLink
          <6>2. /\ proc[p] \in Process
                /\ \/ proc'[p] = [proc[p] EXCEPT !.fn = fn]
                   \/ proc'[p] = [proc[p] EXCEPT !.fn = fn, !.pc = "unlink"]
            BY <6>1, SetOthers DEF LoneInv, TypeOK
          <6>3. proc'[p].line = proc[p].line /\ proc'[p].buf = proc[p].buf /\ proc'[p].in = proc[p].in
            BY <6>2 DEF Process
          <6> QED  BY <3>1, <4>1, <6>3, OrderKept
        <5>2. CASE ~KeepLink(p)
          BY <2>3, <3>1, <3>3, <4>1, <5>2, FieldsKept, OrderKept DEF Logger, Up
        <5> QED  BY <5>1, <5>2
      <4>3. \A q \in Procs \ {p} : ~Logger(q)'
        BY <1>2, <3>3, OthersQuiet
      <4> QED  BY <2>1, <4>2, <4>3 DEF InOrder, OrderOf, Increasing
    <3> QED  BY <3>2, <3>3
  <2> QED  BY <1>2, <2>2, <2>3
<1>3. CASE Term \/ Hup \/ Kill
  <2>1. UNCHANGED <<input, pos, logged>>
    BY <1>3 DEF Term, Hup, Kill
  <2>2. ASSUME NEW q \in Procs PROVE OrderOf(q)
    <3>1. CASE Logger(q)'
      <4>1. /\ Logger(q)
            /\ proc'[q].line = proc[q].line /\ proc'[q].buf = proc[q].buf /\ proc'[q].in = proc[q].in
        BY <1>3, <3>1, SignalKept DEF Logger, Up
      <4> QED  BY <2>1, <4>1, OrderKept
    <3> QED  BY <2>1, <3>1, OrderKept
  <2>3. Below(logged, Ahead)'
    BY <2>1 DEF Ahead, InOrder, Below
  <2> QED  BY <2>1, <2>2, <2>3 DEF InOrder, OrderOf, Increasing
<1> QED  BY <1>1, <1>2, <1>3 DEF Next

-----------------------------------------------------------------------------
(* The directory: the archives are in order, and what is gone is the oldest. *)

Mixed(n) == file[dir[n]].mixed

\* "previous" is being archived by the process perpd started.
Turning == main \in Procs /\ ~proc[main].init /\ Keeping(main)
\* The last archive exists twice, zipped and not.
Doubled == main \in Procs /\ proc[main].pc \in {"zchmod", "drop"}

Shape ==
  /\ IsFiniteSet(DOMAIN dir)
  /\ \A n \in DOMAIN dir :
       \/ n \in {Current, Previous, Zipped}
       \/ n \in Archives /\ n.t \in 1 .. clock /\ n.ext \in {"s", "u"}
  /\ Current \in DOMAIN dir /\ Previous \in DOMAIN dir => dir[Current] # dir[Previous]

\* No archive holds anything newer than this log does.
Newest(n) == n \in DOMAIN dir => \A m \in Archives : dir[m] = dir[n] \/ Below(Body(m), Body(n))

Sorted ==
  /\ \A m, n \in Archives : m.t = n.t => Body(m) = Body(n) \/ Mixed(m) \/ Mixed(n)
  /\ \A m, n \in Archives : m.t < n.t => Below(Body(m), Body(n))
  /\ Newest(Current)
  /\ Turning => Newest(Previous)
  /\ \A n \in DOMAIN dir \ {Zipped} : Body(n) \subseteq logged

\* What tinylog_keep() knows of the archive it is making.
Keeper(p) ==
  LET fn == proc[p].fn
      log == proc[p].log
      pc == proc[p].pc
  IN /\ fn.kind = "archive"
     /\ pc = "link" /\ log \in DOMAIN dir => \A n \in DOMAIN dir : dir[n] = dir[log] => n = log
     /\ pc = "unlink" /\ log \in DOMAIN dir => \E n \in Archives : dir[n] = dir[log]
     /\ pc \notin {"off", "link", "zchmod", "drop"} /\ fn \in DOMAIN dir => Gz(fn) \notin DOMAIN dir
     /\ pc \in {"publish", "zchmod", "drop"} => fn \in DOMAIN dir
     /\ pc = "publish" /\ Zipped \in DOMAIN dir => Body(Zipped) = Body(fn) \/ Mixed(Zipped)
     /\ pc \in {"zchmod", "drop"} => Gz(fn) \in DOMAIN dir

\* The names whose text is kept in order, and those whose text is not lost:
\* what a killed process leaves in "previous" is not lost before the next
\* process finds it.
Live == {n \in DOMAIN dir : n # Zipped /\ (n = Previous => Turning)}
Held == {n \in DOMAIN dir : n # Zipped /\ (n = Previous => Turning \/ main = None)}
Gone == {c \in logged \ risked : \A n \in Held : c \notin Body(n)}

\* Pruning leaves as many archives as -k asks for, also once the second of
\* two forms of an archive is removed.
Counted == {n \in Archives : Doubled => n # proc[main].fn}
Enough == \E o \in script : Cardinality(Counted) >= o.keep

Aged == \A c \in Gone : Enough /\ \A n \in Live : \A k \in Body(n) : c < k

KeptInv == Shape /\ Sorted /\ (main \in Procs => Keeper(main)) /\ Aged

SameData == \A i \in Inodes : file'[i].data = file[i].data /\ file'[i].mixed = file[i].mixed

\* A directory with the same or fewer names.
Fewer == DOMAIN dir' \subseteq DOMAIN dir /\ \A n \in DOMAIN dir' : dir'[n] = dir[n]

LEMMA BodiesKept ==
  ASSUME TypeOK, SameData, Fewer
  PROVE  /\ \A n \in DOMAIN dir' : Body(n)' = Body(n) /\ Mixed(n)' = Mixed(n)
         /\ Archives' = {n \in Archives : n \in DOMAIN dir'}
<1>1. ASSUME NEW n \in DOMAIN dir' PROVE Body(n)' = Body(n) /\ Mixed(n)' = Mixed(n)
  <2>1. dir'[n] = dir[n] /\ dir[n] \in Inodes
    BY DEF Fewer, TypeOK
  <2>2. file'[dir'[n]].data = file[dir[n]].data /\ file'[dir'[n]].mixed = file[dir[n]].mixed
    BY <2>1 DEF SameData
  <2> QED  BY <2>2 DEF Body, Mixed
<1>2. Archives' = {n \in Archives : n \in DOMAIN dir'}
  BY DEF Archives, Fewer
<1> QED  BY <1>1, <1>2

LEMMA SortedFewer ==
  ASSUME TypeOK, Shape, Sorted, SameData, Fewer, logged' = logged,
         clock' \in Nat, clock <= clock', Turning' => Turning
  PROVE  Shape' /\ Sorted'
<1>1. /\ \A n \in DOMAIN dir' : /\ n \in DOMAIN dir /\ dir'[n] = dir[n]
                              /\ Body(n)' = Body(n) /\ Mixed(n)' = Mixed(n)
      /\ \A n \in Archives' : n \in Archives /\ n \in DOMAIN dir'
      /\ \A n \in DOMAIN dir' : n \in Archives => n \in Archives'
  BY BodiesKept DEF Fewer
<1>2. IsFiniteSet(DOMAIN dir')
  BY FS_Subset DEF Fewer, Shape
<1>3. \A t \in 1 .. clock : t \in 1 .. clock'
  BY DEF TypeOK
<1>4. \A n \in DOMAIN dir' :
       \/ n \in {Current, Previous, Zipped}
       \/ n \in Archives' /\ n.t \in 1 .. clock' /\ n.ext \in {"s", "u"}
  BY <1>1, <1>3 DEF Shape
<1>5. Shape'
  BY <1>1, <1>2, <1>4 DEF Shape
<1>6. \A n : Newest(n) => Newest(n)'
  <2> SUFFICES ASSUME NEW n, Newest(n), n \in DOMAIN dir', NEW m \in Archives'
               PROVE  dir'[m] = dir'[n] \/ Below(Body(m)', Body(n)')
    BY DEF Newest, Below
  <2>1. dir[m] = dir[n] \/ Below(Body(m), Body(n))
    BY <1>1 DEF Newest
  <2> QED  BY <1>1, <2>1
<1>7. \A m, n \in Archives' : m.t = n.t => Body(m)' = Body(n)' \/ Mixed(m)' \/ Mixed(n)'
  BY <1>1 DEF Sorted
<1>8. \A m, n \in Archives' : m.t < n.t => Below(Body(m)', Body(n)')
  BY <1>1 DEF Sorted
<1>9. \A n \in DOMAIN dir' \ {Zipped} : Body(n)' \subseteq logged'
  BY <1>1 DEF Sorted
<1> QED  BY <1>5, <1>6, <1>7, <1>8, <1>9 DEF Sorted, Below

LEMMA EnoughStill ==
  ASSUME Shape', Enough, script' = script, script \in Scripts,
         \/ Counted \subseteq Counted'
         \/ \E m, n : m \in Counted /\ n \notin Counted /\ Counted' = (Counted \ {m}) \cup {n}
  PROVE  Enough'
<1>1. IsFiniteSet(Counted')
  <2>1. Counted' \subseteq DOMAIN dir'
    BY DEF Counted, Archives
  <2> QED  BY <2>1, FS_Subset DEF Shape
<1>2. Cardinality(Counted) <= Cardinality(Counted') /\ Cardinality(Counted) \in Nat
  <2>1. CASE Counted \subseteq Counted'
    BY <1>1, <2>1, FS_Subset, FS_CardinalityType
  <2>2. ASSUME NEW m, NEW n, m \in Counted, n \notin Counted, Counted' = (Counted \ {m}) \cup {n}
        PROVE  Cardinality(Counted) <= Cardinality(Counted') /\ Cardinality(Counted) \in Nat
    <3> DEFINE R == Counted \ {m}
    <3>1. IsFiniteSet(R) /\ n \notin R /\ m \notin R /\ Counted' = R \cup {n} /\ Counted = R \cup {m}
      <4>1. R \subseteq Counted'
        BY <2>2
      <4> QED  BY <1>1, <2>2, <4>1, FS_Subset
    <3> HIDE DEF R
    <3>2. Cardinality(R \cup {n}) = Cardinality(R) + 1
      BY <3>1, FS_AddElement
    <3>3. Cardinality(R \cup {m}) = Cardinality(R) + 1
      BY <3>1, FS_AddElement
    <3>4. Cardinality(R) \in Nat
      BY <3>1, FS_CardinalityType
    <3> QED  BY <3>1, <3>2, <3>3, <3>4
  <2> QED  BY <2>1, <2>2
<1>3. Cardinality(Counted') \in Nat
  BY <1>1, FS_CardinalityType
<1>4. PICK o \in script : Cardinality(Counted) >= o.keep
  BY DEF Enough
<1>5. o.keep \in Nat
  BY ScriptsAssumption DEF Option
<1>6. Cardinality(Counted') >= o.keep
  BY <1>2, <1>3, <1>4, <1>5
<1> QED  BY <1>6 DEF Enough

LEMMA AgedStill ==
  ASSUME Aged, Gone' \subseteq Gone, Enough => Enough',
         \A n \in Live' : \A k \in Body(n)' : \E m \in Live : k \in Body(m)
  PROVE  Aged'
<1>1. ASSUME NEW c \in Gone' PROVE Enough' /\ \A n \in Live' : \A k \in Body(n)' : c < k
  BY <1>1 DEF Aged
<1> QED  BY <1>1 DEF Aged

\* Increasing input is kept and lost as Retention says.
LEMMA KeptRetains == KeptInv /\ TypeOK => Retention
<1> SUFFICES ASSUME KeptInv, TypeOK, NEW c \in logged \ (Kept \cup risked)
             PROVE  /\ \A k \in Left : c < k
                    /\ \E o \in script : Cardinality(Archives) >= o.keep
  BY DEF Retention
<1>1. c \in Gone
  <2> SUFFICES ASSUME NEW n \in Held PROVE c \notin Body(n)
    BY DEF Gone
  <2> QED  BY DEF Kept, Held
<1>2. ASSUME NEW k \in Left PROVE c < k
  <2>1. PICK n \in DOMAIN dir \ {Zipped, Previous} : k \in Body(n)
    BY <1>2 DEF Left
  <2>2. n \in Live
    BY <2>1 DEF Live
  <2> QED  BY <1>1, <2>1, <2>2 DEF KeptInv, Aged
<1>3. PICK o \in script : Cardinality(Counted) >= o.keep
  BY <1>1 DEF KeptInv, Aged, Enough
<1>4. IsFiniteSet(Archives)
  <2>1. Archives \subseteq DOMAIN dir
    BY DEF Archives
  <2> QED  BY <2>1, FS_Subset DEF KeptInv, Shape
<1>5. Cardinality(Counted) <= Cardinality(Archives) /\ Cardinality(Counted) \in Nat /\ Cardinality(Archives) \in Nat
  <2>1. Counted \subseteq Archives
    BY DEF Counted
  <2> QED  BY <1>4, <2>1, FS_Subset, FS_CardinalityType
<1>6. o.keep \in Nat
  BY ScriptsAssumption DEF TypeOK, Option
<1>7. Cardinality(Archives) >= o.keep
  BY <1>3, <1>5, <1>6
<1> QED  BY <1>2, <1>7

LEMMA KeptInit == Init => KeptInv
<1> SUFFICES ASSUME Init PROVE KeptInv
  OBVIOUS
<1>1. DOMAIN dir = {} /\ Archives = {} /\ logged = {} /\ main = None
  BY DEF Init, Archives
<1>2. Shape
  BY <1>1, FS_EmptySet DEF Shape
<1>3. Sorted
  BY <1>1 DEF Sorted, Newest, Turning
<1>4. Aged
  BY <1>1 DEF Aged, Gone
<1> QED  BY <1>1, <1>2, <1>3, <1>4, NoneAssumption DEF KeptInv

\* The end of the process perpd started, at whatever system call.
LEMMA KeptEnds ==
  ASSUME LoneInv, KeptInv, main' = None, SameData, UNCHANGED <<dir, clock, script, logged, risked>>
  PROVE  KeptInv'
<1>1. Fewer /\ clock' \in Nat /\ clock <= clock' /\ TypeOK
  BY DEF Fewer, LoneInv, TypeOK
<1>2. ~Turning' /\ ~Doubled' /\ main' \notin Procs
  BY NoneAssumption DEF Turning, Doubled
<1>3. Shape' /\ Sorted'
  BY <1>1, <1>2, SortedFewer DEF KeptInv
<1>4. (\A n \in DOMAIN dir : Body(n)' = Body(n)) /\ Archives' = Archives
  <2>1. DOMAIN dir' = DOMAIN dir /\ Archives \subseteq DOMAIN dir
    BY DEF Archives
  <2> QED  BY <1>1, <2>1, BodiesKept
<1>5. Held \subseteq Held' /\ Live' \subseteq Live /\ Held \subseteq DOMAIN dir
  BY <1>2 DEF Held, Live
<1>6. Gone' \subseteq Gone
  BY <1>4, <1>5 DEF Gone
<1>7. Counted \subseteq Counted'
  BY <1>2, <1>4 DEF Counted
<1>8. Enough => Enough'
  BY <1>1, <1>3, <1>7, EnoughStill DEF TypeOK
<1>9. \A n \in Live' : \A k \in Body(n)' : \E m \in Live : k \in Body(m)
  <2>1. \A n \in Live' : n \in DOMAIN dir
    BY <1>5 DEF Live
  <2> QED  BY <1>4, <1>5, <2>1
<1>10. Aged'
  BY <1>6, <1>8, <1>9, AgedStill DEF KeptInv
<1> QED  BY <1>2, <1>3, <1>10 DEF KeptInv

\* A process finds what the last one left.
LEMMA KeptStart ==
  ASSUME LoneInv, KeptInv, NEW p \in Procs, Start(p)
  PROVE  KeptInv'
<1>1. PICK o \in script : Set(p, [Off EXCEPT !.pc = "init", !.init = TRUE, !.opt = o])
  BY DEF Start
<1>2. proc'[p] = [Off EXCEPT !.pc = "init", !.init = TRUE, !.opt = o]
  BY <1>1, SetOthers DEF LoneInv
<1>3. proc'[p].init /\ proc'[p].pc = "init" /\ proc'[p].fn = Template
  BY <1>2 DEF Off
<1>4. /\ main = None /\ main' = p /\ UNCHANGED <<dir, file, clock, script, logged>>
      /\ risked' = risked \cup (IF Previous \in DOMAIN dir /\ Nlink(dir[Previous]) = 1
                                    THEN Chars(file[dir[Previous]].data) ELSE {})
  BY DEF Start, disk
<1>5. ~Turning /\ ~Turning' /\ ~Doubled /\ ~Doubled'
  BY <1>3, <1>4, NoneAssumption DEF Turning, Doubled
<1>6. Fewer /\ clock' \in Nat /\ clock <= clock' /\ TypeOK /\ SameData
  BY <1>4 DEF Fewer, LoneInv, TypeOK, SameData
<1>7. Shape' /\ Sorted'
  BY <1>4, <1>5, <1>6, SortedFewer DEF KeptInv
<1>8. (\A n : Body(n)' = Body(n)) /\ Archives' = Archives
  BY <1>4 DEF Body, Archives
<1>9. Live' = Live /\ Counted' = Counted
  BY <1>4, <1>5, <1>8 DEF Live, Counted
<1>10. Gone' \subseteq Gone
  <2> SUFFICES ASSUME NEW c, c \in logged, c \notin risked', \A n \in Held' : c \notin Body(n),
                      NEW n \in Held
               PROVE  c \notin Body(n)
    BY <1>4, <1>8 DEF Gone
  <2>1. CASE n # Previous
    BY <1>4, <1>5, <2>1 DEF Held
  <2>2. CASE n = Previous /\ Nlink(dir[Previous]) = 1
    BY <1>4, <2>2 DEF Held, Body
  <2>3. CASE n = Previous /\ Nlink(dir[Previous]) # 1
    <3>1. PICK m \in DOMAIN dir : m # Previous /\ dir[m] = dir[Previous]
      <4>1. {m \in DOMAIN dir : dir[m] = dir[Previous]} # {Previous}
        BY <2>3, FS_Singleton DEF Nlink
      <4> QED  BY <2>3, <4>1 DEF Held
    <3>2. m # Zipped
      BY <3>1, <2>3, NamesDiffer DEF LoneInv, DirInv, Links, Held
    <3>3. m \in Held' /\ Body(m) = Body(n)
      BY <1>4, <2>3, <3>1, <3>2 DEF Held, Body
    <3> QED  BY <3>3
  <2> QED  BY <2>1, <2>2, <2>3
<1>11. Enough => Enough'
  BY <1>4, <1>6, <1>7, <1>9, EnoughStill DEF TypeOK
<1>12. \A n \in Live' : \A k \in Body(n)' : \E m \in Live : k \in Body(m)
  BY <1>8, <1>9
<1>13. Aged'
  BY <1>10, <1>11, <1>12, AgedStill DEF KeptInv
<1>14. Keeper(p)'
  <2>1. Template \notin DOMAIN dir
    <3>1. Template \notin {Current, Previous, Zipped} /\ ~(Template.t \in 1 .. clock)
      BY KindsDiffer
    <3> QED  BY <3>1 DEF KeptInv, Shape
  <2> QED  BY <1>3, <1>4, <2>1, KindsDiffer DEF Keeper
<1> QED  BY <1>4, <1>7, <1>13, <1>14 DEF KeptInv

\* Steps of the process perpd started that leave the directory alone.
LEMMA KeptQuiet ==
  ASSUME LoneInv, KeptInv, NEW p \in Procs, main = p, main' = p,
         SameData, UNCHANGED <<dir, script, logged, risked>>, clock' \in Nat, clock <= clock',
         Turning' => Turning, Turning => Turning' \/ Previous \notin DOMAIN dir,
         Doubled => Doubled' /\ proc'[p].fn = proc[p].fn, Doubled' => Doubled,
         Keeper(p)'
  PROVE  KeptInv'
<1>1. Fewer /\ TypeOK
  BY DEF Fewer, LoneInv
<1>2. Shape' /\ Sorted'
  BY <1>1, SortedFewer DEF KeptInv
<1>3. (\A n \in DOMAIN dir : Body(n)' = Body(n)) /\ Archives' = Archives
  <2>1. DOMAIN dir' = DOMAIN dir /\ Archives \subseteq DOMAIN dir
    BY DEF Archives
  <2> QED  BY <1>1, <2>1, BodiesKept
<1>4. main # None
  BY NoneAssumption
<1>5. Held' = Held /\ Live' = Live /\ Held \subseteq DOMAIN dir /\ Live \subseteq DOMAIN dir
  BY <1>4 DEF Held, Live
<1>6. Counted' = Counted
  BY <1>3 DEF Counted
<1>7. Gone' \subseteq Gone
  BY <1>3, <1>5 DEF Gone
<1>8. Enough => Enough'
  BY <1>1, <1>2, <1>6, EnoughStill DEF TypeOK
<1>9. \A n \in Live' : \A k \in Body(n)' : \E m \in Live : k \in Body(m)
  BY <1>3, <1>5
<1>10. Aged'
  BY <1>7, <1>8, <1>9, AgedStill DEF KeptInv
<1> QED  BY <1>2, <1>10 DEF KeptInv

LEMMA KeptIdle ==
  ASSUME LoneInv, KeptInv, NEW p \in Procs, main = p, main' = p,
         SameData, UNCHANGED <<dir, clock, script, logged, risked>>,
         proc'[p].fn = proc[p].fn, ~Turning, ~Turning',
         proc[p].pc \notin {"off", "link", "zchmod", "drop"},
         proc'[p].pc \notin {"link", "unlink", "publish", "zchmod", "drop"}
  PROVE  KeptInv'
<1>1. ~Doubled /\ ~Doubled' /\ clock' \in Nat /\ clock <= clock'
  BY DEF Doubled, LoneInv, TypeOK
<1>2. Keeper(p)'
  BY DEF KeptInv, Keeper
<1> QED  BY <1>1, <1>2, KeptQuiet

\* do_log() up to the write(), init_current() up to the open().
LEMMA KeptLine ==
  ASSUME LoneInv, KeptInv, Alone, Alone', NEW p \in Procs,
         \/ CollectLine(p) \/ ReadOp(p) \/ EnterRead(p) \/ ReadEof(p) \/ ReadData(p) \/ Post(p)
         \/ InitCurrent(p)
  PROVE  KeptInv'
<1>1. /\ At(p, "line") \/ At(p, "read") \/ At(p, "enter") \/ At(p, "reading") \/ At(p, "post") \/ At(p, "init")
      /\ UNCHANGED <<dir, file, clock, script, logged, risked, main>>
  BY DEF CollectLine, ReadOp, EnterRead, ReadEof, ReadData, Post, InitCurrent, disk
<1>2. main = p /\ main' = p /\ SameData /\ proc[p] \in Process
  BY <1>1 DEF Alone, Logger, Zipping, At, Up, SameData, LoneInv, TypeOK
<1>3. ~Turning
  BY <1>1, <1>2 DEF Turning, Keeping, At
<1>4. /\ proc'[p].pc \in {"line", "read", "post", "enter", "reading", "close", "write", "rename", "open", "keep"}
      /\ proc'[p].fn = proc[p].fn
      /\ proc'[p].pc = "keep" => proc'[p].init
  <2>1. CASE CollectLine(p)
    <3>1. PICK line \in Seq(Nat), buf \in Seq(Nat), pc \in {"line", "read", "post"} :
            Set(p, [proc[p] EXCEPT !.line = line, !.buf = buf, !.pc = pc])
      BY <2>1, Collected DEF LoneInv
    <3>2. proc'[p] = [proc[p] EXCEPT !.line = line, !.buf = buf, !.pc = pc]
      BY <3>1, SetOthers DEF LoneInv
    <3> QED  BY <1>2, <3>2 DEF Process
  <2>2. CASE Set(p, AtEof(p))
    <3>1. PICK pc \in {"post", "close"} : AtEof(p) = [proc[p] EXCEPT !.eof = TRUE, !.pc = pc]
      BY AtEofTyped DEF LoneInv
    <3>2. proc'[p] = [proc[p] EXCEPT !.eof = TRUE, !.pc = pc]
      BY <2>2, <3>1, SetOthers DEF LoneInv
    <3> QED  BY <1>2, <3>2 DEF Process
  <2>3. ASSUME NEW label \in {"enter", "reading"}, Set(p, [proc[p] EXCEPT !.pc = label])
        PROVE  proc'[p].pc \in {"enter", "reading"} /\ proc'[p].fn = proc[p].fn
    <3>1. proc'[p] = [proc[p] EXCEPT !.pc = label]
      BY <2>3, SetOthers DEF LoneInv
    <3> QED  BY <1>2, <3>1 DEF Process
  <2>4. CASE ReadOp(p) \/ EnterRead(p) \/ ReadEof(p)
    BY <2>2, <2>3, <2>4 DEF ReadOp, EnterRead, ReadEof, Goto
  <2>5. CASE ReadData(p)
    <3>1. PICK buf, rest : Set(p, [proc[p] EXCEPT !.buf = buf, !.pc = "line", !.rest = rest])
      <4>1. PICK buf, left :
              Set(p, [proc[p] EXCEPT !.buf = buf, !.pc = "line", !.rest = IF proc[p].in = "pipe" THEN @ ELSE left])
        BY <2>5 DEF ReadData
      <4> QED  BY <1>2, <4>1 DEF Process
    <3>2. proc'[p] = [proc[p] EXCEPT !.buf = buf, !.pc = "line", !.rest = rest]
      BY <3>1, SetOthers DEF LoneInv
    <3> QED  BY <1>2, <3>2 DEF Process
  <2>6. CASE Post(p)
    <3>1. PICK text, flag :
            \/ Set(p, [proc[p] EXCEPT !.line = text, !.fd = None, !.pc = "rename"])
            \/ Set(p, [proc[p] EXCEPT !.line = text, !.flagrotate = flag, !.pc = "write"])
      BY <2>6 DEF Post
    <3>2. \/ proc'[p] = [proc[p] EXCEPT !.line = text, !.fd = None, !.pc = "rename"]
          \/ proc'[p] = [proc[p] EXCEPT !.line = text, !.flagrotate = flag, !.pc = "write"]
      BY <3>1, SetOthers DEF LoneInv
    <3> QED  BY <1>2, <3>2 DEF Process
  <2>7. CASE InitCurrent(p)
    <3>1. PICK pc \in {"keep", "open"} :
            \E ext, size : Set(p, [proc[p] EXCEPT !.pc = pc, !.log = Current, !.ext = ext, !.size = size])
      BY <2>7 DEF InitCurrent
    <3>2. PICK ext, size : Set(p, [proc[p] EXCEPT !.pc = pc, !.log = Current, !.ext = ext, !.size = size])
      BY <3>1
    <3>3. proc'[p] = [proc[p] EXCEPT !.pc = pc, !.log = Current, !.ext = ext, !.size = size]
      BY <3>2, SetOthers DEF LoneInv
    <3>4. proc[p].init
      BY <2>7 DEF InitCurrent, LoneInv, ProcInv, Stage
    <3> QED  BY <1>2, <3>1, <3>3, <3>4 DEF Process
  <2> QED  BY <2>1, <2>4, <2>5, <2>6, <2>7
<1>5. ~Turning'
  BY <1>2, <1>4 DEF Turning, Keeping
<1> QED  BY <1>1, <1>2, <1>3, <1>4, <1>5, KeptIdle DEF At

\* stat() in tinylog_keep(): a second link is an archive.
LEMMA KeptKeepStat ==
  ASSUME LoneInv, KeptInv, Alone, NEW p \in Procs, KeepStat(p)
  PROVE  KeptInv'
<1>1. PICK label \in {"open", "link", "unlink"} :
        /\ Goto(p, label)
        /\ label = "open" => proc[p].log \notin DOMAIN dir
        /\ label = "link" => proc[p].log \in DOMAIN dir /\ Nlink(dir[proc[p].log]) = 1
        /\ label = "unlink" => proc[p].log \in DOMAIN dir /\ Nlink(dir[proc[p].log]) # 1
  BY DEF KeepStat
<1>2. At(p, "keep") /\ ProcInv(p) /\ UNCHANGED <<dir, file, clock, script, logged, risked, main>>
  BY DEF KeepStat, disk, LoneInv
<1>3. main = p /\ main' = p /\ SameData /\ clock' \in Nat /\ clock <= clock'
  BY <1>2 DEF Alone, Logger, Zipping, At, Up, SameData, LoneInv, TypeOK
<1>4. /\ proc'[p].pc = label /\ proc'[p].init = proc[p].init
      /\ proc'[p].log = proc[p].log /\ proc'[p].fn = proc[p].fn
  BY <1>1, GotoFields DEF LoneInv
<1>5. proc[p].log = (IF proc[p].init THEN Current ELSE Previous)
  BY <1>2 DEF ProcInv, Stage, Keeping, At
<1>6. (Turning' => Turning) /\ (Turning => Turning' \/ Previous \notin DOMAIN dir) /\ ~Doubled /\ ~Doubled'
  BY <1>1, <1>2, <1>3, <1>4, <1>5 DEF Turning, Keeping, Doubled, At
<1>7. label = "link" => \A n \in DOMAIN dir : dir[n] = dir[proc[p].log] => n = proc[p].log
  <2> SUFFICES ASSUME label = "link" PROVE \A n \in DOMAIN dir : dir[n] = dir[proc[p].log] => n = proc[p].log
    OBVIOUS
  <2> DEFINE S == {n \in DOMAIN dir : dir[n] = dir[proc[p].log]}
  <2>1. IsFiniteSet(S) /\ Cardinality(S) = 1
    BY <1>1, FS_Subset DEF KeptInv, Shape, Nlink
  <2>2. PICK x : S = {x}
    <3> HIDE DEF S
    <3> QED  BY <2>1, FS_Singleton
  <2>3. proc[p].log \in S
    BY <1>1
  <2> QED  BY <2>2, <2>3
<1>8. label = "unlink" => \E n \in Archives : dir[n] = dir[proc[p].log]
  <2> SUFFICES ASSUME label = "unlink" PROVE \E n \in Archives : dir[n] = dir[proc[p].log]
    OBVIOUS
  <2>1. {n \in DOMAIN dir : dir[n] = dir[proc[p].log]} # {proc[p].log}
    BY <1>1, FS_Singleton DEF Nlink
  <2>2. PICK n \in DOMAIN dir : n # proc[p].log /\ dir[n] = dir[proc[p].log]
    BY <1>1, <2>1
  <2>3. n # Zipped
    BY <1>1, <1>5, <2>2, NamesDiffer DEF LoneInv, DirInv, Links
  <2>4. n \notin {Current, Previous}
    <3>1. proc[p].log \in {Current, Previous} /\ proc[p].log \in DOMAIN dir
      BY <1>1, <1>5
    <3>2. Current \in DOMAIN dir /\ Previous \in DOMAIN dir => dir[Current] # dir[Previous]
      BY DEF KeptInv, Shape
    <3> QED  BY <2>2, <3>1, <3>2
  <2> QED  BY <2>2, <2>3, <2>4 DEF KeptInv, Shape
<1>9. Keeper(p)
  BY <1>3 DEF KeptInv
<1>10. Keeper(p)'
  BY <1>2, <1>4, <1>7, <1>8, <1>9 DEF Keeper, At, Archives
<1> QED  BY <1>2, <1>3, <1>6, <1>10, KeptQuiet

\* link(): the new archive is the newest, also by its name.
LEMMA KeptKeepLink ==
  ASSUME LoneInv, KeptInv, Alone, NEW p \in Procs, KeepLink(p)
  PROVE  KeptInv'
<1> DEFINE log == proc[p].log
           i == dir[log]
<1>1. PICK t, name :
        /\ t \in Stamps(p) /\ name = Archive(t, proc[p].ext) /\ clock' = t
        /\ \/ name \in DOMAIN dir /\ dir' = dir /\ Set(p, [proc[p] EXCEPT !.fn = name])
           \/ /\ name \notin DOMAIN dir /\ dir' = Dir_with(name, i)
              /\ Set(p, [proc[p] EXCEPT !.fn = name, !.pc = "unlink"])
  BY DEF KeepLink
<1>2. /\ proc[p] \in Process /\ At(p, "link") /\ log \in DOMAIN dir /\ ProcInv(p)
      /\ UNCHANGED <<file, script, logged, risked, main>>
  BY DEF LoneInv, TypeOK, KeepLink
<1>3. main = p /\ main' = p /\ SameData /\ Keeper(p) /\ TypeOK
  BY <1>2 DEF Alone, Logger, Zipping, At, Up, SameData, LoneInv, KeptInv
<1>4. \/ t = clock + 1
      \/ t = clock /\ Archive(clock, proc[p].ext) \in DOMAIN dir
  BY <1>1 DEF Stamps
<1>5. /\ proc'[p].fn = name /\ proc'[p].init = proc[p].init /\ proc'[p].log = log
      /\ proc'[p].pc = "unlink" \/ (proc'[p].pc = "link" /\ name \in DOMAIN dir)
      /\ proc'[p].pc = "unlink" => dir' = Dir_with(name, i) /\ name \notin DOMAIN dir
      /\ proc'[p].pc = "link" => dir' = dir
  <2>1. \/ proc'[p] = [proc[p] EXCEPT !.fn = name] /\ dir' = dir /\ name \in DOMAIN dir
        \/ /\ proc'[p] = [proc[p] EXCEPT !.fn = name, !.pc = "unlink"]
           /\ dir' = Dir_with(name, i) /\ name \notin DOMAIN dir
    BY <1>1, SetOthers DEF LoneInv
  <2> HIDE DEF i
  <2> QED  BY <1>2, <2>1 DEF Process, At
<1>6. clock \in Nat /\ clock' \in Nat /\ clock <= clock'
  BY <1>1, <1>3, <1>4 DEF TypeOK
<1>7. (Turning' <=> Turning) /\ ~Doubled /\ ~Doubled'
  BY <1>2, <1>3, <1>5 DEF Turning, Keeping, Doubled, At
<1>8. name.kind = "archive" /\ name.t = t /\ name.ext \in {"s", "u"} /\ name \notin {Current, Previous, Zipped}
      /\ name \in Names
  <2>1. name = Archive(t, proc[p].ext)
    BY <1>1
  <2>2. proc[p].ext \in {"s", "u"}
    BY <1>2 DEF Process
  <2>3. t \in Nat
    BY <1>1, <1>6
  <2>4. name.kind = "archive" /\ name.t = t /\ name.ext = proc[p].ext
    BY <2>1, KindsDiffer
  <2>5. name \notin {Current, Previous, Zipped}
    BY <2>4, KindsDiffer
  <2>6. name \in Names
    BY <2>1, <2>2, <2>3 DEF Archive, Name, Names
  <2> QED  BY <2>2, <2>4, <2>5, <2>6
<1>9. CASE proc'[p].pc = "link"
  <2>1. Keeper(p)'
    BY <1>2, <1>3, <1>5, <1>8, <1>9 DEF Keeper, At
  <2> QED  BY <1>2, <1>3, <1>5, <1>6, <1>7, <1>9, <2>1, KeptQuiet
<1>10. CASE proc'[p].pc = "unlink"
  <2>1. /\ DOMAIN dir' = DOMAIN dir \cup {name} /\ dir'[name] = i
        /\ \A n \in DOMAIN dir : dir'[n] = dir[n]
    BY <1>5, <1>10 DEF Dir_with
  <2>2. t = clock + 1 /\ name \notin DOMAIN dir
    BY <1>1, <1>4, <1>5, <1>10
  <2>3. Archives' = Archives \cup {name} /\ name \notin Archives /\ Archives \subseteq DOMAIN dir
    BY <1>8, <2>1, <2>2 DEF Archives
  <2>4. (\A n \in DOMAIN dir : Body(n)' = Body(n) /\ Mixed(n)' = Mixed(n)) /\ Body(name)' = Body(log)
    BY <1>2, <2>1 DEF Body, Mixed
  <2> HIDE DEF i
  <2>5. log = (IF proc[p].init THEN Current ELSE Previous)
    BY <1>2 DEF ProcInv, Stage, Keeping, At
  <2>6. \A m \in Archives : m.t < t /\ m.t \in Nat
    <3>1. \A m \in Archives : m.t \in 1 .. clock
      BY <2>3, KindsDiffer DEF KeptInv, Shape
    <3> QED  BY <1>6, <2>2, <3>1
  <2>7. Shape'
    <3>1. IsFiniteSet(DOMAIN dir')
      BY <2>1, FS_AddElement DEF KeptInv, Shape
    <3>2. t \in 1 .. clock' /\ \A s \in 1 .. clock : s \in 1 .. clock'
      BY <1>1, <1>6, <2>2
    <3>3. \A n \in DOMAIN dir' :
           \/ n \in {Current, Previous, Zipped}
           \/ n \in Archives' /\ n.t \in 1 .. clock' /\ n.ext \in {"s", "u"}
      <4> SUFFICES ASSUME NEW n \in DOMAIN dir', n \notin {Current, Previous, Zipped}
                   PROVE  n \in Archives' /\ n.t \in 1 .. clock' /\ n.ext \in {"s", "u"}
        OBVIOUS
      <4>1. CASE n = name
        BY <4>1, <1>8, <2>3, <3>2
      <4>2. CASE n \in DOMAIN dir
        BY <4>2, <2>3, <3>2 DEF KeptInv, Shape
      <4> QED  BY <4>1, <4>2, <2>1
    <3>4. Current \in DOMAIN dir' /\ Previous \in DOMAIN dir' => dir'[Current] # dir'[Previous]
      BY <1>8, <2>1 DEF KeptInv, Shape
    <3> QED  BY <3>1, <3>3, <3>4 DEF Shape
  <2>8. Newest(log) /\ \A n \in DOMAIN dir : dir[n] = dir[log] => n = log
    <3>1. log = Previous => Turning
      BY <1>2, <1>3, <2>5, NamesDiffer DEF Turning, Keeping, At
    <3> QED  BY <1>2, <1>3, <2>5, <3>1 DEF KeptInv, Sorted, Keeper, At
  <2>9. \A m \in Archives : Below(Body(m), Body(log))
    BY <1>2, <2>3, <2>5, <2>8, KindsDiffer DEF Newest
  <2>10. \A m, n \in Archives' : m.t = n.t => Body(m)' = Body(n)' \/ Mixed(m)' \/ Mixed(n)'
    <3> SUFFICES ASSUME NEW m \in Archives', NEW n \in Archives', m.t = n.t
                 PROVE  Body(m)' = Body(n)' \/ Mixed(m)' \/ Mixed(n)'
      OBVIOUS
    <3>1. CASE m \in Archives /\ n \in Archives
      BY <3>1, <2>3, <2>4 DEF KeptInv, Sorted
    <3>2. m = name <=> n = name
      BY <1>8, <2>3, <2>6
    <3> QED  BY <3>1, <3>2, <2>3
  <2>11. \A m, n \in Archives' : m.t < n.t => Below(Body(m)', Body(n)')
    <3> SUFFICES ASSUME NEW m \in Archives', NEW n \in Archives', m.t < n.t PROVE Below(Body(m)', Body(n)')
      OBVIOUS
    <3>1. CASE m \in Archives /\ n \in Archives
      <4>1. Below(Body(m), Body(n))
        BY <3>1 DEF KeptInv, Sorted
      <4> QED  BY <3>1, <4>1, <2>3, <2>4
    <3>2. CASE m \in Archives /\ n = name
      BY <3>2, <2>3, <2>4, <2>9
    <3>3. m # name
      <4>1. n.t <= t /\ n.t \in Nat
        BY <1>6, <1>8, <2>2, <2>3, <2>6
      <4> QED  BY <1>6, <1>8, <2>2, <4>1
    <3> QED  BY <3>1, <3>2, <3>3, <2>3
  <2>12. ASSUME NEW n \in {Current, Previous}, n \in DOMAIN dir => n = log PROVE Newest(n)'
    <3> SUFFICES ASSUME n \in DOMAIN dir', NEW m \in Archives'
                 PROVE  dir'[m] = dir'[n] \/ Below(Body(m)', Body(n)')
      BY DEF Newest, Below
    <3>1. n = log
      BY <1>8, <2>1, <2>12
    <3>2. CASE m = name
      BY <1>2, <2>1, <3>1, <3>2 DEF i
    <3>3. CASE m \in Archives
      BY <1>2, <2>3, <2>4, <2>9, <3>1, <3>3
    <3> QED  BY <2>3, <3>2, <3>3
  <2>13. Current \in DOMAIN dir => Current = log
    BY <1>2, <2>5 DEF ProcInv, ClosedLog, Keeping, At
  <2>14. Turning => Previous = log
    BY <1>3, <2>5 DEF Turning
  <2>15. \A n \in DOMAIN dir' \ {Zipped} : Body(n)' \subseteq logged'
    <3>1. log # Zipped
      BY <2>5, NamesDiffer
    <3> QED  BY <1>2, <2>1, <2>4, <3>1 DEF KeptInv, Sorted
  <2>16. Sorted'
    BY <1>7, <2>10, <2>11, <2>12, <2>13, <2>14, <2>15 DEF Sorted, Below
  <2>17. Keeper(p)'
    <3>1. Gz(name) \notin DOMAIN dir'
      <4>1. Gz(name).kind = "gz" /\ Gz(name).t = t
        BY <1>8, KindsDiffer
      <4>2. Gz(name) \notin DOMAIN dir
        <5>1. Gz(name) \notin {Current, Previous, Zipped} /\ Gz(name) \notin Archives
          BY <1>6, <1>8, <2>2, <2>6, <4>1, KindsDiffer
        <5> QED  BY <5>1 DEF KeptInv, Shape
      <4> QED  BY <1>8, <2>1, <4>1, <4>2
    <3>2. dir'[name] = dir'[log] /\ name \in Archives'
      BY <1>2, <2>1, <2>3 DEF i
    <3> QED  BY <1>5, <1>8, <1>10, <3>1, <3>2 DEF Keeper
  <2>18. Aged'
    <3>1. log \in Live
      <4>1. log # Zipped /\ (log = Previous => Turning)
        BY <1>2, <1>3, <2>5, NamesDiffer DEF Turning, Keeping, At
      <4> QED  BY <1>2, <4>1 DEF Live
    <3>2. Held \subseteq Held' /\ Held \subseteq DOMAIN dir
      BY <1>2, <1>3, <1>7, <2>1 DEF Held
    <3>3. Gone' \subseteq Gone
      BY <1>2, <2>4, <3>2 DEF Gone
    <3>4. Counted \subseteq Counted'
      BY <1>7, <2>3 DEF Counted
    <3>5. Enough => Enough'
      BY <1>2, <1>3, <2>7, <3>4, EnoughStill DEF TypeOK
    <3>6. \A n \in Live' : n = name \/ n \in Live
      BY <1>7, <2>1 DEF Live
    <3>7. \A n \in Live' : \A k \in Body(n)' : \E m \in Live : k \in Body(m)
      <4>1. Live \subseteq DOMAIN dir
        BY DEF Live
      <4> QED  BY <2>4, <3>1, <3>6, <4>1
    <3> QED  BY <3>3, <3>5, <3>7, AgedStill DEF KeptInv
  <2> QED  BY <1>3, <2>7, <2>16, <2>17, <2>18 DEF KeptInv
<1> QED  BY <1>5, <1>9, <1>10

\* A step that removes names and forgets nothing that is not counted.
LEMMA KeptRemove ==
  ASSUME LoneInv, KeptInv, NEW p \in Procs, main = p, main' = p, SameData, Fewer,
         UNCHANGED <<clock, script, logged>>, Turning' => Turning,
         Gone' \subseteq Gone, Shape' /\ Enough => Enough', Keeper(p)'
  PROVE  KeptInv'
<1>1. TypeOK /\ clock' \in Nat /\ clock <= clock'
  BY DEF LoneInv, TypeOK
<1>2. Shape' /\ Sorted'
  BY <1>1, SortedFewer DEF KeptInv
<1>3. main # None
  BY NoneAssumption
<1>4. \A n \in Live' : n \in Live /\ n \in DOMAIN dir'
  BY DEF Live, Fewer
<1>5. \A n \in Live' : \A k \in Body(n)' : \E m \in Live : k \in Body(m)
  BY <1>1, <1>4, BodiesKept
<1>6. Aged'
  BY <1>2, <1>5, AgedStill DEF KeptInv
<1> QED  BY <1>2, <1>6 DEF KeptInv

\* unlink(): what the log held is in the archive.
LEMMA KeptKeepUnlink ==
  ASSUME LoneInv, KeptInv, Alone, NEW p \in Procs, KeepUnlink(p)
  PROVE  KeptInv'
<1> DEFINE log == proc[p].log
<1>1. PICK label \in {"fork", "prune"} : Goto(p, label)
  BY DEF KeepUnlink
<1>2. /\ At(p, "unlink") /\ log \in DOMAIN dir /\ dir' = Dir_without(log) /\ ProcInv(p)
      /\ UNCHANGED <<file, clock, script, logged, risked, main>>
  BY DEF KeepUnlink, LoneInv
<1>3. main = p /\ main' = p /\ SameData /\ TypeOK
  BY <1>2 DEF Alone, Logger, Zipping, At, Up, SameData, LoneInv
<1>4. proc'[p].pc = label /\ proc'[p].fn = proc[p].fn
  BY <1>1, <1>3, GotoFields
<1>5. DOMAIN dir' = DOMAIN dir \ {log} /\ \A n \in DOMAIN dir' : dir'[n] = dir[n]
  BY <1>2 DEF Dir_without
<1>6. Fewer
  BY <1>5 DEF Fewer
<1>7. ~Turning' /\ ~Doubled /\ ~Doubled'
  BY <1>2, <1>3, <1>4 DEF Turning, Keeping, Doubled, At
<1>8. log = (IF proc[p].init THEN Current ELSE Previous)
  BY <1>2 DEF ProcInv, Stage, Keeping, At
<1>9. Keeper(p)
  BY <1>3 DEF KeptInv
<1>10. PICK a \in Archives : dir[a] = dir[log]
  BY <1>2, <1>9 DEF Keeper, At
<1>11. a \in DOMAIN dir' /\ a \notin {Current, Previous, Zipped}
  BY <1>5, <1>8, <1>10, KindsDiffer DEF Archives
<1>12. \A n \in DOMAIN dir' : Body(n)' = Body(n)
  BY <1>3, <1>6, BodiesKept
<1>13. Gone' \subseteq Gone
  <2> SUFFICES ASSUME NEW c, c \in logged, c \notin risked, \A n \in Held' : c \notin Body(n)',
                      NEW n \in Held
               PROVE  c \notin Body(n)
    BY <1>2 DEF Gone
  <2>1. CASE n = log
    <3>1. a \in Held' /\ Body(a)' = Body(log)
      BY <1>10, <1>11, <1>12 DEF Held, Body
    <3> QED  BY <2>1, <3>1
  <2>2. CASE n # log
    <3>1. n # Previous
      <4>1. main # None
        BY <1>3, NoneAssumption
      <4> QED  BY <1>3, <1>8, <2>2, <4>1 DEF Held, Turning
    <3>2. n \in Held' /\ n \in DOMAIN dir'
      BY <1>5, <2>2, <3>1 DEF Held
    <3> QED  BY <1>12, <3>2
  <2> QED  BY <2>1, <2>2
<1>14. Shape' /\ Enough => Enough'
  <2>1. Archives \subseteq Archives'
    <3> SUFFICES ASSUME NEW n \in Archives PROVE n \in Archives'
      OBVIOUS
    <3>1. n # log
      BY <1>8, KindsDiffer
    <3> QED  BY <1>5, <3>1 DEF Archives
  <2>2. Counted \subseteq Counted'
    BY <1>7, <2>1 DEF Counted
  <2> QED  BY <1>2, <1>3, <2>2, EnoughStill DEF TypeOK
<1>15. Keeper(p)'
  <2>1. proc[p].fn \in DOMAIN dir => Gz(proc[p].fn) \notin DOMAIN dir
    BY <1>2, <1>9 DEF Keeper, At
  <2>2. proc'[p].fn.kind = "archive"
    BY <1>4, <1>9 DEF Keeper
  <2> QED  BY <1>4, <1>5, <2>1, <2>2 DEF Keeper
<1> QED  BY <1>2, <1>3, <1>6, <1>7, <1>13, <1>14, <1>15, KeptRemove

\* Steps that only touch "zipped", of whatever process.
LEMMA KeptZipping ==
  ASSUME LoneInv, KeptInv, main' = main, UNCHANGED <<clock, script, logged, risked>>,
         DOMAIN dir' \ {Zipped} = DOMAIN dir \ {Zipped},
         \A n \in DOMAIN dir \ {Zipped} : dir'[n] = dir[n] /\ Body(n)' = Body(n) /\ Mixed(n)' = Mixed(n),
         Turning' <=> Turning, Doubled' <=> Doubled, Doubled => proc'[main].fn = proc[main].fn,
         main \in Procs => Keeper(main)'
  PROVE  KeptInv'
<1>1. Zipped # Current /\ Zipped # Previous /\ \A n \in Archives : n # Zipped
  BY NamesDiffer, KindsDiffer
<1>2. Archives' = Archives /\ \A n \in Archives : n \in DOMAIN dir \ {Zipped}
  <2>1. Zipped.kind \notin {"archive", "gz"}
    BY KindsDiffer
  <2> QED  BY <1>1, <2>1 DEF Archives
<1>3. \A n \in DOMAIN dir' : n # Zipped => n \in DOMAIN dir \ {Zipped}
  OBVIOUS
<1>4. Shape'
  <2>1. IsFiniteSet(DOMAIN dir')
    <3>1. DOMAIN dir' \subseteq DOMAIN dir \cup {Zipped} /\ IsFiniteSet(DOMAIN dir \cup {Zipped})
      BY FS_AddElement DEF KeptInv, Shape
    <3> QED  BY <3>1, FS_Subset
  <2>2. \A n \in DOMAIN dir' :
         \/ n \in {Current, Previous, Zipped}
         \/ n \in Archives' /\ n.t \in 1 .. clock' /\ n.ext \in {"s", "u"}
    BY <1>2, <1>3 DEF KeptInv, Shape
  <2>3. Current \in DOMAIN dir' /\ Previous \in DOMAIN dir' => dir'[Current] # dir'[Previous]
    BY <1>1, <1>3 DEF KeptInv, Shape
  <2> QED  BY <2>1, <2>2, <2>3 DEF Shape
<1>5. Sorted'
  <2>1. \A m, n \in Archives' : m.t = n.t => Body(m)' = Body(n)' \/ Mixed(m)' \/ Mixed(n)'
    BY <1>2 DEF KeptInv, Sorted
  <2>2. \A m, n \in Archives' : m.t < n.t => Below(Body(m)', Body(n)')
    BY <1>2 DEF KeptInv, Sorted
  <2>3. ASSUME NEW n \in {Current, Previous}, Newest(n) PROVE Newest(n)'
    <3> SUFFICES ASSUME n \in DOMAIN dir', NEW m \in Archives'
                 PROVE  dir'[m] = dir'[n] \/ Below(Body(m)', Body(n)')
      BY DEF Newest, Below
    <3>1. n \in DOMAIN dir \ {Zipped}
      BY <1>1, <1>3
    <3>2. dir[m] = dir[n] \/ Below(Body(m), Body(n))
      BY <1>2, <2>3, <3>1 DEF Newest
    <3> QED  BY <1>2, <3>1, <3>2
  <2>4. \A n \in DOMAIN dir' \ {Zipped} : Body(n)' \subseteq logged'
    BY <1>3 DEF KeptInv, Sorted
  <2> QED  BY <2>1, <2>2, <2>3, <2>4 DEF KeptInv, Sorted, Below
<1>6. Held' = Held /\ Live' = Live /\ \A n \in Held \cup Live : n \in DOMAIN dir \ {Zipped}
  BY DEF Held, Live
<1>7. Gone' \subseteq Gone
  BY <1>6 DEF Gone
<1>8. Enough => Enough'
  <2>1. Counted' = Counted
    BY <1>2 DEF Counted
  <2> QED  BY <1>4, <2>1, EnoughStill DEF LoneInv, TypeOK
<1>9. \A n \in Live' : \A k \in Body(n)' : \E m \in Live : k \in Body(m)
  BY <1>6
<1>10. Aged'
  BY <1>7, <1>8, <1>9, AgedStill DEF KeptInv
<1> QED  BY <1>4, <1>5, <1>10 DEF KeptInv

\* tinylog_gzip(): fork(), and waitpid().
LEMMA KeptForkGzip ==
  ASSUME LoneInv, KeptInv, Alone, NEW p \in Procs, ForkGzip(p)
  PROVE  KeptInv'
<1>1. At(p, "fork") /\ UNCHANGED <<dir, file, clock, script, logged, risked, main>>
  BY DEF ForkGzip, disk
<1>2. main = p /\ main' = p /\ TypeOK /\ SameData /\ proc[p] \in Process
  BY <1>1 DEF Alone, Logger, Zipping, At, Up, LoneInv, SameData, TypeOK
<1>3. proc'[p].pc = "wait" /\ proc'[p].fn = proc[p].fn
  <2>1. PICK k : proc'[p] = [proc[p] EXCEPT !.pc = "wait", !.kid = k]
    BY <1>2, Forked
  <2> QED  BY <1>2, <2>1 DEF Process
<1>4. ~Turning /\ ~Turning'
  BY <1>1, <1>2, <1>3 DEF Turning, Keeping, At
<1> QED  BY <1>1, <1>2, <1>3, <1>4, KeptIdle DEF At

\* What a child does to the process perpd started, while that goes on as it was.
LEMMA KeptBeside ==
  ASSUME LoneInv, KeptInv, main' = main, UNCHANGED <<clock, script, logged, risked>>,
         main \in Procs => proc'[main] = proc[main],
         DOMAIN dir' \ {Zipped} = DOMAIN dir \ {Zipped},
         \A n \in DOMAIN dir \ {Zipped} : dir'[n] = dir[n] /\ Body(n)' = Body(n) /\ Mixed(n)' = Mixed(n),
         Zipped \in DOMAIN dir' => \A n \in DOMAIN dir \ {Zipped} : dir[n] # dir'[Zipped],
         main \in Procs /\ At(main, "publish") /\ Zipped \in DOMAIN dir' =>
           Mixed(Zipped)' \/ (Zipped \in DOMAIN dir /\ Body(Zipped)' = Body(Zipped) /\ Mixed(Zipped)' = Mixed(Zipped))
  PROVE  KeptInv'
<1>1. (Turning' <=> Turning) /\ (Doubled' <=> Doubled) /\ (Doubled => proc'[main].fn = proc[main].fn)
  BY DEF Turning, Keeping, Doubled, At
<1>2. ASSUME main \in Procs PROVE Keeper(main)'
  <2>1. PICK fn, log, pc : fn = proc[main].fn /\ log = proc[main].log /\ pc = proc[main].pc
    OBVIOUS
  <2>2. Keeper(main) /\ proc'[main] = proc[main] /\ fn \in Names /\ log \in {Current, Previous}
    BY <1>2, <2>1 DEF KeptInv, LoneInv, TypeOK, Process
  <2>3. fn.kind = "archive" /\ fn # Zipped /\ Gz(fn) # Zipped /\ log # Zipped
    BY <2>1, <2>2, NamesDiffer, KindsDiffer DEF Keeper
  <2>4. /\ fn \in DOMAIN dir' <=> fn \in DOMAIN dir
        /\ Gz(fn) \in DOMAIN dir' <=> Gz(fn) \in DOMAIN dir
        /\ log \in DOMAIN dir' => log \in DOMAIN dir /\ dir'[log] = dir[log]
    BY <2>3
  <2>5. ASSUME pc = "link", log \in DOMAIN dir', NEW n \in DOMAIN dir', dir'[n] = dir'[log]
        PROVE  n = log
    BY <2>1, <2>2, <2>3, <2>4, <2>5 DEF Keeper
  <2>6. ASSUME pc = "unlink", log \in DOMAIN dir' PROVE \E n \in Archives' : dir'[n] = dir'[log]
    <3>1. PICK n \in Archives : dir[n] = dir[log]
      BY <2>1, <2>2, <2>4, <2>6 DEF Keeper
    <3>2. n \in DOMAIN dir' /\ dir'[n] = dir[n] /\ n.kind \in {"archive", "gz"}
      BY KindsDiffer DEF Archives
    <3> QED  BY <2>4, <2>6, <3>1, <3>2 DEF Archives
  <2>7. ASSUME pc = "publish", Zipped \in DOMAIN dir' PROVE Body(Zipped)' = Body(fn)' \/ Mixed(Zipped)'
    <3>1. fn \in DOMAIN dir \ {Zipped} /\ (Zipped \in DOMAIN dir => Body(Zipped) = Body(fn) \/ Mixed(Zipped))
      BY <2>1, <2>2, <2>3, <2>7 DEF Keeper
    <3>2. Body(fn)' = Body(fn)
      BY <3>1
    <3> QED  BY <1>2, <2>1, <2>7, <3>1, <3>2 DEF At
  <2>8. proc'[main'].fn = fn /\ proc'[main'].log = log /\ proc'[main'].pc = pc
    BY <2>1, <2>2
  <2>9. /\ pc \notin {"off", "link", "zchmod", "drop"} /\ fn \in DOMAIN dir => Gz(fn) \notin DOMAIN dir
        /\ pc \in {"publish", "zchmod", "drop"} => fn \in DOMAIN dir
        /\ pc \in {"zchmod", "drop"} => Gz(fn) \in DOMAIN dir
    BY <2>1, <2>2 DEF Keeper
  <2> QED  BY <2>3, <2>4, <2>5, <2>6, <2>7, <2>8, <2>9 DEF Keeper
<1> QED  BY <1>1, <1>2, KeptZipping

\* The child opens "zipped", and empties it.
LEMMA KeptExecGzip ==
  ASSUME LoneInv, KeptInv, NEW q \in Procs, ExecGzip(q)
  PROVE  KeptInv'
<1>1. PICK i : /\ i = IF Zipped \in DOMAIN dir THEN dir[Zipped] ELSE New
               /\ dir' = Dir_with(Zipped, i)
               /\ file' = [file EXCEPT ![i] = [data |-> <<>>, exec |-> FALSE, mixed |-> Shared(i)]]
               /\ \E text : Set(q, [proc[q] EXCEPT !.pc = "gzip", !.in = "file", !.rest = text, !.fd = i])
  BY DEF ExecGzip
<1>2. At(q, "child") /\ UNCHANGED <<clock, script, logged, risked, main>> /\ (Zipped \in DOMAIN dir \/ Space)
  BY DEF ExecGzip
<1>3. TypeOK /\ q # main
  BY <1>2 DEF LoneInv, ProcInv, Stage, Zipping, At
<1>4. i \in Inodes /\ \A n \in DOMAIN dir \ {Zipped} : dir[n] # i
  <2>1. CASE Zipped \in DOMAIN dir
    BY <1>1, <1>3, <2>1 DEF TypeOK, LoneInv, DirInv, Links
  <2>2. CASE Zipped \notin DOMAIN dir
    BY <1>1, <1>2, <2>2, NewTyped DEF Free
  <2> QED  BY <2>1, <2>2
<1>5. /\ DOMAIN dir' = DOMAIN dir \cup {Zipped} /\ dir'[Zipped] = i
      /\ \A n \in DOMAIN dir \ {Zipped} : dir'[n] = dir[n]
  BY <1>1 DEF Dir_with
<1>6. ASSUME NEW n \in DOMAIN dir \ {Zipped} PROVE Body(n)' = Body(n) /\ Mixed(n)' = Mixed(n)
  <2>1. dir'[n] = dir[n] /\ dir[n] # i /\ dir[n] \in Inodes
    BY <1>3, <1>4, <1>5 DEF TypeOK
  <2>2. file'[dir'[n]] = file[dir[n]]
    BY <1>1, <1>3, <2>1 DEF TypeOK
  <2> QED  BY <2>2 DEF Body, Mixed
<1>7. main \in Procs /\ At(main, "publish") => Mixed(Zipped)'
  <2> SUFFICES ASSUME main \in Procs, At(main, "publish") PROVE Mixed(Zipped)'
    OBVIOUS
  <2>1. Shared(i)
    BY DEF Shared
  <2>2. file'[i].mixed
    BY <1>1, <1>3, <1>4, <2>1 DEF TypeOK
  <2> QED  BY <1>5, <2>2 DEF Mixed
<1>8. main \in Procs => proc'[main] = proc[main]
  BY <1>1, <1>3, SetOthers
<1>9. DOMAIN dir' \ {Zipped} = DOMAIN dir \ {Zipped}
  BY <1>5
<1> QED  BY <1>2, <1>4, <1>5, <1>6, <1>7, <1>8, <1>9, KeptBeside

\* gzip ends: unless two have written it, "zipped" then stands for the same
\* text as the archive, or is given up.
LEMMA KeptGzip ==
  ASSUME LoneInv, KeptInv, NEW q \in Procs, Gzip(q)
  PROVE  KeptInv'
<1>0. PICK ok \in BOOLEAN : \E text, pc :
        /\ text \in Outcomes(q, ok) /\ pc = IF ok THEN "publish" ELSE "unzip"
        /\ file' = [file EXCEPT ![proc[q].fd].data = text]
        /\ proc'[q] = Off /\ main' = main /\ q # main
        /\ \A p \in Procs \ {q} : /\ proc[p].kid # q => proc'[p] = proc[p]
                                  /\ proc[p].kid = q => GzipOver(p, pc)
  BY GzipEnds
<1>1. PICK text : \E pc :
        /\ text \in Outcomes(q, ok) /\ pc = IF ok THEN "publish" ELSE "unzip"
        /\ file' = [file EXCEPT ![proc[q].fd].data = text]
        /\ proc'[q] = Off /\ main' = main /\ q # main
        /\ \A p \in Procs \ {q} : /\ proc[p].kid # q => proc'[p] = proc[p]
                                  /\ proc[p].kid = q => GzipOver(p, pc)
  BY <1>0
<1>2. PICK pc : /\ pc = IF ok THEN "publish" ELSE "unzip"
                /\ \A p \in Procs \ {q} : /\ proc[p].kid # q => proc'[p] = proc[p]
                                          /\ proc[p].kid = q => GzipOver(p, pc)
  BY <1>1
<1>3. PICK i : i = proc[q].fd
  OBVIOUS
<1>4. /\ At(q, "gzip") /\ UNCHANGED <<dir, clock, script, logged, risked, main>> /\ TypeOK
      /\ i \in Inodes /\ text \in Outcomes(q, ok)
      /\ file' = [file EXCEPT ![i].data = text]
  BY <1>1, <1>3 DEF Gzip, LoneInv, ProcInv, Stage
<1>5. /\ \A j \in Inodes : file'[j].mixed = file[j].mixed /\ (j # i => file'[j] = file[j])
      /\ file'[i].data = text
  <2>1. \A j \in Inodes : file[j] \in Files
    BY <1>4 DEF TypeOK, Files
  <2>2. file'[i] = [file[i] EXCEPT !.data = text] /\ \A j \in Inodes \ {i} : file'[j] = file[j]
    BY <1>4 DEF TypeOK
  <2> QED  BY <1>4, <2>1, <2>2 DEF Files
<1>6. ASSUME NEW n \in DOMAIN dir, n # Zipped \/ dir[n] # i
      PROVE  Body(n)' = Body(n) /\ Mixed(n)' = Mixed(n)
  <2>1. dir[n] \in Inodes /\ dir'[n] = dir[n]
    BY <1>4 DEF TypeOK
  <2>2. CASE dir[n] # i
    BY <1>5, <2>1, <2>2 DEF Body, Mixed
  <2>3. CASE dir[n] = i
    <3>1. file[dir[n]].mixed
      BY <1>3, <1>4, <1>6, <2>3 DEF LoneInv, ZipInv, OwnFile
    <3> QED  BY <1>5, <2>1, <3>1 DEF Body, Mixed
  <2> QED  BY <2>2, <2>3
<1>7. Zipped \in DOMAIN dir => \A n \in DOMAIN dir \ {Zipped} : dir[n] # dir[Zipped]
  BY DEF LoneInv, DirInv, Links
<1>8. CASE main \in Procs => proc[main].kid # q
  <2>1. main \in Procs => proc'[main] = proc[main]
    BY <1>1, <1>2, <1>8
  <2>2. main \in Procs /\ At(main, "publish") /\ Zipped \in DOMAIN dir =>
          Mixed(Zipped)' \/ (Body(Zipped)' = Body(Zipped) /\ Mixed(Zipped)' = Mixed(Zipped))
    <3> SUFFICES ASSUME main \in Procs, At(main, "publish"), Zipped \in DOMAIN dir, dir[Zipped] = i
                 PROVE  Mixed(Zipped)'
      BY <1>6
    <3>1. file[i].mixed
      BY <1>3, <1>4 DEF LoneInv, ZipInv, OwnFile
    <3> QED  BY <1>4, <1>5, <3>1 DEF Mixed
  <2> QED  BY <1>1, <1>4, <1>6, <1>7, <2>1, <2>2, KeptBeside
<1>9. CASE main \in Procs /\ proc[main].kid = q
  <2>1. PICK fn : fn = proc[main].fn
    OBVIOUS
  <2>2. GzipOver(main, pc)
    BY <1>1, <1>2, <1>9
  <2>3. proc'[main].pc = pc /\ proc'[main].fn = fn /\ pc \in {"publish", "unzip"}
    BY <1>2, <2>1, <2>2 DEF GzipOver
  <2>4. At(main, "wait")
    BY <1>9, NoneAssumption DEF LoneInv, ProcInv, Stage
  <2>5. ~Turning /\ ~Turning' /\ ~Doubled /\ ~Doubled'
    BY <1>4, <2>3, <2>4 DEF Turning, Keeping, Doubled, At
  <2>6. fn.kind = "archive" /\ fn # Zipped /\ (fn \in DOMAIN dir => Gz(fn) \notin DOMAIN dir)
    BY <1>9, <2>1, <2>4, KindsDiffer DEF KeptInv, Keeper, At
  <2>7. Zipped \in DOMAIN dir /\ dir[Zipped] = i /\ fn \in DOMAIN dir /\ proc[q].rest = file[dir[fn]].data
    BY <1>3, <1>4, <1>9, <2>1, <2>4, NoneAssumption DEF LoneInv, ZipInv, Awaited
  <2>8. pc = "publish" => Body(Zipped)' = Body(fn)' \/ Mixed(Zipped)'
    <3> SUFFICES ASSUME pc = "publish", ~Mixed(Zipped)' PROVE Body(Zipped)' = Body(fn)'
      OBVIOUS
    <3>1. ~file[i].mixed /\ ok
      BY <1>2, <1>4, <1>5, <2>7 DEF Mixed
    <3>2. text = proc[q].rest
      BY <1>3, <1>4, <3>1 DEF Outcomes
    <3>3. Body(Zipped)' = Chars(text)
      BY <1>4, <1>5, <2>7 DEF Body, Mixed
    <3>4. Body(fn) = Chars(file[dir[fn]].data)
      BY <2>6, <2>7, NotMixed DEF Body
    <3>5. Body(fn)' = Body(fn)
      BY <1>6, <2>6, <2>7
    <3> QED  BY <2>7, <3>2, <3>3, <3>4, <3>5
  <2>9. Keeper(main)'
    BY <1>4, <2>3, <2>6, <2>7, <2>8 DEF Keeper
  <2> QED  BY <1>1, <1>4, <1>6, <2>5, <2>9, KeptZipping
<1> QED  BY <1>8, <1>9

\* tinylog_gzip() gives up: "zipped" is removed.
LEMMA KeptUnzip ==
  ASSUME LoneInv, KeptInv, Alone, NEW p \in Procs, Unzip(p)
  PROVE  KeptInv'
<1>1. /\ At(p, "unzip") /\ dir' = Dir_without(Zipped) /\ Goto(p, "prune")
      /\ UNCHANGED <<file, clock, script, logged, risked, main>>
  BY DEF Unzip
<1>2. main = p /\ main' = p /\ TypeOK /\ SameData
  BY <1>1 DEF Alone, Logger, Zipping, At, Up, LoneInv, SameData
<1>3. proc'[p].pc = "prune" /\ proc'[p].fn = proc[p].fn
  BY <1>1, <1>2, GotoFields
<1>4. DOMAIN dir' = DOMAIN dir \ {Zipped} /\ \A n \in DOMAIN dir' : dir'[n] = dir[n]
  BY <1>1 DEF Dir_without
<1>5. \A n \in DOMAIN dir \ {Zipped} : Body(n)' = Body(n) /\ Mixed(n)' = Mixed(n)
  BY <1>2, <1>4, BodiesKept DEF Fewer
<1>6. ~Turning /\ ~Turning' /\ ~Doubled /\ ~Doubled'
  BY <1>1, <1>2, <1>3 DEF Turning, Keeping, Doubled, At
<1>7. Keeper(p)'
  <2>1. Keeper(p)
    BY <1>2 DEF KeptInv
  <2> QED  BY <1>1, <1>3, <1>4, <2>1 DEF Keeper, At
<1> QED  BY <1>1, <1>2, <1>4, <1>5, <1>6, <1>7, KeptZipping

\* rename("zipped", fn8601.Z): the archive is there twice.
LEMMA KeptPublish ==
  ASSUME LoneInv, KeptInv, Alone, NEW p \in Procs, Publish(p)
  PROVE  KeptInv'
<1>0. PICK fn : fn = proc[p].fn
  OBVIOUS
<1> DEFINE gz == Gz(fn)
<1>1. /\ At(p, "publish")
      /\ \/ Zipped \in DOMAIN dir /\ dir' = Dir_renamed(Zipped, gz) /\ Goto(p, "zchmod")
         \/ dir' = dir /\ Goto(p, "unzip")
      /\ UNCHANGED <<file, clock, script, logged, risked, main>>
  BY <1>0 DEF Publish
<1>2. main = p /\ main' = p /\ TypeOK /\ SameData /\ ProcInv(p) /\ Keeper(p) /\ fn \in Names
  BY <1>0, <1>1 DEF Alone, Logger, Zipping, At, Up, LoneInv, SameData, KeptInv, TypeOK, Process
<1>3. proc'[p].pc \in {"zchmod", "unzip"} /\ proc'[p].fn = fn
  BY <1>0, <1>1, <1>2, GotoFields
<1>4. ~Turning /\ ~Turning' /\ ~Doubled
  BY <1>1, <1>2, <1>3 DEF Turning, Keeping, Doubled, At
<1>5. CASE dir' = dir /\ Goto(p, "unzip")
  <2>1. proc'[p].pc = "unzip"
    BY <1>2, <1>5, GotoFields
  <2> QED  BY <1>0, <1>1, <1>2, <1>3, <1>4, <1>5, <2>1, KeptIdle DEF At
<1>6. CASE Zipped \in DOMAIN dir /\ dir' = Dir_renamed(Zipped, gz) /\ Goto(p, "zchmod")
  <2>1. proc'[p].pc = "zchmod"
    BY <1>2, <1>6, GotoFields
  <2>2. /\ fn.kind = "archive" /\ fn \in DOMAIN dir /\ gz \notin DOMAIN dir
        /\ Body(Zipped) = Body(fn) \/ Mixed(Zipped)
    BY <1>0, <1>1, <1>2, <1>6 DEF Keeper, At
  <2>3. gz.kind = "gz" /\ gz.t = fn.t /\ gz.ext = fn.ext /\ fn \in Archives
    BY <1>2, <2>2, KindsDiffer DEF Archives
  <2>4. Current \notin DOMAIN dir
    BY <1>1, <1>2 DEF ProcInv, ClosedLog, Archiving, At
  <2> HIDE DEF gz
  <2>5. /\ DOMAIN dir' = (DOMAIN dir \ {Zipped}) \cup {gz} /\ dir'[gz] = dir[Zipped]
        /\ \A n \in DOMAIN dir \ {Zipped} : dir'[n] = dir[n]
    BY <1>6, <2>2 DEF Dir_renamed
  <2>6. gz \notin {Current, Previous, Zipped} /\ fn \notin {Current, Previous, Zipped}
        /\ \A n \in Archives : n # Zipped
    BY <2>2, <2>3, KindsDiffer
  <2>7. Archives' = Archives \cup {gz} /\ Archives \subseteq DOMAIN dir \ {Zipped} /\ gz \notin Archives
    BY <2>2, <2>3, <2>5, <2>6, KindsDiffer DEF Archives
  <2>8. /\ \A n \in DOMAIN dir \ {Zipped} : Body(n)' = Body(n) /\ Mixed(n)' = Mixed(n)
        /\ (Mixed(gz)' /\ Body(gz)' = {}) \/ (Body(gz)' = Body(fn) /\ ~Mixed(fn))
    <3>1. ~Mixed(fn)
      BY <2>2, NotMixed DEF Mixed
    <3>2. Body(gz)' = Body(Zipped) /\ Mixed(gz)' = Mixed(Zipped)
      BY <1>1, <2>5 DEF Body, Mixed
    <3>3. Mixed(Zipped) => Body(Zipped) = {}
      BY DEF Body, Mixed
    <3>4. \A n \in DOMAIN dir \ {Zipped} : Body(n)' = Body(n) /\ Mixed(n)' = Mixed(n)
      BY <1>1, <2>5 DEF Body, Mixed
    <3> QED  BY <2>2, <3>1, <3>2, <3>3, <3>4
  <2>9. fn.t \in 1 .. clock /\ fn.ext \in {"s", "u"}
    BY <2>2, <2>6 DEF KeptInv, Shape
  <2>10. Shape'
    <3>1. IsFiniteSet(DOMAIN dir')
      <4>1. IsFiniteSet(DOMAIN dir \ {Zipped})
        BY FS_Subset DEF KeptInv, Shape
      <4> QED  BY <2>5, <4>1, FS_AddElement
    <3>2. \A n \in DOMAIN dir' :
           \/ n \in {Current, Previous, Zipped}
           \/ n \in Archives' /\ n.t \in 1 .. clock' /\ n.ext \in {"s", "u"}
      <4> SUFFICES ASSUME NEW n \in DOMAIN dir', n \notin {Current, Previous, Zipped}
                   PROVE  n \in Archives' /\ n.t \in 1 .. clock /\ n.ext \in {"s", "u"}
        BY <1>1
      <4>1. CASE n = gz
        BY <4>1, <2>3, <2>7, <2>9
      <4>2. CASE n \in DOMAIN dir
        BY <4>2, <2>7 DEF KeptInv, Shape
      <4> QED  BY <4>1, <4>2, <2>5
    <3>3. Current \notin DOMAIN dir'
      BY <2>4, <2>5, <2>6
    <3> QED  BY <3>1, <3>2, <3>3 DEF Shape
  <2>11. \A n \in Archives' : \E r \in Archives :
           n.t = r.t /\ ((Mixed(n)' /\ Body(n)' = {}) \/ (Body(n)' = Body(r) /\ (Mixed(r) => Mixed(n)')))
    BY <2>3, <2>7, <2>8
  <2>12. Sorted'
    <3>1. ASSUME NEW m \in Archives', NEW n \in Archives'
          PROVE  /\ m.t = n.t => Body(m)' = Body(n)' \/ Mixed(m)' \/ Mixed(n)'
                 /\ (m.t < n.t => Below(Body(m)', Body(n)'))
      <4>1. PICK r \in Archives : /\ m.t = r.t
                                  /\ \/ Mixed(m)' /\ Body(m)' = {}
                                     \/ Body(m)' = Body(r) /\ (Mixed(r) => Mixed(m)')
        BY <2>11
      <4>2. PICK s \in Archives : /\ n.t = s.t
                                  /\ \/ Mixed(n)' /\ Body(n)' = {}
                                     \/ Body(n)' = Body(s) /\ (Mixed(s) => Mixed(n)')
        BY <2>11
      <4>3. (r.t = s.t => Body(r) = Body(s) \/ Mixed(r) \/ Mixed(s)) /\ (r.t < s.t => Below(Body(r), Body(s)))
        BY DEF KeptInv, Sorted
      <4> QED  BY <4>1, <4>2, <4>3 DEF Below
    <3>2. Newest(Current)'
      BY <2>4, <2>5, <2>6 DEF Newest
    <3>3. \A n \in DOMAIN dir' \ {Zipped} : Body(n)' \subseteq logged'
      BY <1>1, <2>2, <2>5, <2>6, <2>8 DEF KeptInv, Sorted
    <3> QED  BY <1>4, <3>1, <3>2, <3>3 DEF Sorted, Below
  <2>13. main # None
    BY <1>2, NoneAssumption
  <2>14. Aged'
    <3>1. Held \subseteq Held' /\ Held \subseteq DOMAIN dir \ {Zipped}
      BY <1>1, <1>4, <2>5, <2>13 DEF Held
    <3>2. Gone' \subseteq Gone
      BY <1>1, <2>8, <3>1 DEF Gone
    <3>3. Counted = Archives /\ Counted' = (Archives \ {fn}) \cup {gz}
      <4>1. gz # fn
        BY <2>2
      <4>2. Counted = Archives
        BY <1>4 DEF Counted
      <4>3. Doubled' /\ proc'[main'].fn = fn
        BY <1>2, <1>3, <2>1 DEF Doubled
      <4>4. Counted' = Archives' \ {fn}
        BY <4>3 DEF Counted
      <4> QED  BY <2>7, <4>1, <4>2, <4>4
    <3>4. fn \in Counted /\ gz \notin Counted
      BY <2>3, <2>7, <3>3
    <3>5. Enough => Enough'
      BY <1>1, <1>2, <2>10, <3>3, <3>4, EnoughStill DEF TypeOK
    <3>6. \A n \in Live' : n \in Live \/ n = gz
      BY <1>4, <2>5 DEF Live
    <3>7. fn \in Live /\ Live \subseteq DOMAIN dir \ {Zipped}
      BY <2>2, <2>6 DEF Live
    <3>8. \A n \in Live' : \A k \in Body(n)' : \E m \in Live : k \in Body(m)
      BY <2>8, <3>6, <3>7
    <3> QED  BY <3>2, <3>5, <3>8, AgedStill DEF KeptInv
  <2>15. Keeper(p)'
    <3>1. fn \in DOMAIN dir' /\ Gz(fn) \in DOMAIN dir'
      BY <2>2, <2>5, <2>6 DEF gz
    <3> QED  BY <1>3, <2>1, <2>2, <3>1 DEF Keeper
  <2> QED  BY <1>2, <2>10, <2>12, <2>14, <2>15 DEF KeptInv
<1> QED  BY <1>1, <1>5, <1>6

\* chmod() of the zipped archive; if it fails the other form is kept.
LEMMA KeptZchmod ==
  ASSUME LoneInv, KeptInv, Alone, NEW p \in Procs, Zchmod(p)
  PROVE  KeptInv'
<1>0. PICK fn : fn = proc[p].fn
  OBVIOUS
<1> DEFINE gz == Gz(fn)
<1>1. /\ At(p, "zchmod")
      /\ \/ Goto(p, "drop") /\ dir' = dir
         \/ dir' = Dir_without(gz) /\ Goto(p, "prune")
      /\ UNCHANGED <<file, clock, script, logged, risked, main>>
  BY <1>0 DEF Zchmod
<1>2. main = p /\ main' = p /\ TypeOK /\ SameData /\ Keeper(p) /\ fn \in Names
  BY <1>0, <1>1 DEF Alone, Logger, Zipping, At, Up, LoneInv, SameData, KeptInv, TypeOK, Process
<1>3. proc'[p].pc \in {"drop", "prune"} /\ proc'[p].fn = fn
  BY <1>0, <1>1, <1>2, GotoFields
<1>4. ~Turning /\ ~Turning' /\ Doubled
  BY <1>1, <1>2, <1>3 DEF Turning, Keeping, Doubled, At
<1>5. fn.kind = "archive" /\ fn \in DOMAIN dir /\ gz \in DOMAIN dir
  BY <1>0, <1>1, <1>2 DEF Keeper, At
<1>6. CASE Goto(p, "drop") /\ dir' = dir
  <2>1. proc'[p].pc = "drop"
    BY <1>2, <1>6, GotoFields
  <2>2. Doubled'
    BY <1>2, <2>1 DEF Doubled
  <2>3. Keeper(p)'
    BY <1>3, <1>5, <1>6, <2>1 DEF Keeper
  <2>4. clock' \in Nat /\ clock <= clock'
    BY <1>1, <1>2 DEF TypeOK
  <2> QED  BY <1>0, <1>1, <1>2, <1>3, <1>4, <1>6, <2>2, <2>3, <2>4, KeptQuiet
<1>7. CASE dir' = Dir_without(gz) /\ Goto(p, "prune")
  <2>1. proc'[p].pc = "prune"
    BY <1>2, <1>7, GotoFields
  <2>2. gz.kind = "gz" /\ gz.t = fn.t /\ gz # fn /\ fn \in Archives /\ gz \in Archives
    <3>1. gz.kind = "gz" /\ gz.t = fn.t
      BY <1>2, KindsDiffer
    <3> QED  BY <1>5, <3>1 DEF Archives
  <2>3. Body(gz) = Body(fn) \/ Body(gz) = {}
    <3>1. ~Mixed(fn) /\ (Mixed(gz) => Body(gz) = {})
      BY <1>5, NotMixed DEF Body, Mixed
    <3> QED  BY <2>2, <3>1 DEF KeptInv, Sorted
  <2> HIDE DEF gz
  <2>4. DOMAIN dir' = DOMAIN dir \ {gz} /\ \A n \in DOMAIN dir' : dir'[n] = dir[n]
    BY <1>7 DEF Dir_without
  <2>5. Fewer
    BY <2>4 DEF Fewer
  <2>6. \A n \in DOMAIN dir' : Body(n)' = Body(n)
    BY <1>2, <2>5, BodiesKept
  <2>7. main # None /\ fn \notin {Current, Previous, Zipped}
    BY <1>2, <2>2, NoneAssumption, KindsDiffer
  <2>8. Gone' \subseteq Gone
    <3> SUFFICES ASSUME NEW c, c \in logged, c \notin risked, \A n \in Held' : c \notin Body(n)',
                        NEW n \in Held
                 PROVE  c \notin Body(n)
      BY <1>1 DEF Gone
    <3>1. CASE n = gz
      <4>1. fn \in Held' /\ fn \in DOMAIN dir'
        BY <1>5, <2>2, <2>4, <2>7 DEF Held
      <4> QED  BY <2>3, <2>6, <3>1, <4>1
    <3>2. CASE n # gz
      <4>1. n \in Held' /\ n \in DOMAIN dir'
        BY <1>1, <1>4, <2>4, <2>7, <3>2 DEF Held
      <4> QED  BY <2>6, <4>1
    <3> QED  BY <3>1, <3>2
  <2>9. Shape' /\ Enough => Enough'
    <3>1. Archives' = Archives \ {gz}
      BY <2>4 DEF Archives
    <3>2. Counted = Archives \ {fn}
      BY <1>0, <1>2, <1>4 DEF Counted
    <3>3. ~Doubled'
      BY <1>2, <2>1 DEF Doubled
    <3>4. Counted' = Archives \ {gz}
      BY <3>1, <3>3 DEF Counted
    <3>5. gz \in Counted /\ fn \notin Counted /\ Counted' = (Counted \ {gz}) \cup {fn}
      BY <2>2, <3>2, <3>4
    <3> QED  BY <1>1, <1>2, <3>5, EnoughStill DEF TypeOK
  <2>10. Keeper(p)'
    <3>1. Gz(fn) \notin DOMAIN dir'
      BY <2>4 DEF gz
    <3> QED  BY <1>3, <1>5, <2>1, <3>1 DEF Keeper
  <2> QED  BY <1>1, <1>2, <1>4, <2>5, <2>8, <2>9, <2>10, KeptRemove
<1> QED  BY <1>1, <1>6, <1>7

\* unlink() of the original, once the zipped archive is there.
LEMMA KeptDrop ==
  ASSUME LoneInv, KeptInv, Alone, NEW p \in Procs, Drop(p)
  PROVE  KeptInv'
<1>0. PICK fn : fn = proc[p].fn
  OBVIOUS
<1> DEFINE gz == Gz(fn)
<1>1. /\ At(p, "drop") /\ dir' = Dir_without(fn) /\ Goto(p, "prune")
      /\ UNCHANGED <<file, clock, script, logged, main>>
      /\ risked' = risked \cup (IF gz \in DOMAIN dir /\ file[dir[gz]].mixed
                               THEN Chars(file[dir[fn]].data) ELSE {})
  BY <1>0 DEF Drop
<1>2. main = p /\ main' = p /\ TypeOK /\ SameData /\ Keeper(p) /\ fn \in Names
  BY <1>0, <1>1 DEF Alone, Logger, Zipping, At, Up, LoneInv, SameData, KeptInv, TypeOK, Process
<1>3. proc'[p].pc = "prune" /\ proc'[p].fn = fn
  BY <1>0, <1>1, <1>2, GotoFields
<1>4. ~Turning /\ ~Turning' /\ Doubled /\ ~Doubled'
  BY <1>1, <1>2, <1>3 DEF Turning, Keeping, Doubled, At
<1>5. fn.kind = "archive" /\ fn \in DOMAIN dir /\ gz \in DOMAIN dir
  BY <1>0, <1>1, <1>2 DEF Keeper, At
<1>6. /\ gz.kind = "gz" /\ gz # fn /\ fn \in Archives /\ gz \in Archives
      /\ Body(gz) = Body(fn) \/ Mixed(gz)
  <2>1. gz.kind = "gz" /\ gz.t = fn.t
    BY <1>2, KindsDiffer
  <2>2. fn \in Archives /\ gz \in Archives
    BY <1>5, <2>1 DEF Archives
  <2>3. Body(gz) = Body(fn) \/ Mixed(gz)
    <3>1. ~Mixed(fn)
      BY <1>5, NotMixed DEF Mixed
    <3> QED  BY <2>1, <2>2, <3>1 DEF KeptInv, Sorted
  <2> QED  BY <1>5, <2>1, <2>2, <2>3
<1> HIDE DEF gz
<1>7. DOMAIN dir' = DOMAIN dir \ {fn} /\ \A n \in DOMAIN dir' : dir'[n] = dir[n]
  BY <1>1 DEF Dir_without
<1>8. Fewer
  BY <1>7 DEF Fewer
<1>9. \A n \in DOMAIN dir' : Body(n)' = Body(n)
  BY <1>2, <1>8, BodiesKept
<1>10. main # None /\ gz \notin {Current, Previous, Zipped}
  BY <1>2, <1>6, NoneAssumption, KindsDiffer
<1>11. Gone' \subseteq Gone
  <2> SUFFICES ASSUME NEW c, c \in logged, c \notin risked', \A n \in Held' : c \notin Body(n)',
                      NEW n \in Held
               PROVE  c \notin Body(n)
    BY <1>1 DEF Gone
  <2>1. CASE n = fn
    <3>1. gz \in Held' /\ gz \in DOMAIN dir'
      BY <1>5, <1>6, <1>7, <1>10 DEF Held
    <3>2. Mixed(gz) => c \notin Body(fn)
      <4>1. Body(fn) \subseteq Chars(file[dir[fn]].data)
        BY DEF Body
      <4> QED  BY <1>1, <1>5, <4>1 DEF Mixed
    <3> QED  BY <1>6, <1>9, <2>1, <3>1, <3>2
  <2>2. CASE n # fn
    <3>1. n \in Held' /\ n \in DOMAIN dir'
      BY <1>1, <1>4, <1>7, <1>10, <2>2 DEF Held
    <3> QED  BY <1>9, <3>1
  <2> QED  BY <2>1, <2>2
<1>12. Shape' /\ Enough => Enough'
  <2>1. Archives' = Archives \ {fn}
    BY <1>7 DEF Archives
  <2>2. Counted = Archives \ {fn}
    BY <1>0, <1>2, <1>4 DEF Counted
  <2>3. Counted' = Archives \ {fn}
    BY <1>4, <2>1 DEF Counted
  <2>4. Counted \subseteq Counted'
    BY <2>2, <2>3
  <2> QED  BY <1>1, <1>2, <2>4, EnoughStill DEF TypeOK
<1>13. Keeper(p)'
  BY <1>3, <1>5, <1>7 DEF Keeper
<1> QED  BY <1>1, <1>2, <1>4, <1>8, <1>11, <1>12, <1>13, KeptRemove

\* The name tinylog_prune() picks is one with the oldest stamp.
LEMMA OldestFirst ==
  ASSUME TypeOK, Shape, Archives # {}
  PROVE  Oldest(Archives) \in Archives /\ \A m \in Archives : Oldest(Archives).t <= m.t
<1> DEFINE Key(n) == 4 * n.t + Rank(n)
           S == {Key(n) : n \in Archives}
<1>1. ASSUME NEW n \in Archives
      PROVE  n \in Names /\ n.t \in Nat \ {0} /\ n.ext \in {"s", "u"} /\ n.kind \in {"archive", "gz"}
  <2>1. n \in DOMAIN dir /\ n.kind \in {"archive", "gz"} /\ n \notin {Current, Previous, Zipped}
    BY KindsDiffer DEF Archives
  <2>2. n.t \in 1 .. clock /\ n.ext \in {"s", "u"} /\ clock \in Nat
    BY <2>1 DEF Shape, TypeOK
  <2> QED  BY <2>1, <2>2 DEF TypeOK
<1>2. \A n \in Archives : Rank(n) \in 0 .. 3 /\ Key(n) \in Nat
  BY <1>1 DEF Rank
<1>3. \A m, n \in Archives : Rank(m) = Rank(n) => m.ext = n.ext /\ m.kind = n.kind
  BY <1>1 DEF Rank
<1>4. \A m, n \in Archives : m.t = n.t /\ m.ext = n.ext /\ m.kind = n.kind => m = n
  <2>1. \A n \in Names : n = [kind |-> n.kind, t |-> n.t, ext |-> n.ext]
    <3>1. \A K, T, E : \A n \in [kind : K, t : T, ext : E] : n = [kind |-> n.kind, t |-> n.t, ext |-> n.ext]
      OBVIOUS
    <3> QED  BY <3>1 DEF Names
  <2>2. \A n \in Archives : n \in Names
    BY <1>1
  <2>3. \A n \in Archives : n = [kind |-> n.kind, t |-> n.t, ext |-> n.ext]
    BY <2>1, <2>2
  <2> SUFFICES ASSUME NEW m \in Archives, NEW n \in Archives, m.t = n.t, m.ext = n.ext, m.kind = n.kind
               PROVE  m = n
    OBVIOUS
  <2>4. m = [kind |-> m.kind, t |-> m.t, ext |-> m.ext] /\ n = [kind |-> n.kind, t |-> n.t, ext |-> n.ext]
    BY <2>3
  <2> HIDE DEF Key, S
  <2> QED  BY <2>4
<1> HIDE DEF Rank
<1>5. ASSUME NEW m \in Archives, NEW n \in Archives, Key(m) <= Key(n), m # n PROVE Before(m, n)
  <2>1. m.t < n.t \/ (m.t = n.t /\ Rank(m) < Rank(n))
    <3>1. m.t \in Nat /\ n.t \in Nat /\ Rank(m) \in 0 .. 3 /\ Rank(n) \in 0 .. 3
      BY <1>1, <1>2
    <3>2. m.t <= n.t /\ (m.t = n.t => Rank(m) <= Rank(n))
      BY <3>1, <1>5
    <3>3. m.t = n.t => Rank(m) # Rank(n)
      BY <1>3, <1>4, <1>5
    <3> QED  BY <3>1, <3>2, <3>3
  <2> QED  BY <1>1, <2>1 DEF Before
<1>6. PICK n \in Archives : \A m \in Archives : Key(n) <= Key(m)
  <2>1. S \subseteq Nat /\ S # {}
    BY <1>2
  <2>2. PICK i \in S : \A j \in S : i <= j
    <3> HIDE DEF S
    <3> QED  BY <2>1, SmallestOf
  <2> QED  BY <2>2
<1>7. \A m \in Archives \ {n} : Before(n, m)
  BY <1>5, <1>6
<1>8. Oldest(Archives) \in Archives /\ \A m \in Archives \ {Oldest(Archives)} : Before(Oldest(Archives), m)
  BY <1>7 DEF Oldest
<1>9. \A m, a \in Archives : Before(a, m) => a.t <= m.t
  BY <1>1 DEF Before
<1>10. \A m \in Archives : m.t <= m.t
  BY <1>1
<1> QED  BY <1>8, <1>9, <1>10

\* tinylog_prune() removes the oldest archive, and leaves as many as -k asks
\* for; then it is done, fails, or is called again.
LEMMA KeptPruned ==
  ASSUME LoneInv, KeptInv, NEW p \in Procs, main = p, At(p, "prune"),
         ~NothingToPrune(Cardinality(Archives), proc[p].opt.keep),
         dir' = Dir_without(Oldest(Archives)), UNCHANGED <<file, clock, script, logged, risked>>,
         \/ main' = None
         \/ main' = p /\ proc'[p].pc \in {"open", "prune"} /\ proc'[p].fn = proc[p].fn
  PROVE  KeptInv'
<1> DEFINE keep == proc[p].opt.keep
<1>1. TypeOK /\ ProcInv(p) /\ Shape /\ Keeper(p) /\ SameData /\ main # None /\ clock' \in Nat /\ clock <= clock'
  BY NoneAssumption DEF LoneInv, KeptInv, SameData, TypeOK
<1>2. proc[p].opt \in script /\ keep \in Nat
  BY <1>1, ScriptMax DEF ProcInv, Stage, Up, At, Option
<1>3. IsFiniteSet(Archives) /\ Cardinality(Archives) \in Nat
  <2>1. Archives \subseteq DOMAIN dir
    BY DEF Archives
  <2> QED  BY <1>1, <2>1, FS_Subset, FS_CardinalityType DEF Shape
<1>4. Cardinality(Archives) > keep
  BY <1>2, <1>3 DEF NothingToPrune
<1>5. Archives # {}
  BY <1>2, <1>4, FS_EmptySet
<1>6. PICK old \in Archives : dir' = Dir_without(old) /\ \A m \in Archives : old.t <= m.t
  BY <1>1, <1>5, OldestFirst
<1>7. DOMAIN dir' = DOMAIN dir \ {old} /\ \A n \in DOMAIN dir' : dir'[n] = dir[n]
  BY <1>6 DEF Dir_without
<1>8. Fewer
  BY <1>7 DEF Fewer
<1>9. \A n \in DOMAIN dir' : Body(n)' = Body(n)
  BY <1>1, <1>8, BodiesKept
<1>10. ~Turning /\ ~Turning' /\ ~Doubled /\ ~Doubled'
  BY <1>1, NoneAssumption DEF Turning, Keeping, Doubled, At
<1>11. Shape' /\ Sorted'
  BY <1>1, <1>8, <1>10, SortedFewer DEF KeptInv
<1>12. Enough'
  <2>1. Archives' = Archives \ {old}
    BY <1>7 DEF Archives
  <2>2. Counted' = Archives \ {old}
    BY <1>10, <2>1 DEF Counted
  <2>3. Cardinality(Archives \ {old}) = Cardinality(Archives) - 1
    BY <1>3, <1>6, FS_RemoveElement
  <2>4. Cardinality(Archives \ {old}) >= keep
    BY <1>2, <1>3, <1>4, <2>3
  <2> QED  BY <1>2, <2>2, <2>4 DEF Enough
<1>13. \A n \in Live' : n \in Live /\ n \in Archives /\ n # old /\ n \in DOMAIN dir' /\ n \in Held'
  <2> SUFFICES ASSUME NEW n \in Live' PROVE n \in Live /\ n \in Archives /\ n # old /\ n \in DOMAIN dir' /\ n \in Held'
    OBVIOUS
  <2>1. n \in DOMAIN dir' /\ n # Zipped /\ n # Previous
    BY <1>10 DEF Live
  <2>2. n # Current
    BY <1>1, <1>7, <2>1 DEF ProcInv, ClosedLog, Archiving, At
  <2>3. n \in Archives
    BY <1>1, <1>7, <2>1, <2>2 DEF Shape
  <2> QED  BY <1>7, <2>1, <2>3 DEF Live, Held
<1>14. Aged'
  <2> SUFFICES ASSUME NEW c \in Gone', NEW n \in Live', NEW k \in Body(n)' PROVE c < k
    BY <1>12 DEF Aged
  <2>1. k \in Body(n) /\ c \notin Body(n)
    <3>1. c \notin Body(n)'
      BY <1>13 DEF Gone
    <3> QED  BY <1>9, <1>13, <3>1
  <2>2. CASE c \in Body(old)
    <3>1. old.t \in Nat /\ n.t \in Nat
      <4>1. \A m \in Archives : m.t \in 1 .. clock
        BY <1>1, KindsDiffer DEF Shape, Archives
      <4> QED  BY <1>6, <1>13, <4>1
    <3>2. old.t # n.t
      <4>1. ~Mixed(old) /\ ~Mixed(n)
        BY <2>1, <2>2 DEF Body, Mixed
      <4> QED  BY <1>6, <1>13, <2>1, <2>2, <4>1 DEF KeptInv, Sorted
    <3>3. old.t < n.t
      BY <1>6, <1>13, <3>1, <3>2
    <3>4. Below(Body(old), Body(n))
      BY <1>6, <1>13, <3>3 DEF KeptInv, Sorted
    <3> QED  BY <2>1, <2>2, <3>4 DEF Below
  <2>3. CASE c \notin Body(old)
    <3>1. \A m \in Held : m # old => m \in Held' /\ m \in DOMAIN dir'
      BY <1>1, <1>7, <1>10 DEF Held
    <3>2. c \in logged \ risked /\ \A m \in Held' : c \notin Body(m)'
      BY DEF Gone
    <3>3. \A m \in Held : c \notin Body(m)
      BY <1>9, <2>3, <3>1, <3>2
    <3>4. c \in Gone
      BY <3>2, <3>3 DEF Gone
    <3> QED  BY <1>13, <2>1, <3>4 DEF KeptInv, Aged
  <2> QED  BY <2>2, <2>3
<1>15. main' \in Procs => Keeper(main)'
  <2> SUFFICES ASSUME main' = p, proc'[p].pc \in {"open", "prune"}, proc'[p].fn = proc[p].fn PROVE Keeper(p)'
    BY NoneAssumption
  <2>1. /\ proc[p].fn.kind = "archive"
        /\ proc[p].fn \in DOMAIN dir => Gz(proc[p].fn) \notin DOMAIN dir
    BY <1>1 DEF Keeper, At
  <2> QED  BY <1>7, <2>1 DEF Keeper
<1> QED  BY <1>11, <1>14, <1>15 DEF KeptInv

LEMMA KeptPrune ==
  ASSUME LoneInv, KeptInv, Alone, NEW p \in Procs, Prune(p)
  PROVE  KeptInv'
<1>1. At(p, "prune") /\ UNCHANGED <<file, clock, script, logged, risked>>
  BY DEF Prune
<1>2. main = p /\ TypeOK /\ SameData
  BY <1>1 DEF Alone, Logger, Zipping, At, Up, LoneInv, SameData
<1>3. \/ NothingToPrune(Cardinality(Archives), proc[p].opt.keep) /\ Goto(p, "open") /\ UNCHANGED <<dir, main>>
      \/ /\ ~NothingToPrune(Cardinality(Archives), proc[p].opt.keep)
         /\ dir' = Dir_without(Oldest(Archives))
         /\ (Goto(p, "open") /\ UNCHANGED main) \/ UNCHANGED <<proc, main>> \/ Ends(p, FALSE)
  BY DEF Prune
<1>4. CASE NothingToPrune(Cardinality(Archives), proc[p].opt.keep) /\ Goto(p, "open") /\ UNCHANGED <<dir, main>>
  <2>1. proc'[p].pc = "open" /\ proc'[p].fn = proc[p].fn
    BY <1>2, <1>4, GotoFields
  <2>2. ~Turning /\ ~Turning' /\ main' = p
    BY <1>1, <1>2, <1>4, <2>1 DEF Turning, Keeping, At
  <2> QED  BY <1>1, <1>2, <1>4, <2>1, <2>2, KeptIdle DEF At
<1>5. CASE /\ ~NothingToPrune(Cardinality(Archives), proc[p].opt.keep)
           /\ dir' = Dir_without(Oldest(Archives))
           /\ (Goto(p, "open") /\ UNCHANGED main) \/ UNCHANGED <<proc, main>> \/ Ends(p, FALSE)
  <2>1. \/ main' = None
        \/ main' = p /\ proc'[p].pc \in {"open", "prune"} /\ proc'[p].fn = proc[p].fn
    <3>1. CASE Goto(p, "open") /\ UNCHANGED main
      BY <1>2, <3>1, GotoFields
    <3>2. CASE UNCHANGED <<proc, main>>
      BY <1>1, <1>2, <3>2 DEF At
    <3>3. CASE Ends(p, FALSE)
      BY <1>2, <3>3 DEF Ends
    <3> QED  BY <1>5, <3>1, <3>2, <3>3
  <2> QED  BY <1>1, <1>2, <1>5, <2>1, KeptPruned
<1> QED  BY <1>3, <1>4, <1>5

\* open() of "current": the one that is resumed, or an empty one.
LEMMA KeptOpenCurrent ==
  ASSUME LoneInv, KeptInv, Alone, NEW p \in Procs, OpenCurrent(p)
  PROVE  KeptInv'
<1> DEFINE there == Current \in DOMAIN dir
           i == IF there THEN dir[Current] ELSE New
           data == IF there THEN file[i].data ELSE <<>>
<1>1. /\ At(p, "open") /\ (there \/ Space) /\ dir' = Dir_with(Current, i)
      /\ file' = [file EXCEPT ![i] = [data |-> data, exec |-> FALSE, mixed |-> FALSE]]
      /\ UNCHANGED <<clock, script, logged, risked, main>>
  BY DEF OpenCurrent, OpenMode
<1>2. main = p /\ main' = p /\ TypeOK /\ Keeper(p) /\ proc[p] \in Process /\ main # None
  BY <1>1, NoneAssumption DEF Alone, Logger, Zipping, At, Up, LoneInv, KeptInv, TypeOK
<1>3. proc'[p].pc \in {"line", "write"} /\ proc'[p].fn = proc[p].fn
  <2>1. PICK fd : \/ Set(p, [proc[p] EXCEPT !.pc = "line", !.fd = fd, !.init = FALSE])
                  \/ Set(p, [proc[p] EXCEPT !.pc = "write", !.fd = fd, !.size = 0, !.flagrotate = FALSE])
    BY DEF OpenCurrent
  <2>2. \/ proc'[p] = [proc[p] EXCEPT !.pc = "line", !.fd = fd, !.init = FALSE]
        \/ proc'[p] = [proc[p] EXCEPT !.pc = "write", !.fd = fd, !.size = 0, !.flagrotate = FALSE]
    BY <1>2, <2>1, SetOthers
  <2> QED  BY <1>2, <2>2 DEF Process
<1>4. ~Turning /\ ~Turning' /\ ~Doubled /\ ~Doubled'
  BY <1>1, <1>2, <1>3 DEF Turning, Keeping, Doubled, At
<1>5. i \in Inodes /\ (~there => data = <<>> /\ \A n \in DOMAIN dir : dir[n] # i)
      /\ (there => data = file[i].data /\ i = dir[Current])
  BY <1>1, <1>2, NewTyped DEF TypeOK, Free
<1> HIDE DEF i, data
<1>6. /\ DOMAIN dir' = DOMAIN dir \cup {Current} /\ dir'[Current] = i
      /\ \A n \in DOMAIN dir : dir'[n] = dir[n]
  BY <1>1, <1>5 DEF Dir_with
<1>7. \A n \in DOMAIN dir : Body(n)' = Body(n) /\ Mixed(n)' = Mixed(n)
  <2> SUFFICES ASSUME NEW n \in DOMAIN dir PROVE Body(n)' = Body(n) /\ Mixed(n)' = Mixed(n)
    OBVIOUS
  <2>1. dir'[n] = dir[n] /\ dir[n] \in Inodes
    BY <1>2, <1>6 DEF TypeOK
  <2>2. dir[n] = i => ~file[i].mixed /\ data = file[i].data
    <3>1. there => ~file[dir[Current]].mixed
      BY NotMixed DEF there
    <3> QED  BY <1>5, <3>1
  <2>3. file'[dir[n]].data = file[dir[n]].data /\ file'[dir[n]].mixed = file[dir[n]].mixed
    BY <1>1, <1>2, <1>5, <2>1, <2>2 DEF TypeOK
  <2> QED  BY <2>1, <2>3 DEF Body, Mixed
<1>8. ~there => Body(Current)' = {}
  <2>1. file'[i].data = data
    BY <1>1, <1>2, <1>5 DEF TypeOK
  <2> QED  BY <1>5, <1>6, <2>1 DEF Body, Chars
<1> HIDE DEF there
<1>9. Archives' = Archives /\ Archives \subseteq DOMAIN dir
  BY <1>6, KindsDiffer DEF Archives
<1>10. \A n \in DOMAIN dir' : n \in DOMAIN dir \/ (n = Current /\ ~there)
  BY <1>6 DEF there
<1>11. Shape'
  <2>1. IsFiniteSet(DOMAIN dir')
    BY <1>6, FS_AddElement DEF KeptInv, Shape
  <2>2. \A n \in DOMAIN dir' :
         \/ n \in {Current, Previous, Zipped}
         \/ n \in Archives' /\ n.t \in 1 .. clock' /\ n.ext \in {"s", "u"}
    BY <1>1, <1>9, <1>10 DEF KeptInv, Shape
  <2>3. Current \in DOMAIN dir' /\ Previous \in DOMAIN dir' => dir'[Current] # dir'[Previous]
    <3> SUFFICES ASSUME Previous \in DOMAIN dir' PROVE dir'[Current] # dir'[Previous]
      OBVIOUS
    <3>1. Previous \in DOMAIN dir
      BY <1>10, NamesDiffer
    <3> QED  BY <1>5, <1>6, <3>1 DEF there, KeptInv, Shape
  <2> QED  BY <2>1, <2>2, <2>3 DEF Shape
<1>12. Sorted'
  <2>1. \A m, n \in Archives' : m.t = n.t => Body(m)' = Body(n)' \/ Mixed(m)' \/ Mixed(n)'
    BY <1>7, <1>9 DEF KeptInv, Sorted
  <2>2. \A m, n \in Archives' : m.t < n.t => Below(Body(m)', Body(n)')
    <3> SUFFICES ASSUME NEW m \in Archives, NEW n \in Archives, m.t < n.t PROVE Below(Body(m)', Body(n)')
      BY <1>9
    <3>1. Below(Body(m), Body(n))
      BY DEF KeptInv, Sorted
    <3> QED  BY <1>7, <1>9, <3>1
  <2>3. Newest(Current)'
    <3> SUFFICES ASSUME NEW m \in Archives PROVE dir'[m] = dir'[Current] \/ Below(Body(m)', Body(Current)')
      BY <1>9 DEF Newest, Below
    <3>1. CASE there
      <4>1. Current \in DOMAIN dir
        BY <3>1 DEF there
      <4>2. dir[m] = dir[Current] \/ Below(Body(m), Body(Current))
        BY <4>1 DEF KeptInv, Sorted, Newest
      <4> QED  BY <1>6, <1>7, <1>9, <4>1, <4>2
    <3>2. CASE ~there
      BY <1>8, <3>2 DEF Below
    <3> QED  BY <3>1, <3>2
  <2>4. \A n \in DOMAIN dir' \ {Zipped} : Body(n)' \subseteq logged'
    BY <1>1, <1>7, <1>8, <1>10 DEF KeptInv, Sorted
  <2> QED  BY <1>4, <2>1, <2>2, <2>3, <2>4 DEF Sorted, Below
<1>13. Aged'
  <2>1. Held \subseteq Held' /\ Held \subseteq DOMAIN dir
    BY <1>2, <1>4, <1>6 DEF Held
  <2>2. Gone' \subseteq Gone
    BY <1>1, <1>7, <2>1 DEF Gone
  <2>3. Counted' = Counted
    BY <1>4, <1>9 DEF Counted
  <2>4. Enough => Enough'
    BY <1>1, <1>2, <1>11, <2>3, EnoughStill DEF TypeOK
  <2>5. \A n \in Live' : (n \in Live /\ n \in DOMAIN dir) \/ (n = Current /\ ~there)
    BY <1>4, <1>10 DEF Live
  <2>6. \A n \in Live' : \A k \in Body(n)' : \E m \in Live : k \in Body(m)
    BY <1>7, <1>8, <2>5
  <2> QED  BY <2>2, <2>4, <2>6, AgedStill DEF KeptInv
<1>14. Keeper(p)'
  <2>1. /\ proc[p].fn.kind = "archive"
        /\ proc[p].fn \in DOMAIN dir => Gz(proc[p].fn) \notin DOMAIN dir
    BY <1>1, <1>2 DEF Keeper, At
  <2>2. proc[p].fn # Current /\ Gz(proc[p].fn) # Current
    BY <1>2, <2>1, NamesDiffer, KindsDiffer DEF Process
  <2> QED  BY <1>3, <1>6, <2>1, <2>2 DEF Keeper
<1> QED  BY <1>2, <1>11, <1>12, <1>13, <1>14 DEF KeptInv

\* rename("current", "previous"): the newest log is still the newest.
LEMMA KeptRename ==
  ASSUME LoneInv, KeptInv, Alone, NEW p \in Procs, Rename(p)
  PROVE  KeptInv'
<1>1. /\ At(p, "rename") /\ Current \in DOMAIN dir /\ dir' = Dir_renamed(Current, Previous)
      /\ UNCHANGED <<file, clock, script, logged, risked, main>>
      /\ Set(p, [proc[p] EXCEPT !.log = Previous, !.ext = "s", !.pc = "keep"])
  BY DEF Rename
<1>2. main = p /\ main' = p /\ TypeOK /\ Keeper(p) /\ ProcInv(p) /\ proc[p] \in Process /\ main # None
  BY <1>1, NoneAssumption DEF Alone, Logger, Zipping, At, Up, LoneInv, KeptInv, TypeOK
<1>3. proc'[p].pc = "keep" /\ proc'[p].fn = proc[p].fn /\ ~proc'[p].init
  <2>1. proc'[p] = [proc[p] EXCEPT !.log = Previous, !.ext = "s", !.pc = "keep"]
    BY <1>1, <1>2, SetOthers
  <2>2. ~proc[p].init
    BY <1>1, <1>2 DEF ProcInv, Stage
  <2> QED  BY <1>2, <2>1, <2>2 DEF Process
<1>4. ~Turning /\ Turning' /\ ~Doubled /\ ~Doubled'
  BY <1>1, <1>2, <1>3 DEF Turning, Keeping, Doubled, At
<1>5. /\ DOMAIN dir' = (DOMAIN dir \ {Current}) \cup {Previous} /\ dir'[Previous] = dir[Current]
      /\ \A n \in DOMAIN dir \ {Current, Previous} : dir'[n] = dir[n]
      /\ Current \notin DOMAIN dir'
  BY <1>1, NamesDiffer DEF Dir_renamed
<1>6. /\ \A n \in DOMAIN dir \ {Current, Previous} : Body(n)' = Body(n) /\ Mixed(n)' = Mixed(n)
      /\ Body(Previous)' = Body(Current)
  BY <1>1, <1>5 DEF Body, Mixed
<1>7. Archives' = Archives /\ Archives \subseteq DOMAIN dir \ {Current, Previous}
  BY <1>5, KindsDiffer DEF Archives
<1>8. Shape'
  <2>1. IsFiniteSet(DOMAIN dir')
    <3>1. IsFiniteSet(DOMAIN dir \ {Current})
      BY FS_Subset DEF KeptInv, Shape
    <3> QED  BY <1>5, <3>1, FS_AddElement
  <2> QED  BY <1>1, <1>5, <1>7, <2>1 DEF KeptInv, Shape
<1>9. Sorted'
  <2>1. \A m, n \in Archives' : m.t = n.t => Body(m)' = Body(n)' \/ Mixed(m)' \/ Mixed(n)'
    BY <1>6, <1>7 DEF KeptInv, Sorted
  <2>2. \A m, n \in Archives' : m.t < n.t => Below(Body(m)', Body(n)')
    <3> SUFFICES ASSUME NEW m \in Archives, NEW n \in Archives, m.t < n.t PROVE Below(Body(m)', Body(n)')
      BY <1>7
    <3>1. Below(Body(m), Body(n))
      BY DEF KeptInv, Sorted
    <3> QED  BY <1>6, <1>7, <3>1
  <2>3. Newest(Previous)'
    <3> SUFFICES ASSUME NEW m \in Archives PROVE dir'[m] = dir'[Previous] \/ Below(Body(m)', Body(Previous)')
      BY <1>7 DEF Newest, Below
    <3>1. dir[m] = dir[Current] \/ Below(Body(m), Body(Current))
      BY <1>1 DEF KeptInv, Sorted, Newest
    <3> QED  BY <1>5, <1>6, <1>7, <3>1
  <2>4. Newest(Current)'
    BY <1>5 DEF Newest
  <2>5. \A n \in DOMAIN dir' \ {Zipped} : Body(n)' \subseteq logged'
    <3>1. Current # Zipped
      BY NamesDiffer
    <3> QED  BY <1>1, <1>5, <1>6, <3>1 DEF KeptInv, Sorted
  <2> QED  BY <2>1, <2>2, <2>3, <2>4, <2>5 DEF Sorted, Below
<1>10. Aged'
  <2>1. \A n \in Held : n = Current \/ (n \in Held' /\ n \in DOMAIN dir \ {Current, Previous})
    BY <1>2, <1>4, <1>5 DEF Held
  <2>2. Previous \in Held' /\ Current \in Live
    BY <1>1, <1>4, <1>5, NamesDiffer DEF Held, Live
  <2>3. Gone' \subseteq Gone
    <3> SUFFICES ASSUME NEW c, c \in logged, c \notin risked, \A n \in Held' : c \notin Body(n)',
                        NEW n \in Held
                 PROVE  c \notin Body(n)
      BY <1>1 DEF Gone
    <3>1. CASE n = Current
      BY <1>6, <2>2, <3>1
    <3>2. CASE n # Current
      BY <1>6, <2>1, <3>2
    <3> QED  BY <3>1, <3>2
  <2>4. Counted' = Counted
    BY <1>4, <1>7 DEF Counted
  <2>5. Enough => Enough'
    BY <1>1, <1>2, <1>8, <2>4, EnoughStill DEF TypeOK
  <2>6. \A n \in Live' : n = Previous \/ (n \in Live /\ n \in DOMAIN dir \ {Current, Previous})
    BY <1>4, <1>5 DEF Live
  <2>7. \A n \in Live' : \A k \in Body(n)' : \E m \in Live : k \in Body(m)
    BY <1>6, <2>2, <2>6
  <2> QED  BY <2>3, <2>5, <2>7, AgedStill DEF KeptInv
<1>11. Keeper(p)'
  <2>1. /\ proc[p].fn.kind = "archive"
        /\ proc[p].fn \in DOMAIN dir => Gz(proc[p].fn) \notin DOMAIN dir
    BY <1>1, <1>2 DEF Keeper, At
  <2>2. proc[p].fn # Previous /\ Gz(proc[p].fn) # Previous
    BY <1>2, <2>1, NamesDiffer, KindsDiffer DEF Process
  <2> QED  BY <1>3, <1>5, <2>1, <2>2 DEF Keeper
<1> QED  BY <1>2, <1>8, <1>9, <1>10, <1>11 DEF KeptInv

\* write(): what comes is newer than all there is.
LEMMA KeptWrite ==
  ASSUME SameResume, LoneInv, InOrder, KeptInv, Alone, NEW p \in Procs, Write(p)
  PROVE  KeptInv'
<1>1. PICK k \in Nat \ {0}, part \in Seq(Nat), rest \in Seq(Nat), pc \in {"write", "close", "line"} :
        OneWrite(p, k, part, rest, pc)
  BY Written, Zenon DEF LoneInv
<1>2. /\ At(p, "write") /\ UNCHANGED <<dir, clock, script, risked, main>>
      /\ ProcInv(p) /\ proc[p] \in Process /\ TypeOK
  BY DEF Write, LoneInv, TypeOK
<1>3. main = p /\ main' = p /\ Keeper(p) /\ main # None /\ OnItsWay(p)
  BY <1>2, NoneAssumption DEF Alone, Logger, Zipping, At, Up, KeptInv, InOrder
<1>4. proc'[p].pc = pc /\ proc'[p].fn = proc[p].fn
  <2>1. proc'[p] = [proc[p] EXCEPT !.line = rest, !.size = proc[p].size + k, !.pc = pc]
    BY <1>1, <1>2, SetOthers DEF OneWrite
  <2> QED  BY <1>2, <2>1 DEF Process
<1>5. ~Turning /\ ~Turning' /\ ~Doubled /\ ~Doubled'
  BY <1>2, <1>3, <1>4 DEF Turning, Keeping, Doubled, At
<1>6. PICK i : /\ i = proc[p].fd /\ i \in Inodes /\ Current \in DOMAIN dir /\ dir[Current] = i
               /\ \A n \in DOMAIN dir : dir[n] = i => n = Current
  BY <1>2 DEF ProcInv, OpenLog, Opened, At, TypeOK
<1>7. logged' = logged \cup Chars(part) /\ Chars(part) \subseteq Chars(proc[p].line)
  <2>1. part = SubSeq(proc[p].line, 1, k) /\ k <= Len(proc[p].line) /\ logged' = logged \cup Chars(part)
    BY <1>1 DEF OneWrite
  <2>2. proc[p].line \in Seq(Nat) /\ 1 \in Nat \ {0} /\ k \in Nat
    BY <1>2 DEF Process
  <2> QED  BY <2>1, <2>2, PartOf
<1>8. Below(logged, Chars(part))
  BY <1>3, <1>7 DEF OnItsWay, Below
<1>9. \A n \in DOMAIN dir \ {Current} : Body(n)' = Body(n) /\ Mixed(n)' = Mixed(n)
  <2> SUFFICES ASSUME NEW n \in DOMAIN dir \ {Current} PROVE Body(n)' = Body(n) /\ Mixed(n)' = Mixed(n)
    OBVIOUS
  <2>1. dir[n] \in Inodes \ {i}
    BY <1>2, <1>6 DEF TypeOK
  <2>2. file'[dir[n]] = file[dir[n]]
    BY <1>1, <1>2, <1>6, <2>1 DEF TypeOK, OneWrite
  <2> QED  BY <1>2, <2>2 DEF Body, Mixed
<1>10. Body(Current)' = Body(Current) \cup Chars(part)
  <2>1. file'[i].data = file[i].data \o part /\ file[i].data \in Seq(Nat)
        /\ file'[i].mixed = file[i].mixed /\ ~file[i].mixed
    <3>1. ~file[i].mixed
      BY <1>6, NotMixed
    <3>2. file[i] \in [data : Seq(Nat), exec : BOOLEAN, mixed : BOOLEAN]
      BY <1>2, <1>6 DEF TypeOK
    <3>3. file'[i] = [file[i] EXCEPT !.data = file[i].data \o part]
      BY <1>1, <1>2, <1>6 DEF TypeOK, OneWrite
    <3> QED  BY <3>1, <3>2, <3>3
  <2>2. Chars(file[i].data \o part) = Chars(file[i].data) \cup Chars(part)
    BY <1>1, <2>1, Joined
  <2> QED  BY <1>2, <1>6, <2>1, <2>2 DEF Body
<1>11. Archives' = Archives /\ Archives \subseteq DOMAIN dir \ {Current}
  BY <1>2, KindsDiffer DEF Archives
<1>12. Shape'
  BY <1>2, <1>11 DEF KeptInv, Shape
<1>13. Sorted'
  <2>1. \A m, n \in Archives' : m.t = n.t => Body(m)' = Body(n)' \/ Mixed(m)' \/ Mixed(n)'
    BY <1>9, <1>11 DEF KeptInv, Sorted
  <2>2. \A m, n \in Archives' : m.t < n.t => Below(Body(m)', Body(n)')
    <3> SUFFICES ASSUME NEW m \in Archives, NEW n \in Archives, m.t < n.t PROVE Below(Body(m)', Body(n)')
      BY <1>11
    <3>1. Below(Body(m), Body(n))
      BY DEF KeptInv, Sorted
    <3> QED  BY <1>9, <1>11, <3>1
  <2>3. Newest(Current)'
    <3> SUFFICES ASSUME NEW m \in Archives PROVE Below(Body(m)', Body(Current)')
      BY <1>11 DEF Newest, Below
    <3>1. Below(Body(m), Body(Current))
      <4>1. dir[m] # dir[Current]
        BY <1>6, <1>11
      <4> QED  BY <1>6, <4>1 DEF KeptInv, Sorted, Newest
    <3>2. Body(m) \subseteq logged
      <4>1. m \in DOMAIN dir \ {Zipped}
        BY <1>11, KindsDiffer
      <4> QED  BY <4>1 DEF KeptInv, Sorted
    <3>3. Below(Body(m), Body(Current) \cup Chars(part))
      BY <1>8, <3>1, <3>2 DEF Below
    <3> QED  BY <1>9, <1>10, <1>11, <3>3
  <2>4. \A n \in DOMAIN dir' \ {Zipped} : Body(n)' \subseteq logged'
    <3>1. \A n \in DOMAIN dir \ {Zipped} : Body(n) \subseteq logged
      BY DEF KeptInv, Sorted
    <3> QED  BY <1>2, <1>6, <1>7, <1>9, <1>10, <3>1, NamesDiffer
  <2> QED  BY <1>5, <2>1, <2>2, <2>3, <2>4 DEF Sorted, Below
<1>14. Aged'
  <2>1. Held' = Held /\ Live' = Live /\ Held \subseteq DOMAIN dir /\ Live \subseteq DOMAIN dir /\ Current \in Held
    BY <1>2, <1>3, <1>5, <1>6, NamesDiffer DEF Held, Live
  <2>2. \A n \in DOMAIN dir : Body(n) \subseteq Body(n)'
    BY <1>9, <1>10
  <2>3. ASSUME NEW c \in Gone' PROVE c \in Gone
    <3>1. c \in logged' /\ c \notin risked /\ \A n \in Held : c \notin Body(n)'
      BY <1>2, <2>1, <2>3 DEF Gone
    <3>2. c \notin Chars(part)
      BY <1>10, <2>1, <3>1
    <3>3. c \in logged /\ \A n \in Held : c \notin Body(n)
      BY <1>7, <2>1, <2>2, <3>1, <3>2
    <3> QED  BY <3>1, <3>3 DEF Gone
  <2>4. Counted' = Counted
    BY <1>5, <1>11 DEF Counted
  <2>5. Enough => Enough'
    BY <1>2, <1>12, <2>4, EnoughStill DEF TypeOK
  <2>6. ASSUME NEW c \in Gone', NEW n \in Live', NEW k2 \in Body(n)' PROVE c < k2
    <3>1. c \in Gone /\ n \in Live /\ n \in DOMAIN dir
      BY <2>1, <2>3
    <3>2. CASE k2 \in Body(n)
      BY <3>1, <3>2 DEF KeptInv, Aged
    <3>3. CASE k2 \in Chars(part)
      BY <1>8, <3>1, <3>3 DEF Gone, Below
    <3> QED  BY <1>9, <1>10, <3>1, <3>2, <3>3
  <2>7. ASSUME NEW c \in Gone' PROVE Enough'
    BY <2>3, <2>5 DEF KeptInv, Aged
  <2> QED  BY <2>6, <2>7 DEF Aged
<1>15. Keeper(p)'
  <2>1. /\ proc[p].fn.kind = "archive"
        /\ proc[p].fn \in DOMAIN dir => Gz(proc[p].fn) \notin DOMAIN dir
    BY <1>2, <1>3 DEF Keeper, At
  <2> QED  BY <1>2, <1>4, <2>1 DEF Keeper
<1> QED  BY <1>3, <1>12, <1>13, <1>14, <1>15 DEF KeptInv

LEMMA KeptClose ==
  ASSUME LoneInv, KeptInv, Alone, NEW p \in Procs, Close(p) \/ Fails(p)
  PROVE  KeptInv'
<1>1. main = p
  BY DEF Alone, Logger, Zipping, Close, Fails, Up, At, Retried, LoneInv, ProcInv, Stage
<1>2. main' = None /\ UNCHANGED <<dir, clock, script, logged, risked>>
  BY <1>1 DEF Close, Fails, Ends, disk
<1>3. SameData
  <2>1. PICK fd : file' = file \/ file' = [file EXCEPT ![fd].exec = TRUE]
    BY DEF Close, Fails, disk
  <2> SUFFICES ASSUME NEW i \in Inodes PROVE file'[i].data = file[i].data /\ file'[i].mixed = file[i].mixed
    BY DEF SameData
  <2>2. file[i] \in [data : Seq(Nat), exec : BOOLEAN, mixed : BOOLEAN] /\ i \in DOMAIN file
    BY DEF LoneInv, TypeOK
  <2>3. file'[i] = file[i] \/ file'[i] = [file[i] EXCEPT !.exec = TRUE]
    BY <2>1, <2>2
  <2> QED  BY <2>2, <2>3
<1> QED  BY <1>2, <1>3, KeptEnds

LEMMA KeptSignals ==
  ASSUME LoneInv, KeptInv, NEW p \in Procs, p = main, Term \/ Hup \/ Kill
  PROVE  KeptInv'
<1>1. UNCHANGED <<dir, file, clock, script, logged, risked>> /\ SameData /\ clock' \in Nat /\ clock <= clock'
  <2>1. UNCHANGED <<dir, file, clock, script, logged, risked>>
    BY DEF Term, Hup, Kill, disk
  <2>2. clock \in Nat
    BY DEF LoneInv, TypeOK
  <2> QED  BY <2>1, <2>2 DEF SameData
<1>2. \/ Ends(main, FALSE)
      \/ /\ main' = p
         /\ \/ Set(p, [proc[p] EXCEPT !.flagexit = TRUE, !.pc = Handled(p)])
            \/ Set(p, [proc[p] EXCEPT !.flagrotate = TRUE, !.pc = Handled(p)])
  <2>1. CASE Term
    BY <2>1, Zenon DEF Term
  <2>2. CASE Hup
    BY <2>2, Zenon DEF Hup
  <2>3. CASE Kill
    BY <2>3, Zenon DEF Kill
  <2> QED  BY <2>1, <2>2, <2>3
<1>3. CASE Ends(main, FALSE)
  <2>1. main' = None
    BY <1>3 DEF Ends
  <2> QED  BY <1>1, <2>1, KeptEnds
<1>4. CASE /\ main' = p
           /\ \/ Set(p, [proc[p] EXCEPT !.flagexit = TRUE, !.pc = Handled(p)])
              \/ Set(p, [proc[p] EXCEPT !.flagrotate = TRUE, !.pc = Handled(p)])
  <2>1. /\ proc'[p].fn = proc[p].fn /\ proc'[p].init = proc[p].init /\ proc'[p].log = proc[p].log
        /\ proc'[p].pc = proc[p].pc \/ (proc[p].pc = "reading" /\ proc'[p].pc = "read")
    BY <1>4, SignalFields
  <2>2. (Turning' <=> Turning) /\ (Doubled' <=> Doubled)
    BY <1>4, <2>1 DEF Turning, Keeping, Doubled
  <2>3. Keeper(p)
    BY DEF KeptInv
  <2>4. Keeper(p)'
    <3>1. CASE proc'[p].pc = proc[p].pc
      <4>1. (\A n : Body(n)' = Body(n) /\ Mixed(n)' = Mixed(n)) /\ Archives' = Archives
        BY <1>1 DEF Body, Mixed, Archives
      <4> QED  BY <1>1, <2>1, <2>3, <3>1, <4>1 DEF Keeper
    <3>2. CASE proc[p].pc = "reading" /\ proc'[p].pc = "read"
      BY <1>1, <2>1, <2>3, <3>2 DEF Keeper
    <3> QED  BY <2>1, <3>1, <3>2
  <2> QED  BY <1>1, <1>4, <2>1, <2>2, <2>4, KeptQuiet
<1> QED  BY <1>2, <1>3, <1>4

LEMMA KeptNext ==
  SameResume /\ LoneInv /\ InOrder /\ KeptInv /\ Alone /\ Alone' /\ [Next]_vars => KeptInv'
<1> SUFFICES ASSUME SameResume, LoneInv, InOrder, KeptInv, Alone, Alone', [Next]_vars PROVE KeptInv'
  OBVIOUS
<1>1. CASE UNCHANGED vars
  <2>1. UNCHANGED <<dir, file, proc, main, script, clock, logged, risked>>
    BY <1>1 DEF vars
  <2>2. (\A n : Body(n)' = Body(n) /\ Mixed(n)' = Mixed(n)) /\ Archives' = Archives /\ (Turning' <=> Turning) /\ (Doubled' <=> Doubled)
    BY <2>1 DEF Body, Mixed, Archives, Turning, Keeping, Doubled, At
  <2>3. Shape' /\ Sorted'
    BY <2>1, <2>2 DEF KeptInv, Shape, Sorted, Newest, Below
  <2>4. main' \in Procs => Keeper(main)'
    BY <2>1, <2>2 DEF KeptInv, Keeper
  <2>5. Held' = Held /\ Live' = Live /\ Counted' = Counted
    BY <2>1, <2>2 DEF Held, Live, Counted
  <2>6. Gone' = Gone /\ (Enough <=> Enough')
    BY <2>1, <2>2, <2>5 DEF Gone, Enough
  <2>7. Aged'
    BY <2>2, <2>5, <2>6 DEF KeptInv, Aged
  <2> QED  BY <2>3, <2>4, <2>7 DEF KeptInv
<1>2. ASSUME NEW p \in Procs, Step(p) \/ ReadData(p) \/ Start(p) PROVE KeptInv'
  BY <1>2, NoReturn, KeptStart, KeptLine, KeptKeepStat, KeptKeepLink, KeptKeepUnlink, KeptForkGzip, KeptExecGzip, KeptGzip,
     KeptPublish, KeptZchmod, KeptDrop, KeptUnzip, KeptPrune, KeptOpenCurrent, KeptRename, KeptWrite, KeptClose
     DEF Step
<1>3. CASE Term \/ Hup \/ Kill
  <2>1. PICK p \in Procs : p = main
    BY <1>3 DEF LoneInv, TypeOK, Term, Hup, Kill
  <2> QED  BY <1>3, <2>1, KeptSignals
<1> QED  BY <1>1, <1>2, <1>3 DEF Next

LEMMA OrderInit == (\A s \in Inputs : Increasing(s)) /\ Init => InOrder
<1> SUFFICES ASSUME \A s \in Inputs : Increasing(s), Init PROVE InOrder
  OBVIOUS
<1>1. Increasing(input) /\ logged = {} /\ \A p \in Procs : ~Logger(p)
  BY DEF Init, Logger, Up, Off
<1> QED  BY <1>1 DEF InOrder, Below

\* Rotation, archiving, zipping, restarts and pruning lose nothing but the
\* oldest text (tinylog.c: tinylog_rotate(), tinylog_keep(), tinylog_gzip(),
\* tinylog_prune() and init_current()).  The text is numbered as it arrives;
\* there is one logger at a time, beside which the gzips of any number of
\* killed tinylogs may run, and the command lines agree about -r.  Text that
\* was deleted though two gzips had written its "zipped" is not promised.
THEOREM OldestTextLost ==
  SameResume /\ (\A s \in Inputs : Increasing(s)) => (Spec /\ []Alone => []Retention)
<1> SUFFICES ASSUME SameResume, \A s \in Inputs : Increasing(s)
             PROVE  Spec /\ []Alone => []Retention
  OBVIOUS
<1>1. Init => InOrder
  BY OrderInit
<1>2. KeptInv /\ LoneInv => Retention
  BY KeptRetains DEF LoneInv
<1>3. LoneInv /\ InOrder /\ KeptInv /\ Alone /\ Alone' /\ [Next]_vars => KeptInv'
  BY KeptNext
<1> QED  BY <1>1, <1>2, <1>3, KeptInit, OrderNext, LoneForever, PTL DEF Spec
=============================================================================
