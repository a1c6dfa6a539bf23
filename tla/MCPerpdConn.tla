---------------------------- MODULE MCPerpdConn ----------------------------
(***************************************************************************)
(* Instances of PerpdConn for TLC.                                         *)
(***************************************************************************)
EXTENDS PerpdConn

CONSTANTS c1, c2, s1
Ask(t) == [type |-> t, sv |-> s1]

\* A tool that asks twice and a client of no discipline.
Two == {[c \in Clients |-> IF c = c1 THEN <<Ask("C"), Ask("Q")>> ELSE odd] :
         odd \in {<<Ask("L"), Ask("Y")>>, <<Ask("P")>>}}

Acts(times) == [e \in Events |-> IF e \in DOMAIN times THEN times[e] ELSE 0]
Acts_conn == {Acts([tick |-> 2, turn |-> 1]), Acts([term |-> 1, accept |-> 1]),
              Acts([kill |-> 1, fail |-> 1, auto |-> 1]), Acts([skip |-> 1, pipe |-> 1])}
=============================================================================
