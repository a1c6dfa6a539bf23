----------------------------- MODULE MCTinylog -----------------------------
(***************************************************************************)
(* Instances of Tinylog for TLC.                                           *)
(***************************************************************************)
EXTENDS Tinylog

Opt(max, keep, zip, resume) == [max |-> max, keep |-> keep, zip |-> zip, resume |-> resume]
OneOf(opts) == {{o} : o \in opts}
AnyOpt == OneOf({Opt(4, 1, zip, resume) : zip, resume \in BOOLEAN} \cup {Opt(4, 0, zip, FALSE) : zip \in BOOLEAN})

\* A line, a line that is cut, an empty one, and one without newline.
Lines == {<<1, 0, 2, 3, 4, 0, 0, 5>>}

Acts(times) == [e \in Events |-> IF e \in DOMAIN times THEN times[e] ELSE 0]
Acts_tinylog == {Acts([start |-> 2, kill |-> 1, term |-> 1, hup |-> 1, fail |-> 1, clock |-> 1]),
                 Acts([start |-> 3, kill |-> 2]), Acts([start |-> 1, hup |-> 1, open |-> 1])}
=============================================================================
