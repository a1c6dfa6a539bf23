-------------------------------- MODULE Rpc --------------------------------
(***************************************************************************)
(* What the control socket promises a client of perpd: a request is acted  *)
(* upon at most once, and an answer that reaches the client is the result  *)
(* of acting upon that very request.  A request may also be lost, whether  *)
(* perpd has acted upon it or not; the client is then told of an error.    *)
(***************************************************************************)
CONSTANTS
  Requests,    \* all requests of all clients
  Results,     \* what acting upon one may yield
  Nothing,     \* not acted upon / not answered yet, not one of the Results
  Lost         \* the client is told of a failure of the connection, likewise

VARIABLES
  done,        \* request -> its result
  told         \* request -> what the client has been told

vars == <<done, told>>

Init == /\ done = [r \in Requests |-> Nothing]
        /\ told = [r \in Requests |-> Nothing]

Do(r) == /\ done[r] = Nothing
         /\ \E v \in Results : done' = [done EXCEPT ![r] = v]
         /\ UNCHANGED told

Tell(r) == /\ told[r] = Nothing /\ done[r] # Nothing
           /\ told' = [told EXCEPT ![r] = done[r]]
           /\ UNCHANGED done

Lose(r) == /\ told[r] = Nothing
           /\ told' = [told EXCEPT ![r] = Lost]
           /\ UNCHANGED done

Next == \E r \in Requests : Do(r) \/ Tell(r) \/ Lose(r)
Spec == Init /\ [][Next]_vars
=============================================================================
