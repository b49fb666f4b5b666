--------------------------- MODULE HostCallService ---------------------------
(***************************************************************************)
(* What the callback handler promises to the guests, with no channel, no   *)
(* task and no thread: a call is accepted only while the service is open;  *)
(* a call that is being served is answered, unless serving it breaks,      *)
(* which only fragile calls can do and which affects no other call; and    *)
(* closing the service gives up the calls nobody serves yet and only those.*)
(***************************************************************************)
CONSTANT Guests

VARIABLES open,    \* whether new calls are accepted
          status,  \* what has become of the call of each guest
          fragile  \* the guests whose call may break while it is served

vars == <<open, status, fragile>>

Init ==
  /\ open = TRUE
  /\ status = [g \in Guests |-> "idle"]
  /\ fragile = {}

Accept(g) ==
  /\ open
  /\ status[g] = "idle"
  /\ status' = [status EXCEPT ![g] = "accepted"]
  /\ fragile' \in {fragile, fragile \cup {g}}
  /\ UNCHANGED open

Serve(g) ==
  /\ open
  /\ status[g] = "accepted"
  /\ status' = [status EXCEPT ![g] = "serving"]
  /\ UNCHANGED <<open, fragile>>

Answer(g) ==
  /\ status[g] = "serving"
  /\ status' = [status EXCEPT ![g] = "answered"]
  /\ UNCHANGED <<open, fragile>>

Break(g) ==
  /\ status[g] = "serving" /\ g \in fragile
  /\ status' = [status EXCEPT ![g] = "abandoned"]
  /\ UNCHANGED <<open, fragile>>

Return(g) ==
  /\ status[g] \in {"answered", "abandoned"}
  /\ status' = [status EXCEPT ![g] = "idle"]
  /\ fragile' = fragile \ {g}
  /\ UNCHANGED open

Close ==
  /\ open
  /\ open' = FALSE
  /\ status' = [g \in Guests |->
                  IF status[g] = "accepted" THEN "abandoned" ELSE status[g]]
  /\ UNCHANGED fragile

Next ==
  \/ Close
  \/ \E g \in Guests : Accept(g) \/ Serve(g) \/ Answer(g) \/ Break(g) \/ Return(g)

Spec == Init /\ [][Next]_vars

=============================================================================
