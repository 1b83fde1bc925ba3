----------------------------- MODULE CallQueue -----------------------------
(***************************************************************************)
(* What the call queue promises a customer, whatever agents, Dialers and   *)
(* schedulers do: a call enters the queue once, and leaves it for good,    *)
(* as answered if the customer has been bridged to a member by then, as    *)
(* abandoned if the customer has hung up.                                  *)
(***************************************************************************)
CONSTANT Calls

VARIABLES
  call,  \* call[c]: where c stands
  met,   \* customers that have been bridged to a member
  left   \* customers that have hung up

vars == <<call, met, left>>

Init ==
  /\ call = [c \in Calls |-> "none"]
  /\ met = {}
  /\ left = {}

Join(c) ==
  /\ call[c] = "none"
  /\ call' = [call EXCEPT ![c] = "live"]
  /\ UNCHANGED <<met, left>>

(* Nobody is bridged outside the queue.                                    *)
Meet(c) ==
  /\ call[c] = "live"
  /\ c \notin left
  /\ met' = met \union {c}
  /\ UNCHANGED <<call, left>>

HangUp(c) ==
  /\ left' = left \union {c}
  /\ UNCHANGED <<call, met>>

Connect(c) ==
  /\ call[c] = "live"
  /\ c \in met
  /\ call' = [call EXCEPT ![c] = "answered"]
  /\ UNCHANGED <<met, left>>

Abandon(c) ==
  /\ call[c] = "live"
  /\ c \in left
  /\ call' = [call EXCEPT ![c] = "abandoned"]
  /\ UNCHANGED <<met, left>>

Next ==
  \E c \in Calls : Join(c) \/ Meet(c) \/ HangUp(c) \/ Connect(c) \/ Abandon(c)

Spec == Init /\ [][Next]_vars
=============================================================================
