---------------------------- MODULE QueueClaims ----------------------------
(***************************************************************************)
(* What comments of the call queue say of it and the code does not do:     *)
(* runs refute it, and the README tells how.                               *)
(***************************************************************************)
EXTENDS MCQueueSystem

(* dialer.ex:21: on {:cancel, reason} the Dialer kills the member legs     *)
(* "that are still alive (...), then exits without reporting further       *)
(* outcomes": a leg that rang then is not bridged later.                   *)
CancelledIsNotBridged ==
  \A r \in Res :
    [](att[r].cancelled /\ att[r].leg = "ringing" => [](att[r].leg # "bridged"))

(* agent_session.ex:252-253, of the end of a leg: "Only meaningful when the*)
(* agent is currently on a call. If state is already Available / Wrap Up / *)
(* something else, ignore the late event."  What is compared is the        *)
(* presence alone, so the late end of an earlier leg puts an agent in Wrap *)
(* Up, and with that back to Available, who talks to the next customer.    *)
LateEventIsIgnored ==
  [][\A a \in Agents : db[a] # "Wrap Up" /\ db'[a] = "Wrap Up" =>
       \A r \in Res : att[r].agent = a => att[r].leg # "bridged"]_vars
=============================================================================
