------------------------------- MODULE Dialer -------------------------------
(***************************************************************************)
(* Comcent.Queue.AgentSession.Dialer, one process per attempt, and what    *)
(* FreeSWITCH does for it: the two member legs of the dial string          *)
(* (DialUtils.create_dial_string_for_user), of which at most one answers,  *)
(* and the customer's leg.                                                 *)
(*                                                                         *)
(* The Dialer spends its life inside handle_continue, blocked in a         *)
(* synchronous ESL request, and every branch of it ends with {:stop, ...}: *)
(* the {:cancel, _} message is never taken out of its mailbox.  It is      *)
(* recorded (cancelled) and acted on by nobody.                            *)
(*                                                                         *)
(* FreeSWITCH is the environment.  Its legs ring, answer and end when the  *)
(* peer does so; a channel event of a leg goes to the call's story.        *)
(***************************************************************************)
EXTENDS QueuedCall

VARIABLES
  next_res,  \* the reservation id the next attempt gets
  att,       \* att[r]: the attempt of reservation r, its Dialer and its legs
  dialer,    \* dialer[a]: the attempt whose Dialer the session of a monitors
  story,     \* story[c]: leg events of c on their way through RabbitMQ and
             \* the CallSession to the agents' sessions
  customer   \* customer[c]: the customer's own leg

attemptVars == <<next_res, att, dialer, story, customer>>

Attempt ==
  [agent : Agents \union {None}, queue : Queues \union {None},
   call : Calls \union {None},
   dial : {"none", "originate", "bridge", "failing", "stopping", "done"},
   cancelled : BOOLEAN,
   timer : {"off", "ring", "bridge"},       \* the session's timer for it
   leg : {"none", "ringing", "up", "bridged",
          "missed", "dropped", "over"},     \* the leg that may answer
   fork : {"none", "ringing", "gone"},      \* the leg that never does
   hupall : BOOLEAN]                        \* an out-of-band hupall is due

NoAttempt ==
  [agent |-> None, queue |-> None, call |-> None, dial |-> "none",
   cancelled |-> FALSE, timer |-> "off", leg |-> "none", fork |-> "none",
   hupall |-> FALSE]

(* Dialer.start_link/1 and the ring timer that is started with it.         *)
NewAttempt(a, q, c) ==
  [NoAttempt EXCEPT !.agent = a, !.queue = q, !.call = c,
                    !.dial = "originate", !.timer = "ring"]

StoryEvent ==
  [type : {"answered", "ended", "rejected"}, res : Res]

CustomerState == {"new", "up", "hungup", "gone"}

Running(r) == att[r].dial \in {"originate", "bridge"}
EverBridged(r) == att[r].leg \in {"bridged", "over"}

----------------------------------------------------------------------------
(* How a leg that stops in state leg ends, and the CHANNEL_DESTROY events  *)
(* of the legs of attempt r that are still there.                          *)
Ended(leg) ==
  CASE leg = "ringing" -> "missed"
    [] leg = "up"      -> "dropped"
    [] leg = "bridged" -> "over"
    [] OTHER           -> leg

LegEnd(r) ==
  IF att[r].leg \in {"up", "bridged"} THEN <<[type |-> "ended", res |-> r]>>
  ELSE IF att[r].leg = "ringing" THEN <<[type |-> "rejected", res |-> r]>>
  ELSE <<>>

ForkEnd(r) ==
  IF att[r].fork = "ringing" THEN <<[type |-> "rejected", res |-> r]>>
  ELSE <<>>

Tell(r, events) == [story EXCEPT ![att[r].call] = @ \o events]

(* `hupall NORMAL_CLEARING comcent_dialed_for_attempt <key>`: every leg of *)
(* the attempt that exists at this moment.                                 *)
Hupall(attempt) ==
  [attempt EXCEPT !.leg = Ended(@),
                  !.fork = IF @ = "ringing" THEN "gone" ELSE @]

----------------------------------------------------------------------------
(* FreeSWITCH creates the legs of the originate.                           *)
Ring(r) ==
  /\ att[r].dial = "originate"
  /\ att[r].leg = "none"
  /\ att' = [att EXCEPT ![r].leg = "ringing",
                        ![r].fork = IF SecondLeg THEN "ringing" ELSE "gone"]
  /\ UNCHANGED <<boxVars, pending, qc, next_res, dialer, story, customer>>

LegAnswers(r) ==
  /\ att[r].leg = "ringing"
  /\ att' = [att EXCEPT ![r].leg = "up"]
  /\ story' = Tell(r, <<[type |-> "answered", res |-> r]>>)
  /\ UNCHANGED <<boxVars, pending, qc, next_res, dialer, customer>>

(* The member declines or hangs up, the ringing times out, or the other    *)
(* end of the bridge is gone.                                              *)
LegEnds(r) ==
  /\ att[r].leg \in {"ringing", "up", "bridged"}
  /\ att' = [att EXCEPT ![r].leg = Ended(@)]
  /\ story' = Tell(r, LegEnd(r))
  /\ UNCHANGED <<boxVars, pending, qc, next_res, dialer, customer>>

(* The other leg fails by itself, or loses to the one that answered.       *)
ForkEnds(r) ==
  /\ att[r].fork = "ringing"
  /\ att' = [att EXCEPT ![r].fork = "gone"]
  /\ story' = Tell(r, ForkEnd(r))
  /\ UNCHANGED <<boxVars, pending, qc, next_res, dialer, customer>>

(* hupall_attempt_out_of_band: a task of its own, so it may run before the *)
(* originate has made the legs, and then finds nothing to hang up.         *)
HupallRuns(r) ==
  /\ att[r].hupall
  /\ att' = [att EXCEPT ![r] = [Hupall(@) EXCEPT !.hupall = FALSE]]
  /\ story' = Tell(r, LegEnd(r) \o ForkEnd(r))
  /\ UNCHANGED <<boxVars, pending, qc, next_res, dialer, customer>>

----------------------------------------------------------------------------
(* No ESL connection, so that there are no legs; -ERR, as none answered; or*)
(* a reply nobody expects, whatever the legs do.  fail/2 reports first and *)
(* cleans up afterwards (DialerExits).                                     *)
OriginateRejected(r) ==
  /\ att[r].dial = "originate"
  /\ \/ OddReplies
     \/ att[r].leg \in {"none", "missed"} /\ att[r].fork # "ringing"
  /\ att' = [att EXCEPT ![r].dial = "failing"]
  /\ agentBox' = ToAgent(agentBox, att[r].agent, Report("dialer_failed", r))
  /\ UNCHANGED <<schedBox, pending, qc, next_res, dialer, story, customer>>

(* Mutant: the pick-up is reported as the conversation.                    *)
PickUpIsAnswer(r) ==
  /\ att[r].dial = "originate"
  /\ att[r].leg \in {"up", "dropped"}
  /\ att' = [att EXCEPT ![r].dial = "bridge"]
  /\ agentBox' = ToAgent(agentBox, att[r].agent, Report("dialer_answered", r))
  /\ UNCHANGED <<schedBox, pending, qc, next_res, dialer, story, customer>>

(* +OK <uuid>: the member picked up, and may be gone again already.        *)
OriginateAnswered(r) ==
  /\ att[r].dial = "originate"
  /\ att[r].leg \in {"up", "dropped"}
  /\ att' = [att EXCEPT ![r].dial = "bridge"]
  /\ agentBox' =
       ToAgent(agentBox, att[r].agent, Report("dialer_member_answered", r))
  /\ UNCHANGED <<schedBox, pending, qc, next_res, dialer, story, customer>>

(* uuid_bridge takes the customer from the leg it was bridged with; that   *)
(* leg hangs up (hangup_after_bridge).                                     *)
UuidBridge(r) ==
  LET taken == {s \in Res : att[s].call = att[r].call /\ att[s].leg = "bridged"}
  IN
  /\ att[r].dial = "bridge"
  /\ att[r].leg = "up"
  /\ customer[att[r].call] = "up"
  /\ att' = [s \in Res |->
               IF s = r THEN [att[s] EXCEPT !.leg = "bridged"]
               ELSE IF s \in taken THEN [att[s] EXCEPT !.leg = "over"]
               ELSE att[s]]
  /\ story' = [story EXCEPT ![att[r].call] =
                 @ \o SetToSeq({[type |-> "ended", res |-> s] : s \in taken})]
  /\ UNCHANGED <<boxVars, pending, qc, next_res, dialer, customer>>

(* +OK: by now the conversation may be over.                               *)
BridgeSucceeded(r) ==
  /\ att[r].dial = "bridge"
  /\ EverBridged(r)
  /\ att' = [att EXCEPT ![r].dial = "stopping"]
  /\ agentBox' = ToAgent(agentBox, att[r].agent, Report("dialer_answered", r))
  /\ UNCHANGED <<schedBox, pending, qc, next_res, dialer, story, customer>>

(* Any reply other than +OK: a leg is gone, or something nobody expects,   *)
(* whatever became of the bridge.  uuid_kill takes the member's leg.       *)
BridgeFails(r) ==
  /\ att[r].dial = "bridge"
  /\ \/ OddReplies
     \/ /\ ~EverBridged(r)
        /\ att[r].leg # "up" \/ customer[att[r].call] # "up"
  /\ att' = [att EXCEPT ![r].dial = "failing", ![r].leg = Ended(@)]
  /\ story' = Tell(r, LegEnd(r))
  /\ agentBox' = ToAgent(agentBox, att[r].agent, Report("dialer_failed", r))
  /\ UNCHANGED <<schedBox, pending, qc, next_res, dialer, customer>>

(* Mutant: the session forgot to monitor the Dialer.                       *)
DownUnseen(r) == agentBox

(* The exit of a process is a message to whoever monitors it.              *)
Down(r) ==
  IF dialer[att[r].agent] = r
  THEN ToAgent(agentBox, att[r].agent, Report("DOWN", r))
  ELSE agentBox

(* The process ends, after fail/2 has hung up what was left of the         *)
(* attempt.                                                                *)
DialerExits(r) ==
  /\ att[r].dial \in {"failing", "stopping"}
  /\ IF att[r].dial = "failing"
     THEN /\ att' = [att EXCEPT ![r] = [Hupall(@) EXCEPT !.dial = "done"]]
          /\ story' = Tell(r, LegEnd(r) \o ForkEnd(r))
     ELSE /\ att' = [att EXCEPT ![r].dial = "done"]
          /\ UNCHANGED story
  /\ agentBox' = Down(r)
  /\ UNCHANGED <<schedBox, pending, qc, next_res, dialer, customer>>

(* The process dies inside an ESL request; its legs stay.                  *)
DialerCrashes(r) ==
  /\ Running(r)
  /\ att' = [att EXCEPT ![r].dial = "done"]
  /\ agentBox' = Down(r)
  /\ UNCHANGED <<schedBox, pending, qc, next_res, dialer, story, customer>>

DialerTypeOK ==
  /\ next_res \in 1..(MaxRes + 1)
  /\ att \in [Res -> Attempt]
  /\ dialer \in [Agents -> 0..MaxRes]
  /\ story \in [Calls -> Seq(StoryEvent)]
  /\ customer \in [Calls -> CustomerState]
=============================================================================
