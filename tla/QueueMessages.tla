--------------------------- MODULE QueueMessages ---------------------------
(***************************************************************************)
(* What the processes of the call queue share: the constants of an         *)
(* instance, the two kinds of mailboxes and the messages put in them.      *)
(*                                                                         *)
(* Every Elixir process here is a GenServer: it takes one message at a     *)
(* time, in the order of arrival, and a message is in the receiver's       *)
(* mailbox as soon as it is sent.  Messages of a kind all have the same    *)
(* fields; a field a message does not use holds None, 0 or "-".            *)
(***************************************************************************)
EXTENDS Integers, SequencesExt, FiniteSets

CONSTANTS
  Queues,        \* queues of the organisation, one QueueScheduler each
  Agents,        \* members of the organisation, one AgentSession each
  Calls,         \* customer calls
  None,          \* "no agent", "no call", "no queue" (nil)
  MaxRes,        \* bound: attempts that are started in one behaviour
  MaxNoAnswers,  \* queue.max_no_answers; 0 is "no limit"
  SecondLeg,     \* bound: FALSE leaves the second leg of dial strings out
  OddReplies,    \* bound: FALSE leaves out that FreeSWITCH answers a Dialer
                 \* what does not fit its legs, or nothing it knows
  MaxHangUps,    \* bound: customers who hang up
  MaxTimeOuts,   \* bound: ring and bridge timers that fire
  MaxUserActs,   \* bound: presences the users set by hand
  MaxMemberActs, \* bound: changes of the queues' membership
  MaxCrashes     \* bound: schedulers and Dialers that crash

ASSUME QueueConstants ==
  /\ None \notin Queues \union Agents \union Calls
  /\ IsFiniteSet(Agents)
  /\ MaxRes \in Nat
  /\ MaxNoAnswers \in Nat
  /\ SecondLeg \in BOOLEAN
  /\ OddReplies \in BOOLEAN
  /\ MaxHangUps \in Nat
  /\ MaxTimeOuts \in Nat
  /\ MaxUserActs \in Nat
  /\ MaxMemberActs \in Nat
  /\ MaxCrashes \in Nat

Res == 1..MaxRes         \* reservation ids, in the order they are handed out
NoRes == 0               \* reservation: nil

(* org_members.presence.  "Reserved" exists only inside an AgentSession.   *)
DbPresence ==
  {"Available", "On Break", "Busy", "Wrap Up", "On Call", "Logged Out"}
Presence == DbPresence \union {"Reserved"}

(* Presences that an AgentSession puts an agent in for a while.            *)
Passing == {"Busy", "Wrap Up"}

VARIABLES
  schedBox,  \* schedBox[q]: mailbox of the scheduler of queue q
  agentBox,  \* agentBox[a]: mailbox of the session of agent a
  pending    \* pending[q]: the GenServer.call that the scheduler of q waits
             \* in, with its answer once there is one

boxVars == <<schedBox, agentBox>>

----------------------------------------------------------------------------
SchedMsg ==
  [type : {"add_waiting_call", "call_hung_up"},
   agent : {None}, call : Calls, arg : {"-"}]
  \union
  [type : {"add_member", "remove_member"},
   agent : Agents, call : {None}, arg : {"-"}]
  \union
  [type : {"attempt_finished"},
   agent : Agents, call : Calls, arg : {"answered", "failed", "timed_out"}]
  \union
  [type : {"presence_update"},
   agent : Agents, call : {None}, arg : DbPresence]

CallMsg(type, c) == [type |-> type, agent |-> None, call |-> c, arg |-> "-"]
MemberMsg(type, a) == [type |-> type, agent |-> a, call |-> None, arg |-> "-"]
Finished(a, c, outcome) ==
  [type |-> "attempt_finished", agent |-> a, call |-> c, arg |-> outcome]
PresenceUpdate(a, p) ==
  [type |-> "presence_update", agent |-> a, call |-> None, arg |-> p]

AgentMsg ==
  [type : {"attempt", "cancel_attempt"},
   queue : Queues, call : Calls, res : {NoRes}, expected : {"-"}]
  \union
  [type : {"queue_member_answered", "queue_member_rejected",
           "queue_member_call_ended"},
   queue : Queues \union {None}, call : {None}, res : {NoRes},
   expected : {"-"}]
  \union
  [type : {"dialer_member_answered", "dialer_answered", "dialer_failed",
           "DOWN", "attempt_timeout", "bridge_timeout"},
   queue : {None}, call : {None}, res : Res, expected : {"-"}]
  \union
  [type : {"restore_presence"},
   queue : {None}, call : {None}, res : {NoRes}, expected : Passing]

Request(type, q, c) ==
  [type |-> type, queue |-> q, call |-> c, res |-> NoRes, expected |-> "-"]
LegEvent(type, q) == Request(type, q, None)
Report(type, r) ==
  [type |-> type, queue |-> None, call |-> None, res |-> r, expected |-> "-"]
(* Mutant: the restore of Wrap Up compares with Busy, like that of Busy.   *)
RestorePresenceFromBusy(p) ==
  [type |-> "restore_presence", queue |-> None, call |-> None, res |-> NoRes,
   expected |-> "Busy"]

RestorePresence(p) ==
  [type |-> "restore_presence", queue |-> None, call |-> None, res |-> NoRes,
   expected |-> p]

(* The scheduler casts and PubSub broadcasts: m to one queue, m to all.    *)
ToQueue(box, q, m) == [box EXCEPT ![q] = Append(@, m)]
Broadcast(box, m) == [q \in Queues |-> Append(box[q], m)]

ToAgent(box, a, m) == [box EXCEPT ![a] = Append(@, m)]

(* A scheduler makes two kinds of calls to sessions: attempt, with the     *)
(* candidates left to try after this agent, and cancel_attempt, with what  *)
(* the handler does afterwards.                                            *)
Idle ==
  [request |-> "none", agent |-> None, call |-> None, rest |-> <<>>,
   after |-> "match", answer |-> "none"]

Pending ==
  {Idle}
  \union
  [request : {"attempt", "cancel_attempt"}, agent : Agents, call : Calls,
   rest : Seq(Agents), after : {"match", "stay", "forget_call"},
   answer : {"none", "ok", "error"}]

Asking(request, a, c, rest, after) ==
  [request |-> request, agent |-> a, call |-> c, rest |-> rest,
   after |-> after, answer |-> "none"]

BoxesTypeOK ==
  /\ pending \in [Queues -> Pending]
  /\ schedBox \in [Queues -> Seq(SchedMsg)]
  /\ agentBox \in [Agents -> Seq(AgentMsg)]
=============================================================================
