---------------------------- MODULE QueueSystem ----------------------------
(***************************************************************************)
(* The call queue as a whole: the schedulers, the agents' sessions, the    *)
(* queued calls and the Dialers of the modules below, with what happens    *)
(* around them.  Customers call, wait and hang up; FreeSWITCH's channel    *)
(* events reach the EventRouter and the CallSessions; members set their    *)
(* presence; managers add members to a queue and remove them; processes    *)
(* crash.                                                                  *)
(***************************************************************************)
EXTENDS QueueScheduler

VARIABLES
  time_outs,    \* attempt timers that have fired so far
  user_acts,    \* presences set by hand so far
  member_acts,  \* changes of membership so far
  crashes       \* crashes so far

bounds == <<time_outs, user_acts, member_acts, crashes>>
vars == <<boxVars, pending, qc, attemptVars, sessionVars, schedVars, members,
          bounds>>

Init ==
  /\ schedBox = [q \in Queues |-> <<>>]
  /\ agentBox = [a \in Agents |-> <<>>]
  /\ pending = [q \in Queues |-> Idle]
  /\ qc = [c \in Calls |-> NoProcess("none")]
  /\ next_res = 1
  /\ att = [r \in Res |-> NoAttempt]
  /\ dialer = [a \in Agents |-> NoRes]
  /\ story = [c \in Calls |-> <<>>]
  /\ customer = [c \in Calls |-> "new"]
  /\ db \in [Agents -> {"Available", "Logged Out"}]
  /\ presence = db
  /\ reservation = [a \in Agents |-> NoRes]
  /\ member_answered = [a \in Agents |-> FALSE]
  /\ no_answer_counts = [a \in Agents |-> [q \in Queues |-> 0]]
  /\ restore_timer = [a \in Agents |-> "none"]
  /\ lost_timers = [a \in Agents |-> {}]
  /\ waiting = [q \in Queues |-> <<>>]
  /\ members \in [Queues -> SUBSET Agents]
  /\ available \in [Queues -> UNION {ActiveAgents(who) : who \in SUBSET Agents}]
  /\ \A q \in Queues : available[q] \in ActiveAgents(members[q])
  /\ in_flight = [q \in Queues |-> NobodyInFlight]
  /\ last_assigned = [q \in Queues |-> None]
  /\ time_outs = 0
  /\ user_acts = 0
  /\ member_acts = 0
  /\ crashes = 0

----------------------------------------------------------------------------
(* Customers.                                                              *)

(* The dialplan sends the call to a queue (add_call_to_queue).             *)
Enqueue(c, q) ==
  /\ customer[c] = "new"
  /\ customer' = [customer EXCEPT ![c] = "up"]
  /\ schedBox' = ToQueue(schedBox, q, CallMsg("add_waiting_call", c))
  /\ UNCHANGED <<agentBox, pending, qc, next_res, att, dialer, story,
                 sessionVars, schedVars, members, bounds>>

CustomerHangsUp(c) ==
  /\ Cardinality({d \in Calls : customer[d] # "new" /\ customer[d] # "up"})
       < MaxHangUps
  /\ customer[c] = "up"
  /\ customer' = [customer EXCEPT ![c] = "hungup"]
  /\ UNCHANGED <<boxVars, pending, qc, next_res, att, dialer, story,
                 sessionVars, schedVars, members, bounds>>

(* notify_queue_on_customer_destroy/1: only a call that has its process is *)
(* reported to the scheduler.                                              *)
HangUpNoticed(c) ==
  /\ customer[c] = "hungup"
  /\ customer' = [customer EXCEPT ![c] = "gone"]
  /\ schedBox' = IF Alive(qc[c])
                 THEN ToQueue(schedBox, qc[c].queue, CallMsg("call_hung_up", c))
                 ELSE schedBox
  /\ UNCHANGED <<agentBox, pending, qc, next_res, att, dialer, story,
                 sessionVars, schedVars, members, bounds>>

(* The CallSession takes the next event of a member leg: a leg that ends   *)
(* had an ON_CALL span open or a RINGING one.  The legs here are all       *)
(* dialled by a queue; what the CallSession does at the end of another leg *)
(* is DirectCallEnds of PresenceLapse.                                     *)
LegMessage(e) ==
  CASE e.type = "answered" -> LegEvent("queue_member_answered", None)
    [] e.type = "ended" ->
         LegEvent("queue_member_call_ended", att[e.res].queue)
    [] e.type = "rejected" ->
         LegEvent("queue_member_rejected", att[e.res].queue)

RelayLegEvent(c) ==
  /\ story[c] # <<>>
  /\ story' = [story EXCEPT ![c] = Tail(@)]
  /\ agentBox' = ToAgent(agentBox, att[Head(story[c]).res].agent,
                         LegMessage(Head(story[c])))
  /\ UNCHANGED <<schedBox, pending, qc, next_res, att, dialer, customer,
                 sessionVars, schedVars, members, bounds>>

----------------------------------------------------------------------------
(* Members and managers.                                                   *)

(* MemberController.update_presence/2, in the app and for the SBC.         *)
UserSets(a, p) ==
  /\ user_acts < MaxUserActs
  /\ user_acts' = user_acts + 1
  /\ WriteDb(a, p)
  /\ schedBox' = Broadcast(schedBox, PresenceUpdate(a, p))
  /\ UNCHANGED <<agentBox, pending, qc, attemptVars, presence, reservation,
                 member_answered, no_answer_counts, restore_timer, lost_timers,
                 schedVars, members, time_outs, member_acts,
                 crashes>>

ChangeMembers(q, who, m) ==
  /\ member_acts < MaxMemberActs
  /\ member_acts' = member_acts + 1
  /\ members' = [members EXCEPT ![q] = who]
  /\ schedBox' = ToQueue(schedBox, q, m)
  /\ UNCHANGED <<agentBox, pending, qc, attemptVars, sessionVars, schedVars,
                 time_outs, user_acts, crashes>>

JoinsQueue(a, q) ==
  /\ a \notin members[q]
  /\ ChangeMembers(q, members[q] \union {a}, MemberMsg("add_member", a))

LeavesQueue(a, q) ==
  /\ a \in members[q]
  /\ ChangeMembers(q, members[q] \ {a}, MemberMsg("remove_member", a))

----------------------------------------------------------------------------
DialerStep(r) ==
  \/ OriginateRejected(r)
  \/ OriginateAnswered(r)
  \/ UuidBridge(r)
  \/ BridgeSucceeded(r)
  \/ BridgeFails(r)
  \/ DialerExits(r)

LegStep(r) ==
  \/ Ring(r)
  \/ LegAnswers(r)
  \/ LegEnds(r)
  \/ ForkEnds(r)
  \/ HupallRuns(r)

NotSession == <<schedVars, members, bounds>>
NotDialer == <<sessionVars, NotSession>>

TimeOut(a) ==
  /\ time_outs < MaxTimeOuts
  /\ time_outs' = time_outs + 1
  /\ AttemptTimerFires(a)
  /\ UNCHANGED <<schedVars, members, user_acts, member_acts, crashes>>

Crash ==
  /\ crashes < MaxCrashes
  /\ crashes' = crashes + 1
  /\ \/ \E q \in Queues : SchedulerRestarts(q)
     \/ \E r \in Res : /\ DialerCrashes(r)
                       /\ UNCHANGED <<sessionVars, schedVars, members>>
  /\ UNCHANGED <<time_outs, user_acts, member_acts>>

(* Nothing is left to do.                                                  *)
Quiescent ==
  /\ \A q \in Queues : schedBox[q] = <<>> /\ pending[q].request = "none"
  /\ \A a \in Agents : agentBox[a] = <<>> /\ reservation[a] = NoRes
  /\ \A c \in Calls : story[c] = <<>>
  /\ \A r \in Res : att[r].dial \in {"none", "done"}
  /\ UNCHANGED vars

Next ==
  \/ \E q \in Queues : SchedulerStep(q) /\ UNCHANGED bounds
  \/ \E a \in Agents :
       \/ (SessionStep(a) \/ RestoreTimerFires(a)) /\ UNCHANGED NotSession
       \/ TimeOut(a)
  \/ \E r \in Res : (DialerStep(r) \/ LegStep(r)) /\ UNCHANGED NotDialer
  \/ \E c \in Calls, q \in Queues : Enqueue(c, q)
  \/ \E c \in Calls : CustomerHangsUp(c) \/ HangUpNoticed(c) \/ RelayLegEvent(c)
  \/ \E a \in Agents, p \in {"Available", "On Break", "Logged Out"} :
       UserSets(a, p)
  \/ \E a \in Agents, q \in Queues : JoinsQueue(a, q) \/ LeavesQueue(a, q)
  \/ Crash
  \/ Quiescent

(* The server's processes run, its timers fire and events are delivered;   *)
(* nobody has to call, to answer or to hang up.                            *)
ServerFairness ==
  /\ \A q \in Queues : WF_vars(SchedulerStep(q) /\ UNCHANGED bounds)
  /\ \A a \in Agents :
       /\ WF_vars(SessionStep(a) /\ UNCHANGED NotSession)
       /\ WF_vars(TimeOut(a))
       /\ WF_vars(RestoreTimerFires(a) /\ UNCHANGED NotSession)
  /\ \A c \in Calls : WF_vars(HangUpNoticed(c)) /\ WF_vars(RelayLegEvent(c))

(* FreeSWITCH answers the Dialer and does not let a leg ring for ever.     *)
FreeSwitchFairness ==
  \A r \in Res :
    /\ WF_vars(DialerStep(r) /\ UNCHANGED NotDialer)
    /\ WF_vars((Ring(r) \/ ForkEnds(r) \/ HupallRuns(r)) /\ UNCHANGED NotDialer)
    /\ WF_vars(att[r].leg = "ringing" /\ LegEnds(r) /\ UNCHANGED NotDialer)

Spec == Init /\ [][Next]_vars
LiveSpec == Spec /\ ServerFairness
FairSpec == LiveSpec /\ FreeSwitchFairness

----------------------------------------------------------------------------
TypeOK ==
  /\ BoxesTypeOK
  /\ QueuedCallTypeOK
  /\ DialerTypeOK
  /\ AgentSessionTypeOK
  /\ SchedulerTypeOK
  /\ time_outs \in 0..MaxTimeOuts
  /\ user_acts \in 0..MaxUserActs
  /\ member_acts \in 0..MaxMemberActs
  /\ crashes \in 0..MaxCrashes

----------------------------------------------------------------------------
(* Safety.                                                                 *)

InBox(box, m) == \E i \in 1..Len(box) : box[i] = m

(* The scheduler's three views of an agent never contradict each other: an *)
(* agent is listed once at most as available, nobody listed is being       *)
(* dialled for a call, no call is being dialled on two agents' accounts,   *)
(* and the call a session is being asked about has nobody in flight.       *)
SchedulerConsistent ==
  \A q \in Queues :
    /\ IsInjective(available[q])
    /\ \A i \in 1..Len(available[q]) : in_flight[q][available[q][i]] = None
    /\ \A a, b \in Agents :
         in_flight[q][a] = in_flight[q][b] /\ a # b => in_flight[q][a] = None
    /\ pending[q].request = "attempt" =>
         \A a \in Agents : in_flight[q][a] # pending[q].call

(* As long as its process lives, a call is in the waiting list of its      *)
(* queue, so that no failed, cancelled or late attempt loses the customer. *)
(* (A scheduler that crashes does: see the README.)                        *)
LiveCallIsWaiting ==
  \A c \in Calls : Alive(qc[c]) => Contains(waiting[qc[c].queue], c)

(* A call without a process is in a waiting list only while the message or *)
(* the request that takes it out is under way.  Such a call would make     *)
(* try_agents/3 strike every available agent off the list.                 *)
DeadCallLeavesWaiting ==
  \A q \in Queues, c \in Calls :
    Contains(waiting[q], c) /\ ~Alive(qc[c]) =>
      \/ \E a \in Agents : InBox(schedBox[q], Finished(a, c, "answered"))
      \/ pending[q].call = c /\ pending[q].after = "forget_call"

(* A reserved agent has a Dialer at work for it, or the Dialer's last word *)
(* is in the session's mailbox: no interleaving of reports, timers,        *)
(* cancellations and crashes of Dialers leaves an agent reserved for good. *)
ReservationHasResolver ==
  \A a \in Agents : LET r == reservation[a] IN r # NoRes =>
    \/ dialer[a] = r /\ Running(r)
    \/ \E i \in 1..Len(agentBox[a]) :
         /\ agentBox[a][i].res = r
         /\ \/ agentBox[a][i].type \in {"dialer_answered", "dialer_failed"}
            \/ agentBox[a][i].type = "DOWN" /\ dialer[a] = r

(* A member who is Busy or in Wrap Up has a timer, or its message, that    *)
(* will bring them back, although restore_timer_ref forgets timers.        *)
PassingHasTimer ==
  \A a \in Agents : db[a] \in Passing =>
    \/ restore_timer[a] = db[a]
    \/ db[a] \in lost_timers[a]
    \/ InBox(agentBox[a], RestorePresence(db[a]))

(* What the queue promises a customer.                                     *)
Promise ==
  INSTANCE CallQueue WITH
    call <- [c \in Calls |-> qc[c].state],
    met <- {c \in Calls : \E r \in Res : att[r].call = c /\ EverBridged(r)},
    left <- {c \in Calls : customer[c] \in {"hungup", "gone"}}

KeepsPromise == Promise!Spec

----------------------------------------------------------------------------
(* Liveness.                                                               *)

(* No attempt keeps its agent for good, even if FreeSWITCH never answers.  *)
AttemptResolves ==
  \A a \in Agents, r \in Res : reservation[a] = r ~> reservation[a] # r

(* Once the scheduler has been told of a hang-up, the call leaves.         *)
HungUpCallLeaves ==
  \A c \in Calls, q \in Queues :
    InBox(schedBox[q], CallMsg("call_hung_up", c))
      ~> ~Alive(qc[c]) /\ ~Contains(waiting[q], c)

(* A member who is made Busy or put in Wrap Up gets out of it.             *)
PassingEnds == \A a \in Agents : db[a] \in Passing ~> db[a] \notin Passing
=============================================================================
