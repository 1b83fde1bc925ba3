-------------------------- MODULE QueueSystemTypes --------------------------
(***************************************************************************)
(* The type invariant of the call queue, proved for any number of queues,  *)
(* agents and calls and any bounds.  TypeOK is not inductive by itself: a  *)
(* session tells the scheduler of the call of the attempt it is reserved   *)
(* for, so that attempt has to be one that was started, for a real call.   *)
(***************************************************************************)
EXTENDS QueueSystem, ListLemmas

(* The attempt an agent is reserved for, and the one whose Dialer the      *)
(* session monitors, have been started for this agent.                     *)
StartedFor(a, r) ==
  /\ r < next_res
  /\ att[r].agent = a
  /\ att[r].queue \in Queues
  /\ att[r].call \in Calls

AttemptsStarted ==
  \A a \in Agents :
    /\ reservation[a] # NoRes => StartedFor(a, reservation[a])
    /\ dialer[a] # NoRes => StartedFor(a, dialer[a])

TypeInv == TypeOK /\ AttemptsStarted

----------------------------------------------------------------------------
(* Mailboxes.                                                              *)

LEMMA SchedMessages ==
  /\ \A c \in Calls : /\ CallMsg("add_waiting_call", c) \in SchedMsg
                      /\ CallMsg("call_hung_up", c) \in SchedMsg
  /\ \A a \in Agents : /\ MemberMsg("add_member", a) \in SchedMsg
                       /\ MemberMsg("remove_member", a) \in SchedMsg
  /\ \A a \in Agents, p \in DbPresence : PresenceUpdate(a, p) \in SchedMsg
  /\ \A a \in Agents, c \in Calls :
       \A outcome \in {"answered", "failed", "timed_out"} :
         Finished(a, c, outcome) \in SchedMsg
BY DEF CallMsg, MemberMsg, PresenceUpdate, Finished, SchedMsg

LEMMA AgentMessages ==
  /\ \A q \in Queues, c \in Calls :
       /\ Request("attempt", q, c) \in AgentMsg
       /\ Request("cancel_attempt", q, c) \in AgentMsg
  /\ \A q \in Queues \union {None} :
       \A type \in {"queue_member_answered", "queue_member_rejected",
                    "queue_member_call_ended"} :
         LegEvent(type, q) \in AgentMsg
  /\ \A r \in Res :
       \A type \in {"dialer_member_answered", "dialer_answered",
                    "dialer_failed", "DOWN", "attempt_timeout",
                    "bridge_timeout"} :
         Report(type, r) \in AgentMsg
  /\ \A p \in Passing : RestorePresence(p) \in AgentMsg
BY DEF Request, LegEvent, Report, RestorePresence, AgentMsg

LEMMA SchedBoxes ==
  ASSUME NEW box \in [Queues -> Seq(SchedMsg)], NEW m \in SchedMsg
  PROVE  /\ \A q \in Queues : ToQueue(box, q, m) \in [Queues -> Seq(SchedMsg)]
         /\ Broadcast(box, m) \in [Queues -> Seq(SchedMsg)]
<1>1. \A q \in Queues : Append(box[q], m) \in Seq(SchedMsg)
  OBVIOUS
<1> QED
  BY <1>1 DEF ToQueue, Broadcast

(* A message to nobody changes no mailbox.                                 *)
LEMMA AgentBoxes ==
  ASSUME NEW box \in [Agents -> Seq(AgentMsg)], NEW m \in AgentMsg, NEW a
  PROVE  ToAgent(box, a, m) \in [Agents -> Seq(AgentMsg)]
<1>1. CASE a \in Agents
  <2>1. Append(box[a], m) \in Seq(AgentMsg)
    BY <1>1
  <2> QED
    BY <2>1 DEF ToAgent
<1>2. CASE a \notin Agents
  BY <1>2 DEF ToAgent
<1> QED
  BY <1>1, <1>2

LEMMA FirstMessage ==
  ASSUME TypeOK, NEW a \in Agents, agentBox[a] # <<>>
  PROVE  /\ Head(agentBox[a]) \in AgentMsg
         /\ Rest(a) \in [Agents -> Seq(AgentMsg)]
BY DEF TypeOK, BoxesTypeOK, Rest

----------------------------------------------------------------------------
(* Matching.                                                               *)

LEMMA OrderCandidatesType ==
  ASSUME NEW av \in Seq(Agents), av # <<>>, NEW last
  PROVE  OrderCandidates(av, last) \in Seq(Agents) \ {<<>>}
<1>1. CASE \E i \in 1..(Len(av) - 1) : av[i] = last
  <2>1. PICK i \in 1..(Len(av) - 1) :
          OrderCandidates(av, last)
            = SubSeq(av, i + 1, Len(av)) \o SubSeq(av, 1, i)
    BY <1>1 DEF OrderCandidates
  <2>2. /\ SubSeq(av, i + 1, Len(av)) \in Seq(Agents)
        /\ SubSeq(av, 1, i) \in Seq(Agents)
        /\ Len(SubSeq(av, 1, i)) = i
    OBVIOUS
  <2>3. \A s, t \in Seq(Agents) : t # <<>> => s \o t \in Seq(Agents) \ {<<>>}
    OBVIOUS
  <2>4. SubSeq(av, 1, i) # <<>>
    BY <2>2
  <2> QED
    BY <2>1, <2>2, <2>3, <2>4
<1>2. CASE ~\E i \in 1..(Len(av) - 1) : av[i] = last
  BY <1>2 DEF OrderCandidates
<1> QED
  BY <1>1, <1>2

LEMMA EligibleAgentsType ==
  ASSUME NEW candidates \in Seq(Agents) \ {<<>>}, NEW k
  PROVE  EligibleAgents(k, candidates) \in Seq(Agents) \ {<<>>}
BY RemoveFirstIsSeq DEF EligibleAgents

LEMMA AskingType ==
  ASSUME NEW request \in {"attempt", "cancel_attempt"}, NEW a \in Agents,
         NEW c \in Calls, NEW rest \in Seq(Agents),
         NEW after \in {"match", "stay", "forget_call"}
  PROVE  Asking(request, a, c, rest, after) \in Pending
BY DEF Asking, Pending

LEMMA AskAgentType ==
  ASSUME TypeOK, NEW q \in Queues, NEW c \in Calls,
         NEW candidates \in Seq(Agents) \ {<<>>},
         AskAgent(q, c, candidates, agentBox)
  PROVE  /\ pending' \in [Queues -> Pending]
         /\ agentBox' \in [Agents -> Seq(AgentMsg)]
<1>1. Head(candidates) \in Agents /\ Tail(candidates) \in Seq(Agents)
  OBVIOUS
<1>2. pending \in [Queues -> Pending] /\ agentBox \in [Agents -> Seq(AgentMsg)]
  BY DEF TypeOK, BoxesTypeOK
<1> QED
  BY <1>1, <1>2, AskingType, AgentMessages, AgentBoxes DEF AskAgent

LEMMA GoIdleType ==
  ASSUME TypeOK, NEW q \in Queues, GoIdle(q, agentBox)
  PROVE  /\ pending' \in [Queues -> Pending]
         /\ agentBox' \in [Agents -> Seq(AgentMsg)]
BY DEF TypeOK, BoxesTypeOK, GoIdle, Pending

LEMMA AskCancelType ==
  ASSUME TypeOK, NEW q \in Queues, NEW a \in Agents, NEW c \in Calls,
         NEW after \in {"match", "stay", "forget_call"},
         AskCancel(q, a, c, after)
  PROVE  /\ pending' \in [Queues -> Pending]
         /\ agentBox' \in [Agents -> Seq(AgentMsg)]
<1>1. pending \in [Queues -> Pending] /\ agentBox \in [Agents -> Seq(AgentMsg)]
  BY DEF TypeOK, BoxesTypeOK
<1>2. <<>> \in Seq(Agents)
  OBVIOUS
<1> QED
  BY <1>1, <1>2, AskingType, AgentMessages, AgentBoxes DEF AskCancel

----------------------------------------------------------------------------
(* Queued calls.                                                           *)

LEMMA QueuedCallTypes ==
  ASSUME NEW k \in QueuedCallState
  PROVE  /\ \A q \in Queues : Start(k, q) \in QueuedCallState
         /\ \A a \in Agents, r \in Res :
              BeginAttempt(k, a, r) \in QueuedCallState
         /\ EndAttempt(k) \in QueuedCallState
         /\ \A how \in {"answered", "abandoned"} :
              Stop(k, how) \in QueuedCallState
<1>1. NoRes \in 0..MaxRes /\ Res \subseteq 0..MaxRes
  BY QueueConstants DEF NoRes, Res
<1>2. \A how \in {"live", "answered", "abandoned"} :
        NoProcess(how) \in QueuedCallState
  BY <1>1 DEF NoProcess, QueuedCallState
<1>3. \A l \in QueuedCallState, q \in Queues :
        [l EXCEPT !.queue = q] \in QueuedCallState
  BY DEF QueuedCallState
<1>4. \A q \in Queues : Start(k, q) \in QueuedCallState
  BY <1>2, <1>3 DEF Start
<1>5. \A a \in Agents, r \in Res : BeginAttempt(k, a, r) \in QueuedCallState
  BY <1>1 DEF BeginAttempt, QueuedCallState
<1>6. EndAttempt(k) \in QueuedCallState
  BY <1>1 DEF EndAttempt, QueuedCallState
<1>7. \A how \in {"answered", "abandoned"} : Stop(k, how) \in QueuedCallState
  BY <1>2 DEF Stop
<1> QED
  BY <1>4, <1>5, <1>6, <1>7

----------------------------------------------------------------------------
(* Schedulers.                                                             *)

(* The variables a scheduler's step may change besides its own mailbox.    *)
MatchTypeOK ==
  /\ waiting \in [Queues -> Seq(Calls)]
  /\ available \in [Queues -> Seq(Agents)]
  /\ in_flight \in [Queues -> [Agents -> Calls \union {None}]]
  /\ last_assigned \in [Queues -> Agents \union {None}]
  /\ pending \in [Queues -> Pending]
  /\ agentBox \in [Agents -> Seq(AgentMsg)]

LEMMA SchedulerStateType ==
  ASSUME TypeOK, NEW q \in Queues,
         NEW w \in Seq(Calls), NEW av \in Seq(Agents),
         NEW inf \in [Agents -> Calls \union {None}],
         NEW last \in Agents \union {None},
         SchedulerState(q, w, av, inf, last)
  PROVE  /\ waiting' \in [Queues -> Seq(Calls)]
         /\ available' \in [Queues -> Seq(Agents)]
         /\ in_flight' \in [Queues -> [Agents -> Calls \union {None}]]
         /\ last_assigned' \in [Queues -> Agents \union {None}]
BY DEF TypeOK, SchedulerTypeOK, SchedulerState

LEMMA MaybeMatchType ==
  ASSUME TypeOK, NEW q \in Queues,
         NEW w \in Seq(Calls), NEW av \in Seq(Agents),
         NEW inf \in [Agents -> Calls \union {None}],
         NEW last \in Agents \union {None}, NEW calls,
         MaybeMatch(q, w, av, inf, last, calls)
  PROVE  MatchTypeOK'
<1>1. SchedulerState(q, w, av, inf, last)
  BY DEF MaybeMatch
<1>2. CASE av = <<>> \/ NextCallable(w, inf) = {}
  BY <1>1, <1>2, SchedulerStateType, GoIdleType DEF MaybeMatch, MatchTypeOK
<1>3. CASE ~(av = <<>> \/ NextCallable(w, inf) = {})
  <2>1. PICK i \in NextCallable(w, inf) :
          AskAgent(q, w[i],
                   EligibleAgents(calls[w[i]], OrderCandidates(av, last)),
                   agentBox)
    BY <1>3 DEF MaybeMatch
  <2>2. w[i] \in Calls
    BY DEF NextCallable
  <2>3. EligibleAgents(calls[w[i]], OrderCandidates(av, last))
          \in Seq(Agents) \ {<<>>}
    BY <1>3, OrderCandidatesType, EligibleAgentsType
  <2> QED
    BY <1>1, <2>1, <2>2, <2>3, SchedulerStateType, AskAgentType
    DEF MatchTypeOK
<1> QED
  BY <1>2, <1>3

(* A step of a scheduler leaves all but these variables and its mailbox    *)
(* alone.                                                                  *)
SchedulerLeaves == <<attemptVars, sessionVars, members>>

LEMMA HandlesType ==
  ASSUME TypeOK, NEW q \in Queues, NEW type, Handles(q, type)
  PROVE  /\ Head(schedBox[q]) \in SchedMsg
         /\ Head(schedBox[q]).type = type
         /\ schedBox' \in [Queues -> Seq(SchedMsg)]
<1>1. schedBox \in [Queues -> Seq(SchedMsg)] /\ schedBox[q] # <<>>
  BY DEF TypeOK, BoxesTypeOK, Handles
<1>2. Head(schedBox[q]) \in SchedMsg /\ Tail(schedBox[q]) \in Seq(SchedMsg)
  BY <1>1
<1> QED
  BY <1>1, <1>2 DEF Handles

LEMMA SchedMsgFields ==
  ASSUME NEW m \in SchedMsg
  PROVE  /\ m.type \in {"add_waiting_call", "call_hung_up"} => m.call \in Calls
         /\ m.type \in {"add_member", "remove_member", "presence_update"}
              => m.agent \in Agents
         /\ m.type = "attempt_finished"
              => m.agent \in Agents /\ m.call \in Calls
BY DEF SchedMsg

LEMMA OfferedType ==
  ASSUME TypeOK, NEW q \in Queues, NEW a \in Agents
  PROVE  Offered(q, a) \in Seq(Agents)
BY DEF TypeOK, SchedulerTypeOK, Offered, PutAvailable

LEMMA DropAgentType ==
  ASSUME TypeOK, NEW q \in Queues, NEW a \in Agents,
         NEW after \in {"match", "stay"}, DropAgent(q, a, after)
  PROVE  MatchTypeOK'
<1> DEFINE av == RemoveFirst(available[q], a)
<1>1. /\ av \in Seq(Agents) /\ waiting[q] \in Seq(Calls)
      /\ in_flight[q] \in [Agents -> Calls \union {None}]
      /\ last_assigned[q] \in Agents \union {None}
  BY RemoveFirstIsSeq DEF TypeOK, SchedulerTypeOK
<1>2. CASE in_flight[q][a] # None
  <2>1. /\ SchedulerState(q, waiting[q], av, in_flight[q], last_assigned[q])
        /\ AskCancel(q, a, in_flight[q][a], after)
    BY <1>2 DEF DropAgent
  <2>2. in_flight[q][a] \in Calls
    BY <1>1, <1>2
  <2> QED
    BY <1>1, <2>1, <2>2, SchedulerStateType, AskCancelType DEF MatchTypeOK
<1>3. CASE in_flight[q][a] = None /\ after = "match"
  BY <1>1, <1>3, MaybeMatchType DEF DropAgent
<1>4. CASE in_flight[q][a] = None /\ after # "match"
  BY <1>1, <1>4, SchedulerStateType, GoIdleType DEF DropAgent, MatchTypeOK
<1> QED
  BY <1>2, <1>3, <1>4

LEMMA SchedulerHandlesType ==
  ASSUME TypeOK, NEW q \in Queues,
         \/ AddWaitingCall(q) \/ CallHungUp(q) \/ AddMember(q)
         \/ RemoveMember(q) \/ AttemptFinished(q) \/ AgentAvailable(q)
         \/ AgentLoggedOut(q) \/ AgentNotAvailable(q)
  PROVE  /\ MatchTypeOK'
         /\ QueuedCallTypeOK'
         /\ schedBox' \in [Queues -> Seq(SchedMsg)]
         /\ UNCHANGED SchedulerLeaves
<1> DEFINE m == Head(schedBox[q])
<1>1. /\ waiting[q] \in Seq(Calls) /\ available[q] \in Seq(Agents)
      /\ in_flight[q] \in [Agents -> Calls \union {None}]
      /\ last_assigned[q] \in Agents \union {None}
      /\ qc \in [Calls -> QueuedCallState]
  BY DEF TypeOK, SchedulerTypeOK, QueuedCallTypeOK
<1>2. ASSUME NEW c, NEW w \in Seq(Calls)
      PROVE  RemoveFirst(w, c) \in Seq(Calls)
  BY RemoveFirstIsSeq
<1>3. ASSUME NEW a PROVE RemoveFirst(available[q], a) \in Seq(Agents)
  BY <1>1, RemoveFirstIsSeq
<1>4. CASE AddWaitingCall(q)
  <2>1. Handles(q, "add_waiting_call")
    BY <1>4 DEF AddWaitingCall
  <2>2. m.call \in Calls /\ schedBox' \in [Queues -> Seq(SchedMsg)]
    BY <2>1, HandlesType, SchedMsgFields
  <2>3. Append(waiting[q], m.call) \in Seq(Calls)
    BY <1>1, <2>2
  <2>4. MatchTypeOK'
    BY <1>1, <1>4, <2>3, MaybeMatchType DEF AddWaitingCall
  <2>5. \A k \in QueuedCallState : Start(k, q) \in QueuedCallState
    BY QueuedCallTypes
  <2>6. QueuedCallTypeOK'
    BY <1>1, <1>4, <2>2, <2>5 DEF AddWaitingCall, QueuedCallTypeOK
  <2> QED
    BY <1>4, <2>2, <2>4, <2>6 DEF AddWaitingCall, SchedulerLeaves
<1>5. CASE CallHungUp(q)
  <2>1. Handles(q, "call_hung_up")
    BY <1>5 DEF CallHungUp
  <2>2. m.call \in Calls /\ schedBox' \in [Queues -> Seq(SchedMsg)]
    BY <2>1, HandlesType, SchedMsgFields
  <2>3. MatchTypeOK'
    <3>1. CASE \E a \in Agents : AskCancel(q, a, m.call, "forget_call")
                                 /\ UNCHANGED schedVars
      BY <2>2, <3>1, AskCancelType
      DEF MatchTypeOK, TypeOK, SchedulerTypeOK, schedVars
    <3>2. CASE /\ SchedulerState(q, RemoveFirst(waiting[q], m.call),
                                 available[q], in_flight[q], last_assigned[q])
               /\ GoIdle(q, agentBox)
      BY <1>1, <1>2, <3>2, SchedulerStateType, GoIdleType DEF MatchTypeOK
    <3> QED
      BY <1>5, <3>1, <3>2 DEF CallHungUp
  <2>4. \A k \in QueuedCallState : Stop(k, "abandoned") \in QueuedCallState
    BY QueuedCallTypes
  <2>5. QueuedCallTypeOK'
    BY <1>1, <1>5, <2>2, <2>4 DEF CallHungUp, QueuedCallTypeOK
  <2> QED
    BY <1>5, <2>2, <2>3, <2>5 DEF CallHungUp, SchedulerLeaves
<1>6. CASE AddMember(q)
  <2>1. m.agent \in Agents /\ schedBox' \in [Queues -> Seq(SchedMsg)]
    BY <1>6, HandlesType, SchedMsgFields DEF AddMember
  <2>2. Offered(q, m.agent) \in Seq(Agents)
    BY <2>1, OfferedType
  <2>3. MatchTypeOK'
    BY <1>1, <1>6, <2>2, MaybeMatchType DEF AddMember
  <2> QED
    BY <1>1, <1>6, <2>1, <2>3
    DEF AddMember, SchedulerLeaves, QueuedCallTypeOK
<1>7. CASE RemoveMember(q)
  <2>1. m.agent \in Agents /\ schedBox' \in [Queues -> Seq(SchedMsg)]
    BY <1>7, HandlesType, SchedMsgFields DEF RemoveMember
  <2> QED
    BY <1>1, <1>7, <2>1, DropAgentType
    DEF RemoveMember, SchedulerLeaves, QueuedCallTypeOK
<1>8. CASE AttemptFinished(q)
  <2>1. schedBox' \in [Queues -> Seq(SchedMsg)]
    BY <1>8, HandlesType DEF AttemptFinished
  <2>2. /\ StillWaiting(waiting[q], m.call, m.arg) \in Seq(Calls)
        /\ [in_flight[q] EXCEPT ![m.agent] = None]
             \in [Agents -> Calls \union {None}]
    BY <1>1, <1>2 DEF StillWaiting
  <2>3. MatchTypeOK'
    BY <1>1, <1>8, <2>2, MaybeMatchType DEF AttemptFinished
  <2> QED
    BY <1>1, <1>8, <2>1, <2>3
    DEF AttemptFinished, SchedulerLeaves, QueuedCallTypeOK
<1>9. CASE AgentAvailable(q)
  <2>1. m.agent \in Agents /\ schedBox' \in [Queues -> Seq(SchedMsg)]
    BY <1>9, HandlesType, SchedMsgFields DEF AgentAvailable
  <2>2. Offered(q, m.agent) \in Seq(Agents)
    BY <2>1, OfferedType
  <2>3. MatchTypeOK'
    BY <1>1, <1>9, <2>2, MaybeMatchType DEF AgentAvailable
  <2> QED
    BY <1>1, <1>9, <2>1, <2>3
    DEF AgentAvailable, SchedulerLeaves, QueuedCallTypeOK
<1>10. CASE AgentLoggedOut(q)
  <2>1. m.agent \in Agents /\ schedBox' \in [Queues -> Seq(SchedMsg)]
    BY <1>10, HandlesType, SchedMsgFields DEF AgentLoggedOut
  <2> QED
    BY <1>1, <1>10, <2>1, DropAgentType
    DEF AgentLoggedOut, SchedulerLeaves, QueuedCallTypeOK
<1>11. CASE AgentNotAvailable(q)
  <2>1. schedBox' \in [Queues -> Seq(SchedMsg)]
    BY <1>11, HandlesType DEF AgentNotAvailable
  <2>2. MatchTypeOK'
    BY <1>1, <1>3, <1>11, MaybeMatchType DEF AgentNotAvailable
  <2> QED
    BY <1>1, <1>11, <2>1, <2>2
    DEF AgentNotAvailable, SchedulerLeaves, QueuedCallTypeOK
<1> QED
  BY <1>4, <1>5, <1>6, <1>7, <1>8, <1>9, <1>10, <1>11

LEMMA SchedulerAnsweredType ==
  ASSUME TypeOK, NEW q \in Queues,
         AttemptAccepted(q) \/ AttemptDeclined(q) \/ AttemptCancelled(q)
  PROVE  /\ MatchTypeOK'
         /\ QueuedCallTypeOK'
         /\ schedBox' \in [Queues -> Seq(SchedMsg)]
         /\ UNCHANGED SchedulerLeaves
<1> DEFINE p == pending[q]
<1>1. /\ waiting[q] \in Seq(Calls) /\ available[q] \in Seq(Agents)
      /\ in_flight[q] \in [Agents -> Calls \union {None}]
      /\ last_assigned[q] \in Agents \union {None}
      /\ qc \in [Calls -> QueuedCallState]
      /\ p \in Pending
      /\ schedBox \in [Queues -> Seq(SchedMsg)]
  BY DEF TypeOK, BoxesTypeOK, SchedulerTypeOK, QueuedCallTypeOK
<1>2. /\ p.request # "none"
      /\ p.agent \in Agents /\ p.call \in Calls /\ p.rest \in Seq(Agents)
  BY <1>1 DEF Pending, Idle, AttemptAccepted, AttemptDeclined, AttemptCancelled
<1>3. RemoveFirst(available[q], p.agent) \in Seq(Agents)
  BY <1>1, RemoveFirstIsSeq
<1>4. RemoveFirst(waiting[q], p.call) \in Seq(Calls)
  BY <1>1, RemoveFirstIsSeq
<1>5. CASE AttemptAccepted(q)
  <2>1. [in_flight[q] EXCEPT ![p.agent] = p.call]
          \in [Agents -> Calls \union {None}]
    BY <1>1, <1>2
  <2>2. MatchTypeOK'
    BY <1>1, <1>2, <1>3, <1>5, <2>1, MaybeMatchType DEF AttemptAccepted
  <2> QED
    BY <1>1, <1>5, <2>2 DEF AttemptAccepted, SchedulerLeaves, QueuedCallTypeOK
<1>6. CASE AttemptDeclined(q)
  <2>1. SchedulerState(q, waiting[q], RemoveFirst(available[q], p.agent),
                       in_flight[q], last_assigned[q])
    BY <1>6 DEF AttemptDeclined
  <2>2. CASE p.rest = <<>>
    <3>1. GoIdle(q, agentBox)
      BY <1>6, <2>2 DEF AttemptDeclined
    <3> QED
      BY <1>1, <1>3, <1>6, <2>1, <3>1, SchedulerStateType, GoIdleType
      DEF AttemptDeclined, MatchTypeOK, SchedulerLeaves, QueuedCallTypeOK
  <2>3. CASE p.rest # <<>>
    <3>1. AskAgent(q, p.call, p.rest, agentBox)
      BY <1>6, <2>3 DEF AttemptDeclined
    <3>2. p.rest \in Seq(Agents) \ {<<>>}
      BY <1>2, <2>3
    <3> QED
      BY <1>1, <1>2, <1>3, <1>6, <2>1, <3>1, <3>2, SchedulerStateType,
         AskAgentType
      DEF AttemptDeclined, MatchTypeOK, SchedulerLeaves, QueuedCallTypeOK
  <2> QED
    BY <2>2, <2>3
<1>7. CASE AttemptCancelled(q)
  <2> DEFINE inf == [in_flight[q] EXCEPT ![p.agent] = None]
  <2>1. inf \in [Agents -> Calls \union {None}]
    BY <1>1, <1>2
  <2>2. CASE p.after = "match"
    <3>1. MatchTypeOK'
      BY <1>1, <1>7, <2>1, <2>2, MaybeMatchType DEF AttemptCancelled
    <3> QED
      BY <1>1, <1>7, <3>1
      DEF AttemptCancelled, SchedulerLeaves, QueuedCallTypeOK
  <2>3. CASE p.after # "match"
    <3> DEFINE w == IF p.after = "forget_call"
                    THEN RemoveFirst(waiting[q], p.call) ELSE waiting[q]
    <3>1. w \in Seq(Calls)
      BY <1>1, <1>4
    <3>2. /\ SchedulerState(q, w, available[q], inf, last_assigned[q])
          /\ GoIdle(q, agentBox)
      BY <1>7, <2>3 DEF AttemptCancelled
    <3> HIDE DEF w, inf
    <3> QED
      BY <1>1, <1>7, <2>1, <3>1, <3>2, SchedulerStateType, GoIdleType
      DEF AttemptCancelled, MatchTypeOK, SchedulerLeaves, QueuedCallTypeOK
  <2> QED
    BY <2>2, <2>3
<1> QED
  BY <1>5, <1>6, <1>7

----------------------------------------------------------------------------
(* Sessions.                                                               *)

(* An attempt keeps its agent, queue and call.                             *)
SameTarget(k, l) ==
  k \in Attempt /\ k.agent = l.agent /\ k.queue = l.queue /\ k.call = l.call

SameAttempts ==
  /\ att' \in [Res -> Attempt]
  /\ next_res' = next_res
  /\ \A r \in Res : SameTarget(att'[r], att[r])

LEMMA FieldsOfAttempts ==
  ASSUME NEW k \in Attempt
  PROVE  /\ SameTarget(k, k)
         /\ \A t \in {"off", "ring", "bridge"} :
              /\ SameTarget([k EXCEPT !.timer = t], k)
              /\ SameTarget([k EXCEPT !.timer = t, !.cancelled = TRUE], k)
         /\ \A b \in BOOLEAN :
              /\ SameTarget([k EXCEPT !.hupall = TRUE, !.cancelled = b], k)
              /\ SameTarget([k EXCEPT !.hupall = b], k)
         /\ \A d \in {"bridge", "failing", "stopping", "done"} :
              SameTarget([k EXCEPT !.dial = d], k)
         /\ \A l \in {"ringing", "up", "bridged", "missed", "dropped", "over"} :
              SameTarget([k EXCEPT !.leg = l], k)
         /\ \A f \in {"ringing", "gone"} : SameTarget([k EXCEPT !.fork = f], k)
         /\ SameTarget([k EXCEPT !.leg = Ended(@)], k)
         /\ SameTarget(Hupall(k), k)
<1>1. \A l \in {"none", "ringing", "up", "bridged", "missed", "dropped",
                "over"} :
        Ended(l) \in {"none", "ringing", "up", "bridged", "missed", "dropped",
                      "over"}
  BY DEF Ended
<1>2. SameTarget(k, k)
  BY DEF SameTarget
<1>3. \A t \in {"off", "ring", "bridge"} :
        /\ SameTarget([k EXCEPT !.timer = t], k)
        /\ SameTarget([k EXCEPT !.timer = t, !.cancelled = TRUE], k)
  BY DEF SameTarget, Attempt
<1>4. \A b \in BOOLEAN :
        /\ SameTarget([k EXCEPT !.hupall = TRUE, !.cancelled = b], k)
        /\ SameTarget([k EXCEPT !.hupall = b], k)
  BY DEF SameTarget, Attempt
<1>5. \A d \in {"bridge", "failing", "stopping", "done"} :
        SameTarget([k EXCEPT !.dial = d], k)
  BY DEF SameTarget, Attempt
<1>6. \A l \in {"ringing", "up", "bridged", "missed", "dropped", "over"} :
        SameTarget([k EXCEPT !.leg = l], k)
  BY DEF SameTarget, Attempt
<1>7. \A f \in {"ringing", "gone"} : SameTarget([k EXCEPT !.fork = f], k)
  BY DEF SameTarget, Attempt
<1>8. SameTarget([k EXCEPT !.leg = Ended(@)], k)
  BY <1>1 DEF SameTarget, Attempt
<1>9. SameTarget(Hupall(k), k)
  <2>1. /\ k.leg \in {"none", "ringing", "up", "bridged", "missed", "dropped",
                    "over"}
        /\ k.fork \in {"none", "ringing", "gone"}
    BY DEF Attempt
  <2> DEFINE f == IF k.fork = "ringing" THEN "gone" ELSE k.fork
  <2>2. Hupall(k) = [[k EXCEPT !.leg = Ended(@)] EXCEPT !.fork = f]
    BY DEF Hupall
  <2>3. f \in {"none", "ringing", "gone"}
    BY <2>1
  <2> HIDE DEF f
  <2>4. \A l \in Attempt : SameTarget([l EXCEPT !.fork = f], l)
    BY <2>3 DEF SameTarget, Attempt
  <2> QED
    BY <1>8, <2>2, <2>4 DEF SameTarget
<1> QED
  BY <1>2, <1>3, <1>4, <1>5, <1>6, <1>7, <1>8, <1>9

(* Two changes, one after the other.                                       *)
LEMMA CombinedChanges ==
  ASSUME NEW k \in Attempt
  PROVE  /\ SameTarget([Hupall(k) EXCEPT !.hupall = FALSE], k)
         /\ SameTarget([Hupall(k) EXCEPT !.dial = "done"], k)
         /\ SameTarget([[k EXCEPT !.dial = "failing"] EXCEPT !.leg = Ended(@)],
                       k)
         /\ \A f \in {"ringing", "gone"} :
              SameTarget([[k EXCEPT !.leg = "ringing"] EXCEPT !.fork = f], k)
<1>1. \A l, m, n : SameTarget(n, m) /\ SameTarget(m, l) => SameTarget(n, l)
  BY DEF SameTarget
<1>2. \A l : SameTarget(l, k) => l \in Attempt
  BY DEF SameTarget
<1>3. \A l \in Attempt :
        /\ SameTarget([l EXCEPT !.hupall = FALSE], l)
        /\ SameTarget([l EXCEPT !.dial = "done"], l)
        /\ SameTarget([l EXCEPT !.leg = Ended(@)], l)
        /\ \A f \in {"ringing", "gone"} : SameTarget([l EXCEPT !.fork = f], l)
  BY FieldsOfAttempts
<1>4. ASSUME NEW l, SameTarget(l, k)
      PROVE  /\ SameTarget([l EXCEPT !.hupall = FALSE], k)
             /\ SameTarget([l EXCEPT !.dial = "done"], k)
             /\ SameTarget([l EXCEPT !.leg = Ended(@)], k)
             /\ \A f \in {"ringing", "gone"} :
                  SameTarget([l EXCEPT !.fork = f], k)
  BY <1>1, <1>2, <1>3, <1>4
<1>5. /\ SameTarget(Hupall(k), k)
      /\ SameTarget([k EXCEPT !.dial = "failing"], k)
      /\ SameTarget([k EXCEPT !.leg = "ringing"], k)
  BY FieldsOfAttempts
<1> QED
  BY <1>4, <1>5

LEMMA AttemptChanges ==
  ASSUME TypeOK, NEW r \in Res, NEW k, SameTarget(k, att[r]),
         att' = [att EXCEPT ![r] = k], next_res' = next_res
  PROVE  SameAttempts
BY DEF SameAttempts, SameTarget, TypeOK, DialerTypeOK

LEMMA SameAttemptsUnchanged ==
  ASSUME TypeOK, UNCHANGED <<att, next_res>>
  PROVE  SameAttempts
BY DEF SameAttempts, SameTarget, TypeOK, DialerTypeOK

LEMMA StillStarted ==
  ASSUME TypeInv, SameAttempts,
         \A a \in Agents : /\ reservation'[a] \in {NoRes, reservation[a]}
                          /\ dialer'[a] \in {NoRes, dialer[a]}
  PROVE  AttemptsStarted'
<1> SUFFICES ASSUME NEW a \in Agents
             PROVE  /\ reservation'[a] # NoRes => StartedFor(a, reservation[a])'
                    /\ dialer'[a] # NoRes => StartedFor(a, dialer[a])'
  BY DEF AttemptsStarted
<1>1. next_res \in 1..(MaxRes + 1) /\ MaxRes \in Nat
      /\ reservation[a] \in 0..MaxRes /\ dialer[a] \in 0..MaxRes
  BY QueueConstants DEF TypeInv, TypeOK, DialerTypeOK, AgentSessionTypeOK
<1>2. ASSUME NEW r \in 0..MaxRes, r # NoRes, StartedFor(a, r)
      PROVE  StartedFor(a, r)'
  <2>1. r \in Res
    BY <1>1, <1>2 DEF Res, NoRes
  <2> QED
    BY <1>2, <2>1 DEF StartedFor, SameAttempts, SameTarget
<1>3. /\ reservation[a] # NoRes => StartedFor(a, reservation[a])
      /\ dialer[a] # NoRes => StartedFor(a, dialer[a])
  BY DEF TypeInv, AttemptsStarted
<1>4. CASE reservation'[a] # NoRes
  BY <1>1, <1>2, <1>3, <1>4 DEF StartedFor
<1>5. CASE dialer'[a] # NoRes
  BY <1>1, <1>2, <1>3, <1>5 DEF StartedFor
<1> QED
  BY <1>4, <1>5

(* The timer of a Dialer changes and nothing else of its attempt.          *)
LEMMA TimerType ==
  ASSUME TypeOK, NEW a \in Agents
  PROVE  /\ att' = TimerOff(a) /\ next_res' = next_res => SameAttempts
         /\ att' = Backstop(a) /\ next_res' = next_res => SameAttempts
<1>1. CASE dialer[a] = NoRes
  BY <1>1, SameAttemptsUnchanged DEF TimerOff, Backstop
<1>2. CASE dialer[a] # NoRes
  <2> DEFINE r == dialer[a]
  <2>1. r \in Res /\ att[r] \in Attempt
    BY <1>2, QueueConstants DEF TypeOK, DialerTypeOK, Res, NoRes
  <2>2. \A t \in {"off", "bridge"} :
          SameTarget([att[r] EXCEPT !.timer = t], att[r])
    BY <2>1, FieldsOfAttempts
  <2>3. /\ TimerOff(a) = [att EXCEPT ![r] = [att[r] EXCEPT !.timer = "off"]]
        /\ Backstop(a) = [att EXCEPT ![r] = [att[r] EXCEPT !.timer = "bridge"]]
    BY <1>2 DEF TimerOff, Backstop
  <2> QED
    BY <2>1, <2>2, <2>3, AttemptChanges
<1> QED
  BY <1>1, <1>2

LEMMA AgentMsgFields ==
  ASSUME NEW m \in AgentMsg
  PROVE  /\ m.type \in {"attempt", "cancel_attempt"}
              => m.queue \in Queues /\ m.call \in Calls
         /\ m.type \in {"dialer_member_answered", "dialer_answered",
                        "dialer_failed", "DOWN", "attempt_timeout",
                        "bridge_timeout"} => m.res \in Res
         /\ m.type = "restore_presence" => m.expected \in Passing
BY DEF AgentMsg

LEMMA AnswerType ==
  ASSUME TypeOK, NEW a \in Agents, NEW m,
         NEW answer \in {"ok", "error"}, Answer(a, m, answer),
         m.type \in {"attempt", "cancel_attempt"}
  PROVE  pending' \in [Queues -> Pending]
<1> DEFINE p == pending[m.queue]
<1>1. pending \in [Queues -> Pending]
  BY DEF TypeOK, BoxesTypeOK
<1>2. CASE m.queue \in Queues /\ p.request = m.type
  <2>1. p \in Pending /\ p.request # "none"
    BY <1>1, <1>2
  <2>2. [p EXCEPT !.answer = answer] \in Pending
    BY <2>1 DEF Pending, Idle
  <2> QED
    BY <1>1, <2>2 DEF Answer
<1>3. CASE ~(m.queue \in Queues /\ p.request = m.type)
  BY <1>1, <1>3 DEF Answer
<1> QED
  BY <1>2, <1>3

LEMMA PresenceOnCallType ==
  ASSUME TypeOK, NEW a \in Agents, NEW before \in [Queues -> Seq(SchedMsg)],
         PresenceOnCall(a, before)
  PROVE  /\ db' \in [Agents -> DbPresence]
         /\ presence' \in [Agents -> Presence]
         /\ restore_timer' \in [Agents -> Passing \union {"none"}]
         /\ schedBox' \in [Queues -> Seq(SchedMsg)]
<1>1. "On Call" \in DbPresence /\ DbPresence \subseteq Presence
      /\ "Logged Out" \in DbPresence
  BY DEF DbPresence, Presence
<1>2. Broadcast(before, PresenceUpdate(a, "On Call"))
        \in [Queues -> Seq(SchedMsg)]
  BY <1>1, SchedMessages, SchedBoxes
<1> QED
  BY <1>1, <1>2 DEF PresenceOnCall, WriteDb, TypeOK, AgentSessionTypeOK

LEMMA ScheduleRestoreType ==
  ASSUME TypeOK, NEW a \in Agents, NEW p \in Passing, ScheduleRestore(a, p)
  PROVE  /\ db' \in [Agents -> DbPresence]
         /\ presence' \in [Agents -> Presence]
         /\ restore_timer' \in [Agents -> Passing \union {"none"}]
         /\ schedBox' \in [Queues -> Seq(SchedMsg)]
<1>1. p \in DbPresence /\ DbPresence \subseteq Presence
      /\ "Logged Out" \in DbPresence
  BY DEF Passing, DbPresence, Presence
<1>2. Broadcast(schedBox, PresenceUpdate(a, p)) \in [Queues -> Seq(SchedMsg)]
  BY <1>1, SchedMessages, SchedBoxes DEF TypeOK, BoxesTypeOK
<1> QED
  BY <1>1, <1>2
  DEF ScheduleRestore, WriteDb, TypeOK, BoxesTypeOK, AgentSessionTypeOK

LEMMA MarkAvailableType ==
  ASSUME TypeOK, NEW a \in Agents
  PROVE  MarkAvailable(a) \in Presence
<1>1. presence[a] \in Presence /\ {"Logged Out", "Available"} \subseteq Presence
  BY DEF TypeOK, AgentSessionTypeOK, Presence, DbPresence
<1>2. MarkAvailable(a) \in {"Logged Out", "Available", presence[a]}
  BY DEF MarkAvailable
<1> QED
  BY <1>1, <1>2

(* The reservation goes, or stays as it is.                                *)
LEMMA ClearReservationType ==
  ASSUME TypeOK, NEW a \in Agents, ClearReservation(a)
  PROVE  /\ reservation' \in [Agents -> 0..MaxRes]
         /\ member_answered' \in [Agents -> BOOLEAN]
         /\ \A b \in Agents : reservation'[b] \in {NoRes, reservation[b]}
BY QueueConstants DEF ClearReservation, TypeOK, AgentSessionTypeOK, NoRes

LEMMA DialerForgotten ==
  ASSUME TypeOK, NEW a \in Agents, dialer' = [dialer EXCEPT ![a] = NoRes]
  PROVE  /\ dialer' \in [Agents -> 0..MaxRes]
         /\ \A b \in Agents : dialer'[b] \in {NoRes, dialer[b]}
BY QueueConstants DEF TypeOK, DialerTypeOK, NoRes

(* All that a step of a session may change.                                *)
SessionOK ==
  /\ BoxesTypeOK
  /\ QueuedCallTypeOK
  /\ DialerTypeOK
  /\ AgentSessionTypeOK
  /\ AttemptsStarted

LEMMA UnansweredType ==
  ASSUME TypeInv, NEW a \in Agents, reservation[a] # NoRes,
         NEW outcome \in {"failed", "timed_out"}, NEW charged \in BOOLEAN,
         NEW attempts,
         att' = attempts /\ next_res' = next_res => SameAttempts,
         Unanswered(a, reservation[a], outcome, charged, attempts),
         agentBox' \in [Agents -> Seq(AgentMsg)]
  PROVE  SessionOK'
<1> DEFINE r == reservation[a]
           c == att[r].call
           q == att[r].queue
           count == no_answer_counts[a][q] + 1
           forced == charged /\ MaxNoAnswers > 0 /\ count >= MaxNoAnswers
           told == IF forced
                   THEN Broadcast(schedBox, PresenceUpdate(a, "Logged Out"))
                   ELSE schedBox
<1>1. c \in Calls /\ q \in Queues
  BY DEF TypeInv, AttemptsStarted, StartedFor
<1>2. TypeOK
  BY DEF TypeInv
<1>3. SameAttempts
  BY DEF Unanswered
<1>4. "Logged Out" \in DbPresence /\ "Logged Out" \in Presence
  BY DEF DbPresence, Presence
<1>5. told \in [Queues -> Seq(SchedMsg)]
  BY <1>2, <1>4, SchedMessages, SchedBoxes DEF TypeOK, BoxesTypeOK
<1>6. schedBox' \in [Queues -> Seq(SchedMsg)]
  <2>1. schedBox' = ToQueue(told, q, Finished(a, c, outcome))
    BY DEF Unanswered
  <2> HIDE DEF told
  <2> QED
    BY <1>1, <1>5, <2>1, SchedMessages, SchedBoxes
<1>7. QueuedCallTypeOK'
  BY <1>1, <1>2, QueuedCallTypes
  DEF Unanswered, TypeOK, QueuedCallTypeOK
<1>8. /\ reservation' \in [Agents -> 0..MaxRes]
      /\ member_answered' \in [Agents -> BOOLEAN]
      /\ \A b \in Agents : reservation'[b] \in {NoRes, reservation[b]}
  BY <1>2, ClearReservationType DEF Unanswered
<1>9. /\ dialer' \in [Agents -> 0..MaxRes]
      /\ \A b \in Agents : dialer'[b] \in {NoRes, dialer[b]}
  BY <1>2, DialerForgotten DEF Unanswered
<1>10. no_answer_counts' \in [Agents -> [Queues -> Nat]]
  <2>1. no_answer_counts \in [Agents -> [Queues -> Nat]]
    BY <1>2 DEF TypeOK, AgentSessionTypeOK
  <2>2. count \in Nat /\ no_answer_counts[a][q] \in Nat
    BY <1>1, <2>1
  <2>3. (IF charged THEN count ELSE no_answer_counts[a][q]) \in Nat
    BY <2>2
  <2>4. no_answer_counts' =
          [no_answer_counts EXCEPT ![a][q] =
             IF charged THEN count ELSE no_answer_counts[a][q]]
    BY DEF Unanswered
  <2> QED
    BY <1>1, <2>1, <2>3, <2>4
<1>11. presence' \in [Agents -> Presence] /\ db' \in [Agents -> DbPresence]
  <2>1. MarkAvailable(a) \in Presence
    BY <1>2, MarkAvailableType
  <2> QED
    BY <1>2, <1>4, <2>1
    DEF Unanswered, WriteDb, TypeOK, AgentSessionTypeOK
<1>12. AttemptsStarted'
  BY <1>3, <1>8, <1>9, StillStarted
<1>13. BoxesTypeOK'
  BY <1>2, <1>6 DEF Unanswered, TypeOK, BoxesTypeOK
<1>14. DialerTypeOK'
  BY <1>2, <1>3, <1>9 DEF Unanswered, SameAttempts, TypeOK, DialerTypeOK
<1>15. AgentSessionTypeOK'
  BY <1>2, <1>8, <1>10, <1>11 DEF Unanswered, TypeOK, AgentSessionTypeOK
<1> QED
  BY <1>7, <1>12, <1>13, <1>14, <1>15 DEF SessionOK

LEMMA IgnoreType ==
  ASSUME TypeInv, NEW a \in Agents, agentBox[a] # <<>>, Ignore(a)
  PROVE  SessionOK'
<1>1. TypeOK /\ AttemptsStarted
  BY DEF TypeInv
<1>2. agentBox' \in [Agents -> Seq(AgentMsg)]
  BY <1>1, FirstMessage DEF Ignore
<1>3. UNCHANGED <<schedBox, pending, qc, next_res, att, dialer, story,
                  customer, sessionVars>>
  BY DEF Ignore, attemptVars
<1> QED
  BY <1>1, <1>2, <1>3
  DEF sessionVars, TypeOK, SessionOK, BoxesTypeOK, QueuedCallTypeOK,
      DialerTypeOK, AgentSessionTypeOK, AttemptsStarted, StartedFor

LEMMA NewAttemptType ==
  ASSUME NEW a \in Agents, NEW q \in Queues, NEW c \in Calls
  PROVE  /\ NewAttempt(a, q, c) \in Attempt
         /\ NewAttempt(a, q, c).agent = a
         /\ NewAttempt(a, q, c).queue = q
         /\ NewAttempt(a, q, c).call = c
<1>1. NoAttempt \in Attempt
  BY DEF NoAttempt, Attempt
<1>2. ASSUME NEW l \in Attempt, NEW k,
             k = [l EXCEPT !.agent = a, !.queue = q, !.call = c,
                           !.dial = "originate", !.timer = "ring"]
      PROVE  k \in Attempt /\ k.agent = a /\ k.queue = q /\ k.call = c
  BY <1>2 DEF Attempt
<1> QED
  BY <1>1, <1>2 DEF NewAttempt

(* Requests of a scheduler.                                                *)
LEMMA RequestsType ==
  ASSUME TypeInv, NEW a \in Agents,
         AttemptRefused(a) \/ AttemptStarts(a) \/ CancelAttempt(a)
  PROVE  SessionOK'
<1> DEFINE m == Head(agentBox[a])
<1>1. TypeOK /\ AttemptsStarted
  BY DEF TypeInv
<1>2. /\ agentBox[a] # <<>>
      /\ m.type \in {"attempt", "cancel_attempt"}
      /\ agentBox' = Rest(a)
  BY DEF AttemptRefused, AttemptStarts, CancelAttempt, Takes
<1>3. /\ m \in AgentMsg /\ m.queue \in Queues /\ m.call \in Calls
      /\ agentBox' \in [Agents -> Seq(AgentMsg)]
  BY <1>1, <1>2, FirstMessage, AgentMsgFields
<1>4. pending' \in [Queues -> Pending]
  BY <1>1, <1>2, AnswerType DEF AttemptRefused, AttemptStarts, CancelAttempt
<1>5. BoxesTypeOK'
  BY <1>1, <1>3, <1>4
  DEF AttemptRefused, AttemptStarts, CancelAttempt, TypeOK, BoxesTypeOK
<1>6. DbPresence \subseteq Presence /\ "Reserved" \in Presence
  BY DEF DbPresence, Presence
<1>7. CASE AttemptRefused(a)
  <2>1. presence' \in [Agents -> Presence]
    BY <1>1, <1>6, <1>7 DEF AttemptRefused, TypeOK, AgentSessionTypeOK
  <2> QED
    BY <1>1, <1>5, <1>7, <2>1
    DEF AttemptRefused, attemptVars, TypeOK, SessionOK, QueuedCallTypeOK,
        DialerTypeOK, AgentSessionTypeOK, AttemptsStarted, StartedFor
<1>8. CASE AttemptStarts(a)
  <2> DEFINE r == next_res
             k == NewAttempt(a, m.queue, m.call)
  <2>1. r \in Res /\ r # NoRes /\ r \in 0..MaxRes /\ r + 1 \in 1..(MaxRes + 1)
    BY <1>8, QueueConstants DEF AttemptStarts, Res, NoRes
  <2>2. /\ k \in Attempt
        /\ k.agent = a /\ k.queue = m.queue /\ k.call = m.call
    BY <1>3, NewAttemptType
  <2>3. DialerTypeOK'
    BY <1>1, <1>8, <2>1, <2>2 DEF AttemptStarts, TypeOK, DialerTypeOK
  <2>4. QueuedCallTypeOK'
    BY <1>1, <1>3, <1>8, <2>1, QueuedCallTypes
    DEF AttemptStarts, TypeOK, QueuedCallTypeOK
  <2>5. AgentSessionTypeOK'
    BY <1>1, <1>6, <1>8, <2>1 DEF AttemptStarts, TypeOK, AgentSessionTypeOK
  <2>6. AttemptsStarted'
    <3> SUFFICES ASSUME NEW b \in Agents
                 PROVE  /\ reservation'[b] # NoRes =>
                             StartedFor(b, reservation[b])'
                        /\ dialer'[b] # NoRes => StartedFor(b, dialer[b])'
      BY DEF AttemptsStarted
    <3>1. /\ att' = [att EXCEPT ![r] = k] /\ next_res' = r + 1
          /\ reservation' = [reservation EXCEPT ![a] = r]
          /\ dialer' = [dialer EXCEPT ![a] = r]
      BY <1>8 DEF AttemptStarts
    <3>2. /\ att \in [Res -> Attempt] /\ dialer \in [Agents -> 0..MaxRes]
          /\ reservation \in [Agents -> 0..MaxRes] /\ r \in Int
      BY <1>1, <2>1 DEF TypeOK, DialerTypeOK, AgentSessionTypeOK
    <3>3. CASE b = a
      <4>1. reservation'[b] = r /\ dialer'[b] = r /\ att'[r] = k
        BY <2>1, <3>1, <3>2, <3>3
      <4>2. r < next_res'
        BY <3>1, <3>2
      <4> QED
        BY <1>3, <2>2, <3>3, <4>1, <4>2 DEF StartedFor
    <3>4. CASE b # a
      <4>1. reservation'[b] = reservation[b] /\ dialer'[b] = dialer[b]
        BY <3>1, <3>2, <3>4
      <4>2. ASSUME NEW s \in 0..MaxRes, s # NoRes, StartedFor(b, s)
            PROVE  s < next_res' /\ s # r /\ att'[s] = att[s]
        <5>1. s < r /\ s \in Res
          BY <4>2, QueueConstants DEF StartedFor, Res, NoRes
        <5> QED
          BY <2>1, <3>1, <3>2, <5>1 DEF Res
      <4>3. /\ reservation[b] \in 0..MaxRes /\ dialer[b] \in 0..MaxRes
            /\ reservation[b] # NoRes => StartedFor(b, reservation[b])
            /\ dialer[b] # NoRes => StartedFor(b, dialer[b])
        BY <1>1, <3>2 DEF AttemptsStarted
      <4> QED
        BY <4>1, <4>2, <4>3 DEF StartedFor
    <3> QED
      BY <3>3, <3>4
  <2> QED
    BY <1>5, <2>3, <2>4, <2>5, <2>6 DEF SessionOK
<1>9. CASE CancelAttempt(a)
  <2> DEFINE r == reservation[a]
  <2>1. CASE r # NoRes /\ att[r].call = m.call
    <3>1. r \in Res /\ att[r] \in Attempt
      BY <1>1, <2>1, QueueConstants
      DEF TypeOK, DialerTypeOK, AgentSessionTypeOK, Res, NoRes
    <3> DEFINE b == att[r].cancelled \/ dialer[a] # NoRes
               k == [att[r] EXCEPT !.hupall = TRUE, !.cancelled = b]
    <3>2. b \in BOOLEAN
      BY <3>1 DEF Attempt
    <3>3. SameTarget(k, att[r])
      <4> HIDE DEF b
      <4> QED
        BY <3>1, <3>2, FieldsOfAttempts
    <3>4. att' = [att EXCEPT ![r] = k] /\ next_res' = next_res
      BY <1>9, <2>1 DEF CancelAttempt
    <3> HIDE DEF k
    <3>5. SameAttempts
      BY <1>1, <3>1, <3>3, <3>4, AttemptChanges
    <3>6. /\ reservation' \in [Agents -> 0..MaxRes]
          /\ member_answered' \in [Agents -> BOOLEAN]
          /\ \A c \in Agents : reservation'[c] \in {NoRes, reservation[c]}
      BY <1>1, <1>9, <2>1, ClearReservationType DEF CancelAttempt
    <3>7. presence' \in [Agents -> Presence]
      BY <1>1, <1>9, <2>1, MarkAvailableType
      DEF CancelAttempt, TypeOK, AgentSessionTypeOK
    <3>8. AttemptsStarted'
      BY <1>9, <3>5, <3>6, StillStarted DEF CancelAttempt
    <3>9. DialerTypeOK'
      BY <1>1, <1>9, <3>5 DEF CancelAttempt, SameAttempts, TypeOK, DialerTypeOK
    <3>10. AgentSessionTypeOK'
      BY <1>1, <1>9, <3>6, <3>7 DEF CancelAttempt, TypeOK, AgentSessionTypeOK
    <3>11. QueuedCallTypeOK'
      BY <1>1, <1>9 DEF CancelAttempt, TypeOK, QueuedCallTypeOK
    <3> QED
      BY <1>5, <3>8, <3>9, <3>10, <3>11 DEF SessionOK
  <2>2. CASE ~(r # NoRes /\ att[r].call = m.call)
    BY <1>1, <1>5, <1>9, <2>2
    DEF CancelAttempt, TypeOK, SessionOK, QueuedCallTypeOK,
        DialerTypeOK, AgentSessionTypeOK, AttemptsStarted, StartedFor
  <2> QED
    BY <2>1, <2>2
<1> QED
  BY <1>7, <1>8, <1>9

(* Leg events.                                                             *)
LEMMA LegEventsType ==
  ASSUME TypeInv, NEW a \in Agents,
         \/ QueueMemberAnswered(a) \/ QueueMemberRejected(a)
         \/ QueueMemberCallEnded(a) \/ LateLegEvent(a)
  PROVE  SessionOK'
<1>1. TypeOK /\ AttemptsStarted
  BY DEF TypeInv
<1>2. agentBox[a] # <<>>
  BY DEF QueueMemberAnswered, QueueMemberRejected, QueueMemberCallEnded,
         LateLegEvent, Takes
<1>3. CASE LateLegEvent(a)
  BY <1>2, <1>3, IgnoreType DEF LateLegEvent
<1>4. CASE \/ QueueMemberAnswered(a) \/ QueueMemberRejected(a)
           \/ QueueMemberCallEnded(a)
  <2>1. agentBox' \in [Agents -> Seq(AgentMsg)]
    BY <1>1, <1>2, <1>4, FirstMessage
    DEF QueueMemberAnswered, QueueMemberRejected, QueueMemberCallEnded
  <2>2. /\ db' \in [Agents -> DbPresence]
        /\ presence' \in [Agents -> Presence]
        /\ restore_timer' \in [Agents -> Passing \union {"none"}]
        /\ schedBox' \in [Queues -> Seq(SchedMsg)]
    <3>1. CASE QueueMemberAnswered(a)
      BY <1>1, <3>1, PresenceOnCallType
      DEF QueueMemberAnswered, TypeOK, BoxesTypeOK
    <3>2. CASE QueueMemberRejected(a) \/ QueueMemberCallEnded(a)
      BY <1>1, <3>2, ScheduleRestoreType
      DEF QueueMemberRejected, QueueMemberCallEnded, Passing
    <3> QED
      BY <1>4, <3>1, <3>2
  <2>3. UNCHANGED <<qc, next_res, att, dialer, story, customer, reservation,
                    member_answered, no_answer_counts, lost_timers, pending>>
    BY <1>4
    DEF QueueMemberAnswered, QueueMemberRejected, QueueMemberCallEnded,
        attemptVars
  <2> QED
    BY <1>1, <2>1, <2>2, <2>3
    DEF TypeOK, SessionOK, BoxesTypeOK, QueuedCallTypeOK,
        DialerTypeOK, AgentSessionTypeOK, AttemptsStarted, StartedFor
<1> QED
  BY <1>3, <1>4

(* Reports of the Dialer, and the timers of attempts.                      *)
LEMMA ReportsType ==
  ASSUME TypeInv, NEW a \in Agents,
         \/ DialerMemberAnswered(a) \/ DialerAnswered(a) \/ DialerFailed(a)
         \/ AttemptTimeout(a) \/ BridgeTimeout(a) \/ DialerDown(a)
         \/ StaleReport(a)
  PROVE  SessionOK'
<1> DEFINE m == Head(agentBox[a])
<1>1. TypeOK /\ AttemptsStarted
  BY DEF TypeInv
<1>2. agentBox[a] # <<>>
  BY DEF DialerMemberAnswered, DialerAnswered, DialerFailed, AttemptTimeout,
         BridgeTimeout, DialerDown, StaleReport, Takes
<1>3. m \in AgentMsg /\ Rest(a) \in [Agents -> Seq(AgentMsg)]
  BY <1>1, <1>2, FirstMessage
<1>4. CASE DialerMemberAnswered(a)
  <2>1. SameAttempts
    BY <1>1, <1>4, TimerType DEF DialerMemberAnswered
  <2>2. AttemptsStarted'
    BY <1>4, <2>1, StillStarted DEF DialerMemberAnswered
  <2>3. DialerTypeOK'
    BY <1>1, <1>4, <2>1
    DEF DialerMemberAnswered, SameAttempts, TypeOK, DialerTypeOK
  <2>4. AgentSessionTypeOK'
    BY <1>1, <1>4 DEF DialerMemberAnswered, TypeOK, AgentSessionTypeOK
  <2> QED
    BY <1>1, <1>3, <1>4, <2>2, <2>3, <2>4
    DEF DialerMemberAnswered, TypeOK, SessionOK, BoxesTypeOK, QueuedCallTypeOK
<1>5. CASE DialerAnswered(a)
  <2> DEFINE r == reservation[a]
             c == att[r].call
             q == att[r].queue
  <2>1. r # NoRes
    BY <1>5 DEF DialerAnswered, Current
  <2>2. c \in Calls /\ q \in Queues
    BY <1>1, <2>1 DEF AttemptsStarted, StartedFor
  <2>3. SameAttempts
    BY <1>1, <1>5, TimerType DEF DialerAnswered
  <2>4. /\ reservation' \in [Agents -> 0..MaxRes]
        /\ member_answered' \in [Agents -> BOOLEAN]
        /\ \A b \in Agents : reservation'[b] \in {NoRes, reservation[b]}
    BY <1>1, <1>5, ClearReservationType DEF DialerAnswered
  <2>5. /\ dialer' \in [Agents -> 0..MaxRes]
        /\ \A b \in Agents : dialer'[b] \in {NoRes, dialer[b]}
    BY <1>1, <1>5, DialerForgotten DEF DialerAnswered
  <2>6. AttemptsStarted'
    BY <2>3, <2>4, <2>5, StillStarted
  <2>7. DialerTypeOK'
    BY <1>1, <1>5, <2>3, <2>5
    DEF DialerAnswered, SameAttempts, TypeOK, DialerTypeOK
  <2>8. QueuedCallTypeOK'
    BY <1>1, <1>5, <2>2, QueuedCallTypes
    DEF DialerAnswered, TypeOK, QueuedCallTypeOK
  <2>9. /\ db' \in [Agents -> DbPresence]
        /\ presence' \in [Agents -> Presence]
        /\ restore_timer' \in [Agents -> Passing \union {"none"}]
        /\ schedBox' \in [Queues -> Seq(SchedMsg)]
    <3>1. ToQueue(schedBox, q, Finished(a, c, "answered"))
            \in [Queues -> Seq(SchedMsg)]
      BY <1>1, <2>2, SchedMessages, SchedBoxes DEF TypeOK, BoxesTypeOK
    <3> QED
      BY <1>1, <1>5, <3>1, PresenceOnCallType DEF DialerAnswered
  <2>10. no_answer_counts' \in [Agents -> [Queues -> Nat]]
    BY <1>1, <1>5, <2>2 DEF DialerAnswered, TypeOK, AgentSessionTypeOK
  <2>11. AgentSessionTypeOK'
    BY <1>1, <1>5, <2>4, <2>9, <2>10
    DEF DialerAnswered, TypeOK, AgentSessionTypeOK
  <2>12. BoxesTypeOK'
    BY <1>1, <1>3, <1>5, <2>9 DEF DialerAnswered, TypeOK, BoxesTypeOK
  <2> QED
    BY <2>6, <2>7, <2>8, <2>11, <2>12 DEF SessionOK
<1>6. CASE DialerFailed(a)
  <2>1. /\ reservation[a] # NoRes
        /\ Unanswered(a, reservation[a], "failed", TRUE, TimerOff(a))
        /\ agentBox' \in [Agents -> Seq(AgentMsg)]
    BY <1>3, <1>6 DEF DialerFailed, Current
  <2> QED
    BY <1>1, <2>1, TimerType, UnansweredType
<1>7. CASE AttemptTimeout(a) \/ BridgeTimeout(a)
  <2> DEFINE attempts == IF dialer[a] = NoRes THEN att
                         ELSE [att EXCEPT ![dialer[a]].timer = "off",
                                          ![dialer[a]].cancelled = TRUE]
  <2>1. PICK charged \in BOOLEAN :
          /\ reservation[a] # NoRes
          /\ agentBox' = Rest(a)
          /\ Unanswered(a, reservation[a], "timed_out", charged, attempts)
    BY <1>7 DEF AttemptTimeout, BridgeTimeout, TimeOutAttempt, Current
  <2>2. att' = attempts /\ next_res' = next_res => SameAttempts
    <3>1. CASE dialer[a] = NoRes
      BY <1>1, <3>1, SameAttemptsUnchanged
    <3>2. CASE dialer[a] # NoRes
      <4> DEFINE r == dialer[a]
                 k == [att[r] EXCEPT !.timer = "off", !.cancelled = TRUE]
      <4>1. r \in Res /\ att[r] \in Attempt
        BY <1>1, <3>2, QueueConstants DEF TypeOK, DialerTypeOK, Res, NoRes
      <4>2. SameTarget(k, att[r])
        BY <4>1, FieldsOfAttempts
      <4>3. attempts = [att EXCEPT ![r] = k]
        BY <1>1, <3>2, <4>1 DEF TypeOK, DialerTypeOK
      <4> HIDE DEF k, attempts
      <4> QED
        BY <1>1, <4>1, <4>2, <4>3, AttemptChanges
    <3> QED
      BY <3>1, <3>2
  <2>3. agentBox' \in [Agents -> Seq(AgentMsg)]
    BY <1>3, <2>1
  <2> HIDE DEF attempts
  <2> QED
    BY <2>1, <2>2, <2>3, UnansweredType
<1>8. CASE DialerDown(a)
  <2>1. /\ dialer' \in [Agents -> 0..MaxRes]
        /\ \A b \in Agents : dialer'[b] \in {NoRes, dialer[b]}
    BY <1>1, <1>8, DialerForgotten DEF DialerDown
  <2>2. agentBox' \in [Agents -> Seq(AgentMsg)]
    <3>1. CASE reservation[a] = NoRes
      BY <1>3, <1>8, <3>1 DEF DialerDown
    <3>2. CASE reservation[a] # NoRes
      <4>1. reservation[a] \in Res
        BY <1>1, <3>2, QueueConstants DEF TypeOK, AgentSessionTypeOK, Res, NoRes
      <4>2. Report("dialer_failed", reservation[a]) \in AgentMsg
        BY <4>1, AgentMessages
      <4>3. agentBox'
              = ToAgent(Rest(a), a, Report("dialer_failed", reservation[a]))
        BY <1>8, <3>2 DEF DialerDown
      <4> QED
        BY <1>3, <4>2, <4>3, AgentBoxes
    <3> QED
      BY <3>1, <3>2
  <2>3. SameAttempts
    BY <1>1, <1>8, SameAttemptsUnchanged DEF DialerDown
  <2>4. AttemptsStarted'
    BY <1>8, <2>1, <2>3, StillStarted DEF DialerDown, sessionVars
  <2> QED
    BY <1>1, <1>8, <2>1, <2>2, <2>4
    DEF DialerDown, sessionVars, TypeOK, SessionOK, BoxesTypeOK,
        QueuedCallTypeOK, DialerTypeOK, AgentSessionTypeOK
<1>9. CASE StaleReport(a)
  BY <1>2, <1>9, IgnoreType DEF StaleReport
<1> QED
  BY <1>4, <1>5, <1>6, <1>7, <1>8, <1>9

LEMMA TimersType ==
  ASSUME TypeInv, NEW a \in Agents,
         AttemptTimerFires(a) \/ RestoreTimerFires(a) \/ RestoreAgent(a)
  PROVE  SessionOK'
<1>1. TypeOK /\ AttemptsStarted
  BY DEF TypeInv
<1>2. agentBox \in [Agents -> Seq(AgentMsg)]
  BY <1>1 DEF TypeOK, BoxesTypeOK
<1>3. CASE AttemptTimerFires(a)
  <2> DEFINE r == reservation[a]
             k == [att[r] EXCEPT !.timer = "off"]
  <2>1. r \in Res /\ att[r] \in Attempt
    BY <1>1, <1>3, QueueConstants
    DEF AttemptTimerFires, TypeOK, DialerTypeOK, AgentSessionTypeOK, Res, NoRes
  <2>2. SameTarget(k, att[r])
    BY <2>1, FieldsOfAttempts
  <2>3. att' = [att EXCEPT ![r] = k] /\ next_res' = next_res
    BY <1>3 DEF AttemptTimerFires
  <2> HIDE DEF k
  <2>4. SameAttempts
    BY <1>1, <2>1, <2>2, <2>3, AttemptChanges
  <2>5. AttemptsStarted'
    BY <1>3, <2>4, StillStarted DEF AttemptTimerFires, sessionVars
  <2>6. PICK type \in {"attempt_timeout", "bridge_timeout"} :
          agentBox' = ToAgent(agentBox, a, Report(type, r))
    BY <1>3 DEF AttemptTimerFires
  <2>7. agentBox' \in [Agents -> Seq(AgentMsg)]
    BY <1>2, <2>1, <2>6, AgentMessages, AgentBoxes
  <2> QED
    BY <1>1, <1>3, <2>4, <2>5, <2>7
    DEF AttemptTimerFires, SameAttempts, sessionVars, TypeOK, SessionOK,
        BoxesTypeOK, QueuedCallTypeOK, DialerTypeOK, AgentSessionTypeOK
<1>4. CASE RestoreTimerFires(a)
  <2>1. PICK p \in Passing :
          agentBox' = ToAgent(agentBox, a, RestorePresence(p))
    BY <1>1, <1>4 DEF RestoreTimerFires, TypeOK, AgentSessionTypeOK
  <2>2. agentBox' \in [Agents -> Seq(AgentMsg)]
    BY <1>2, <2>1, AgentMessages, AgentBoxes
  <2>3. /\ restore_timer' \in [Agents -> Passing \union {"none"}]
        /\ lost_timers' \in [Agents -> SUBSET Passing]
    BY <1>1, <1>4 DEF RestoreTimerFires, TypeOK, AgentSessionTypeOK
  <2> QED
    BY <1>1, <1>4, <2>2, <2>3
    DEF RestoreTimerFires, attemptVars, TypeOK, SessionOK, BoxesTypeOK,
        QueuedCallTypeOK, DialerTypeOK, AgentSessionTypeOK, AttemptsStarted,
        StartedFor
<1>5. CASE RestoreAgent(a)
  <2>1. agentBox' \in [Agents -> Seq(AgentMsg)]
    BY <1>1, <1>5, FirstMessage DEF RestoreAgent, Takes
  <2>2. "Available" \in DbPresence /\ DbPresence \subseteq Presence
    BY DEF DbPresence, Presence
  <2>3. schedBox' \in [Queues -> Seq(SchedMsg)]
    <3>1. schedBox \in [Queues -> Seq(SchedMsg)]
      BY <1>1 DEF TypeOK, BoxesTypeOK
    <3>2. Broadcast(schedBox, PresenceUpdate(a, "Available"))
            \in [Queues -> Seq(SchedMsg)]
      BY <2>2, <3>1, SchedMessages, SchedBoxes
    <3> QED
      BY <1>5, <3>1, <3>2 DEF RestoreAgent
  <2>4. db' \in [Agents -> DbPresence] /\ presence' \in [Agents -> Presence]
    BY <1>1, <1>5, <2>2 DEF RestoreAgent, WriteDb, TypeOK, AgentSessionTypeOK
  <2>5. /\ restore_timer' \in [Agents -> Passing \union {"none"}]
        /\ lost_timers' \in [Agents -> SUBSET Passing]
    <3>1. StillRunning(a) \in SUBSET Passing
      BY <1>1 DEF StillRunning, TypeOK, AgentSessionTypeOK
    <3> QED
      BY <1>1, <1>5, <3>1 DEF RestoreAgent, TypeOK, AgentSessionTypeOK
  <2> QED
    BY <1>1, <1>5, <2>1, <2>3, <2>4, <2>5
    DEF RestoreAgent, attemptVars, TypeOK, SessionOK, BoxesTypeOK,
        QueuedCallTypeOK, DialerTypeOK, AgentSessionTypeOK, AttemptsStarted,
        StartedFor
<1> QED
  BY <1>3, <1>4, <1>5

(* All messages and timers of a session.                                   *)
LEMMA SessionType ==
  ASSUME TypeInv, NEW a \in Agents,
         SessionStep(a) \/ RestoreTimerFires(a) \/ AttemptTimerFires(a)
  PROVE  SessionOK'
BY RequestsType, LegEventsType, ReportsType, TimersType DEF SessionStep

----------------------------------------------------------------------------
(* FreeSWITCH and the Dialers.                                             *)

LEMMA StoryTypes ==
  ASSUME TypeOK, NEW r \in Res
  PROVE  /\ LegEnd(r) \in Seq(StoryEvent)
         /\ ForkEnd(r) \in Seq(StoryEvent)
         /\ LegEnd(r) \o ForkEnd(r) \in Seq(StoryEvent)
         /\ <<[type |-> "answered", res |-> r]>> \in Seq(StoryEvent)
         /\ \A s \in Seq(StoryEvent) : Tell(r, s) \in [Calls -> Seq(StoryEvent)]
<1>1. \A type \in {"answered", "ended", "rejected"} :
        <<[type |-> type, res |-> r]>> \in Seq(StoryEvent)
  <2>1. \A type \in {"answered", "ended", "rejected"} :
          [type |-> type, res |-> r] \in StoryEvent
    BY DEF StoryEvent
  <2> QED
    BY <2>1
<1>2. <<>> \in Seq(StoryEvent)
  OBVIOUS
<1>3. LegEnd(r) \in Seq(StoryEvent) /\ ForkEnd(r) \in Seq(StoryEvent)
  BY <1>1, <1>2 DEF LegEnd, ForkEnd
<1>4. \A s, t \in Seq(StoryEvent) : s \o t \in Seq(StoryEvent)
  OBVIOUS
<1>5. \A s \in Seq(StoryEvent) : Tell(r, s) \in [Calls -> Seq(StoryEvent)]
  BY <1>4 DEF Tell, TypeOK, DialerTypeOK
<1> QED
  BY <1>1, <1>3, <1>4, <1>5

LEMMA DownType ==
  ASSUME TypeOK, NEW r \in Res
  PROVE  Down(r) \in [Agents -> Seq(AgentMsg)]
BY AgentMessages, AgentBoxes DEF Down, TypeOK, BoxesTypeOK

(* What FreeSWITCH and the Dialers may change.                             *)
LEMMA AttemptStepType ==
  ASSUME TypeInv, SameAttempts,
         story' \in [Calls -> Seq(StoryEvent)],
         agentBox' \in [Agents -> Seq(AgentMsg)],
         UNCHANGED <<schedBox, pending, qc, dialer, customer, sessionVars>>
  PROVE  SessionOK'
<1>1. AttemptsStarted'
  BY StillStarted DEF sessionVars
<1> QED
  BY <1>1
  DEF SameAttempts, sessionVars, TypeInv, TypeOK, SessionOK, BoxesTypeOK,
      QueuedCallTypeOK, DialerTypeOK, AgentSessionTypeOK

LEMMA LegStepType ==
  ASSUME TypeInv, NEW r \in Res, LegStep(r), UNCHANGED sessionVars
  PROVE  SessionOK'
<1>1. TypeOK /\ att[r] \in Attempt /\ agentBox \in [Agents -> Seq(AgentMsg)]
      /\ story \in [Calls -> Seq(StoryEvent)]
  BY DEF TypeInv, TypeOK, DialerTypeOK, BoxesTypeOK
<1>2. UNCHANGED <<schedBox, agentBox, pending, qc, next_res, dialer, customer>>
  BY DEF LegStep, Ring, LegAnswers, LegEnds, ForkEnds, HupallRuns, boxVars
<1>3. story' \in [Calls -> Seq(StoryEvent)]
  BY <1>1, StoryTypes
  DEF LegStep, Ring, LegAnswers, LegEnds, ForkEnds, HupallRuns
<1>4. PICK k : SameTarget(k, att[r]) /\ att' = [att EXCEPT ![r] = k]
  <2>1. CASE Ring(r)
    <3> DEFINE f == IF SecondLeg THEN "ringing" ELSE "gone"
               k == [[att[r] EXCEPT !.leg = "ringing"] EXCEPT !.fork = f]
    <3>1. SameTarget(k, att[r])
      BY <1>1, CombinedChanges
    <3>2. att' = [att EXCEPT ![r] = k]
      BY <1>1, <2>1 DEF Ring, TypeInv, TypeOK, DialerTypeOK
    <3> QED
      BY <3>1, <3>2
  <2>2. CASE LegAnswers(r)
    BY <1>1, <2>2, FieldsOfAttempts DEF LegAnswers
  <2>3. CASE LegEnds(r)
    BY <1>1, <2>3, FieldsOfAttempts DEF LegEnds
  <2>4. CASE ForkEnds(r)
    BY <1>1, <2>4, FieldsOfAttempts DEF ForkEnds
  <2>5. CASE HupallRuns(r)
    <3> DEFINE k == [Hupall(att[r]) EXCEPT !.hupall = FALSE]
    <3>1. SameTarget(k, att[r])
      BY <1>1, CombinedChanges
    <3>2. att' = [att EXCEPT ![r] = k]
      BY <2>5 DEF HupallRuns
    <3> QED
      BY <3>1, <3>2
  <2> QED
    BY <2>1, <2>2, <2>3, <2>4, <2>5 DEF LegStep
<1>5. SameAttempts
  BY <1>1, <1>2, <1>4, AttemptChanges
<1> QED
  BY <1>1, <1>2, <1>3, <1>5, AttemptStepType

LEMMA UuidBridgeType ==
  ASSUME TypeInv, NEW r \in Res, UuidBridge(r), UNCHANGED sessionVars
  PROVE  SessionOK'
<1> DEFINE c == att[r].call
           taken == {s \in Res : att[s].call = c /\ att[s].leg = "bridged"}
           event == [s \in taken |-> [type |-> "ended", res |-> s]]
           events == {[type |-> "ended", res |-> s] : s \in taken}
<1>1. TypeOK /\ att \in [Res -> Attempt]
      /\ agentBox \in [Agents -> Seq(AgentMsg)]
      /\ story \in [Calls -> Seq(StoryEvent)]
  BY DEF TypeInv, TypeOK, DialerTypeOK, BoxesTypeOK
<1>2. IsFiniteSet(taken)
  <2>1. IsFiniteSet(Res)
    BY QueueConstants, FS_Interval DEF Res
  <2> QED
    BY <2>1, FS_Subset
<1>3. IsFiniteSet(events)
  <2>1. event \in Surjection(taken, events)
    BY DEF Surjection
  <2> HIDE DEF event, events, taken
  <2> QED
    BY <1>2, <2>1, FS_Surjection
<1>4. SetToSeq(events) \in Seq(StoryEvent)
  <2>1. events \in SUBSET StoryEvent
    BY DEF StoryEvent
  <2> HIDE DEF events
  <2> QED
    BY <1>3, <2>1, SetToSeqIsSeq
<1>5. story' \in [Calls -> Seq(StoryEvent)]
  <2> HIDE DEF events
  <2>1. \A s \in Seq(StoryEvent) : s \o SetToSeq(events) \in Seq(StoryEvent)
    BY <1>4
  <2>2. story' = [story EXCEPT ![c] = @ \o SetToSeq(events)]
    BY DEF UuidBridge, events
  <2> QED
    BY <1>1, <2>1, <2>2
<1>6. SameAttempts
  <2>1. \A k \in Attempt : /\ SameTarget(k, k)
                           /\ SameTarget([k EXCEPT !.leg = "bridged"], k)
                           /\ SameTarget([k EXCEPT !.leg = "over"], k)
    BY FieldsOfAttempts
  <2>2. \A s \in Res : att'[s] \in {att[s], [att[s] EXCEPT !.leg = "bridged"],
                                   [att[s] EXCEPT !.leg = "over"]}
    BY <1>1 DEF UuidBridge
  <2>3. \A s \in Res : SameTarget(att'[s], att[s])
    BY <1>1, <2>1, <2>2
  <2>4. att' \in [Res -> Attempt]
    <3>1. DOMAIN att' = Res /\ att' = [s \in Res |-> att'[s]]
      BY DEF UuidBridge
    <3> QED
      BY <2>3, <3>1 DEF SameTarget
  <2> QED
    BY <2>3, <2>4 DEF SameAttempts, UuidBridge
<1> QED
  BY <1>1, <1>5, <1>6, AttemptStepType DEF UuidBridge, boxVars

LEMMA DialerStepType ==
  ASSUME TypeInv, NEW r \in Res, DialerStep(r) \/ DialerCrashes(r),
         UNCHANGED sessionVars
  PROVE  SessionOK'
<1>1. TypeOK /\ att[r] \in Attempt /\ agentBox \in [Agents -> Seq(AgentMsg)]
      /\ story \in [Calls -> Seq(StoryEvent)]
  BY DEF TypeInv, TypeOK, DialerTypeOK, BoxesTypeOK
<1>2. CASE UuidBridge(r)
  BY <1>2, UuidBridgeType
<1>3. CASE \/ OriginateRejected(r) \/ OriginateAnswered(r)
           \/ BridgeSucceeded(r) \/ BridgeFails(r) \/ DialerExits(r)
           \/ DialerCrashes(r)
  <2>1. UNCHANGED <<schedBox, pending, qc, next_res, dialer, customer>>
    BY <1>3
    DEF OriginateRejected, OriginateAnswered, BridgeSucceeded, BridgeFails,
        DialerExits, DialerCrashes
  <2>2. agentBox' \in [Agents -> Seq(AgentMsg)]
    <3>1. \A a : \A type \in {"dialer_member_answered", "dialer_answered",
                             "dialer_failed"} :
            ToAgent(agentBox, a, Report(type, r)) \in [Agents -> Seq(AgentMsg)]
      BY <1>1, AgentMessages, AgentBoxes
    <3> QED
      BY <1>1, <1>3, <3>1, DownType
      DEF OriginateRejected, OriginateAnswered, BridgeSucceeded, BridgeFails,
          DialerExits, DialerCrashes
  <2>3. story' \in [Calls -> Seq(StoryEvent)]
    <3>1. CASE DialerExits(r)
      <4>1. Tell(r, LegEnd(r) \o ForkEnd(r)) \in [Calls -> Seq(StoryEvent)]
        BY <1>1, StoryTypes
      <4> QED
        BY <1>1, <3>1, <4>1 DEF DialerExits
    <3>2. CASE BridgeFails(r)
      <4>1. Tell(r, LegEnd(r)) \in [Calls -> Seq(StoryEvent)]
        BY <1>1, StoryTypes
      <4> QED
        BY <3>2, <4>1 DEF BridgeFails
    <3>3. CASE \/ OriginateRejected(r) \/ OriginateAnswered(r)
               \/ BridgeSucceeded(r) \/ DialerCrashes(r)
      BY <1>1, <3>3
      DEF OriginateRejected, OriginateAnswered, BridgeSucceeded, DialerCrashes
    <3> QED
      BY <1>3, <3>1, <3>2, <3>3
  <2>4. PICK k : SameTarget(k, att[r]) /\ att' = [att EXCEPT ![r] = k]
    <3>1. CASE BridgeFails(r)
      <4> DEFINE k == [[att[r] EXCEPT !.dial = "failing"]
                         EXCEPT !.leg = Ended(@)]
      <4>1. SameTarget(k, att[r])
        BY <1>1, CombinedChanges
      <4>2. att' = [att EXCEPT ![r] = k]
        BY <1>1, <3>1 DEF BridgeFails, TypeInv, TypeOK, DialerTypeOK
      <4> QED
        BY <4>1, <4>2
    <3>2. CASE DialerExits(r) /\ att[r].dial = "failing"
      <4>1. SameTarget([Hupall(att[r]) EXCEPT !.dial = "done"], att[r])
        BY <1>1, CombinedChanges
      <4>2. att' = [att EXCEPT ![r] = [Hupall(att[r]) EXCEPT !.dial = "done"]]
        BY <3>2 DEF DialerExits
      <4> QED
        BY <4>1, <4>2
    <3>3. CASE \/ OriginateRejected(r) \/ OriginateAnswered(r)
               \/ BridgeSucceeded(r) \/ DialerCrashes(r)
               \/ DialerExits(r) /\ att[r].dial # "failing"
      <4>1. PICK d \in {"bridge", "failing", "stopping", "done"} :
              att' = [att EXCEPT ![r] = [att[r] EXCEPT !.dial = d]]
        BY <3>3
        DEF OriginateRejected, OriginateAnswered, BridgeSucceeded,
            DialerCrashes, DialerExits
      <4> QED
        BY <1>1, <4>1, FieldsOfAttempts
    <3> QED
      BY <1>3, <3>1, <3>2, <3>3
  <2>5. SameAttempts
    BY <1>1, <2>1, <2>4, AttemptChanges
  <2> QED
    BY <1>1, <2>1, <2>2, <2>3, <2>5, AttemptStepType
<1> QED
  BY <1>2, <1>3 DEF DialerStep
----------------------------------------------------------------------------
(* Crashes, and what goes on around the queue.                             *)

(* A counter below its bound.                                              *)
LEMMA OneMore ==
  ASSUME NEW max \in Nat, NEW n \in 0..max
  PROVE  /\ n < max => n + 1 \in 0..max
         /\ 0 \in 0..max
OBVIOUS

LEMMA ActiveAgentsType ==
  ASSUME NEW who \in SUBSET Agents
  PROVE  ActiveAgents(who) \subseteq Seq(Agents)
<1> DEFINE active == {a \in who : db[a] # "Logged Out"}
<1>1. active \in SUBSET Agents /\ ActiveAgents(who) = SetToSeqs(active)
  BY DEF ActiveAgents
<1> HIDE DEF active
<1> QED
  BY <1>1, QueueConstants, SetToSeqsOfSubset

LEMMA SchedulerRestartsType ==
  ASSUME TypeOK, NEW q \in Queues, SchedulerRestarts(q)
  PROVE  /\ MatchTypeOK'
         /\ QueuedCallTypeOK'
         /\ schedBox' \in [Queues -> Seq(SchedMsg)]
         /\ UNCHANGED SchedulerLeaves
<1>1. PICK loaded \in ActiveAgents(members[q]) :
        SchedulerState(q, <<>>, loaded, NobodyInFlight, None)
  BY DEF SchedulerRestarts
<1>2. loaded \in Seq(Agents)
  BY <1>1, ActiveAgentsType DEF TypeOK, SchedulerTypeOK
<1>3. <<>> \in Seq(Calls) /\ <<>> \in Seq(SchedMsg)
  OBVIOUS
<1>4. NobodyInFlight \in [Agents -> Calls \union {None}]
  BY DEF NobodyInFlight
<1>5. GoIdle(q, agentBox)
  BY DEF SchedulerRestarts
<1>6. MatchTypeOK'
  BY <1>1, <1>2, <1>3, <1>4, <1>5, SchedulerStateType, GoIdleType
  DEF MatchTypeOK
<1>7. schedBox' \in [Queues -> Seq(SchedMsg)]
  BY <1>3 DEF SchedulerRestarts, TypeOK, BoxesTypeOK
<1> QED
  BY <1>6, <1>7 DEF SchedulerRestarts, SchedulerLeaves, TypeOK, QueuedCallTypeOK

LEMMA LegMessageType ==
  ASSUME TypeOK, NEW e \in StoryEvent
  PROVE  /\ LegMessage(e) \in AgentMsg
         /\ att[e.res].agent \in Agents \union {None}
<1>1. e.res \in Res /\ e.type \in {"answered", "ended", "rejected"}
  BY DEF StoryEvent
<1>2. att[e.res] \in Attempt
  BY <1>1 DEF TypeOK, DialerTypeOK
<1>3. att[e.res].queue \in Queues \union {None}
      /\ att[e.res].agent \in Agents \union {None}
  BY <1>2 DEF Attempt
<1> QED
  BY <1>1, <1>3, AgentMessages DEF LegMessage

(* What happens around the queue: mailboxes, the database, the customer.   *)
Surroundings ==
  \/ \E c \in Calls, q \in Queues : Enqueue(c, q)
  \/ \E c \in Calls : CustomerHangsUp(c) \/ HangUpNoticed(c) \/ RelayLegEvent(c)
  \/ \E a \in Agents, p \in {"Available", "On Break", "Logged Out"} :
       UserSets(a, p)
  \/ \E a \in Agents, q \in Queues : JoinsQueue(a, q) \/ LeavesQueue(a, q)

LEMMA SurroundingsType ==
  ASSUME TypeInv, Surroundings
  PROVE  TypeInv'
<1>1. TypeOK /\ AttemptsStarted
  BY DEF TypeInv
<1>2. schedBox \in [Queues -> Seq(SchedMsg)]
  BY <1>1 DEF TypeOK, BoxesTypeOK
<1>3. CASE \E c \in Calls, q \in Queues : Enqueue(c, q)
  <2>1. PICK c \in Calls, q \in Queues : Enqueue(c, q)
    BY <1>3
  <2>2. schedBox' \in [Queues -> Seq(SchedMsg)]
    BY <1>2, <2>1, SchedMessages, SchedBoxes DEF Enqueue
  <2>3. customer' \in [Calls -> CustomerState]
    BY <1>1, <2>1 DEF Enqueue, TypeOK, DialerTypeOK, CustomerState
  <2> QED
    BY <1>1, <2>1, <2>2, <2>3
    DEF Enqueue, TypeInv, TypeOK, BoxesTypeOK, QueuedCallTypeOK, DialerTypeOK,
        AgentSessionTypeOK, SchedulerTypeOK, AttemptsStarted, StartedFor,
        sessionVars, schedVars, bounds
<1>4. CASE \E c \in Calls : CustomerHangsUp(c)
  <2>1. PICK c \in Calls : CustomerHangsUp(c)
    BY <1>4
  <2>2. customer' \in [Calls -> CustomerState]
    BY <1>1, <2>1 DEF CustomerHangsUp, TypeOK, DialerTypeOK, CustomerState
  <2> QED
    BY <1>1, <2>1, <2>2
    DEF CustomerHangsUp, TypeInv, TypeOK, BoxesTypeOK, QueuedCallTypeOK,
        DialerTypeOK, AgentSessionTypeOK, SchedulerTypeOK, AttemptsStarted,
        StartedFor, boxVars, sessionVars, schedVars, bounds
<1>5. CASE \E c \in Calls : HangUpNoticed(c)
  <2>1. PICK c \in Calls : HangUpNoticed(c)
    BY <1>5
  <2>2. schedBox' \in [Queues -> Seq(SchedMsg)]
    <3>1. CASE ~Alive(qc[c])
      BY <1>2, <2>1, <3>1 DEF HangUpNoticed
    <3>2. CASE Alive(qc[c]) /\ qc[c].queue \in Queues
      BY <1>2, <2>1, <3>2, SchedMessages, SchedBoxes DEF HangUpNoticed
    <3>3. CASE Alive(qc[c]) /\ qc[c].queue \notin Queues
      BY <1>2, <2>1, <3>3 DEF HangUpNoticed, ToQueue
    <3> QED
      BY <3>1, <3>2, <3>3
  <2>3. customer' \in [Calls -> CustomerState]
    BY <1>1, <2>1 DEF HangUpNoticed, TypeOK, DialerTypeOK, CustomerState
  <2> QED
    BY <1>1, <2>1, <2>2, <2>3
    DEF HangUpNoticed, TypeInv, TypeOK, BoxesTypeOK, QueuedCallTypeOK,
        DialerTypeOK, AgentSessionTypeOK, SchedulerTypeOK, AttemptsStarted,
        StartedFor, sessionVars, schedVars, bounds
<1>6. CASE \E c \in Calls : RelayLegEvent(c)
  <2>1. PICK c \in Calls : RelayLegEvent(c)
    BY <1>6
  <2> DEFINE e == Head(story[c])
  <2>2. story[c] \in Seq(StoryEvent) /\ story[c] # <<>>
    BY <1>1, <2>1 DEF RelayLegEvent, TypeOK, DialerTypeOK
  <2>3. e \in StoryEvent /\ Tail(story[c]) \in Seq(StoryEvent)
    BY <2>2
  <2>4. story' \in [Calls -> Seq(StoryEvent)]
    BY <1>1, <2>1, <2>3 DEF RelayLegEvent, TypeOK, DialerTypeOK
  <2>5. agentBox' \in [Agents -> Seq(AgentMsg)]
    <3>1. agentBox' = ToAgent(agentBox, att[e.res].agent, LegMessage(e))
      BY <2>1 DEF RelayLegEvent
    <3>2. LegMessage(e) \in AgentMsg
      BY <1>1, <2>3, LegMessageType
    <3>3. agentBox \in [Agents -> Seq(AgentMsg)]
      BY <1>1 DEF TypeOK, BoxesTypeOK
    <3> HIDE DEF e
    <3> QED
      BY <3>1, <3>2, <3>3, AgentBoxes
  <2> QED
    BY <1>1, <2>1, <2>4, <2>5
    DEF RelayLegEvent, TypeInv, TypeOK, BoxesTypeOK, QueuedCallTypeOK,
        DialerTypeOK, AgentSessionTypeOK, SchedulerTypeOK, AttemptsStarted,
        StartedFor, sessionVars, schedVars, bounds
<1>7. CASE \E a \in Agents, p \in {"Available", "On Break", "Logged Out"} :
             UserSets(a, p)
  <2>1. PICK a \in Agents, p \in {"Available", "On Break", "Logged Out"} :
          UserSets(a, p)
    BY <1>7
  <2>2. p \in DbPresence
    BY DEF DbPresence
  <2>3. schedBox' \in [Queues -> Seq(SchedMsg)]
    BY <1>2, <2>1, <2>2, SchedMessages, SchedBoxes DEF UserSets
  <2>4. db' \in [Agents -> DbPresence]
    BY <1>1, <2>1, <2>2 DEF UserSets, WriteDb, TypeOK, AgentSessionTypeOK
  <2>5. user_acts' \in 0..MaxUserActs
    <3>1. user_acts \in 0..MaxUserActs /\ MaxUserActs \in Nat
      BY <1>1, QueueConstants DEF TypeOK
    <3>2. user_acts < MaxUserActs /\ user_acts' = user_acts + 1
      BY <2>1 DEF UserSets
    <3> QED
      BY <3>1, <3>2, OneMore
  <2> QED
    BY <1>1, <2>1, <2>3, <2>4, <2>5
    DEF UserSets, TypeInv, TypeOK, BoxesTypeOK, QueuedCallTypeOK, DialerTypeOK,
        AgentSessionTypeOK, SchedulerTypeOK, AttemptsStarted, StartedFor,
        attemptVars, schedVars
<1>8. CASE \E a \in Agents, q \in Queues : JoinsQueue(a, q) \/ LeavesQueue(a, q)
  <2>1. PICK a \in Agents, q \in Queues : JoinsQueue(a, q) \/ LeavesQueue(a, q)
    BY <1>8
  <2>2. PICK who \in SUBSET Agents, m \in SchedMsg : ChangeMembers(q, who, m)
    <3>1. members[q] \in SUBSET Agents
      BY <1>1 DEF TypeOK, SchedulerTypeOK
    <3>2. members[q] \union {a} \in SUBSET Agents
          /\ members[q] \ {a} \in SUBSET Agents
      BY <3>1
    <3> QED
      BY <2>1, <3>2, SchedMessages DEF JoinsQueue, LeavesQueue
  <2>3. schedBox' \in [Queues -> Seq(SchedMsg)]
    BY <1>2, <2>2, SchedBoxes DEF ChangeMembers
  <2>4. members' \in [Queues -> SUBSET Agents]
    BY <1>1, <2>2 DEF ChangeMembers, TypeOK, SchedulerTypeOK
  <2>5. member_acts' \in 0..MaxMemberActs
    BY <1>1, <2>2, QueueConstants DEF ChangeMembers, TypeOK
  <2> QED
    BY <1>1, <2>2, <2>3, <2>4, <2>5
    DEF ChangeMembers, TypeInv, TypeOK, BoxesTypeOK, QueuedCallTypeOK,
        DialerTypeOK, AgentSessionTypeOK, SchedulerTypeOK, AttemptsStarted,
        StartedFor, attemptVars, sessionVars, schedVars
<1> QED
  BY <1>3, <1>4, <1>5, <1>6, <1>7, <1>8 DEF Surroundings

----------------------------------------------------------------------------
(* The whole.                                                              *)

LEMMA InitType == Init => TypeInv
<1> SUFFICES ASSUME Init PROVE TypeInv
  OBVIOUS
<1>1. BoxesTypeOK
  <2>1. /\ Idle \in Pending
        /\ <<>> \in Seq(SchedMsg) /\ <<>> \in Seq(AgentMsg)
    BY DEF Pending
  <2> QED
    BY <2>1 DEF Init, BoxesTypeOK
<1>2. QueuedCallTypeOK
  <2>1. NoProcess("none") \in QueuedCallState
    BY QueueConstants DEF NoProcess, QueuedCallState, NoRes
  <2> QED
    BY <2>1 DEF Init, QueuedCallTypeOK
<1>3. DialerTypeOK
  <2>1. NoAttempt \in Attempt
    BY DEF NoAttempt, Attempt
  <2>2. 1 \in 1..(MaxRes + 1) /\ NoRes \in 0..MaxRes
    BY QueueConstants DEF NoRes
  <2>3. <<>> \in Seq(StoryEvent) /\ "new" \in CustomerState
    BY DEF CustomerState
  <2> QED
    BY <2>1, <2>2, <2>3 DEF Init, DialerTypeOK
<1>4. AgentSessionTypeOK
  <2>1. NoRes \in 0..MaxRes
    BY QueueConstants DEF NoRes
  <2>2. db \in [Agents -> DbPresence] /\ presence \in [Agents -> Presence]
    BY DEF Init, DbPresence, Presence
  <2> QED
    BY <2>1, <2>2 DEF Init, AgentSessionTypeOK
<1>5. SchedulerTypeOK
  <2>1. available \in [Queues -> Seq(Agents)]
    <3>1. \A who \in SUBSET Agents : ActiveAgents(who) \subseteq Seq(Agents)
      BY ActiveAgentsType
    <3>2. UNION {ActiveAgents(who) : who \in SUBSET Agents}
            \subseteq Seq(Agents)
      BY <3>1
    <3> QED
      BY <3>2 DEF Init
  <2>2. <<>> \in Seq(Calls)
    OBVIOUS
  <2> QED
    BY <2>1, <2>2 DEF Init, SchedulerTypeOK, NobodyInFlight
<1>6. /\ time_outs \in 0..MaxTimeOuts
      /\ user_acts \in 0..MaxUserActs
      /\ member_acts \in 0..MaxMemberActs
      /\ crashes \in 0..MaxCrashes
  <2>1. \A max \in Nat : 0 \in 0..max
    OBVIOUS
  <2> QED
    BY <2>1, QueueConstants DEF Init
<1>7. AttemptsStarted
  BY DEF Init, AttemptsStarted
<1> QED
  BY <1>1, <1>2, <1>3, <1>4, <1>5, <1>6, <1>7 DEF TypeInv, TypeOK

(* What is left of the state when the schedulers, or all but the           *)
(* schedulers, have been seen to.                                          *)
BoundsOK ==
  /\ time_outs \in 0..MaxTimeOuts
  /\ user_acts \in 0..MaxUserActs
  /\ member_acts \in 0..MaxMemberActs
  /\ crashes \in 0..MaxCrashes

LEMMA SessionsSuffice ==
  ASSUME TypeInv, SessionOK', BoundsOK', UNCHANGED <<schedVars, members>>
  PROVE  TypeInv'
BY DEF SessionOK, BoundsOK, schedVars, TypeInv, TypeOK, SchedulerTypeOK

LEMMA SchedulersSuffice ==
  ASSUME TypeInv, MatchTypeOK', QueuedCallTypeOK',
         schedBox' \in [Queues -> Seq(SchedMsg)],
         BoundsOK', UNCHANGED SchedulerLeaves
  PROVE  TypeInv'
BY DEF MatchTypeOK, SchedulerLeaves, BoundsOK, attemptVars, sessionVars,
       TypeInv, TypeOK, BoxesTypeOK, DialerTypeOK, AgentSessionTypeOK,
       SchedulerTypeOK, AttemptsStarted, StartedFor

LEMMA NextType == TypeInv /\ [Next]_vars => TypeInv'
<1> SUFFICES ASSUME TypeInv, [Next]_vars PROVE TypeInv'
  OBVIOUS
<1>1. TypeOK /\ BoundsOK
  BY DEF TypeInv, TypeOK, BoundsOK
<1>2. ASSUME UNCHANGED bounds PROVE BoundsOK'
  BY <1>1, <1>2 DEF bounds, BoundsOK
<1>3. ASSUME NEW q \in Queues, SchedulerStep(q), UNCHANGED bounds
      PROVE  TypeInv'
  <2>1. /\ MatchTypeOK' /\ QueuedCallTypeOK'
        /\ schedBox' \in [Queues -> Seq(SchedMsg)]
        /\ UNCHANGED SchedulerLeaves
    BY <1>1, <1>3, SchedulerHandlesType, SchedulerAnsweredType
    DEF SchedulerStep
  <2> QED
    BY <1>2, <1>3, <2>1, SchedulersSuffice
<1>4. ASSUME NEW a \in Agents, SessionStep(a) \/ RestoreTimerFires(a),
             UNCHANGED NotSession
      PROVE  TypeInv'
  BY <1>2, <1>4, SessionType, SessionsSuffice DEF NotSession
<1>5. ASSUME NEW a \in Agents, TimeOut(a) PROVE TypeInv'
  <2>1. AttemptTimerFires(a) /\ UNCHANGED <<schedVars, members>>
    BY <1>5 DEF TimeOut
  <2>2. BoundsOK'
    <3>1. /\ time_outs < MaxTimeOuts /\ time_outs' = time_outs + 1
          /\ UNCHANGED <<user_acts, member_acts, crashes>>
      BY <1>5 DEF TimeOut
    <3> QED
      BY <1>1, <3>1, QueueConstants DEF BoundsOK
  <2> QED
    BY <2>1, <2>2, SessionType, SessionsSuffice
<1>6. ASSUME NEW r \in Res, DialerStep(r) \/ LegStep(r), UNCHANGED NotDialer
      PROVE  TypeInv'
  BY <1>2, <1>6, DialerStepType, LegStepType, SessionsSuffice
  DEF NotDialer, NotSession
<1>7. CASE Surroundings
  BY <1>7, SurroundingsType
<1>8. CASE Crash
  <2>1. BoundsOK'
    <3>1. /\ crashes < MaxCrashes /\ crashes' = crashes + 1
          /\ UNCHANGED <<time_outs, user_acts, member_acts>>
      BY <1>8 DEF Crash
    <3> QED
      BY <1>1, <3>1, QueueConstants DEF BoundsOK
  <2>2. CASE \E q \in Queues : SchedulerRestarts(q)
    BY <1>1, <2>1, <2>2, SchedulerRestartsType, SchedulersSuffice
  <2>3. CASE \E r \in Res : DialerCrashes(r)
                           /\ UNCHANGED <<sessionVars, schedVars, members>>
    BY <2>1, <2>3, DialerStepType, SessionsSuffice
  <2> QED
    BY <1>8, <2>2, <2>3 DEF Crash
<1>9. CASE UNCHANGED vars
  BY <1>9
  DEF vars, boxVars, attemptVars, sessionVars, schedVars, bounds, TypeInv,
      TypeOK, BoxesTypeOK, QueuedCallTypeOK, DialerTypeOK, AgentSessionTypeOK,
      SchedulerTypeOK, AttemptsStarted, StartedFor
<1> QED
  BY <1>3, <1>4, <1>5, <1>6, <1>7, <1>8, <1>9
  DEF Next, Surroundings, Quiescent

(* Every process's state and every mailbox always has its type, whatever   *)
(* the interleaving, the crashes and the size of the organisation.  What   *)
(* is behind it: no session ever reports on an attempt that was not        *)
(* started for its agent (DialerAnswered, Unanswered), so the scheduler    *)
(* is always told about a real queue and a real call.                      *)
THEOREM TypeCorrect == Spec => []TypeOK
<1>1. TypeInv => TypeOK
  BY DEF TypeInv
<1> QED
  BY <1>1, InitType, NextType, PTL DEF Spec

(* The attempt an agent is reserved for, and the one whose Dialer its      *)
(* session monitors, was started for that agent, a queue and a call:       *)
(* cancellations, time-outs and crashes never leave a session with the     *)
(* attempt of somebody else.                                               *)
THEOREM ReservedForOwnAttempt == Spec => []AttemptsStarted
<1>1. TypeInv => AttemptsStarted
  BY DEF TypeInv
<1> QED
  BY <1>1, InitType, NextType, PTL DEF Spec

=============================================================================
