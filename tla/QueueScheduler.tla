--------------------------- MODULE QueueScheduler ---------------------------
(***************************************************************************)
(* Comcent.QueueScheduler: one process per queue, matching waiting calls   *)
(* to available agents.  A handler runs up to the next synchronous call to *)
(* an AgentSession; there the scheduler is blocked (pending), its mailbox  *)
(* fills, and the rest of the handler is an action of its own.  The cast   *)
(* agent_busy, which the scheduler ignores, and the count of agents shown  *)
(* on dashboards are left out.                                             *)
(***************************************************************************)
EXTENDS AgentSession

VARIABLES
  waiting,        \* waiting[q]: calls in the queue, oldest first
  available,      \* available[q]: agents that may be dialled
  in_flight,      \* in_flight[q][a]: the call a is being dialled for
  last_assigned,  \* last_assigned[q]: last_assigned_user_id
  members         \* members[q]: the queue_memberships rows

schedVars == <<waiting, available, in_flight, last_assigned>>

NobodyInFlight == [a \in Agents |-> None]

InFlightCalls(inf) == {inf[a] : a \in Agents} \ {None}

----------------------------------------------------------------------------
PutAvailable(av, a) == IF Contains(av, a) THEN av ELSE Append(av, a)

(* Mutant: an agent who is being dialled is offered again.                 *)
OfferedTwice(q, a) == PutAvailable(available[q], a)

(* An agent who is Available is put on the list, unless in flight.         *)
Offered(q, a) ==
  IF in_flight[q][a] = None THEN PutAvailable(available[q], a)
  ELSE available[q]

(* order_candidates/2: those after the last agent assigned come first.     *)
OrderCandidates(av, last) ==
  IF \E i \in 1..(Len(av) - 1) : av[i] = last
  THEN LET i == CHOOSE j \in 1..(Len(av) - 1) : av[j] = last
       IN SubSeq(av, i + 1, Len(av)) \o SubSeq(av, 1, i)
  ELSE av

(* next_callable/1: the position of the first call nobody is dialled for.  *)
NextCallable(w, inf) ==
  {i \in 1..Len(w) : /\ w[i] \notin InFlightCalls(inf)
                     /\ \A j \in 1..(i - 1) : w[j] \in InFlightCalls(inf)}

(* try_agents/3: the head of candidates is asked; the scheduler waits.     *)
AskAgent(q, c, candidates, boxes) ==
  /\ pending' = [pending EXCEPT ![q] =
                   Asking("attempt", Head(candidates), c, Tail(candidates),
                          "match")]
  /\ agentBox' = ToAgent(boxes, Head(candidates), Request("attempt", q, c))

GoIdle(q, boxes) ==
  /\ pending' = [pending EXCEPT ![q] = Idle]
  /\ agentBox' = boxes

SchedulerState(q, w, av, inf, last) ==
  /\ waiting' = [waiting EXCEPT ![q] = w]
  /\ available' = [available EXCEPT ![q] = av]
  /\ in_flight' = [in_flight EXCEPT ![q] = inf]
  /\ last_assigned' = [last_assigned EXCEPT ![q] = last]

(* The new state followed by maybe_match/1; calls is the state of the      *)
(* QueuedCalls by then.                                                    *)
MaybeMatch(q, w, av, inf, last, calls) ==
  /\ SchedulerState(q, w, av, inf, last)
  /\ IF av = <<>> \/ NextCallable(w, inf) = {}
     THEN GoIdle(q, agentBox)
     ELSE \E i \in NextCallable(w, inf) :
            AskAgent(q, w[i],
                     EligibleAgents(calls[w[i]], OrderCandidates(av, last)),
                     agentBox)

(* The rest of a handler has to wait for a session's cancel_attempt.       *)
AskCancel(q, a, c, after) ==
  /\ pending' = [pending EXCEPT ![q] =
                   Asking("cancel_attempt", a, c, <<>>, after)]
  /\ agentBox' = ToAgent(agentBox, a, Request("cancel_attempt", q, c))

Handles(q, type) ==
  /\ pending[q].request = "none"
  /\ schedBox[q] # <<>>
  /\ Head(schedBox[q]).type = type
  /\ schedBox' = [schedBox EXCEPT ![q] = Tail(@)]

----------------------------------------------------------------------------
AddWaitingCall(q) ==
  LET c == Head(schedBox[q]).call IN
  /\ Handles(q, "add_waiting_call")
  /\ qc' = [qc EXCEPT ![c] = Start(@, q)]
  /\ MaybeMatch(q, Append(waiting[q], c), available[q], in_flight[q],
                last_assigned[q], qc')
  /\ UNCHANGED <<attemptVars, sessionVars, members>>

(* handle_call_hung_up/3.  The attempt is ended and the call stopped       *)
(* before the session that is dialling for it is asked to cancel; the call *)
(* leaves the queue when that has answered.                                *)
CallHungUp(q) ==
  LET c == Head(schedBox[q]).call
      dialled == {a \in Agents : in_flight[q][a] = c}
  IN
  /\ Handles(q, "call_hung_up")
  /\ qc' = [qc EXCEPT ![c] = Stop(@, "abandoned")]
  /\ IF dialled # {}
     THEN /\ \E a \in dialled : AskCancel(q, a, c, "forget_call")
          /\ UNCHANGED schedVars
     ELSE /\ SchedulerState(q, RemoveFirst(waiting[q], c), available[q],
                            in_flight[q], last_assigned[q])
          /\ GoIdle(q, agentBox)
  /\ UNCHANGED <<attemptVars, sessionVars, members>>

AddMember(q) ==
  LET a == Head(schedBox[q]).agent
      av == IF db[a] = "Available" THEN Offered(q, a) ELSE available[q]
  IN
  /\ Handles(q, "add_member")
  /\ MaybeMatch(q, waiting[q], av, in_flight[q], last_assigned[q], qc)
  /\ UNCHANGED <<qc, attemptVars, sessionVars, members>>

(* drop_agent/3; after it, a presence update matches, a removal does not.  *)
DropAgent(q, a, after) ==
  LET av == RemoveFirst(available[q], a) IN
  IF in_flight[q][a] # None
  THEN /\ SchedulerState(q, waiting[q], av, in_flight[q], last_assigned[q])
       /\ AskCancel(q, a, in_flight[q][a], after)
  ELSE IF after = "match"
  THEN MaybeMatch(q, waiting[q], av, in_flight[q], last_assigned[q], qc)
  ELSE /\ SchedulerState(q, waiting[q], av, in_flight[q], last_assigned[q])
       /\ GoIdle(q, agentBox)

RemoveMember(q) ==
  /\ Handles(q, "remove_member")
  /\ DropAgent(q, Head(schedBox[q]).agent, "stay")
  /\ UNCHANGED <<qc, attemptVars, sessionVars, members>>

(* Mutants: a call leaves the queue with any outcome, or with none.        *)
WaitingForOne(w, c, outcome) == RemoveFirst(w, c)
WaitingForEver(w, c, outcome) == w

StillWaiting(w, c, outcome) ==
  IF outcome = "answered" THEN RemoveFirst(w, c) ELSE w

(* An agent whose attempt failed is not put back here: that is left to the *)
(* presence update of their return.                                        *)
AttemptFinished(q) ==
  LET m == Head(schedBox[q]) IN
  /\ Handles(q, "attempt_finished")
  /\ MaybeMatch(q, StillWaiting(waiting[q], m.call, m.arg), available[q],
                [in_flight[q] EXCEPT ![m.agent] = None],
                last_assigned[q], qc)
  /\ UNCHANGED <<qc, attemptVars, sessionVars, members>>

(* handle_agent_available/2.                                               *)
AgentAvailable(q) ==
  LET a == Head(schedBox[q]).agent
      av == IF a \in members[q] THEN Offered(q, a) ELSE available[q]
  IN
  /\ Handles(q, "presence_update")
  /\ Head(schedBox[q]).arg = "Available"
  /\ MaybeMatch(q, waiting[q], av, in_flight[q], last_assigned[q], qc)
  /\ UNCHANGED <<qc, attemptVars, sessionVars, members>>

AgentLoggedOut(q) ==
  /\ Handles(q, "presence_update")
  /\ Head(schedBox[q]).arg = "Logged Out"
  /\ DropAgent(q, Head(schedBox[q]).agent, "match")
  /\ UNCHANGED <<qc, attemptVars, sessionVars, members>>

(* On Break, Busy, Wrap Up and On Call leave an attempt alone.             *)
AgentNotAvailable(q) ==
  LET a == Head(schedBox[q]).agent IN
  /\ Handles(q, "presence_update")
  /\ Head(schedBox[q]).arg \notin {"Available", "Logged Out"}
  /\ MaybeMatch(q, waiting[q], RemoveFirst(available[q], a), in_flight[q],
                last_assigned[q], qc)
  /\ UNCHANGED <<qc, attemptVars, sessionVars, members>>

----------------------------------------------------------------------------
(* The session answered.                                                   *)

AttemptAccepted(q) ==
  LET p == pending[q] IN
  /\ p.request = "attempt" /\ p.answer = "ok"
  /\ MaybeMatch(q, waiting[q], RemoveFirst(available[q], p.agent),
                [in_flight[q] EXCEPT ![p.agent] = p.call], p.agent, qc)
  /\ UNCHANGED <<schedBox, qc, attemptVars, sessionVars, members>>

(* Whatever the reason, the agent is not available; with nobody left to    *)
(* ask the handler is over, even if other calls wait.                      *)
AttemptDeclined(q) ==
  LET p == pending[q] IN
  /\ p.request = "attempt" /\ p.answer = "error"
  /\ SchedulerState(q, waiting[q], RemoveFirst(available[q], p.agent),
                    in_flight[q], last_assigned[q])
  /\ IF p.rest = <<>> THEN GoIdle(q, agentBox)
     ELSE AskAgent(q, p.call, p.rest, agentBox)
  /\ UNCHANGED <<schedBox, qc, attemptVars, sessionVars, members>>

AttemptCancelled(q) ==
  LET p == pending[q]
      inf == [in_flight[q] EXCEPT ![p.agent] = None]
  IN
  /\ p.request = "cancel_attempt" /\ p.answer = "ok"
  /\ IF p.after = "match"
     THEN MaybeMatch(q, waiting[q], available[q], inf, last_assigned[q], qc)
     ELSE /\ SchedulerState(q,
               IF p.after = "forget_call" THEN RemoveFirst(waiting[q], p.call)
               ELSE waiting[q],
               available[q], inf, last_assigned[q])
          /\ GoIdle(q, agentBox)
  /\ UNCHANGED <<schedBox, qc, attemptVars, sessionVars, members>>

----------------------------------------------------------------------------
(* handle_continue(:load_queue): the members who are not Logged Out, in    *)
(* the order the database returns them.                                    *)
ActiveAgents(who) == SetToSeqs({a \in who : db[a] # "Logged Out"})

(* The process dies, in a call that times out for instance, and its        *)
(* supervisor starts it again: the mailbox and the whole state are lost,   *)
(* and an answer that is still to come is not received.                    *)
SchedulerRestarts(q) ==
  /\ \E loaded \in ActiveAgents(members[q]) :
       SchedulerState(q, <<>>, loaded, NobodyInFlight, None)
  /\ schedBox' = [schedBox EXCEPT ![q] = <<>>]
  /\ GoIdle(q, agentBox)
  /\ UNCHANGED <<qc, attemptVars, sessionVars, members>>

SchedulerStep(q) ==
  \/ AddWaitingCall(q)
  \/ CallHungUp(q)
  \/ AddMember(q)
  \/ RemoveMember(q)
  \/ AttemptFinished(q)
  \/ AgentAvailable(q)
  \/ AgentLoggedOut(q)
  \/ AgentNotAvailable(q)
  \/ AttemptAccepted(q)
  \/ AttemptDeclined(q)
  \/ AttemptCancelled(q)

SchedulerTypeOK ==
  /\ waiting \in [Queues -> Seq(Calls)]
  /\ available \in [Queues -> Seq(Agents)]
  /\ in_flight \in [Queues -> [Agents -> Calls \union {None}]]
  /\ last_assigned \in [Queues -> Agents \union {None}]
  /\ members \in [Queues -> SUBSET Agents]
=============================================================================
