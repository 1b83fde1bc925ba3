------------------------- MODULE QueueSystemSafety --------------------------
(***************************************************************************)
(* Safety of the queue system, for any number of queues, agents and calls, *)
(* crashes of Dialers and schedulers included.  First, the lists of a      *)
(* scheduler never contradict each other: SchedulerConsistent is inductive *)
(* once the types are known, as a scheduler reads nothing but its own      *)
(* lists and a session that answers it changes the answer only.  Then,     *)
(* every agent has a way back: out of a reservation, and out of Busy and   *)
(* Wrap Up.                                                                *)
(***************************************************************************)
EXTENDS QueueSystemTypes

(* A list of available agents and the agents in flight fit together.       *)
Fit(av, inf) ==
  /\ IsInjective(av)
  /\ \A i \in 1..Len(av) : inf[av[i]] = None
  /\ \A a, b \in Agents : inf[a] = inf[b] /\ a # b => inf[a] = None

ConsistentAt(q) ==
  /\ Fit(available[q], in_flight[q])
  /\ pending[q].request = "attempt" =>
       \A a \in Agents : in_flight[q][a] # pending[q].call

(* A step of a scheduler is one of its own.                                *)
OtherQueuesSame(q) ==
  \A p \in Queues \ {q} :
    /\ available'[p] = available[p]
    /\ in_flight'[p] = in_flight[p]
    /\ pending'[p] = pending[p]

LEMMA ConsistentByQueue ==
  SchedulerConsistent <=> \A q \in Queues : ConsistentAt(q)
BY DEF SchedulerConsistent, ConsistentAt, Fit

----------------------------------------------------------------------------
(* What handlers do to the lists.                                          *)

LEMMA PutAvailableFits ==
  ASSUME NEW av \in Seq(Agents), NEW inf, NEW a \in Agents, Fit(av, inf),
         inf[a] = None
  PROVE  Fit(PutAvailable(av, a), inf)
<1>1. CASE Contains(av, a)
  BY <1>1 DEF PutAvailable
<1>2. CASE ~Contains(av, a)
  <2>1. PutAvailable(av, a) = Append(av, a)
    BY <1>2 DEF PutAvailable
  <2>2. /\ Len(Append(av, a)) = Len(av) + 1
        /\ Len(av) \in Nat
        /\ \A i \in 1..Len(av) : Append(av, a)[i] = av[i]
        /\ Append(av, a)[Len(av) + 1] = a
        /\ DOMAIN Append(av, a) = 1..(Len(av) + 1)
        /\ DOMAIN av = 1..Len(av)
    OBVIOUS
  <2>3. \A i \in 1..Len(av) : av[i] # a
    BY <1>2 DEF Contains
  <2>4. \A i \in 1..(Len(av) + 1) : i \in 1..Len(av) \/ i = Len(av) + 1
    BY <2>2
  <2>5. IsInjective(Append(av, a))
    BY <2>2, <2>3, <2>4 DEF Fit, IsInjective
  <2>6. \A i \in 1..Len(Append(av, a)) : inf[Append(av, a)[i]] = None
    BY <2>2, <2>4 DEF Fit
  <2> QED
    BY <2>1, <2>5, <2>6 DEF Fit
<1> QED
  BY <1>1, <1>2

LEMMA RemoveFits ==
  ASSUME NEW av \in Seq(Agents), NEW inf, NEW a, Fit(av, inf)
  PROVE  /\ Fit(RemoveFirst(av, a), inf)
         /\ \A i \in 1..Len(RemoveFirst(av, a)) : RemoveFirst(av, a)[i] # a
BY RemoveFirstIsSeq DEF Fit

LEMMA LandedFits ==
  ASSUME NEW av \in Seq(Agents), NEW inf \in [Agents -> Calls \union {None}],
         NEW a, Fit(av, inf)
  PROVE  Fit(av, [inf EXCEPT ![a] = None])
<1> DEFINE landed == [inf EXCEPT ![a] = None]
<1>1. \A b \in Agents : landed[b] \in {inf[b], None}
  OBVIOUS
<1>2. \A b \in Agents : landed[b] # None => landed[b] = inf[b]
  BY <1>1
<1>3. \A i \in 1..Len(av) : av[i] \in Agents
  OBVIOUS
<1> HIDE DEF landed
<1>4. \A i \in 1..Len(av) : landed[av[i]] = None
  BY <1>1, <1>3 DEF Fit
<1>5. \A b, c \in Agents : landed[b] = landed[c] /\ b # c => landed[b] = None
  BY <1>2 DEF Fit
<1> QED
  BY <1>4, <1>5 DEF Fit, landed

(* try_agents/3 takes the agent off the list and puts them in flight for a *)
(* call nobody is in flight for.                                           *)
LEMMA TakenFits ==
  ASSUME NEW av \in Seq(Agents), NEW inf \in [Agents -> Calls \union {None}],
         NEW a \in Agents, NEW c, Fit(av, inf), \A b \in Agents : inf[b] # c
  PROVE  Fit(RemoveFirst(av, a), [inf EXCEPT ![a] = c])
<1> DEFINE w == RemoveFirst(av, a)
           taken == [inf EXCEPT ![a] = c]
<1>1. /\ Fit(w, inf) /\ w \in Seq(Agents)
      /\ \A i \in 1..Len(w) : w[i] # a
  BY RemoveFits, RemoveFirstIsSeq
<1>2. taken[a] = c /\ \A b \in Agents \ {a} : taken[b] = inf[b]
  OBVIOUS
<1> HIDE DEF w, taken
<1>3. \A i \in 1..Len(w) : w[i] \in Agents \ {a}
  BY <1>1
<1>4. \A i \in 1..Len(w) : taken[w[i]] = None
  BY <1>1, <1>2, <1>3 DEF Fit
<1>5. \A b, d \in Agents : taken[b] = taken[d] /\ b # d => taken[b] = None
  BY <1>1, <1>2 DEF Fit
<1> QED
  BY <1>1, <1>4, <1>5 DEF Fit, w, taken

LEMMA ActiveAgentsInjective ==
  ASSUME NEW who \in SUBSET Agents, NEW loaded \in ActiveAgents(who)
  PROVE  loaded \in Seq(Agents) /\ IsInjective(loaded)
<1> DEFINE active == {a \in who : db[a] # "Logged Out"}
<1>1. active \in SUBSET Agents /\ ActiveAgents(who) = SetToSeqs(active)
  BY DEF ActiveAgents
<1> HIDE DEF active
<1> QED
  BY <1>1, QueueConstants, SetToSeqsOfSubset

----------------------------------------------------------------------------
(* How handlers end.                                                       *)

LEMMA StateAt ==
  ASSUME TypeOK, NEW q \in Queues, NEW w, NEW av, NEW inf, NEW last,
         SchedulerState(q, w, av, inf, last)
  PROVE  /\ available'[q] = av
         /\ in_flight'[q] = inf
         /\ \A p \in Queues \ {q} : /\ available'[p] = available[p]
                                    /\ in_flight'[p] = in_flight[p]
BY DEF TypeOK, SchedulerTypeOK, SchedulerState

LEMMA PendingAt ==
  ASSUME TypeOK, NEW q \in Queues, NEW k, pending' = [pending EXCEPT ![q] = k]
  PROVE  /\ pending'[q] = k
         /\ \A p \in Queues \ {q} : pending'[p] = pending[p]
BY DEF TypeOK, BoxesTypeOK

LEMMA IdleConsistent ==
  ASSUME TypeOK, NEW q \in Queues, NEW w, NEW av, NEW inf, NEW last,
         Fit(av, inf), SchedulerState(q, w, av, inf, last), GoIdle(q, agentBox)
  PROVE  ConsistentAt(q)' /\ OtherQueuesSame(q)
<1>1. pending'[q] = Idle /\ \A p \in Queues \ {q} : pending'[p] = pending[p]
  BY PendingAt DEF GoIdle
<1>2. Idle.request # "attempt"
  BY DEF Idle
<1> QED
  BY <1>1, <1>2, StateAt DEF ConsistentAt, OtherQueuesSame

LEMMA AskConsistent ==
  ASSUME TypeOK, NEW q \in Queues, NEW w, NEW av, NEW inf, NEW last, NEW c,
         NEW candidates, Fit(av, inf), \A a \in Agents : inf[a] # c,
         SchedulerState(q, w, av, inf, last),
         AskAgent(q, c, candidates, agentBox)
  PROVE  ConsistentAt(q)' /\ OtherQueuesSame(q)
<1> DEFINE k ==
             Asking("attempt", Head(candidates), c, Tail(candidates), "match")
<1>1. k.call = c
  BY DEF Asking
<1>2. pending' = [pending EXCEPT ![q] = k]
  BY DEF AskAgent
<1> HIDE DEF k
<1>3. pending'[q] = k /\ \A p \in Queues \ {q} : pending'[p] = pending[p]
  BY <1>2, PendingAt
<1> QED
  BY <1>1, <1>3, StateAt DEF ConsistentAt, OtherQueuesSame

LEMMA CancelConsistent ==
  ASSUME TypeOK, NEW q \in Queues, NEW a, NEW c, NEW after,
         Fit(available'[q], in_flight'[q]),
         \A p \in Queues \ {q} : /\ available'[p] = available[p]
                                 /\ in_flight'[p] = in_flight[p],
         AskCancel(q, a, c, after)
  PROVE  ConsistentAt(q)' /\ OtherQueuesSame(q)
<1> DEFINE k == Asking("cancel_attempt", a, c, <<>>, after)
<1>1. k.request # "attempt"
  BY DEF Asking
<1>2. pending' = [pending EXCEPT ![q] = k]
  BY DEF AskCancel
<1> HIDE DEF k
<1>3. pending'[q] = k /\ \A p \in Queues \ {q} : pending'[p] = pending[p]
  BY <1>2, PendingAt
<1> QED
  BY <1>1, <1>3 DEF ConsistentAt, OtherQueuesSame

(* do_match/1 asks about a call that nobody is in flight for.              *)
LEMMA MatchConsistent ==
  ASSUME TypeOK, NEW q \in Queues, NEW w \in Seq(Calls), NEW av, NEW inf,
         NEW last, NEW calls, Fit(av, inf),
         MaybeMatch(q, w, av, inf, last, calls)
  PROVE  ConsistentAt(q)' /\ OtherQueuesSame(q)
<1>1. SchedulerState(q, w, av, inf, last)
  BY DEF MaybeMatch
<1>2. CASE GoIdle(q, agentBox)
  BY <1>1, <1>2, IdleConsistent
<1>3. CASE \E i \in NextCallable(w, inf) : \E candidates :
             AskAgent(q, w[i], candidates, agentBox)
  <2>1. PICK i \in NextCallable(w, inf) : \E candidates :
               AskAgent(q, w[i], candidates, agentBox)
    BY <1>3
  <2>2. w[i] \in Calls /\ w[i] \notin InFlightCalls(inf)
    BY DEF NextCallable
  <2>3. \A a \in Agents : inf[a] # w[i]
    BY <2>2, QueueConstants DEF InFlightCalls
  <2> QED
    BY <1>1, <2>1, <2>3, AskConsistent
<1> QED
  BY <1>2, <1>3 DEF MaybeMatch
----------------------------------------------------------------------------
(* The actions of a scheduler.                                             *)

LEMMA DropAgentConsistent ==
  ASSUME TypeOK, NEW q \in Queues, NEW a \in Agents, NEW after,
         Fit(available[q], in_flight[q]), DropAgent(q, a, after)
  PROVE  ConsistentAt(q)' /\ OtherQueuesSame(q)
<1> DEFINE av == RemoveFirst(available[q], a)
<1>1. Fit(av, in_flight[q]) /\ waiting[q] \in Seq(Calls)
  BY RemoveFits DEF TypeOK, SchedulerTypeOK
<1>2. CASE \E c : /\ SchedulerState(q, waiting[q], av, in_flight[q],
                                    last_assigned[q])
                  /\ AskCancel(q, a, c, after)
  BY <1>1, <1>2, StateAt, CancelConsistent
<1>3. CASE MaybeMatch(q, waiting[q], av, in_flight[q], last_assigned[q], qc)
  BY <1>1, <1>3, MatchConsistent
<1>4. CASE /\ SchedulerState(q, waiting[q], av, in_flight[q], last_assigned[q])
           /\ GoIdle(q, agentBox)
  BY <1>1, <1>4, IdleConsistent
<1> QED
  BY <1>2, <1>3, <1>4 DEF DropAgent

LEMMA OfferedFits ==
  ASSUME TypeOK, NEW q \in Queues, NEW a \in Agents,
         Fit(available[q], in_flight[q])
  PROVE  Fit(Offered(q, a), in_flight[q])
BY PutAvailableFits DEF Offered, TypeOK, SchedulerTypeOK

LEMMA SchedulerStepConsistent ==
  ASSUME TypeOK, NEW q \in Queues, ConsistentAt(q), SchedulerStep(q)
  PROVE  ConsistentAt(q)' /\ OtherQueuesSame(q)
<1> DEFINE m == Head(schedBox[q])
           p == pending[q]
<1>1. /\ Fit(available[q], in_flight[q])
      /\ waiting[q] \in Seq(Calls)
      /\ available[q] \in Seq(Agents)
      /\ in_flight[q] \in [Agents -> Calls \union {None}]
  BY DEF TypeOK, SchedulerTypeOK, ConsistentAt
<1>2. CASE AddWaitingCall(q)
  <2>1. m.call \in Calls
    BY <1>2, HandlesType, SchedMsgFields DEF AddWaitingCall
  <2>2. Append(waiting[q], m.call) \in Seq(Calls)
    BY <1>1, <2>1
  <2> QED
    BY <1>1, <1>2, <2>2, MatchConsistent DEF AddWaitingCall
<1>3. CASE CallHungUp(q)
  <2>1. CASE \E a \in Agents : /\ AskCancel(q, a, m.call, "forget_call")
                               /\ UNCHANGED schedVars
    BY <1>1, <2>1, CancelConsistent DEF schedVars
  <2>2. CASE /\ SchedulerState(q, RemoveFirst(waiting[q], m.call), available[q],
                               in_flight[q], last_assigned[q])
             /\ GoIdle(q, agentBox)
    BY <1>1, <2>2, IdleConsistent
  <2> QED
    BY <1>3, <2>1, <2>2 DEF CallHungUp
<1>4. CASE AddMember(q)
  <2>1. m.agent \in Agents
    BY <1>4, HandlesType, SchedMsgFields DEF AddMember
  <2>2. Fit(Offered(q, m.agent), in_flight[q])
    BY <1>1, <2>1, OfferedFits
  <2> QED
    BY <1>1, <1>4, <2>2, MatchConsistent DEF AddMember
<1>5. CASE RemoveMember(q)
  <2>1. m.agent \in Agents
    BY <1>5, HandlesType, SchedMsgFields DEF RemoveMember
  <2> QED
    BY <1>1, <1>5, <2>1, DropAgentConsistent DEF RemoveMember
<1>6. CASE AttemptFinished(q)
  <2>1. StillWaiting(waiting[q], m.call, m.arg) \in Seq(Calls)
    BY <1>1, RemoveFirstIsSeq DEF StillWaiting
  <2>2. Fit(available[q], [in_flight[q] EXCEPT ![m.agent] = None])
    BY <1>1, LandedFits
  <2> QED
    BY <1>6, <2>1, <2>2, MatchConsistent DEF AttemptFinished
<1>7. CASE AgentAvailable(q)
  <2>1. m.agent \in Agents
    BY <1>7, HandlesType, SchedMsgFields DEF AgentAvailable
  <2>2. Fit(Offered(q, m.agent), in_flight[q])
    BY <1>1, <2>1, OfferedFits
  <2> QED
    BY <1>1, <1>7, <2>2, MatchConsistent DEF AgentAvailable
<1>8. CASE AgentLoggedOut(q)
  <2>1. m.agent \in Agents
    BY <1>8, HandlesType, SchedMsgFields DEF AgentLoggedOut
  <2> QED
    BY <1>1, <1>8, <2>1, DropAgentConsistent DEF AgentLoggedOut
<1>9. CASE AgentNotAvailable(q)
  <2>1. Fit(RemoveFirst(available[q], m.agent), in_flight[q])
    BY <1>1, RemoveFits
  <2> QED
    BY <1>1, <1>9, <2>1, MatchConsistent DEF AgentNotAvailable
<1>10. CASE AttemptAccepted(q)
  <2>1. p.agent \in Agents /\ p.request = "attempt"
    BY <1>10 DEF AttemptAccepted, TypeOK, BoxesTypeOK, Pending, Idle
  <2>2. \A a \in Agents : in_flight[q][a] # p.call
    BY <2>1 DEF ConsistentAt
  <2>3. Fit(RemoveFirst(available[q], p.agent),
            [in_flight[q] EXCEPT ![p.agent] = p.call])
    BY <1>1, <2>1, <2>2, TakenFits
  <2> QED
    BY <1>1, <1>10, <2>3, MatchConsistent DEF AttemptAccepted
<1>11. CASE AttemptDeclined(q)
  <2>1. \A a \in Agents : in_flight[q][a] # p.call
    BY <1>11 DEF AttemptDeclined, ConsistentAt
  <2>2. Fit(RemoveFirst(available[q], p.agent), in_flight[q])
    BY <1>1, RemoveFits
  <2> QED
    BY <1>11, <2>1, <2>2, IdleConsistent, AskConsistent DEF AttemptDeclined
<1>12. CASE AttemptCancelled(q)
  <2>1. Fit(available[q], [in_flight[q] EXCEPT ![p.agent] = None])
    BY <1>1, LandedFits
  <2> QED
    BY <1>1, <1>12, <2>1, MatchConsistent, IdleConsistent DEF AttemptCancelled
<1> QED
  BY <1>2, <1>3, <1>4, <1>5, <1>6, <1>7, <1>8, <1>9, <1>10, <1>11, <1>12
  DEF SchedulerStep

(* A restarted scheduler knows of nobody in flight.                        *)
LEMMA RestartConsistent ==
  ASSUME TypeOK, NEW q \in Queues, SchedulerRestarts(q)
  PROVE  ConsistentAt(q)' /\ OtherQueuesSame(q)
<1>1. PICK loaded \in ActiveAgents(members[q]) :
        SchedulerState(q, <<>>, loaded, NobodyInFlight, None)
  BY DEF SchedulerRestarts
<1>2. loaded \in Seq(Agents) /\ IsInjective(loaded)
  BY <1>1, ActiveAgentsInjective DEF TypeOK, SchedulerTypeOK
<1>3. Fit(loaded, NobodyInFlight)
  BY <1>2 DEF Fit, NobodyInFlight
<1> QED
  BY <1>1, <1>3, IdleConsistent DEF SchedulerRestarts

----------------------------------------------------------------------------
(* Everybody else.                                                         *)

(* An answer changes neither what was asked nor about which call.          *)
AnsweredOnly ==
  \A q \in Queues : /\ pending'[q].request = pending[q].request
                    /\ pending'[q].call = pending[q].call

LEMMA SessionAnswersOnly ==
  ASSUME TypeOK, NEW a \in Agents, SessionStep(a)
  PROVE  AnsweredOnly
<1>1. \A k \in Pending : \A answer :
        /\ [k EXCEPT !.answer = answer].request = k.request
        /\ [k EXCEPT !.answer = answer].call = k.call
  BY DEF Pending, Idle
<1>2. pending \in [Queues -> Pending]
  BY DEF TypeOK, BoxesTypeOK
<1>3. CASE UNCHANGED pending
  BY <1>3 DEF AnsweredOnly
<1>4. CASE \E m, answer : Answer(a, m, answer)
  <2>1. PICK m, answer : Answer(a, m, answer)
    BY <1>4
  <2>2. \/ pending' = pending
        \/ pending' = [pending EXCEPT ![m.queue] =
                          [pending[m.queue] EXCEPT !.answer = answer]]
    BY <2>1 DEF Answer
  <2> SUFFICES ASSUME NEW q \in Queues
               PROVE  /\ pending'[q].request = pending[q].request
                      /\ pending'[q].call = pending[q].call
    BY DEF AnsweredOnly
  <2>3. \/ pending'[q] = pending[q]
        \/ pending'[q] = [pending[q] EXCEPT !.answer = answer]
    BY <1>2, <2>2
  <2>4. CASE pending'[q] = pending[q]
    BY <2>4
  <2>5. CASE pending'[q] = [pending[q] EXCEPT !.answer = answer]
    <3>1. pending[q] \in Pending
      BY <1>2
    <3>2. /\ [pending[q] EXCEPT !.answer = answer].request = pending[q].request
          /\ [pending[q] EXCEPT !.answer = answer].call = pending[q].call
      BY <1>1, <3>1, Zenon
    <3> QED
      BY <2>5, <3>2, Zenon
  <2> QED
    BY <2>3, <2>4, <2>5
<1>5. \/ UNCHANGED pending
      \/ \E m, answer : Answer(a, m, answer)
  BY DEF SessionStep, AttemptRefused, AttemptStarts, CancelAttempt,
         QueueMemberAnswered, QueueMemberRejected, QueueMemberCallEnded,
         LateLegEvent, DialerMemberAnswered, DialerAnswered, DialerFailed,
         AttemptTimeout, BridgeTimeout, TimeOutAttempt, Unanswered, DialerDown,
         StaleReport, Ignore, RestoreAgent
<1> QED
  BY <1>3, <1>4, <1>5

LEMMA OthersKeepConsistent ==
  ASSUME SchedulerConsistent, AnsweredOnly, UNCHANGED <<available, in_flight>>
  PROVE  SchedulerConsistent'
BY DEF SchedulerConsistent, AnsweredOnly

LEMMA InitConsistent == Init => SchedulerConsistent
<1> SUFFICES ASSUME Init, NEW q \in Queues PROVE ConsistentAt(q)
  BY ConsistentByQueue
<1>1. members[q] \in SUBSET Agents /\ available[q] \in ActiveAgents(members[q])
  BY DEF Init
<1>2. available[q] \in Seq(Agents) /\ IsInjective(available[q])
  BY <1>1, ActiveAgentsInjective
<1>3. in_flight[q] = NobodyInFlight /\ pending[q] = Idle
  BY DEF Init
<1>4. Fit(available[q], NobodyInFlight)
  BY <1>2 DEF Fit, NobodyInFlight
<1> QED
  BY <1>3, <1>4 DEF ConsistentAt, Idle

LEMMA NextConsistent ==
  TypeInv /\ SchedulerConsistent /\ [Next]_vars => SchedulerConsistent'
<1> SUFFICES ASSUME TypeInv, SchedulerConsistent, [Next]_vars
             PROVE  SchedulerConsistent'
  OBVIOUS
<1>1. TypeOK
  BY DEF TypeInv
<1>2. ASSUME NEW q \in Queues, ConsistentAt(q)', OtherQueuesSame(q)
      PROVE  SchedulerConsistent'
  <2>1. \A p \in Queues : ConsistentAt(p)
    BY ConsistentByQueue
  <2>2. \A p \in Queues \ {q} : ConsistentAt(p)'
    BY <1>2, <2>1 DEF OtherQueuesSame, ConsistentAt
  <2> QED
    BY <1>2, <2>2 DEF SchedulerConsistent, ConsistentAt, Fit
<1>3. ASSUME NEW q \in Queues, SchedulerStep(q) PROVE SchedulerConsistent'
  BY <1>1, <1>2, <1>3, SchedulerStepConsistent, ConsistentByQueue
<1>4. ASSUME NEW a \in Agents, SessionStep(a), UNCHANGED NotSession
      PROVE  SchedulerConsistent'
  BY <1>1, <1>4, SessionAnswersOnly, OthersKeepConsistent
  DEF NotSession, schedVars
<1>5. ASSUME UNCHANGED <<pending, available, in_flight>>
      PROVE  SchedulerConsistent'
  BY <1>5 DEF SchedulerConsistent
<1>6. CASE Crash
  <2>1. ASSUME NEW q \in Queues, SchedulerRestarts(q) PROVE SchedulerConsistent'
    BY <1>1, <1>2, <2>1, RestartConsistent
  <2>2. ASSUME NEW r \in Res, DialerCrashes(r), UNCHANGED schedVars
        PROVE  SchedulerConsistent'
    BY <1>5, <2>2 DEF DialerCrashes, schedVars
  <2> QED
    BY <1>6, <2>1, <2>2 DEF Crash
<1>7. ASSUME NEW r \in Res, DialerStep(r) \/ LegStep(r), UNCHANGED NotDialer
      PROVE  SchedulerConsistent'
  BY <1>5, <1>7
  DEF DialerStep, LegStep, OriginateRejected, OriginateAnswered, UuidBridge,
      BridgeSucceeded, BridgeFails, DialerExits, Ring, LegAnswers, LegEnds,
      ForkEnds, HupallRuns, NotDialer, NotSession, schedVars
<1>8. ASSUME NEW a \in Agents,
             \/ RestoreTimerFires(a) /\ UNCHANGED NotSession
             \/ TimeOut(a)
      PROVE  SchedulerConsistent'
  BY <1>5, <1>8
  DEF RestoreTimerFires, TimeOut, AttemptTimerFires, NotSession, schedVars
<1>9. CASE Surroundings
  BY <1>5, <1>9
  DEF Surroundings, Enqueue, CustomerHangsUp, HangUpNoticed, RelayLegEvent,
      UserSets, JoinsQueue, LeavesQueue, ChangeMembers, boxVars, schedVars
<1>10. CASE UNCHANGED vars
  BY <1>5, <1>10 DEF vars, schedVars
<1> QED
  BY <1>3, <1>4, <1>6, <1>7, <1>8, <1>9, <1>10
  DEF Next, Surroundings, Quiescent

(* The scheduler's three views of an agent (list, in flight, asked about)  *)
(* never contradict each other, whatever order finished attempts, late     *)
(* ones, hang-ups, presence updates and restarts come in while it is       *)
(* blocked in try_agents/3 or drop_agent/3: no agent is on the list twice, *)
(* or on it and in flight, and no call is dialled for on two agents'       *)
(* accounts.                                                               *)
THEOREM SchedulersConsistent == Spec => []SchedulerConsistent
<1>1. TypeInv /\ SchedulerConsistent /\ [Next]_vars
        => (TypeInv /\ SchedulerConsistent)'
  BY NextType, NextConsistent
<1>2. Init => TypeInv /\ SchedulerConsistent
  BY InitType, InitConsistent
<1> QED
  BY <1>1, <1>2, PTL DEF Spec

----------------------------------------------------------------------------
(* Mailboxes only grow, but for the message a session handles.             *)

Kept(boxes, boxes2) ==
  \A b \in Agents : \A m : InBox(boxes[b], m) => InBox(boxes2[b], m)

KeptBut(a, gone) ==
  \A b \in Agents : \A m :
    InBox(agentBox[b], m) => (b = a /\ m = gone) \/ InBox(agentBox'[b], m)

LEMMA KeptByAppend ==
  ASSUME NEW S, NEW box \in Seq(S), NEW n \in S
  PROVE  /\ InBox(Append(box, n), n)
         /\ \A m : InBox(box, m) => InBox(Append(box, n), m)
<1> DEFINE longer == Append(box, n)
<1>1. /\ Len(longer) = Len(box) + 1 /\ Len(box) \in Nat
      /\ longer[Len(box) + 1] = n
      /\ \A i \in 1..Len(box) : longer[i] = box[i]
  OBVIOUS
<1> HIDE DEF longer
<1>2. /\ Len(box) + 1 \in 1..Len(longer)
      /\ \A i \in 1..Len(box) : i \in 1..Len(longer)
  BY <1>1
<1>3. InBox(longer, n)
  BY <1>1, <1>2 DEF InBox
<1>4. \A m : InBox(box, m) => InBox(longer, m)
  BY <1>1, <1>2 DEF InBox
<1> QED
  BY <1>3, <1>4 DEF longer

LEMMA KeptByToAgent ==
  ASSUME NEW boxes \in [Agents -> Seq(AgentMsg)], NEW a, NEW n
  PROVE  /\ Kept(boxes, ToAgent(boxes, a, n))
         /\ a \in Agents => InBox(ToAgent(boxes, a, n)[a], n)
<1>1. ASSUME NEW b \in Agents, b # a PROVE ToAgent(boxes, a, n)[b] = boxes[b]
  BY <1>1 DEF ToAgent
<1>2. ASSUME a \in Agents PROVE ToAgent(boxes, a, n)[a] = Append(boxes[a], n)
  BY <1>2 DEF ToAgent
<1>3. ASSUME NEW b \in Agents
      PROVE  /\ InBox(Append(boxes[b], n), n)
             /\ \A m : InBox(boxes[b], m) => InBox(Append(boxes[b], n), m)
  <2> DEFINE S == AgentMsg \union {n}
  <2>1. boxes[b] \in Seq(AgentMsg) /\ AgentMsg \subseteq S /\ n \in S
    OBVIOUS
  <2> HIDE DEF S
  <2>2. boxes[b] \in Seq(S)
    BY <2>1
  <2> QED
    BY <2>1, <2>2, KeptByAppend
<1>4. ASSUME NEW b \in Agents, NEW m, InBox(boxes[b], m)
      PROVE  InBox(ToAgent(boxes, a, n)[b], m)
  BY <1>1, <1>2, <1>3, <1>4
<1>5. a \in Agents => InBox(ToAgent(boxes, a, n)[a], n)
  BY <1>2, <1>3
<1> QED
  BY <1>4, <1>5 DEF Kept

LEMMA KeptByTail ==
  ASSUME NEW box \in Seq(AgentMsg), box # <<>>, NEW m, InBox(box, m)
  PROVE  m = Head(box) \/ InBox(Tail(box), m)
<1>1. PICK i \in 1..Len(box) : box[i] = m
  BY DEF InBox
<1>2. CASE i = 1
  BY <1>1, <1>2
<1>3. CASE i # 1
  <2>1. i - 1 \in 1..Len(Tail(box)) /\ Tail(box)[i - 1] = box[i]
    BY <1>3
  <2> QED
    BY <1>1, <2>1 DEF InBox
<1> QED
  BY <1>2, <1>3

LEMMA KeptByRest ==
  ASSUME TypeOK, NEW a \in Agents, agentBox[a] # <<>>, NEW b \in Agents, NEW m,
         InBox(agentBox[b], m)
  PROVE  (b = a /\ m = Head(agentBox[a])) \/ InBox(Rest(a)[b], m)
<1>1. agentBox \in [Agents -> Seq(AgentMsg)]
  BY DEF TypeOK, BoxesTypeOK
<1>2. CASE b = a
  <2>1. Rest(a)[a] = Tail(agentBox[a])
    BY <1>1 DEF Rest
  <2> QED
    BY <1>1, <1>2, <2>1, KeptByTail
<1>3. CASE b # a
  BY <1>1, <1>3 DEF Rest
<1> QED
  BY <1>2, <1>3

LEMMA SessionTakes ==
  ASSUME TypeInv, NEW a \in Agents, SessionStep(a)
  PROVE  KeptBut(a, Head(agentBox[a])) /\ agentBox[a] # <<>>
<1>1. TypeOK /\ agentBox[a] # <<>>
  BY DEF TypeInv, SessionStep, AttemptRefused, AttemptStarts, CancelAttempt,
         QueueMemberAnswered, QueueMemberRejected, QueueMemberCallEnded,
         LateLegEvent, DialerMemberAnswered, DialerAnswered, DialerFailed,
         AttemptTimeout, BridgeTimeout, DialerDown, StaleReport, RestoreAgent,
         Takes
<1>2. CASE agentBox' = Rest(a)
  BY <1>1, <1>2, KeptByRest DEF KeptBut
<1>3. CASE DialerDown(a) /\ reservation[a] # NoRes
  <2> DEFINE n == Report("dialer_failed", reservation[a])
  <2>1. agentBox' = ToAgent(Rest(a), a, n)
    BY <1>3 DEF DialerDown
  <2>2. Rest(a) \in [Agents -> Seq(AgentMsg)]
    BY <1>1, FirstMessage
  <2> HIDE DEF n
  <2>3. Kept(Rest(a), agentBox')
    BY <2>1, <2>2, KeptByToAgent
  <2> QED
    BY <1>1, <2>3, KeptByRest DEF Kept, KeptBut
<1> QED
  BY <1>1, <1>2, <1>3
  DEF SessionStep, AttemptRefused, AttemptStarts, CancelAttempt,
      QueueMemberAnswered, QueueMemberRejected, QueueMemberCallEnded,
      LateLegEvent, DialerMemberAnswered, DialerAnswered, DialerFailed,
      AttemptTimeout, BridgeTimeout, TimeOutAttempt, DialerDown, StaleReport,
      Ignore, RestoreAgent

(* All other steps only put messages into mailboxes.                       *)
Posts == agentBox' = agentBox \/ \E x, n : agentBox' = ToAgent(agentBox, x, n)

LEMMA PostsKeep ==
  ASSUME TypeOK, Posts
  PROVE  Kept(agentBox, agentBox')
BY KeptByToAgent DEF Posts, Kept, TypeOK, BoxesTypeOK

LEMMA SchedulerPosts ==
  ASSUME NEW q \in Queues, SchedulerStep(q) \/ SchedulerRestarts(q)
  PROVE  Posts
<1>1. ASSUME NEW c, NEW candidates, AskAgent(q, c, candidates, agentBox)
      PROVE  Posts
  BY <1>1 DEF AskAgent, Posts
<1>2. ASSUME NEW a, NEW c, NEW after, AskCancel(q, a, c, after) PROVE Posts
  BY <1>2 DEF AskCancel, Posts
<1>3. ASSUME GoIdle(q, agentBox) PROVE Posts
  BY <1>3 DEF GoIdle, Posts
<1>4. ASSUME NEW w, NEW av, NEW inf, NEW last, NEW calls,
             MaybeMatch(q, w, av, inf, last, calls)
      PROVE  Posts
  BY <1>1, <1>3, <1>4 DEF MaybeMatch
<1>5. ASSUME NEW a, NEW after, DropAgent(q, a, after) PROVE Posts
  BY <1>2, <1>3, <1>4, <1>5 DEF DropAgent
<1>6. CASE AddWaitingCall(q)
  BY <1>4, <1>6 DEF AddWaitingCall
<1>7. CASE CallHungUp(q)
  BY <1>2, <1>3, <1>7 DEF CallHungUp
<1>8. CASE AddMember(q)
  BY <1>4, <1>8 DEF AddMember
<1>9. CASE RemoveMember(q) \/ AgentLoggedOut(q)
  BY <1>5, <1>9 DEF RemoveMember, AgentLoggedOut
<1>10. CASE AttemptFinished(q) \/ AgentAvailable(q) \/ AgentNotAvailable(q)
  BY <1>4, <1>10 DEF AttemptFinished, AgentAvailable, AgentNotAvailable
<1>11. CASE AttemptAccepted(q)
  BY <1>4, <1>11 DEF AttemptAccepted
<1>12. CASE AttemptDeclined(q)
  BY <1>1, <1>3, <1>12 DEF AttemptDeclined
<1>13. CASE AttemptCancelled(q)
  BY <1>3, <1>4, <1>13 DEF AttemptCancelled
<1>14. CASE SchedulerRestarts(q)
  BY <1>3, <1>14 DEF SchedulerRestarts
<1> QED
  BY <1>6, <1>7, <1>8, <1>9, <1>10, <1>11, <1>12, <1>13, <1>14
  DEF SchedulerStep

LEMMA DialersPost ==
  ASSUME NEW r \in Res, DialerStep(r) \/ LegStep(r) \/ DialerCrashes(r)
  PROVE  Posts
BY DEF Posts, DialerStep, LegStep, OriginateRejected, OriginateAnswered,
       UuidBridge, BridgeSucceeded, BridgeFails, DialerExits, DialerCrashes,
       Down, Ring, LegAnswers, LegEnds, ForkEnds, HupallRuns, boxVars

LEMMA SurroundingsPost ==
  ASSUME Surroundings
  PROVE  Posts
BY DEF Posts, Surroundings, Enqueue, CustomerHangsUp, HangUpNoticed,
       RelayLegEvent, UserSets, JoinsQueue, LeavesQueue, ChangeMembers, boxVars

LEMMA TimersPost ==
  ASSUME NEW a \in Agents, RestoreTimerFires(a) \/ AttemptTimerFires(a)
  PROVE  Posts
BY DEF Posts, RestoreTimerFires, AttemptTimerFires

----------------------------------------------------------------------------
(* Out of a reservation.                                                   *)

(* A message in the mailbox of a, reserved for r, that will end it.        *)
Ends(a, r, m) ==
  /\ m.res = r
  /\ \/ m.type \in {"dialer_answered", "dialer_failed"}
     \/ m.type = "DOWN" /\ dialer[a] = r

HasResolver(a) ==
  reservation[a] # NoRes =>
    \/ dialer[a] = reservation[a] /\ Running(reservation[a])
    \/ \E m : InBox(agentBox[a], m) /\ Ends(a, reservation[a], m)

LEMMA ResolverByAgent ==
  ReservationHasResolver <=> \A a \in Agents : HasResolver(a)
BY DEF ReservationHasResolver, HasResolver, Ends, InBox

LEMMA StillHasResolver ==
  ASSUME NEW a \in Agents, HasResolver(a),
         reservation'[a] = reservation[a], dialer'[a] = dialer[a],
         reservation[a] # NoRes /\ Running(reservation[a])
           => att'[reservation[a]].dial \in {"originate", "bridge"},
         \A m : InBox(agentBox[a], m) /\ Ends(a, reservation[a], m)
                  => InBox(agentBox'[a], m)
  PROVE  HasResolver(a)'
BY DEF HasResolver, Ends, Running

(* A Dialer goes on with what it is doing.                                 *)
SameDial == \A r \in Res : att'[r].dial = att[r].dial

LEMMA SessionSameDial ==
  ASSUME TypeInv, NEW a \in Agents, SessionStep(a) \/ AttemptTimerFires(a),
         ~AttemptStarts(a)
  PROVE  SameDial
<1>1. att \in [Res -> Attempt] /\ dialer[a] \in 0..MaxRes
  BY DEF TypeInv, TypeOK, DialerTypeOK
<1>2. \A k \in Attempt :
        /\ \A t : [k EXCEPT !.timer = t].dial = k.dial
        /\ [k EXCEPT !.timer = "off", !.cancelled = TRUE].dial = k.dial
        /\ \A b : [k EXCEPT !.hupall = TRUE, !.cancelled = b].dial = k.dial
  BY DEF Attempt
<1>3. ASSUME NEW s, NEW k, att' = [att EXCEPT ![s] = k],
             s \in Res => k.dial = att[s].dial
      PROVE  SameDial
  <2>1. ASSUME NEW r \in Res PROVE att'[r].dial = att[r].dial
    BY <1>1, <1>3
  <2> QED
    BY <2>1 DEF SameDial
<1>4. CASE UNCHANGED att
  BY <1>4 DEF SameDial
<1>5. CASE CancelAttempt(a) /\ att' # att
  <2> DEFINE s == reservation[a]
             k == [att[s] EXCEPT !.hupall = TRUE,
                                 !.cancelled = @ \/ dialer[a] # NoRes]
  <2>1. att' = [att EXCEPT ![s] = k]
    BY <1>1, <1>5 DEF CancelAttempt
  <2>2. s \in Res => k.dial = att[s].dial
    BY <1>1, <1>2
  <2> HIDE DEF k
  <2> QED
    BY <1>3, <2>1, <2>2
<1>6. CASE \E s, t : att' = [att EXCEPT ![s].timer = t]
  <2>1. PICK s, t : att' = [att EXCEPT ![s].timer = t]
    BY <1>6
  <2>2. att' = [att EXCEPT ![s] = [att[s] EXCEPT !.timer = t]]
    BY <2>1
  <2> QED
    BY <1>1, <1>2, <1>3, <2>2
<1>7. CASE \E s : att' = [att EXCEPT ![s].timer = "off", ![s].cancelled = TRUE]
  <2>1. PICK s : att' = [att EXCEPT ![s].timer = "off", ![s].cancelled = TRUE]
    BY <1>7
  <2>2. att' = [att EXCEPT ![s] = [att[s] EXCEPT !.timer = "off",
                                                 !.cancelled = TRUE]]
    BY <1>1, <2>1
  <2> QED
    BY <1>1, <1>2, <1>3, <2>2
<1>8. CASE AttemptTimeout(a) \/ BridgeTimeout(a)
  BY <1>4, <1>7, <1>8
  DEF AttemptTimeout, BridgeTimeout, TimeOutAttempt, Unanswered
<1>9. CASE \/ DialerMemberAnswered(a) \/ DialerAnswered(a) \/ DialerFailed(a)
           \/ AttemptTimerFires(a)
  BY <1>4, <1>6, <1>9
  DEF DialerMemberAnswered, DialerAnswered, DialerFailed, Unanswered, TimerOff,
      Backstop, AttemptTimerFires
<1>10. CASE CancelAttempt(a) /\ att' = att
  BY <1>4, <1>10
<1>11. CASE \/ AttemptRefused(a) \/ QueueMemberAnswered(a)
            \/ QueueMemberRejected(a) \/ QueueMemberCallEnded(a)
            \/ LateLegEvent(a) \/ DialerDown(a) \/ StaleReport(a)
            \/ RestoreAgent(a)
  BY <1>4, <1>11
  DEF AttemptRefused, QueueMemberAnswered, QueueMemberRejected,
      QueueMemberCallEnded, LateLegEvent, DialerDown, StaleReport, RestoreAgent,
      Ignore, attemptVars
<1> QED
  BY <1>5, <1>8, <1>9, <1>10, <1>11 DEF SessionStep

(* Only AttemptStarts makes a reservation, and it starts the Dialer too.   *)
LEMMA SessionResolves ==
  ASSUME TypeInv, NEW a \in Agents, SessionStep(a), ReservationHasResolver
  PROVE  ReservationHasResolver'
<1>1. TypeOK /\ AttemptsStarted /\ \A b \in Agents : HasResolver(b)
  BY ResolverByAgent DEF TypeInv
<1>2. KeptBut(a, Head(agentBox[a])) /\ agentBox[a] # <<>>
  BY SessionTakes
<1>3. \A b \in Agents \ {a} :
        reservation'[b] = reservation[b] /\ dialer'[b] = dialer[b]
  BY <1>1
  DEF TypeOK, DialerTypeOK, AgentSessionTypeOK, SessionStep, AttemptRefused,
      AttemptStarts, CancelAttempt, QueueMemberAnswered, QueueMemberRejected,
      QueueMemberCallEnded, LateLegEvent, DialerMemberAnswered, DialerAnswered,
      DialerFailed, AttemptTimeout, BridgeTimeout, TimeOutAttempt, Unanswered,
      DialerDown, StaleReport, Ignore, RestoreAgent, ClearReservation,
      attemptVars, sessionVars
<1>4. ASSUME NEW b \in Agents \ {a} PROVE HasResolver(b)'
  <2>1. \A m : InBox(agentBox[b], m) => InBox(agentBox'[b], m)
    BY <1>2 DEF KeptBut
  <2>2. ASSUME reservation[b] # NoRes, Running(reservation[b])
        PROVE  att'[reservation[b]].dial \in {"originate", "bridge"}
    <3>1. reservation[b] < next_res /\ reservation[b] \in Res
      BY <1>1, <2>2, QueueConstants
      DEF AttemptsStarted, StartedFor, TypeOK, AgentSessionTypeOK, Res, NoRes
    <3>2. CASE AttemptStarts(a)
      <4>1. att'[reservation[b]] = att[reservation[b]]
        BY <1>1, <3>1, <3>2 DEF AttemptStarts, TypeOK, DialerTypeOK
      <4> QED
        BY <2>2, <4>1 DEF Running
    <3>3. CASE ~AttemptStarts(a)
      BY <2>2, <3>1, <3>3, SessionSameDial DEF SameDial, Running
    <3> QED
      BY <3>2, <3>3
  <2> QED
    BY <1>1, <1>3, <2>1, <2>2, StillHasResolver
<1>5. HasResolver(a)'
  <2>1. CASE AttemptStarts(a)
    <3>1. /\ reservation'[a] = next_res /\ dialer'[a] = next_res
          /\ next_res \in Res
          /\ att'[next_res] = NewAttempt(a, Head(agentBox[a]).queue,
                                         Head(agentBox[a]).call)
      BY <1>1, <2>1
      DEF AttemptStarts, TypeOK, DialerTypeOK, AgentSessionTypeOK
    <3>2. att'[next_res].dial = "originate"
      BY <3>1 DEF NewAttempt, NoAttempt
    <3> QED
      BY <3>1, <3>2 DEF HasResolver, Running
  <2>2. CASE reservation'[a] = NoRes
    BY <2>2 DEF HasResolver
  <2>3. CASE /\ ~AttemptStarts(a)
             /\ UNCHANGED <<reservation, dialer>>
             /\ ~Ends(a, reservation[a], Head(agentBox[a]))
    <3>1. \A m : InBox(agentBox[a], m) /\ Ends(a, reservation[a], m)
                  => InBox(agentBox'[a], m)
      BY <1>2, <2>3 DEF KeptBut
    <3>2. reservation[a] # NoRes => reservation[a] \in Res
      BY <1>1, QueueConstants DEF TypeOK, AgentSessionTypeOK, Res, NoRes
    <3>3. reservation[a] # NoRes /\ Running(reservation[a])
            => att'[reservation[a]].dial \in {"originate", "bridge"}
      BY <2>3, <3>2, SessionSameDial DEF SameDial, Running
    <3> QED
      BY <1>1, <2>3, <3>1, <3>3, StillHasResolver
  <2>4. CASE DialerDown(a) /\ reservation[a] # NoRes
    <3> DEFINE n == Report("dialer_failed", reservation[a])
    <3>1. agentBox' = ToAgent(Rest(a), a, n) /\ reservation' = reservation
      BY <2>4 DEF DialerDown, sessionVars
    <3>2. Rest(a) \in [Agents -> Seq(AgentMsg)]
      BY <1>1, <1>2, FirstMessage
    <3>3. InBox(agentBox'[a], n)
      BY <3>1, <3>2, KeptByToAgent
    <3>4. n.res = reservation[a] /\ n.type = "dialer_failed"
      BY DEF Report
    <3> HIDE DEF n
    <3> QED
      BY <3>1, <3>3, <3>4 DEF HasResolver, Ends
  <2>5. CASE \/ CancelAttempt(a) /\ reservation' # reservation
             \/ DialerAnswered(a) \/ DialerFailed(a) \/ AttemptTimeout(a)
             \/ BridgeTimeout(a) \/ (DialerDown(a) /\ reservation[a] = NoRes)
    BY <1>1, <2>2, <2>5
    DEF CancelAttempt, DialerAnswered, DialerFailed, AttemptTimeout,
        BridgeTimeout, TimeOutAttempt, Unanswered, DialerDown, ClearReservation,
        TypeOK, AgentSessionTypeOK, sessionVars
  <2>6. CASE \/ AttemptRefused(a) \/ QueueMemberAnswered(a)
             \/ QueueMemberRejected(a) \/ QueueMemberCallEnded(a)
             \/ LateLegEvent(a) \/ DialerMemberAnswered(a) \/ RestoreAgent(a)
             \/ CancelAttempt(a) /\ reservation' = reservation
    <3>1. UNCHANGED <<reservation, dialer>>
      BY <2>6
      DEF AttemptRefused, QueueMemberAnswered, QueueMemberRejected,
          QueueMemberCallEnded, LateLegEvent, DialerMemberAnswered,
          RestoreAgent, CancelAttempt, Ignore, attemptVars, sessionVars
    <3>2. Head(agentBox[a]).type
            \notin {"dialer_answered", "dialer_failed", "DOWN"}
      BY <2>6
      DEF AttemptRefused, QueueMemberAnswered, QueueMemberRejected,
          QueueMemberCallEnded, LateLegEvent, DialerMemberAnswered,
          RestoreAgent, CancelAttempt, Takes
    <3>3. ~AttemptStarts(a) \/ AttemptStarts(a)
      OBVIOUS
    <3> QED
      BY <2>1, <2>3, <3>1, <3>2, <3>3 DEF Ends
  <2>7. CASE StaleReport(a)
    <3>1. UNCHANGED <<reservation, dialer>>
      BY <2>7 DEF StaleReport, Ignore, attemptVars, sessionVars
    <3>2. reservation[a] # NoRes => ~Ends(a, reservation[a], Head(agentBox[a]))
      BY <2>7 DEF StaleReport, Current, Ends
    <3> QED
      BY <2>1, <2>2, <2>3, <3>1, <3>2
  <2>8. \/ AttemptStarts(a)
        \/ DialerDown(a) /\ reservation[a] # NoRes
        \/ \/ CancelAttempt(a) /\ reservation' # reservation
           \/ DialerAnswered(a) \/ DialerFailed(a) \/ AttemptTimeout(a)
           \/ BridgeTimeout(a) \/ (DialerDown(a) /\ reservation[a] = NoRes)
        \/ \/ AttemptRefused(a) \/ QueueMemberAnswered(a)
           \/ QueueMemberRejected(a) \/ QueueMemberCallEnded(a)
           \/ LateLegEvent(a) \/ DialerMemberAnswered(a) \/ RestoreAgent(a)
           \/ CancelAttempt(a) /\ reservation' = reservation
        \/ StaleReport(a)
    BY DEF SessionStep
  <2> QED
    BY <2>1, <2>4, <2>5, <2>6, <2>7, <2>8
<1>6. \A b \in Agents : HasResolver(b)'
  BY <1>4, <1>5
<1> QED
  BY <1>6 DEF ReservationHasResolver, HasResolver, Ends, InBox

LEMMA PostsResolve ==
  ASSUME TypeInv, ReservationHasResolver, Posts,
         UNCHANGED <<reservation, dialer>>, SameDial
  PROVE  ReservationHasResolver'
<1>1. TypeOK /\ \A b \in Agents : HasResolver(b)
  BY ResolverByAgent DEF TypeInv
<1>2. Kept(agentBox, agentBox')
  BY <1>1, PostsKeep
<1>3. ASSUME NEW b \in Agents PROVE HasResolver(b)'
  <2>1. reservation[b] # NoRes => reservation[b] \in Res
    BY <1>1, QueueConstants DEF TypeOK, AgentSessionTypeOK, Res, NoRes
  <2> QED
    BY <1>1, <1>2, <2>1, StillHasResolver DEF Kept, SameDial, Running
<1> QED
  BY <1>3 DEF ReservationHasResolver, HasResolver, Ends, InBox

LEMMA DialOfAttempt ==
  ASSUME NEW k \in Attempt
  PROVE  /\ \A d : [k EXCEPT !.dial = d].dial = d
         /\ \A l : [k EXCEPT !.leg = l].dial = k.dial
         /\ \A f : [k EXCEPT !.fork = f].dial = k.dial
         /\ \A l, f : [[k EXCEPT !.leg = l] EXCEPT !.fork = f].dial = k.dial
         /\ [Hupall(k) EXCEPT !.hupall = FALSE].dial = k.dial
<1>1. \A l, f, h :
        [[[k EXCEPT !.leg = l] EXCEPT !.fork = f] EXCEPT !.hupall = h].dial
          = k.dial
  BY DEF Attempt
<1>2. \E l, f : Hupall(k) = [[k EXCEPT !.leg = l] EXCEPT !.fork = f]
  BY DEF Hupall, Attempt
<1>3. [Hupall(k) EXCEPT !.hupall = FALSE].dial = k.dial
  BY <1>1, <1>2
<1> QED
  BY <1>3 DEF Attempt

(* Legs come and go without the Dialer.                                    *)
LEMMA LegsSameDial ==
  ASSUME TypeInv, NEW r \in Res, LegStep(r)
  PROVE  SameDial
<1>1. att \in [Res -> Attempt] /\ att[r] \in Attempt
  BY DEF TypeInv, TypeOK, DialerTypeOK
<1>2. ASSUME NEW k, att' = [att EXCEPT ![r] = k], k.dial = att[r].dial
      PROVE  SameDial
  BY <1>1, <1>2 DEF SameDial
<1>3. CASE Ring(r)
  <2> DEFINE f == IF SecondLeg THEN "ringing" ELSE "gone"
             k == [[att[r] EXCEPT !.leg = "ringing"] EXCEPT !.fork = f]
  <2>1. att' = [att EXCEPT ![r] = k]
    BY <1>1, <1>3 DEF Ring
  <2>2. k.dial = att[r].dial
    BY <1>1, DialOfAttempt
  <2> HIDE DEF k
  <2> QED
    BY <1>2, <2>1, <2>2
<1>4. CASE LegAnswers(r) \/ LegEnds(r)
  <2>1. PICK l : att' = [att EXCEPT ![r] = [att[r] EXCEPT !.leg = l]]
    BY <1>4 DEF LegAnswers, LegEnds
  <2> QED
    BY <1>1, <1>2, <2>1, DialOfAttempt
<1>5. CASE ForkEnds(r)
  BY <1>1, <1>2, <1>5, DialOfAttempt DEF ForkEnds
<1>6. CASE HupallRuns(r)
  BY <1>1, <1>2, <1>6, DialOfAttempt DEF HupallRuns
<1> QED
  BY <1>3, <1>4, <1>5, <1>6 DEF LegStep

LEMMA BridgeSameDial ==
  ASSUME TypeInv, NEW r \in Res, UuidBridge(r)
  PROVE  SameDial
<1>1. att \in [Res -> Attempt]
  BY DEF TypeInv, TypeOK, DialerTypeOK
<1>2. \A s \in Res : \E l : att'[s] \in {att[s], [att[s] EXCEPT !.leg = l]}
  BY DEF UuidBridge
<1>3. \A k \in Attempt : \A l : [k EXCEPT !.leg = l].dial = k.dial
  BY DialOfAttempt
<1> SUFFICES ASSUME NEW s \in Res PROVE att'[s].dial = att[s].dial
  BY DEF SameDial
<1>4. att[s] \in Attempt /\ \A l : [att[s] EXCEPT !.leg = l].dial = att[s].dial
  BY <1>1, <1>3
<1>5. PICK l : att'[s] \in {att[s], [att[s] EXCEPT !.leg = l]}
  BY <1>2
<1> QED
  BY <1>4, <1>5

(* A Dialer that stops working has told the agent it dials, or its exit    *)
(* does if the session monitors it.                                        *)
LEMMA DialerTells ==
  ASSUME TypeInv, NEW r \in Res, DialerStep(r) \/ DialerCrashes(r),
         ~UuidBridge(r)
  PROVE  /\ \A s \in Res \ {r} : att'[s].dial = att[s].dial
         /\ \/ ~Running(r)
            \/ att'[r].dial = "bridge"
            \/ \E type \in {"dialer_failed", "dialer_answered"} :
                 agentBox' = ToAgent(agentBox, att[r].agent, Report(type, r))
            \/ agentBox' = Down(r)
<1>1. att \in [Res -> Attempt] /\ att[r] \in Attempt
  BY DEF TypeInv, TypeOK, DialerTypeOK
<1>2. \E k : att' = [att EXCEPT ![r] = k]
  <2>1. CASE BridgeFails(r)
    <3>1. att' = [att EXCEPT ![r] = [att[r] EXCEPT !.dial = "failing",
                                                   !.leg = Ended(@)]]
      BY <1>1, <2>1 DEF BridgeFails
    <3> QED
      BY <3>1
  <2>2. CASE DialerExits(r) /\ att[r].dial = "failing"
    BY <2>2 DEF DialerExits
  <2>3. CASE \E d : att' = [att EXCEPT ![r].dial = d]
    BY <2>3
  <2>4. CASE \/ OriginateRejected(r) \/ OriginateAnswered(r)
             \/ BridgeSucceeded(r) \/ DialerCrashes(r)
             \/ DialerExits(r) /\ att[r].dial # "failing"
    BY <2>3, <2>4
    DEF OriginateRejected, OriginateAnswered, BridgeSucceeded, DialerCrashes,
        DialerExits
  <2> QED
    BY <2>1, <2>2, <2>4 DEF DialerStep
<1>3. \A s \in Res \ {r} : att'[s].dial = att[s].dial
  BY <1>1, <1>2
<1>4. CASE OriginateAnswered(r)
  <2>1. att' = [att EXCEPT ![r] = [att[r] EXCEPT !.dial = "bridge"]]
    BY <1>4 DEF OriginateAnswered
  <2>2. att'[r].dial = "bridge"
    BY <1>1, <2>1, DialOfAttempt
  <2> QED
    BY <1>3, <2>2
<1>5. CASE OriginateRejected(r) \/ BridgeSucceeded(r) \/ BridgeFails(r)
  BY <1>3, <1>5 DEF OriginateRejected, BridgeSucceeded, BridgeFails
<1>6. CASE DialerExits(r) \/ DialerCrashes(r)
  BY <1>3, <1>6 DEF DialerExits, DialerCrashes
<1> QED
  BY <1>4, <1>5, <1>6 DEF DialerStep

(* The agent a Dialer dials is the one that is reserved for it.            *)
LEMMA DialerResolves ==
  ASSUME TypeInv, NEW r \in Res, DialerStep(r) \/ DialerCrashes(r),
         UNCHANGED sessionVars, ReservationHasResolver
  PROVE  ReservationHasResolver'
<1>1. /\ TypeOK /\ AttemptsStarted /\ \A b \in Agents : HasResolver(b)
      /\ agentBox \in [Agents -> Seq(AgentMsg)]
  BY ResolverByAgent DEF TypeInv, TypeOK, BoxesTypeOK
<1>2. Kept(agentBox, agentBox')
  BY <1>1, DialersPost, PostsKeep
<1>3. UNCHANGED <<reservation, dialer>>
  BY DEF DialerStep, OriginateRejected, OriginateAnswered, UuidBridge,
         BridgeSucceeded, BridgeFails, DialerExits, DialerCrashes, sessionVars
<1>4. CASE UuidBridge(r)
  BY <1>3, <1>4, BridgeSameDial, DialersPost, PostsResolve
<1>5. CASE ~UuidBridge(r)
  <2> SUFFICES ASSUME NEW b \in Agents, reservation[b] # NoRes
               PROVE  HasResolver(b)'
    BY <1>3 DEF ReservationHasResolver, HasResolver, Ends, InBox
  <2> DEFINE s == reservation[b]
             runs == att'[s].dial \in {"originate", "bridge"}
  <2>1. s \in Res /\ att[s].agent = b
    BY <1>1, QueueConstants
    DEF AttemptsStarted, StartedFor, TypeOK, AgentSessionTypeOK, Res, NoRes
  <2>2. \A m : InBox(agentBox[b], m) => InBox(agentBox'[b], m)
    BY <1>2 DEF Kept
  <2>3. CASE Running(s) => runs
    BY <1>1, <1>3, <2>2, <2>3, StillHasResolver
  <2>4. CASE Running(s) /\ ~runs /\ dialer[b] # s
    BY <1>1, <1>3, <2>2, <2>4 DEF HasResolver, Ends
  <2>5. CASE Running(s) /\ ~runs /\ dialer[b] = s
    <3>1. s = r
      BY <1>5, <2>1, <2>5, DialerTells DEF Running
    <3>2. PICK type \in {"dialer_failed", "dialer_answered", "DOWN"} :
            agentBox' = ToAgent(agentBox, b, Report(type, s))
      BY <1>5, <2>1, <2>5, <3>1, DialerTells DEF Down
    <3>3. InBox(agentBox'[b], Report(type, s))
      BY <1>1, <3>2, KeptByToAgent
    <3>4. Report(type, s).res = s /\ Report(type, s).type = type
      BY DEF Report
    <3> QED
      BY <1>3, <2>5, <3>3, <3>4 DEF HasResolver, Ends
  <2> QED
    BY <2>3, <2>4, <2>5
<1> QED
  BY <1>4, <1>5

LEMMA NextResolves ==
  TypeInv /\ ReservationHasResolver /\ [Next]_vars => ReservationHasResolver'
<1> SUFFICES ASSUME TypeInv, ReservationHasResolver, [Next]_vars
             PROVE  ReservationHasResolver'
  OBVIOUS
<1>1. ASSUME Posts, UNCHANGED <<reservation, dialer, att>>
      PROVE  ReservationHasResolver'
  BY <1>1, PostsResolve DEF SameDial
<1>2. ASSUME NEW q \in Queues, SchedulerStep(q) \/ SchedulerRestarts(q)
      PROVE  ReservationHasResolver'
  <2>1. TypeOK
    BY DEF TypeInv
  <2>2. UNCHANGED SchedulerLeaves
    BY <1>2, <2>1, SchedulerHandlesType, SchedulerAnsweredType,
       SchedulerRestartsType
    DEF SchedulerStep
  <2> QED
    BY <1>1, <1>2, <2>2, SchedulerPosts
    DEF SchedulerLeaves, attemptVars, sessionVars
<1>3. ASSUME NEW a \in Agents, SessionStep(a) PROVE ReservationHasResolver'
  BY <1>3, SessionResolves
<1>4. ASSUME NEW a \in Agents, RestoreTimerFires(a)
      PROVE  ReservationHasResolver'
  BY <1>1, <1>4, TimersPost DEF RestoreTimerFires, attemptVars
<1>5. ASSUME NEW a \in Agents, TimeOut(a) PROVE ReservationHasResolver'
  <2>1. AttemptTimerFires(a)
    BY <1>5 DEF TimeOut
  <2>2. CASE AttemptStarts(a)
    BY <2>2, SessionResolves DEF SessionStep
  <2>3. CASE ~AttemptStarts(a)
    BY <2>1, <2>3, TimersPost, SessionSameDial, PostsResolve
    DEF AttemptTimerFires, sessionVars
  <2> QED
    BY <2>2, <2>3
<1>6. ASSUME NEW r \in Res, DialerStep(r) \/ LegStep(r) \/ DialerCrashes(r),
             UNCHANGED sessionVars
      PROVE  ReservationHasResolver'
  <2>1. CASE LegStep(r)
    <3>1. UNCHANGED <<reservation, dialer>>
      BY <1>6, <2>1
      DEF LegStep, Ring, LegAnswers, LegEnds, ForkEnds, HupallRuns, sessionVars
    <3> QED
      BY <2>1, <3>1, LegsSameDial, DialersPost, PostsResolve
  <2> QED
    BY <1>6, <2>1, DialerResolves
<1>7. CASE Surroundings
  BY <1>1, <1>7, SurroundingsPost
  DEF Surroundings, Enqueue, CustomerHangsUp, HangUpNoticed, RelayLegEvent,
      UserSets, JoinsQueue, LeavesQueue, ChangeMembers, sessionVars, attemptVars
<1>8. CASE UNCHANGED vars
  BY <1>1, <1>8 DEF Posts, vars, boxVars, sessionVars, attemptVars
<1> QED
  BY <1>2, <1>3, <1>4, <1>5, <1>6, <1>7, <1>8
  DEF Next, Crash, Surroundings, Quiescent, NotDialer

(* No interleaving of reports, exits, crashes, cancellations and timers    *)
(* leaves an agent reserved with nobody left to end it: either the Dialer  *)
(* of the reservation is at work, or its report or its exit is in the      *)
(* session's mailbox (the monitor and the {:DOWN, ...} clause).            *)
THEOREM ReservationsResolve == Spec => []ReservationHasResolver
<1>1. TypeInv /\ ReservationHasResolver /\ [Next]_vars
        => (TypeInv /\ ReservationHasResolver)'
  BY NextType, NextResolves
<1>2. Init => TypeInv /\ ReservationHasResolver
  BY InitType DEF Init, ReservationHasResolver
<1> QED
  BY <1>1, <1>2, PTL DEF Spec

----------------------------------------------------------------------------
(* Out of Busy and Wrap Up.                                                *)

HasTimer(a) ==
  db[a] \in Passing =>
    \/ restore_timer[a] = db[a]
    \/ db[a] \in lost_timers[a]
    \/ InBox(agentBox[a], RestorePresence(db[a]))

LEMMA TimerByAgent == PassingHasTimer <=> \A a \in Agents : HasTimer(a)
BY DEF PassingHasTimer, HasTimer

LEMMA StillHasTimer ==
  ASSUME NEW a \in Agents, HasTimer(a), db'[a] = db[a] \/ db'[a] \notin Passing,
         restore_timer'[a] = restore_timer[a], lost_timers'[a] = lost_timers[a],
         InBox(agentBox[a], RestorePresence(db[a]))
           => InBox(agentBox'[a], RestorePresence(db[a]))
  PROVE  HasTimer(a)'
BY DEF HasTimer

LEMMA RestorePresenceFields ==
  \A p : /\ RestorePresence(p).type = "restore_presence"
        /\ RestorePresence(p).expected = p
BY DEF RestorePresence

(* The timer is started with the presence it ends, and another timer only  *)
(* with another presence.                                                  *)
LEMMA SessionHasTimer ==
  ASSUME TypeInv, NEW a \in Agents, SessionStep(a), PassingHasTimer
  PROVE  PassingHasTimer'
<1>1. TypeOK /\ \A b \in Agents : HasTimer(b)
  BY TimerByAgent DEF TypeInv
<1>2. KeptBut(a, Head(agentBox[a])) /\ agentBox[a] # <<>>
  BY SessionTakes
<1>3. /\ db \in [Agents -> DbPresence]
      /\ restore_timer \in [Agents -> Passing \union {"none"}]
      /\ lost_timers \in [Agents -> SUBSET Passing]
  BY <1>1 DEF TypeOK, AgentSessionTypeOK
<1>4. \A p \in {"On Call", "Logged Out", "Available"} : p \notin Passing
  BY DEF Passing
<1>5. ASSUME NEW b \in Agents \ {a} PROVE HasTimer(b)'
  <2>1. /\ db'[b] = db[b] /\ restore_timer'[b] = restore_timer[b]
        /\ lost_timers'[b] = lost_timers[b]
    BY <1>3
    DEF SessionStep, AttemptRefused, AttemptStarts, CancelAttempt,
        QueueMemberAnswered, QueueMemberRejected, QueueMemberCallEnded,
        LateLegEvent, DialerMemberAnswered, DialerAnswered, DialerFailed,
        AttemptTimeout, BridgeTimeout, TimeOutAttempt, Unanswered, DialerDown,
        StaleReport, Ignore, RestoreAgent, PresenceOnCall, ScheduleRestore,
        WriteDb, sessionVars
  <2> QED
    BY <1>1, <1>2, <2>1, StillHasTimer DEF KeptBut
<1>6. HasTimer(a)'
  <2>1. CASE RestoreAgent(a) /\ db[a] = Head(agentBox[a]).expected
    <3>1. db'[a] = "Available"
      BY <1>3, <2>1 DEF RestoreAgent, WriteDb
    <3> QED
      BY <1>4, <3>1 DEF HasTimer
  <2>2. CASE RestoreAgent(a) /\ db[a] # Head(agentBox[a]).expected
    <3>1. db' = db /\ lost_timers'[a] = StillRunning(a)
      BY <1>3, <2>2 DEF RestoreAgent
    <3>2. CASE db[a] \in StillRunning(a)
      BY <3>1, <3>2 DEF HasTimer
    <3>3. CASE db[a] \in Passing /\ db[a] \notin StillRunning(a)
      <4>1. restore_timer[a] # db[a] /\ db[a] \notin lost_timers[a]
        BY <3>3 DEF StillRunning, Passing
      <4>2. InBox(agentBox[a], RestorePresence(db[a]))
        BY <1>1, <3>3, <4>1 DEF HasTimer
      <4>3. Head(agentBox[a]) # RestorePresence(db[a])
        BY <2>2, RestorePresenceFields
      <4>4. InBox(agentBox'[a], RestorePresence(db[a]))
        BY <1>2, <4>2, <4>3 DEF KeptBut
      <4> QED
        BY <3>1, <4>4 DEF HasTimer
    <3> QED
      BY <3>1, <3>2, <3>3 DEF HasTimer
  <2>3. CASE QueueMemberRejected(a) \/ QueueMemberCallEnded(a)
    <3>1. PICK p \in {"Busy", "Wrap Up"} : ScheduleRestore(a, p)
      BY <2>3 DEF QueueMemberRejected, QueueMemberCallEnded
    <3>2. CASE db[a] = "Logged Out"
      <4>1. db' = db
        BY <3>1, <3>2 DEF ScheduleRestore
      <4> QED
        BY <1>4, <3>2, <4>1 DEF HasTimer
    <3>3. CASE db[a] # "Logged Out"
      <4>1. db'[a] = p /\ restore_timer'[a] = p
        BY <1>3, <3>1, <3>3 DEF ScheduleRestore, WriteDb
      <4> QED
        BY <4>1 DEF HasTimer
    <3> QED
      BY <3>2, <3>3
  <2>4. CASE QueueMemberAnswered(a) \/ DialerAnswered(a)
    <3>1. PICK before : PresenceOnCall(a, before)
      BY <2>4 DEF QueueMemberAnswered, DialerAnswered
    <3>2. db'[a] \in {"On Call", "Logged Out"}
      BY <1>3, <3>1 DEF PresenceOnCall, WriteDb
    <3> QED
      BY <1>4, <3>2 DEF HasTimer
  <2>5. CASE \/ DialerFailed(a) \/ AttemptTimeout(a) \/ BridgeTimeout(a)
             \/ AttemptRefused(a) \/ AttemptStarts(a) \/ CancelAttempt(a)
             \/ LateLegEvent(a) \/ DialerMemberAnswered(a) \/ DialerDown(a)
             \/ StaleReport(a)
    <3>1. db'[a] = db[a] \/ db'[a] = "Logged Out"
      BY <1>3, <2>5
      DEF DialerFailed, AttemptTimeout, BridgeTimeout, TimeOutAttempt,
          Unanswered, WriteDb, AttemptRefused, AttemptStarts, CancelAttempt,
          LateLegEvent, DialerMemberAnswered, DialerDown, StaleReport, Ignore,
          sessionVars
    <3>2. UNCHANGED <<restore_timer, lost_timers>>
      BY <2>5
      DEF DialerFailed, AttemptTimeout, BridgeTimeout, TimeOutAttempt,
          Unanswered, AttemptRefused, AttemptStarts, CancelAttempt,
          LateLegEvent, DialerMemberAnswered, DialerDown, StaleReport, Ignore,
          sessionVars
    <3>3. Head(agentBox[a]).type # "restore_presence"
      BY <2>5
      DEF DialerFailed, AttemptTimeout, BridgeTimeout, AttemptRefused,
          AttemptStarts, CancelAttempt, LateLegEvent, DialerMemberAnswered,
          DialerDown, StaleReport, Takes
    <3>4. InBox(agentBox[a], RestorePresence(db[a]))
            => InBox(agentBox'[a], RestorePresence(db[a]))
      BY <1>2, <3>3, RestorePresenceFields DEF KeptBut
    <3> QED
      BY <1>1, <1>4, <3>1, <3>2, <3>4, StillHasTimer
  <2> QED
    BY <2>1, <2>2, <2>3, <2>4, <2>5 DEF SessionStep
<1>7. \A b \in Agents : HasTimer(b)'
  BY <1>5, <1>6
<1> QED
  BY <1>7 DEF PassingHasTimer, HasTimer

(* A timer that fires is replaced by its message.                          *)
LEMMA FiredHasTimer ==
  ASSUME TypeInv, NEW a \in Agents, RestoreTimerFires(a), PassingHasTimer
  PROVE  PassingHasTimer'
<1>1. /\ TypeOK /\ \A b \in Agents : HasTimer(b)
      /\ agentBox \in [Agents -> Seq(AgentMsg)]
      /\ restore_timer \in [Agents -> Passing \union {"none"}]
      /\ lost_timers \in [Agents -> SUBSET Passing]
  BY TimerByAgent DEF TypeInv, TypeOK, BoxesTypeOK, AgentSessionTypeOK
<1>2. Kept(agentBox, agentBox') /\ db' = db
  BY <1>1, TimersPost, PostsKeep DEF RestoreTimerFires
<1>3. PICK p : /\ agentBox' = ToAgent(agentBox, a, RestorePresence(p))
               /\ \/ /\ p = restore_timer[a]
                     /\ restore_timer' = [restore_timer EXCEPT ![a] = "none"]
                     /\ lost_timers' = lost_timers
                  \/ /\ lost_timers' = [lost_timers EXCEPT ![a] = @ \ {p}]
                     /\ restore_timer' = restore_timer
  BY DEF RestoreTimerFires
<1>4. InBox(agentBox'[a], RestorePresence(p))
  BY <1>1, <1>3, KeptByToAgent
<1>5. ASSUME NEW b \in Agents, b # a PROVE HasTimer(b)'
  <2>1. restore_timer'[b] = restore_timer[b] /\ lost_timers'[b] = lost_timers[b]
    BY <1>1, <1>3, <1>5
  <2> QED
    BY <1>1, <1>2, <2>1, StillHasTimer DEF Kept
<1>6. HasTimer(a)'
  <2>1. CASE db[a] = p
    BY <1>2, <1>4, <2>1 DEF HasTimer
  <2>2. CASE db[a] # p
    <3>1. restore_timer[a] = db[a] => restore_timer'[a] = db[a]
      BY <1>3, <2>2
    <3>2. db[a] \in lost_timers[a] => db[a] \in lost_timers'[a]
      BY <1>1, <1>3, <2>2
    <3>3. InBox(agentBox[a], RestorePresence(db[a]))
            => InBox(agentBox'[a], RestorePresence(db[a]))
      BY <1>2 DEF Kept
    <3> QED
      BY <1>1, <1>2, <3>1, <3>2, <3>3 DEF HasTimer
  <2> QED
    BY <2>1, <2>2
<1>7. \A b \in Agents : HasTimer(b)'
  BY <1>5, <1>6
<1> QED
  BY <1>7 DEF PassingHasTimer, HasTimer

LEMMA NextHasTimer ==
  TypeInv /\ PassingHasTimer /\ [Next]_vars => PassingHasTimer'
<1> SUFFICES ASSUME TypeInv, PassingHasTimer, [Next]_vars PROVE PassingHasTimer'
  OBVIOUS
<1>1. TypeOK /\ \A b \in Agents : HasTimer(b)
  BY TimerByAgent DEF TypeInv
<1>2. ASSUME Posts, UNCHANGED <<restore_timer, lost_timers>>,
             \A b \in Agents : db'[b] = db[b] \/ db'[b] \notin Passing
      PROVE  PassingHasTimer'
  <2>1. Kept(agentBox, agentBox')
    BY <1>1, <1>2, PostsKeep
  <2>2. \A b \in Agents : HasTimer(b)'
    BY <1>1, <1>2, <2>1, StillHasTimer DEF Kept
  <2> QED
    BY <2>2 DEF PassingHasTimer, HasTimer
<1>3. ASSUME Posts, UNCHANGED <<restore_timer, lost_timers, db>>
      PROVE  PassingHasTimer'
  BY <1>2, <1>3
<1>4. ASSUME NEW q \in Queues, SchedulerStep(q) \/ SchedulerRestarts(q)
      PROVE  PassingHasTimer'
  <2>1. UNCHANGED SchedulerLeaves
    BY <1>1, <1>4, SchedulerHandlesType, SchedulerAnsweredType,
       SchedulerRestartsType
    DEF SchedulerStep
  <2> QED
    BY <1>3, <1>4, <2>1, SchedulerPosts DEF SchedulerLeaves, sessionVars
<1>5. ASSUME NEW a \in Agents, SessionStep(a) PROVE PassingHasTimer'
  BY <1>5, SessionHasTimer
<1>6. ASSUME NEW a \in Agents, RestoreTimerFires(a) PROVE PassingHasTimer'
  BY <1>6, FiredHasTimer
<1>7. ASSUME NEW a \in Agents, TimeOut(a) PROVE PassingHasTimer'
  BY <1>3, <1>7, TimersPost DEF TimeOut, AttemptTimerFires, sessionVars
<1>8. ASSUME NEW r \in Res, DialerStep(r) \/ LegStep(r) \/ DialerCrashes(r),
             UNCHANGED sessionVars
      PROVE  PassingHasTimer'
  BY <1>3, <1>8, DialersPost DEF sessionVars
<1>9. CASE Surroundings
  <2>1. CASE \E a \in Agents, p \in {"Available", "On Break", "Logged Out"} :
               UserSets(a, p)
    <3>1. PICK a \in Agents, p \in {"Available", "On Break", "Logged Out"} :
            UserSets(a, p)
      BY <2>1
    <3>2. p \notin Passing
      BY DEF Passing
    <3>3. \A b \in Agents : db'[b] = db[b] \/ db'[b] = p
      BY <1>1, <3>1 DEF UserSets, WriteDb, TypeOK, AgentSessionTypeOK
    <3> QED
      BY <1>2, <1>9, <3>1, <3>2, <3>3, SurroundingsPost DEF UserSets
  <2>2. CASE \/ \E c \in Calls, q \in Queues : Enqueue(c, q)
             \/ \E c \in Calls : \/ CustomerHangsUp(c) \/ HangUpNoticed(c)
                                 \/ RelayLegEvent(c)
             \/ \E a \in Agents, q \in Queues :
                  JoinsQueue(a, q) \/ LeavesQueue(a, q)
    BY <1>3, <1>9, <2>2, SurroundingsPost
    DEF Enqueue, CustomerHangsUp, HangUpNoticed, RelayLegEvent, JoinsQueue,
        LeavesQueue, ChangeMembers, sessionVars
  <2> QED
    BY <1>9, <2>1, <2>2 DEF Surroundings
<1>10. CASE UNCHANGED vars
  BY <1>3, <1>10 DEF Posts, vars, boxVars, sessionVars
<1> QED
  BY <1>4, <1>5, <1>6, <1>7, <1>8, <1>9, <1>10
  DEF Next, Crash, Surroundings, Quiescent, NotDialer

(* A member who is made Busy or put in Wrap Up always has a restore timer, *)
(* or its message, to bring them back, although restore_timer_ref is set   *)
(* to nil without cancelling and on_call forgets timers too.               *)
THEOREM PassingHasTimers == Spec => []PassingHasTimer
<1>1. TypeInv /\ PassingHasTimer /\ [Next]_vars => (TypeInv /\ PassingHasTimer)'
  BY NextType, NextHasTimer
<1>2. Init => PassingHasTimer
  BY DEF Init, PassingHasTimer, Passing
<1> QED
  BY <1>1, <1>2, InitType, PTL DEF Spec
=============================================================================
