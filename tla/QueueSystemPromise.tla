------------------------- MODULE QueueSystemPromise -------------------------
(***************************************************************************)
(* What becomes of a customer: the queue keeps the promise of CallQueue,   *)
(* and the waiting lists of the schedulers agree with the processes of the *)
(* calls.  Proved for any number of queues, agents and calls.              *)
(***************************************************************************)
EXTENDS QueueSystemSafety

----------------------------------------------------------------------------
(* The inductive invariant.                                                *)

Done(c) == qc[c].state \in {"answered", "abandoned"}

(* If c is in a queue, it is q; it has not yet to be put into one.         *)
InQueue(q, c) ==
  /\ qc[c].state # "none"
  /\ Alive(qc[c]) => qc[c].queue = q

AddAt(q, i, c) ==
  /\ i \in 1..Len(schedBox[q])
  /\ schedBox[q][i] = CallMsg("add_waiting_call", c)

(* A customer is put into the queue once.                                  *)
AddedOnce ==
  \A c \in Calls, p, q \in Queues : \A i, j :
    AddAt(p, i, c) /\ AddAt(q, j, c) => p = q /\ i = j

AddedIsNew ==
  \A c \in Calls :
    /\ customer[c] = "new" => qc[c].state = "none"
    /\ \A q \in Queues : InBox(schedBox[q], CallMsg("add_waiting_call", c))
         => customer[c] # "new" /\ qc[c].state = "none"

(* A hang-up is reported to the call's queue, and after the fact.          *)
HangUpIsReal ==
  \A c \in Calls :
    /\ qc[c].state = "abandoned" => customer[c] \in {"hungup", "gone"}
    /\ \A q \in Queues : InBox(schedBox[q], CallMsg("call_hung_up", c))
         => customer[c] \in {"hungup", "gone"} /\ InQueue(q, c)

NotBegun(r) == att[r].leg = "none" /\ att[r].dial = "none"

AttemptsPlaced ==
  \A r \in Res :
    IF r < next_res
    THEN /\ att[r].call \in Calls
         /\ att[r].queue \in Queues
         /\ InQueue(att[r].queue, att[r].call)
    ELSE NotBegun(r)

(* Only a Dialer that bridged the two says so, and only then is a call     *)
(* answered.                                                               *)
AnswerIsBridge ==
  /\ \A a \in Agents : \A m :
       InBox(agentBox[a], m) /\ m.type = "dialer_answered" => EverBridged(m.res)
  /\ \A c \in Calls : qc[c].state = "answered" =>
       \E r \in Res : att[r].call = c /\ EverBridged(r)

RequestsPlaced ==
  /\ \A a \in Agents : \A m :
       InBox(agentBox[a], m) /\ m.type = "attempt" => InQueue(m.queue, m.call)
  /\ \A q \in Queues : pending[q].request = "attempt" =>
       InQueue(q, pending[q].call) /\ pending[q].after = "match"

WaitingPlaced ==
  \A q \in Queues :
    /\ IsInjective(waiting[q])
    /\ \A c \in Calls : Contains(waiting[q], c) => InQueue(q, c)

PromiseInv ==
  /\ AddedOnce
  /\ AddedIsNew
  /\ HangUpIsReal
  /\ AttemptsPlaced
  /\ AnswerIsBridge
  /\ RequestsPlaced
  /\ WaitingPlaced

(* What takes a call off a waiting list speaks of a call that is over.     *)
RemovedIsDone ==
  /\ \A q \in Queues, a \in Agents, c \in Calls :
       InBox(schedBox[q], Finished(a, c, "answered")) => Done(c)
  /\ \A q \in Queues : \A c \in Calls :
       pending[q].call = c /\ pending[q].after = "forget_call" => Done(c)

LivePlaced == \A c \in Calls : Alive(qc[c]) => qc[c].queue \in Queues

WaitingInv ==
  /\ LivePlaced
  /\ RemovedIsDone
  /\ crashes = 0 => LiveCallIsWaiting
  /\ DeadCallLeavesWaiting

----------------------------------------------------------------------------
(* What a step leaves as it was.                                           *)

(* Messages of N are put behind those that are there.                      *)
Grows(box, box2, N) ==
  \A q \in Queues :
    /\ Len(box2[q]) >= Len(box[q])
    /\ \A i \in 1..Len(box2[q]) :
         IF i <= Len(box[q]) THEN box2[q][i] = box[q][i] ELSE box2[q][i] \in N

(* Messages to a scheduler that neither bring a customer nor take one.     *)
Others ==
  {m \in SchedMsg : m.type \notin {"add_waiting_call", "call_hung_up"}}

Answers(m) == m.type = "attempt_finished" /\ m.arg = "answered"

Plain == {m \in Others : ~Answers(m)}

(* Messages to a session that say nothing untrue.                          *)
TrueMsg ==
  {m \in AgentMsg :
     /\ m.type = "attempt" => InQueue(m.queue, m.call)'
     /\ m.type = "dialer_answered" => EverBridged(m.res)}

Arrive(boxes, boxes2, N) ==
  \A a \in Agents : \A m :
    InBox(boxes2[a], m) => InBox(boxes[a], m) \/ m \in N

SameCall(c) == qc'[c].state = qc[c].state /\ qc'[c].queue = qc[c].queue

SameCalls == \A c \in Calls : SameCall(c)

(* A call that leaves the queue has left it for good, and is said to be    *)
(* answered if it was.                                                     *)
CallsOnward ==
  \A c \in Calls :
    \/ SameCall(c)
    \/ Alive(qc[c]) /\ qc'[c].state = "abandoned"
    \/ /\ Alive(qc[c]) /\ qc'[c].state = "answered"
       /\ \E r \in Res : att[r].call = c /\ EverBridged(r)

SameBridges ==
  /\ next_res' = next_res
  /\ \A r \in Res :
       /\ att'[r].call = att[r].call
       /\ att'[r].queue = att[r].queue
       /\ EverBridged(r)' <=> EverBridged(r)
       /\ NotBegun(r) => NotBegun(r)'

(* What has been bridged remains so.                                       *)
BridgesKept ==
  \A r \in Res :
    EverBridged(r) => EverBridged(r)' /\ att'[r].call = att[r].call

BridgesOnward ==
  /\ next_res' = next_res
  /\ \A r \in Res :
       /\ att'[r].call = att[r].call
       /\ att'[r].queue = att[r].queue
       /\ EverBridged(r) => EverBridged(r)'
       /\ NotBegun(r) => NotBegun(r)'

SamePending ==
  \A q \in Queues :
    /\ pending'[q].request = pending[q].request
    /\ pending'[q].call = pending[q].call
    /\ pending'[q].after = pending[q].after

SameCustomers ==
  \A c \in Calls :
    \/ customer'[c] = customer[c]
    \/ customer[c] = "up" /\ customer'[c] = "hungup"

----------------------------------------------------------------------------
(* Mailboxes and lists.                                                    *)

LEMMA NothingGrows ==
  ASSUME NEW box \in [Queues -> Seq(SchedMsg)], NEW N
  PROVE  Grows(box, box, N)
BY DEF Grows

LEMMA GrowsByToQueue ==
  ASSUME NEW box \in [Queues -> Seq(SchedMsg)], NEW m \in SchedMsg, NEW q,
         NEW N, m \in N
  PROVE  Grows(box, ToQueue(box, q, m), N)
<1> SUFFICES ASSUME NEW p \in Queues
             PROVE  /\ Len(ToQueue(box, q, m)[p]) >= Len(box[p])
                    /\ \A i \in 1..Len(ToQueue(box, q, m)[p]) :
                         IF i <= Len(box[p])
                         THEN ToQueue(box, q, m)[p][i] = box[p][i]
                         ELSE ToQueue(box, q, m)[p][i] \in N
  BY DEF Grows
<1>1. CASE p # q
  BY <1>1 DEF ToQueue
<1>2. CASE p = q
  <2>1. ToQueue(box, q, m)[p] = Append(box[p], m)
    BY <1>2 DEF ToQueue
  <2>2. box[p] \in Seq(SchedMsg)
    OBVIOUS
  <2> QED
    BY <2>1, <2>2
<1> QED
  BY <1>1, <1>2

LEMMA GrowsByBroadcast ==
  ASSUME NEW box \in [Queues -> Seq(SchedMsg)], NEW m \in SchedMsg,
         NEW N, m \in N
  PROVE  Grows(box, Broadcast(box, m), N)
<1> SUFFICES ASSUME NEW p \in Queues
             PROVE  /\ Len(Broadcast(box, m)[p]) >= Len(box[p])
                    /\ \A i \in 1..Len(Broadcast(box, m)[p]) :
                         IF i <= Len(box[p])
                         THEN Broadcast(box, m)[p][i] = box[p][i]
                         ELSE Broadcast(box, m)[p][i] \in N
  BY DEF Grows
<1>1. Broadcast(box, m)[p] = Append(box[p], m) /\ box[p] \in Seq(SchedMsg)
  BY DEF Broadcast
<1> QED
  BY <1>1

LEMMA GrowsTwice ==
  ASSUME NEW b1 \in [Queues -> Seq(SchedMsg)],
         NEW b2 \in [Queues -> Seq(SchedMsg)],
         NEW b3 \in [Queues -> Seq(SchedMsg)], NEW N,
         Grows(b1, b2, N), Grows(b2, b3, N)
  PROVE  Grows(b1, b3, N)
<1> SUFFICES ASSUME NEW p \in Queues
             PROVE  /\ Len(b3[p]) >= Len(b1[p])
                    /\ \A i \in 1..Len(b3[p]) :
                         IF i <= Len(b1[p]) THEN b3[p][i] = b1[p][i]
                         ELSE b3[p][i] \in N
  BY DEF Grows
<1>1. Len(b1[p]) \in Nat /\ Len(b2[p]) \in Nat /\ Len(b3[p]) \in Nat
  OBVIOUS
<1>2. /\ Len(b2[p]) >= Len(b1[p])
      /\ \A i \in 1..Len(b2[p]) : IF i <= Len(b1[p]) THEN b2[p][i] = b1[p][i]
                                  ELSE b2[p][i] \in N
      /\ Len(b3[p]) >= Len(b2[p])
      /\ \A i \in 1..Len(b3[p]) : IF i <= Len(b2[p]) THEN b3[p][i] = b2[p][i]
                                  ELSE b3[p][i] \in N
  BY DEF Grows
<1>3. ASSUME NEW i \in 1..Len(b3[p]), i <= Len(b1[p])
      PROVE  b3[p][i] = b1[p][i]
  <2>1. i \in 1..Len(b2[p]) /\ i <= Len(b2[p])
    BY <1>1, <1>2, <1>3
  <2> QED
    BY <1>2, <1>3, <2>1
<1>4. ASSUME NEW i \in 1..Len(b3[p]), ~(i <= Len(b1[p]))
      PROVE  b3[p][i] \in N
  <2>1. CASE i <= Len(b2[p])
    <3>1. i \in 1..Len(b2[p])
      BY <1>1, <2>1
    <3> QED
      BY <1>2, <1>4, <2>1, <3>1
  <2>2. CASE ~(i <= Len(b2[p]))
    BY <1>2, <2>2
  <2> QED
    BY <2>1, <2>2
<1>5. Len(b3[p]) >= Len(b1[p])
  BY <1>1, <1>2
<1> QED
  BY <1>3, <1>4, <1>5

(* A mailbox that grew holds what it held, and of the rest only new ones.  *)
LEMMA GrownBox ==
  ASSUME NEW box \in [Queues -> Seq(SchedMsg)],
         NEW box2 \in [Queues -> Seq(SchedMsg)], NEW N, Grows(box, box2, N),
         NEW q \in Queues
  PROVE  /\ \A m : InBox(box[q], m) => InBox(box2[q], m)
         /\ \A m : InBox(box2[q], m) => InBox(box[q], m) \/ m \in N
         /\ \A i : /\ i \in 1..Len(box2[q])
                   /\ box2[q][i] \notin N
                   => i \in 1..Len(box[q]) /\ box2[q][i] = box[q][i]
<1>1. Len(box[q]) \in Nat /\ Len(box2[q]) \in Nat
  OBVIOUS
<1>2. /\ Len(box2[q]) >= Len(box[q])
      /\ \A i \in 1..Len(box2[q]) :
           IF i <= Len(box[q]) THEN box2[q][i] = box[q][i]
           ELSE box2[q][i] \in N
  BY DEF Grows
<1>3. \A i \in 1..Len(box[q]) : i \in 1..Len(box2[q]) /\ box2[q][i] = box[q][i]
  BY <1>1, <1>2
<1>4. \A i \in 1..Len(box2[q]) :
        \/ i \in 1..Len(box[q]) /\ box2[q][i] = box[q][i]
        \/ box2[q][i] \in N
  BY <1>1, <1>2
<1> QED
  BY <1>3, <1>4 DEF InBox

LEMMA ArriveByToAgent ==
  ASSUME NEW boxes \in [Agents -> Seq(AgentMsg)], NEW a, NEW n \in AgentMsg,
         NEW N, n \in N
  PROVE  Arrive(boxes, ToAgent(boxes, a, n), N)
<1> SUFFICES ASSUME NEW b \in Agents, NEW m, InBox(ToAgent(boxes, a, n)[b], m)
             PROVE  InBox(boxes[b], m) \/ m \in N
  BY DEF Arrive
<1>1. CASE b # a
  BY <1>1 DEF ToAgent
<1>2. CASE b = a
  <2>1. ToAgent(boxes, a, n)[b] = Append(boxes[b], n)
        /\ boxes[b] \in Seq(AgentMsg)
    BY <1>2 DEF ToAgent
  <2>2. PICK i \in 1..Len(Append(boxes[b], n)) : Append(boxes[b], n)[i] = m
    BY <2>1 DEF InBox
  <2>3. (i \in 1..Len(boxes[b]) /\ boxes[b][i] = m) \/ m = n
    BY <2>1, <2>2
  <2> QED
    BY <2>3 DEF InBox
<1> QED
  BY <1>1, <1>2

LEMMA TailHolds ==
  ASSUME NEW S, NEW box \in Seq(S), box # <<>>
  PROVE  /\ \A m : InBox(Tail(box), m) => InBox(box, m)
         /\ InBox(box, Head(box))
         /\ \A m : InBox(box, m) => m = Head(box) \/ InBox(Tail(box), m)
<1> DEFINE t == Tail(box)
           h == Head(box)
<1>1. /\ Len(box) \in Nat /\ Len(box) > 0 /\ Len(t) = Len(box) - 1
      /\ \A i \in 1..Len(t) : t[i] = box[i + 1]
      /\ h = box[1]
  OBVIOUS
<1> HIDE DEF t, h
<1>2. \A i \in 1..Len(t) : i + 1 \in 1..Len(box)
  BY <1>1
<1>3. ASSUME NEW i \in 1..Len(box), i # 1
      PROVE  i - 1 \in 1..Len(t) /\ t[i - 1] = box[i]
  <2>1. i - 1 \in 1..Len(t) /\ (i - 1) + 1 = i
    BY <1>1, <1>3
  <2> QED
    BY <1>1, <2>1
<1>4. 1 \in 1..Len(box)
  BY <1>1
<1>5. \A m : InBox(t, m) => InBox(box, m)
  BY <1>1, <1>2 DEF InBox
<1>6. InBox(box, h)
  BY <1>1, <1>4 DEF InBox
<1>7. \A m : InBox(box, m) => m = h \/ InBox(t, m)
  BY <1>1, <1>3 DEF InBox
<1> QED
  BY <1>5, <1>6, <1>7 DEF t, h

LEMMA RestArrives ==
  ASSUME TypeOK, NEW a \in Agents, agentBox[a] # <<>>, NEW N
  PROVE  Arrive(agentBox, Rest(a), N)
<1> SUFFICES ASSUME NEW b \in Agents, NEW m, InBox(Rest(a)[b], m)
             PROVE  InBox(agentBox[b], m)
  BY DEF Arrive
<1>1. agentBox \in [Agents -> Seq(AgentMsg)]
  BY DEF TypeOK, BoxesTypeOK
<1>2. CASE b = a
  <2>1. Rest(a)[b] = Tail(agentBox[b]) /\ agentBox[b] # <<>>
    BY <1>1, <1>2 DEF Rest
  <2> QED
    BY <1>1, <2>1, TailHolds
<1>3. CASE b # a
  BY <1>1, <1>3 DEF Rest
<1> QED
  BY <1>2, <1>3

LEMMA ArriveTwice ==
  ASSUME NEW b1, NEW b2, NEW b3, NEW N, Arrive(b1, b2, N), Arrive(b2, b3, N)
  PROVE  Arrive(b1, b3, N)
BY DEF Arrive

(* List.delete/2 keeps what it is not asked to delete.                     *)
LEMMA RemoveFirstKeeps ==
  ASSUME NEW S, NEW s \in Seq(S), NEW e, NEW x, x # e
  PROVE  Contains(s, x) <=> Contains(RemoveFirst(s, e), x)
<1>1. Contains(RemoveFirst(s, e), x) => Contains(s, x)
  BY RemoveFirstIsSeq DEF Contains
<1>2. CASE ~Contains(s, e)
  BY <1>2 DEF RemoveFirst, Contains
<1>3. ASSUME Contains(s, e), Contains(s, x)
      PROVE  Contains(RemoveFirst(s, e), x)
  <2> DEFINE w == RemoveFirst(s, e)
             I == {i \in 1..Len(s) : s[i] = e}
  <2>1. I \in SUBSET Nat /\ I # {}
    BY <1>3 DEF Contains
  <2>2. w = RemoveAt(s, Min(I))
    BY <1>3, <2>1 DEF Contains, RemoveFirst, SelectInSeq
  <2>3. PICK k \in 1..Len(s) : s[k] = e /\ w = RemoveAt(s, k)
    BY <2>1, <2>2, MinOfNaturals
  <2> HIDE DEF w, I
  <2>4. /\ Len(s) \in Nat
        /\ Len(w) = Len(s) - 1
        /\ \A i \in 1..(Len(s) - 1) : w[i] = IF i < k THEN s[i] ELSE s[i + 1]
    <3>1. /\ w \in Seq(S) /\ Len(w) = Len(s) - 1
          /\ \A i \in 1..(Len(s) - 1) : w[i] = IF i < k THEN s[i] ELSE s[i + 1]
      BY <2>3, RemoveAtIsSeq
    <3> QED
      BY <3>1
  <2>5. PICK j \in 1..Len(s) : s[j] = x
    BY <1>3 DEF Contains
  <2>6. CASE j < k
    <3>1. j \in 1..(Len(s) - 1) /\ j \in 1..Len(w)
      BY <2>4, <2>6
    <3>2. w[j] = x
      BY <2>4, <2>5, <2>6, <3>1
    <3> QED
      BY <3>1, <3>2 DEF Contains, w
  <2>7. CASE j > k
    <3>1. /\ j - 1 \in 1..(Len(s) - 1) /\ j - 1 \in 1..Len(w)
          /\ ~(j - 1 < k) /\ (j - 1) + 1 = j
      BY <2>4, <2>7
    <3>2. w[j - 1] = x
      BY <2>4, <2>5, <3>1
    <3> QED
      BY <3>1, <3>2 DEF Contains, w
  <2>8. j # k
    BY <2>3, <2>5
  <2> QED
    BY <2>6, <2>7, <2>8
<1> QED
  BY <1>1, <1>2, <1>3

----------------------------------------------------------------------------
(* What keeps each part of the invariant.                                  *)

LEMMA CallsStayInQueue ==
  ASSUME CallsOnward \/ SameCalls, NEW q \in Queues, NEW c \in Calls
  PROVE  /\ InQueue(q, c) => InQueue(q, c)'
         /\ qc'[c].state = "none" <=> qc[c].state = "none"
         /\ Done(c) => Done(c)'
         /\ Alive(qc[c])' => Alive(qc[c]) /\ qc'[c].queue = qc[c].queue
BY DEF CallsOnward, SameCalls, SameCall, InQueue, Done, Alive

LEMMA SpecialMessages ==
  ASSUME NEW c
  PROVE  /\ CallMsg("add_waiting_call", c) \notin Others
         /\ CallMsg("call_hung_up", c) \notin Others
BY DEF CallMsg, Others

LEMMA AddedStays ==
  ASSUME TypeOK, TypeOK', AddedOnce, AddedIsNew, CallsOnward \/ SameCalls,
         NEW N, \A c \in Calls : CallMsg("add_waiting_call", c) \notin N,
         Grows(schedBox, schedBox', N),
         \A c \in Calls : customer'[c] = "new" <=> customer[c] = "new"
  PROVE  AddedOnce' /\ AddedIsNew'
<1>1. /\ schedBox \in [Queues -> Seq(SchedMsg)]
      /\ schedBox' \in [Queues -> Seq(SchedMsg)]
  BY DEF TypeOK, BoxesTypeOK
<1>2. ASSUME NEW q \in Queues, NEW c \in Calls, NEW i, AddAt(q, i, c)'
      PROVE  AddAt(q, i, c)
  <2>1. /\ i \in 1..Len(schedBox'[q])
        /\ schedBox'[q][i] = CallMsg("add_waiting_call", c)
    BY <1>2 DEF AddAt
  <2>2. schedBox'[q][i] \notin N
    BY <2>1
  <2>3. \A j : j \in 1..Len(schedBox'[q]) /\ schedBox'[q][j] \notin N
               => j \in 1..Len(schedBox[q]) /\ schedBox'[q][j] = schedBox[q][j]
    BY <1>1, GrownBox
  <2> QED
    BY <2>1, <2>2, <2>3 DEF AddAt
<1>3. AddedOnce'
  BY <1>2 DEF AddedOnce
<1>4. ASSUME NEW q \in Queues, NEW c \in Calls,
             InBox(schedBox'[q], CallMsg("add_waiting_call", c))
      PROVE  InBox(schedBox[q], CallMsg("add_waiting_call", c))
  BY <1>1, <1>4, GrownBox
<1>5. \A c \in Calls : Queues # {} =>
        (qc'[c].state = "none" <=> qc[c].state = "none")
  BY CallsStayInQueue
<1>6. \A c \in Calls : qc'[c].state = "none" <=> qc[c].state = "none"
  BY DEF CallsOnward, SameCalls, SameCall, Alive
<1> QED
  BY <1>3, <1>4, <1>6 DEF AddedIsNew

LEMMA HangUpStays ==
  ASSUME TypeOK, TypeOK', HangUpIsReal, CallsOnward \/ SameCalls,
         NEW N, \A c \in Calls : CallMsg("call_hung_up", c) \notin N,
         Grows(schedBox, schedBox', N),
         \A c \in Calls : customer[c] \in {"hungup", "gone"}
                            => customer'[c] \in {"hungup", "gone"},
         \A c \in Calls : qc'[c].state = "abandoned" =>
           qc[c].state = "abandoned" \/ customer'[c] \in {"hungup", "gone"}
  PROVE  HangUpIsReal'
<1>1. /\ schedBox \in [Queues -> Seq(SchedMsg)]
      /\ schedBox' \in [Queues -> Seq(SchedMsg)]
  BY DEF TypeOK, BoxesTypeOK
<1>2. ASSUME NEW q \in Queues, NEW c \in Calls,
             InBox(schedBox'[q], CallMsg("call_hung_up", c))
      PROVE  customer'[c] \in {"hungup", "gone"} /\ InQueue(q, c)'
  <2>1. InBox(schedBox[q], CallMsg("call_hung_up", c))
    BY <1>1, <1>2, GrownBox
  <2> QED
    BY <2>1, CallsStayInQueue DEF HangUpIsReal
<1>3. \A c \in Calls : qc'[c].state = "abandoned"
                         => customer'[c] \in {"hungup", "gone"}
  BY DEF HangUpIsReal
<1> QED
  BY <1>2, <1>3 DEF HangUpIsReal

LEMMA AttemptsStay ==
  ASSUME AttemptsPlaced, BridgesOnward,
         \A q \in Queues, c \in Calls : InQueue(q, c) => InQueue(q, c)'
  PROVE  AttemptsPlaced'
<1> SUFFICES ASSUME NEW r \in Res
             PROVE  IF r < next_res'
                    THEN /\ att'[r].call \in Calls
                         /\ att'[r].queue \in Queues
                         /\ InQueue(att[r].queue, att[r].call)'
                    ELSE NotBegun(r)'
  BY DEF AttemptsPlaced
<1>1. CASE r < next_res
  BY <1>1 DEF AttemptsPlaced, BridgesOnward
<1>2. CASE ~(r < next_res)
  BY <1>2 DEF AttemptsPlaced, BridgesOnward
<1> QED
  BY <1>1, <1>2

LEMMA AnswersStay ==
  ASSUME TypeOK, AnswerIsBridge, Arrive(agentBox, agentBox', TrueMsg),
         BridgesKept,
         \A c \in Calls : qc'[c].state = "answered" =>
           \/ qc[c].state = "answered"
           \/ \E r \in Res : att[r].call = c /\ EverBridged(r)
  PROVE  AnswerIsBridge'
<1>1. ASSUME NEW a \in Agents, NEW m, InBox(agentBox'[a], m),
             m.type = "dialer_answered"
      PROVE  EverBridged(m.res)'
  <2>1. CASE m \in TrueMsg
    <3>1. m.res \in Res /\ EverBridged(m.res)
      BY <1>1, <2>1, AgentMsgFields DEF TrueMsg
    <3> QED
      BY <3>1 DEF BridgesKept
  <2>2. CASE InBox(agentBox[a], m)
    <3>1. m \in AgentMsg
      BY <2>2 DEF InBox, TypeOK, BoxesTypeOK
    <3>2. m.res \in Res /\ EverBridged(m.res)
      BY <1>1, <2>2, <3>1, AgentMsgFields DEF AnswerIsBridge
    <3> QED
      BY <3>2 DEF BridgesKept
  <2> QED
    BY <1>1, <2>1, <2>2 DEF Arrive
<1>2. ASSUME NEW c \in Calls, qc'[c].state = "answered"
      PROVE  \E r \in Res : att'[r].call = c /\ EverBridged(r)'
  BY <1>2 DEF AnswerIsBridge, BridgesKept
<1> QED
  BY <1>1, <1>2 DEF AnswerIsBridge

LEMMA RequestsStay ==
  ASSUME TypeOK, RequestsPlaced, Arrive(agentBox, agentBox', TrueMsg),
         \A q \in Queues, c \in Calls : InQueue(q, c) => InQueue(q, c)',
         \A q \in Queues : pending'[q].request = "attempt" =>
           \/ /\ pending[q].request = "attempt"
              /\ pending'[q].call = pending[q].call
              /\ pending'[q].after = pending[q].after
           \/ InQueue(q, pending[q].call)' /\ pending'[q].after = "match"
  PROVE  RequestsPlaced'
<1>1. ASSUME NEW a \in Agents, NEW m, InBox(agentBox'[a], m),
             m.type = "attempt"
      PROVE  InQueue(m.queue, m.call)'
  <2>1. CASE m \in TrueMsg
    BY <1>1, <2>1 DEF TrueMsg
  <2>2. CASE InBox(agentBox[a], m)
    <3>1. m \in AgentMsg
      BY <2>2 DEF InBox, TypeOK, BoxesTypeOK
    <3> QED
      BY <1>1, <2>2, <3>1, AgentMsgFields DEF RequestsPlaced
  <2> QED
    BY <1>1, <2>1, <2>2 DEF Arrive
<1>2. ASSUME NEW q \in Queues, pending'[q].request = "attempt"
      PROVE  InQueue(q, pending[q].call)' /\ pending'[q].after = "match"
  <2>1. CASE /\ pending[q].request = "attempt"
             /\ pending'[q].call = pending[q].call
             /\ pending'[q].after = pending[q].after
    <3>1. pending[q] \in Pending
      BY DEF TypeOK, BoxesTypeOK
    <3>2. pending[q].call \in Calls
      BY <2>1, <3>1 DEF Pending, Idle
    <3> QED
      BY <2>1, <3>2 DEF RequestsPlaced
  <2> QED
    BY <1>2, <2>1
<1> QED
  BY <1>1, <1>2 DEF RequestsPlaced

(* A step that brings and takes no customer.                               *)
LEMMA PromiseStays ==
  ASSUME TypeOK, TypeOK', PromiseInv,
         Grows(schedBox, schedBox', Others),
         Arrive(agentBox, agentBox', TrueMsg),
         CallsOnward \/ SameCalls,
         \A c \in Calls : qc'[c].state = "abandoned"
                            => qc[c].state = "abandoned",
         BridgesOnward, SamePending, SameCustomers, waiting' = waiting
  PROVE  PromiseInv'
<1>1. /\ AddedOnce /\ AddedIsNew /\ HangUpIsReal /\ AttemptsPlaced
      /\ AnswerIsBridge /\ RequestsPlaced /\ WaitingPlaced
  BY DEF PromiseInv
<1>2. AddedOnce' /\ AddedIsNew'
  <2>1. \A c \in Calls : customer'[c] = "new" <=> customer[c] = "new"
    BY DEF SameCustomers
  <2>2. \A c \in Calls : CallMsg("add_waiting_call", c) \notin Others
    BY SpecialMessages
  <2> QED
    BY <1>1, <2>1, <2>2, AddedStays
<1>3. HangUpIsReal'
  <2>1. \A c \in Calls : CallMsg("call_hung_up", c) \notin Others
    BY SpecialMessages
  <2>2. \A c \in Calls : customer[c] \in {"hungup", "gone"}
                           => customer'[c] \in {"hungup", "gone"}
    BY DEF SameCustomers
  <2> QED
    BY <1>1, <2>1, <2>2, HangUpStays
<1>4. \A q \in Queues, c \in Calls : InQueue(q, c) => InQueue(q, c)'
  BY CallsStayInQueue
<1>5. AttemptsPlaced'
  BY <1>1, <1>4, AttemptsStay
<1>6. \A c \in Calls : qc'[c].state = "answered" =>
        \/ qc[c].state = "answered"
        \/ \E r \in Res : att[r].call = c /\ EverBridged(r)
  BY DEF CallsOnward, SameCalls, SameCall
<1>7. AnswerIsBridge'
  BY <1>1, <1>6, AnswersStay DEF BridgesOnward, BridgesKept
<1>8. RequestsPlaced'
  BY <1>1, <1>4, RequestsStay DEF SamePending
<1>9. WaitingPlaced'
  BY <1>1, <1>4 DEF WaitingPlaced
<1> QED
  BY <1>2, <1>3, <1>5, <1>7, <1>8, <1>9 DEF PromiseInv

LEMMA PlainIsOther ==
  ASSUME NEW box, NEW box2, Grows(box, box2, Plain)
  PROVE  Grows(box, box2, Others)
<1>1. Plain \subseteq Others
  BY DEF Plain
<1> QED
  BY <1>1 DEF Grows

LEMMA DoneStays ==
  ASSUME TypeOK, TypeOK', RemovedIsDone, CallsOnward \/ SameCalls,
         NEW N, \A m \in N : ~Answers(m), Grows(schedBox, schedBox', N),
         SamePending
  PROVE  RemovedIsDone'
<1>1. /\ schedBox \in [Queues -> Seq(SchedMsg)]
      /\ schedBox' \in [Queues -> Seq(SchedMsg)]
  BY DEF TypeOK, BoxesTypeOK
<1>2. ASSUME NEW q \in Queues, NEW a \in Agents, NEW c \in Calls,
             InBox(schedBox'[q], Finished(a, c, "answered"))
      PROVE  Done(c)'
  <2>1. Finished(a, c, "answered") \notin N
    BY DEF Answers, Finished
  <2>2. InBox(schedBox[q], Finished(a, c, "answered"))
    BY <1>1, <1>2, <2>1, GrownBox
  <2> QED
    BY <2>2, CallsStayInQueue DEF RemovedIsDone
<1>3. ASSUME NEW q \in Queues, NEW c \in Calls,
             pending'[q].call = c, pending'[q].after = "forget_call"
      PROVE  Done(c)'
  BY <1>3, CallsStayInQueue DEF RemovedIsDone, SamePending
<1> QED
  BY <1>2, <1>3 DEF RemovedIsDone

LEMMA PlainAnswersNothing == \A m \in Plain : ~Answers(m)
BY DEF Plain

(* A step that changes neither a waiting list nor a call's process.        *)
LEMMA WaitingStays ==
  ASSUME TypeOK, TypeOK', WaitingInv, SameCalls,
         NEW N, \A m \in N : ~Answers(m), Grows(schedBox, schedBox', N),
         SamePending, waiting' = waiting,
         crashes' = 0 => crashes = 0
  PROVE  WaitingInv'
<1>1. /\ schedBox \in [Queues -> Seq(SchedMsg)]
      /\ schedBox' \in [Queues -> Seq(SchedMsg)]
      /\ RemovedIsDone /\ DeadCallLeavesWaiting
      /\ crashes = 0 => LiveCallIsWaiting
  BY DEF TypeOK, BoxesTypeOK, WaitingInv
<1>2. RemovedIsDone'
  BY <1>1, DoneStays DEF WaitingInv
<1>3. crashes' = 0 => LiveCallIsWaiting'
  <2> SUFFICES ASSUME crashes' = 0, NEW c \in Calls, Alive(qc[c])'
               PROVE  Contains(waiting[qc[c].queue], c)'
    BY DEF LiveCallIsWaiting
  <2>1. Alive(qc[c]) /\ qc'[c].queue = qc[c].queue
    BY DEF SameCalls, SameCall, Alive
  <2> QED
    BY <1>1, <2>1 DEF LiveCallIsWaiting
<1>4. ASSUME NEW q \in Queues, NEW c \in Calls,
             Contains(waiting'[q], c), ~Alive(qc'[c])
      PROVE  \/ \E a \in Agents : InBox(schedBox'[q], Finished(a, c, "answered"))
             \/ pending'[q].call = c /\ pending'[q].after = "forget_call"
  <2>1. Contains(waiting[q], c) /\ ~Alive(qc[c])
    BY <1>4 DEF SameCalls, SameCall, Alive
  <2>2. \A m : InBox(schedBox[q], m) => InBox(schedBox'[q], m)
    BY <1>1, GrownBox
  <2> QED
    BY <1>1, <2>1, <2>2 DEF DeadCallLeavesWaiting, SamePending
<1>5. DeadCallLeavesWaiting'
  BY <1>4 DEF DeadCallLeavesWaiting
<1>6. LivePlaced'
  BY DEF WaitingInv, LivePlaced, SameCalls, SameCall, Alive
<1> QED
  BY <1>2, <1>3, <1>5, <1>6 DEF WaitingInv

----------------------------------------------------------------------------
(* The sessions.                                                           *)

LEMMA PlainMessages ==
  /\ \A a \in Agents, p \in DbPresence : PresenceUpdate(a, p) \in Plain
  /\ \A a \in Agents, c \in Calls : \A outcome \in {"failed", "timed_out"} :
       Finished(a, c, outcome) \in Plain
  /\ \A a \in Agents, c \in Calls : Finished(a, c, "answered") \in Others
BY SchedMessages
DEF Plain, Others, Answers, PresenceUpdate, Finished, DbPresence

LEMMA UnansweredGrows ==
  ASSUME TypeInv, NEW a \in Agents, reservation[a] # NoRes,
         NEW outcome \in {"failed", "timed_out"}, NEW charged, NEW attempts,
         Unanswered(a, reservation[a], outcome, charged, attempts)
  PROVE  Grows(schedBox, schedBox', Plain) /\ SameCalls
<1> DEFINE r == reservation[a]
           c == att[r].call
           q == att[r].queue
           m == PresenceUpdate(a, "Logged Out")
           told == Broadcast(schedBox, m)
           n == Finished(a, c, outcome)
<1>1. /\ schedBox \in [Queues -> Seq(SchedMsg)] /\ qc \in [Calls -> QueuedCallState]
      /\ c \in Calls /\ q \in Queues
  BY DEF TypeInv, TypeOK, BoxesTypeOK, QueuedCallTypeOK, AttemptsStarted,
         StartedFor
<1>2. /\ m \in Plain /\ m \in SchedMsg /\ n \in Plain /\ n \in SchedMsg
  BY <1>1, PlainMessages DEF Plain, Others, DbPresence
<1>3. schedBox' \in {ToQueue(schedBox, q, n), ToQueue(told, q, n)}
  BY DEF Unanswered
<1>4. qc' = [qc EXCEPT ![c] = EndAttempt(@)]
  BY DEF Unanswered
<1> HIDE DEF m, n, q, c
<1>5. told \in [Queues -> Seq(SchedMsg)] /\ Grows(schedBox, told, Plain)
  BY <1>1, <1>2, SchedBoxes, GrowsByBroadcast
<1> HIDE DEF told
<1>6. ASSUME NEW box \in [Queues -> Seq(SchedMsg)]
      PROVE  ToQueue(box, q, n) \in [Queues -> Seq(SchedMsg)]
  BY <1>1, <1>2, SchedBoxes
<1>7. Grows(schedBox, ToQueue(schedBox, q, n), Plain)
  BY <1>1, <1>2, GrowsByToQueue
<1>8. Grows(told, ToQueue(told, q, n), Plain)
  BY <1>2, <1>5, GrowsByToQueue
<1>9. Grows(schedBox, ToQueue(told, q, n), Plain)
  BY <1>1, <1>5, <1>6, <1>8, GrowsTwice
<1>10. SameCalls
  BY <1>1, <1>4 DEF SameCalls, SameCall, EndAttempt, QueuedCallState
<1> QED
  BY <1>3, <1>7, <1>9, <1>10

LEMMA SessionGrows ==
  ASSUME TypeInv, NEW a \in Agents, SessionStep(a), ~DialerAnswered(a)
  PROVE  Grows(schedBox, schedBox', Plain) /\ SameCalls
<1>1. /\ TypeOK
      /\ schedBox \in [Queues -> Seq(SchedMsg)]
      /\ qc \in [Calls -> QueuedCallState]
      /\ \A p \in DbPresence : /\ PresenceUpdate(a, p) \in Plain
                               /\ PresenceUpdate(a, p) \in SchedMsg
  BY PlainMessages DEF TypeInv, TypeOK, BoxesTypeOK, QueuedCallTypeOK, Plain,
                       Others
<1>2. ASSUME NEW p \in DbPresence, schedBox' = Broadcast(schedBox, PresenceUpdate(a, p))
      PROVE  Grows(schedBox, schedBox', Plain)
  BY <1>1, <1>2, GrowsByBroadcast
<1>3. ASSUME schedBox' = schedBox PROVE Grows(schedBox, schedBox', Plain)
  BY <1>1, <1>3, NothingGrows
<1>4. ASSUME qc' = qc PROVE SameCalls
  BY <1>4 DEF SameCalls, SameCall
<1>5. /\ "On Call" \in DbPresence /\ "Available" \in DbPresence
      /\ "Busy" \in DbPresence /\ "Wrap Up" \in DbPresence
  BY DEF DbPresence
<1>6. CASE DialerFailed(a) \/ AttemptTimeout(a) \/ BridgeTimeout(a)
  <2>1. reservation[a] # NoRes
    BY <1>6 DEF DialerFailed, AttemptTimeout, BridgeTimeout, Current
  <2>2. \E outcome \in {"failed", "timed_out"} : \E charged, attempts :
          Unanswered(a, reservation[a], outcome, charged, attempts)
    BY <1>6 DEF DialerFailed, AttemptTimeout, BridgeTimeout, TimeOutAttempt
  <2> QED
    BY <2>1, <2>2, UnansweredGrows
<1>7. CASE AttemptStarts(a)
  <2>1. schedBox' = schedBox
    BY <1>7 DEF AttemptStarts
  <2>2. qc' = [qc EXCEPT ![Head(agentBox[a]).call] = BeginAttempt(@, a, next_res)]
    BY <1>7 DEF AttemptStarts
  <2>3. SameCalls
    BY <1>1, <2>2 DEF SameCalls, SameCall, BeginAttempt, QueuedCallState
  <2> QED
    BY <1>3, <2>1, <2>3
<1>8. CASE QueueMemberAnswered(a)
  BY <1>2, <1>3, <1>4, <1>5, <1>8 DEF QueueMemberAnswered, PresenceOnCall
<1>9. CASE QueueMemberRejected(a) \/ QueueMemberCallEnded(a)
  BY <1>2, <1>3, <1>4, <1>5, <1>9
  DEF QueueMemberRejected, QueueMemberCallEnded, ScheduleRestore
<1>10. CASE RestoreAgent(a)
  BY <1>2, <1>3, <1>4, <1>5, <1>10 DEF RestoreAgent
<1>11. CASE \/ AttemptRefused(a) \/ CancelAttempt(a) \/ LateLegEvent(a)
            \/ DialerMemberAnswered(a) \/ DialerDown(a) \/ StaleReport(a)
  BY <1>3, <1>4, <1>11
  DEF AttemptRefused, CancelAttempt, LateLegEvent, DialerMemberAnswered,
      DialerDown, StaleReport, Ignore
<1> QED
  BY <1>6, <1>7, <1>8, <1>9, <1>10, <1>11 DEF SessionStep

LEMMA AnsweredGrows ==
  ASSUME TypeInv, NEW a \in Agents, DialerAnswered(a)
  PROVE  LET c == att[reservation[a]].call
             q == att[reservation[a]].queue
         IN /\ c \in Calls /\ q \in Queues
            /\ Grows(schedBox, schedBox', Others)
            /\ Grows(schedBox, schedBox',
                     Plain \union {Finished(a, c, "answered")})
            /\ InBox(schedBox'[q], Finished(a, c, "answered"))
<1> DEFINE c == att[reservation[a]].call
           q == att[reservation[a]].queue
           n == Finished(a, c, "answered")
           m == PresenceUpdate(a, "On Call")
           first == ToQueue(schedBox, q, n)
           N == Plain \union {n}
<1>1. /\ schedBox \in [Queues -> Seq(SchedMsg)]
      /\ reservation[a] # NoRes /\ c \in Calls /\ q \in Queues
  BY DEF TypeInv, TypeOK, BoxesTypeOK, AttemptsStarted, StartedFor,
         DialerAnswered, Current
<1>2. /\ n \in SchedMsg /\ n \in Others /\ m \in SchedMsg /\ m \in Plain
  BY <1>1, PlainMessages DEF Plain, Others, DbPresence
<1>3. schedBox' \in {first, Broadcast(first, m)}
  BY DEF DialerAnswered, PresenceOnCall
<1> HIDE DEF m, n, q, c
<1>4. /\ first \in [Queues -> Seq(SchedMsg)]
      /\ Grows(schedBox, first, N)
  BY <1>1, <1>2, SchedBoxes, GrowsByToQueue
<1>5. InBox(first[q], n)
  <2>1. first[q] = Append(schedBox[q], n) /\ schedBox[q] \in Seq(SchedMsg)
    BY <1>1
    DEF ToQueue
  <2> QED
    BY <1>2, <2>1, KeptByAppend
<1> HIDE DEF first
<1>6. /\ Broadcast(first, m) \in [Queues -> Seq(SchedMsg)]
      /\ Grows(first, Broadcast(first, m), N)
  BY <1>2, <1>4, SchedBoxes, GrowsByBroadcast
<1>7. Grows(schedBox, Broadcast(first, m), N)
  BY <1>1, <1>4, <1>6, GrowsTwice
<1>8. InBox(Broadcast(first, m)[q], n)
  BY <1>1, <1>4, <1>5, <1>6, GrownBox
<1>9. Grows(schedBox, schedBox', N) /\ InBox(schedBox'[q], n)
  BY <1>3, <1>4, <1>5, <1>7, <1>8
<1>10. N \subseteq Others
  BY <1>2 DEF Plain
<1>11. Grows(schedBox, schedBox', Others)
  BY <1>9, <1>10 DEF Grows
<1> QED
  BY <1>1, <1>9, <1>11 DEF c, q, n

LEMMA SessionArrives ==
  ASSUME TypeInv, NEW a \in Agents, SessionStep(a)
  PROVE  Arrive(agentBox, agentBox', TrueMsg)
<1>1. TypeOK /\ agentBox[a] # <<>>
  BY SessionTakes DEF TypeInv
<1>2. CASE agentBox' = Rest(a)
  BY <1>1, <1>2, RestArrives
<1>3. CASE DialerDown(a) /\ reservation[a] # NoRes
  <2> DEFINE n == Report("dialer_failed", reservation[a])
  <2>1. agentBox' = ToAgent(Rest(a), a, n)
    BY <1>3 DEF DialerDown
  <2>2. reservation[a] \in Res
    BY <1>1, <1>3, QueueConstants
    DEF TypeOK, AgentSessionTypeOK, Res, NoRes
  <2>3. n \in AgentMsg /\ n.type = "dialer_failed"
    BY <2>2, AgentMessages DEF Report
  <2> HIDE DEF n
  <2>4. n \in TrueMsg
    BY <2>3 DEF TrueMsg
  <2>5. Rest(a) \in [Agents -> Seq(AgentMsg)]
    BY <1>1, FirstMessage
  <2>6. Arrive(Rest(a), agentBox', TrueMsg)
    BY <2>1, <2>3, <2>4, <2>5, ArriveByToAgent
  <2> QED
    BY <1>1, <2>6, RestArrives, ArriveTwice
<1> QED
  BY <1>1, <1>2, <1>3
  DEF SessionStep, AttemptRefused, AttemptStarts, CancelAttempt,
      QueueMemberAnswered, QueueMemberRejected, QueueMemberCallEnded,
      LateLegEvent, DialerMemberAnswered, DialerAnswered, DialerFailed,
      AttemptTimeout, BridgeTimeout, TimeOutAttempt, DialerDown, StaleReport,
      Ignore, RestoreAgent

(* An answer changes nothing else of the request.                          *)
LEMMA SessionPending ==
  ASSUME TypeInv, NEW a \in Agents, SessionStep(a)
  PROVE  SamePending /\ customer' = customer
<1>1. pending \in [Queues -> Pending]
  BY DEF TypeInv, TypeOK, BoxesTypeOK
<1>2. \A p \in Pending : \A answer :
        LET k == [p EXCEPT !.answer = answer]
        IN k.request = p.request /\ k.call = p.call /\ k.after = p.after
  BY DEF Pending, Idle
<1>3. ASSUME NEW m, NEW answer, Answer(a, m, answer) PROVE SamePending
  <2>1. \A q \in Queues :
          pending'[q] \in {pending[q], [pending[q] EXCEPT !.answer = answer]}
    BY <1>1, <1>3 DEF Answer
  <2>2. ASSUME NEW q \in Queues
        PROVE  /\ pending'[q].request = pending[q].request
               /\ pending'[q].call = pending[q].call
               /\ pending'[q].after = pending[q].after
    <3>1. CASE pending'[q] = [pending[q] EXCEPT !.answer = answer]
      BY <1>1, <1>2, <3>1
    <3> QED
      BY <2>1, <3>1
  <2> QED
    BY <2>2 DEF SamePending
<1>4. ASSUME pending' = pending PROVE SamePending
  BY <1>4 DEF SamePending
<1>5. CASE AttemptRefused(a) \/ AttemptStarts(a) \/ CancelAttempt(a)
  BY <1>3, <1>5 DEF AttemptRefused, AttemptStarts, CancelAttempt, attemptVars
<1>6. CASE ~(AttemptRefused(a) \/ AttemptStarts(a) \/ CancelAttempt(a))
  <2>1. pending' = pending /\ customer' = customer
    BY <1>6
    DEF SessionStep, QueueMemberAnswered, QueueMemberRejected,
        QueueMemberCallEnded, LateLegEvent, DialerMemberAnswered,
        DialerAnswered, DialerFailed, AttemptTimeout, BridgeTimeout,
        TimeOutAttempt, Unanswered, DialerDown, StaleReport, Ignore,
        RestoreAgent, attemptVars
  <2> QED
    BY <1>4, <2>1
<1> QED
  BY <1>5, <1>6

(* Sessions have no hand in the legs.                                      *)
SameLegs(k, l) ==
  /\ k.call = l.call /\ k.queue = l.queue
  /\ k.leg = l.leg /\ k.dial = l.dial

LEMMA SessionBridges ==
  ASSUME TypeInv, NEW a \in Agents, SessionStep(a) \/ AttemptTimerFires(a),
         ~AttemptStarts(a)
  PROVE  SameBridges
<1>1. att \in [Res -> Attempt] /\ dialer[a] \in 0..MaxRes
  BY DEF TypeInv, TypeOK, DialerTypeOK
<1>2. \A k \in Attempt :
        /\ \A t : SameLegs([k EXCEPT !.timer = t], k)
        /\ SameLegs([k EXCEPT !.timer = "off", !.cancelled = TRUE], k)
        /\ \A b : SameLegs([k EXCEPT !.hupall = TRUE, !.cancelled = b], k)
  BY DEF Attempt, SameLegs
<1>3. ASSUME NEW s, NEW k, att' = [att EXCEPT ![s] = k], next_res' = next_res,
             s \in Res => SameLegs(k, att[s])
      PROVE  SameBridges
  <2>1. ASSUME NEW r \in Res PROVE SameLegs(att'[r], att[r])
    BY <1>1, <1>3 DEF SameLegs
  <2> QED
    BY <1>3, <2>1 DEF SameBridges, EverBridged, NotBegun, SameLegs
<1>4. CASE UNCHANGED <<att, next_res>>
  BY <1>4 DEF SameBridges, EverBridged, NotBegun
<1>5. CASE CancelAttempt(a) /\ att' # att
  <2> DEFINE s == reservation[a]
             k == [att[s] EXCEPT !.hupall = TRUE,
                                 !.cancelled = @ \/ dialer[a] # NoRes]
  <2>1. att' = [att EXCEPT ![s] = k] /\ next_res' = next_res
    BY <1>1, <1>5 DEF CancelAttempt
  <2>2. s \in Res => SameLegs(k, att[s])
    BY <1>1, <1>2
  <2> HIDE DEF k
  <2> QED
    BY <1>3, <2>1, <2>2
<1>6. CASE next_res' = next_res /\ \E s, t : att' = [att EXCEPT ![s].timer = t]
  <2>1. PICK s, t : att' = [att EXCEPT ![s].timer = t]
    BY <1>6
  <2>2. att' = [att EXCEPT ![s] = [att[s] EXCEPT !.timer = t]]
    BY <2>1
  <2> QED
    BY <1>1, <1>2, <1>3, <1>6, <2>2
<1>7. CASE /\ next_res' = next_res
           /\ \E s : att' = [att EXCEPT ![s].timer = "off",
                                        ![s].cancelled = TRUE]
  <2>1. PICK s : att' = [att EXCEPT ![s].timer = "off", ![s].cancelled = TRUE]
    BY <1>7
  <2>2. att' = [att EXCEPT ![s] = [att[s] EXCEPT !.timer = "off",
                                                 !.cancelled = TRUE]]
    BY <1>1, <2>1
  <2> QED
    BY <1>1, <1>2, <1>3, <1>7, <2>2
<1>8. CASE AttemptTimeout(a) \/ BridgeTimeout(a)
  BY <1>4, <1>7, <1>8
  DEF AttemptTimeout, BridgeTimeout, TimeOutAttempt, Unanswered
<1>9. CASE \/ DialerMemberAnswered(a) \/ DialerAnswered(a) \/ DialerFailed(a)
           \/ AttemptTimerFires(a)
  BY <1>4, <1>6, <1>9
  DEF DialerMemberAnswered, DialerAnswered, DialerFailed, Unanswered, TimerOff,
      Backstop, AttemptTimerFires
<1>10. CASE CancelAttempt(a) /\ att' = att
  BY <1>4, <1>10 DEF CancelAttempt
<1>11. CASE \/ AttemptRefused(a) \/ QueueMemberAnswered(a)
            \/ QueueMemberRejected(a) \/ QueueMemberCallEnded(a)
            \/ LateLegEvent(a) \/ DialerDown(a) \/ StaleReport(a)
            \/ RestoreAgent(a)
  BY <1>4, <1>11
  DEF AttemptRefused, QueueMemberAnswered, QueueMemberRejected,
      QueueMemberCallEnded, LateLegEvent, DialerDown, StaleReport, RestoreAgent,
      Ignore, attemptVars
<1> QED
  BY <1>5, <1>8, <1>9, <1>10, <1>11 DEF SessionStep

LEMMA StartKeeps ==
  ASSUME TypeInv, TypeInv', PromiseInv, NEW a \in Agents, AttemptStarts(a),
         waiting' = waiting
  PROVE  PromiseInv'
<1> DEFINE m == Head(agentBox[a])
           r == next_res
<1>1. /\ TypeOK /\ TypeOK' /\ SessionStep(a)
      /\ AddedOnce /\ AddedIsNew /\ HangUpIsReal /\ AttemptsPlaced
      /\ AnswerIsBridge /\ RequestsPlaced /\ WaitingPlaced
  BY DEF TypeInv, PromiseInv, SessionStep
<1>2. /\ agentBox[a] \in Seq(AgentMsg) /\ agentBox[a] # <<>>
      /\ m.type = "attempt"
      /\ att \in [Res -> Attempt] /\ r \in Res
      /\ att' = [att EXCEPT ![r] = NewAttempt(a, m.queue, m.call)]
      /\ next_res' = r + 1 /\ customer' = customer
  BY <1>1 DEF TypeOK, BoxesTypeOK, DialerTypeOK, AttemptStarts, Takes
<1>3. /\ InBox(agentBox[a], m) /\ m \in AgentMsg
      /\ m.queue \in Queues /\ m.call \in Calls
  BY <1>2, TailHolds, AgentMsgFields
<1>4. PICK q \in Queues, c \in Calls :
        q = m.queue /\ c = m.call /\ InQueue(q, c)
  BY <1>1, <1>2, <1>3 DEF RequestsPlaced
<1>5. /\ ~DialerAnswered(a)
      /\ Grows(schedBox, schedBox', Plain) /\ SameCalls
      /\ Arrive(agentBox, agentBox', TrueMsg)
      /\ SamePending
  <2>1. ~DialerAnswered(a)
    BY <1>2 DEF DialerAnswered, Takes
  <2> QED
    BY <1>1, <2>1, SessionGrows, SessionArrives, SessionPending
<1>6. Grows(schedBox, schedBox', Others)
  BY <1>5, PlainIsOther
<1>7. \A p \in Queues, d \in Calls : InQueue(p, d) => InQueue(p, d)'
  BY <1>5, CallsStayInQueue
<1>8. \A s \in Res \ {r} : att'[s] = att[s]
  BY <1>2
<1>9. AddedOnce' /\ AddedIsNew'
  <2>1. \A d \in Calls : CallMsg("add_waiting_call", d) \notin Others
    BY SpecialMessages
  <2> QED
    BY <1>1, <1>2, <1>5, <1>6, <2>1, AddedStays
<1>10. HangUpIsReal'
  <2>1. \A d \in Calls : CallMsg("call_hung_up", d) \notin Others
    BY SpecialMessages
  <2>2. \A d \in Calls : qc'[d].state = qc[d].state
    BY <1>5 DEF SameCalls, SameCall
  <2> QED
    BY <1>1, <1>2, <1>5, <1>6, <2>1, <2>2, HangUpStays
<1>11. AttemptsPlaced'
  <2>1. att'[r].call = c /\ att'[r].queue = q
    BY <1>2, <1>4, NewAttemptType
  <2>2. ASSUME NEW s \in Res
        PROVE  IF s < next_res'
               THEN /\ att'[s].call \in Calls
                    /\ att'[s].queue \in Queues
                    /\ InQueue(att[s].queue, att[s].call)'
               ELSE NotBegun(s)'
    <3>1. CASE s = r
      <4>1. s < next_res'
        BY <1>2, <3>1 DEF Res
      <4>2. InQueue(q, c)'
        BY <1>4, <1>7
      <4>3. InQueue(att[s].queue, att[s].call)'
        BY <2>1, <3>1, <4>2 DEF InQueue
      <4> QED
        BY <2>1, <3>1, <4>1, <4>3
    <3>2. CASE s # r /\ s < next_res
      <4>1. s < next_res'
        BY <1>2, <3>2 DEF Res
      <4>2. /\ att[s].call \in Calls /\ att[s].queue \in Queues
            /\ InQueue(att[s].queue, att[s].call)
        BY <1>1, <3>2 DEF AttemptsPlaced
      <4>3. InQueue(att[s].queue, att[s].call)'
        BY <1>7, <1>8, <3>2, <4>2 DEF InQueue
      <4> QED
        BY <1>8, <3>2, <4>1, <4>2, <4>3
    <3>3. CASE s # r /\ ~(s < next_res)
      <4>1. ~(s < next_res')
        BY <1>2, <3>3 DEF Res
      <4>2. NotBegun(s)
        BY <1>1, <3>3 DEF AttemptsPlaced
      <4> QED
        BY <1>8, <3>3, <4>1, <4>2 DEF NotBegun
    <3> QED
      BY <3>1, <3>2, <3>3
  <2> QED
    BY <2>2 DEF AttemptsPlaced
<1>12. AnswerIsBridge'
  <2>1. NotBegun(r)
    BY <1>1, <1>2 DEF AttemptsPlaced, Res
  <2>2. ~EverBridged(r)
    BY <2>1 DEF NotBegun, EverBridged
  <2>3. BridgesKept
    BY <1>8, <2>2 DEF BridgesKept, EverBridged
  <2>4. \A d \in Calls : qc'[d].state = qc[d].state
    BY <1>5 DEF SameCalls, SameCall
  <2> QED
    BY <1>1, <1>5, <2>3, <2>4, AnswersStay
<1>13. RequestsPlaced'
  BY <1>1, <1>5, <1>7, RequestsStay DEF SamePending
<1>14. WaitingPlaced'
  BY <1>1, <1>7 DEF WaitingPlaced
<1> QED
  BY <1>9, <1>10, <1>11, <1>12, <1>13, <1>14 DEF PromiseInv

(* The report of a bridge.                                                 *)
LEMMA AnsweredCall ==
  ASSUME TypeInv, PromiseInv, NEW a \in Agents, DialerAnswered(a)
  PROVE  \E r \in Res, c \in Calls, q \in Queues :
           /\ r = reservation[a] /\ c = att[r].call /\ q = att[r].queue
           /\ EverBridged(r) /\ InQueue(q, c)
           /\ qc' = [qc EXCEPT ![c] = Stop(@, "answered")]
           /\ Done(c)'
           /\ CallsOnward
<1> DEFINE r == reservation[a]
           m == Head(agentBox[a])
<1>1. /\ TypeOK /\ AttemptsPlaced /\ AnswerIsBridge
      /\ agentBox[a] \in Seq(AgentMsg) /\ agentBox[a] # <<>>
      /\ m.type = "dialer_answered" /\ m.res = r /\ r # NoRes
  BY DEF TypeInv, PromiseInv, TypeOK, BoxesTypeOK, DialerAnswered, Takes,
         Current
<1>2. InBox(agentBox[a], m) /\ m \in AgentMsg
  BY <1>1, TailHolds
<1>3. r \in Res /\ EverBridged(r)
  BY <1>1, <1>2, AgentMsgFields DEF AnswerIsBridge
<1>4. r < next_res
  BY <1>1 DEF TypeInv, AttemptsStarted, StartedFor
<1>5. PICK c \in Calls, q \in Queues :
        c = att[r].call /\ q = att[r].queue /\ InQueue(q, c)
  BY <1>1, <1>3, <1>4 DEF AttemptsPlaced
<1>6. qc' = [qc EXCEPT ![c] = Stop(@, "answered")]
  BY <1>5 DEF DialerAnswered
<1>7. qc \in [Calls -> QueuedCallState]
  BY <1>1 DEF TypeOK, QueuedCallTypeOK
<1>8. qc[c].state \in {"live", "answered", "abandoned"}
  BY <1>5, <1>7 DEF QueuedCallState, InQueue
<1>9. qc'[c] = Stop(qc[c], "answered")
  BY <1>6, <1>7
<1>10. NoProcess("answered").state = "answered"
  BY DEF NoProcess
<1>11. Done(c)'
  BY <1>8, <1>9, <1>10 DEF Stop, Alive, Done
<1>12. \A d \in Calls \ {c} : qc'[d] = qc[d]
  BY <1>6, <1>7
<1>13. CallsOnward
  BY <1>3, <1>5, <1>9, <1>10, <1>12 DEF CallsOnward, SameCall, Stop
<1> QED
  BY <1>3, <1>5, <1>6, <1>11, <1>13

LEMMA AnsweredKeeps ==
  ASSUME TypeInv, TypeInv', PromiseInv, WaitingInv, NEW a \in Agents,
         DialerAnswered(a), waiting' = waiting, crashes' = crashes
  PROVE  PromiseInv' /\ WaitingInv'
<1>1. /\ TypeOK /\ TypeOK' /\ SessionStep(a)
      /\ schedBox \in [Queues -> Seq(SchedMsg)]
      /\ schedBox' \in [Queues -> Seq(SchedMsg)]
      /\ qc \in [Calls -> QueuedCallState]
  BY DEF TypeInv, SessionStep, TypeOK, BoxesTypeOK, QueuedCallTypeOK
<1>2. PICK r \in Res, c \in Calls, q \in Queues :
        /\ r = reservation[a] /\ c = att[r].call /\ q = att[r].queue
        /\ EverBridged(r) /\ InQueue(q, c)
        /\ qc' = [qc EXCEPT ![c] = Stop(@, "answered")]
        /\ Done(c)'
        /\ CallsOnward
  BY AnsweredCall
<1>3. /\ Grows(schedBox, schedBox', Others)
      /\ InBox(schedBox'[q], Finished(a, c, "answered"))
      /\ \A p \in Queues : \A m : InBox(schedBox'[p], m) =>
           InBox(schedBox[p], m) \/ m \in Plain
           \/ m = Finished(a, c, "answered")
  <2> DEFINE n == Finished(a, c, "answered")
             N == Plain \union {n}
  <2>1. /\ Grows(schedBox, schedBox', Others)
        /\ Grows(schedBox, schedBox', N)
        /\ InBox(schedBox'[q], n)
    BY <1>2, AnsweredGrows
  <2>2. \A m : m \in N => m \in Plain \/ m = n
    OBVIOUS
  <2> HIDE DEF N
  <2>3. \A p \in Queues : \A m :
          InBox(schedBox'[p], m) => InBox(schedBox[p], m) \/ m \in N
    BY <1>1, <2>1, GrownBox
  <2> QED
    BY <2>1, <2>2, <2>3
<1>4. SamePending /\ customer' = customer
  BY <1>1, SessionPending
<1>5. PromiseInv'
  <2>1. ~AttemptStarts(a)
    BY DEF DialerAnswered, AttemptStarts, Takes
  <2>2. BridgesOnward
    BY <1>1, <2>1, SessionBridges DEF SameBridges, BridgesOnward
  <2>3. Arrive(agentBox, agentBox', TrueMsg)
    BY <1>1, SessionArrives
  <2>4. \A d \in Calls : qc'[d].state = "abandoned" => qc[d].state = "abandoned"
    <3>1. \A d \in Calls : qc'[d] \in {qc[d], NoProcess("answered")}
      BY <1>1, <1>2 DEF Stop
    <3> QED
      BY <3>1 DEF NoProcess
  <2>5. SameCustomers
    BY <1>4 DEF SameCustomers
  <2> QED
    BY <1>1, <1>2, <1>3, <1>4, <2>2, <2>3, <2>4, <2>5, PromiseStays
<1>6. RemovedIsDone'
  <2>1. ASSUME NEW p \in Queues, NEW b \in Agents, NEW d \in Calls,
               InBox(schedBox'[p], Finished(b, d, "answered"))
        PROVE  Done(d)'
    <3>1. Finished(b, d, "answered") \notin Plain
      BY DEF Plain, Answers, Finished
    <3>2. CASE InBox(schedBox[p], Finished(b, d, "answered"))
      BY <1>2, <3>2, CallsStayInQueue DEF WaitingInv, RemovedIsDone
    <3>3. CASE Finished(b, d, "answered") = Finished(a, c, "answered")
      <4>1. d = c
        BY <3>3 DEF Finished
      <4> QED
        BY <1>2, <4>1
    <3> QED
      BY <1>3, <2>1, <3>1, <3>2, <3>3
  <2>2. ASSUME NEW p \in Queues, NEW d \in Calls,
               pending'[p].call = d, pending'[p].after = "forget_call"
        PROVE  Done(d)'
    BY <1>2, <1>4, <2>2, CallsStayInQueue
    DEF WaitingInv, RemovedIsDone, SamePending
  <2> QED
    BY <2>1, <2>2 DEF RemovedIsDone
<1>7. crashes' = 0 => LiveCallIsWaiting'
  <2> SUFFICES ASSUME crashes' = 0, NEW d \in Calls, Alive(qc[d])'
               PROVE  Contains(waiting[qc[d].queue], d)'
    BY DEF LiveCallIsWaiting
  <2>1. Alive(qc[d]) /\ qc'[d].queue = qc[d].queue
    BY <1>2, CallsStayInQueue
  <2> QED
    BY <2>1 DEF WaitingInv, LiveCallIsWaiting
<1>8. DeadCallLeavesWaiting'
  <2> SUFFICES ASSUME NEW p \in Queues, NEW d \in Calls,
                      Contains(waiting'[p], d), ~Alive(qc'[d])
               PROVE  \/ \E b \in Agents :
                           InBox(schedBox'[p], Finished(b, d, "answered"))
                      \/ pending'[p].call = d /\ pending'[p].after = "forget_call"
    BY DEF DeadCallLeavesWaiting
  <2>1. CASE ~Alive(qc[d])
    <3>1. \/ \E b \in Agents : InBox(schedBox[p], Finished(b, d, "answered"))
          \/ pending[p].call = d /\ pending[p].after = "forget_call"
      BY <2>1 DEF WaitingInv, DeadCallLeavesWaiting
    <3>2. \A m : InBox(schedBox[p], m) => InBox(schedBox'[p], m)
      BY <1>1, <1>3, GrownBox
    <3> QED
      BY <1>4, <3>1, <3>2 DEF SamePending
  <2>2. CASE Alive(qc[d])
    <3>1. d = c
      BY <1>1, <1>2, <2>2
    <3>2. InQueue(p, c)
      BY <3>1 DEF PromiseInv, WaitingPlaced
    <3>3. p = q
      BY <1>2, <2>2, <3>1, <3>2 DEF InQueue
    <3> QED
      BY <1>3, <3>1, <3>3
  <2> QED
    BY <2>1, <2>2
<1>9. LivePlaced'
  BY <1>2 DEF WaitingInv, LivePlaced, CallsOnward, SameCall, Alive
<1> QED
  BY <1>5, <1>6, <1>7, <1>8, <1>9 DEF WaitingInv

LEMMA SessionKeeps ==
  ASSUME TypeInv, TypeInv', PromiseInv, WaitingInv, NEW a \in Agents,
         SessionStep(a), UNCHANGED NotSession
  PROVE  PromiseInv' /\ WaitingInv'
<1>1. /\ TypeOK /\ TypeOK' /\ waiting' = waiting /\ crashes' = crashes
  BY DEF TypeInv, NotSession, schedVars, bounds
<1>2. CASE DialerAnswered(a)
  BY <1>1, <1>2, AnsweredKeeps
<1>3. CASE ~DialerAnswered(a)
  <2>1. /\ Grows(schedBox, schedBox', Plain) /\ SameCalls
        /\ Arrive(agentBox, agentBox', TrueMsg)
        /\ SamePending /\ customer' = customer
    BY <1>3, SessionGrows, SessionArrives, SessionPending
  <2>2. WaitingInv'
    BY <1>1, <2>1, WaitingStays, PlainAnswersNothing
  <2>3. CASE AttemptStarts(a)
    BY <1>1, <2>2, <2>3, StartKeeps
  <2>4. CASE ~AttemptStarts(a)
    <3>1. BridgesOnward
      BY <2>4, SessionBridges DEF SameBridges, BridgesOnward
    <3>2. Grows(schedBox, schedBox', Others) /\ SameCustomers
      BY <2>1, PlainIsOther DEF SameCustomers
    <3>3. \A d \in Calls : qc'[d].state = qc[d].state
      BY <2>1 DEF SameCalls, SameCall
    <3> QED
      BY <1>1, <2>1, <2>2, <3>1, <3>2, <3>3, PromiseStays
  <2> QED
    BY <2>3, <2>4
<1> QED
  BY <1>2, <1>3

----------------------------------------------------------------------------
(* The Dialers and FreeSWITCH.                                             *)

(* From k to l a leg may have ended, nothing else.                         *)
LegGoesOn(l, k) ==
  /\ l.call = k.call /\ l.queue = k.queue
  /\ l.leg \in {"bridged", "over"} <=> k.leg \in {"bridged", "over"}
  /\ k.leg = "none" /\ k.dial = "none" => l.leg = "none" /\ l.dial = "none"

LEMMA LegChanges ==
  ASSUME NEW k \in Attempt
  PROVE  /\ LegGoesOn(k, k)
         /\ LegGoesOn([k EXCEPT !.leg = Ended(@)], k)
         /\ \A f : LegGoesOn([k EXCEPT !.fork = f], k)
         /\ LegGoesOn([Hupall(k) EXCEPT !.hupall = FALSE], k)
         /\ k.leg = "ringing" => LegGoesOn([k EXCEPT !.leg = "up"], k)
         /\ k.leg = "none" /\ k.dial # "none" =>
              \A f : LegGoesOn([k EXCEPT !.leg = "ringing", !.fork = f], k)
         /\ k.dial # "none" =>
              /\ \A d : LegGoesOn([k EXCEPT !.dial = d], k)
              /\ \A d : LegGoesOn([k EXCEPT !.dial = d, !.leg = Ended(@)], k)
              /\ \A d : LegGoesOn([Hupall(k) EXCEPT !.dial = d], k)
<1>1. /\ Ended(k.leg) \in {"bridged", "over"} <=> k.leg \in {"bridged", "over"}
      /\ k.leg = "none" => Ended(k.leg) = "none"
  BY DEF Ended, Attempt
<1>2. \A f : LegGoesOn([k EXCEPT !.fork = f], k)
  BY DEF LegGoesOn, Attempt
<1>3. LegGoesOn(k, k) /\ LegGoesOn([k EXCEPT !.leg = Ended(@)], k)
  BY <1>1 DEF LegGoesOn, Attempt
<1>4. LegGoesOn([Hupall(k) EXCEPT !.hupall = FALSE], k)
  BY <1>1 DEF LegGoesOn, Attempt, Hupall
<1>5. k.leg = "ringing" => LegGoesOn([k EXCEPT !.leg = "up"], k)
  BY DEF LegGoesOn, Attempt
<1>6. k.leg = "none" /\ k.dial # "none" =>
        \A f : LegGoesOn([k EXCEPT !.leg = "ringing", !.fork = f], k)
  BY DEF LegGoesOn, Attempt
<1>7. k.dial # "none" =>
        /\ \A d : LegGoesOn([k EXCEPT !.dial = d], k)
        /\ \A d : LegGoesOn([k EXCEPT !.dial = d, !.leg = Ended(@)], k)
  BY <1>1 DEF LegGoesOn, Attempt
<1>8. k.dial # "none" => \A d : LegGoesOn([Hupall(k) EXCEPT !.dial = d], k)
  BY <1>1 DEF LegGoesOn, Attempt, Hupall
<1> QED
  BY <1>2, <1>3, <1>4, <1>5, <1>6, <1>7, <1>8

LEMMA AttemptBridges ==
  ASSUME TypeInv, NEW r \in Res, NEW k, att' = [att EXCEPT ![r] = k],
         LegGoesOn(k, att[r]), next_res' = next_res
  PROVE  SameBridges
<1>1. att \in [Res -> Attempt]
  BY DEF TypeInv, TypeOK, DialerTypeOK
<1>2. ASSUME NEW s \in Res PROVE LegGoesOn(att'[s], att[s])
  BY <1>1 DEF LegGoesOn
<1> QED
  BY <1>2 DEF SameBridges, EverBridged, NotBegun, LegGoesOn

LEMMA LegsBridges ==
  ASSUME TypeInv, NEW r \in Res, LegStep(r)
  PROVE  SameBridges
<1>1. att[r] \in Attempt
  BY DEF TypeInv, TypeOK, DialerTypeOK
<1>2. next_res' = next_res
  BY DEF LegStep, Ring, LegAnswers, LegEnds, ForkEnds, HupallRuns
<1>3. \E k : att' = [att EXCEPT ![r] = k] /\ LegGoesOn(k, att[r])
  <2>1. CASE Ring(r)
    <3> DEFINE f == IF SecondLeg THEN "ringing" ELSE "gone"
               k == [att[r] EXCEPT !.leg = "ringing", !.fork = f]
    <3>1. att' = [att EXCEPT ![r] = k]
      BY <2>1 DEF Ring, TypeInv, TypeOK, DialerTypeOK
    <3>2. LegGoesOn(k, att[r])
      BY <1>1, <2>1, LegChanges DEF Ring
    <3> QED
      BY <3>1, <3>2
  <2>2. CASE LegAnswers(r)
    BY <1>1, <2>2, LegChanges DEF LegAnswers
  <2>3. CASE LegEnds(r)
    BY <1>1, <2>3, LegChanges DEF LegEnds
  <2>4. CASE ForkEnds(r)
    BY <1>1, <2>4, LegChanges DEF ForkEnds
  <2>5. CASE HupallRuns(r)
    BY <1>1, <2>5, LegChanges DEF HupallRuns
  <2> QED
    BY <2>1, <2>2, <2>3, <2>4, <2>5 DEF LegStep
<1> QED
  BY <1>2, <1>3, AttemptBridges

LEMMA DialersBridges ==
  ASSUME TypeInv, NEW r \in Res, DialerStep(r) \/ DialerCrashes(r),
         ~UuidBridge(r)
  PROVE  SameBridges
<1>1. att[r] \in Attempt
  BY DEF TypeInv, TypeOK, DialerTypeOK
<1>2. next_res' = next_res /\ att[r].dial # "none"
  BY DEF DialerStep, OriginateRejected, OriginateAnswered, BridgeSucceeded,
         BridgeFails, DialerExits, DialerCrashes, Running
<1>3. \E k : att' = [att EXCEPT ![r] = k] /\ LegGoesOn(k, att[r])
  <2>1. CASE \E d : att' = [att EXCEPT ![r].dial = d]
    BY <1>1, <1>2, <2>1, LegChanges
  <2>2. CASE BridgeFails(r)
    <3> DEFINE k == [att[r] EXCEPT !.dial = "failing", !.leg = Ended(@)]
    <3>1. att' = [att EXCEPT ![r] = k]
      BY <2>2 DEF BridgeFails, TypeInv, TypeOK, DialerTypeOK
    <3>2. LegGoesOn(k, att[r])
      BY <1>1, <1>2, LegChanges
    <3> QED
      BY <3>1, <3>2
  <2>3. CASE DialerExits(r) /\ att[r].dial = "failing"
    BY <1>1, <1>2, <2>3, LegChanges DEF DialerExits
  <2>4. CASE \/ OriginateRejected(r) \/ OriginateAnswered(r)
             \/ BridgeSucceeded(r) \/ DialerCrashes(r)
             \/ DialerExits(r) /\ att[r].dial # "failing"
    BY <2>1, <2>4
    DEF OriginateRejected, OriginateAnswered, BridgeSucceeded, DialerCrashes,
        DialerExits
  <2> QED
    BY <2>2, <2>3, <2>4 DEF DialerStep
<1> QED
  BY <1>2, <1>3, AttemptBridges

(* uuid_bridge bridges its own leg; the leg it takes the customer from has *)
(* been bridged.                                                           *)
LEMMA UuidBridgeBridges ==
  ASSUME TypeInv, NEW r \in Res, UuidBridge(r)
  PROVE  /\ BridgesOnward
         /\ EverBridged(r)' /\ ~EverBridged(r)
         /\ \A s \in Res \ {r} : EverBridged(s)' <=> EverBridged(s)
         /\ customer[att[r].call] = "up"
         /\ ~NotBegun(r)
<1>1. att \in [Res -> Attempt]
  BY DEF TypeInv, TypeOK, DialerTypeOK
<1>2. ASSUME NEW k \in Attempt, NEW l, NEW e, e = [k EXCEPT !.leg = l]
      PROVE  /\ e.leg = l /\ e.call = k.call /\ e.queue = k.queue
             /\ e.dial = k.dial
  BY <1>2 DEF Attempt
<1>3. /\ att[r].leg = "up" /\ customer[att[r].call] = "up"
      /\ next_res' = next_res
  BY DEF UuidBridge
<1>4. att'[r] = [att[r] EXCEPT !.leg = "bridged"]
  BY DEF UuidBridge
<1>5. ASSUME NEW s \in Res \ {r}
      PROVE  \/ att'[s] = att[s]
             \/ att[s].leg = "bridged" /\ att'[s] = [att[s] EXCEPT !.leg = "over"]
  BY DEF UuidBridge
<1>6. ASSUME NEW s \in Res
      PROVE  /\ att'[s].call = att[s].call /\ att'[s].queue = att[s].queue
             /\ att'[s].dial = att[s].dial
             /\ s = r => att'[s].leg = "bridged"
             /\ s # r => \/ att'[s].leg = att[s].leg
                         \/ att[s].leg = "bridged" /\ att'[s].leg = "over"
  <2>1. att[s] \in Attempt
    BY <1>1
  <2>2. CASE s = r
    BY <1>2, <1>4, <2>1, <2>2
  <2>3. CASE s # r /\ att'[s] = att[s]
    BY <2>3
  <2>4. CASE /\ s # r /\ att[s].leg = "bridged"
             /\ att'[s] = [att[s] EXCEPT !.leg = "over"]
    <3>1. /\ att'[s].leg = "over" /\ att'[s].call = att[s].call
          /\ att'[s].queue = att[s].queue /\ att'[s].dial = att[s].dial
      BY <1>2, <2>1, <2>4
    <3> QED
      BY <2>4, <3>1
  <2> QED
    BY <1>5, <2>2, <2>3, <2>4
<1> QED
  BY <1>3, <1>6 DEF BridgesOnward, EverBridged, NotBegun

LEMMA DialersArrive ==
  ASSUME TypeInv, NEW r \in Res, DialerStep(r) \/ LegStep(r) \/ DialerCrashes(r)
  PROVE  Arrive(agentBox, agentBox', TrueMsg)
<1>1. agentBox \in [Agents -> Seq(AgentMsg)]
  BY DEF TypeInv, TypeOK, BoxesTypeOK
<1>2. CASE agentBox' = agentBox
  BY <1>2 DEF Arrive
<1>3. ASSUME NEW type \in {"dialer_failed", "dialer_member_answered", "DOWN",
                           "dialer_answered"}, NEW x,
             type = "dialer_answered" => EverBridged(r),
             agentBox' = ToAgent(agentBox, x, Report(type, r))
      PROVE  Arrive(agentBox, agentBox', TrueMsg)
  <2> DEFINE n == Report(type, r)
  <2>1. n \in AgentMsg /\ n.type = type /\ n.res = r
    BY AgentMessages DEF Report
  <2> HIDE DEF n
  <2>2. n \in TrueMsg
    BY <1>3, <2>1 DEF TrueMsg
  <2> QED
    BY <1>1, <1>3, <2>1, <2>2, ArriveByToAgent DEF n
<1>4. CASE OriginateRejected(r) \/ OriginateAnswered(r) \/ BridgeFails(r)
  BY <1>3, <1>4 DEF OriginateRejected, OriginateAnswered, BridgeFails
<1>5. CASE BridgeSucceeded(r)
  BY <1>3, <1>5 DEF BridgeSucceeded
<1>6. CASE DialerExits(r) \/ DialerCrashes(r)
  BY <1>2, <1>3, <1>6 DEF DialerExits, DialerCrashes, Down
<1>7. CASE LegStep(r) \/ UuidBridge(r)
  BY <1>2, <1>7
  DEF LegStep, Ring, LegAnswers, LegEnds, ForkEnds, HupallRuns, UuidBridge,
      boxVars
<1> QED
  BY <1>4, <1>5, <1>6, <1>7 DEF DialerStep

(* A step that only the legs, the Dialers' reports or the customers'       *)
(* hanging up are about.                                                   *)
LEMMA QuietKeeps ==
  ASSUME TypeInv, TypeInv', PromiseInv, WaitingInv,
         Grows(schedBox, schedBox', Plain),
         Arrive(agentBox, agentBox', TrueMsg),
         UNCHANGED <<qc, pending, waiting>>, BridgesOnward, SameCustomers,
         crashes' = 0 => crashes = 0
  PROVE  PromiseInv' /\ WaitingInv'
<1>1. TypeOK /\ TypeOK'
  BY DEF TypeInv
<1>2. SameCalls /\ SamePending
  BY DEF SameCalls, SameCall, SamePending
<1>3. Grows(schedBox, schedBox', Others)
  BY PlainIsOther
<1>4. WaitingInv'
  BY <1>1, <1>2, WaitingStays, PlainAnswersNothing
<1>5. PromiseInv'
  BY <1>1, <1>2, <1>3, PromiseStays
<1> QED
  BY <1>4, <1>5

LEMMA DialersKeep ==
  ASSUME TypeInv, TypeInv', PromiseInv, WaitingInv, NEW r \in Res,
         DialerStep(r) \/ LegStep(r) \/ DialerCrashes(r), waiting' = waiting,
         crashes' = 0 => crashes = 0
  PROVE  PromiseInv' /\ WaitingInv'
<1>1. UNCHANGED <<schedBox, qc, pending, customer>>
  BY DEF DialerStep, LegStep, OriginateRejected, OriginateAnswered,
         UuidBridge, BridgeSucceeded, BridgeFails, DialerExits, DialerCrashes,
         Ring, LegAnswers, LegEnds, ForkEnds, HupallRuns, boxVars
<1>2. Arrive(agentBox, agentBox', TrueMsg)
  BY DialersArrive
<1>3. Grows(schedBox, schedBox', Plain)
  BY <1>1, NothingGrows DEF TypeInv, TypeOK, BoxesTypeOK
<1>4. BridgesOnward
  <2>1. CASE UuidBridge(r)
    BY <2>1, UuidBridgeBridges
  <2>2. CASE ~UuidBridge(r)
    BY <2>2, LegsBridges, DialersBridges DEF SameBridges, BridgesOnward
  <2> QED
    BY <2>1, <2>2
<1>5. SameCustomers
  BY <1>1 DEF SameCustomers
<1> QED
  BY <1>1, <1>2, <1>3, <1>4, <1>5, QuietKeeps

----------------------------------------------------------------------------
(* Customers, members and managers.                                        *)

LEMMA ToQueueHolds ==
  ASSUME NEW box \in [Queues -> Seq(SchedMsg)], NEW n \in SchedMsg,
         NEW q, NEW p \in Queues, NEW m, InBox(ToQueue(box, q, n)[p], m)
  PROVE  InBox(box[p], m) \/ (m = n /\ p = q)
<1>1. CASE p # q
  BY <1>1 DEF ToQueue
<1>2. CASE p = q
  <2>1. ToQueue(box, q, n)[p] = Append(box[p], n)
    BY <1>2 DEF ToQueue
  <2>2. PICK i \in 1..Len(Append(box[p], n)) : Append(box[p], n)[i] = m
    BY <2>1 DEF InBox
  <2>3. (i \in 1..Len(box[p]) /\ box[p][i] = m) \/ m = n
    BY <2>2
  <2> QED
    BY <1>2, <2>3 DEF InBox
<1> QED
  BY <1>1, <1>2

(* A call that has not been put in a queue is put in this one.             *)
LEMMA EnqueueKeeps ==
  ASSUME TypeInv, TypeInv', PromiseInv, WaitingInv,
         NEW c \in Calls, NEW q \in Queues, Enqueue(c, q)
  PROVE  PromiseInv' /\ WaitingInv'
<1> DEFINE n == CallMsg("add_waiting_call", c)
<1>1. /\ TypeOK /\ TypeOK' /\ schedBox \in [Queues -> Seq(SchedMsg)]
      /\ AddedOnce /\ AddedIsNew /\ HangUpIsReal /\ AttemptsPlaced
      /\ AnswerIsBridge /\ RequestsPlaced /\ WaitingPlaced
      /\ customer \in [Calls -> CustomerState]
  BY DEF TypeInv, TypeOK, BoxesTypeOK, DialerTypeOK, PromiseInv
<1>2. /\ schedBox' = ToQueue(schedBox, q, n)
      /\ customer[c] = "new" /\ customer' = [customer EXCEPT ![c] = "up"]
      /\ UNCHANGED <<agentBox, qc, pending, next_res, att, waiting, crashes>>
  BY DEF Enqueue, schedVars, bounds
<1>3. /\ n \in SchedMsg /\ ~Answers(n)
      /\ \A d \in Calls : n = CallMsg("add_waiting_call", d) => d = c
      /\ \A d \in Calls : n # CallMsg("call_hung_up", d)
  BY SchedMessages DEF CallMsg, Answers
<1> HIDE DEF n
<1>4. /\ SameCalls /\ SamePending /\ BridgesOnward
      /\ \A p \in Queues, d \in Calls : InQueue(p, d)' <=> InQueue(p, d)
  BY <1>2 DEF SameCalls, SameCall, SamePending, BridgesOnward, EverBridged,
              NotBegun, InQueue
<1>5. Grows(schedBox, schedBox', {n})
  BY <1>1, <1>2, <1>3, GrowsByToQueue
<1>6. ASSUME NEW p \in Queues, NEW m, InBox(schedBox'[p], m)
      PROVE  InBox(schedBox[p], m) \/ (m = n /\ p = q)
  BY <1>1, <1>2, <1>3, <1>6, ToQueueHolds
<1>7. WaitingInv'
  BY <1>1, <1>2, <1>3, <1>4, <1>5, WaitingStays
<1>8. \A p \in Queues : ~InBox(schedBox[p], CallMsg("add_waiting_call", c))
  BY <1>1, <1>2 DEF AddedIsNew
<1>9. AddedIsNew'
  <2>1. ASSUME NEW d \in Calls, NEW p \in Queues,
               InBox(schedBox'[p], CallMsg("add_waiting_call", d))
        PROVE  customer'[d] # "new" /\ qc'[d].state = "none"
    <3>1. CASE d = c
      BY <1>1, <1>2, <3>1 DEF AddedIsNew
    <3>2. CASE d # c
      BY <1>1, <1>2, <1>3, <1>6, <2>1, <3>2 DEF AddedIsNew
    <3> QED
      BY <3>1, <3>2
  <2>2. \A d \in Calls : customer'[d] = "new" => qc'[d].state = "none"
    BY <1>1, <1>2 DEF AddedIsNew
  <2> QED
    BY <2>1, <2>2 DEF AddedIsNew
<1>10. AddedOnce'
  <2>1. Len(schedBox[q]) \in Nat /\ schedBox'[q] = Append(schedBox[q], n)
    BY <1>1, <1>2 DEF ToQueue
  <2>2. ASSUME NEW d \in Calls, NEW p \in Queues, NEW i, AddAt(p, i, d)'
        PROVE  \/ AddAt(p, i, d) /\ d # c
               \/ d = c /\ p = q /\ i = Len(schedBox[q]) + 1
    <3>1. CASE p # q
      <4>1. AddAt(p, i, d)
        BY <1>1, <1>2, <2>2, <3>1 DEF AddAt, ToQueue
      <4> QED
        BY <1>8, <4>1 DEF AddAt, InBox
    <3>2. CASE p = q /\ i \in 1..Len(schedBox[q])
      <4>1. schedBox'[q][i] = schedBox[q][i]
        BY <1>1, <2>1, <3>2
      <4>2. AddAt(p, i, d)
        BY <2>2, <3>2, <4>1 DEF AddAt
      <4> QED
        BY <1>8, <4>2 DEF AddAt, InBox
    <3>3. CASE p = q /\ i \notin 1..Len(schedBox[q])
      <4>1. i \in 1..Len(Append(schedBox[q], n))
            /\ Append(schedBox[q], n)[i] = CallMsg("add_waiting_call", d)
        BY <2>1, <2>2, <3>3 DEF AddAt
      <4>2. i = Len(schedBox[q]) + 1 /\ Append(schedBox[q], n)[i] = n
        BY <1>1, <2>1, <3>3, <4>1
      <4> QED
        BY <1>3, <3>3, <4>1, <4>2
    <3> QED
      BY <3>1, <3>2, <3>3
  <2> QED
    BY <1>1, <2>2 DEF AddedOnce
<1>11. HangUpIsReal'
  <2>1. \A d \in Calls : customer[d] \in {"hungup", "gone"}
                           => customer'[d] = customer[d]
    BY <1>1, <1>2
  <2>2. \A d \in Calls : qc'[d].state = qc[d].state
    BY <1>2
  <2> QED
    BY <1>1, <1>3, <1>4, <1>5, <2>1, <2>2, HangUpStays
<1>12. AttemptsPlaced' /\ AnswerIsBridge' /\ RequestsPlaced' /\ WaitingPlaced'
  BY <1>1, <1>2
  DEF AttemptsPlaced, AnswerIsBridge, RequestsPlaced, WaitingPlaced, InQueue,
      NotBegun, EverBridged
<1> QED
  BY <1>7, <1>9, <1>10, <1>11, <1>12 DEF PromiseInv

(* A hang-up is reported to the queue of the call.                         *)
LEMMA NoticeKeeps ==
  ASSUME TypeInv, TypeInv', PromiseInv, WaitingInv, NEW c \in Calls,
         HangUpNoticed(c)
  PROVE  PromiseInv' /\ WaitingInv'
<1> DEFINE n == CallMsg("call_hung_up", c)
           q == qc[c].queue
<1>1. /\ TypeOK /\ TypeOK' /\ schedBox \in [Queues -> Seq(SchedMsg)]
      /\ AddedOnce /\ AddedIsNew /\ HangUpIsReal /\ AttemptsPlaced
      /\ AnswerIsBridge /\ RequestsPlaced /\ WaitingPlaced
      /\ customer \in [Calls -> CustomerState]
  BY DEF TypeInv, TypeOK, BoxesTypeOK, DialerTypeOK, PromiseInv
<1>2. /\ \/ schedBox' = ToQueue(schedBox, q, n) /\ Alive(qc[c])
         \/ schedBox' = schedBox
      /\ customer[c] = "hungup" /\ customer' = [customer EXCEPT ![c] = "gone"]
      /\ UNCHANGED <<agentBox, qc, pending, next_res, att, waiting, crashes>>
  BY DEF HangUpNoticed, schedVars, bounds
<1>3. /\ n \in SchedMsg /\ ~Answers(n)
      /\ \A d \in Calls : n = CallMsg("call_hung_up", d) => d = c
      /\ \A d \in Calls : n # CallMsg("add_waiting_call", d)
  BY SchedMessages DEF CallMsg, Answers
<1> HIDE DEF n, q
<1>4. /\ SameCalls /\ SamePending /\ BridgesOnward
      /\ \A p \in Queues, d \in Calls : InQueue(p, d)' <=> InQueue(p, d)
  BY <1>2 DEF SameCalls, SameCall, SamePending, BridgesOnward, EverBridged,
              NotBegun, InQueue
<1>5. Grows(schedBox, schedBox', {n})
  BY <1>1, <1>2, <1>3, GrowsByToQueue, NothingGrows
<1>6. ASSUME NEW p \in Queues, NEW m, InBox(schedBox'[p], m)
      PROVE  InBox(schedBox[p], m) \/ (m = n /\ p = q /\ Alive(qc[c]))
  <2>1. CASE schedBox' = schedBox
    BY <1>6, <2>1
  <2>2. CASE schedBox' = ToQueue(schedBox, q, n) /\ Alive(qc[c])
    <3>1. InBox(ToQueue(schedBox, q, n)[p], m)
      BY <1>6, <2>2
    <3>2. InBox(schedBox[p], m) \/ (m = n /\ p = q)
      BY <1>1, <1>3, <3>1, ToQueueHolds
    <3> QED
      BY <2>2, <3>2
  <2> QED
    BY <1>2, <2>1, <2>2
<1>7. WaitingInv'
  BY <1>1, <1>2, <1>3, <1>4, <1>5, WaitingStays
<1>8. AddedOnce' /\ AddedIsNew'
  <2>1. \A d \in Calls : customer'[d] = "new" <=> customer[d] = "new"
    BY <1>1, <1>2
  <2> QED
    BY <1>1, <1>3, <1>4, <1>5, <2>1, AddedStays
<1>9. HangUpIsReal'
  <2>1. ASSUME NEW p \in Queues, NEW d \in Calls,
               InBox(schedBox'[p], CallMsg("call_hung_up", d))
        PROVE  customer'[d] \in {"hungup", "gone"} /\ InQueue(p, d)'
    <3>1. CASE InBox(schedBox[p], CallMsg("call_hung_up", d))
      BY <1>1, <1>2, <1>4, <3>1 DEF HangUpIsReal
    <3>2. CASE d = c /\ p = q /\ Alive(qc[c])
      BY <1>1, <1>2, <1>4, <3>2 DEF InQueue, Alive, q
    <3> QED
      BY <1>3, <1>6, <2>1, <3>1, <3>2
  <2>2. \A d \in Calls : qc'[d].state = "abandoned"
                           => customer'[d] \in {"hungup", "gone"}
    BY <1>1, <1>2 DEF HangUpIsReal
  <2> QED
    BY <2>1, <2>2 DEF HangUpIsReal
<1>10. AttemptsPlaced' /\ AnswerIsBridge' /\ RequestsPlaced' /\ WaitingPlaced'
  BY <1>1, <1>2
  DEF AttemptsPlaced, AnswerIsBridge, RequestsPlaced, WaitingPlaced, InQueue,
      NotBegun, EverBridged
<1> QED
  BY <1>7, <1>8, <1>9, <1>10 DEF PromiseInv

LEMMA SurroundingsKeep ==
  ASSUME TypeInv, TypeInv', PromiseInv, WaitingInv, Surroundings
  PROVE  PromiseInv' /\ WaitingInv'
<1>1. /\ schedBox \in [Queues -> Seq(SchedMsg)]
      /\ agentBox \in [Agents -> Seq(AgentMsg)]
      /\ customer \in [Calls -> CustomerState]
      /\ story \in [Calls -> Seq(StoryEvent)]
  BY DEF TypeInv, TypeOK, BoxesTypeOK, DialerTypeOK
<1>2. ASSUME UNCHANGED <<next_res, att>> PROVE BridgesOnward
  BY <1>2 DEF BridgesOnward, EverBridged, NotBegun
<1>3. ASSUME agentBox' = agentBox PROVE Arrive(agentBox, agentBox', TrueMsg)
  BY <1>3 DEF Arrive
<1>4. ASSUME customer' = customer PROVE SameCustomers
  BY <1>4 DEF SameCustomers
<1>5. ASSUME NEW c \in Calls, CustomerHangsUp(c)
      PROVE  PromiseInv' /\ WaitingInv'
  <2>1. SameCustomers
    BY <1>1, <1>5 DEF CustomerHangsUp, SameCustomers
  <2> QED
    BY <1>1, <1>2, <1>3, <1>5, <2>1, NothingGrows, QuietKeeps
    DEF CustomerHangsUp, boxVars, schedVars, bounds
<1>6. ASSUME NEW c \in Calls, RelayLegEvent(c)
      PROVE  PromiseInv' /\ WaitingInv'
  <2> DEFINE e == Head(story[c])
             n == LegMessage(e)
  <2>1. /\ e \in StoryEvent
        /\ agentBox' = ToAgent(agentBox, att[e.res].agent, n)
    BY <1>1, <1>6 DEF RelayLegEvent
  <2>2. n \in AgentMsg
    BY <2>1, LegMessageType DEF TypeInv
  <2>3. n.type \notin {"attempt", "dialer_answered"}
    BY <2>1 DEF LegMessage, LegEvent, Request, StoryEvent
  <2> HIDE DEF n
  <2>4. n \in TrueMsg
    BY <2>2, <2>3 DEF TrueMsg
  <2>5. Arrive(agentBox, agentBox', TrueMsg)
    BY <1>1, <2>1, <2>2, <2>4, ArriveByToAgent
  <2> QED
    BY <1>1, <1>2, <1>4, <1>6, <2>5, NothingGrows, QuietKeeps
    DEF RelayLegEvent, schedVars, bounds
<1>7. ASSUME NEW a \in Agents, NEW p \in {"Available", "On Break", "Logged Out"},
             UserSets(a, p)
      PROVE  PromiseInv' /\ WaitingInv'
  <2>1. PresenceUpdate(a, p) \in Plain /\ PresenceUpdate(a, p) \in SchedMsg
    BY PlainMessages DEF DbPresence, Plain, Others
  <2>2. Grows(schedBox, schedBox', Plain)
    BY <1>1, <1>7, <2>1, GrowsByBroadcast DEF UserSets
  <2> QED
    BY <1>2, <1>3, <1>4, <1>7, <2>2, QuietKeeps
    DEF UserSets, attemptVars, schedVars
<1>8. ASSUME NEW a \in Agents, NEW q \in Queues,
             JoinsQueue(a, q) \/ LeavesQueue(a, q)
      PROVE  PromiseInv' /\ WaitingInv'
  <2>1. ASSUME NEW who, NEW m \in SchedMsg, ChangeMembers(q, who, m),
               m.type \in {"add_member", "remove_member"}
        PROVE  PromiseInv' /\ WaitingInv'
    <3>1. m \in Plain
      BY <2>1 DEF Plain, Others, Answers
    <3>2. Grows(schedBox, schedBox', Plain)
      BY <1>1, <2>1, <3>1, GrowsByToQueue DEF ChangeMembers
    <3> QED
      BY <1>2, <1>3, <1>4, <2>1, <3>2, QuietKeeps
      DEF ChangeMembers, attemptVars, schedVars
  <2>2. /\ MemberMsg("add_member", a).type = "add_member"
        /\ MemberMsg("remove_member", a).type = "remove_member"
    BY DEF MemberMsg
  <2>3. CASE JoinsQueue(a, q)
    BY <2>1, <2>2, <2>3, SchedMessages DEF JoinsQueue
  <2>4. CASE LeavesQueue(a, q)
    BY <2>1, <2>2, <2>4, SchedMessages DEF LeavesQueue
  <2> QED
    BY <1>8, <2>3, <2>4
<1> QED
  BY <1>5, <1>6, <1>7, <1>8, EnqueueKeeps, NoticeKeeps DEF Surroundings

LEMMA TimersKeep ==
  ASSUME TypeInv, TypeInv', PromiseInv, WaitingInv, NEW a \in Agents,
         \/ RestoreTimerFires(a) /\ UNCHANGED NotSession
         \/ TimeOut(a)
  PROVE  PromiseInv' /\ WaitingInv'
<1>1. /\ schedBox \in [Queues -> Seq(SchedMsg)]
      /\ agentBox \in [Agents -> Seq(AgentMsg)]
      /\ restore_timer[a] \in Passing \union {"none"}
      /\ lost_timers[a] \in SUBSET Passing
  BY DEF TypeInv, TypeOK, BoxesTypeOK, AgentSessionTypeOK
<1>2. ASSUME NEW n \in AgentMsg, n.type \notin {"attempt", "dialer_answered"},
             agentBox' = ToAgent(agentBox, a, n)
      PROVE  Arrive(agentBox, agentBox', TrueMsg)
  <2>1. n \in TrueMsg
    BY <1>2 DEF TrueMsg
  <2> QED
    BY <1>1, <1>2, <2>1, ArriveByToAgent
<1>3. CASE RestoreTimerFires(a) /\ UNCHANGED NotSession
  <2>1. PICK p \in Passing : agentBox' = ToAgent(agentBox, a, RestorePresence(p))
    BY <1>1, <1>3 DEF RestoreTimerFires
  <2>2. RestorePresence(p) \in AgentMsg
        /\ RestorePresence(p).type = "restore_presence"
    BY AgentMessages DEF RestorePresence
  <2>3. Arrive(agentBox, agentBox', TrueMsg)
    BY <1>2, <2>1, <2>2
  <2>4. UNCHANGED <<schedBox, qc, pending, waiting, next_res, att, customer,
                    crashes>>
    BY <1>3 DEF RestoreTimerFires, NotSession, attemptVars, schedVars, bounds
  <2> QED
    BY <1>1, <2>3, <2>4, NothingGrows, QuietKeeps
    DEF BridgesOnward, EverBridged, NotBegun, SameCustomers
<1>4. CASE TimeOut(a)
  <2>1. AttemptTimerFires(a) /\ ~AttemptStarts(a)
    <3>1. AttemptTimerFires(a) /\ next_res' = next_res /\ next_res \in Nat
      BY <1>4 DEF TimeOut, AttemptTimerFires, TypeInv, TypeOK, DialerTypeOK
    <3>2. AttemptStarts(a) => next_res' = next_res + 1
      BY DEF AttemptStarts
    <3> QED
      BY <3>1, <3>2
  <2>2. PICK type \in {"attempt_timeout", "bridge_timeout"} :
          agentBox' = ToAgent(agentBox, a, Report(type, reservation[a]))
    BY <2>1 DEF AttemptTimerFires
  <2>3. reservation[a] \in Res
    BY <2>1, QueueConstants
    DEF AttemptTimerFires, TypeInv, TypeOK, AgentSessionTypeOK, Res, NoRes
  <2>4. /\ Report(type, reservation[a]) \in AgentMsg
        /\ Report(type, reservation[a]).type = type
    BY <2>3, AgentMessages DEF Report
  <2>5. Arrive(agentBox, agentBox', TrueMsg)
    BY <1>2, <2>2, <2>4
  <2>6. BridgesOnward
    BY <2>1, SessionBridges DEF SameBridges, BridgesOnward
  <2>7. UNCHANGED <<schedBox, qc, pending, waiting, customer, crashes>>
    BY <1>4 DEF TimeOut, AttemptTimerFires, schedVars
  <2> QED
    BY <1>1, <2>5, <2>6, <2>7, NothingGrows, QuietKeeps DEF SameCustomers
<1> QED
  BY <1>3, <1>4


----------------------------------------------------------------------------
(* The schedulers.                                                         *)

(* What concerns other queues stays as it is, and nothing comes into the   *)
(* mailbox.                                                                *)
Elsewhere(q) ==
  \A p \in Queues \ {q} : /\ schedBox'[p] = schedBox[p]
                          /\ waiting'[p] = waiting[p]
                          /\ pending'[p] = pending[p]

BoxMoves(q) ==
  \E k \in {0, 1} : \A i \in 1..Len(schedBox'[q]) :
    i + k \in 1..Len(schedBox[q]) /\ schedBox'[q][i] = schedBox[q][i + k]

(* A call is put in the queue, on the only message that asks for it, or    *)
(* given up, because its customer hung up.                                 *)
CallEnters(q, c) ==
  /\ qc[c].state = "none" /\ qc'[c].state = "live" /\ qc'[c].queue = q
  /\ customer[c] # "new"
  /\ \A p \in Queues : ~InBox(schedBox'[p], CallMsg("add_waiting_call", c))

CallGivenUp(q, c) ==
  /\ Alive(qc[c]) /\ qc[c].queue = q /\ qc'[c].state = "abandoned"
  /\ customer[c] \in {"hungup", "gone"}

CallsMove(q) ==
  \A c \in Calls : SameCall(c) \/ CallEnters(q, c) \/ CallGivenUp(q, c)

(* Sessions are asked about calls of the queue only.                       *)
Asks(q) ==
  /\ Arrive(agentBox, agentBox', TrueMsg)
  /\ pending'[q].request = "attempt" =>
       InQueue(q, pending[q].call)' /\ pending'[q].after = "match"

ListMoves(q) ==
  /\ IsInjective(waiting'[q])
  /\ \A c \in Calls : Contains(waiting'[q], c) => InQueue(q, c)'
  /\ \A c \in Calls : pending'[q].call = c /\ pending'[q].after = "forget_call"
                        => Done(c)'
  /\ crashes' = 0 =>
       \A c \in Calls : Alive(qc[c])' /\ qc'[c].queue = q
                          => Contains(waiting'[q], c)
  /\ \A c \in Calls : Contains(waiting'[q], c) /\ ~Alive(qc[c])' =>
       \/ \E a \in Agents : InBox(schedBox'[q], Finished(a, c, "answered"))
       \/ pending'[q].call = c /\ pending'[q].after = "forget_call"

LEMMA MovesKeep ==
  ASSUME TypeInv, TypeInv', PromiseInv, WaitingInv, NEW q \in Queues,
         UNCHANGED <<next_res, att, customer>>, crashes' = 0 => crashes = 0,
         Elsewhere(q), BoxMoves(q), CallsMove(q), Asks(q), ListMoves(q)
  PROVE  PromiseInv' /\ WaitingInv'
<1>1. /\ TypeOK /\ TypeOK'
      /\ AddedOnce /\ AddedIsNew /\ HangUpIsReal /\ AttemptsPlaced
      /\ AnswerIsBridge /\ RequestsPlaced /\ WaitingPlaced
      /\ LivePlaced /\ RemovedIsDone /\ DeadCallLeavesWaiting
      /\ (crashes = 0 => LiveCallIsWaiting)
  BY DEF TypeInv, PromiseInv, WaitingInv
<1>2. /\ schedBox \in [Queues -> Seq(SchedMsg)]
      /\ schedBox' \in [Queues -> Seq(SchedMsg)]
  BY <1>1 DEF TypeOK, BoxesTypeOK
<1>3. PICK k \in {0, 1} : \A i \in 1..Len(schedBox'[q]) :
        i + k \in 1..Len(schedBox[q]) /\ schedBox'[q][i] = schedBox[q][i + k]
  BY DEF BoxMoves
<1>4. \A p \in Queues : \A m : InBox(schedBox'[p], m) => InBox(schedBox[p], m)
  <2>1. ASSUME NEW m, InBox(schedBox'[q], m) PROVE InBox(schedBox[q], m)
    BY <1>3, <2>1 DEF InBox
  <2> QED
    BY <2>1 DEF Elsewhere
<1>6. ASSUME NEW c \in Calls
      PROVE  /\ \A p \in Queues : InQueue(p, c) => InQueue(p, c)'
             /\ Done(c) => Done(c)'
             /\ qc'[c].state = "answered" => qc[c].state = "answered"
  BY DEF CallsMove, SameCall, CallEnters, CallGivenUp, InQueue, Done, Alive
<1>7. AddedOnce'
  <2>1. ASSUME NEW c \in Calls, NEW p \in Queues, NEW i, AddAt(p, i, c)'
        PROVE  /\ i \in Int
               /\ AddAt(p, IF p = q THEN i + k ELSE i, c)
    <3>1. /\ i \in 1..Len(schedBox'[p])
          /\ schedBox'[p][i] = CallMsg("add_waiting_call", c)
      BY <2>1 DEF AddAt
    <3>2. CASE p = q
      BY <1>3, <3>1, <3>2 DEF AddAt
    <3>3. CASE p # q
      BY <3>1, <3>3 DEF AddAt, Elsewhere
    <3> QED
      BY <3>1, <3>2, <3>3
  <2>2. ASSUME NEW c \in Calls, NEW p \in Queues, NEW p2 \in Queues, NEW i,
               NEW j, AddAt(p, i, c)', AddAt(p2, j, c)'
        PROVE  p = p2 /\ i = j
    <3>1. /\ i \in Int /\ j \in Int /\ k \in Int
          /\ AddAt(p, IF p = q THEN i + k ELSE i, c)
          /\ AddAt(p2, IF p2 = q THEN j + k ELSE j, c)
      BY <2>1, <2>2
    <3>2. p = p2
      BY <1>1, <3>1 DEF AddedOnce
    <3>3. CASE p = q
      <4>1. AddAt(p, i + k, c) /\ AddAt(p, j + k, c)
        BY <3>1, <3>2, <3>3
      <4>2. i + k = j + k
        BY <1>1, <4>1 DEF AddedOnce
      <4> QED
        BY <3>1, <3>2, <4>2
    <3>4. CASE p # q
      <4>1. AddAt(p, i, c) /\ AddAt(p, j, c)
        BY <3>1, <3>2, <3>4
      <4> QED
        BY <1>1, <3>2, <4>1 DEF AddedOnce
    <3> QED
      BY <3>3, <3>4
  <2> QED
    BY <2>2 DEF AddedOnce
<1>8. AddedIsNew'
  <2>1. ASSUME NEW c \in Calls, customer'[c] = "new"
        PROVE  qc'[c].state = "none"
    BY <1>1, <2>1
    DEF AddedIsNew, CallsMove, SameCall, CallEnters, CallGivenUp, Alive
  <2>2. ASSUME NEW c \in Calls, NEW p \in Queues,
               InBox(schedBox'[p], CallMsg("add_waiting_call", c))
        PROVE  customer'[c] # "new" /\ qc'[c].state = "none"
    <3>1. customer[c] # "new" /\ qc[c].state = "none"
      BY <1>1, <1>4, <2>2 DEF AddedIsNew
    <3>2. ~CallEnters(q, c)
      BY <2>2 DEF CallEnters
    <3> QED
      BY <3>1, <3>2 DEF CallsMove, SameCall, CallGivenUp, Alive
  <2> QED
    BY <2>1, <2>2 DEF AddedIsNew
<1>9. HangUpIsReal'
  <2>1. ASSUME NEW c \in Calls, qc'[c].state = "abandoned"
        PROVE  customer'[c] \in {"hungup", "gone"}
    BY <1>1, <2>1
    DEF HangUpIsReal, CallsMove, SameCall, CallEnters, CallGivenUp
  <2>2. ASSUME NEW c \in Calls, NEW p \in Queues,
               InBox(schedBox'[p], CallMsg("call_hung_up", c))
        PROVE  customer'[c] \in {"hungup", "gone"} /\ InQueue(p, c)'
    <3>1. customer[c] \in {"hungup", "gone"} /\ InQueue(p, c)
      BY <1>1, <1>4, <2>2 DEF HangUpIsReal
    <3> QED
      BY <1>6, <3>1
  <2> QED
    BY <2>1, <2>2 DEF HangUpIsReal
<1>10. BridgesOnward
  BY DEF BridgesOnward, EverBridged, NotBegun
<1>11. \A p \in Queues, c \in Calls : InQueue(p, c) => InQueue(p, c)'
  BY <1>6
<1>12. AttemptsPlaced'
  BY <1>1, <1>10, <1>11, AttemptsStay
<1>13. AnswerIsBridge'
  BY <1>1, <1>6, <1>10, AnswersStay DEF Asks, BridgesOnward, BridgesKept
<1>14. RequestsPlaced'
  <2>1. ASSUME NEW p \in Queues, pending'[p].request = "attempt"
        PROVE  \/ /\ pending[p].request = "attempt"
                  /\ pending'[p].call = pending[p].call
                  /\ pending'[p].after = pending[p].after
               \/ InQueue(p, pending[p].call)' /\ pending'[p].after = "match"
    BY <2>1 DEF Asks, Elsewhere
  <2> QED
    BY <1>1, <1>11, <2>1, RequestsStay DEF Asks
<1>15. WaitingPlaced'
  <2>1. ASSUME NEW p \in Queues
        PROVE  /\ IsInjective(waiting'[p])
               /\ \A c \in Calls : Contains(waiting'[p], c) => InQueue(p, c)'
    <3>1. CASE p = q
      BY <3>1 DEF ListMoves
    <3>2. CASE p # q
      BY <1>1, <1>11, <3>2 DEF WaitingPlaced, Elsewhere
    <3> QED
      BY <3>1, <3>2
  <2> QED
    BY <2>1 DEF WaitingPlaced
<1>16. RemovedIsDone'
  <2>1. ASSUME NEW p \in Queues, NEW a \in Agents, NEW c \in Calls,
               InBox(schedBox'[p], Finished(a, c, "answered"))
        PROVE  Done(c)'
    BY <1>1, <1>4, <1>6, <2>1 DEF RemovedIsDone
  <2>2. ASSUME NEW p \in Queues, NEW c \in Calls,
               pending'[p].call = c, pending'[p].after = "forget_call"
        PROVE  Done(c)'
    <3>1. CASE p = q
      BY <2>2, <3>1 DEF ListMoves
    <3>2. CASE p # q
      BY <1>1, <1>6, <2>2, <3>2 DEF RemovedIsDone, Elsewhere
    <3> QED
      BY <3>1, <3>2
  <2> QED
    BY <2>1, <2>2 DEF RemovedIsDone
<1>17. ASSUME crashes' = 0 PROVE LiveCallIsWaiting'
  <2> SUFFICES ASSUME NEW c \in Calls, Alive(qc'[c])
               PROVE  Contains(waiting'[qc'[c].queue], c)
    BY DEF LiveCallIsWaiting
  <2>1. CASE qc'[c].queue = q
    BY <1>17, <2>1 DEF ListMoves
  <2>2. CASE qc'[c].queue # q
    <3>1. SameCall(c)
      BY <2>2 DEF CallsMove, CallEnters, CallGivenUp, Alive
    <3>2. Alive(qc[c]) /\ qc'[c].queue = qc[c].queue
      BY <3>1 DEF SameCall, Alive
    <3>3. Contains(waiting[qc[c].queue], c)
      BY <1>1, <1>17, <3>2 DEF LiveCallIsWaiting
    <3>4. qc[c].queue \in Queues
      BY <1>1, <3>2 DEF LivePlaced
    <3> QED
      BY <2>2, <3>2, <3>3, <3>4 DEF Elsewhere
  <2> QED
    BY <2>1, <2>2
<1>18. DeadCallLeavesWaiting'
  <2>1. ASSUME NEW p \in Queues, NEW c \in Calls, Contains(waiting'[p], c),
               ~Alive(qc'[c])
        PROVE  \/ \E a \in Agents :
                    InBox(schedBox'[p], Finished(a, c, "answered"))
               \/ pending'[p].call = c /\ pending'[p].after = "forget_call"
    <3>1. CASE p = q
      BY <2>1, <3>1 DEF ListMoves
    <3>2. CASE p # q
      <4>1. /\ waiting'[p] = waiting[p] /\ pending'[p] = pending[p]
            /\ schedBox'[p] = schedBox[p] /\ InQueue(p, c)
        BY <1>1, <2>1, <3>2 DEF Elsewhere, WaitingPlaced
      <4>2. ~Alive(qc[c])
        BY <2>1, <3>2, <4>1
        DEF CallsMove, SameCall, CallEnters, CallGivenUp, InQueue, Alive
      <4> QED
        BY <1>1, <2>1, <4>1, <4>2 DEF DeadCallLeavesWaiting
    <3> QED
      BY <3>1, <3>2
  <2> QED
    BY <2>1 DEF DeadCallLeavesWaiting
<1>19. LivePlaced'
  BY <1>1
  DEF LivePlaced, CallsMove, SameCall, CallEnters, CallGivenUp, Alive
<1> QED
  BY <1>7, <1>8, <1>9, <1>12, <1>13, <1>14, <1>15, <1>16, <1>17, <1>18, <1>19
  DEF PromiseInv, WaitingInv


(* What the scheduler of q may say of a call that is in q.                 *)
LEMMA RequestIsTrue ==
  ASSUME NEW q \in Queues, NEW c \in Calls
  PROVE  /\ InQueue(q, c)' => Request("attempt", q, c) \in TrueMsg
         /\ Request("cancel_attempt", q, c) \in TrueMsg
<1>1. ASSUME NEW n \in AgentMsg, n.type = "attempt", n.queue = q, n.call = c,
             InQueue(q, c)'
      PROVE  n \in TrueMsg
  BY <1>1 DEF TrueMsg
<1>2. ASSUME NEW n \in AgentMsg, n.type = "cancel_attempt" PROVE n \in TrueMsg
  BY <1>2 DEF TrueMsg
<1>3. /\ Request("attempt", q, c).type = "attempt"
      /\ Request("attempt", q, c).queue = q
      /\ Request("attempt", q, c).call = c
      /\ Request("cancel_attempt", q, c).type = "cancel_attempt"
  BY DEF Request
<1>4. /\ Request("attempt", q, c) \in AgentMsg
      /\ Request("cancel_attempt", q, c) \in AgentMsg
  BY AgentMessages
<1> QED
  BY <1>1, <1>2, <1>3, <1>4

(* What the scheduler is left waiting for.                                 *)
LEMMA AskingFields ==
  ASSUME NEW request, NEW a, NEW c, NEW rest, NEW after
  PROVE  /\ Asking(request, a, c, rest, after).request = request
         /\ Asking(request, a, c, rest, after).call = c
         /\ Asking(request, a, c, rest, after).after = after
         /\ Idle.request = "none" /\ Idle.call = None /\ Idle.after = "match"
BY DEF Asking, Idle

LEMMA IdleAsks ==
  ASSUME TypeOK, NEW q \in Queues, GoIdle(q, agentBox)
  PROVE  /\ Asks(q) /\ pending'[q].after = "match"
         /\ \A p \in Queues \ {q} : pending'[p] = pending[p]
<1>1. pending' = [pending EXCEPT ![q] = Idle] /\ agentBox' = agentBox
  BY DEF GoIdle
<1>2. /\ pending'[q] = Idle
      /\ \A p \in Queues \ {q} : pending'[p] = pending[p]
  BY <1>1 DEF TypeOK, BoxesTypeOK
<1>3. Arrive(agentBox, agentBox', TrueMsg)
  BY <1>1 DEF Arrive
<1> QED
  BY <1>2, <1>3, AskingFields DEF Asks

LEMMA AgentIsAsked ==
  ASSUME TypeOK, NEW q \in Queues, NEW c \in Calls, NEW candidates,
         InQueue(q, c)', AskAgent(q, c, candidates, agentBox)
  PROVE  /\ Asks(q) /\ pending'[q].after = "match"
         /\ \A p \in Queues \ {q} : pending'[p] = pending[p]
<1> DEFINE k == Asking("attempt", Head(candidates), c, Tail(candidates),
                       "match")
<1>1. /\ pending' = [pending EXCEPT ![q] = k]
      /\ agentBox' = ToAgent(agentBox, Head(candidates),
                             Request("attempt", q, c))
  BY DEF AskAgent
<1>2. k.request = "attempt" /\ k.call = c /\ k.after = "match"
  BY AskingFields
<1> HIDE DEF k
<1>3. /\ pending'[q] = k
      /\ \A p \in Queues \ {q} : pending'[p] = pending[p]
      /\ agentBox \in [Agents -> Seq(AgentMsg)]
  BY <1>1 DEF TypeOK, BoxesTypeOK
<1>4. Arrive(agentBox, agentBox', TrueMsg)
  BY <1>1, <1>3, RequestIsTrue, AgentMessages, ArriveByToAgent
<1>5. InQueue(q, pending[q].call)'
  <2>1. pending'[q].call = c
    BY <1>2, <1>3
  <2> QED
    BY <2>1
<1> QED
  BY <1>2, <1>3, <1>4, <1>5 DEF Asks

LEMMA CancelIsAsked ==
  ASSUME TypeOK, NEW q \in Queues, NEW c \in Calls, NEW a, NEW after,
         AskCancel(q, a, c, after)
  PROVE  /\ Asks(q) /\ pending'[q].call = c /\ pending'[q].after = after
         /\ \A p \in Queues \ {q} : pending'[p] = pending[p]
<1> DEFINE k == Asking("cancel_attempt", a, c, <<>>, after)
<1>1. /\ pending' = [pending EXCEPT ![q] = k]
      /\ agentBox' = ToAgent(agentBox, a, Request("cancel_attempt", q, c))
  BY DEF AskCancel
<1>2. k.request = "cancel_attempt" /\ k.call = c /\ k.after = after
  BY AskingFields
<1> HIDE DEF k
<1>3. /\ pending'[q] = k
      /\ \A p \in Queues \ {q} : pending'[p] = pending[p]
      /\ agentBox \in [Agents -> Seq(AgentMsg)]
  BY <1>1 DEF TypeOK, BoxesTypeOK
<1>4. Arrive(agentBox, agentBox', TrueMsg)
  BY <1>1, <1>3, RequestIsTrue, AgentMessages, ArriveByToAgent
<1> QED
  BY <1>2, <1>3, <1>4 DEF Asks

LEMMA MatchAsks ==
  ASSUME TypeOK, NEW q \in Queues, NEW w \in Seq(Calls), NEW av, NEW inf,
         NEW last, NEW calls, MaybeMatch(q, w, av, inf, last, calls),
         \A c \in Calls : Contains(w, c) => InQueue(q, c)'
  PROVE  /\ Asks(q) /\ pending'[q].after = "match"
         /\ \A p \in Queues \ {q} : pending'[p] = pending[p]
<1>1. CASE av = <<>> \/ NextCallable(w, inf) = {}
  BY <1>1, IdleAsks DEF MaybeMatch
<1>2. CASE ~(av = <<>> \/ NextCallable(w, inf) = {})
  <2>1. PICK i \in NextCallable(w, inf) :
          AskAgent(q, w[i],
                   EligibleAgents(calls[w[i]], OrderCandidates(av, last)),
                   agentBox)
    BY <1>2 DEF MaybeMatch
  <2>2. i \in 1..Len(w) /\ w[i] \in Calls
    BY DEF NextCallable
  <2>3. InQueue(q, w[i])'
    <3>1. PICK c \in Calls : c = w[i]
      BY <2>2
    <3>2. Contains(w, c)
      BY <2>2, <3>1 DEF Contains
    <3> QED
      BY <3>1, <3>2
  <2> QED
    BY <2>1, <2>2, <2>3, AgentIsAsked
<1> QED
  BY <1>1, <1>2

LEMMA ListIs ==
  ASSUME TypeOK, NEW q \in Queues, NEW w, NEW av, NEW inf, NEW last,
         \/ SchedulerState(q, w, av, inf, last)
         \/ \E calls : MaybeMatch(q, w, av, inf, last, calls)
  PROVE  waiting'[q] = w /\ \A p \in Queues \ {q} : waiting'[p] = waiting[p]
<1>1. SchedulerState(q, w, av, inf, last)
  BY DEF MaybeMatch
<1> QED
  BY <1>1 DEF SchedulerState, TypeOK, SchedulerTypeOK


(* A handler takes the message at the head of the mailbox.                 *)
LEMMA HandlesBox ==
  ASSUME TypeOK, NEW q \in Queues, NEW type, Handles(q, type)
  PROVE  /\ BoxMoves(q)
         /\ \A p \in Queues \ {q} : schedBox'[p] = schedBox[p]
         /\ Head(schedBox[q]) \in SchedMsg
         /\ Head(schedBox[q]).type = type
         /\ InBox(schedBox[q], Head(schedBox[q]))
         /\ \A m : InBox(schedBox[q], m)
                     => m = Head(schedBox[q]) \/ InBox(schedBox'[q], m)
         /\ pending[q].after = "match"
<1>1. /\ schedBox \in [Queues -> Seq(SchedMsg)] /\ schedBox[q] # <<>>
      /\ schedBox[q] \in Seq(SchedMsg)
      /\ schedBox'[q] = Tail(schedBox[q])
      /\ \A p \in Queues \ {q} : schedBox'[p] = schedBox[p]
      /\ pending[q] \in Pending /\ pending[q].request = "none"
  BY DEF TypeOK, BoxesTypeOK, Handles
<1>2. Head(schedBox[q]) \in SchedMsg /\ Head(schedBox[q]).type = type
  BY HandlesType
<1>3. /\ InBox(schedBox[q], Head(schedBox[q]))
      /\ \A m : InBox(schedBox[q], m)
                  => m = Head(schedBox[q]) \/ InBox(schedBox'[q], m)
  BY <1>1, TailHolds
<1>4. \A i \in 1..Len(schedBox'[q]) :
        i + 1 \in 1..Len(schedBox[q]) /\ schedBox'[q][i] = schedBox[q][i + 1]
  BY <1>1
<1>5. BoxMoves(q)
  BY <1>4 DEF BoxMoves
<1>6. pending[q].after = "match"
  BY <1>1, AskingFields DEF Pending
<1> QED
  BY <1>1, <1>2, <1>3, <1>5, <1>6

LEMMA BoxStays ==
  ASSUME TypeOK, NEW q \in Queues, schedBox' = schedBox
  PROVE  BoxMoves(q)
<1>1. \A i \in 1..Len(schedBox[q]) : i + 0 = i
  OBVIOUS
<1> QED
  BY <1>1 DEF BoxMoves

LEMMA RemovedList ==
  ASSUME TypeOK, WaitingPlaced, NEW q \in Queues, NEW e
  PROVE  /\ RemoveFirst(waiting[q], e) \in Seq(Calls)
         /\ IsInjective(RemoveFirst(waiting[q], e))
         /\ \A c : Contains(RemoveFirst(waiting[q], e), c)
                     <=> Contains(waiting[q], c) /\ c # e
<1>1. waiting[q] \in Seq(Calls) /\ IsInjective(waiting[q])
  BY DEF TypeOK, SchedulerTypeOK, WaitingPlaced
<1> DEFINE w == RemoveFirst(waiting[q], e)
<1>2. /\ w \in Seq(Calls) /\ IsInjective(w)
      /\ \A i \in 1..Len(w) : \E j \in 1..Len(waiting[q]) :
           w[i] = waiting[q][j]
      /\ \A i \in 1..Len(w) : w[i] # e
  BY <1>1, RemoveFirstIsSeq
<1>3. ASSUME NEW c, c # e PROVE Contains(waiting[q], c) <=> Contains(w, c)
  BY <1>1, <1>3, RemoveFirstKeeps
<1> HIDE DEF w
<1>4. ~Contains(w, e)
  BY <1>2 DEF Contains
<1>5. \A c : Contains(w, c) <=> Contains(waiting[q], c) /\ c # e
  BY <1>3, <1>4
<1> QED
  BY <1>2, <1>5 DEF w

(* A step at which no call enters the queue, and those of gone leave its   *)
(* list.                                                                   *)
LEMMA ListKeeps ==
  ASSUME TypeOK, PromiseInv, WaitingInv, NEW q \in Queues, NEW gone,
         IsInjective(waiting'[q]),
         \A c \in Calls : Contains(waiting'[q], c)
                            <=> Contains(waiting[q], c) /\ c \notin gone,
         \A c \in Calls : c \in gone => Done(c)',
         crashes' = 0 => crashes = 0,
         \A c \in Calls : \/ SameCall(c)
                          \/ /\ CallGivenUp(q, c)
                             /\ \/ c \in gone
                                \/ /\ pending'[q].call = c
                                   /\ pending'[q].after = "forget_call",
         \A c \in Calls :
           pending'[q].call = c /\ pending'[q].after = "forget_call"
             => Done(c)',
         \A c \in Calls, a \in Agents :
           c \notin gone /\ InBox(schedBox[q], Finished(a, c, "answered"))
             => InBox(schedBox'[q], Finished(a, c, "answered")),
         \A c \in Calls :
           /\ pending[q].call = c /\ pending[q].after = "forget_call"
           /\ c \notin gone
           => pending'[q].call = c /\ pending'[q].after = "forget_call"
  PROVE  ListMoves(q) /\ CallsMove(q)
<1>1. /\ WaitingPlaced /\ DeadCallLeavesWaiting
      /\ crashes = 0 => LiveCallIsWaiting
  BY DEF PromiseInv, WaitingInv
<1>2. ASSUME NEW c \in Calls, Contains(waiting'[q], c) PROVE InQueue(q, c)'
  <2>1. InQueue(q, c)
    BY <1>1, <1>2 DEF WaitingPlaced
  <2> QED
    BY <2>1 DEF SameCall, CallGivenUp, InQueue, Alive
<1>3. ASSUME crashes' = 0, NEW c \in Calls, Alive(qc'[c]), qc'[c].queue = q
      PROVE  Contains(waiting'[q], c)
  <2>1. Alive(qc[c]) /\ qc[c].queue = q
    BY <1>3 DEF SameCall, CallGivenUp, Alive
  <2>2. Contains(waiting[q], c)
    BY <1>1, <1>3, <2>1 DEF LiveCallIsWaiting
  <2>3. c \notin gone
    BY <1>3 DEF Done, Alive
  <2> QED
    BY <2>2, <2>3
<1>4. ASSUME NEW c \in Calls, Contains(waiting'[q], c), ~Alive(qc'[c])
      PROVE  \/ \E a \in Agents :
                  InBox(schedBox'[q], Finished(a, c, "answered"))
             \/ pending'[q].call = c /\ pending'[q].after = "forget_call"
  <2>1. Contains(waiting[q], c) /\ c \notin gone
    BY <1>4
  <2>2. CASE SameCall(c)
    <3>1. ~Alive(qc[c])
      BY <1>4, <2>2 DEF SameCall, Alive
    <3> QED
      BY <1>1, <2>1, <3>1 DEF DeadCallLeavesWaiting
  <2> QED
    BY <2>1, <2>2
<1> QED
  BY <1>2, <1>3, <1>4 DEF ListMoves, CallsMove


LEMMA SchedulersLeave ==
  ASSUME TypeOK, NEW q \in Queues, SchedulerStep(q) \/ SchedulerRestarts(q)
  PROVE  UNCHANGED <<next_res, att, customer>>
<1>1. UNCHANGED SchedulerLeaves
  BY SchedulerHandlesType, SchedulerAnsweredType, SchedulerRestartsType
  DEF SchedulerStep
<1> QED
  BY <1>1 DEF SchedulerLeaves, attemptVars

(* What the lemmas below assume, taken apart once.                         *)
LEMMA SchedulerSetting ==
  ASSUME TypeInv, PromiseInv, WaitingInv, NEW q \in Queues
  PROVE  /\ TypeOK
         /\ AddedOnce /\ AddedIsNew /\ HangUpIsReal /\ AttemptsPlaced
         /\ AnswerIsBridge /\ RequestsPlaced /\ WaitingPlaced
         /\ RemovedIsDone /\ DeadCallLeavesWaiting
         /\ (crashes = 0 => LiveCallIsWaiting)
         /\ schedBox[q] \in Seq(SchedMsg) /\ waiting[q] \in Seq(Calls)
         /\ IsInjective(waiting[q])
         /\ pending[q] \in Pending
         /\ qc \in [Calls -> QueuedCallState]
BY DEF TypeInv, PromiseInv, WaitingInv, TypeOK, BoxesTypeOK, SchedulerTypeOK,
       QueuedCallTypeOK, WaitingPlaced

LEMMA AddedKeeps ==
  ASSUME TypeInv, TypeInv', PromiseInv, WaitingInv, NEW q \in Queues,
         AddWaitingCall(q), crashes' = crashes
  PROVE  PromiseInv' /\ WaitingInv'
<1> DEFINE m == Head(schedBox[q])
           c == m.call
           w == Append(waiting[q], c)
<1>1. /\ TypeOK /\ AddedOnce /\ AddedIsNew /\ WaitingPlaced
      /\ DeadCallLeavesWaiting /\ (crashes = 0 => LiveCallIsWaiting)
      /\ schedBox[q] \in Seq(SchedMsg) /\ waiting[q] \in Seq(Calls)
      /\ IsInjective(waiting[q])
      /\ qc \in [Calls -> QueuedCallState]
  BY SchedulerSetting
<1>2. /\ Handles(q, "add_waiting_call")
      /\ qc' = [qc EXCEPT ![c] = Start(@, q)]
      /\ MaybeMatch(q, w, available[q], in_flight[q], last_assigned[q], qc')
  BY DEF AddWaitingCall
<1>3. /\ BoxMoves(q)
      /\ \A p \in Queues \ {q} : schedBox'[p] = schedBox[p]
      /\ m \in SchedMsg /\ m.type = "add_waiting_call"
      /\ InBox(schedBox[q], m)
      /\ \A n : InBox(schedBox[q], n) => n = m \/ InBox(schedBox'[q], n)
      /\ pending[q].after = "match"
  BY <1>1, <1>2, HandlesBox
<1>4. c \in Calls /\ m = CallMsg("add_waiting_call", c)
  BY <1>3 DEF SchedMsg, CallMsg
<1>5. customer[c] # "new" /\ qc[c].state = "none"
  BY <1>1, <1>3, <1>4 DEF AddedIsNew
<1>6. /\ schedBox[q] # <<>> /\ schedBox'[q] = Tail(schedBox[q])
      /\ schedBox[q][1] = m
      /\ \A i \in 1..Len(schedBox'[q]) :
           /\ i + 1 \in 1..Len(schedBox[q]) /\ i + 1 # 1
           /\ schedBox[q][i + 1] = schedBox'[q][i]
  <2>1. schedBox[q] # <<>> /\ schedBox'[q] = Tail(schedBox[q])
    BY <1>1, <1>2 DEF Handles, TypeOK, BoxesTypeOK
  <2> QED
    BY <1>1, <2>1
<1> HIDE DEF m
<1>7. \A p \in Queues : ~InBox(schedBox'[p], CallMsg("add_waiting_call", c))
  <2> SUFFICES ASSUME NEW p \in Queues, NEW i \in 1..Len(schedBox'[p]),
                      schedBox'[p][i] = CallMsg("add_waiting_call", c)
               PROVE  FALSE
    BY DEF InBox
  <2>1. AddAt(q, 1, c)
    BY <1>1, <1>4, <1>6 DEF AddAt
  <2>2. CASE p = q
    <3>1. /\ i + 1 \in 1..Len(schedBox[q])
          /\ schedBox[q][i + 1] = schedBox'[q][i] /\ i + 1 # 1
      BY <1>6, <2>2
    <3>2. AddAt(q, i + 1, c)
      BY <2>2, <3>1 DEF AddAt
    <3> QED
      BY <1>1, <1>4, <2>1, <3>1, <3>2 DEF AddedOnce
  <2>3. CASE p # q
    <3>1. AddAt(p, i, c)
      BY <1>3, <2>3 DEF AddAt
    <3> QED
      BY <1>1, <1>4, <2>1, <2>3, <3>1 DEF AddedOnce
  <2> QED
    BY <2>2, <2>3
<1>8. /\ qc'[c].state = "live" /\ qc'[c].queue = q
      /\ \A d \in Calls \ {c} : qc'[d] = qc[d]
  <2>1. qc'[c] = [NoProcess("live") EXCEPT !.queue = q]
    BY <1>1, <1>2, <1>4, <1>5 DEF Start, Alive
  <2> QED
    BY <1>1, <1>2, <1>4, <2>1 DEF NoProcess
<1>9. CallEnters(q, c) /\ CallsMove(q)
  BY <1>4, <1>5, <1>7, <1>8 DEF CallEnters, CallsMove, SameCall
<1>10. ~Contains(waiting[q], c)
  BY <1>1, <1>4, <1>5 DEF WaitingPlaced, InQueue
<1>11. w \in Seq(Calls)
  BY <1>1, <1>4
<1>12. /\ IsInjective(w)
       /\ \A d : Contains(w, d) <=> Contains(waiting[q], d) \/ d = c
  <2>1. /\ Len(w) = Len(waiting[q]) + 1 /\ Len(waiting[q]) \in Nat
        /\ \A i \in 1..Len(waiting[q]) : w[i] = waiting[q][i]
        /\ w[Len(waiting[q]) + 1] = c
        /\ DOMAIN w = 1..(Len(waiting[q]) + 1)
        /\ DOMAIN waiting[q] = 1..Len(waiting[q])
    BY <1>1, <1>4
  <2> HIDE DEF w
  <2>2. \A i \in 1..Len(w) : i \in 1..Len(waiting[q]) \/ i = Len(waiting[q]) + 1
    BY <2>1
  <2>3. \A i \in 1..Len(waiting[q]) : i \in 1..Len(w)
    BY <2>1
  <2>4. Len(waiting[q]) + 1 \in 1..Len(w)
    BY <2>1
  <2>5. \A d : Contains(w, d) <=> Contains(waiting[q], d) \/ d = c
    BY <2>1, <2>2, <2>3, <2>4 DEF Contains
  <2>6. \A i \in 1..Len(waiting[q]) : waiting[q][i] # c
    BY <1>10 DEF Contains
  <2>7. IsInjective(w)
    BY <1>1, <2>1, <2>2, <2>6 DEF IsInjective
  <2> QED
    BY <2>5, <2>7
<1> HIDE DEF w
<1>13. \A d \in Calls : Contains(w, d) => InQueue(q, d)'
  BY <1>1, <1>8, <1>12 DEF WaitingPlaced, InQueue, Alive
<1>14. /\ waiting'[q] = w
       /\ \A p \in Queues \ {q} : waiting'[p] = waiting[p]
  BY <1>1, <1>2, ListIs
<1>15. /\ Asks(q) /\ pending'[q].after = "match"
       /\ \A p \in Queues \ {q} : pending'[p] = pending[p]
  BY <1>1, <1>2, <1>11, <1>13, MatchAsks
<1>16. ListMoves(q)
  <2>1. ASSUME NEW d \in Calls, Contains(w, d), ~Alive(qc'[d])
        PROVE  \E a \in Agents :
                 InBox(schedBox'[q], Finished(a, d, "answered"))
    <3>1. d # c /\ Contains(waiting[q], d) /\ ~Alive(qc[d])
      BY <1>8, <1>12, <2>1 DEF Alive
    <3>2. PICK a \in Agents : InBox(schedBox[q], Finished(a, d, "answered"))
      BY <1>1, <1>3, <3>1 DEF DeadCallLeavesWaiting
    <3>3. Finished(a, d, "answered") # m
      BY <1>3 DEF Finished
    <3> QED
      BY <1>3, <3>2, <3>3
  <2>2. ASSUME crashes' = 0, NEW d \in Calls, Alive(qc'[d]), qc'[d].queue = q
        PROVE  Contains(w, d)
    BY <1>1, <1>8, <1>12, <2>2 DEF LiveCallIsWaiting
  <2> QED
    BY <1>12, <1>13, <1>14, <1>15, <2>1, <2>2 DEF ListMoves
<1>17. UNCHANGED <<next_res, att, customer>>
  BY <1>1, SchedulersLeave DEF SchedulerStep
<1>18. Elsewhere(q)
  BY <1>3, <1>14, <1>15 DEF Elsewhere
<1> QED
  BY <1>3, <1>9, <1>15, <1>16, <1>17, <1>18, MovesKeep


(* The call of a customer who hung up is stopped, and leaves the list now  *)
(* or when the session that dials for it has answered.                     *)
LEMMA HungUpKeeps ==
  ASSUME TypeInv, TypeInv', PromiseInv, WaitingInv, NEW q \in Queues,
         CallHungUp(q), crashes' = crashes
  PROVE  PromiseInv' /\ WaitingInv'
<1> DEFINE m == Head(schedBox[q])
<1>1. /\ TypeOK /\ HangUpIsReal /\ WaitingPlaced
      /\ schedBox[q] \in Seq(SchedMsg) /\ waiting[q] \in Seq(Calls)
      /\ IsInjective(waiting[q])
      /\ qc \in [Calls -> QueuedCallState]
  BY SchedulerSetting
<1>2. Handles(q, "call_hung_up")
  BY DEF CallHungUp
<1>3. /\ BoxMoves(q)
      /\ \A p \in Queues \ {q} : schedBox'[p] = schedBox[p]
      /\ m \in SchedMsg /\ m.type = "call_hung_up"
      /\ InBox(schedBox[q], m)
      /\ \A n : InBox(schedBox[q], n) => n = m \/ InBox(schedBox'[q], n)
      /\ pending[q].after = "match"
  BY <1>1, <1>2, HandlesBox
<1>4. PICK c \in Calls : c = m.call /\ m = CallMsg("call_hung_up", c)
  BY <1>3 DEF SchedMsg, CallMsg
<1> DEFINE dialled == {a \in Agents : in_flight[q][a] = c}
<1>5. /\ qc' = [qc EXCEPT ![c] = Stop(@, "abandoned")]
       /\ \/ /\ \E a \in dialled : AskCancel(q, a, c, "forget_call")
             /\ UNCHANGED schedVars
          \/ /\ SchedulerState(q, RemoveFirst(waiting[q], c), available[q],
                               in_flight[q], last_assigned[q])
             /\ GoIdle(q, agentBox)
  BY <1>4 DEF CallHungUp
<1> HIDE DEF m
<1>6. customer[c] \in {"hungup", "gone"} /\ InQueue(q, c)
  BY <1>1, <1>3, <1>4 DEF HangUpIsReal
<1>7. /\ \A d \in Calls \ {c} : qc'[d] = qc[d]
      /\ qc'[c] = Stop(qc[c], "abandoned")
      /\ qc[c].state \in {"none", "live", "answered", "abandoned"}
  BY <1>1, <1>5 DEF QueuedCallState
<1>8. /\ SameCall(c) \/ CallGivenUp(q, c)
      /\ Done(c)'
      /\ \A d \in Calls \ {c} : SameCall(d)
  <2>1. \A d \in Calls \ {c} : SameCall(d)
    BY <1>7 DEF SameCall
  <2>2. CASE Alive(qc[c])
    <3>1. qc'[c].state = "abandoned"
      BY <1>7, <2>2 DEF Stop, NoProcess
    <3> QED
      BY <1>6, <2>1, <2>2, <3>1 DEF CallGivenUp, Done, InQueue
  <2>3. CASE ~Alive(qc[c])
    <3>1. qc'[c] = qc[c]
      BY <1>7, <2>3 DEF Stop
    <3> QED
      BY <1>6, <1>7, <2>1, <2>3, <3>1 DEF SameCall, Done, InQueue, Alive
  <2> QED
    BY <2>2, <2>3
<1>9. \A d \in Calls, a \in Agents :
        InBox(schedBox[q], Finished(a, d, "answered"))
          => InBox(schedBox'[q], Finished(a, d, "answered"))
  BY <1>3 DEF Finished
<1>10. UNCHANGED <<next_res, att, customer>>
  BY <1>1, SchedulersLeave DEF SchedulerStep
<1>11. CASE /\ \E a \in dialled : AskCancel(q, a, c, "forget_call")
            /\ UNCHANGED schedVars
  <2>1. PICK a \in dialled : AskCancel(q, a, c, "forget_call")
    BY <1>11
  <2>2. /\ Asks(q)
        /\ pending'[q].call = c /\ pending'[q].after = "forget_call"
        /\ \A p \in Queues \ {q} : pending'[p] = pending[p]
    BY <1>1, <1>4, <2>1, CancelIsAsked
  <2>3. waiting' = waiting
    BY <1>11 DEF schedVars
  <2>4. ListMoves(q) /\ CallsMove(q)
    <3> DEFINE gone == {}
    <3>1. \A d \in Calls : Contains(waiting'[q], d)
                             <=> Contains(waiting[q], d) /\ d \notin gone
      BY <2>3
    <3>2. \A d \in Calls : d \notin gone
      OBVIOUS
    <3> HIDE DEF gone
    <3>3. \A d \in Calls :
            \/ SameCall(d)
            \/ /\ CallGivenUp(q, d)
               /\ \/ d \in gone
                  \/ pending'[q].call = d /\ pending'[q].after = "forget_call"
      BY <1>8, <2>2
    <3>4. \A d \in Calls :
            pending'[q].call = d /\ pending'[q].after = "forget_call"
              => Done(d)'
      BY <1>8, <2>2 DEF Done
    <3>5. IsInjective(waiting'[q])
      BY <1>1, <2>3
    <3> QED
      BY <1>1, <1>3, <1>9, <3>1, <3>2, <3>3, <3>4, <3>5, ListKeeps
  <2>5. Elsewhere(q)
    BY <1>3, <2>2, <2>3 DEF Elsewhere
  <2> QED
    BY <1>3, <1>10, <2>2, <2>4, <2>5, MovesKeep
<1>12. CASE /\ SchedulerState(q, RemoveFirst(waiting[q], c), available[q],
                              in_flight[q], last_assigned[q])
            /\ GoIdle(q, agentBox)
  <2>1. /\ Asks(q) /\ pending'[q].after = "match"
        /\ \A p \in Queues \ {q} : pending'[p] = pending[p]
    BY <1>1, <1>12, IdleAsks
  <2>2. /\ waiting'[q] = RemoveFirst(waiting[q], c)
        /\ \A p \in Queues \ {q} : waiting'[p] = waiting[p]
    BY <1>1, <1>12, ListIs
  <2>3. ListMoves(q) /\ CallsMove(q)
    <3> DEFINE gone == {c}
    <3>1. /\ IsInjective(waiting'[q])
          /\ \A d \in Calls : Contains(waiting'[q], d)
                                <=> Contains(waiting[q], d) /\ d \notin gone
      <4>1. /\ IsInjective(RemoveFirst(waiting[q], c))
            /\ \A d : Contains(RemoveFirst(waiting[q], c), d)
                        <=> Contains(waiting[q], d) /\ d # c
        BY <1>1, RemovedList
      <4> QED
        BY <2>2, <4>1
    <3>2. \A d \in Calls : d \in gone <=> d = c
      OBVIOUS
    <3> HIDE DEF gone
    <3>3. \A d \in Calls :
            \/ SameCall(d)
            \/ /\ CallGivenUp(q, d)
               /\ \/ d \in gone
                  \/ pending'[q].call = d /\ pending'[q].after = "forget_call"
      BY <1>4, <1>8, <3>2
    <3>4. \A d \in Calls : d \in gone => Done(d)'
      BY <1>8, <3>2 DEF Done
    <3> QED
      BY <1>1, <1>3, <1>9, <2>1, <3>1, <3>3, <3>4, ListKeeps
  <2>4. Elsewhere(q)
    BY <1>3, <2>1, <2>2 DEF Elsewhere
  <2> QED
    BY <1>3, <1>10, <2>1, <2>3, <2>4, MovesKeep
<1> QED
  BY <1>5, <1>11, <1>12

(* The end of an attempt takes the call off the list if it was answered.   *)
LEMMA FinishedKeeps ==
  ASSUME TypeInv, TypeInv', PromiseInv, WaitingInv, NEW q \in Queues,
         AttemptFinished(q), crashes' = crashes
  PROVE  PromiseInv' /\ WaitingInv'
<1> DEFINE m == Head(schedBox[q])
           c == m.call
           w == StillWaiting(waiting[q], c, m.arg)
           gone == {d \in Calls : d = c /\ m.arg = "answered"}
<1>1. /\ TypeOK /\ RemovedIsDone /\ WaitingPlaced
      /\ schedBox[q] \in Seq(SchedMsg) /\ waiting[q] \in Seq(Calls)
      /\ IsInjective(waiting[q])
  BY SchedulerSetting
<1>2. /\ Handles(q, "attempt_finished")
      /\ MaybeMatch(q, w, available[q], [in_flight[q] EXCEPT ![m.agent] = None],
                    last_assigned[q], qc)
      /\ qc' = qc
  BY DEF AttemptFinished
<1>3. /\ BoxMoves(q)
      /\ \A p \in Queues \ {q} : schedBox'[p] = schedBox[p]
      /\ m \in SchedMsg /\ m.type = "attempt_finished"
      /\ InBox(schedBox[q], m)
      /\ \A n : InBox(schedBox[q], n) => n = m \/ InBox(schedBox'[q], n)
      /\ pending[q].after = "match"
  BY <1>1, <1>2, HandlesBox
<1>4. /\ c \in Calls /\ m.agent \in Agents
      /\ m.arg = "answered" => m = Finished(m.agent, c, "answered")
  BY <1>3 DEF SchedMsg, Finished
<1> HIDE DEF m
<1>5. /\ w \in Seq(Calls) /\ IsInjective(w)
      /\ \A d \in Calls : Contains(w, d)
                            <=> Contains(waiting[q], d) /\ d \notin gone
  <2>1. CASE m.arg = "answered"
    <3>1. w = RemoveFirst(waiting[q], c)
      BY <2>1 DEF StillWaiting
    <3> HIDE DEF w
    <3>2. /\ w \in Seq(Calls) /\ IsInjective(w)
          /\ \A d : Contains(w, d) <=> Contains(waiting[q], d) /\ d # c
      BY <1>1, <3>1, RemovedList
    <3> QED
      BY <1>4, <2>1, <3>2
  <2>2. CASE m.arg # "answered"
    <3>1. w = waiting[q]
      BY <2>2 DEF StillWaiting
    <3> QED
      BY <1>1, <2>2, <3>1
  <2> QED
    BY <2>1, <2>2
<1>6. \A d \in Calls : d \in gone => Done(d)'
  <2>1. m.arg = "answered" => Done(c)
    BY <1>1, <1>3, <1>4 DEF RemovedIsDone
  <2> QED
    BY <1>2, <2>1 DEF Done
<1>7. \A d \in Calls, a \in Agents :
        d \notin gone /\ InBox(schedBox[q], Finished(a, d, "answered"))
          => InBox(schedBox'[q], Finished(a, d, "answered"))
  <2>1. ASSUME NEW d \in Calls, NEW a \in Agents,
               m = Finished(a, d, "answered")
        PROVE  d \in gone
    BY <1>4, <2>1 DEF Finished
  <2> QED
    BY <1>3, <2>1
<1> HIDE DEF w, gone
<1>8. \A d \in Calls : Contains(w, d) => InQueue(q, d)'
  BY <1>1, <1>2, <1>5 DEF WaitingPlaced, InQueue
<1>9. /\ waiting'[q] = w
      /\ \A p \in Queues \ {q} : waiting'[p] = waiting[p]
  BY <1>1, <1>2, ListIs
<1>10. /\ Asks(q) /\ pending'[q].after = "match"
       /\ \A p \in Queues \ {q} : pending'[p] = pending[p]
  BY <1>1, <1>2, <1>5, <1>8, MatchAsks
<1>11. \A d \in Calls : SameCall(d)
  BY <1>2 DEF SameCall
<1>12. ListMoves(q) /\ CallsMove(q)
  BY <1>1, <1>3, <1>5, <1>6, <1>7, <1>9, <1>10, <1>11, ListKeeps
<1>13. UNCHANGED <<next_res, att, customer>>
  BY <1>1, SchedulersLeave DEF SchedulerStep
<1>14. Elsewhere(q)
  BY <1>3, <1>9, <1>10 DEF Elsewhere
<1> QED
  BY <1>3, <1>10, <1>12, <1>13, <1>14, MovesKeep

(* Handlers that leave the list alone.                                     *)
LEMMA ListUntouched ==
  ASSUME TypeInv, TypeInv', PromiseInv, WaitingInv, NEW q \in Queues,
         SchedulerStep(q), crashes' = crashes, qc' = qc,
         BoxMoves(q), \A p \in Queues \ {q} : schedBox'[p] = schedBox[p],
         \A c \in Calls, a \in Agents :
           InBox(schedBox[q], Finished(a, c, "answered"))
             => InBox(schedBox'[q], Finished(a, c, "answered")),
         waiting'[q] = waiting[q],
         \A p \in Queues \ {q} : waiting'[p] = waiting[p],
         Asks(q), pending[q].after # "forget_call",
         pending'[q].after # "forget_call",
         \A p \in Queues \ {q} : pending'[p] = pending[p]
  PROVE  PromiseInv' /\ WaitingInv'
<1>1. TypeOK /\ IsInjective(waiting[q])
  BY SchedulerSetting
<1>2. \A c \in Calls : SameCall(c)
  BY DEF SameCall
<1>3. ListMoves(q) /\ CallsMove(q)
  <2> DEFINE gone == {}
  <2>1. \A c \in Calls : c \notin gone
    OBVIOUS
  <2> HIDE DEF gone
  <2> QED
    BY <1>1, <1>2, <2>1, ListKeeps
<1>4. UNCHANGED <<next_res, att, customer>>
  BY <1>1, SchedulersLeave
<1>5. Elsewhere(q)
  BY DEF Elsewhere
<1> QED
  BY <1>3, <1>4, <1>5, MovesKeep

(* drop_agent, add_member and the presence updates.                        *)
LEMMA UpdatesKeep ==
  ASSUME TypeInv, TypeInv', PromiseInv, WaitingInv, NEW q \in Queues,
         \/ AddMember(q) \/ RemoveMember(q) \/ AgentAvailable(q)
         \/ AgentLoggedOut(q) \/ AgentNotAvailable(q),
         crashes' = crashes
  PROVE  PromiseInv' /\ WaitingInv'
<1>1. /\ TypeOK /\ WaitingPlaced /\ waiting[q] \in Seq(Calls)
      /\ qc' = qc /\ SchedulerStep(q)
  BY SchedulerSetting
  DEF SchedulerStep, AddMember, RemoveMember, AgentAvailable, AgentLoggedOut,
      AgentNotAvailable
<1>2. PICK type \in {"add_member", "remove_member", "presence_update"} :
        Handles(q, type)
  BY DEF AddMember, RemoveMember, AgentAvailable, AgentLoggedOut,
         AgentNotAvailable
<1>3. /\ BoxMoves(q)
      /\ \A p \in Queues \ {q} : schedBox'[p] = schedBox[p]
      /\ Head(schedBox[q]).type = type
      /\ \A n : InBox(schedBox[q], n)
                  => n = Head(schedBox[q]) \/ InBox(schedBox'[q], n)
      /\ pending[q].after = "match"
  BY <1>1, <1>2, HandlesBox
<1>4. \A c \in Calls, a \in Agents :
        InBox(schedBox[q], Finished(a, c, "answered"))
          => InBox(schedBox'[q], Finished(a, c, "answered"))
  <2>1. \A c \in Calls, a \in Agents :
          Finished(a, c, "answered").type = "attempt_finished"
    BY DEF Finished
  <2> QED
    BY <1>3, <2>1
<1>5. ASSUME NEW av, NEW inf, NEW last,
             MaybeMatch(q, waiting[q], av, inf, last, qc)
      PROVE  PromiseInv' /\ WaitingInv'
  <2>1. /\ waiting'[q] = waiting[q]
        /\ \A p \in Queues \ {q} : waiting'[p] = waiting[p]
    BY <1>1, <1>5, ListIs
  <2>2. \A c \in Calls : Contains(waiting[q], c) => InQueue(q, c)'
    BY <1>1 DEF WaitingPlaced, InQueue
  <2>3. /\ Asks(q) /\ pending'[q].after = "match"
        /\ \A p \in Queues \ {q} : pending'[p] = pending[p]
    BY <1>1, <1>5, <2>2, MatchAsks
  <2> QED
    BY <1>1, <1>3, <1>4, <2>1, <2>3, ListUntouched
<1>6. ASSUME NEW a \in Agents, NEW after \in {"match", "stay"},
             DropAgent(q, a, after)
      PROVE  PromiseInv' /\ WaitingInv'
  <2> DEFINE av == RemoveFirst(available[q], a)
  <2>1. CASE /\ MaybeMatch(q, waiting[q], av, in_flight[q], last_assigned[q],
                           qc)
    BY <1>5, <2>1
  <2>2. CASE SchedulerState(q, waiting[q], av, in_flight[q], last_assigned[q])
    <3>1. /\ waiting'[q] = waiting[q]
          /\ \A p \in Queues \ {q} : waiting'[p] = waiting[p]
      BY <1>1, <2>2, ListIs
    <3>2. CASE GoIdle(q, agentBox)
      <4>1. /\ Asks(q) /\ pending'[q].after = "match"
            /\ \A p \in Queues \ {q} : pending'[p] = pending[p]
        BY <1>1, <3>2, IdleAsks
      <4> QED
        BY <1>1, <1>3, <1>4, <3>1, <4>1, ListUntouched
    <3>3. CASE /\ in_flight[q][a] # None
               /\ AskCancel(q, a, in_flight[q][a], after)
      <4>1. in_flight[q][a] \in Calls
        BY <1>1, <3>3 DEF TypeOK, SchedulerTypeOK
      <4>2. /\ Asks(q) /\ pending'[q].after = after
            /\ \A p \in Queues \ {q} : pending'[p] = pending[p]
        BY <1>1, <3>3, <4>1, CancelIsAsked
      <4> QED
        BY <1>1, <1>3, <1>4, <3>1, <4>2, ListUntouched
    <3>4. CASE ~GoIdle(q, agentBox) /\ in_flight[q][a] = None
      BY <1>5, <1>6, <3>4 DEF DropAgent
    <3> QED
      BY <1>6, <3>2, <3>3, <3>4 DEF DropAgent
  <2> QED
    BY <1>6, <2>1, <2>2 DEF DropAgent
<1>7. CASE AddMember(q) \/ AgentAvailable(q) \/ AgentNotAvailable(q)
  BY <1>5, <1>7 DEF AddMember, AgentAvailable, AgentNotAvailable
<1>8. CASE RemoveMember(q) \/ AgentLoggedOut(q)
  <2>1. Head(schedBox[q]).agent \in Agents
    <3>1. /\ Head(schedBox[q]) \in SchedMsg
          /\ Head(schedBox[q]).type \in {"remove_member", "presence_update"}
      BY <1>1, <1>8, HandlesBox DEF RemoveMember, AgentLoggedOut
    <3> QED
      BY <3>1, SchedMsgFields
  <2> QED
    BY <1>6, <1>8, <2>1 DEF RemoveMember, AgentLoggedOut
<1> QED
  BY <1>7, <1>8


(* The session has answered the scheduler.                                 *)
LEMMA RepliesKeep ==
  ASSUME TypeInv, TypeInv', PromiseInv, WaitingInv, NEW q \in Queues,
         AttemptAccepted(q) \/ AttemptDeclined(q) \/ AttemptCancelled(q),
         crashes' = crashes
  PROVE  PromiseInv' /\ WaitingInv'
<1> DEFINE p == pending[q]
<1>1. /\ TypeOK /\ WaitingPlaced /\ RequestsPlaced /\ RemovedIsDone
      /\ waiting[q] \in Seq(Calls) /\ IsInjective(waiting[q])
      /\ p \in Pending
      /\ qc' = qc /\ schedBox' = schedBox /\ SchedulerStep(q)
  BY SchedulerSetting
  DEF SchedulerStep, AttemptAccepted, AttemptDeclined, AttemptCancelled
<1>2. p.request # "none" /\ p.call \in Calls
  BY <1>1 DEF Pending, Idle, AttemptAccepted, AttemptDeclined, AttemptCancelled
<1>3. p.request = "attempt" => InQueue(q, p.call) /\ p.after = "match"
  BY <1>1 DEF RequestsPlaced
<1>4. BoxMoves(q)
  BY <1>1, BoxStays
<1>5. \A c \in Calls : InQueue(q, c)' <=> InQueue(q, c)
  BY <1>1 DEF InQueue
<1> HIDE DEF p
<1>6. ASSUME NEW av, NEW inf, NEW last, p.after # "forget_call",
             MaybeMatch(q, waiting[q], av, inf, last, qc)
      PROVE  PromiseInv' /\ WaitingInv'
  <2>1. /\ waiting'[q] = waiting[q]
        /\ \A o \in Queues \ {q} : waiting'[o] = waiting[o]
    BY <1>1, <1>6, ListIs
  <2>2. \A c \in Calls : Contains(waiting[q], c) => InQueue(q, c)'
    BY <1>1, <1>5 DEF WaitingPlaced
  <2>3. /\ Asks(q) /\ pending'[q].after = "match"
        /\ \A o \in Queues \ {q} : pending'[o] = pending[o]
    BY <1>1, <1>6, <2>2, MatchAsks
  <2> QED
    BY <1>1, <1>4, <1>6, <2>1, <2>3, ListUntouched DEF p
<1>7. CASE AttemptAccepted(q)
  <2>1. p.request = "attempt"
        /\ \E av, inf, last : MaybeMatch(q, waiting[q], av, inf, last, qc)
    BY <1>7 DEF AttemptAccepted, p
  <2> QED
    BY <1>3, <1>6, <2>1
<1>8. CASE AttemptDeclined(q)
  <2>1. /\ p.request = "attempt"
        /\ \E av : SchedulerState(q, waiting[q], av, in_flight[q],
                                  last_assigned[q])
        /\ GoIdle(q, agentBox) \/ AskAgent(q, p.call, p.rest, agentBox)
    BY <1>8 DEF AttemptDeclined, p
  <2>2. /\ waiting'[q] = waiting[q]
        /\ \A o \in Queues \ {q} : waiting'[o] = waiting[o]
    BY <1>1, <2>1, ListIs
  <2>3. PICK c \in Calls : c = p.call /\ InQueue(q, c)'
    BY <1>2, <1>3, <1>5, <2>1
  <2>4. /\ Asks(q) /\ pending'[q].after = "match"
        /\ \A o \in Queues \ {q} : pending'[o] = pending[o]
    BY <1>1, <1>2, <2>1, <2>3, IdleAsks, AgentIsAsked
  <2> QED
    BY <1>1, <1>3, <1>4, <2>1, <2>2, <2>4, ListUntouched DEF p
<1>9. CASE AttemptCancelled(q)
  <2>1. CASE p.after = "match"
    <3>1. \E av, inf, last : MaybeMatch(q, waiting[q], av, inf, last, qc)
      BY <1>9, <2>1 DEF AttemptCancelled, p
    <3> QED
      BY <1>6, <2>1, <3>1
  <2>2. CASE p.after # "match"
    <3> DEFINE w == IF p.after = "forget_call"
                    THEN RemoveFirst(waiting[q], p.call) ELSE waiting[q]
               gone == {c \in Calls : c = p.call /\ p.after = "forget_call"}
    <3>1. /\ \E inf : SchedulerState(q, w, available[q], inf,
                                     last_assigned[q])
          /\ GoIdle(q, agentBox)
      BY <1>9, <2>2 DEF AttemptCancelled, p
    <3>2. /\ IsInjective(w)
          /\ \A c \in Calls : Contains(w, c)
                                <=> Contains(waiting[q], c) /\ c \notin gone
      <4>1. CASE p.after = "forget_call"
        <5>1. w = RemoveFirst(waiting[q], p.call)
          BY <4>1
        <5> HIDE DEF w
        <5>2. /\ IsInjective(w)
              /\ \A c : Contains(w, c)
                          <=> Contains(waiting[q], c) /\ c # p.call
          BY <1>1, <5>1, RemovedList
        <5> QED
          BY <4>1, <5>2
      <4>2. CASE p.after # "forget_call"
        <5>1. w = waiting[q]
          BY <4>2
        <5> QED
          BY <1>1, <4>2, <5>1
      <4> QED
        BY <4>1, <4>2
    <3> HIDE DEF w
    <3>3. /\ waiting'[q] = w
          /\ \A o \in Queues \ {q} : waiting'[o] = waiting[o]
      BY <1>1, <3>1, ListIs
    <3>4. /\ Asks(q) /\ pending'[q].after = "match"
          /\ \A o \in Queues \ {q} : pending'[o] = pending[o]
      BY <1>1, <3>1, IdleAsks
    <3>5. \A c \in Calls : c \in gone => Done(c)'
      BY <1>1 DEF RemovedIsDone, Done, p
    <3>6. \A c \in Calls : p.call = c /\ p.after = "forget_call" => c \in gone
      OBVIOUS
    <3>7. \A c \in Calls : SameCall(c)
      BY <1>1 DEF SameCall
    <3> HIDE DEF gone
    <3>8. ListMoves(q) /\ CallsMove(q)
      BY <1>1, <3>2, <3>3, <3>4, <3>5, <3>6, <3>7, ListKeeps DEF p
    <3>9. UNCHANGED <<next_res, att, customer>>
      BY <1>1, SchedulersLeave
    <3>10. Elsewhere(q)
      BY <1>1, <3>3, <3>4 DEF Elsewhere
    <3> QED
      BY <1>4, <3>4, <3>8, <3>9, <3>10, MovesKeep
  <2> QED
    BY <2>1, <2>2
<1> QED
  BY <1>7, <1>8, <1>9

(* A restart loses the list: no call is on it that should not be.          *)
LEMMA RestartsKeep ==
  ASSUME TypeInv, TypeInv', PromiseInv, WaitingInv, NEW q \in Queues,
         SchedulerRestarts(q), crashes' # 0
  PROVE  PromiseInv' /\ WaitingInv'
<1>1. TypeOK /\ qc' = qc /\ schedBox \in [Queues -> Seq(SchedMsg)]
  BY SchedulerSetting DEF SchedulerRestarts, TypeOK, BoxesTypeOK
<1>2. /\ \E av, inf, last : SchedulerState(q, <<>>, av, inf, last)
      /\ schedBox' = [schedBox EXCEPT ![q] = <<>>]
      /\ GoIdle(q, agentBox)
  BY DEF SchedulerRestarts
<1>3. /\ schedBox'[q] = <<>>
      /\ \A p \in Queues \ {q} : schedBox'[p] = schedBox[p]
  BY <1>1, <1>2
<1>4. BoxMoves(q)
  BY <1>3 DEF BoxMoves
<1>5. /\ waiting'[q] = <<>>
      /\ \A p \in Queues \ {q} : waiting'[p] = waiting[p]
  BY <1>1, <1>2, ListIs
<1>6. /\ Asks(q) /\ pending'[q].after = "match"
      /\ \A p \in Queues \ {q} : pending'[p] = pending[p]
  BY <1>1, <1>2, IdleAsks
<1>7. IsInjective(waiting'[q]) /\ \A c : ~Contains(waiting'[q], c)
  BY <1>5 DEF IsInjective, Contains
<1>8. ListMoves(q)
  BY <1>6, <1>7 DEF ListMoves
<1>9. CallsMove(q)
  BY <1>1 DEF CallsMove, SameCall
<1>10. UNCHANGED <<next_res, att, customer>>
  BY <1>1, SchedulersLeave
<1>11. Elsewhere(q)
  BY <1>3, <1>5, <1>6 DEF Elsewhere
<1> QED
  BY <1>4, <1>6, <1>8, <1>9, <1>10, <1>11, MovesKeep

----------------------------------------------------------------------------
(* Every step keeps the invariant.                                         *)

Invariant == TypeInv /\ PromiseInv /\ WaitingInv

LEMMA InitHolds == Init => Invariant
<1> SUFFICES ASSUME Init PROVE Invariant
  OBVIOUS
<1>1. TypeInv
  BY InitType
<1>2. /\ \A q \in Queues : /\ schedBox[q] = <<>>
                           /\ pending[q] = Idle
                           /\ waiting[q] = <<>>
      /\ \A a \in Agents : agentBox[a] = <<>>
      /\ \A c \in Calls : qc[c] = NoProcess("none") /\ customer[c] = "new"
      /\ next_res = 1
      /\ \A r \in Res : att[r] = NoAttempt
  BY DEF Init
<1>3. /\ NoProcess("none").state = "none"
      /\ NoAttempt.leg = "none" /\ NoAttempt.dial = "none"
  BY DEF NoProcess, NoAttempt
<1>4. /\ \A q \in Queues : \A m : ~InBox(schedBox[q], m)
      /\ \A a \in Agents : \A m : ~InBox(agentBox[a], m)
      /\ \A q \in Queues : \A c : ~Contains(waiting[q], c)
      /\ \A q \in Queues : IsInjective(waiting[q])
      /\ \A q \in Queues : \A i, c : ~AddAt(q, i, c)
  BY <1>2 DEF InBox, Contains, IsInjective, AddAt
<1>5. AddedOnce /\ AddedIsNew /\ HangUpIsReal
  BY <1>2, <1>3, <1>4 DEF AddedOnce, AddedIsNew, HangUpIsReal
<1>6. AttemptsPlaced
  <2>1. \A r \in Res : ~(r < 1)
    BY DEF Res
  <2> QED
    BY <1>2, <1>3, <2>1 DEF AttemptsPlaced, NotBegun
<1>7. AnswerIsBridge /\ RequestsPlaced /\ WaitingPlaced
  BY <1>2, <1>3, <1>4, AskingFields
  DEF AnswerIsBridge, RequestsPlaced, WaitingPlaced
<1>8. WaitingInv
  BY <1>2, <1>3, <1>4, AskingFields
  DEF WaitingInv, LivePlaced, RemovedIsDone, LiveCallIsWaiting,
      DeadCallLeavesWaiting, Alive
<1> QED
  BY <1>1, <1>5, <1>6, <1>7, <1>8 DEF Invariant, PromiseInv

LEMMA StutterKeeps ==
  ASSUME TypeInv, TypeInv', PromiseInv, WaitingInv, UNCHANGED vars
  PROVE  PromiseInv' /\ WaitingInv'
<1>1. /\ UNCHANGED <<schedBox, agentBox, qc, pending, waiting, next_res, att,
                     customer, crashes>>
  BY DEF vars, boxVars, attemptVars, schedVars, bounds
<1>2. Grows(schedBox, schedBox', Plain)
  BY <1>1, NothingGrows DEF TypeInv, TypeOK, BoxesTypeOK
<1>3. Arrive(agentBox, agentBox', TrueMsg) /\ BridgesOnward /\ SameCustomers
  BY <1>1
  DEF Arrive, BridgesOnward, EverBridged, NotBegun, SameCustomers
<1> QED
  BY <1>1, <1>2, <1>3, QuietKeeps

LEMMA NextHolds == Invariant /\ [Next]_vars => Invariant'
<1> SUFFICES ASSUME Invariant, [Next]_vars PROVE Invariant'
  OBVIOUS
<1>1. TypeInv /\ TypeInv' /\ PromiseInv /\ WaitingInv
  BY NextType DEF Invariant
<1>2. ASSUME NEW q \in Queues, SchedulerStep(q), UNCHANGED bounds
      PROVE  PromiseInv' /\ WaitingInv'
  <2>1. crashes' = crashes
    BY <1>2 DEF bounds
  <2> QED
    BY <1>1, <1>2, <2>1, AddedKeeps, HungUpKeeps, FinishedKeeps, UpdatesKeep,
       RepliesKeep
    DEF SchedulerStep
<1>3. ASSUME NEW a \in Agents,
             \/ (SessionStep(a) \/ RestoreTimerFires(a)) /\ UNCHANGED NotSession
             \/ TimeOut(a)
      PROVE  PromiseInv' /\ WaitingInv'
  BY <1>1, <1>3, SessionKeeps, TimersKeep
<1>4. ASSUME NEW r \in Res, DialerStep(r) \/ LegStep(r), UNCHANGED NotDialer
      PROVE  PromiseInv' /\ WaitingInv'
  <2>1. waiting' = waiting /\ crashes' = crashes
    BY <1>4 DEF NotDialer, NotSession, schedVars, bounds
  <2> QED
    BY <1>1, <1>4, <2>1, DialersKeep
<1>5. ASSUME Surroundings PROVE PromiseInv' /\ WaitingInv'
  BY <1>1, <1>5, SurroundingsKeep
<1>6. ASSUME Crash PROVE PromiseInv' /\ WaitingInv'
  <2>1. crashes' # 0
    BY <1>1, <1>6 DEF Crash, TypeInv, TypeOK
  <2>2. ASSUME NEW q \in Queues, SchedulerRestarts(q)
        PROVE  PromiseInv' /\ WaitingInv'
    BY <1>1, <2>1, <2>2, RestartsKeep
  <2>3. ASSUME NEW r \in Res, DialerCrashes(r), UNCHANGED schedVars
        PROVE  PromiseInv' /\ WaitingInv'
    BY <1>1, <2>1, <2>3, DialersKeep DEF schedVars
  <2> QED
    BY <1>6, <2>2, <2>3 DEF Crash
<1>7. ASSUME UNCHANGED vars PROVE PromiseInv' /\ WaitingInv'
  BY <1>1, <1>7, StutterKeeps
<1>8. PromiseInv' /\ WaitingInv'
  BY <1>2, <1>3, <1>4, <1>5, <1>6, <1>7 DEF Next, Quiescent, Surroundings
<1> QED
  BY <1>1, <1>8 DEF Invariant


----------------------------------------------------------------------------
(* The promise: what a step is to a customer.                              *)

Standing == [c \in Calls |-> qc[c].state]
Met == {c \in Calls : \E r \in Res : att[r].call = c /\ EverBridged(r)}
Left == {c \in Calls : customer[c] \in {"hungup", "gone"}}

(* No call changes its standing, nobody is bridged and nobody hangs up.    *)
LEMMA StandingStays == SameCalls => Standing' = Standing
BY DEF SameCalls, SameCall, Standing

LEMMA MetStays == SameBridges => Met' = Met
BY DEF SameBridges, Met

LEMMA LeftStays == customer' = customer => Left' = Left
BY DEF Left

LEMMA StandingBecomes ==
  ASSUME TypeOK, NEW c \in Calls, NEW k, qc' = [qc EXCEPT ![c] = k]
  PROVE  Standing' = [Standing EXCEPT ![c] = k.state]
<1>1. qc \in [Calls -> QueuedCallState]
  BY DEF TypeOK, QueuedCallTypeOK
<1>2. /\ qc'[c] = k
      /\ \A d \in Calls \ {c} : qc'[d] = qc[d]
  BY <1>1
<1>3. \A d \in Calls : qc'[d].state = IF d = c THEN k.state ELSE qc[d].state
  BY <1>2
<1> QED
  BY <1>3 DEF Standing

LEMMA StandingIsKept ==
  ASSUME TypeOK, NEW c \in Calls, NEW k, qc' = [qc EXCEPT ![c] = k],
         k.state = qc[c].state
  PROVE  Standing' = Standing
<1>1. Standing' = [Standing EXCEPT ![c] = k.state]
  BY StandingBecomes
<1> QED
  BY <1>1 DEF Standing

PromiseKept == [Promise!Next]_Promise!vars

LEMMA NothingHappens ==
  Standing' = Standing /\ Met' = Met /\ Left' = Left => PromiseKept
BY DEF PromiseKept, Promise!vars, Standing, Met, Left

LEMMA JoinsCount ==
  ASSUME NEW c \in Calls, qc[c].state = "none",
         Standing' = [Standing EXCEPT ![c] = "live"],
         Met' = Met, Left' = Left
  PROVE  PromiseKept
<1>1. Standing[c] = "none"
  BY DEF Standing
<1>2. Promise!Join(c)
  BY <1>1 DEF Promise!Join, Standing, Met, Left
<1> QED
  BY <1>2 DEF PromiseKept, Promise!Next

LEMMA MeetingsCount ==
  ASSUME NEW c \in Calls, qc[c].state = "live", c \notin Left,
         Standing' = Standing, Met' = Met \union {c}, Left' = Left
  PROVE  PromiseKept
<1>1. Standing[c] = "live"
  BY DEF Standing
<1>2. Promise!Meet(c)
  BY <1>1 DEF Promise!Meet, Standing, Met, Left
<1> QED
  BY <1>2 DEF PromiseKept, Promise!Next

LEMMA HangUpsCount ==
  ASSUME NEW c \in Calls,
         Standing' = Standing, Met' = Met, Left' = Left \union {c}
  PROVE  PromiseKept
<1>1. Promise!HangUp(c)
  BY DEF Promise!HangUp, Standing, Met, Left
<1> QED
  BY <1>1 DEF PromiseKept, Promise!Next

LEMMA ConnectionsCount ==
  ASSUME NEW c \in Calls, qc[c].state = "live", c \in Met,
         Standing' = [Standing EXCEPT ![c] = "answered"],
         Met' = Met, Left' = Left
  PROVE  PromiseKept
<1>1. Standing[c] = "live"
  BY DEF Standing
<1>2. Promise!Connect(c)
  BY <1>1 DEF Promise!Connect, Standing, Met, Left
<1> QED
  BY <1>2 DEF PromiseKept, Promise!Next

LEMMA AbandonmentsCount ==
  ASSUME NEW c \in Calls, qc[c].state = "live", c \in Left,
         Standing' = [Standing EXCEPT ![c] = "abandoned"],
         Met' = Met, Left' = Left
  PROVE  PromiseKept
<1>1. Standing[c] = "live"
  BY DEF Standing
<1>2. Promise!Abandon(c)
  BY <1>1 DEF Promise!Abandon, Standing, Met, Left
<1> QED
  BY <1>2 DEF PromiseKept, Promise!Next

LEMMA SchedulersPromise ==
  ASSUME TypeInv, PromiseInv, NEW q \in Queues,
         SchedulerStep(q) \/ SchedulerRestarts(q)
  PROVE  PromiseKept
<1> DEFINE m == Head(schedBox[q])
           c == m.call
<1>1. /\ TypeOK /\ AddedIsNew /\ HangUpIsReal
      /\ qc \in [Calls -> QueuedCallState]
  BY DEF TypeInv, PromiseInv, TypeOK, QueuedCallTypeOK
<1>2. Met' = Met /\ Left' = Left
  <2>1. UNCHANGED <<next_res, att, customer>>
    BY <1>1, SchedulersLeave
  <2>2. SameBridges
    BY <2>1 DEF SameBridges, EverBridged, NotBegun
  <2> QED
    BY <2>1, <2>2, MetStays, LeftStays
<1>3. CASE AddWaitingCall(q)
  <2>1. /\ Handles(q, "add_waiting_call")
        /\ qc' = [qc EXCEPT ![c] = Start(@, q)]
    BY <1>3 DEF AddWaitingCall
  <2>2. m \in SchedMsg /\ m.type = "add_waiting_call" /\ InBox(schedBox[q], m)
    BY <1>1, <2>1, HandlesBox
  <2>3. c \in Calls /\ m = CallMsg("add_waiting_call", c)
    BY <2>2 DEF SchedMsg, CallMsg
  <2> HIDE DEF m
  <2>4. qc[c].state = "none"
    BY <1>1, <2>2, <2>3 DEF AddedIsNew
  <2>5. Start(qc[c], q).state = "live"
    BY <2>4 DEF Start, NoProcess, Alive
  <2>6. qc' = [qc EXCEPT ![c] = Start(qc[c], q)]
    BY <2>1
  <2>7. Standing' = [Standing EXCEPT ![c] = "live"]
    BY <1>1, <2>3, <2>5, <2>6, StandingBecomes
  <2> QED
    BY <1>2, <2>3, <2>4, <2>7, JoinsCount
<1>4. CASE CallHungUp(q)
  <2>1. /\ Handles(q, "call_hung_up")
        /\ qc' = [qc EXCEPT ![c] = Stop(@, "abandoned")]
    BY <1>4 DEF CallHungUp
  <2>2. m \in SchedMsg /\ m.type = "call_hung_up" /\ InBox(schedBox[q], m)
    BY <1>1, <2>1, HandlesBox
  <2>3. c \in Calls /\ m = CallMsg("call_hung_up", c)
    BY <2>2 DEF SchedMsg, CallMsg
  <2> HIDE DEF m
  <2>4. c \in Left
    BY <1>1, <2>2, <2>3 DEF HangUpIsReal, Left
  <2>5. qc' = [qc EXCEPT ![c] = Stop(qc[c], "abandoned")]
    BY <2>1
  <2>6. CASE Alive(qc[c])
    <3>1. Stop(qc[c], "abandoned").state = "abandoned" /\ qc[c].state = "live"
      BY <2>6 DEF Stop, NoProcess, Alive
    <3>2. Standing' = [Standing EXCEPT ![c] = "abandoned"]
      BY <1>1, <2>3, <2>5, <3>1, StandingBecomes
    <3> QED
      BY <1>2, <2>3, <2>4, <3>1, <3>2, AbandonmentsCount
  <2>7. CASE ~Alive(qc[c])
    <3>1. Stop(qc[c], "abandoned").state = qc[c].state
      BY <2>7 DEF Stop
    <3>2. Standing' = Standing
      BY <1>1, <2>3, <2>5, <3>1, StandingIsKept
    <3> QED
      BY <1>2, <3>2, NothingHappens
  <2> QED
    BY <2>6, <2>7
<1>5. CASE ~AddWaitingCall(q) /\ ~CallHungUp(q)
  <2>1. qc' = qc
    BY <1>5
    DEF SchedulerStep, SchedulerRestarts, AddMember, RemoveMember,
        AttemptFinished, AgentAvailable, AgentLoggedOut, AgentNotAvailable,
        AttemptAccepted, AttemptDeclined, AttemptCancelled
  <2>2. Standing' = Standing
    BY <2>1, StandingStays DEF SameCalls, SameCall
  <2> QED
    BY <1>2, <2>2, NothingHappens
<1> QED
  BY <1>3, <1>4, <1>5


LEMMA SessionsPromise ==
  ASSUME TypeInv, PromiseInv, NEW a \in Agents,
         SessionStep(a) \/ AttemptTimerFires(a)
  PROVE  PromiseKept
<1>1. TypeOK /\ AttemptsPlaced
  BY DEF TypeInv, PromiseInv
<1>2. Left' = Left
  BY SessionPending, LeftStays DEF AttemptTimerFires
<1>3. ASSUME AttemptStarts(a) PROVE SessionStep(a) /\ Met' = Met
  <2> DEFINE m == Head(agentBox[a])
             k == NewAttempt(a, m.queue, m.call)
  <2>1. att \in [Res -> Attempt]
    BY <1>1 DEF TypeOK, DialerTypeOK
  <2>2. PICK r \in Res : r = next_res /\ att' = [att EXCEPT ![r] = k]
    BY <1>3 DEF AttemptStarts
  <2>3. NotBegun(r)
    BY <1>1, <2>2 DEF AttemptsPlaced, Res
  <2>4. k.leg = "none"
    BY DEF NewAttempt, NoAttempt
  <2> HIDE DEF k
  <2>5. att'[r].leg = "none" /\ \A s \in Res \ {r} : att'[s] = att[s]
    BY <2>1, <2>2, <2>4
  <2>6. ~EverBridged(r) /\ ~EverBridged(r)'
    BY <2>3, <2>5 DEF EverBridged, NotBegun
  <2>7. \A s \in Res : \A c \in Calls :
          att'[s].call = c /\ EverBridged(s)' <=> att[s].call = c /\ EverBridged(s)
    BY <2>5, <2>6 DEF EverBridged
  <2>8. Met' = Met
    BY <2>7 DEF Met
  <2> QED
    BY <1>3, <2>8 DEF SessionStep
<1>4. CASE DialerAnswered(a)
  <2>1. ~AttemptStarts(a) /\ SessionStep(a)
    BY <1>4 DEF AttemptStarts, DialerAnswered, Takes, SessionStep
  <2>2. Met' = Met
    BY <2>1, SessionBridges, MetStays
  <2>3. PICK r \in Res, c \in Calls :
          /\ c = att[r].call /\ EverBridged(r)
          /\ qc' = [qc EXCEPT ![c] = Stop(@, "answered")]
    BY <1>4, AnsweredCall
  <2>4. c \in Met
    BY <2>3 DEF Met
  <2>5. qc' = [qc EXCEPT ![c] = Stop(qc[c], "answered")]
    BY <2>3
  <2>6. CASE Alive(qc[c])
    <3>1. Stop(qc[c], "answered").state = "answered" /\ qc[c].state = "live"
      BY <2>6 DEF Stop, NoProcess, Alive
    <3>2. Standing' = [Standing EXCEPT ![c] = "answered"]
      BY <1>1, <2>5, <3>1, StandingBecomes
    <3> QED
      BY <1>2, <2>2, <2>4, <3>1, <3>2, ConnectionsCount
  <2>7. CASE ~Alive(qc[c])
    <3>1. Stop(qc[c], "answered").state = qc[c].state
      BY <2>7 DEF Stop
    <3>2. Standing' = Standing
      BY <1>1, <2>5, <3>1, StandingIsKept
    <3> QED
      BY <1>2, <2>2, <3>2, NothingHappens
  <2> QED
    BY <2>6, <2>7
<1>5. CASE ~DialerAnswered(a)
  <2>1. SameCalls
    <3>1. CASE SessionStep(a)
      BY <1>5, <3>1, SessionGrows
    <3>2. CASE AttemptTimerFires(a)
      BY <3>2 DEF AttemptTimerFires, SameCalls, SameCall
    <3> QED
      BY <3>1, <3>2
  <2>2. Met' = Met
    BY <1>3, SessionBridges, MetStays
  <2> QED
    BY <1>2, <2>1, <2>2, StandingStays, NothingHappens
<1> QED
  BY <1>4, <1>5

(* FreeSWITCH bridges a customer who waits, and only then is there         *)
(* anything for the queue to promise.                                      *)
LEMMA DialersPromise ==
  ASSUME TypeInv, PromiseInv, NEW r \in Res,
         DialerStep(r) \/ LegStep(r) \/ DialerCrashes(r)
  PROVE  PromiseKept
<1>1. UNCHANGED <<qc, customer>>
  BY DEF DialerStep, LegStep, OriginateRejected, OriginateAnswered,
         UuidBridge, BridgeSucceeded, BridgeFails, DialerExits, DialerCrashes,
         Ring, LegAnswers, LegEnds, ForkEnds, HupallRuns
<1>2. Standing' = Standing /\ Left' = Left
  BY <1>1, StandingStays, LeftStays DEF SameCalls, SameCall
<1>3. CASE UuidBridge(r)
  <2>1. /\ AttemptsPlaced /\ AnswerIsBridge /\ HangUpIsReal
        /\ qc \in [Calls -> QueuedCallState]
    BY DEF TypeInv, PromiseInv, TypeOK, QueuedCallTypeOK
  <2>2. /\ BridgesOnward
        /\ EverBridged(r)' /\ ~EverBridged(r)
        /\ \A s \in Res \ {r} : EverBridged(s)' <=> EverBridged(s)
        /\ customer[att[r].call] = "up"
        /\ ~NotBegun(r)
    BY <1>3, UuidBridgeBridges
  <2>3. PICK c \in Calls, q \in Queues : c = att[r].call /\ InQueue(q, c)
    BY <2>1, <2>2 DEF AttemptsPlaced
  <2>4. \A s \in Res : att'[s].call = att[s].call
    BY <2>2 DEF BridgesOnward
  <2>5. Met' = Met \union {c}
    <3>1. ASSUME NEW d \in Calls
          PROVE  (\E s \in Res : att'[s].call = d /\ EverBridged(s)')
                   <=> (\E s \in Res : att[s].call = d /\ EverBridged(s))
                         \/ d = c
      BY <2>2, <2>3, <2>4
    <3> QED
      BY <3>1 DEF Met
  <2>6. CASE c \in Met
    <3>1. Met' = Met
      BY <2>5, <2>6
    <3> QED
      BY <1>2, <3>1, NothingHappens
  <2>7. CASE c \notin Met
    <3>1. qc[c].state \in {"none", "live", "answered", "abandoned"}
      BY <2>1 DEF QueuedCallState
    <3>2. /\ qc[c].state # "none" /\ qc[c].state # "answered"
          /\ qc[c].state # "abandoned" /\ c \notin Left
      BY <2>1, <2>2, <2>3, <2>7
      DEF InQueue, AnswerIsBridge, HangUpIsReal, Met, Left
    <3> QED
      BY <1>2, <2>5, <3>1, <3>2, MeetingsCount
  <2> QED
    BY <2>6, <2>7
<1>4. CASE ~UuidBridge(r)
  <2>1. Met' = Met
    BY <1>4, LegsBridges, DialersBridges, MetStays
  <2> QED
    BY <1>2, <2>1, NothingHappens
<1> QED
  BY <1>3, <1>4

LEMMA SurroundingsPromise ==
  ASSUME TypeInv, Surroundings \/ UNCHANGED vars
         \/ \E a \in Agents : RestoreTimerFires(a)
  PROVE  PromiseKept
<1>1. UNCHANGED <<qc, att, next_res>>
  BY DEF Surroundings, Enqueue, CustomerHangsUp, HangUpNoticed, RelayLegEvent,
         UserSets, JoinsQueue, LeavesQueue, ChangeMembers, RestoreTimerFires,
         vars, attemptVars
<1>2. SameCalls /\ SameBridges
  BY <1>1 DEF SameCalls, SameCall, SameBridges, EverBridged, NotBegun
<1>3. Standing' = Standing /\ Met' = Met
  BY <1>2, StandingStays, MetStays
<1>4. customer \in [Calls -> CustomerState]
  BY DEF TypeInv, TypeOK, DialerTypeOK
<1>5. CASE \E c \in Calls : CustomerHangsUp(c)
  <2>1. PICK c \in Calls : customer' = [customer EXCEPT ![c] = "hungup"]
    BY <1>5 DEF CustomerHangsUp
  <2>2. Left' = Left \union {c}
    BY <1>4, <2>1 DEF Left
  <2> QED
    BY <1>3, <2>2, HangUpsCount
<1>6. CASE \E c \in Calls, q \in Queues : Enqueue(c, q)
  <2>1. PICK c \in Calls :
          customer[c] = "new" /\ customer' = [customer EXCEPT ![c] = "up"]
    BY <1>6 DEF Enqueue
  <2>2. Left' = Left
    BY <1>4, <2>1 DEF Left
  <2> QED
    BY <1>3, <2>2, NothingHappens
<1>7. CASE \E c \in Calls : HangUpNoticed(c)
  <2>1. PICK c \in Calls :
          customer[c] = "hungup" /\ customer' = [customer EXCEPT ![c] = "gone"]
    BY <1>7 DEF HangUpNoticed
  <2>2. Left' = Left
    BY <1>4, <2>1 DEF Left
  <2> QED
    BY <1>3, <2>2, NothingHappens
<1>8. CASE customer' = customer
  BY <1>3, <1>8, LeftStays, NothingHappens
<1>9. customer' = customer \/ \E c \in Calls :
        CustomerHangsUp(c) \/ HangUpNoticed(c) \/ \E q \in Queues : Enqueue(c, q)
  BY DEF Surroundings, RelayLegEvent, UserSets, JoinsQueue, LeavesQueue,
         ChangeMembers, RestoreTimerFires, vars, attemptVars
<1> QED
  BY <1>5, <1>6, <1>7, <1>8, <1>9

LEMMA StepPromise == Invariant /\ [Next]_vars => PromiseKept
<1> SUFFICES ASSUME Invariant, [Next]_vars PROVE PromiseKept
  OBVIOUS
<1>1. TypeInv /\ PromiseInv
  BY DEF Invariant
<1>2. ASSUME NEW q \in Queues, SchedulerStep(q) \/ SchedulerRestarts(q)
      PROVE  PromiseKept
  BY <1>1, <1>2, SchedulersPromise
<1>3. ASSUME NEW a \in Agents, SessionStep(a) \/ TimeOut(a) PROVE PromiseKept
  BY <1>1, <1>3, SessionsPromise DEF TimeOut
<1>4. ASSUME NEW r \in Res, DialerStep(r) \/ LegStep(r) \/ DialerCrashes(r)
      PROVE  PromiseKept
  BY <1>1, <1>4, DialersPromise
<1>5. ASSUME Surroundings \/ UNCHANGED vars
             \/ \E a \in Agents : RestoreTimerFires(a)
      PROVE  PromiseKept
  BY <1>1, <1>5, SurroundingsPromise
<1> QED
  BY <1>2, <1>3, <1>4, <1>5 DEF Next, Crash, Quiescent, Surroundings

----------------------------------------------------------------------------
(* The theorems.                                                           *)

(* Whatever the agents, the Dialers, FreeSWITCH and the clocks do, and     *)
(* whichever processes crash, a customer enters the queue once, and        *)
(* QueuedCall.stop/1 ends the call for good, as answered only if it was    *)
(* bridged to a member, as abandoned only if the customer hung up; nobody  *)
(* is bridged who is not in the queue, or was bridged before.              *)
THEOREM QueueKeepsPromise == Spec => KeepsPromise
<1>1. Init => Promise!Init
  <2> SUFFICES ASSUME Init PROVE Promise!Init
    OBVIOUS
  <2>1. /\ \A c \in Calls : qc[c] = NoProcess("none") /\ customer[c] = "new"
        /\ \A r \in Res : att[r] = NoAttempt
    BY DEF Init
  <2>2. NoProcess("none").state = "none" /\ NoAttempt.leg = "none"
    BY DEF NoProcess, NoAttempt
  <2>3. \A c \in Calls : qc[c].state = "none"
    BY <2>1, <2>2
  <2>4. \A r \in Res : ~EverBridged(r)
    BY <2>1, <2>2 DEF EverBridged
  <2> QED
    BY <2>1, <2>3, <2>4 DEF Promise!Init
<1>2. Invariant /\ [Next]_vars => [Promise!Next]_Promise!vars
  BY StepPromise DEF PromiseKept
<1> QED
  BY <1>1, <1>2, InitHolds, NextHolds, PTL DEF Spec, KeepsPromise, Promise!Spec

(* As long as no scheduler and no Dialer crashes, a call whose process     *)
(* lives is in the waiting list of its queue: attempt_finished and the     *)
(* hang-up are all that takes one out.                                     *)
THEOREM LiveCallsWait == Spec => [](crashes = 0 => LiveCallIsWaiting)
<1>1. Invariant => (crashes = 0 => LiveCallIsWaiting)
  BY DEF Invariant, WaitingInv
<1> QED
  BY <1>1, InitHolds, NextHolds, PTL DEF Spec

(* Crashes or not, a call without a process is in a waiting list only      *)
(* while what takes it out, the attempt_finished message or the rest of    *)
(* handle_call_hung_up/3, is on its way.                                   *)
THEOREM DeadCallsLeave == Spec => []DeadCallLeavesWaiting
<1>1. Invariant => DeadCallLeavesWaiting
  BY DEF Invariant, WaitingInv
<1> QED
  BY <1>1, InitHolds, NextHolds, PTL DEF Spec
=============================================================================
