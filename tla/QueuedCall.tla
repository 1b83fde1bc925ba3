----------------------------- MODULE QueuedCall -----------------------------
(***************************************************************************)
(* Comcent.Queue.QueuedCall: one process per customer waiting in a queue.  *)
(* It only ever answers synchronous calls, so each of its handlers is an   *)
(* operator here, applied by the scheduler's and the sessions' actions     *)
(* inside their own steps.  A request to a call that has no process is the *)
(* default of safe_call/3: it changes nothing.                             *)
(***************************************************************************)
EXTENDS QueueMessages

VARIABLE qc   \* qc[c]: the QueuedCall process of call c

QueuedCallState ==
  [state : {"none", "live", "answered", "abandoned"},
   queue : Queues \union {None},
   member : Agents \union {None},     \* attempting_to_connect_to_member
   lock : 0..MaxRes,                  \* attempt_lock_id
   previous : Agents \union {None}]   \* previous_attempt_to_connect_to_member

NoProcess(how) ==
  [state |-> how, queue |-> None, member |-> None, lock |-> NoRes,
   previous |-> None]

Alive(k) == k.state = "live"

(* start/1: a call that has a process keeps it.                            *)
Start(k, q) ==
  IF Alive(k) THEN k ELSE [NoProcess("live") EXCEPT !.queue = q]

(* begin_attempt overwrites whatever attempt was recorded before.          *)
BeginAttempt(k, a, r) == [k EXCEPT !.member = a, !.lock = r]

(* Mutant: the lock is remembered in place of the member.                  *)
EndAttemptKeepsLock(k) ==
  IF Alive(k) /\ k.member # None
  THEN [k EXCEPT !.previous = k.lock, !.member = None, !.lock = NoRes]
  ELSE k

(* mark_failed and mark_timed_out, which differ in the story event only:   *)
(* the attempt becomes the previous one, if there is one to end.           *)
EndAttempt(k) ==
  IF Alive(k) /\ k.member # None
  THEN [k EXCEPT !.previous = k.member, !.member = None, !.lock = NoRes]
  ELSE k

(* Mutant: a call that is being connected to a member is not stopped.      *)
StopUnlessAttempting(k, how) ==
  IF Alive(k) /\ k.member = None THEN NoProcess(how) ELSE k

(* stop/1, and what the call left the queue for.                           *)
Stop(k, how) == IF Alive(k) THEN NoProcess(how) ELSE k

(* eligible_agents/2: the agent of the last attempt sits one round out,    *)
(* unless nobody else is left.                                             *)
EligibleAgents(k, candidates) ==
  LET others == RemoveFirst(candidates, k.previous)
  IN IF ~Alive(k) \/ k.previous = None \/ others = <<>>
     THEN candidates
     ELSE others

QueuedCallTypeOK == qc \in [Calls -> QueuedCallState]
=============================================================================
