---------------------------- MODULE AgentSession ----------------------------
(***************************************************************************)
(* Comcent.Queue.AgentSession: one process per agent, shared by all queues *)
(* the agent is in.  One action per message it handles; an action takes    *)
(* the first message of the mailbox and does all the handler does,         *)
(* including its synchronous calls to the QueuedCall and its reads and     *)
(* writes of the member's row (Comcent.Repo.OrgMember), which no other     *)
(* writer gets between.                                                    *)
(***************************************************************************)
EXTENDS Dialer

VARIABLES
  db,                \* db[a]: org_members.presence
  presence,          \* presence[a]: the presence the session has cached
  reservation,       \* reservation[a]: the attempt a is reserved for
  member_answered,   \* member_answered[a]: reservation.member_answered?
  no_answer_counts,  \* no_answer_counts[a][q]
  restore_timer,     \* restore_timer[a]: what the timer of restore_timer_ref
                     \* will restore the agent from, "none" when it is nil
  lost_timers        \* lost_timers[a]: restore timers still running that
                     \* restore_timer_ref no longer refers to

sessionVars ==
  <<db, presence, reservation, member_answered, no_answer_counts,
    restore_timer, lost_timers>>

----------------------------------------------------------------------------
(* Comcent.Repo.OrgMember: a write of the row is broadcast to every queue. *)

WriteDb(a, p) == db' = [db EXCEPT ![a] = p]

(* The session's state after clear_reservation/1.                          *)
ClearReservation(a) ==
  /\ reservation' = [reservation EXCEPT ![a] = NoRes]
  /\ member_answered' = [member_answered EXCEPT ![a] = FALSE]

(* maybe_mark_available/2, in memory only.  It is what is left of          *)
(* restore_presence_after_failure/1: that looks for the reservation, which *)
(* every caller has cleared by then.                                       *)
MarkAvailable(a) ==
  CASE db[a] = "Logged Out"                       -> "Logged Out"
    [] db[a] \in {"On Call", "Busy", "Wrap Up"}   -> presence[a]
    [] OTHER                                      -> "Available"

Takes(a, type) ==
  /\ agentBox[a] # <<>>
  /\ Head(agentBox[a]).type = type

Rest(a) == [agentBox EXCEPT ![a] = Tail(@)]

(* The message is about the attempt the agent is reserved for.             *)
Current(a, m) == m.res # NoRes /\ m.res = reservation[a]

Ignore(a) ==
  /\ agentBox' = Rest(a)
  /\ UNCHANGED <<schedBox, pending, qc, attemptVars, sessionVars>>

(* The answer to request m, unless the scheduler that sent it is gone.     *)
Answer(a, m, answer) ==
  LET p == pending[m.queue] IN
  pending' = IF p.request = m.type /\ p.agent = a /\ p.call = m.call
             THEN [pending EXCEPT ![m.queue].answer = answer]
             ELSE pending

----------------------------------------------------------------------------
(* handle_call({:attempt, queue_id, call_id}).  Dialer.start_link fails    *)
(* when the bound MaxRes is used up.                                       *)
AttemptRefused(a) ==
  LET m == Head(agentBox[a]) IN
  /\ Takes(a, "attempt")
  /\ \/ reservation[a] # NoRes
     \/ db[a] # "Available"
     \/ ~Alive(qc[m.call])
     \/ next_res > MaxRes
  /\ agentBox' = Rest(a)
  /\ presence' = [presence EXCEPT ![a] = db[a]]
  /\ Answer(a, m, "error")
  /\ UNCHANGED <<schedBox, qc, attemptVars, db, reservation, member_answered,
                 no_answer_counts, restore_timer, lost_timers>>

AttemptStarts(a) ==
  LET m == Head(agentBox[a])
      r == next_res
  IN
  /\ Takes(a, "attempt")
  /\ reservation[a] = NoRes
  /\ db[a] = "Available"
  /\ Alive(qc[m.call])
  /\ r \in Res
  /\ agentBox' = Rest(a)
  /\ next_res' = r + 1
  /\ att' = [att EXCEPT ![r] = NewAttempt(a, m.queue, m.call)]
  /\ dialer' = [dialer EXCEPT ![a] = r]
  /\ reservation' = [reservation EXCEPT ![a] = r]
  /\ member_answered' = [member_answered EXCEPT ![a] = FALSE]
  /\ qc' = [qc EXCEPT ![m.call] = BeginAttempt(@, a, r)]
  /\ presence' = [presence EXCEPT ![a] = "Reserved"]
  /\ Answer(a, m, "ok")
  /\ UNCHANGED <<schedBox, story, customer, db, no_answer_counts,
                 restore_timer, lost_timers>>

(* handle_call({:cancel_attempt, call_id, reason}).  The Dialer stays the  *)
(* session's dialer, with its monitor and its timer.                       *)
CancelAttempt(a) ==
  LET m == Head(agentBox[a])
      r == reservation[a]
  IN
  /\ Takes(a, "cancel_attempt")
  /\ agentBox' = Rest(a)
  /\ Answer(a, m, "ok")
  /\ IF r # NoRes /\ att[r].call = m.call
     THEN /\ att' = [att EXCEPT ![r].hupall = TRUE,
                                ![r].cancelled = @ \/ dialer[a] # NoRes]
          /\ ClearReservation(a)
          /\ presence' = [presence EXCEPT ![a] = MarkAvailable(a)]
     ELSE UNCHANGED <<att, reservation, member_answered, presence>>
  /\ UNCHANGED <<schedBox, qc, next_res, dialer, story, customer, db,
                 no_answer_counts, restore_timer, lost_timers>>

----------------------------------------------------------------------------
(* Leg events, cast by the CallSession.                                    *)

(* set_presence_on_call/1, with before already sent by the same handler.   *)
PresenceOnCall(a, before) ==
  IF db[a] = "Logged Out"
  THEN /\ presence' = [presence EXCEPT ![a] = "Logged Out"]
       /\ schedBox' = before
       /\ UNCHANGED <<db, restore_timer>>
  ELSE /\ presence' = [presence EXCEPT ![a] = "On Call"]
       /\ restore_timer' = [restore_timer EXCEPT ![a] = "none"]
       /\ WriteDb(a, "On Call")
       /\ schedBox' = IF db[a] = "On Call" THEN before
                      ELSE Broadcast(before, PresenceUpdate(a, "On Call"))

QueueMemberAnswered(a) ==
  /\ Takes(a, "queue_member_answered")
  /\ agentBox' = Rest(a)
  /\ PresenceOnCall(a, schedBox)
  /\ UNCHANGED <<qc, attemptVars, reservation, member_answered,
                 no_answer_counts, lost_timers, pending>>

(* schedule_queue_presence_restore/5.                                      *)
ScheduleRestore(a, p) ==
  IF db[a] = "Logged Out"
  THEN /\ presence' = [presence EXCEPT ![a] = "Logged Out"]
       /\ restore_timer' = [restore_timer EXCEPT ![a] = "none"]
       /\ UNCHANGED <<db, schedBox>>
  ELSE /\ presence' = [presence EXCEPT ![a] = p]
       /\ restore_timer' = [restore_timer EXCEPT ![a] = p]
       /\ WriteDb(a, p)
       /\ schedBox' = Broadcast(schedBox, PresenceUpdate(a, p))

QueueMemberRejected(a) ==
  /\ Takes(a, "queue_member_rejected")
  /\ presence[a] # "On Call"
  /\ agentBox' = Rest(a)
  /\ ScheduleRestore(a, "Busy")
  /\ UNCHANGED <<qc, attemptVars, reservation, member_answered,
                 no_answer_counts, lost_timers, pending>>

QueueMemberCallEnded(a) ==
  /\ Takes(a, "queue_member_call_ended")
  /\ presence[a] = "On Call"
  /\ agentBox' = Rest(a)
  /\ ScheduleRestore(a, "Wrap Up")
  /\ UNCHANGED <<qc, attemptVars, reservation, member_answered,
                 no_answer_counts, lost_timers, pending>>

LateLegEvent(a) ==
  /\ \/ Takes(a, "queue_member_rejected") /\ presence[a] = "On Call"
     \/ Takes(a, "queue_member_call_ended") /\ presence[a] # "On Call"
  /\ Ignore(a)

----------------------------------------------------------------------------
(* Reports of the Dialer.                                                  *)

(* cancel_attempt_timer/1 and clear_dialer_monitor/1.                      *)
TimerOff(a) ==
  IF dialer[a] = NoRes THEN att ELSE [att EXCEPT ![dialer[a]].timer = "off"]

(* Mutant: the ring timer is cancelled and nothing takes its place.        *)
NoBackstop(a) == TimerOff(a)

(* The ring timer stops and the backstop of uuid_bridge starts.            *)
Backstop(a) ==
  IF dialer[a] = NoRes THEN att
  ELSE [att EXCEPT ![dialer[a]].timer = "bridge"]

DialerMemberAnswered(a) ==
  LET m == Head(agentBox[a]) IN
  /\ Takes(a, "dialer_member_answered")
  /\ Current(a, m)
  /\ agentBox' = Rest(a)
  /\ att' = Backstop(a)
  /\ member_answered' = [member_answered EXCEPT ![a] = TRUE]
  /\ UNCHANGED <<schedBox, qc, next_res, dialer, story, customer, db, presence,
                 reservation, no_answer_counts, restore_timer, lost_timers,
                 pending>>

DialerAnswered(a) ==
  LET c == att[reservation[a]].call
      q == att[reservation[a]].queue
  IN
  /\ Takes(a, "dialer_answered")
  /\ Current(a, Head(agentBox[a]))
  /\ agentBox' = Rest(a)
  /\ qc' = [qc EXCEPT ![c] = Stop(@, "answered")]
  /\ att' = TimerOff(a)
  /\ dialer' = [dialer EXCEPT ![a] = NoRes]
  /\ ClearReservation(a)
  /\ no_answer_counts' = [no_answer_counts EXCEPT ![a][q] = 0]
  /\ PresenceOnCall(a, ToQueue(schedBox, q, Finished(a, c, "answered")))
  /\ UNCHANGED <<next_res, story, customer, lost_timers, pending>>

(* What ends an attempt that was not answered: the call may be tried       *)
(* again, the agent is charged with a no-answer or not, at the limit is    *)
(* logged out (force_member_logged_out), and the scheduler hears of it.    *)
Unanswered(a, r, outcome, charged, attempts) ==
  LET c == att[r].call
      q == att[r].queue
      count == no_answer_counts[a][q] + 1
      forced == charged /\ MaxNoAnswers > 0 /\ count >= MaxNoAnswers
      told == IF forced
              THEN Broadcast(schedBox, PresenceUpdate(a, "Logged Out"))
              ELSE schedBox
  IN
  /\ qc' = [qc EXCEPT ![c] = EndAttempt(@)]
  /\ att' = attempts
  /\ dialer' = [dialer EXCEPT ![a] = NoRes]
  /\ ClearReservation(a)
  /\ no_answer_counts' =
       [no_answer_counts EXCEPT ![a][q] = IF charged THEN count ELSE @]
  /\ IF forced THEN WriteDb(a, "Logged Out") ELSE UNCHANGED db
  /\ presence' = [presence EXCEPT ![a] =
                    IF forced THEN "Logged Out" ELSE MarkAvailable(a)]
  /\ schedBox' = ToQueue(told, q, Finished(a, c, outcome))
  /\ UNCHANGED <<next_res, story, customer, restore_timer, lost_timers,
                 pending>>

DialerFailed(a) ==
  /\ Takes(a, "dialer_failed")
  /\ Current(a, Head(agentBox[a]))
  /\ agentBox' = Rest(a)
  /\ Unanswered(a, reservation[a], "failed", TRUE, TimerOff(a))

(* time_out_attempt/3 asks the Dialer to stop, and hangs up no leg itself. *)
TimeOutAttempt(a, charged) ==
  LET r == reservation[a] IN
  /\ agentBox' = Rest(a)
  /\ Unanswered(a, r, "timed_out", charged,
                IF dialer[a] = NoRes THEN att
                ELSE [att EXCEPT ![dialer[a]].timer = "off",
                                 ![dialer[a]].cancelled = TRUE])

AttemptTimeout(a) ==
  /\ Takes(a, "attempt_timeout")
  /\ Current(a, Head(agentBox[a]))
  /\ ~member_answered[a]
  /\ TimeOutAttempt(a, TRUE)

BridgeTimeout(a) ==
  /\ Takes(a, "bridge_timeout")
  /\ Current(a, Head(agentBox[a]))
  /\ TimeOutAttempt(a, FALSE)

(* The monitored Dialer is gone; if the agent is still reserved, it died   *)
(* without a report.                                                       *)
DialerDown(a) ==
  LET m == Head(agentBox[a]) IN
  /\ Takes(a, "DOWN")
  /\ dialer[a] = m.res
  /\ dialer' = [dialer EXCEPT ![a] = NoRes]
  /\ agentBox' =
       IF reservation[a] = NoRes THEN Rest(a)
       ELSE ToAgent(Rest(a), a, Report("dialer_failed", reservation[a]))
  /\ UNCHANGED <<schedBox, qc, next_res, att, story, customer, sessionVars,
                 pending>>

(* Reports and timers of an attempt the agent is no longer reserved for,   *)
(* a ring timer that fired as the member answered, a forgotten monitor.    *)
StaleReport(a) ==
  LET m == Head(agentBox[a]) IN
  /\ agentBox[a] # <<>>
  /\ \/ /\ m.type \in {"dialer_member_answered", "dialer_answered",
                       "dialer_failed", "attempt_timeout", "bridge_timeout"}
        /\ ~Current(a, m)
     \/ m.type = "attempt_timeout" /\ Current(a, m) /\ member_answered[a]
     \/ m.type = "DOWN" /\ dialer[a] # m.res
  /\ Ignore(a)

----------------------------------------------------------------------------
(* Timers.  A ring or bridge timer of an attempt that is over sends a      *)
(* message that is ignored, so only that of the current attempt fires.     *)
AttemptTimerFires(a) ==
  LET r == reservation[a] IN
  /\ r # NoRes
  /\ att[r].timer # "off"
  /\ att' = [att EXCEPT ![r].timer = "off"]
  /\ agentBox' =
       ToAgent(agentBox, a, Report(IF att[r].timer = "ring"
                                   THEN "attempt_timeout"
                                   ELSE "bridge_timeout", r))
  /\ UNCHANGED <<schedBox, qc, next_res, dialer, story, customer, sessionVars,
                 pending>>

RestoreTimerFires(a) ==
  /\ \/ /\ restore_timer[a] # "none"
        /\ agentBox' = ToAgent(agentBox, a, RestorePresence(restore_timer[a]))
        /\ restore_timer' = [restore_timer EXCEPT ![a] = "none"]
        /\ UNCHANGED lost_timers
     \/ \E p \in lost_timers[a] :
          /\ agentBox' = ToAgent(agentBox, a, RestorePresence(p))
          /\ lost_timers' = [lost_timers EXCEPT ![a] = @ \ {p}]
          /\ UNCHANGED restore_timer
  /\ UNCHANGED <<schedBox, qc, attemptVars, db, presence, reservation,
                 member_answered, no_answer_counts, pending>>

(* Mutant: restore_timer_ref is cancelled.                                 *)
NotCancelled(a) == lost_timers[a]

(* Setting restore_timer_ref to nil forgets, and does not cancel, a timer  *)
(* that was started after the one whose message is handled had fired.      *)
StillRunning(a) == lost_timers[a] \union ({restore_timer[a]} \ {"none"})

(* handle_info({:restore_presence, ...}).                                  *)
RestoreAgent(a) ==
  LET m == Head(agentBox[a]) IN
  /\ Takes(a, "restore_presence")
  /\ agentBox' = Rest(a)
  /\ restore_timer' = [restore_timer EXCEPT ![a] = "none"]
  /\ lost_timers' = [lost_timers EXCEPT ![a] = StillRunning(a)]
  /\ IF db[a] = m.expected
     THEN /\ WriteDb(a, "Available")
          /\ presence' = [presence EXCEPT ![a] = "Available"]
          /\ schedBox' = Broadcast(schedBox, PresenceUpdate(a, "Available"))
     ELSE /\ presence' = [presence EXCEPT ![a] = db[a]]
          /\ UNCHANGED <<db, schedBox>>
  /\ UNCHANGED <<qc, attemptVars, reservation, member_answered,
                 no_answer_counts, pending>>

SessionStep(a) ==
  \/ AttemptRefused(a)
  \/ AttemptStarts(a)
  \/ CancelAttempt(a)
  \/ QueueMemberAnswered(a)
  \/ QueueMemberRejected(a)
  \/ QueueMemberCallEnded(a)
  \/ LateLegEvent(a)
  \/ DialerMemberAnswered(a)
  \/ DialerAnswered(a)
  \/ DialerFailed(a)
  \/ AttemptTimeout(a)
  \/ BridgeTimeout(a)
  \/ DialerDown(a)
  \/ StaleReport(a)
  \/ RestoreAgent(a)

AgentSessionTypeOK ==
  /\ db \in [Agents -> DbPresence]
  /\ presence \in [Agents -> Presence]
  /\ reservation \in [Agents -> 0..MaxRes]
  /\ member_answered \in [Agents -> BOOLEAN]
  /\ no_answer_counts \in [Agents -> [Queues -> Nat]]
  /\ restore_timer \in [Agents -> Passing \union {"none"}]
  /\ lost_timers \in [Agents -> SUBSET Passing]
=============================================================================
