# Comcent: specifications of the call queue and the SIP proxy

Comcent is a contact centre: FreeSWITCH carries the calls, an Elixir server
(`src/server`) decides what becomes of them, and a Go proxy, the SBC
(`src/sbc`), stands between the SIP network and FreeSWITCH.  This directory
models the two parts in which most of the system's concurrency lives:

* the *call queue* of the server, where customers wait, agents' telephones ring,
  and processes that only exchange messages have to agree on who is free, who is
  being dialled and who has been answered;
* the *SBC*, where goroutines of requests, tickers and other requests share the
  tables that decide who may call, whom a call reaches and where a dialog goes.

Contents:

* [Inventory](#inventory): the system's parts
* [The call queue](#the-call-queue-and-its-model)
* [The SBC](#the-sbc-and-its-models): [admission](#admission),
  [reachability](#reachability), [calls](#calls-through-the-proxy),
  [dispatcher](#dispatcher)
* [Abstractions](#abstractions)
* [Runs](#runs), [bounds](#bounds) and [fairness](#fairness)
* [Disagreements](#disagreements-between-the-code-and-its-documentation) and
  [observations](#observations)
* [Proofs](#proofs)
* [Not modelled](#not-modelled) and [plan](#plan)

To check and prove:

    tlc -workers 2 -config TwoByTwo.cfg MCQueueSystem.tla
    tlc -workers 2 -config Admission.cfg MCAdmission.tla
    tlc -workers 2 -config Forks.cfg ProxyCalls.tla
    tlapm QueueSystemTypes.tla
    tlapm AdmissionProofs.tla
    tlapm ProxyCallsProofs.tla
    tlapm DispatcherProofs.tla

`PROJECT.json` names the module of each configuration.

## Inventory

Paths are under `src/server/lib/comcent` unless they begin with `sbc/`.

| Part | State it keeps | Operations | Talks to |
| --- | --- | --- | --- |
| Queue scheduler, `queue/queue_scheduler.ex` (one process per queue) | waiting calls, available agents, agents in flight, last agent assigned | add a call, a call hangs up, add and remove a member, an attempt finishes, a presence changes, load | asks sessions (`attempt`, `cancel_attempt`) and waits; starts and stops queued calls |
| Agent session, `queue/agent_session.ex` (one per agent) | cached presence, reservation, no-answer counts, timers, its Dialer | attempt, cancel, leg events, Dialer reports, time-outs, restore presence | Dialer, queued calls, schedulers (casts), the member's row |
| Dialer, `queue/agent_session/dialer.ex` (one per attempt) | its request to FreeSWITCH | originate, bridge, fail, hang up | FreeSWITCH (blocking), its session (casts, exit) |
| Queued call, `queue/queued_call.ex` (one per waiting customer) | member tried, lock, previous member | begin, fail, time out an attempt; who may be tried; stop | answers only |
| Member presence, `repo/org_member.ex` and the two `member_controller.ex` | `org_members.presence`, two Redis keys | set by hand, by a session, by registration and its lapse | broadcasts to every scheduler |
| Event router, `call/event_router.ex` | none | route channel events, notice a customer's hang-up, heartbeats | call sessions, schedulers, Redis, the SBC |
| Call session, `call/call_session.ex` (one per call story) | the story, its spans, time-outs | channel events, recording, finalise, persist | sessions, database, storage |
| Heartbeats, `redis_listener.ex`, `kamailio_rpc.ex` | FreeSWITCH keys in Redis | refresh, expire | the SBC's dispatcher |
| Provisioning, `provisioning.ex` and the provider modules | trunks and numbers at a provider and in the database | import, ensure a trunk, attach a number, discard | the provider's HTTP interface |
| Instance set-up, `instance_setup.ex` | the first organisation | claim once | database |
| Proxy, `sbc/proxy.go` (a goroutine per request, one per branch of a fork) | call states, transactions that can be cancelled, affinity of users to nodes, spoofed numbers | REGISTER, INVITE to FreeSWITCH, to a user's contacts and to a trunk, CANCEL, ACK, BYE and other in-dialog requests | everything else in the SBC |
| Registrar and NAT keepalive, `sbc/registrar.go`, `sbc/nat_keepalive.go` | contacts per AOR, missed pings | register, unregister, look up, reap, ping | server (presence) |
| IP ban, `sbc/ip_ban.go` | failures and bans per address | fail, banned, sweep | proxy |
| Internal API client, `sbc/api.go`, `sbc/auth.go` | cached passwords, cached trunks, trunk networks | look up a password or a trunk, post a presence | server |
| Dispatcher, `sbc/dispatcher.go`, `sbc/main.go` | the list of FreeSWITCH nodes | add, remove, select, list; discovery by host name; RPC | proxy, server |
| SBC transport, `sbc/cert_reloader.go`, `pipe_listener.go`, `crlf_validation.go`, `symmetric_responses.go`, `config.go` | certificate, buffers | wrap connections and listeners | sipgo |
| Dialplan, campaigns, story processing, authentication, web application | rows, or none | one request or job at a time | database, services |

What is hard about each, and what makes it correct:

* **Call queue** (scheduler, sessions, Dialers, queued calls).  A scheduler is
  blocked while a session starts an attempt, and its mailbox fills.  A cancelled
  or timed-out attempt keeps a Dialer and telephone legs that go on.  A leg's
  fate reaches the session twice: from the Dialer, and as a channel event
  through RabbitMQ and the CallSession, in either order.  It is correct if no
  view of an agent contradicts another, no customer is lost or served twice, no
  agent stays reserved or unavailable for ever.  (That nobody is dialled while
  talking does not hold; see [Disagreements](#disagreements-between-the-code-and-its-documentation).)
* **Registrar, keepalive, presence.**  A registration expires, is reaped, is
  unregistered, misses pings or cannot be reached, while it is renewed and while
  earlier pings are still under way.  Whichever way the last contact goes, the
  server must be told (a post that is lost is not repeated), and the server's steps on a Redis key and a row must
  not overwrite what a call or the member has set.
* **Admission** (IP ban, API caches, exemptions).  Failures are counted by many
  goroutines in a table that is swept; answers of the server are cached and go
  stale; the exemptions are read before the ban's lock is taken.  It is correct
  if bans follow the policy whatever the table forgets, if a right password or a
  new number works before long, and if a known trunk is never counted again.
* **Proxy.**  Forks answer, fail, decline and are cancelled in any order; the
  caller's CANCEL, the ACK and BYEs from both sides meet handlers and deferred
  clean-ups.  It is correct if a caller waits only while a callee rings, losers are
  released, ACKs arrive, the tables have what a talking call needs, and every
  entry has somebody who will remove it.
* **Dispatcher, heartbeats.**  Two sources add and remove nodes without knowing
  of each other, the SBC restarts with an empty list, keys expire as heartbeats
  arrive, requests fail.  A node that stays up ends up in the list; one that
  stays down leaves it.
* **Call session.**  Events late or out of order, recordings that finish after
  the call, an idle time-out against further events; every story should be
  persisted once, with its spans closed.
* **Provisioning, instance set-up.**  Steps at a provider that fail half-way,
  two requests at once; no trunk without a record, one owner.

`PROJECT.json` lists every component with what is modelled of it, and every
hazard at the line where it bites.

## The call queue and its model

    customer --> dialplan --add_waiting_call--> QueueScheduler
                                                  | attempt, cancel_attempt (calls)
    EventRouter --call_hung_up------------------> |
                                                  v
    CallSession --queue_member_answered, ...--> AgentSession --begins--> Dialer
         ^                                        ^  |  ^                  |
         |                                        |  |  +--- reports, DOWN-+
         +--- channel events of member legs       |  +-- attempt_finished --> scheduler
                    (FreeSWITCH) <----------------|-- originate, uuid_bridge
                                                  +-- presence (row, broadcast)

| Module | Models | Notes |
| --- | --- | --- |
| `QueueMessages` | the mailboxes and messages, the constants | one mailbox per scheduler and per session, first in, first out; `pending[q]` is the synchronous call scheduler `q` is blocked in |
| `QueuedCall` | `queued_call.ex`, its registry | operators, since the process only answers |
| `Dialer` | `dialer.ex`, the legs FreeSWITCH makes for it | `att[r]` is an attempt with its Dialer, timer and legs |
| `AgentSession` | `agent_session.ex`, the member's row | one action per message; a handler with early returns has an action for what it does and shares one (`StaleReport`, `LateLegEvent`, `AttemptRefused`) for what it ignores |
| `QueueScheduler` | `queue_scheduler.ex` | one action per message, and one per continuation after a synchronous call |
| `QueueSystem` | all of these, customers, events, users, managers, crashes | `Init`, `Next`, fairness, the properties |
| `CallQueue` | what the queue promises a customer | abstract; `KeepsPromise` is the refinement |
| `MCQueueSystem` | the instance for TLC | symmetry |
| `QueueClaims` | statements of a moduledoc and of a comment | refuted by runs |
| `ListLemmas` | lemmas on sequences, `RemoveFirst` and `SetToSeqs` | proofs, used for the dispatcher's list as well |
| `QueueSystemTypes` | the inductive type invariant | proofs |
| `QueueSystemSafety` | the lists of a scheduler; reservations resolve, members come back | proofs |
| `QueueSystemPromise` | the refinement of `CallQueue`, the waiting lists | proofs |

A session's variables are the fields of its GenServer state, with the Dialer's
reference in `dialer[a]` and the attempt's timer in `att[r].timer`.  The model
names an attempt by its reservation id, which the code puts in every report of
the Dialer and in every timer message; ids are handed out in order.  The
handlers of `handle_call({:attempt, ...})` and so on are actions that take the
head of the mailbox, do everything the handler does (its calls to the queued
call, its writes of the row, its casts) and leave the rest unchanged.

A scheduler's handler stops at each call to a session: `MaybeMatch`, the
`maybe_match/1` at the end of nearly every handler, ends with `AskAgent`, which
puts the request into the session's mailbox and the rest of the handler into
`pending[q]`.  The session's action fills in the answer, and `AttemptAccepted`,
`AttemptDeclined` (which goes on to the next candidate) or `AttemptCancelled`
takes the handler up again.

## The SBC and its models

| Module | Models | Notes |
| --- | --- | --- |
| `Clock` | `time.Now()` | Go's zero time is 0, the program starts at `Epoch` |
| `BanPolicy` | what `ip_ban.go` promises | abstract: counts down, knows no clock, table or sweep |
| `IPBan` | `ip_ban.go` | the records; `Policy` is the refinement mapping |
| `InternalApi` | `api.go`, and the rows it reads | caches, trunk networks |
| `Admission` | both, with the handlers of requests from outside | authentication, exemptions |
| `Registrar` | `registrar.go`, the registrar's side of `nat_keepalive.go` | operators for the methods of one AOR |
| `PresenceLapse` | the server's handling of registrations, `member_controller.ex`, `org_member.ex` | one action per access to the row or to Redis |
| `Reachability` | both, with tickers, pings, forks and the goroutines that report | the telephones of one member |
| `ProxyState` | the tables of `proxy.go` | and the deferred clean-ups |
| `InviteToOne` | `handleInviteToFS`, `handleInviteFromFSToTrunk` | an INVITE with one leg |
| `ForkInvite` | `handleInviteFromFSToUser` | an INVITE with a leg per contact |
| `InDialog` | CANCEL, ACK, BYE | `handleAck`, `relayInDialog`, the OnCancel functions |
| `ProxyCalls` | all four, with telephones and trunks | properties |
| `Dispatcher` | `dispatcher.go`, discovery in `main.go`, heartbeats in the server | composed with nodes that come and go |
| `AdmissionProofs`, `ReachabilityProofs`, `ProxyCallsProofs`, `DispatcherProofs` | | proofs |

### Admission

A request from outside is dropped if its source is banned (`Dropped`), and
otherwise authenticated with what a cache (`AnswerFromCache`) or the API
(`AskApi`, `ServerAnswers`, `AnswerArrives`, `ApiFails`) says about a user or a
number.  `request[h]` is what a goroutine holds in its local variables between
these steps.  `Decide` lets it in or refuses it; a refused handler reads the
exemptions of `neverBan` (`CheckExempt`) and then takes the ban's lock and counts
(`CountFailure`, the part of `Fail` under the mutex), each a step of its own.
`Refuses` is the refusal, whether it is counted or not.  `Fail` reads the clock
just before it takes the lock (`ip_ban.go:77`); the model reads it under the
lock, which differs by the wait for a mutex, far below a tick.  Passwords are
numbers that grow with each change, so that a cached one can be recognised as
old; the data of a trunk is whether the number has one.  Time is `now`; a
request to the API ends within `Timeout`, as the HTTP client's setting says.

`KeepsPolicy` is the refinement: `IPBan` implements `BanPolicy`.  The policy
counts a source's open window, ban and memory of bans down to zero; the code
keeps moments of time and forgets entries in a sweep.  That a forgotten entry
makes no difference is what could go wrong (a sweep that forgets past bans too
early is the mutant).

### Reachability

`contacts` is the AOR's list, by address: whether a contact is live, is behind a
NAT, and how many pings in a row it missed.  The moment at which a registration
runs out is abstracted to "at any moment" (`TimePasses`).  `listed` says that the
map still has a list for the AOR: `UnregisterContact` leaves an empty list,
which a later reap finds and reports.  Pings and forked INVITEs are under way in
goroutines (`pings`, `ringing`); `lapses` counts goroutines of
`registrationLapsed`, which looks the AOR up once more before it posts.

At the server each post is a process: `log_out_until_registered` reads the row,
sets a key, writes the row if it is unchanged and otherwise deletes the key;
`restore_presence_after_lapse` reads the key, deletes it and writes the row if
it says Logged Out; and if there was no key,
`revert_member_presence_from_logged_out` reads the row, reads the key that calls
set (`previous_presence`), writes the row unconditionally and deletes the key.
Each of these is an action.  The member, the sessions (On Call, Wrap Up, a forced
logout) and the ends of direct calls may write between them, each in one step.

### Calls through the proxy

A Call-ID is followed through one INVITE and one dialog.  `pc[c]` is where the
INVITE's handler is: an action covers what the handler does between two points
at which others can see it (a table it stores into, a message it sends, a
channel it reads; or the end of a transaction without a word, after which it
returns and the caller hears nothing).  A branch of a fork has a goroutine of its own (`branch`): it
sends, lists itself so that it can be cancelled, and hands over what it hears.
`leg[c][b]` is the INVITE at the callee.  `Return` is the effect of the deferred
functions, with and without `established`.

CANCEL is answered by the library, which then calls the OnCancel function if the
handler has set one (`watching`).  ACK and BYE find the call by its Call-ID
alone.  A BYE reads the call's state, is relayed, and cleans up when the other
side has answered, one table after the other (`ForgetCall`, `ForgetAffinity`,
`ForgetSpoofed`); what happens in between is why `byes` has the state that was
read and the next step.

### Dispatcher

The list, the counter of selections since the SBC started, and as a history
variable the nodes selected since the list changed.  The code's counter has 64
bits; that it wraps after 2^64 INVITEs, between two of which the order would be
broken once, is not modelled.  Discovery is a
loop: look the host name up, add what is new, remove what no longer resolves.
A heartbeat's handler at the server saves a Redis key, asks the SBC whether it
lists the node, and adds it if not; a key that expires removes it.  Requests to
Redis and to the SBC fail up to `MaxLost` times; the SBC restarts, nodes crash
and start.

## Abstractions

In the call queue:

* A message is in the receiver's mailbox when it is sent; delays are delays in
  handling it.  Events of channels are delayed on their own path (`story[c]`,
  one queue per call: they pass through one CallSession).
* A handler of a session is one step, with its reads and writes of the member's
  row and its calls to queued calls.
* The cast `agent_busy`, which the scheduler ignores, the count of agents shown
  on dashboards, and the QUEUE_* events of the story are left out.
  `AgentSession.release/2` has no caller and is left out.
* Only calls of queues are modelled, so On Call is entered by queue calls only,
  and `previous_presence` in Redis is left out; `PresenceLapse` has it, with the
  revert of the presence at the end of a direct call (`call_session.ex:510`).
* A timer of an attempt that is over sends a message that is ignored; in the
  model it does not fire.  Restore timers fire even if forgotten: `lost_timers`
  is a *set* of the presences that forgotten timers will restore from, since
  two timers of a kind do no more than one.
* Of the two legs in a dial string at most one answers; the other (`fork`)
  rings and ends.  `SecondLeg` switches it on.
* FreeSWITCH may reply to an originate or a bridge what the Dialer does not
  expect, while the legs live on (`dialer.ex:122`, `dialer.ex:181`).
  `OddReplies` switches this on; without it, failures are those of legs that
  are gone.
* The candidates' order (`order_candidates/2`) and the round an agent sits out
  after a failed attempt (`eligible_agents/2`) are modelled; no property is
  about them.
* An AgentSession does not crash in the model.  Dialers and schedulers do.

In the SBC:

* Messages between the SBC and its neighbours are not lost: SIP over UDP is
  retransmitted by the library, and what is left is that a callee gives up
  (`failed`) or that a request to the server fails.
* The handlers of INVITE wait for responses on channels of the library.  That
  it closes one, or ends a transaction without an error, before the final
  response is a way in which a leg may end (`closed`).  The digest
  retry gets a response or an error from the library (`proxy.go:726`), which is
  taken to return an error in these cases.
* Provisional responses, retransmitted answers, re-INVITE, REFER, INFO, UPDATE
  and NOTIFY change none of the tables and are left out; so are the rewriting of
  Contacts, Vias and routes, and the second of two answers that a fork drops.
* A dialog is identified by its Call-ID, as in the code.  A Call-ID is not used
  again.
* The affinity of one user is followed (`of_user`); users do not meet in the
  table.  An AOR's contacts are followed for one AOR, for the same reason.
* Digest authentication is the comparison of passwords; nonces and the hash are
  left out, and so are networks: an address is in a trunk's networks or is not.
* `rejectedCalls` and `quietScannerLogs` decide what is logged, and are left out.

## Runs

| Run | Instance | Properties | What it shows |
| --- | --- | --- | --- |
| `TwoByTwo` | 1 queue, 2 agents, 2 calls, 2 attempts | `SchedulerConsistent`, `LiveCallIsWaiting` | the scheduler's lists never contradict each other and lose no customer |
| `OneAttempt` | 1 agent, call and attempt, both legs, odd replies, a time-out, a crash | `TypeOK`, `PassingHasTimer`, `ReservationHasResolver`, `KeepsPromise` | a reserved agent always has a Dialer or its last word on the way; a Busy or Wrap Up member always has a timer or its message; a call is answered only when the customer met a member, abandoned only after a hang-up, and never comes back |
| `Members` | 2 attempts, a presence set by hand, a change of membership, a hang-up, no-answer limit | `SchedulerConsistent`, `DeadCallLeavesWaiting` | the same when attempts are cancelled by logout, removal and hang-up; a call that is gone does not block the queue |
| `Liveness` | 1 attempt with one leg, odd replies, 2 time-outs, a hang-up, server fairness | `AttemptResolves`, `HungUpCallLeaves`, `PassingEnds`, `KeepsPromise` | the promise again, with hang-ups and time-outs; no agent reserved, Busy or in Wrap Up for ever and no call kept after its hang-up, even when FreeSWITCH falls silent |
| `Admission` | a user and a number behind one address, 2 handlers, 3 ticks, 1 change at the server | `TypeOK`, `KeepsPolicy`, `RightPasswordSoonWorks`, `NewNumberSoonWorks`, `KnownTrunkStaysExempt` | bans follow the policy, requests are refused on stale answers for no longer than they may be kept, a known trunk stays exempt |
| `Reachability` | 2 addresses, 2 REGISTERs, 2 pings an address, 1 request to the server at a time, 1 other write, a member in a call or not | `TypeOK`, `LapseIsPending`, `LapseIsTold`, `SilentContactGoes`, `CallKeepsPresence` | the server is told of a member who is gone, dead contacts go, and a lapse leaves a member On Call alone |
| `Calls` | 2 calls of every kind with one callee each, 2 nodes | `TypeOK`, `CallIsKnown`, `NoLeftovers`, `SameUserSameFs` | the tables hold what a talking call needs, and an entry always has a handler, a call state or a clean-up that will remove it; a user's next call goes to a node that has one |
| `Forks` | 1 call with up to 3 contacts, or to a trunk | `CallIsKnown`, `AckReachesCallee`, `LosersReleased`, `NoLeftovers`, `InviteIsAnswered` | the same of forks; losers are cancelled, ACKs arrive, a caller waits for ever only for a callee that rings for ever or a leg that ended without a word |
| `Dispatcher` | 2 nodes, a crash, a restart, a false expiry, a lost request | `TypeOK`, `RoundRobin`, `AliveIsTarget`, `DeadIsDropped` | nodes that stay up or down end up in the list or out of it; selection is fair between changes |
| `CancelledIsNotBridged`, `LateEventIsIgnored`, `OnlyPartiesEndCalls` | smallest instances that show it | one each | see [Disagreements](#disagreements-between-the-code-and-its-documentation) |

Why the properties could fail and need these interleavings:
`SchedulerConsistent` breaks as soon as an agent is offered while in flight,
`LiveCallIsWaiting` when an attempt that ends unanswered takes its call off the
list, `KeepsPromise` when a pick-up is taken for a conversation,
`PassingHasTimer` when a forgotten timer is really lost, `KeepsPolicy` when a
sweep forgets a ban that counts for the next one, `KnownTrunkStaysExempt` when
the networks are those of the latest answer, `LapseIsTold` and `LapseIsPending` when an
emptied list is dropped without a report, `NoLeftovers` when one clean-up forgets what another
relies on, `LosersReleased` when only some of the branches are cancelled,
`AliveIsTarget` when a heartbeat trusts Redis instead of asking the SBC.
`PROJECT.json` has, for each property of each run, a mutation of the code that
the run catches.

Deadlock is checked in the runs of the queue, where `Quiescent` is the state in
which nothing is left to do, and in those whose environment never stops.  In
`Calls`, `Forks` and `OnlyPartiesEndCalls` a call that is over has nothing left
to do.

### Bounds

*Queue.*  `MaxRes` bounds the attempts of a behaviour: beyond it
`Dialer.start_link` "fails" and the session declines.  Two attempts are what
late reports, stale timers and cancelled Dialers need to meet a successor; a
third repeats the second.  `OneAttempt` has one, with a crash and both legs,
which with two is out of TLC's reach; the safety properties of the queue are
theorems besides, with every constant free.  `OddReplies` is on where the
attempt itself is the question (`OneAttempt`, `Liveness`) and off where it only
multiplies states.  `MaxTimeOuts`, `MaxHangUps`, `MaxUserActs`,
`MaxMemberActs` and `MaxCrashes` bound what the environment may do: each run
allows one or two, at any moment.  Two queues, agents or calls are what it takes
for one to be mistaken for another; the hazards are all about pairs.
`MaxNoAnswers` is the queue's own setting; 1 makes the forced logout happen at
once, 0 is "no limit".

*Admission.*  `Window` and `MaxBanTime` are two ticks, a ban, a cached answer and
a request one; `MaxTime` leaves time for a ban, its end, a window that is over
and a sweep.  Two failures make a ban.  One address is both a telephone's and a
trunk's, so that every exemption applies to it; the records of two addresses
only share the moment of the sweep, and the proof covers any number.

*Reachability.*  Two contacts are what it takes for one to be mistaken for the
other, two REGISTERs for a fresh registration to meet what is left of an earlier
one, two pings for an old one to end after a newer one.  `MaxMissed` is 2 so that
a miss may or may not be the last.  One request to the server is under way at a
time (`Posts`): with two, a report and a return can overtake each other, which
is described [below](#observations).

*Calls.*  Two calls for the tables to be shared, three contacts for a fork to
have a winner and two losers in different states.  Three contacts and two calls
together are out of reach; the calls of a fork share nothing with others but
affinity, which has no part in `Forks`.

*Dispatcher.*  Two nodes, one of each disturbance, and three INVITEs
(`MaxSelects`), so that a round of the list is completed and another begun.

### Fairness

`LiveSpec` of the queue assumes what the BEAM and RabbitMQ give: a process with
a message handles it, a timer fires, an event is delivered.  FreeSWITCH,
customers and members may stop at any point: a request of a Dialer may never be
answered and a leg may ring for ever.  `AttemptResolves` holds nevertheless
because of the ring timer and the backstop of the bridge; `MaxTimeOuts` is large
enough there for every timer to fire.

In the SBC, tickers tick and goroutines that can run do (weak fairness of
`ReapExpired`, `StartPing`, of the end of a ping, of a handler's steps, of
discovery), a node that is up sends heartbeats and Redis expires the key of one
that is down.  A callee may ring for ever: the proxy sets no deadline (`proxy.go:293`,
`proxy.go:426`, `proxy.go:693`), and after a provisional response the library has
none either.  Telephones, calls, CANCELs, ACKs, BYEs, crashes, outages and losses
are free: they may happen or not.

## Disagreements between the code and its documentation

Each is a run that ends in a counterexample.

1. `CancelledIsNotBridged`.  The Dialer's moduledoc (`dialer.ex:21`) says that on
   `{:cancel, reason}` it kills legs and exits without further reports.  Every
   branch of `handle_continue` ends in `{:stop, ...}`, so the message is never
   taken from its mailbox.  `cancel_attempt` makes up for this with an
   out-of-band hupall; a time-out does not.  The leg of a timed-out attempt can
   answer later and take the customer, who is being offered to the next agent.
2. `LateEventIsIgnored`.  `agent_session.ex:252` has the late end of a leg
   ignored, and compares the presence only; the event names no leg.  In the
   counterexample an agent of two queues picks up and drops a first call, whose
   bridge fails; the other queue's scheduler offers the agent at once, and the
   agent picks up.  The first leg's answer and end, which come through RabbitMQ
   and the CallSession, are handled now: On Call, and Wrap Up while the second
   leg is bridged, which the timer turns into Available.  One queue is enough
   when the rejection of a second telephone of the dial string starts the timer
   that returns the agent, when the member sets Available by hand, or when the
   scheduler loads its list again.
3. `OnlyPartiesEndCalls`.  `proxy.go:948` takes a BYE that is answered 481 for
   the second of two that crossed, and ends the call.  The call is found by its
   Call-ID, so it may be the BYE of a telephone that answered a fork second,
   never got an ACK and gave up: the call state, affinity and spoofed number of
   the conversation that goes on are deleted, and later BYEs of FreeSWITCH are
   answered 200 without reaching the telephone.

### Observations

Found while modelling, and left without a run: no document says otherwise,
another run shows much the same, or the comment concerned is named with the
observation.

Call queue:

* `queue_scheduler.ex:209` relies on the agent being Busy for a while after a
  failure and on the broadcast of the return.
  `restore_presence_after_failure/1` runs after `clear_reservation/1` and finds
  no reservation: it never makes the agent Busy.  If there was a leg, its
  rejection does (by way of the CallSession); without one, for instance when
  the ESL connection failed, an Available agent stays off the list.
* A hang-up that the EventRouter sees before the scheduler has handled
  `add_waiting_call` is dropped (`event_router.ex:65`), although
  `queued_call.ex:5` has the process end when the customer abandons the call:
  it is started afterwards, and agents are dialled for nobody.
* `agent_session.ex:331` explains that after the member picked up the rest is
  FreeSWITCH's work, and should not count against the agent.  It does when the
  bridge fails: `dialer_failed` charges a no-answer.
* `agent_session.ex:8` speaks of one Dialer at a time; after a cancellation or a
  time-out the old one runs on beside the next.
* `queue_scheduler.ex:16`: an `attempt_finished` that arrives late deletes the
  agent's entry in `in_flight` whatever call it is for.
* `drop_agent/3` cancels at the session only (`queue_scheduler.ex:325`); the
  QueuedCall keeps the attempt until the next one overwrites it.
* A scheduler that restarts starts with nobody waiting: the customers of the
  old one are dialled for by nobody.  `LiveCallIsWaiting` is therefore checked,
  and proved, without crashes.
* The no-answer count is not reset by the logout it causes
  (`agent_session.ex:574`); `stop/1` of a queued call looks the process up before
  it calls it (`queued_call.ex:66`).

Proxy:

* A second contact's 2xx is dropped by the handler, which has returned: nobody
  ACKs it, and the telephone rings off only when it gives up.
* A CANCEL is lost on a callee if it comes before the handler has set OnCancel
  (`proxy.go:528`), between a branch's INVITE and its entry in the list
  (`proxy.go:465`), or during a digest retry (`proxy.go:710`): the caller hears
  487 and the callee rings on.  The comments there have a CANCEL cancel every
  branch (`proxy.go:528`), and a decline stop all the others (`proxy.go:575`).
  `LosersReleased` says that this is missed by branches whose INVITE was on its
  way, and by no others.
* An INVITE whose leg's transaction ends without a response or an error gets no
  final response (`proxy.go:313`, `proxy.go:355`); in a fork such a branch is
  waited for until another one answers or declines for all (`proxy.go:472`,
  `proxy.go:480`).
* If a CANCEL and a 2xx cross, the call state is recorded for a caller who has
  left; it goes with the callee's BYE.
* A BYE that is answered with an error other than 481 leaves the call's state,
  affinity and spoofed number in the tables for good.
* `selectTargetForUsers` and `saveAffinity` are two steps: two calls of a user
  made at once may go to different nodes.  And a pin outlives the conversation:
  that of a call whose caller has left, while the BYE is not answered, or of one
  whose BYE failed, counts as much as that of a call that talks.  With three
  calls, a user who talks on one node can therefore be sent to another.
  `SameUserSameFs` says what is left: the node has a call of that user that is
  being made or recorded.

Registrar and presence:

* A contact that cannot be reached, or that misses its pings, is removed by its
  address: a registration renewed in the meantime goes with it (`proxy.go:552`),
  and a miss of an old ping counts against it (`nat_keepalive.go:135`).
* A restart of the SBC forgets registrations without telling the server.
* A report of a lapse and the return of the registration are separate requests.
  If the return is handled first, or between the row being written and the key
  being read (`org_member.ex:178`), the member is registered and stays Logged
  Out.  The comment above it has the return give the presence back.
* A logout that is forced (`org_member.ex:138`) while the registration has lapsed
  leaves the presence kept over the lapse, and the next registration restores
  it: the member is Available, although the comment at `org_member.ex:133` says
  that later registrations do not restore a presence.  A forced logout between a
  return's read of the other key and its write of the row is undone as well.
* The end of a direct call writes the row whatever it is (`org_member.ex:256`):
  a member who has logged out or whose registration has lapsed meanwhile is
  Available again.
* The post that tells of a lapse is not repeated if it fails (`api.go:192`):
  `LapseIsTold` says that it is sent.

Admission:

* The window of failures does not slide: it starts with the first failure and
  ends with all of them (`ip_ban.go:93`), so that nearly twice as many failures
  as the limit can come within a window's time.
* An old password in the cache makes the new one fail, and count, for up to five
  minutes.
* A source that becomes exempt while banned stays banned until its ban ends
  (`ip_ban.go:61`, `ip_ban.go:128`).

Dispatcher and start-up:

* A look-up that fails skips the round (`main.go:216`): with no node resolving,
  dead ones stay.  Discovery never adds again what an RPC has removed; the next
  heartbeat does.
* A node known by heartbeats only stays in the list for good if the notice of
  its key's expiry, or the request that follows, is lost.
* `errgroup.Wait` cancels its context, so `err != nil && ctx.Err() == nil`
  (`main.go:239`) is never true and a listener that fails ends the process
  with status 0.

## Proofs

| Theorem | Module | States |
| --- | --- | --- |
| `TypeCorrect` | `QueueSystemTypes` | `Spec => []TypeOK` |
| `ReservedForOwnAttempt` | `QueueSystemTypes` | `Spec => []AttemptsStarted` |
| `SchedulersConsistent` | `QueueSystemSafety` | `Spec => []SchedulerConsistent` |
| `ReservationsResolve` | `QueueSystemSafety` | `Spec => []ReservationHasResolver` |
| `PassingHasTimers` | `QueueSystemSafety` | `Spec => []PassingHasTimer` |
| `QueueKeepsPromise` | `QueueSystemPromise` | `Spec => KeepsPromise`, the refinement of `CallQueue` by the whole queue |
| `LiveCallsWait` | `QueueSystemPromise` | `Spec => [](crashes = 0 => LiveCallIsWaiting)` |
| `DeadCallsLeave` | `QueueSystemPromise` | `Spec => []DeadCallLeavesWaiting` |
| `TypeCorrect` | `AdmissionProofs` | `Spec => []TypeOK` |
| `BansFollowPolicy` | `AdmissionProofs` | `Spec => KeepsPolicy`, the refinement of `BanPolicy` by `IPBan` |
| `KnownTrunks` | `AdmissionProofs` | `Spec => KnownTrunkStaysExempt` |
| `RightPasswords` | `AdmissionProofs` | `Spec => RightPasswordSoonWorks` |
| `NewNumbers` | `AdmissionProofs` | `Spec => NewNumberSoonWorks` |
| `TypeCorrect` | `ProxyCallsProofs` | `Spec => []TypeOK` |
| `NothingLeft` | `ProxyCallsProofs` | `Spec => []NoLeftovers` |
| `LosersStop` | `ProxyCallsProofs` | `Spec => []LosersReleased` |
| `TalkingIsKnown` | `ProxyCallsProofs` | `Spec => []CallIsKnown` |
| `AcksArrive` | `ProxyCallsProofs` | `Spec => []AckReachesCallee` |
| `UserStaysOnNodes` | `ProxyCallsProofs` | `Spec => SameUserSameFs` |
| `TypeCorrect` | `ReachabilityProofs` | `Spec => []TypeOK` |
| `LapsesPend` | `ReachabilityProofs` | `Spec => []LapseIsPending` |
| `CallsKeepPresence` | `ReachabilityProofs` | `Spec => CallKeepsPresence` |
| `TypeCorrect` | `DispatcherProofs` | `Spec => []TypeOK` |
| `ListedOnce` | `DispatcherProofs` | `Spec => []IsInjective(targets)` |
| `FairShare` | `DispatcherProofs` | `Spec => []RoundRobin` |

Each is about `Spec` with every action in it, for all values of the constants
that the assumptions allow: `QueueConstants` for the queue (agents are a finite
set), `ClockConstants`, `BanConstants`, `ApiConstants` and `AdmissionConstants`
for admission, `RegistrarConstants` and `ReachabilityConstants` for
reachability, `ProxyConstants` for calls, `DispatcherConstants` for the nodes.
Nothing else is assumed.

### The call queue

The steps include crashes of Dialers and schedulers, presences set by hand,
changes of membership and hang-ups.

* **Types.**  `TypeOK` is not inductive: a session that handles the end of its
  Dialer sends `attempt_finished` with the queue and call *of the attempt it is
  reserved for*, which are in `Queues` and `Calls` only if that attempt was
  started.  The inductive invariant is `TypeInv == TypeOK /\ AttemptsStarted`,
  with `AttemptsStarted`: the attempt a session is reserved for and the one it
  monitors have an id that was handed out, and were started for this very agent.
  It is preserved because ids only grow and no step changes whom an attempt is
  for (`SameAttempts`).  `NextType` has a step per process; a lemma per group of
  handlers stands behind each.
* **The scheduler's lists.**  Given the types, `SchedulerConsistent` is
  inductive, queue by queue (`ConsistentAt`).  A step of the scheduler keeps the
  lists fitting (`PutAvailableFits`, `RemoveFits`, `LandedFits`, `TakenFits`)
  and asks for an agent only on behalf of a call that has nobody in flight; a
  session answers a request without touching the question (`AnsweredOnly`); a
  restarted scheduler takes a list of members without repetitions.
* **Reservations resolve.**  A mailbox only grows, but for the message its
  session takes (`Kept`, `KeptBut`, `Posts`), so a last word on the way stays on
  the way.  A session that takes a last word about the attempt it is reserved
  for clears the reservation, and a Dialer that stops running leaves one
  (`DialerTells`).  It reaches the right session by `AttemptsStarted`.
* **Members come back.**  Inductive given the types: each handler that writes
  Busy or Wrap Up sets a timer; overwriting the reference puts the old timer
  among the lost ones, which fire too; a timer that fires leaves its message.
* **The promise.**  What a customer is told is decided far from where it
  happens, so the invariant (`PromiseInv`) follows each fact on its way through
  the mailboxes: a call is added by one message, in one mailbox, and has no
  process before (`AddedOnce`, `AddedIsNew`); `call_hung_up` is only ever in the
  mailbox of the call's queue, after the customer has gone (`HangUpIsReal`); an
  attempt, a request for one and an entry of a waiting list are all about a call
  that has been in that queue (`AttemptsPlaced`, `RequestsPlaced`,
  `WaitingPlaced`); a `dialer_answered` is of an attempt that was bridged, and so
  is an answered call (`AnswerIsBridge`).  Then each step is one of `CallQueue`
  or a stutter: `StepPromise` has a lemma per process.  Crashes are among the
  steps: a scheduler that restarts loses its list and its mailbox, and keeps the
  promise, because all that is left of a call is its process.
* **The waiting lists.**  `WaitingInv` adds that what takes a call off a list,
  an `attempt_finished` with `answered` or the rest of `handle_call_hung_up/3`,
  speaks of a call whose process has ended.  Every handler of the scheduler then
  moves its list, its mailbox, its request and the calls in one of few ways
  (`MovesKeep`, `ListKeeps`); the other processes only put messages behind those
  that are there (`Grows`, `Arrive`).  Only a scheduler's crash takes a live call
  off the list, which is why `LiveCallsWait` is about behaviours without.

`ListLemmas` has the facts on sequences that the library's theorems do not
state.

### Admission

* **Types.**  `TypeInv` says what a handler holds in each stage (`RequestOK`);
  `BanInv` says of the table that the clock is past `Epoch`, that a record is
  below the limit of failures, and that *a record without bans has nothing left
  of one* (`RecordOK`: `bans = 0 => banned_until + MaxBanTime <= now`).
* **Bans follow the policy.**  The last conjunct is why forgetting is invisible:
  the sweep drops a record without bans as soon as its window is over, whatever
  `banned_until` says, and only by the invariant does that say nothing.
  `SweptRecord` shows that the policy sees the same of a swept record,
  `CountedRecord` that a counted one is what the policy counts,
  `FailFollowsPolicy` that the whole locked part of `Fail` is one `Tolerated`,
  one `Ban` or a stutter of the policy, and `TickFollowsPolicy` that time
  passing is a countdown.  Any settings of the ban are covered, and any number
  of sources swept at once.
* **Stale answers.**  `AgeInv` bounds the age of an answer that contradicts the
  server: if a cached one does, it runs out within a time-out and its time in
  the cache of the change (`UserAge`, `NumberAge`); if one under way does, its
  request was made before the change and is within its time-out (`RequestAge`).
  A handler that refuses has such an answer (`RefusedBy`), which gives
  `RightPasswordSoonWorks` and `NewNumberSoonWorks`, whether the refusal is
  counted or the source exempt.
* **Known trunks.**  `trunk_nets` only grows (`TrunkNetsGrow`), a handler that
  comes to count a failure has read it (`CountedBy`), and only a counted failure
  begins a ban (`BannedBy`).

### Calls

* **Tables.**  `NoLeftovers` becomes inductive (`TablesOK`) with: a call to a
  trunk has no pin, since its handler's return would not take it away; and a
  handler that has recorded the dialog either still finds it recorded or, after
  a BYE that overtook the answer, leaves nothing that the clean-up of that BYE
  does not take next.
* **Losers.**  `LosersReleased` becomes inductive with `OneLegOK` (a call with
  one leg rings only while its handler waits) and `ForkOK` (while a fork's
  handler runs, a ringing leg is at a goroutine that has listed its branch or is
  about to).  Each way in which the handler returns is a step: the winner and a
  refusal for all cancel what is listed, the last failure leaves no branch
  pending.
* **Established calls.**  `CallIsKnown`, `AckReachesCallee` and `SameUserSameFs`
  rest on one invariant, `KnownInv`, in three parts.  Where the handler is
  (`HandlerOK`): a caller is told of an answer only by a handler that is done,
  and after some leg has answered.  What the tables have (`EntriesOK`): pins and
  spoofed numbers are put in before the INVITE leaves and the call state before
  the answer is relayed, a recorded leg has answered, and all of it stays while
  nobody has left.  Who has sent a request (`RequestsOK`): the sender of a BYE
  that is under way has left, so the clean-up that follows takes nothing from a
  call that talks, unless it is a telephone that lost the fork, the exception the
  properties name (`Undisturbed`); an ACK went to a leg that has answered.  It needs that legs
  only ever advance (`LegsAdvance`: a leg that ended does not answer, one that
  was not sent an INVITE does not ring, `LegsInv`), and that a step about one
  call leaves the entries of another alone (`OthersSame`), which is what the
  tables' keys are for.  Then `KnownRecorded`, `KnownFailed`, `KnownAnswered` and
  `KnownMade` have the four ways in which a step can touch an entry.

### Reachability

* **Registrar.**  Every method but `Register` only takes contacts away or
  changes one (`ContactsStay`), so that an AOR with contacts has a list
  (`ContactsInv`).  With it `LapseIsPending` is inductive: the last live contact
  runs out, which leaves the list; or is reaped with the list, missed or
  unreachable, which starts a goroutine; or is unregistered, which is told.  It
  is the safety part of `LapseIsTold`: with the fairness of the ticker and the
  goroutines, what is pending happens.
* **Presence.**  `RequestOK` says what a request saw when it goes on: one that
  reports a lapse, a presence from which members lapse, and never On Call; one
  that reports a return, a presence that may be given back.  The first makes the
  conditional update of the row miss a call (`CallsKeepPresence`), the second
  keeps the row and the keys within their types.  Any number of requests may be
  under way (`Posts`), of which the run has one.

### Dispatcher

`RoundRobin` becomes inductive with `Round`: the nodes selected since the list
changed are at consecutive places of it, the last at the one the counter is at,
and are no more than there are places.  `RemaindersDiffer` shows that fewer than
n consecutive numbers have different remainders modulo n; with `Listing`, that
no node is in the list twice, different places have different nodes.  `Listing`
is where the two sources of nodes meet, which know nothing of each other:
`AddTarget` searches the list before it appends, under the lock.

### Only model-checked

Liveness (fairness, `ENABLED`) is out of the prover's reach: `AttemptResolves`,
`HungUpCallLeaves`, `PassingEnds`, `LapseIsTold`, `SilentContactGoes`,
`InviteIsAnswered`, `AliveIsTarget` and `DeadIsDropped`.  No RECURSIVE operator is used.

## Not modelled

* `CallSession` beyond what it tells agents' sessions: spans, the idle time-out,
  finalising and persisting a story.  It is the largest part left, and the next
  of the plan.
* Provisioning and instance set-up: steps at a provider's HTTP interface and in
  the database that can fail half-way.  Planned.
* The crash of an AgentSession, redelivery by RabbitMQ.  A crash loses the
  session's reservation and timers, and the properties about them with it.
* In the SBC: REFER, INFO, UPDATE and NOTIFY, which are relayed and change no
  state; rewriting of headers, Contacts, Vias, routes and ports, which is the
  content of messages; `cert_reloader.go`, `pipe_listener.go`,
  `crlf_validation.go`, `symmetric_responses.go` and `config.go`, which wrap
  connections or read settings.  The library sipgo, whose source is not in the
  repository, is modelled from its use.
* The dialplan's documents, campaigns, story processing, authentication of users
  and organisations and the web application: they keep no state that outlives a
  request or job except single rows, or are pure input and output.

## Plan

1. `CallSession`: a story is persisted once, with its spans closed; nothing is
   appended after; a session ends.  Composed with the event router.
2. The crash and restart of an AgentSession.
3. `Provisioning` and instance set-up: step by step, with failures between.
