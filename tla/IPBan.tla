------------------------------- MODULE IPBan --------------------------------
(***************************************************************************)
(* The records of src/sbc/ip_ban.go.  A source without an entry in the map *)
(* is one with the zero record, which Fail would give it.                  *)
(***************************************************************************)
EXTENDS Clock

CONSTANTS IPs, MaxFailures, Window, BanTime, MaxBanTime

\* newIPBan returns nil, which bans nothing, unless every setting is positive.
ASSUME BanConstants ==
  /\ MaxFailures \in Nat \ {0}
  /\ Window \in Nat \ {0}
  /\ BanTime \in Nat \ {0}
  /\ MaxBanTime \in Nat \ {0}
  /\ Epoch >= Window
  /\ Epoch >= MaxBanTime

VARIABLES
  sources,    \* [IPs -> IPBanRecord]
  last_sweep  \* when the records were last swept

banVars == <<sources, last_sweep>>

IPBanRecord ==
  [failures : Nat, window_start : Nat, bans : Nat, banned_until : Nat]

NoRecord ==
  [failures |-> 0, window_start |-> ZeroTime,
   bans |-> 0, banned_until |-> ZeroTime]

\* What a source is owed, as the state of BanPolicy.
Left(until) == IF until > now THEN until - now ELSE 0
WindowLeft == [i \in IPs |-> Left(sources[i].window_start + Window)]
MemoryLeft == [i \in IPs |-> Left(sources[i].banned_until + MaxBanTime)]

Policy == INSTANCE BanPolicy WITH
  failures <- [i \in IPs |->
                 IF WindowLeft[i] > 0 THEN sources[i].failures ELSE 0],
  window_left <- WindowLeft,
  ban_left <- [i \in IPs |-> Left(sources[i].banned_until)],
  memory_left <- MemoryLeft,
  bans <- [i \in IPs |-> IF MemoryLeft[i] > 0 THEN sources[i].bans ELSE 0]

BanInit ==
  /\ sources = [i \in IPs |-> NoRecord]
  /\ last_sweep = ZeroTime

Banned(ip) == now < sources[ip].banned_until

\* A window, or the quiet that forgets bans, is over.
WindowOver(r) == now - r.window_start >= Window
Quiet(r) == now - r.banned_until >= MaxBanTime

BanLength(n) ==
  LET doubled == BanTime * 2 ^ n
  IN  IF doubled \in 0 .. MaxBanTime THEN doubled ELSE MaxBanTime

SweepDue == now - last_sweep >= Window

\* Mutant: a sweep forgets past bans as soon as the window is over.
SweptTooSoon ==
  [i \in IPs |->
     IF SweepDue /\ WindowOver(sources[i]) THEN NoRecord ELSE sources[i]]

Swept ==
  [i \in IPs |->
     LET r == sources[i]
     IN  IF SweepDue /\ WindowOver(r) /\ (r.bans = 0 \/ Quiet(r))
         THEN NoRecord ELSE r]

\* Mutant: a ban does not start the count again.
CountedOn(r) ==
  LET failures == IF WindowOver(r) THEN 1 ELSE r.failures + 1
      start == IF WindowOver(r) THEN now ELSE r.window_start
      bans == IF Quiet(r) THEN 0 ELSE r.bans
  IN  IF failures < MaxFailures
      THEN [r EXCEPT !.failures = failures, !.window_start = start]
      ELSE [failures |-> failures, window_start |-> start,
            bans |-> bans + 1, banned_until |-> now + BanLength(bans)]

\* One more failure, and the ban it leads to.
Counted(r) ==
  LET bans == IF Quiet(r) THEN 0 ELSE r.bans
      failures == IF WindowOver(r) THEN 1 ELSE r.failures + 1
      start == IF WindowOver(r) THEN now ELSE r.window_start
  IN  IF failures < MaxFailures
      THEN [failures |-> failures, window_start |-> start,
            bans |-> bans, banned_until |-> r.banned_until]
      ELSE [failures |-> 0, window_start |-> start,
            bans |-> bans + 1, banned_until |-> now + BanLength(bans)]

\* The part of Fail that holds the lock.  The code reads the clock just before
\* it takes the lock: what it waits for the lock is below a tick of the model.
Fail(ip) ==
  LET r == Swept[ip] IN
  /\ last_sweep' = IF SweepDue THEN now ELSE last_sweep
  /\ sources' = [Swept EXCEPT ![ip] =
                   IF now < r.banned_until THEN r ELSE Counted(r)]
==============================================================================
