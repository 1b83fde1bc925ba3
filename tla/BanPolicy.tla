------------------------------ MODULE BanPolicy ------------------------------
(***************************************************************************)
(* What src/sbc/ip_ban.go promises, apart from how it keeps its records:   *)
(* a source that fails too often within a window is banned, for twice as   *)
(* long each time, until it has been quiet.  Everything is counted down,   *)
(* so there is no clock, no table of sources and no sweep.                 *)
(***************************************************************************)
EXTENDS Integers

CONSTANTS
  IPs,          \* sources of requests
  MaxFailures,  \* failures within a window that make a ban
  Window,       \* length of a window
  BanTime,      \* length of a first ban
  MaxBanTime    \* longest ban, and the quiet after which bans are forgotten

VARIABLES
  failures,     \* [IPs -> failures in the window that is open]
  window_left,  \* [IPs -> time left of the window]
  ban_left,     \* [IPs -> time left of the ban]
  memory_left,  \* [IPs -> time until past bans are forgotten]
  bans          \* [IPs -> bans remembered]

policyVars == <<failures, window_left, ban_left, memory_left, bans>>

\* The ban after n others: doubled n times, up to the longest.
BanLength(n) ==
  LET doubled == BanTime * 2 ^ n
  IN  IF doubled \in 0 .. MaxBanTime THEN doubled ELSE MaxBanTime

PolicyInit ==
  /\ failures = [i \in IPs |-> 0]
  /\ window_left = [i \in IPs |-> 0]
  /\ ban_left = [i \in IPs |-> 0]
  /\ memory_left = [i \in IPs |-> 0]
  /\ bans = [i \in IPs |-> 0]

\* A failure opens a window unless one is open.
OpenWindow(ip) ==
  window_left' =
    [window_left EXCEPT ![ip] = IF @ = 0 THEN Window ELSE @]

Tolerated(ip) ==
  /\ ban_left[ip] = 0
  /\ failures[ip] + 1 < MaxFailures
  /\ OpenWindow(ip)
  /\ failures' = [failures EXCEPT ![ip] = @ + 1]
  /\ UNCHANGED <<ban_left, memory_left, bans>>

Ban(ip) ==
  /\ ban_left[ip] = 0
  /\ failures[ip] + 1 >= MaxFailures
  /\ OpenWindow(ip)
  /\ failures' = [failures EXCEPT ![ip] = 0]
  /\ ban_left' = [ban_left EXCEPT ![ip] = BanLength(bans[ip])]
  /\ memory_left' =
       [memory_left EXCEPT ![ip] = BanLength(bans[ip]) + MaxBanTime]
  /\ bans' = [bans EXCEPT ![ip] = @ + 1]

CountDown(f) == [i \in IPs |-> IF f[i] > 0 THEN f[i] - 1 ELSE 0]

TimePasses ==
  /\ window_left' = CountDown(window_left)
  /\ ban_left' = CountDown(ban_left)
  /\ memory_left' = CountDown(memory_left)
  /\ failures' =
       [i \in IPs |-> IF window_left[i] > 1 THEN failures[i] ELSE 0]
  /\ bans' = [i \in IPs |-> IF memory_left[i] > 1 THEN bans[i] ELSE 0]

PolicyNext == TimePasses \/ \E ip \in IPs : Tolerated(ip) \/ Ban(ip)

PolicySpec == PolicyInit /\ [][PolicyNext]_policyVars
==============================================================================
