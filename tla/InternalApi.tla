----------------------------- MODULE InternalApi -----------------------------
(***************************************************************************)
(* The caches of src/sbc/api.go in front of the server's internal API.     *)
(* Passwords are numbered by their changes: 0 is a user who does not       *)
(* exist, and the data of a trunk is whether the number has one.  The      *)
(* methods that invalidate an entry have no caller and are left out.       *)
(***************************************************************************)
EXTENDS Clock

CONSTANTS
  Users,
  Numbers,
  TrunkIPs,    \* the inbound IPs of the trunk behind the numbers
  CacheTTL,    \* how long an answer is kept
  UnknownTTL,  \* how long it is kept that a number has no trunk
  Timeout      \* of a request to the API

ASSUME ApiConstants ==
  /\ CacheTTL \in Nat \ {0}
  /\ UnknownTTL \in Nat \ {0}
  /\ Timeout \in Nat \ {0}

VARIABLES
  cred_cache,   \* [Users -> entry]
  trunk_cache,  \* [Numbers -> entry]
  trunk_nets,   \* IPs in the inbound networks of trunks looked up
  password,     \* [Users -> password at the server]
  trunk,        \* [Numbers -> whether the server knows a trunk]
  changed       \* [Users \cup Numbers -> when the server's row changed]

cacheVars == <<cred_cache, trunk_cache, trunk_nets>>
serverVars == <<password, trunk, changed>>

Entry(data, expires_at) == [data |-> data, expires_at |-> expires_at]

\* Mutants: an entry never expires, or one moment late.
FreshForEver(entry) == entry.expires_at # ZeroTime
FreshInclusive(entry) == now <= entry.expires_at

Fresh(entry) == now < entry.expires_at

ApiInit ==
  /\ cred_cache = [u \in Users |-> Entry(0, ZeroTime)]
  /\ trunk_cache = [n \in Numbers |-> Entry(FALSE, ZeroTime)]
  /\ trunk_nets = {}
  /\ password \in [Users -> {0, 1}]
  /\ trunk \in [Numbers -> BOOLEAN]
  /\ changed = [r \in Users \cup Numbers |-> ZeroTime]

\* A 404 for a user is not cached.
StorePassword(u, p) ==
  /\ cred_cache' =
       [cred_cache EXCEPT ![u] = IF p = 0 THEN @ ELSE Entry(p, now + CacheTTL)]
  /\ UNCHANGED <<trunk_cache, trunk_nets>>

\* Mutant: the networks are those of the latest answer.
StoreTrunkNets(n, known) ==
  /\ trunk_cache' =
       [trunk_cache EXCEPT ![n] =
          Entry(known, now + (IF known THEN CacheTTL ELSE UnknownTTL))]
  /\ trunk_nets' = IF known THEN TrunkIPs ELSE {}
  /\ UNCHANGED cred_cache

\* A 404 for a number is; an answer with a trunk also adds its networks.
StoreTrunk(n, known) ==
  /\ trunk_cache' =
       [trunk_cache EXCEPT ![n] =
          Entry(known, now + (IF known THEN CacheTTL ELSE UnknownTTL))]
  /\ trunk_nets' = trunk_nets \cup (IF known THEN TrunkIPs ELSE {})
  /\ UNCHANGED cred_cache

IsTrunkIP(ip) == ip \in trunk_nets

\* An administrator sets a user's password.
ChangePassword(u, p) ==
  /\ password' = [password EXCEPT ![u] = p]
  /\ changed' = [changed EXCEPT ![u] = now]
  /\ UNCHANGED trunk

\* An administrator gives a number a trunk, or takes it away.
ChangeTrunk(n) ==
  /\ trunk' = [trunk EXCEPT ![n] = ~ @]
  /\ changed' = [changed EXCEPT ![n] = now]
  /\ UNCHANGED password
==============================================================================
