------------------------------ MODULE Admission ------------------------------
(***************************************************************************)
(* Which requests from outside the SBC answers: the ban on their source    *)
(* (src/sbc/ip_ban.go), their authentication against the internal API and  *)
(* its caches (src/sbc/api.go, proxy.go) and the registrations and trunks  *)
(* that exempt a source.  Every request has a goroutine of its own; one    *)
(* that is refused checks the exemptions before it takes the ban's lock.   *)
(***************************************************************************)
EXTENDS IPBan, InternalApi

CONSTANTS
  Handlers,     \* goroutines of requests
  Own,          \* IPs of private networks, among them FreeSWITCH
  RegisterTime, \* lifetime of a registration
  MaxPassword,  \* bound on the passwords a user has had
  MaxEdits      \* bound on changes at the server

ASSUME AdmissionConstants ==
  /\ TrunkIPs \subseteq IPs
  /\ RegisterTime \in Nat

VARIABLES
  registered,  \* [IPs -> when the registration from there runs out]
  request,     \* [Handlers -> the request it works on]
  edits        \* changes at the server so far

vars == <<now, banVars, cacheVars, serverVars, registered, request, edits>>

\* What a request is about: a login of a user, or a call to a number.  The
\* password in it, NoPassword if there is none, is chosen when it is compared.
Login(u) == [kind |-> "login", of |-> u]
Call(n) == [kind |-> "call", of |-> n]
Subjects == {Login(u) : u \in Users} \cup {Call(n) : n \in Numbers}

NoPassword == -1
Given(about) ==
  IF about.kind = "login" THEN {NoPassword} \cup 0 .. MaxPassword
                          ELSE {NoPassword}

\* Asking the API, its answer on the way, refused, failure to be counted.
Stages == {"idle", "asking", "answered", "refused", "counting"}
Working(stage, ip, about, since, got) ==
  [stage |-> stage, ip |-> ip, about |-> about, since |-> since, got |-> got]
Idle == [stage |-> "idle"]
In(h, stage) == request[h].stage = stage
Becomes(h, r) == request' = [request EXCEPT ![h] = r]

Init ==
  /\ now = Epoch
  /\ BanInit
  /\ ApiInit
  /\ registered = [i \in IPs |-> ZeroTime]
  /\ request = [h \in Handlers |-> Idle]
  /\ edits = 0

HasSourceIP(ip) == now < registered[ip]

NeverBan(ip) == ip \in Own \/ ip \in trunk_nets \/ HasSourceIP(ip)

\* Whether a request is let in, given what the API or its cache said.
Accepted(ip, about, given, got) ==
  IF about.kind = "login"
  THEN got # 0 /\ given = got
  ELSE got /\ ip \in TrunkIPs

\* A challenge for want of credentials is no failure.
Failed(about, given) == about.kind = "login" => given # NoPassword

\* The end of a handler that has what it asked the API for.  A login may be a
\* REGISTER, which sets or ends the registration, or go with a call.
LetIn(h, ip, about) ==
  /\ \E until \in IF about.kind = "login"
                  THEN {ZeroTime, registered[ip], now + RegisterTime}
                  ELSE {registered[ip]} :
       registered' = [registered EXCEPT ![ip] = until]
  /\ Becomes(h, Idle)

\* The ban hears of a failure before the source gets its answer.
Reject(h, ip, about, given) ==
  /\ Becomes(h, IF Failed(about, given)
                THEN [stage |-> "refused", ip |-> ip,
                      about |-> about, given |-> given]
                ELSE Idle)
  /\ UNCHANGED registered

Decide(h, ip, about, got) ==
  \E given \in Given(about) :
    IF Accepted(ip, about, given, got)
    THEN LetIn(h, ip, about) ELSE Reject(h, ip, about, given)

CacheOf(about) ==
  IF about.kind = "login" THEN cred_cache[about.of] ELSE trunk_cache[about.of]

\* dropBanned: no answer, and no trace.
Dropped(ip) == Banned(ip) /\ UNCHANGED vars

\* It lets the request through, and the cache has the answer.
AnswerFromCache(h, ip, about) ==
  /\ In(h, "idle")
  /\ ~ Banned(ip)
  /\ Fresh(CacheOf(about))
  /\ UNCHANGED <<now, banVars, cacheVars, serverVars, edits>>
  /\ Decide(h, ip, about, CacheOf(about).data)

\* It has not, and the API is asked.
AskApi(h, ip, about) ==
  /\ In(h, "idle")
  /\ ~ Banned(ip)
  /\ ~ Fresh(CacheOf(about))
  /\ Becomes(h, Working("asking", ip, about, now, 0))
  /\ UNCHANGED <<now, banVars, cacheVars, serverVars, registered, edits>>

\* The server reads its row; the answer is on its way back.
ServerAnswers(h) ==
  /\ In(h, "asking")
  /\ LET about == request[h].about IN
       request' = [request EXCEPT
         ![h].stage = "answered",
         ![h].got = IF about.kind = "login" THEN password[about.of]
                                            ELSE trunk[about.of]]
  /\ UNCHANGED <<now, banVars, cacheVars, serverVars, registered, edits>>

\* The answer arrives, is stored, and the handler goes on.
AnswerArrives(h) ==
  /\ In(h, "answered")
  /\ LET r == request[h] IN
       /\ IF r.about.kind = "login" THEN StorePassword(r.about.of, r.got)
                                    ELSE StoreTrunk(r.about.of, r.got)
       /\ Decide(h, r.ip, r.about, r.got)
  /\ UNCHANGED <<now, banVars, serverVars, edits>>

\* The API is down, or the request times out: nobody is to blame.
ApiFails(h) ==
  /\ request[h].stage \in {"asking", "answered"}
  /\ Becomes(h, Idle)
  /\ UNCHANGED <<now, banVars, cacheVars, serverVars, registered, edits>>

\* neverBan: what the registrar and the trunks say now, before the lock.
CheckExempt(h) ==
  /\ In(h, "refused")
  /\ Becomes(h, IF NeverBan(request[h].ip) THEN Idle
                ELSE [request[h] EXCEPT !.stage = "counting"])
  /\ UNCHANGED <<now, banVars, cacheVars, serverVars, registered, edits>>

CountFailure(h) ==
  /\ In(h, "counting")
  /\ Fail(request[h].ip)
  /\ Becomes(h, Idle)
  /\ UNCHANGED <<now, cacheVars, serverVars, registered, edits>>

Administer ==
  /\ edits < MaxEdits
  /\ edits' = edits + 1
  /\ \/ \E u \in Users : /\ password[u] < MaxPassword
                         /\ ChangePassword(u, password[u] + 1)
     \/ \E n \in Numbers : ChangeTrunk(n)
  /\ UNCHANGED <<now, banVars, cacheVars, registered, request>>

\* Requests to the API do not outlive their time-out.
InTime(h) ==
  request[h].stage \in {"asking", "answered"} => now < request[h].since + Timeout

Tick ==
  /\ now < MaxTime
  /\ \A h \in Handlers : InTime(h)
  /\ now' = now + 1
  /\ UNCHANGED <<banVars, cacheVars, serverVars, registered, request, edits>>

HandlerStep(h) ==
  \/ \E ip \in IPs, about \in Subjects :
       AnswerFromCache(h, ip, about) \/ AskApi(h, ip, about)
  \/ \E ip \in IPs : Dropped(ip)
  \/ ServerAnswers(h)
  \/ AnswerArrives(h)
  \/ ApiFails(h)
  \/ CheckExempt(h)
  \/ CountFailure(h)

Next == Tick \/ Administer \/ \E h \in Handlers : HandlerStep(h)

Spec == Init /\ [][Next]_vars

-----------------------------------------------------------------------------
(* Properties *)

\* Every variable has its type; records stay below the limit of failures.
TypeOK ==
  /\ now \in Nat
  /\ sources \in [IPs -> IPBanRecord]
  /\ last_sweep \in Nat
  /\ trunk_nets \subseteq IPs
  /\ registered \in [IPs -> Nat]
  /\ \A i \in IPs : sources[i].failures < MaxFailures
  /\ \A h \in Handlers :
       request[h] # Idle => request[h].ip \in IPs /\ request[h].stage \in Stages

\* ip_ban.go: whatever its table forgets and whenever it sweeps, a source is
\* banned exactly when the policy says, for as long, and doubled as often.
KeepsPolicy == Policy!PolicySpec

\* More time has passed since the row changed than a look-up that read the old
\* one may take, and its answer may be cached after that.
Stale(r, ttl) == now >= changed[r] + Timeout + ttl

\* The handler refuses, whoever asks; sources that are never banned, too.  That
\* the API cannot be reached is no refusal of this kind.
Refuses(h, about) ==
  /\ ~ In(h, "refused")
  /\ In(h, "refused")'
  /\ request'[h].about = about

\* api.go:53: the right password is refused for no longer after a change than
\* the look-ups under way then may take and an old one may be cached, however
\* many requests look it up at once.
RightPasswordSoonWorks ==
  [][\A h \in Handlers, u \in Users :
       /\ Refuses(h, Login(u))
       /\ request'[h].given = password[u]
       /\ password[u] # 0
       => ~ Stale(u, CacheTTL)]_vars

\* api.go:55: a call over the trunk to a number that was added is refused for
\* no longer than the minute the number may be remembered as unknown, and the
\* time of a look-up that was under way when it was added.
NewNumberSoonWorks ==
  [][\A h \in Handlers, n \in Numbers :
       /\ Refuses(h, Call(n))
       /\ trunk[n]
       /\ request'[h].ip \in TrunkIPs
       => ~ Stale(n, UnknownTTL)]_vars

Counting(ip) == \E h \in Handlers : In(h, "counting") /\ request[h].ip = ip

\* api.go:25, ip_ban.go: once a trunk has been looked up its addresses stay
\* exempt, whatever the caches forget and the server changes: no failure comes
\* to be counted and no ban begins, but of failures being counted already.
KnownTrunkStaysExempt ==
  [][\A ip \in IPs :
       ip \in TrunkIPs /\ IsTrunkIP(ip) /\ ~ Counting(ip)
         => /\ IsTrunkIP(ip)'
            /\ ~ Counting(ip)'
            /\ Banned(ip)' => Banned(ip)]_vars
==============================================================================
