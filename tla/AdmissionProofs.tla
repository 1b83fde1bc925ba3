--------------------------- MODULE AdmissionProofs ----------------------------
(***************************************************************************)
(* Proofs about Admission, for any sources, settings and number of         *)
(* handlers: the table of bans implements BanPolicy, and stale answers and *)
(* exemptions do what the action properties say.                           *)
(***************************************************************************)
EXTENDS Admission, TLAPS

-----------------------------------------------------------------------------
(* The table of bans.  A record keeps moments of time, the policy what is  *)
(* left; the two only agree on a record that is forgotten because a source *)
(* without bans has nothing left of one.                                   *)

RecordOK(r) ==
  /\ r \in IPBanRecord
  /\ r.failures < MaxFailures
  /\ r.bans = 0 => r.banned_until + MaxBanTime <= now

BanInv ==
  /\ now \in Nat
  /\ now >= Epoch
  /\ last_sweep \in Nat
  /\ sources \in [IPs -> IPBanRecord]
  /\ \A i \in IPs : RecordOK(sources[i])

USE ClockConstants, BanConstants, ApiConstants, AdmissionConstants

LEMMA BanLengthType ==
  ASSUME NEW n \in Nat
  PROVE  /\ BanLength(n) \in Nat
         /\ BanLength(n) <= MaxBanTime
         /\ Policy!BanLength(n) = BanLength(n)
BY DEF BanLength, Policy!BanLength

\* What the policy sees of a record: what is left of its window and the
\* failures in it, what is left of its ban, and of the memory of its bans.
WindowOf(r) == Left(r.window_start + Window)
FailuresOf(r) == IF WindowOf(r) > 0 THEN r.failures ELSE 0
BanOf(r) == Left(r.banned_until)
MemoryOf(r) == Left(r.banned_until + MaxBanTime)
BansOf(r) == IF MemoryOf(r) > 0 THEN r.bans ELSE 0

SameForPolicy(r, s) ==
  /\ WindowOf(r) = WindowOf(s)
  /\ FailuresOf(r) = FailuresOf(s)
  /\ BanOf(r) = BanOf(s)
  /\ MemoryOf(r) = MemoryOf(s)
  /\ BansOf(r) = BansOf(s)

\* Forgetting leaves a good record, and nothing that the policy could see.
LEMMA SweptRecord ==
  ASSUME BanInv, NEW i \in IPs
  PROVE  RecordOK(Swept[i]) /\ SameForPolicy(Swept[i], sources[i])
BY DEF BanInv, RecordOK, IPBanRecord, Swept, NoRecord, WindowOver, Quiet, Left,
       ZeroTime, SameForPolicy, WindowOf, FailuresOf, BanOf, MemoryOf, BansOf

\* Counting a failure of a source that is not banned keeps a record good, and
\* does what the policy does.
LEMMA CountedRecord ==
  ASSUME BanInv, NEW r, RecordOK(r)
  PROVE  /\ RecordOK(Counted(r))
         /\ WindowOf(Counted(r)) = IF WindowOf(r) = 0 THEN Window ELSE WindowOf(r)
         /\ FailuresOf(r) + 1 < MaxFailures =>
              Counted(r) = [failures |-> FailuresOf(r) + 1,
                            window_start |-> Counted(r).window_start,
                            bans |-> BansOf(r),
                            banned_until |-> r.banned_until]
         /\ FailuresOf(r) + 1 >= MaxFailures =>
              Counted(r) = [failures |-> 0,
                            window_start |-> Counted(r).window_start,
                            bans |-> BansOf(r) + 1,
                            banned_until |-> now + BanLength(BansOf(r))]
<1> DEFINE bans == IF Quiet(r) THEN 0 ELSE r.bans
           failures == IF WindowOver(r) THEN 1 ELSE r.failures + 1
           start == IF WindowOver(r) THEN now ELSE r.window_start
<1>1. /\ bans \in Nat
      /\ bans = 0 => r.banned_until + MaxBanTime <= now
      /\ bans = BansOf(r)
  BY DEF RecordOK, IPBanRecord, BanInv, Quiet, BansOf, MemoryOf, Left
<1>2. /\ start \in Nat
      /\ failures = FailuresOf(r) + 1
      /\ Left(start + Window) = IF WindowOf(r) = 0 THEN Window ELSE WindowOf(r)
  BY DEF RecordOK, IPBanRecord, BanInv, WindowOver, FailuresOf, WindowOf, Left
<1>3. BanLength(bans) \in Nat
  BY <1>1, BanLengthType
<1>4. Counted(r) =
        IF failures < MaxFailures
        THEN [failures |-> failures, window_start |-> start,
              bans |-> bans, banned_until |-> r.banned_until]
        ELSE [failures |-> 0, window_start |-> start,
              bans |-> bans + 1, banned_until |-> now + BanLength(bans)]
  BY DEF Counted
<1>5. FailuresOf(r) \in Nat
  BY DEF FailuresOf, RecordOK, IPBanRecord
<1> HIDE DEF bans, failures, start
<1>6. RecordOK(Counted(r))
  BY <1>1, <1>2, <1>3, <1>4, <1>5 DEF BanInv, RecordOK, IPBanRecord
<1>7. Counted(r).window_start = start
  BY <1>4
<1> QED
  BY <1>1, <1>2, <1>4, <1>5, <1>6, <1>7 DEF WindowOf

\* The policy's state, source by source.
LEMMA PolicySees ==
  /\ [i \in IPs |-> IF WindowLeft[i] > 0 THEN sources[i].failures ELSE 0]
       = [i \in IPs |-> FailuresOf(sources[i])]
  /\ WindowLeft = [i \in IPs |-> WindowOf(sources[i])]
  /\ [i \in IPs |-> Left(sources[i].banned_until)]
       = [i \in IPs |-> BanOf(sources[i])]
  /\ MemoryLeft = [i \in IPs |-> MemoryOf(sources[i])]
  /\ [i \in IPs |-> IF MemoryLeft[i] > 0 THEN sources[i].bans ELSE 0]
       = [i \in IPs |-> BansOf(sources[i])]
BY DEF WindowLeft, MemoryLeft, WindowOf, FailuresOf, BanOf, MemoryOf, BansOf

\* The part of Fail under the lock counts, bans or changes nothing for the
\* policy, whatever it sweeps on the way.
LEMMA FailFollowsPolicy ==
  ASSUME BanInv, NEW ip \in IPs, Fail(ip), now' = now
  PROVE  /\ BanInv'
         /\ Policy!PolicyNext \/ UNCHANGED Policy!policyVars
<1> DEFINE r == Swept[ip]
           next == IF now < r.banned_until THEN r ELSE Counted(r)
<1>1. /\ Swept \in [IPs -> IPBanRecord]
      /\ \A i \in IPs : RecordOK(Swept[i]) /\ SameForPolicy(Swept[i], sources[i])
  <2>1. \A i \in IPs : RecordOK(Swept[i]) /\ SameForPolicy(Swept[i], sources[i])
    BY SweptRecord
  <2> QED
    BY <2>1 DEF Swept, RecordOK
<1>2. RecordOK(next)
  BY <1>1, CountedRecord
<1>3. sources' = [Swept EXCEPT ![ip] = next]
  BY DEF Fail
<1>4. /\ sources'[ip] = next
      /\ \A i \in IPs \ {ip} : sources'[i] = Swept[i]
  BY <1>1, <1>3
<1> HIDE DEF next
<1>5. BanInv'
  <2>1. last_sweep' \in Nat
    BY DEF Fail, BanInv
  <2>2. sources' \in [IPs -> IPBanRecord]
    BY <1>1, <1>2, <1>3 DEF RecordOK
  <2>3. \A i \in IPs : RecordOK(sources'[i])
    BY <1>1, <1>2, <1>4
  <2> QED
    BY <2>1, <2>2, <2>3 DEF BanInv, RecordOK
<1>6. \A i \in IPs \ {ip} : SameForPolicy(sources'[i], sources[i])
  BY <1>1, <1>4
<1>0. /\ [i \in IPs |-> IF WindowLeft[i] > 0 THEN sources[i].failures ELSE 0]'
           = [i \in IPs |-> FailuresOf(sources'[i])]
      /\ WindowLeft' = [i \in IPs |-> WindowOf(sources'[i])]
      /\ [i \in IPs |-> Left(sources[i].banned_until)]'
           = [i \in IPs |-> BanOf(sources'[i])]
      /\ MemoryLeft' = [i \in IPs |-> MemoryOf(sources'[i])]
      /\ [i \in IPs |-> IF MemoryLeft[i] > 0 THEN sources[i].bans ELSE 0]'
           = [i \in IPs |-> BansOf(sources'[i])]
  BY DEF WindowLeft, MemoryLeft, WindowOf, FailuresOf, BanOf, MemoryOf, BansOf,
         Left
<1>7. CASE now < r.banned_until
  <2>1. \A i \in IPs : SameForPolicy(sources'[i], sources[i])
    BY <1>1, <1>4, <1>6, <1>7 DEF next
  <2>2. UNCHANGED Policy!policyVars
    BY <2>1 DEF Policy!policyVars, WindowLeft, MemoryLeft, Left, SameForPolicy,
                WindowOf, FailuresOf, BanOf, MemoryOf, BansOf
  <2> QED
    BY <1>5, <2>2
<1>8. CASE ~ (now < r.banned_until)
  <2>1. sources'[ip] = Counted(r) /\ RecordOK(r) /\ SameForPolicy(r, sources[ip])
    BY <1>1, <1>4, <1>8 DEF next
  <2>2. BanOf(sources[ip]) = 0
    BY <1>8, <2>1 DEF SameForPolicy, BanOf, Left, RecordOK, IPBanRecord, BanInv
  <2>3. CASE FailuresOf(r) + 1 < MaxFailures
    <3>1. /\ FailuresOf(sources'[ip]) = FailuresOf(sources[ip]) + 1
          /\ WindowOf(sources'[ip]) =
               IF WindowOf(sources[ip]) = 0 THEN Window ELSE WindowOf(sources[ip])
          /\ BanOf(sources'[ip]) = BanOf(sources[ip])
          /\ MemoryOf(sources'[ip]) = MemoryOf(sources[ip])
          /\ BansOf(sources'[ip]) = BansOf(sources[ip])
      <4>1. Counted(r).failures = FailuresOf(r) + 1
            /\ Counted(r).banned_until = r.banned_until
            /\ Counted(r).bans = BansOf(r)
        BY <2>1, <2>3, CountedRecord
      <4>2. WindowOf(Counted(r)) > 0
        BY <2>1, CountedRecord DEF WindowOf, Left, RecordOK, IPBanRecord, BanInv
      <4> QED
        BY <2>1, <4>1, <4>2, CountedRecord
        DEF SameForPolicy, FailuresOf, BanOf, MemoryOf, BansOf
    <3>2. Policy!OpenWindow(ip)
      BY <1>0, <1>6, <3>1, PolicySees DEF Policy!OpenWindow, SameForPolicy
    <3>3. FailuresOf(sources[ip]) + 1 < MaxFailures
      BY <2>1, <2>3 DEF SameForPolicy
    <3>4. [i \in IPs |-> FailuresOf(sources'[i])]
            = [[i \in IPs |-> FailuresOf(sources[i])] EXCEPT ![ip] = @ + 1]
      BY <1>6, <3>1 DEF SameForPolicy
    <3>5. /\ [i \in IPs |-> BanOf(sources'[i])] = [i \in IPs |-> BanOf(sources[i])]
          /\ [i \in IPs |-> MemoryOf(sources'[i])]
               = [i \in IPs |-> MemoryOf(sources[i])]
          /\ [i \in IPs |-> BansOf(sources'[i])] = [i \in IPs |-> BansOf(sources[i])]
      BY <1>6, <3>1 DEF SameForPolicy
    <3>6. Policy!Tolerated(ip)
      BY <1>0, <2>2, <3>2, <3>3, <3>4, <3>5, PolicySees DEF Policy!Tolerated
    <3> QED
      BY <1>5, <3>6 DEF Policy!PolicyNext
  <2>4. CASE FailuresOf(r) + 1 >= MaxFailures
    <3> DEFINE length == BanLength(BansOf(r))
    <3>0. BansOf(r) \in Nat /\ length \in Nat /\ length = Policy!BanLength(BansOf(r))
      BY <2>1, BanLengthType DEF BansOf, RecordOK, IPBanRecord
    <3> HIDE DEF length
    <3>1. /\ FailuresOf(sources'[ip]) = 0
          /\ WindowOf(sources'[ip]) =
               IF WindowOf(sources[ip]) = 0 THEN Window ELSE WindowOf(sources[ip])
          /\ BanOf(sources'[ip]) = length
          /\ MemoryOf(sources'[ip]) = length + MaxBanTime
          /\ BansOf(sources'[ip]) = BansOf(sources[ip]) + 1
      <4>1. /\ Counted(r).failures = 0
            /\ Counted(r).banned_until = now + length
            /\ Counted(r).bans = BansOf(r) + 1
        BY <2>1, <2>4, CountedRecord DEF length
      <4> QED
        BY <2>1, <3>0, <4>1, CountedRecord
        DEF SameForPolicy, FailuresOf, BanOf, MemoryOf, BansOf, Left, BanInv
    <3>2. Policy!OpenWindow(ip)
      BY <1>0, <1>6, <3>1, PolicySees DEF Policy!OpenWindow, SameForPolicy
    <3>3. /\ FailuresOf(sources[ip]) + 1 >= MaxFailures
          /\ length = Policy!BanLength(BansOf(sources[ip]))
      BY <2>1, <2>4, <3>0 DEF SameForPolicy
    <3>4. /\ [i \in IPs |-> FailuresOf(sources'[i])]
               = [[i \in IPs |-> FailuresOf(sources[i])] EXCEPT ![ip] = 0]
          /\ [i \in IPs |-> BanOf(sources'[i])]
               = [[i \in IPs |-> BanOf(sources[i])] EXCEPT ![ip] = length]
      BY <1>6, <3>1 DEF SameForPolicy
    <3>5. /\ [i \in IPs |-> MemoryOf(sources'[i])]
               = [[i \in IPs |-> MemoryOf(sources[i])]
                    EXCEPT ![ip] = length + MaxBanTime]
          /\ [i \in IPs |-> BansOf(sources'[i])]
               = [[i \in IPs |-> BansOf(sources[i])] EXCEPT ![ip] = @ + 1]
      BY <1>6, <3>1 DEF SameForPolicy
    <3>6. Policy!Ban(ip)
      BY <1>0, <2>2, <3>2, <3>3, <3>4, <3>5, PolicySees DEF Policy!Ban
    <3> QED
      BY <1>5, <3>6 DEF Policy!PolicyNext
  <2>5. FailuresOf(r) \in Nat
    BY <2>1 DEF FailuresOf, RecordOK, IPBanRecord
  <2> QED
    BY <2>3, <2>4, <2>5
<1> QED
  BY <1>7, <1>8

\* A tick of the clock counts everything down.
LEMMA TickFollowsPolicy ==
  ASSUME BanInv, UNCHANGED banVars, now' = now + 1
  PROVE  BanInv' /\ Policy!TimePasses
<1>1. BanInv'
  BY DEF BanInv, RecordOK, IPBanRecord, banVars
<1>2. \A i \in IPs : sources[i] \in IPBanRecord /\ sources'[i] = sources[i]
  BY DEF BanInv, banVars
<1>3. WindowLeft' = Policy!CountDown(WindowLeft)
  BY <1>2 DEF WindowLeft, Left, Policy!CountDown, BanInv, IPBanRecord
<1>4. MemoryLeft' = Policy!CountDown(MemoryLeft)
  BY <1>2 DEF MemoryLeft, Left, Policy!CountDown, BanInv, IPBanRecord
<1>5. [i \in IPs |-> Left(sources[i].banned_until)]'
        = Policy!CountDown([i \in IPs |-> Left(sources[i].banned_until)])
  BY <1>2 DEF Left, Policy!CountDown, BanInv, IPBanRecord
<1>6. \A i \in IPs : /\ WindowLeft'[i] > 0 <=> WindowLeft[i] > 1
                     /\ MemoryLeft'[i] > 0 <=> MemoryLeft[i] > 1
                     /\ WindowLeft[i] > 1 => WindowLeft[i] > 0
                     /\ MemoryLeft[i] > 1 => MemoryLeft[i] > 0
  BY <1>2 DEF WindowLeft, MemoryLeft, Left, BanInv, IPBanRecord
<1>7. [i \in IPs |-> IF WindowLeft[i] > 0 THEN sources[i].failures ELSE 0]'
        = [i \in IPs |->
             IF WindowLeft[i] > 1
             THEN [j \in IPs |-> IF WindowLeft[j] > 0 THEN sources[j].failures
                                                     ELSE 0][i]
             ELSE 0]
  BY <1>2, <1>6
<1>8. [i \in IPs |-> IF MemoryLeft[i] > 0 THEN sources[i].bans ELSE 0]'
        = [i \in IPs |->
             IF MemoryLeft[i] > 1
             THEN [j \in IPs |-> IF MemoryLeft[j] > 0 THEN sources[j].bans
                                                     ELSE 0][i]
             ELSE 0]
  BY <1>2, <1>6
<1> QED
  BY <1>1, <1>3, <1>4, <1>5, <1>7, <1>8 DEF Policy!TimePasses

\* Whatever leaves the table and the clock alone is nothing to the policy.
LEMMA RestFollowsPolicy ==
  ASSUME BanInv, UNCHANGED <<now, banVars>>
  PROVE  BanInv' /\ UNCHANGED Policy!policyVars
<1>1. now' = now /\ sources' = sources /\ last_sweep' = last_sweep
  BY DEF banVars
<1> QED
  BY <1>1 DEF BanInv, RecordOK, Policy!policyVars, WindowLeft, MemoryLeft, Left

LEMMA InitFollowsPolicy ==
  ASSUME Init
  PROVE  BanInv /\ Policy!PolicyInit
<1>1. now = Epoch /\ last_sweep = 0 /\ sources = [i \in IPs |-> NoRecord]
  BY DEF Init, BanInit, ZeroTime
<1>2. BanInv
  BY <1>1 DEF BanInv, RecordOK, IPBanRecord, NoRecord, ZeroTime
<1>3. \A i \in IPs : WindowLeft[i] = 0 /\ MemoryLeft[i] = 0
  BY <1>1 DEF WindowLeft, MemoryLeft, Left, NoRecord, ZeroTime
<1>4. Policy!PolicyInit
  BY <1>1, <1>3
  DEF Policy!PolicyInit, WindowLeft, MemoryLeft, Left, NoRecord, ZeroTime
<1> QED
  BY <1>2, <1>4

-----------------------------------------------------------------------------
(* Types.  What a handler holds is typed by its stage.                     *)

AsksFor(r) ==
  /\ r = Working(r.stage, r.ip, r.about, r.since, r.got)
  /\ r.stage \in {"asking", "answered"}
  /\ r.ip \in IPs
  /\ r.about \in Subjects
  /\ r.since \in Nat
  /\ r.stage = "answered" =>
       r.got \in IF r.about.kind = "login" THEN Nat ELSE BOOLEAN

Counts(r) ==
  /\ r = [stage |-> r.stage, ip |-> r.ip, about |-> r.about,
           given |-> r.given]
  /\ r.stage \in {"refused", "counting"}
  /\ r.ip \in IPs
  /\ r.about \in Subjects

RequestOK(r) == r = Idle \/ AsksFor(r) \/ Counts(r)

TypeInv ==
  /\ cred_cache \in [Users -> [data : Nat, expires_at : Nat]]
  /\ trunk_cache \in [Numbers -> [data : BOOLEAN, expires_at : Nat]]
  /\ trunk_nets \subseteq IPs
  /\ password \in [Users -> Nat]
  /\ trunk \in [Numbers -> BOOLEAN]
  /\ changed \in [Users \cup Numbers -> Nat]
  /\ registered \in [IPs -> Nat]
  /\ request = [h \in Handlers |-> request[h]]
  /\ \A h \in Handlers : RequestOK(request[h])

LEMMA SubjectKinds ==
  ASSUME NEW about \in Subjects
  PROVE  \/ about.kind = "login" /\ about.of \in Users /\ about = Login(about.of)
         \/ about.kind = "call" /\ about.of \in Numbers /\ about = Call(about.of)
BY DEF Subjects, Login, Call

LEMMA StageTyped ==
  ASSUME NEW r, RequestOK(r)
  PROVE  /\ r.stage \in Stages
         /\ r.stage = "idle" <=> r = Idle
         /\ r.stage \in {"asking", "answered"} <=> AsksFor(r)
         /\ r.stage \in {"refused", "counting"} <=> Counts(r)
BY DEF RequestOK, AsksFor, Counts, Idle, Stages, Working

\* How a handler ends: it lets the request in, lets it go, or refuses it.
LEMMA Decided ==
  ASSUME TypeInv, now \in Nat, NEW h \in Handlers, NEW ip \in IPs,
         NEW about \in Subjects, NEW got, Decide(h, ip, about, got)
  PROVE  /\ registered' \in [IPs -> Nat]
         /\ request' = [request EXCEPT ![h] = request'[h]]
         /\ RequestOK(request'[h])
         /\ ~ AsksFor(request'[h])
         /\ \/ request'[h] = Idle
            \/ \E given \in Given(about) :
                 /\ request'[h] = [stage |-> "refused", ip |-> ip,
                                   about |-> about, given |-> given]
                 /\ ~ Accepted(ip, about, given, got)
<1>1. PICK given \in Given(about) :
        IF Accepted(ip, about, given, got)
        THEN LetIn(h, ip, about) ELSE Reject(h, ip, about, given)
  BY DEF Decide
<1>2. CASE Accepted(ip, about, given, got)
  <2>1. LetIn(h, ip, about)
    BY <1>1, <1>2
  <2>2. registered' \in [IPs -> Nat]
    BY <2>1 DEF LetIn, TypeInv, ZeroTime
  <2>3. request' = [request EXCEPT ![h] = Idle] /\ request'[h] = Idle
    BY <2>1 DEF LetIn, Becomes, TypeInv
  <2>4. ~ AsksFor(Idle)
    BY DEF AsksFor, Idle, Working
  <2> QED
    BY <2>2, <2>3, <2>4 DEF RequestOK
<1>3. CASE ~ Accepted(ip, about, given, got)
  <2>1. Reject(h, ip, about, given)
    BY <1>1, <1>3
  <2> DEFINE r == [stage |-> "refused", ip |-> ip, about |-> about,
                   given |-> given]
  <2>2. registered' \in [IPs -> Nat]
    BY <2>1 DEF Reject, TypeInv
  <2>3. \/ request' = [request EXCEPT ![h] = Idle] /\ request'[h] = Idle
        \/ request' = [request EXCEPT ![h] = r] /\ request'[h] = r
    BY <2>1 DEF Reject, Becomes, TypeInv
  <2>4. Counts(r) /\ ~ AsksFor(r) /\ ~ AsksFor(Idle)
    BY DEF Counts, AsksFor, Idle, Working
  <2>5. r = [stage |-> "refused", ip |-> ip, about |-> about, given |-> given]
    OBVIOUS
  <2> HIDE DEF r
  <2>6. CASE request' = [request EXCEPT ![h] = Idle] /\ request'[h] = Idle
    BY <2>2, <2>4, <2>6 DEF RequestOK
  <2>7. CASE request' = [request EXCEPT ![h] = r] /\ request'[h] = r
    BY <1>3, <2>2, <2>4, <2>5, <2>7 DEF RequestOK
  <2> QED
    BY <2>3, <2>6, <2>7
<1> QED
  BY <1>2, <1>3

\* What the check of the exemptions leaves of a refused request.
LEMMA CheckedExempt ==
  ASSUME TypeInv, NEW h \in Handlers, CheckExempt(h)
  PROVE  /\ request' = [request EXCEPT ![h] = request'[h]]
         /\ RequestOK(request'[h])
         /\ request'[h].stage \in {"idle", "counting"}
         /\ request'[h].stage = "counting" =>
              request'[h].ip = request[h].ip /\ ~ NeverBan(request[h].ip)
<1> DEFINE c == [request[h] EXCEPT !.stage = "counting"]
<1>1. Counts(request[h])
  BY StageTyped DEF CheckExempt, In, TypeInv
<1>2. c = [stage |-> "counting", ip |-> request[h].ip,
           about |-> request[h].about, given |-> request[h].given]
  BY <1>1 DEF Counts
<1>3. Counts(c) /\ c.stage = "counting" /\ c.ip = request[h].ip
  BY <1>1, <1>2 DEF Counts
<1> HIDE DEF c
<1>4. \/ request' = [request EXCEPT ![h] = Idle] /\ request'[h] = Idle
      \/ /\ request' = [request EXCEPT ![h] = c] /\ request'[h] = c
         /\ ~ NeverBan(request[h].ip)
  BY DEF CheckExempt, Becomes, TypeInv, c
<1> QED
  BY <1>3, <1>4 DEF RequestOK, Idle

\* One handler's request changes, to another that is typed.
LEMMA OneRequest ==
  ASSUME TypeInv, NEW h \in Handlers, NEW r, RequestOK(r),
         request' = [request EXCEPT ![h] = r],
         registered' \in [IPs -> Nat], UNCHANGED <<cacheVars, serverVars>>
  PROVE  TypeInv'
<1>1. /\ request' = [k \in Handlers |-> request'[k]]
      /\ \A k \in Handlers : RequestOK(request'[k])
  BY DEF TypeInv
<1> QED
  BY <1>1 DEF TypeInv, cacheVars, serverVars, RequestOK, AsksFor, Counts

LEMMA HandlerTypes ==
  ASSUME TypeInv, BanInv, NEW h \in Handlers, HandlerStep(h)
  PROVE  TypeInv'
<1>1. now \in Nat
  BY DEF BanInv
<1>2. ASSUME NEW ip \in IPs, NEW about \in Subjects, AnswerFromCache(h, ip, about)
      PROVE  TypeInv'
  <2>1. /\ Decide(h, ip, about, CacheOf(about).data)
        /\ UNCHANGED <<cacheVars, serverVars>>
    BY <1>2 DEF AnswerFromCache
  <2>2. /\ registered' \in [IPs -> Nat] /\ RequestOK(request'[h])
        /\ request' = [request EXCEPT ![h] = request'[h]]
    BY <1>1, <2>1, Decided
  <2> QED
    BY <2>1, <2>2, OneRequest
<1>3. ASSUME NEW ip \in IPs, NEW about \in Subjects, AskApi(h, ip, about)
      PROVE  TypeInv'
  <2> DEFINE r == Working("asking", ip, about, now, 0)
  <2>1. /\ request' = [request EXCEPT ![h] = r]
        /\ UNCHANGED <<cacheVars, serverVars>> /\ registered' = registered
    BY <1>3 DEF AskApi, Becomes
  <2>2. RequestOK(r)
    BY <1>1 DEF RequestOK, AsksFor, Working
  <2>3. registered' \in [IPs -> Nat]
    BY <2>1 DEF TypeInv
  <2> HIDE DEF r
  <2> QED
    BY <2>1, <2>2, <2>3, OneRequest
<1>4. ASSUME NEW ip \in IPs, Dropped(ip)
      PROVE  TypeInv'
  BY <1>4 DEF Dropped, vars, cacheVars, serverVars, TypeInv, RequestOK, AsksFor,
              Counts
<1>5. CASE ServerAnswers(h)
  <2>1. AsksFor(request[h])
    BY <1>5, StageTyped DEF ServerAnswers, In, TypeInv
  <2> DEFINE about == request[h].about
             got == IF about.kind = "login" THEN password[about.of]
                                            ELSE trunk[about.of]
  <2>2. /\ request' = [request EXCEPT ![h].stage = "answered", ![h].got = got]
        /\ got \in IF about.kind = "login" THEN Nat ELSE BOOLEAN
    BY <1>5, <2>1, SubjectKinds DEF ServerAnswers, AsksFor, TypeInv
  <2> HIDE DEF got
  <2> DEFINE r == Working("answered", request[h].ip, request[h].about,
                          request[h].since, got)
  <2>3. /\ request' = [request EXCEPT ![h] = request'[h]]
        /\ request'[h] = [[request[h] EXCEPT !.stage = "answered"] EXCEPT !.got = got]
    BY <2>2 DEF TypeInv
  <2>4. request'[h] = r
    BY <2>1, <2>3 DEF AsksFor, Working
  <2>5. RequestOK(r)
    BY <2>1, <2>2 DEF RequestOK, AsksFor, Working
  <2>6. registered' \in [IPs -> Nat] /\ UNCHANGED <<cacheVars, serverVars>>
    BY <1>5 DEF ServerAnswers, TypeInv
  <2> HIDE DEF r
  <2> QED
    BY <2>3, <2>4, <2>5, <2>6, OneRequest
<1>6. CASE ApiFails(h)
  <2>1. /\ request' = [request EXCEPT ![h] = Idle] /\ registered' = registered
        /\ UNCHANGED <<cacheVars, serverVars>>
    BY <1>6 DEF ApiFails, Becomes
  <2> QED
    BY <2>1, OneRequest DEF TypeInv, RequestOK
<1>7. CASE CountFailure(h)
  <2>1. /\ request' = [request EXCEPT ![h] = Idle] /\ registered' = registered
        /\ UNCHANGED <<cacheVars, serverVars>>
    BY <1>7 DEF CountFailure, Becomes
  <2> QED
    BY <2>1, OneRequest DEF TypeInv, RequestOK
<1>8. CASE AnswerArrives(h)
  <2> DEFINE r == request[h]
  <2>1. AsksFor(r)
    BY <1>8, StageTyped DEF AnswerArrives, In, TypeInv
  <2>2. /\ registered' \in [IPs -> Nat] /\ RequestOK(request'[h])
        /\ request' = [request EXCEPT ![h] = request'[h]]
    BY <1>1, <1>8, <2>1, Decided DEF AnswerArrives, AsksFor
  <2>3. UNCHANGED serverVars
    BY <1>8 DEF AnswerArrives
  <2>4. \A k \in Handlers : RequestOK(request'[k])
    BY <2>2 DEF TypeInv
  <2>5. request' = [k \in Handlers |-> request'[k]]
    BY <2>2 DEF TypeInv
  <2>6. CASE r.about.kind = "login"
    <3>1. StorePassword(r.about.of, r.got)
      BY <1>8, <2>6 DEF AnswerArrives
    <3>2. r.about.of \in Users /\ r.got \in Nat
      BY <1>8, <2>1, <2>6, SubjectKinds DEF AsksFor, AnswerArrives, In
    <3>3. cred_cache' \in [Users -> [data : Nat, expires_at : Nat]]
      BY <1>1, <3>1, <3>2 DEF StorePassword, Entry, TypeInv
    <3> QED
      BY <2>2, <2>3, <2>4, <2>5, <3>1, <3>3
      DEF TypeInv, StorePassword, serverVars
  <2>7. CASE r.about.kind = "call"
    <3>1. StoreTrunk(r.about.of, r.got)
      BY <1>8, <2>7 DEF AnswerArrives
    <3>2. r.about.of \in Numbers /\ r.got \in BOOLEAN
      BY <1>8, <2>1, <2>7, SubjectKinds DEF AsksFor, AnswerArrives, In
    <3>3. trunk_cache' \in [Numbers -> [data : BOOLEAN, expires_at : Nat]]
      BY <1>1, <3>1, <3>2 DEF StoreTrunk, Entry, TypeInv
    <3>4. trunk_nets' \subseteq IPs
      BY <3>1 DEF StoreTrunk, TypeInv
    <3> QED
      BY <2>2, <2>3, <2>4, <2>5, <3>1, <3>3, <3>4
      DEF TypeInv, StoreTrunk, serverVars
  <2> QED
    BY <2>1, <2>6, <2>7, SubjectKinds DEF AsksFor
<1>9. CASE CheckExempt(h)
  <2>1. registered' \in [IPs -> Nat] /\ UNCHANGED <<cacheVars, serverVars>>
    BY <1>9 DEF CheckExempt, TypeInv
  <2> QED
    BY <1>9, <2>1, CheckedExempt, OneRequest
<1> QED
  BY <1>2, <1>3, <1>4, <1>5, <1>6, <1>7, <1>8, <1>9 DEF HandlerStep

LEMMA InitTypes ==
  ASSUME Init
  PROVE  TypeInv
BY DEF Init, ApiInit, Entry, ZeroTime, TypeInv, RequestOK

LEMMA AdministerTypes ==
  ASSUME TypeInv, BanInv, Administer
  PROVE  TypeInv'
<1>1. now \in Nat
  BY DEF BanInv
<1>2. ASSUME NEW u \in Users, ChangePassword(u, password[u] + 1)
      PROVE  /\ password' \in [Users -> Nat]
             /\ trunk' \in [Numbers -> BOOLEAN]
             /\ changed' \in [Users \cup Numbers -> Nat]
  BY <1>1, <1>2 DEF ChangePassword, TypeInv
<1>3. ASSUME NEW n \in Numbers, ChangeTrunk(n)
      PROVE  /\ password' \in [Users -> Nat]
             /\ trunk' \in [Numbers -> BOOLEAN]
             /\ changed' \in [Users \cup Numbers -> Nat]
  BY <1>1, <1>3 DEF ChangeTrunk, TypeInv
<1>4. /\ password' \in [Users -> Nat]
      /\ trunk' \in [Numbers -> BOOLEAN]
      /\ changed' \in [Users \cup Numbers -> Nat]
  BY <1>2, <1>3 DEF Administer
<1>5. UNCHANGED <<cacheVars, registered, request>>
  BY DEF Administer
<1> QED
  BY <1>4, <1>5 DEF cacheVars, TypeInv, RequestOK, AsksFor, Counts

\* Every step: what it does to the types, to the table and to the policy.
LEMMA NextFollowsPolicy ==
  ASSUME TypeInv, BanInv, [Next]_vars
  PROVE  /\ TypeInv'
         /\ BanInv'
         /\ Policy!PolicyNext \/ UNCHANGED Policy!policyVars
<1>1. CASE Tick
  <2>1. TypeInv'
    BY <1>1 DEF Tick, cacheVars, serverVars, TypeInv, RequestOK, AsksFor, Counts
  <2> QED
    BY <1>1, <2>1, TickFollowsPolicy DEF Tick, Policy!PolicyNext
<1>2. CASE Administer
  BY <1>2, AdministerTypes, RestFollowsPolicy DEF Administer
<1>3. CASE UNCHANGED vars
  <2>1. TypeInv'
    BY <1>3 DEF vars, cacheVars, serverVars, TypeInv, RequestOK, AsksFor, Counts
  <2> QED
    BY <1>3, <2>1, RestFollowsPolicy DEF vars
<1>4. ASSUME NEW h \in Handlers, HandlerStep(h)
      PROVE  /\ TypeInv'
             /\ BanInv'
             /\ Policy!PolicyNext \/ UNCHANGED Policy!policyVars
  <2>1. TypeInv'
    BY <1>4, HandlerTypes
  <2>2. CASE CountFailure(h)
    <3>1. request[h].ip \in IPs /\ Fail(request[h].ip) /\ now' = now
      BY <2>2, StageTyped DEF CountFailure, In, Counts, TypeInv
    <3> QED
      BY <2>1, <3>1, FailFollowsPolicy
  <2>3. CASE UNCHANGED <<now, banVars>>
    BY <2>1, <2>3, RestFollowsPolicy
  <2>4. CountFailure(h) \/ UNCHANGED <<now, banVars>>
    BY <1>4 DEF HandlerStep, AnswerFromCache, AskApi, Dropped, vars,
                ServerAnswers, AnswerArrives, ApiFails, CheckExempt
  <2> QED
    BY <2>2, <2>3, <2>4
<1> QED
  BY <1>1, <1>2, <1>3, <1>4 DEF Next

\* Every reachable state is typed, and its table of bans is a good one.
LEMMA Typed == Spec => [](TypeInv /\ BanInv)
<1>1. Init => TypeInv /\ BanInv
  BY InitTypes, InitFollowsPolicy
<1>2. TypeInv /\ BanInv /\ [Next]_vars => (TypeInv /\ BanInv)'
  BY NextFollowsPolicy
<1> QED
  BY <1>1, <1>2, PTL DEF Spec

(* Admission.TypeOK: the types, and no record that is kept has reached the *)
(* limit of failures.                                                      *)
THEOREM TypeCorrect == Spec => []TypeOK
<1>1. TypeInv /\ BanInv => TypeOK
  <2> SUFFICES ASSUME TypeInv, BanInv
               PROVE  TypeOK
    OBVIOUS
  <2>1. \A h \in Handlers :
          request[h] # Idle => request[h].ip \in IPs /\ request[h].stage \in Stages
    BY StageTyped DEF TypeInv, RequestOK, AsksFor, Counts
  <2> QED
    BY <2>1 DEF TypeOK, TypeInv, BanInv, RecordOK
<1> QED
  BY <1>1, Typed, PTL

(* ip_ban.go: the table that is swept, forgets and doubles bans implements *)
(* the policy, which does none of this, for any settings and sources.      *)
THEOREM BansFollowPolicy == Spec => KeepsPolicy
<1>1. Init => Policy!PolicyInit
  BY InitFollowsPolicy
<1>2. TypeInv /\ BanInv /\ [Next]_vars
        => [Policy!PolicyNext]_(Policy!policyVars)
  BY NextFollowsPolicy
<1> QED
  BY <1>1, <1>2, Typed, PTL DEF Spec, KeepsPolicy, Policy!PolicySpec

-----------------------------------------------------------------------------
(* Refusals.  They come from  an answer, fresh or cached, and an answer   *)
(* that is no longer true is not older than what it answers allows.        *)

LEMMA TrunkNetsGrow ==
  ASSUME [Next]_vars
  PROVE  trunk_nets \subseteq trunk_nets'
BY DEF Next, Tick, Administer, HandlerStep, AnswerFromCache, AskApi, Dropped,
       ServerAnswers, AnswerArrives, ApiFails, CheckExempt, CountFailure,
       StorePassword, StoreTrunk, vars, cacheVars

Answer(h, about, got) ==
  \/ Fresh(CacheOf(about)) /\ got = CacheOf(about).data
  \/ /\ AsksFor(request[h])
     /\ request[h].stage = "answered"
     /\ request[h].about = about
     /\ request[h].got = got

LEMMA RefusedBy ==
  ASSUME TypeInv, BanInv, [Next]_vars, NEW h \in Handlers, NEW about,
         Refuses(h, about)
  PROVE  /\ about \in Subjects
         /\ \E ip \in IPs, given \in Given(about) : \E got :
              /\ request'[h] = [stage |-> "refused", ip |-> ip,
                                about |-> about, given |-> given]
              /\ ~ Accepted(ip, about, given, got)
              /\ Answer(h, about, got)
<1>1. /\ request'[h] # request[h]
      /\ request'[h].stage = "refused"
      /\ request[h].stage # "refused"
      /\ request'[h].about = about
  BY DEF Refuses, In
<1>2. PICK k \in Handlers : HandlerStep(k)
  BY <1>1 DEF Next, Tick, Administer, vars
<1>3. request'[h] # Idle
  BY <1>1 DEF Idle
<1>4. k = h
  BY <1>1, <1>2
  DEF HandlerStep, AnswerFromCache, AskApi, Dropped, ServerAnswers,
      AnswerArrives, ApiFails, CheckExempt, CountFailure, Decide, LetIn, Reject, Becomes,
      vars, TypeInv
<1>5. ASSUME NEW ip \in IPs, NEW asked \in Subjects, NEW got,
             Decide(h, ip, asked, got), Answer(h, asked, got)
      PROVE  /\ about \in Subjects
             /\ \E i \in IPs, given \in Given(about) : \E g :
                  /\ request'[h] = [stage |-> "refused", ip |-> i,
                                    about |-> about, given |-> given]
                  /\ ~ Accepted(i, about, given, g)
                  /\ Answer(h, about, g)
  <2>1. PICK given \in Given(asked) :
          /\ request'[h] = [stage |-> "refused", ip |-> ip,
                            about |-> asked, given |-> given]
          /\ ~ Accepted(ip, asked, given, got)
    BY <1>3, <1>5, Decided DEF BanInv
  <2>2. asked = about
    BY <1>1, <2>1
  <2>3. /\ given \in Given(about)
        /\ request'[h] = [stage |-> "refused", ip |-> ip,
                          about |-> about, given |-> given]
        /\ ~ Accepted(ip, about, given, got)
        /\ Answer(h, about, got)
    BY <1>5, <2>1, <2>2
  <2> QED
    BY <2>1, <2>2, <2>3
<1>6. ASSUME NEW ip \in IPs, NEW asked \in Subjects, AnswerFromCache(h, ip, asked)
      PROVE  /\ Decide(h, ip, asked, CacheOf(asked).data)
             /\ Answer(h, asked, CacheOf(asked).data)
  BY <1>6 DEF AnswerFromCache, Answer
<1>7. ASSUME AnswerArrives(h)
      PROVE  /\ request[h].ip \in IPs
             /\ request[h].about \in Subjects
             /\ Decide(h, request[h].ip, request[h].about, request[h].got)
             /\ Answer(h, request[h].about, request[h].got)
  <2>1. request[h].stage = "answered" /\ AsksFor(request[h])
    BY <1>7, StageTyped DEF AnswerArrives, In, TypeInv
  <2> QED
    BY <1>7, <2>1 DEF AnswerArrives, Answer, AsksFor
<1>8. \/ \E ip \in IPs, asked \in Subjects : AnswerFromCache(h, ip, asked)
      \/ AnswerArrives(h)
  <2>1. ~ ServerAnswers(h)
    <3> SUFFICES ASSUME ServerAnswers(h)
                 PROVE  FALSE
      OBVIOUS
    <3>1. AsksFor(request[h])
      BY StageTyped DEF ServerAnswers, In, TypeInv
    <3>2. PICK got :
            request'[h] = [[request[h] EXCEPT !.stage = "answered"] EXCEPT !.got = got]
      BY DEF ServerAnswers, TypeInv
    <3>3. request'[h].stage = "answered"
      BY <3>1, <3>2 DEF AsksFor, Working
    <3> QED
      BY <1>1, <3>3
  <2>2. \A ip \in IPs, asked \in Subjects : ~ AskApi(h, ip, asked)
    BY <1>1 DEF AskApi, Becomes, TypeInv, Working
  <2>3. \A ip \in IPs : ~ Dropped(ip)
    BY <1>1 DEF Dropped, vars
  <2>4. ~ ApiFails(h) /\ ~ CountFailure(h)
    BY <1>1 DEF ApiFails, CountFailure, Becomes, TypeInv, Idle
  <2>5. ~ CheckExempt(h)
    BY <1>1 DEF CheckExempt, In
  <2> QED
    BY <1>2, <1>4, <2>1, <2>2, <2>3, <2>4, <2>5 DEF HandlerStep
<1> QED
  BY <1>5, <1>6, <1>7, <1>8

\* Only a refusal that is not exempt comes to be counted.
LEMMA CountedBy ==
  ASSUME TypeInv, BanInv, [Next]_vars, NEW h \in Handlers,
         request'[h].stage = "counting",
         ~ (request[h].stage = "counting" /\ request[h].ip = request'[h].ip)
  PROVE  CheckExempt(h)
<1>1. request'[h] # request[h] /\ request'[h] # Idle
  BY DEF Idle
<1>2. PICK k \in Handlers : HandlerStep(k)
  BY <1>1 DEF Next, Tick, Administer, vars
<1>3. k = h
  BY <1>1, <1>2
  DEF HandlerStep, AnswerFromCache, AskApi, Dropped, ServerAnswers,
      AnswerArrives, ApiFails, CheckExempt, CountFailure, Decide, LetIn, Reject,
      Becomes, vars, TypeInv
<1>4. ASSUME NEW ip \in IPs, NEW about \in Subjects, NEW got,
             Decide(h, ip, about, got)
      PROVE  FALSE
  <2>1. now \in Nat
    BY DEF BanInv
  <2>2. PICK given \in Given(about) :
          request'[h] = [stage |-> "refused", ip |-> ip,
                         about |-> about, given |-> given]
    BY <1>1, <1>4, <2>1, Decided
  <2> QED
    BY <2>2
<1>5. \A ip \in IPs, about \in Subjects : ~ AnswerFromCache(h, ip, about)
  BY <1>4 DEF AnswerFromCache
<1>6. ~ AnswerArrives(h)
  <2> SUFFICES ASSUME AnswerArrives(h)
               PROVE  FALSE
    OBVIOUS
  <2>1. AsksFor(request[h])
    BY StageTyped DEF AnswerArrives, In, TypeInv
  <2> QED
    BY <1>4, <2>1 DEF AnswerArrives, AsksFor
<1>7. ~ ServerAnswers(h)
  <2> SUFFICES ASSUME ServerAnswers(h)
               PROVE  FALSE
    OBVIOUS
  <2>1. AsksFor(request[h])
    BY StageTyped DEF ServerAnswers, In, TypeInv
  <2>2. PICK got :
          request'[h] = [[request[h] EXCEPT !.stage = "answered"] EXCEPT !.got = got]
    BY DEF ServerAnswers, TypeInv
  <2>3. request'[h].stage = "answered"
    BY <2>1, <2>2 DEF AsksFor, Working
  <2> QED
    BY <2>3
<1>8. \A ip \in IPs, about \in Subjects : ~ AskApi(h, ip, about)
  BY DEF AskApi, Becomes, TypeInv, Working
<1>9. \A ip \in IPs : ~ Dropped(ip)
  BY <1>1 DEF Dropped, vars
<1>10. ~ ApiFails(h) /\ ~ CountFailure(h)
  BY <1>1 DEF ApiFails, CountFailure, Becomes, TypeInv
<1> QED
  BY <1>2, <1>3, <1>5, <1>6, <1>7, <1>8, <1>9, <1>10 DEF HandlerStep

\* A ban begins only where a failure was being counted.
LEMMA BannedBy ==
  ASSUME TypeInv, BanInv, [Next]_vars, NEW ip \in IPs, Banned(ip)', ~ Counting(ip)
  PROVE  Banned(ip)
<1>1. now \in Nat /\ sources[ip].banned_until \in Nat
  BY DEF BanInv, IPBanRecord
<1>2. CASE UNCHANGED banVars /\ (now' = now \/ now' = now + 1)
  BY <1>1, <1>2 DEF banVars, Banned
<1>3. CASE \E h \in Handlers : CountFailure(h)
  <2>1. PICK h \in Handlers : CountFailure(h)
    BY <1>3
  <2>2. request[h].ip # ip /\ Fail(request[h].ip) /\ now' = now
    BY <2>1 DEF CountFailure, Counting
  <2>3. sources'[ip] = Swept[ip]
    BY <2>2 DEF Fail, Swept
  <2>4. Swept[ip] = NoRecord \/ Swept[ip] = sources[ip]
    BY DEF Swept
  <2> QED
    BY <1>1, <2>2, <2>3, <2>4 DEF Banned, NoRecord, ZeroTime
<1> QED
  BY <1>2, <1>3
  DEF Next, Tick, Administer, HandlerStep, AnswerFromCache, AskApi, Dropped,
      ServerAnswers, AnswerArrives, ApiFails, CheckExempt, vars

(* api.go:25, ip_ban.go: the networks of a trunk that was looked up are    *)
(* kept and stay exempt, so that no failure from there comes to be counted *)
(* and no ban begins, but of failures that were being counted already.     *)
THEOREM KnownTrunks == Spec => KnownTrunkStaysExempt
<1> DEFINE Exempt ==
      \A ip \in IPs :
        ip \in TrunkIPs /\ IsTrunkIP(ip) /\ ~ Counting(ip)
          => /\ IsTrunkIP(ip)'
             /\ ~ Counting(ip)'
             /\ Banned(ip)' => Banned(ip)
<1>1. TypeInv /\ BanInv /\ [Next]_vars => Exempt
  <2> SUFFICES ASSUME TypeInv, BanInv, [Next]_vars, NEW ip \in IPs,
                      ip \in trunk_nets, ~ Counting(ip)
               PROVE  /\ IsTrunkIP(ip)'
                      /\ ~ Counting(ip)'
                      /\ Banned(ip)' => Banned(ip)
    BY DEF IsTrunkIP
  <2>1. IsTrunkIP(ip)'
    BY TrunkNetsGrow DEF IsTrunkIP
  <2>2. ASSUME Counting(ip)'
        PROVE  FALSE
    <3>1. PICK h \in Handlers :
            request'[h].stage = "counting" /\ request'[h].ip = ip
      BY <2>2 DEF Counting, In
    <3>2. ~ (request[h].stage = "counting" /\ request[h].ip = ip)
      BY DEF Counting, In
    <3>3. CheckExempt(h)
      BY <3>1, <3>2, CountedBy
    <3> QED
      BY <3>1, <3>3, CheckedExempt DEF NeverBan
  <2> QED
    BY <2>1, <2>2, BannedBy
<1> QED
  BY <1>1, Typed, PTL DEF Spec, KnownTrunkStaysExempt

-----------------------------------------------------------------------------
(* How old an answer can be.  What contradicts the server was read before  *)
(* the server changed, in a request that does not outlive its time-out,    *)
(* and is kept no longer than the cache keeps such answers.                *)

\* What is cached about a user: wrong only if it was read before the change.
UserAge(u) ==
  /\ changed[u] <= now
  /\ cred_cache[u].expires_at <= now + CacheTTL
  /\ cred_cache[u].data # password[u]
       => cred_cache[u].expires_at <= changed[u] + Timeout + CacheTTL

\* The same of a number that is cached as unknown.
NumberAge(n) ==
  /\ changed[n] <= now
  /\ ~ trunk_cache[n].data => trunk_cache[n].expires_at <= now + UnknownTTL
  /\ ~ trunk_cache[n].data /\ trunk[n]
       => trunk_cache[n].expires_at <= changed[n] + Timeout + UnknownTTL

\* The same of an answer that is on its way to a handler.
RequestAge(r) ==
  AsksFor(r) =>
    /\ r.since <= now
    /\ now <= r.since + Timeout
    /\ r.stage = "answered" =>
         /\ r.about.kind = "login" /\ r.got # password[r.about.of]
              => r.since <= changed[r.about.of]
         /\ r.about.kind = "call" /\ r.got # trunk[r.about.of]
              => r.since <= changed[r.about.of]

AgeInv ==
  /\ \A u \in Users : UserAge(u)
  /\ \A n \in Numbers : NumberAge(n)
  /\ \A h \in Handlers : RequestAge(request[h])

LEMMA InitAge ==
  ASSUME Init
  PROVE  AgeInv
<1>1. \A h \in Handlers : ~ AsksFor(request[h])
  BY DEF Init, AsksFor, Idle, Working
<1>2. \A r \in Users \cup Numbers : changed[r] = 0
  BY DEF Init, ApiInit, ZeroTime
<1>3. now \in Nat
  BY DEF Init
<1>4. \A u \in Users : cred_cache[u].expires_at = 0
  BY DEF Init, ApiInit, ZeroTime, Entry
<1>5. \A n \in Numbers : trunk_cache[n].expires_at = 0
  BY DEF Init, ApiInit, ZeroTime, Entry
<1> QED
  BY <1>1, <1>2, <1>3, <1>4, <1>5 DEF AgeInv, UserAge, NumberAge, RequestAge

\* Nothing that answers contradict or agree with changes: the ages stay.
LEMMA SameAges ==
  ASSUME AgeInv, UNCHANGED <<now, cacheVars, serverVars>>,
         NEW h \in Handlers, TypeInv,
         request' = [request EXCEPT ![h] = request'[h]],
         RequestAge(request'[h])
  PROVE  AgeInv'
<1>1. /\ now' = now /\ cred_cache' = cred_cache /\ trunk_cache' = trunk_cache
      /\ password' = password /\ trunk' = trunk /\ changed' = changed
  BY DEF cacheVars, serverVars
<1>2. \A k \in Handlers : RequestAge(request'[k])
  BY DEF AgeInv, TypeInv
<1> QED
  BY <1>1, <1>2 DEF AgeInv, UserAge, NumberAge, RequestAge, AsksFor

LEMMA TickAge ==
  ASSUME TypeInv, BanInv, AgeInv, Tick
  PROVE  AgeInv'
<1>1. /\ now' = now + 1 /\ now \in Nat
      /\ cred_cache' = cred_cache /\ trunk_cache' = trunk_cache
      /\ password' = password /\ trunk' = trunk /\ changed' = changed
      /\ request' = request
  BY DEF Tick, cacheVars, serverVars, BanInv
<1>2. \A u \in Users : UserAge(u)'
  BY <1>1 DEF AgeInv, UserAge, TypeInv
<1>3. \A n \in Numbers : NumberAge(n)'
  BY <1>1 DEF AgeInv, NumberAge, TypeInv
<1>4. ASSUME NEW h \in Handlers, AsksFor(request[h])
      PROVE  now' <= request[h].since + Timeout /\ request[h].since <= now'
  BY <1>1, <1>4 DEF Tick, InTime, AsksFor, AgeInv, RequestAge
<1>5. \A h \in Handlers : RequestAge(request[h])'
  BY <1>1, <1>4 DEF AgeInv, RequestAge, AsksFor
<1> QED
  BY <1>1, <1>2, <1>3, <1>5 DEF AgeInv

LEMMA AdministerAge ==
  ASSUME TypeInv, BanInv, AgeInv, Administer
  PROVE  AgeInv'
<1>1. /\ now' = now /\ now \in Nat
      /\ cred_cache' = cred_cache /\ trunk_cache' = trunk_cache
      /\ request' = request
  BY DEF Administer, cacheVars, BanInv
<1>2. PICK row \in Users \cup Numbers :
        /\ changed' = [changed EXCEPT ![row] = now]
        /\ \A u \in Users : u # row => password'[u] = password[u]
        /\ \A n \in Numbers : n # row => trunk'[n] = trunk[n]
  BY DEF Administer, ChangePassword, ChangeTrunk, TypeInv
<1>3. /\ changed'[row] = now
      /\ \A r \in Users \cup Numbers :
           /\ r # row => changed'[r] = changed[r]
           /\ changed'[r] \in Nat
  BY <1>1, <1>2 DEF TypeInv
<1>4. \A u \in Users : UserAge(u)'
  BY <1>1, <1>2, <1>3 DEF AgeInv, UserAge, TypeInv
<1>5. \A n \in Numbers : NumberAge(n)'
  BY <1>1, <1>2, <1>3 DEF AgeInv, NumberAge, TypeInv
<1>6. ASSUME NEW h \in Handlers
      PROVE  RequestAge(request[h])'
  <2>1. CASE ~ AsksFor(request[h])
    BY <1>1, <2>1 DEF RequestAge, AsksFor
  <2>2. CASE AsksFor(request[h])
    <3>1. request[h].about.of \in Users \cup Numbers
      BY <2>2, SubjectKinds DEF AsksFor
    <3> QED
      BY <1>1, <1>2, <1>3, <2>2, <3>1, SubjectKinds
      DEF AgeInv, RequestAge, AsksFor
  <2> QED
    BY <2>1, <2>2
<1> QED
  BY <1>1, <1>4, <1>5, <1>6 DEF AgeInv

LEMMA AnswerArrivesAge ==
  ASSUME TypeInv, BanInv, AgeInv, NEW h \in Handlers, AnswerArrives(h)
  PROVE  AgeInv'
<1> DEFINE r == request[h]
<1>1. now \in Nat /\ now' = now /\ password' = password /\ trunk' = trunk
      /\ changed' = changed
  BY DEF AnswerArrives, serverVars, BanInv
<1>2. AsksFor(r) /\ r.stage = "answered"
  BY StageTyped DEF AnswerArrives, In, TypeInv
<1>3. r.since <= now /\ now <= r.since + Timeout
  BY <1>2 DEF AgeInv, RequestAge
<1>4. \A k \in Handlers : RequestAge(request[k])'
  <2>1. /\ request' = [request EXCEPT ![h] = request'[h]]
        /\ ~ AsksFor(request'[h])
    BY <1>1, <1>2, Decided DEF AnswerArrives, AsksFor
  <2>3. \A k \in Handlers \ {h} : request'[k] = request[k]
    BY <2>1 DEF TypeInv
  <2> QED
    BY <1>1, <2>1, <2>3 DEF AgeInv, RequestAge, AsksFor
<1>5. ASSUME NEW x \in Users, r.about = Login(x)
      PROVE  AgeInv'
  <2>1. StorePassword(x, r.got)
    BY <1>5 DEF AnswerArrives, Login
  <2>2. trunk_cache' = trunk_cache /\ \A u \in Users \ {x} : cred_cache'[u] = cred_cache[u]
    BY <2>1 DEF StorePassword, TypeInv
  <2>3. \/ cred_cache'[x] = cred_cache[x]
        \/ cred_cache'[x] = Entry(r.got, now + CacheTTL)
    BY <2>1 DEF StorePassword, TypeInv
  <2>4. r.got # password[x] => r.since <= changed[x]
    BY <1>2, <1>5 DEF AgeInv, RequestAge, Login
  <2>5. UserAge(x)'
    BY <1>1, <1>2, <1>3, <2>1, <2>3, <2>4
    DEF AgeInv, UserAge, TypeInv, Entry, AsksFor, Login
  <2> QED
    BY <1>1, <1>4, <2>2, <2>5 DEF AgeInv, UserAge, NumberAge
<1>6. ASSUME NEW x \in Numbers, r.about = Call(x)
      PROVE  AgeInv'
  <2>1. StoreTrunk(x, r.got)
    BY <1>6 DEF AnswerArrives, Call
  <2>2. cred_cache' = cred_cache /\ \A n \in Numbers \ {x} : trunk_cache'[n] = trunk_cache[n]
    BY <2>1 DEF StoreTrunk, TypeInv
  <2>3. trunk_cache'[x] = Entry(r.got, now + IF r.got THEN CacheTTL ELSE UnknownTTL)
    BY <2>1 DEF StoreTrunk, TypeInv
  <2>4. /\ r.got # trunk[x] => r.since <= changed[x]
        /\ r.got \in BOOLEAN
    BY <1>2, <1>6 DEF AgeInv, RequestAge, AsksFor, Call
  <2>5. /\ trunk_cache'[x].data = r.got
        /\ ~ r.got => trunk_cache'[x].expires_at = now + UnknownTTL
    BY <2>3 DEF Entry
  <2>6. NumberAge(x)'
    <3>1. changed[x] <= now /\ changed[x] \in Nat /\ trunk[x] \in BOOLEAN
      BY DEF AgeInv, NumberAge, TypeInv
    <3>2. r.since \in Nat
      BY <1>2 DEF AsksFor
    <3>3. CASE r.got
      BY <1>1, <2>5, <3>1, <3>3 DEF NumberAge
    <3>4. CASE ~ r.got
      <4>1. trunk[x] => r.since <= changed[x]
        BY <2>4, <3>1, <3>4
      <4>2. /\ now + UnknownTTL <= now + UnknownTTL
            /\ r.since <= changed[x]
                 => now + UnknownTTL <= changed[x] + Timeout + UnknownTTL
        BY <1>1, <1>3, <3>1, <3>2
      <4> QED
        BY <1>1, <2>5, <3>1, <3>4, <4>1, <4>2 DEF NumberAge
    <3> QED
      BY <3>3, <3>4
  <2> QED
    BY <1>1, <1>4, <2>2, <2>6 DEF AgeInv, UserAge, NumberAge
<1> QED
  BY <1>2, <1>5, <1>6, SubjectKinds DEF AsksFor

LEMMA HandlerAge ==
  ASSUME TypeInv, BanInv, AgeInv, NEW h \in Handlers, HandlerStep(h)
  PROVE  AgeInv'
<1>1. now \in Nat
  BY DEF BanInv
<1>2. ASSUME NEW ip \in IPs, NEW about \in Subjects, AnswerFromCache(h, ip, about)
      PROVE  AgeInv'
  <2>1. /\ Decide(h, ip, about, CacheOf(about).data)
        /\ UNCHANGED <<now, cacheVars, serverVars>>
    BY <1>2 DEF AnswerFromCache
  <2>2. /\ request' = [request EXCEPT ![h] = request'[h]]
        /\ ~ AsksFor(request'[h])
    BY <1>1, <2>1, Decided
  <2>3. RequestAge(request'[h])
    BY <2>2 DEF RequestAge
  <2> QED
    BY <2>1, <2>2, <2>3, SameAges
<1>3. ASSUME NEW ip \in IPs, NEW about \in Subjects, AskApi(h, ip, about)
      PROVE  AgeInv'
  <2>1. /\ request' = [request EXCEPT ![h] = request'[h]]
        /\ request'[h] = Working("asking", ip, about, now, 0)
        /\ UNCHANGED <<now, cacheVars, serverVars>>
    BY <1>3 DEF AskApi, Becomes, TypeInv
  <2>2. RequestAge(request'[h])
    BY <1>1, <2>1 DEF RequestAge, Working
  <2> QED
    BY <2>1, <2>2, SameAges
<1>4. ASSUME NEW ip \in IPs, Dropped(ip)
      PROVE  AgeInv'
  BY <1>4 DEF Dropped, vars, cacheVars, serverVars, AgeInv, UserAge, NumberAge,
              RequestAge, AsksFor
<1>5. CASE ServerAnswers(h)
  <2> DEFINE about == request[h].about
             got == IF about.kind = "login" THEN password[about.of]
                                            ELSE trunk[about.of]
  <2>1. AsksFor(request[h])
    BY <1>5, StageTyped DEF ServerAnswers, In, TypeInv
  <2>2. /\ request' = [request EXCEPT ![h].stage = "answered", ![h].got = got]
        /\ UNCHANGED <<now, cacheVars, serverVars>>
    BY <1>5 DEF ServerAnswers
  <2> HIDE DEF got
  <2>3. /\ request' = [request EXCEPT ![h] = request'[h]]
        /\ request'[h] = [[request[h] EXCEPT !.stage = "answered"] EXCEPT !.got = got]
    BY <2>2 DEF TypeInv
  <2>4. request'[h] = Working("answered", request[h].ip, about,
                              request[h].since, got)
    BY <2>1, <2>3 DEF AsksFor, Working
  <2>5. /\ about.kind = "login" => got = password[about.of]
        /\ about.kind = "call" => got = trunk[about.of]
    BY DEF got
  <2>6. request[h].since <= now /\ now <= request[h].since + Timeout
    BY <2>1 DEF AgeInv, RequestAge
  <2>7. RequestAge(request'[h])
    BY <2>4, <2>5, <2>6 DEF RequestAge, Working
  <2> QED
    BY <2>2, <2>3, <2>7, SameAges
<1>6. CASE ApiFails(h) \/ CountFailure(h)
  <2>1. /\ request' = [request EXCEPT ![h] = request'[h]]
        /\ request'[h] = Idle
        /\ UNCHANGED <<now, cacheVars, serverVars>>
    BY <1>6 DEF ApiFails, CountFailure, Becomes, TypeInv
  <2>2. RequestAge(request'[h])
    BY <2>1 DEF RequestAge, AsksFor, Idle, Working
  <2> QED
    BY <2>1, <2>2, SameAges
<1>7. CASE CheckExempt(h)
  <2>1. RequestAge(request'[h])
    BY <1>7, CheckedExempt DEF RequestAge, AsksFor
  <2>2. UNCHANGED <<now, cacheVars, serverVars>>
    BY <1>7 DEF CheckExempt
  <2> QED
    BY <1>7, <2>1, <2>2, CheckedExempt, SameAges
<1> QED
  BY <1>2, <1>3, <1>4, <1>5, <1>6, <1>7, AnswerArrivesAge DEF HandlerStep

\* Every reachable answer, cached or on its way, is young enough.
LEMMA Aged == Spec => []AgeInv
<1>1. Init => AgeInv
  BY InitAge
<1>2. TypeInv /\ BanInv /\ AgeInv /\ [Next]_vars => AgeInv'
  <2>1. ASSUME AgeInv, UNCHANGED vars
        PROVE  AgeInv'
    BY <2>1 DEF vars, cacheVars, serverVars, AgeInv, UserAge, NumberAge,
                RequestAge, AsksFor
  <2> QED
    BY <2>1, TickAge, AdministerAge, HandlerAge DEF Next
<1> QED
  BY <1>1, <1>2, Typed, PTL DEF Spec

(* api.go:53: a request with the right password, from any source, is       *)
(* refused for no longer after a change than a look-up may take and an old *)
(* password be cached, whatever handlers, caches and administrator do.     *)
THEOREM RightPasswords == Spec => RightPasswordSoonWorks
<1> DEFINE SoonWorks ==
      \A h \in Handlers, u \in Users :
        /\ Refuses(h, Login(u))
        /\ request'[h].given = password[u]
        /\ password[u] # 0
        => ~ Stale(u, CacheTTL)
<1>1. TypeInv /\ BanInv /\ AgeInv /\ [Next]_vars => SoonWorks
  <2> SUFFICES ASSUME TypeInv, BanInv, AgeInv, [Next]_vars,
                      NEW h \in Handlers, NEW u \in Users,
                      Refuses(h, Login(u)),
                      request'[h].given = password[u], password[u] # 0
               PROVE  ~ Stale(u, CacheTTL)
    OBVIOUS
  <2>1. PICK ip \in IPs, given \in Given(Login(u)) : \E got :
          /\ request'[h] = [stage |-> "refused", ip |-> ip,
                            about |-> Login(u), given |-> given]
          /\ ~ Accepted(ip, Login(u), given, got)
          /\ Answer(h, Login(u), got)
    BY RefusedBy
  <2>2. PICK got :
          /\ request'[h] = [stage |-> "refused", ip |-> ip,
                            about |-> Login(u), given |-> given]
          /\ ~ Accepted(ip, Login(u), given, got)
          /\ Answer(h, Login(u), got)
    BY <2>1
  <2>3. got # password[u]
    BY <2>2 DEF Accepted, Login
  <2>4. now \in Nat /\ changed[u] \in Nat
    BY DEF TypeInv, BanInv
  <2>5. CASE Fresh(cred_cache[u]) /\ got = cred_cache[u].data
    <3>1. cred_cache[u].expires_at <= changed[u] + Timeout + CacheTTL
      BY <2>3, <2>5 DEF AgeInv, UserAge
    <3>2. cred_cache[u].expires_at \in Nat
      BY DEF TypeInv
    <3> QED
      BY <2>4, <2>5, <3>1, <3>2 DEF Fresh, Stale
  <2>6. CASE /\ AsksFor(request[h])
             /\ request[h].stage = "answered"
             /\ request[h].about = Login(u)
             /\ request[h].got = got
    <3>1. /\ request[h].since <= changed[u]
          /\ now <= request[h].since + Timeout
          /\ request[h].since \in Nat
      BY <2>3, <2>6 DEF AgeInv, RequestAge, AsksFor, Login
    <3> QED
      BY <2>4, <3>1 DEF Stale
  <2>7. CacheOf(Login(u)) = cred_cache[u]
    BY DEF CacheOf, Login
  <2> QED
    BY <2>2, <2>5, <2>6, <2>7 DEF Answer
<1> QED
  BY <1>1, Typed, Aged, PTL DEF Spec, RightPasswordSoonWorks

(* api.go:55: a call over the trunk to a number that was given one is      *)
(* refused, to a source that is exempt from the ban or not, for no longer  *)
(* than a look-up may take and the number be remembered as unknown.        *)
THEOREM NewNumbers == Spec => NewNumberSoonWorks
<1> DEFINE SoonWorks ==
      \A h \in Handlers, n \in Numbers :
        /\ Refuses(h, Call(n))
        /\ trunk[n]
        /\ request'[h].ip \in TrunkIPs
        => ~ Stale(n, UnknownTTL)
<1>1. TypeInv /\ BanInv /\ AgeInv /\ [Next]_vars => SoonWorks
  <2> SUFFICES ASSUME TypeInv, BanInv, AgeInv, [Next]_vars,
                      NEW h \in Handlers, NEW n \in Numbers,
                      Refuses(h, Call(n)),
                      trunk[n], request'[h].ip \in TrunkIPs
               PROVE  ~ Stale(n, UnknownTTL)
    OBVIOUS
  <2>1. PICK ip \in IPs, given \in Given(Call(n)) : \E got :
          /\ request'[h] = [stage |-> "refused", ip |-> ip,
                            about |-> Call(n), given |-> given]
          /\ ~ Accepted(ip, Call(n), given, got)
          /\ Answer(h, Call(n), got)
    BY RefusedBy
  <2>2. PICK got :
          /\ request'[h] = [stage |-> "refused", ip |-> ip,
                            about |-> Call(n), given |-> given]
          /\ ~ Accepted(ip, Call(n), given, got)
          /\ Answer(h, Call(n), got)
    BY <2>1
  <2>3. ~ got
    BY <2>2 DEF Accepted, Call
  <2>4. now \in Nat /\ changed[n] \in Nat
    BY DEF TypeInv, BanInv
  <2>5. CASE Fresh(trunk_cache[n]) /\ got = trunk_cache[n].data
    <3>1. trunk_cache[n].expires_at <= changed[n] + Timeout + UnknownTTL
      BY <2>3, <2>5 DEF AgeInv, NumberAge
    <3>2. trunk_cache[n].expires_at \in Nat
      BY DEF TypeInv
    <3> QED
      BY <2>4, <2>5, <3>1, <3>2 DEF Fresh, Stale
  <2>6. CASE /\ AsksFor(request[h])
             /\ request[h].stage = "answered"
             /\ request[h].about = Call(n)
             /\ request[h].got = got
    <3>1. request[h].got # trunk[n]
      <4>1. got \in BOOLEAN
        BY <2>6 DEF AsksFor, Call
      <4>2. got = FALSE
        BY <2>3, <4>1
      <4>3. trunk[n] = TRUE
        BY DEF TypeInv
      <4> QED
        BY <2>6, <4>2, <4>3
    <3>2. request[h].about.kind = "call" /\ request[h].about.of = n
      BY <2>6 DEF Call
    <3>3. /\ request[h].since <= changed[n]
          /\ now <= request[h].since + Timeout
      BY <2>6, <3>1, <3>2 DEF AgeInv, RequestAge
    <3>4. request[h].since \in Nat
      BY <2>6 DEF AsksFor
    <3> QED
      BY <2>4, <3>3, <3>4 DEF Stale
  <2>7. CacheOf(Call(n)) = trunk_cache[n]
    BY DEF CacheOf, Call
  <2> QED
    BY <2>2, <2>5, <2>6, <2>7 DEF Answer
<1> QED
  BY <1>1, Typed, Aged, PTL DEF Spec, NewNumberSoonWorks
===============================================================================
