--------------------------- MODULE ProxyCallsProofs ---------------------------
(***************************************************************************)
(* Proofs about ProxyCalls, for any calls, contacts and nodes: its types,  *)
(* that the tables of proxy.go keep nothing of a call that is over, that a *)
(* fork that is over leaves nobody ringing but late branches, that calls   *)
(* that talk have what they need and get their ACKs, and that a user's     *)
(* calls share nodes.                                                      *)
(***************************************************************************)
EXTENDS ProxyCalls, TLAPS

USE ProxyConstants

States == [leg : Branches, offset : 0 .. 1]
ByeRecords == [of : Calls, from : {Caller} \cup Branches,
               state : {None} \cup States,
               step : {"sent", "affinity", "spoofed"}]

TypeInv ==
  /\ TypeOK
  /\ byes \subseteq ByeRecords

\* What the helpers of proxy.go's actions do to one variable.
LEMMA LegSet ==
  ASSUME TypeInv, NEW c \in Calls, NEW b, NEW to \in Legs, SetLeg(c, b, to)
  PROVE  leg' \in [Calls -> [Branches -> Legs]]
<1>1. [leg[c] EXCEPT ![b] = to] \in [Branches -> Legs]
  BY DEF TypeInv, TypeOK
<1>2. leg' = [leg EXCEPT ![c] = [leg[c] EXCEPT ![b] = to]]
  BY DEF SetLeg
<1> QED
  BY <1>1, <1>2 DEF TypeInv, TypeOK

LEMMA BranchSet ==
  ASSUME TypeInv, NEW c \in Calls, NEW b \in Branches,
         NEW to \in BranchStates, SetBranch(c, b, to)
  PROVE  branch' \in [Calls -> [Branches -> BranchStates]]
<1>1. [branch[c] EXCEPT ![b] = to] \in [Branches -> BranchStates]
  BY DEF TypeInv, TypeOK
<1>2. branch' = [branch EXCEPT ![c] = [branch[c] EXCEPT ![b] = to]]
  BY DEF SetBranch
<1> QED
  BY <1>1, <1>2 DEF TypeInv, TypeOK

LEMMA LegsCancelled ==
  ASSUME TypeInv, NEW c \in Calls, CancelListed(c) \/ CancelOutgoing(c)
  PROVE  leg' \in [Calls -> [Branches -> Legs]]
<1>1. CASE CancelListed(c)
  <2> DEFINE to == [b \in Branches |->
                      IF branch[c][b] = "listening" THEN Stopped(leg[c][b])
                                                    ELSE leg[c][b]]
  <2>1. leg' = [leg EXCEPT ![c] = to]
    BY <1>1 DEF CancelListed, TypeInv, TypeOK
  <2>2. to \in [Branches -> Legs]
    BY DEF TypeInv, TypeOK, Stopped, Legs
  <2> HIDE DEF to
  <2> QED
    BY <2>1, <2>2 DEF TypeInv, TypeOK
<1>2. CASE CancelOutgoing(c)
  <2> DEFINE to == IF c \in active_tx THEN Stopped(leg[c][Only]) ELSE leg[c][Only]
  <2>1. leg' = [leg EXCEPT ![c] = [leg[c] EXCEPT ![Only] = to]]
    BY <1>2 DEF CancelOutgoing
  <2>2. [leg[c] EXCEPT ![Only] = to] \in [Branches -> Legs]
    BY DEF TypeInv, TypeOK, Stopped, Legs
  <2> HIDE DEF to
  <2> QED
    BY <2>1, <2>2 DEF TypeInv, TypeOK
<1> QED
  BY <1>1, <1>2

LEMMA Returned ==
  ASSUME TypeInv, NEW c \in Calls, NEW established \in BOOLEAN,
         Return(c, established)
  PROVE  /\ pc' \in [Calls -> PCs]
         /\ active_tx' \subseteq Calls
         /\ affinity' \in [Calls -> Targets \cup {None}]
         /\ spoof_cache' \subseteq Calls
         /\ \A d \in Calls : pc[d] = "none" => d = c \/ pc'[d] = "none"
BY DEF TypeInv, TypeOK, Return, Go, PCs

LEMMA Responded ==
  ASSUME TypeInv, NEW c \in Calls, NEW final \in Upstream, Respond(c, final)
  PROVE  upstream' \in [Calls -> Upstream]
BY DEF TypeInv, TypeOK, Respond

\* A call goes to a node, pinned or not.
LEMMA SelectableNodes ==
  ASSUME TypeInv, NEW is_users \in BOOLEAN
  PROVE  Selectable(is_users) \subseteq Targets
BY DEF TypeInv, TypeOK, Selectable

\* Every step leaves the call's own variables typed.
LEMMA OneLegTypes ==
  ASSUME TypeInv, NEW c \in Calls, OneLegStep(c), UNCHANGED dialogVars
  PROVE  TypeInv'
<1>1. CASE SelectTarget(c)
  BY <1>1, SelectableNodes
  DEF TypeInv, TypeOK, SelectTarget, tables, dialogVars, Go, PCs, Upstream
<1>2. CASE SaveTarget(c)
  BY <1>2 DEF TypeInv, TypeOK, SaveTarget, SaveAffinity, dialogVars, Go, PCs
<1>3. CASE StartTrunk(c)
  BY <1>3 DEF TypeInv, TypeOK, StartTrunk, dialogVars, Go, PCs, Upstream
<1>4. CASE SendOnly(c)
  <2>1. CASE SetLeg(c, Only, "ringing") /\ Go(c, "sent")
             /\ UNCHANGED <<upstream, active_tx, affinity, spoof_cache>>
    BY <1>4, <2>1 DEF TypeInv, TypeOK, SendOnly, dialogVars, Go, PCs, SetLeg, Legs
  <2>2. CASE Respond(c, "failed") /\ Return(c, FALSE) /\ UNCHANGED leg
    BY <1>4, <2>2
    DEF TypeInv, TypeOK, SendOnly, dialogVars, Go, PCs, Upstream, Respond, Return
  <2> QED
    BY <1>4, <2>1, <2>2 DEF SendOnly
<1>5. CASE StartWaiting(c)
  BY <1>5 DEF TypeInv, TypeOK, StartWaiting, dialogVars, Go, PCs
<1>6. CASE RelayFailure(c)
  BY <1>6 DEF TypeInv, TypeOK, RelayFailure, dialogVars, Go, PCs, Upstream,
              Respond, Return
<1>7. CASE RetryWithDigest(c)
  BY <1>7 DEF TypeInv, TypeOK, RetryWithDigest, dialogVars, Go, PCs, SetLeg, Legs
<1>8. CASE RecordCall(c)
  BY <1>8 DEF TypeInv, TypeOK, RecordCall, CallState, DigestCSeqOffset,
              dialogVars, Go, PCs
<1>9. CASE RelayAnswer(c)
  BY <1>9 DEF TypeInv, TypeOK, RelayAnswer, dialogVars, Go, PCs, Upstream,
              Respond, Return
<1>10. CASE TransactionEnds(c)
  BY <1>10 DEF TypeInv, TypeOK, TransactionEnds, dialogVars, Go, PCs, Return
<1> QED
  BY <1>1, <1>2, <1>3, <1>4, <1>5, <1>6, <1>7, <1>8, <1>9, <1>10 DEF OneLegStep

LEMMA ForkTypes ==
  ASSUME TypeInv, NEW c \in Calls, ForkStep(c), UNCHANGED dialogVars
  PROVE  TypeInv'
<1>1. CASE StartFork(c)
  BY <1>1 DEF TypeInv, TypeOK, StartFork, dialogVars, Go, PCs, Upstream,
              BranchStates
<1>2. CASE StartCollecting(c)
  BY <1>2 DEF TypeInv, TypeOK, StartCollecting, dialogVars, Go, PCs
<1>3. CASE RelayWinner(c)
  BY <1>3 DEF TypeInv, TypeOK, RelayWinner, dialogVars, Go, PCs, Upstream,
              Respond, Return, CancelListed, Stopped, Legs
<1>4. ASSUME NEW b \in Branches, SendBranch(c, b)
      PROVE  TypeInv'
  <2>1. branch' \in [Calls -> [Branches -> BranchStates]]
    BY <1>4, BranchSet DEF SendBranch, BranchStates
  <2>2. leg' \in [Calls -> [Branches -> Legs]]
    BY <1>4, LegSet DEF SendBranch, Legs
  <2> QED
    BY <1>4, <2>1, <2>2
    DEF TypeInv, TypeOK, SendBranch, Handler, tables, dialogVars
<1>5. ASSUME NEW b \in Branches, ListBranch(c, b)
      PROVE  TypeInv'
  BY <1>5 DEF TypeInv, TypeOK, ListBranch, SetBranch, Handler, tables,
              dialogVars, BranchStates
<1>6. ASSUME NEW b \in Branches, BranchEnds(c, b)
      PROVE  TypeInv'
  BY <1>6 DEF TypeInv, TypeOK, BranchEnds, SetBranch, Handler, tables,
              dialogVars, BranchStates
<1>7. ASSUME NEW b \in Branches, BranchFails(c, b)
      PROVE  TypeInv'
  <2>1. branch' \in [Calls -> [Branches -> BranchStates]]
    BY <1>7, BranchSet DEF BranchFails, BranchStates
  <2>2. CASE Respond(c, "failed") /\ Return(c, FALSE)
    <3>1. upstream' \in [Calls -> Upstream]
      BY <2>2, Responded DEF Upstream
    <3>2. target'[c] # None
      BY <1>7 DEF BranchFails, Result, TypeInv, TypeOK
    <3> QED
      BY <1>7, <2>1, <2>2, <3>1, <3>2, Returned
      DEF BranchFails, TypeInv, TypeOK, dialogVars
  <2>3. CASE UNCHANGED <<pc, upstream, active_tx, affinity, spoof_cache>>
    BY <1>7, <2>1, <2>3 DEF TypeInv, TypeOK, BranchFails, dialogVars
  <2> QED
    BY <1>7, <2>2, <2>3 DEF BranchFails
<1>8. ASSUME NEW b \in Branches, GlobalFailure(c, b)
      PROVE  TypeInv'
  <2>1. branch' \in [Calls -> [Branches -> BranchStates]]
    BY <1>8, BranchSet DEF GlobalFailure, BranchStates
  <2>2. leg' \in [Calls -> [Branches -> Legs]]
    BY <1>8, LegsCancelled DEF GlobalFailure
  <2>3. upstream' \in [Calls -> Upstream]
    BY <1>8, Responded DEF GlobalFailure, Upstream
  <2>4. target'[c] # None
    BY <1>8 DEF GlobalFailure, Result, TypeInv, TypeOK
  <2> QED
    BY <1>8, <2>1, <2>2, <2>3, <2>4, Returned
    DEF GlobalFailure, TypeInv, TypeOK, dialogVars
<1>9. ASSUME NEW b \in Branches, RecordWinner(c, b)
      PROVE  TypeInv'
  <2>1. branch' \in [Calls -> [Branches -> BranchStates]]
    BY <1>9, BranchSet DEF RecordWinner, BranchStates
  <2>2. calls' \in [Calls -> {None} \cup [leg : Branches, offset : 0 .. 1]]
    BY <1>9 DEF RecordWinner, CallState, TypeInv, TypeOK
  <2>3. /\ pc' \in [Calls -> PCs]
        /\ \A d \in Calls : pc'[d] # "none" => target'[d] # None
    BY <1>9 DEF RecordWinner, Result, Go, PCs, TypeInv, TypeOK
  <2> QED
    BY <1>9, <2>1, <2>2, <2>3 DEF TypeInv, TypeOK, RecordWinner, dialogVars
<1> QED
  BY <1>1, <1>2, <1>3, <1>4, <1>5, <1>6, <1>7, <1>8, <1>9 DEF ForkStep

LEMMA DialogTypes ==
  ASSUME TypeInv, NEW c \in Calls, DialogStep(c)
  PROVE  TypeInv'
<1>1. CASE Cancel(c)
  <2>1. leg' \in [Calls -> [Branches -> Legs]]
    BY <1>1, LegsCancelled DEF TypeInv, TypeOK, Cancel
  <2>2. upstream' \in [Calls -> Upstream]
    BY <1>1 DEF TypeInv, TypeOK, Cancel, Respond, Upstream
  <2> QED
    BY <1>1, <2>1, <2>2 DEF TypeInv, TypeOK, Cancel, tables, dialogVars
<1>2. CASE Ack(c)
  <2>1. leg' \in [Calls -> [Branches -> Legs]]
    BY <1>2, LegSet DEF TypeInv, TypeOK, Ack, Legs
  <2>2. acked' \subseteq Calls
    BY <1>2 DEF TypeInv, TypeOK, Ack
  <2> QED
    BY <1>2, <2>1, <2>2 DEF TypeInv, TypeOK, Ack, tables
<1>3. ASSUME NEW side \in {Caller} \cup Branches, Bye(c, side)
      PROVE  TypeInv'
  <2>1. leg' \in [Calls -> [Branches -> Legs]] /\ hung' \subseteq Calls
    BY <1>3, LegSet DEF TypeInv, TypeOK, Bye, Leaves, Legs
  <2>2. byes' \subseteq ByeRecords
    <3>1. calls[c] \in {None} \cup States
      BY DEF TypeInv, TypeOK, States
    <3>2. \/ byes' = byes
          \/ byes' = byes \cup {Relayed(c, side, calls[c], "sent")}
      BY <1>3 DEF Bye
    <3> QED
      BY <3>1, <3>2 DEF TypeInv, ByeRecords, Relayed
  <2> QED
    BY <1>3, <2>1, <2>2 DEF TypeInv, TypeOK, Bye, tables
<1>4. ASSUME NEW bye \in byes, NEW step \in {"affinity", "spoofed"},
             Goes(bye, step)
      PROVE  byes' \subseteq ByeRecords
  BY <1>4 DEF TypeInv, ByeRecords, Goes, Relayed
<1>5. ASSUME NEW bye \in byes, bye.of = c, ByeAnswered(bye)
      PROVE  TypeInv'
  <2>1. /\ leg' \in [Calls -> [Branches -> Legs]]
        /\ hung' \subseteq Calls
    BY <1>5, LegSet DEF TypeInv, TypeOK, ByeAnswered, Leaves, Legs
  <2>2. /\ byes' \subseteq ByeRecords
        /\ calls' \in [Calls -> {None} \cup [leg : Branches, offset : 0 .. 1]]
    BY <1>4, <1>5 DEF TypeInv, TypeOK, ByeAnswered, ForgetCall
  <2> QED
    BY <1>5, <2>1, <2>2 DEF TypeInv, TypeOK, ByeAnswered
<1>6. ASSUME NEW bye \in byes, ForgetAffinity(bye)
      PROVE  TypeInv'
  BY <1>4, <1>6 DEF TypeInv, TypeOK, ForgetAffinity, inviteVars
<1>7. ASSUME NEW bye \in byes, ForgetSpoofed(bye)
      PROVE  TypeInv'
  BY <1>7 DEF TypeInv, TypeOK, ForgetSpoofed, inviteVars
<1> QED
  BY <1>1, <1>2, <1>3, <1>5, <1>6, <1>7 DEF DialogStep

LEMMA NextTypes ==
  ASSUME TypeInv, [Next]_vars
  PROVE  TypeInv'
<1>1. CASE UNCHANGED vars
  BY <1>1 DEF TypeInv, TypeOK, vars, inviteVars, tables, dialogVars
<1>2. ASSUME NEW c \in Calls, NEW b \in Branches, LegSettles(c, b)
      PROVE  TypeInv'
  BY <1>2 DEF TypeInv, TypeOK, LegSettles, SetLeg, Legs, tables, dialogVars
<1> QED
  BY <1>1, <1>2, OneLegTypes, ForkTypes, DialogTypes DEF Next, HandlerStep

LEMMA Typed == Spec => []TypeInv
<1>1. Init => TypeInv
  BY DEF Init, ProxyInit, DialogInit, TypeInv, TypeOK, PCs, Upstream,
         BranchStates, Legs
<1>2. TypeInv /\ [Next]_vars => TypeInv'
  BY NextTypes
<1> QED
  BY <1>1, <1>2, PTL DEF Spec

(* proxy.go: the states of handlers, branches, legs and tables, and a node *)
(* for every call that is made.                                            *)
THEOREM TypeCorrect == Spec => []TypeOK
<1>1. TypeInv => TypeOK
  BY DEF TypeInv
<1> QED
  BY <1>1, Typed, PTL
-----------------------------------------------------------------------------
(* The tables.  An entry outlives the call's handler only with the call's  *)
(* state or with a clean-up that will come to it; the state can be removed,*)
(* by a BYE that crosses the answer, before the handler has relayed what it*)
(* recorded, and then the clean-up of the rest is under way.               *)

Unpinning(c) == CleaningUp(c, {"affinity"})
Ending(c) == CleaningUp(c, {"affinity", "spoofed"})

TablesOK(c) ==
  /\ c \in active_tx => Running(c)
  /\ affinity[c] # None => Running(c) \/ calls[c] # None \/ Unpinning(c)
  /\ c \in spoof_cache => Running(c) \/ calls[c] # None \/ Ending(c)
  /\ pc[c] = "recorded" =>
       /\ affinity[c] # None => calls[c] # None \/ Unpinning(c)
       /\ c \in spoof_cache => calls[c] # None \/ Ending(c)
  /\ kind[c] = "to_trunk" => affinity[c] = None
  /\ pc[c] = "none" => calls[c] = None /\ affinity[c] = None

TablesInv == \A c \in Calls : TablesOK(c)

\* What of a call's variables the tables' invariant reads.
TableVars(c) == <<kind[c], pc[c], calls[c], affinity[c], c \in active_tx,
                  c \in spoof_cache>>

\* A clean-up under way is not forgotten.
CleanUpsStay(c) ==
  \A bye \in byes : bye.of = c /\ bye.step # "sent" => bye \in byes'

LEMMA StillCleaning ==
  ASSUME NEW c, CleanUpsStay(c)
  PROVE  (Unpinning(c) => Unpinning(c)') /\ (Ending(c) => Ending(c)')
BY DEF CleanUpsStay, Unpinning, Ending, CleaningUp

LEMMA OtherTables ==
  ASSUME TypeInv, TablesInv, NEW c \in Calls,
         \A d \in Calls \ {c} : UNCHANGED TableVars(d) /\ CleanUpsStay(d),
         TablesOK(c)'
  PROVE  TablesInv'
BY StillCleaning DEF TablesInv, TablesOK, Running, TableVars

LEMMA SameTables ==
  ASSUME TablesInv, UNCHANGED <<kind, pc, tables>>,
         \A c \in Calls : CleanUpsStay(c)
  PROVE  TablesInv'
BY StillCleaning DEF TablesInv, TablesOK, Running, tables

\* A call that returns with nothing to keep, or with what its state keeps.
LEMMA ReturnedTables ==
  ASSUME TypeInv, TablesInv, NEW c \in Calls, NEW established \in BOOLEAN,
         Return(c, established), established => pc[c] = "recorded",
         UNCHANGED <<kind, calls, spoofed, byes>>
  PROVE  TablesInv'
<1>1. \A d \in Calls : CleanUpsStay(d)
  BY DEF CleanUpsStay
<1>2. \A d \in Calls \ {c} : UNCHANGED TableVars(d)
  BY DEF Return, Go, TypeInv, TypeOK, TableVars
<1>3. TablesOK(c)'
  BY <1>1, StillCleaning
  DEF Return, Go, TypeInv, TypeOK, TablesInv, TablesOK, Running
<1> QED
  BY <1>1, <1>2, <1>3, OtherTables

LEMMA OneLegTables ==
  ASSUME TypeInv, TablesInv, NEW c \in Calls, OneLegStep(c), UNCHANGED byes
  PROVE  TablesInv'
<1> USE StillCleaning
<1>0. \A d \in Calls : CleanUpsStay(d)
  BY DEF CleanUpsStay
<1>1. CASE SelectTarget(c)
  BY <1>0, <1>1 DEF SelectTarget, Go, tables, TypeInv, TypeOK, TablesInv, TablesOK, Running
<1>2. CASE SaveTarget(c)
  BY <1>0, <1>2 DEF SaveTarget, SaveAffinity, Go, TypeInv, TypeOK, TablesInv,
              TablesOK, Running
<1>3. CASE StartTrunk(c)
  BY <1>0, <1>3 DEF StartTrunk, Go, TypeInv, TypeOK, TablesInv, TablesOK, Running
<1>4. CASE SendOnly(c)
  <2>1. CASE /\ Go(c, "sent")
             /\ UNCHANGED <<active_tx, affinity, spoof_cache>>
    BY <1>0, <1>4, <2>1 DEF SendOnly, Go, TypeInv, TypeOK, TablesInv, TablesOK, Running
  <2>2. CASE Return(c, FALSE)
    BY <1>0, <1>4, <2>2, ReturnedTables DEF SendOnly
  <2> QED
    BY <1>0, <1>4, <2>1, <2>2 DEF SendOnly
<1>5. CASE StartWaiting(c)
  BY <1>0, <1>5 DEF StartWaiting, Go, TypeInv, TypeOK, TablesInv, TablesOK, Running
<1>6. CASE RelayFailure(c)
  BY <1>0, <1>6, ReturnedTables DEF RelayFailure
<1>7. CASE RetryWithDigest(c)
  BY <1>0, <1>7 DEF RetryWithDigest, Go, TypeInv, TypeOK, TablesInv, TablesOK, Running
<1>8. CASE RecordCall(c)
  <2>1. calls'[c] # None
    <3>1. DigestCSeqOffset(c) \in 0 .. 1
      BY DEF DigestCSeqOffset
    <3>2. CallState(Only, DigestCSeqOffset(c)) \in [leg : Branches, offset : 0 .. 1]
      BY <3>1 DEF CallState
    <3> QED
      BY <1>0, <1>8, <3>2 DEF RecordCall, TypeInv, TypeOK
  <2> QED
    BY <1>0, <1>8, <2>1 DEF RecordCall, Go, TypeInv, TypeOK, TablesInv, TablesOK,
                      Running
<1>9. CASE RelayAnswer(c)
  BY <1>0, <1>9, ReturnedTables DEF RelayAnswer
<1>10. CASE TransactionEnds(c)
  BY <1>10, ReturnedTables DEF TransactionEnds
<1> QED
  BY <1>1, <1>2, <1>3, <1>4, <1>5, <1>6, <1>7, <1>8, <1>9, <1>10 DEF OneLegStep

LEMMA ForkTables ==
  ASSUME TypeInv, TablesInv, NEW c \in Calls, ForkStep(c), UNCHANGED byes
  PROVE  TablesInv'
<1> USE StillCleaning
<1>0. \A d \in Calls : CleanUpsStay(d)
  BY DEF CleanUpsStay
<1>1. CASE StartFork(c)
  BY <1>0, <1>1 DEF StartFork, Go, TypeInv, TypeOK, TablesInv, TablesOK, Running
<1>2. CASE StartCollecting(c)
  BY <1>0, <1>2 DEF StartCollecting, Go, TypeInv, TypeOK, TablesInv, TablesOK, Running
<1>3. CASE RelayWinner(c)
  BY <1>0, <1>3, ReturnedTables DEF RelayWinner
<1>4. ASSUME NEW b \in Branches,
             SendBranch(c, b) \/ ListBranch(c, b) \/ BranchEnds(c, b)
      PROVE  TablesInv'
  BY <1>0, <1>4, SameTables DEF SendBranch, ListBranch, BranchEnds, Handler
<1>5. ASSUME NEW b \in Branches, BranchFails(c, b)
      PROVE  TablesInv'
  <2>1. CASE Return(c, FALSE)
    BY <1>0, <1>5, <2>1, ReturnedTables DEF BranchFails
  <2>2. CASE UNCHANGED <<pc, active_tx, affinity, spoof_cache>>
    BY <1>0, <1>5, <2>2, SameTables DEF BranchFails, tables
  <2> QED
    BY <1>0, <1>5, <2>1, <2>2 DEF BranchFails
<1>6. ASSUME NEW b \in Branches, GlobalFailure(c, b)
      PROVE  TablesInv'
  BY <1>0, <1>6, ReturnedTables DEF GlobalFailure
<1>7. ASSUME NEW b \in Branches, RecordWinner(c, b)
      PROVE  TablesInv'
  <2>1. calls'[c] # None
    BY <1>0, <1>7 DEF RecordWinner, CallState, TypeInv, TypeOK
  <2> QED
    BY <1>0, <1>7, <2>1 DEF RecordWinner, Result, Go, TypeInv, TypeOK, TablesInv,
                      TablesOK, Running
<1> QED
  BY <1>0, <1>1, <1>2, <1>3, <1>4, <1>5, <1>6, <1>7 DEF ForkStep

LEMMA DialogTables ==
  ASSUME TypeInv, TablesInv, NEW c \in Calls, DialogStep(c)
  PROVE  TablesInv'
<1>1. CASE Cancel(c) \/ Ack(c)
  BY <1>1, SameTables DEF Cancel, Ack, dialogVars, CleanUpsStay
<1>2. ASSUME NEW side \in {Caller} \cup Branches, Bye(c, side)
      PROVE  TablesInv'
  BY <1>2, SameTables DEF Bye, CleanUpsStay
<1>3. ASSUME NEW bye \in byes, NEW step, bye.of = c, Goes(bye, step)
      PROVE  /\ \A d \in Calls \ {c} : CleanUpsStay(d)
             /\ bye.step = "sent" => CleanUpsStay(c)
             /\ step = "affinity" => Unpinning(c)' /\ Ending(c)'
             /\ step = "spoofed" => Ending(c)'
  <2> DEFINE next == Relayed(bye.of, bye.from, bye.state, step)
  <2>1. next.of = c /\ next.step = step
    BY <1>3 DEF Relayed
  <2>2. byes' = (byes \ {bye}) \cup {next}
    BY <1>3 DEF Goes
  <2> HIDE DEF next
  <2>3. \A d \in Calls \ {c} : CleanUpsStay(d)
    BY <1>3, <2>2 DEF CleanUpsStay
  <2>4. bye.step = "sent" => CleanUpsStay(c)
    BY <2>2 DEF CleanUpsStay
  <2>5. next \in byes'
    BY <2>2
  <2> QED
    BY <2>1, <2>3, <2>4, <2>5 DEF Unpinning, Ending, CleaningUp
<1>4. ASSUME NEW bye \in byes, bye.of = c, ByeAnswered(bye)
      PROVE  TablesInv'
  <2>1. CASE UNCHANGED calls /\ byes' = byes \ {bye}
    BY <1>4, <2>1, SameTables DEF ByeAnswered, tables, CleanUpsStay
  <2>2. CASE ForgetCall(bye)
    <3>1. \A d \in Calls \ {c} : UNCHANGED TableVars(d)
      BY <1>4, <2>2 DEF ByeAnswered, ForgetCall, TypeInv, TypeOK, TableVars
    <3>2. /\ \A d \in Calls \ {c} : CleanUpsStay(d)
          /\ Unpinning(c)' /\ Ending(c)'
      BY <1>3, <1>4, <2>2 DEF ForgetCall
    <3>3. TablesOK(c)'
      BY <1>4, <2>2, <3>2
      DEF ByeAnswered, ForgetCall, TypeInv, TypeOK, TablesInv, TablesOK, Running
    <3> QED
      BY <3>1, <3>2, <3>3, OtherTables
  <2> QED
    BY <1>4, <2>1, <2>2 DEF ByeAnswered
<1>5. ASSUME NEW bye \in byes, bye.of = c, ForgetAffinity(bye)
      PROVE  TablesInv'
  <2>1. \A d \in Calls \ {c} : UNCHANGED TableVars(d)
    BY <1>5 DEF ForgetAffinity, inviteVars, TypeInv, TypeOK, TableVars
  <2>2. (\A d \in Calls \ {c} : CleanUpsStay(d)) /\ Ending(c)'
    BY <1>3, <1>5 DEF ForgetAffinity
  <2>3. TablesOK(c)'
    BY <1>5, <2>2
    DEF ForgetAffinity, inviteVars, TypeInv, TypeOK, TablesInv, TablesOK, Running
  <2> QED
    BY <2>1, <2>2, <2>3, OtherTables
<1>6. ASSUME NEW bye \in byes, bye.of = c, ForgetSpoofed(bye)
      PROVE  TablesInv'
  <2>1. \A d \in Calls \ {c} : UNCHANGED TableVars(d) /\ CleanUpsStay(d)
    BY <1>6 DEF ForgetSpoofed, inviteVars, TypeInv, TypeOK, TableVars,
                CleanUpsStay
  <2>2. Unpinning(c) => Unpinning(c)'
    BY <1>6 DEF ForgetSpoofed, Unpinning, CleaningUp
  <2>3. TablesOK(c)'
    BY <1>6, <2>2
    DEF ForgetSpoofed, inviteVars, TypeInv, TypeOK, TablesInv, TablesOK, Running
  <2> QED
    BY <2>1, <2>3, OtherTables
<1> QED
  BY <1>1, <1>2, <1>4, <1>5, <1>6 DEF DialogStep

LEMMA TablesAlways == Spec => []TablesInv
<1>1. Init => TablesInv
  BY DEF Init, ProxyInit, TablesInv, TablesOK
<1>2. TypeInv /\ TablesInv /\ [Next]_vars => TablesInv'
  <2>1. ASSUME TablesInv, UNCHANGED vars
        PROVE  TablesInv'
    BY <2>1, SameTables DEF vars, inviteVars, dialogVars, CleanUpsStay
  <2>2. ASSUME TablesInv, NEW c \in Calls, NEW b \in Branches, LegSettles(c, b)
        PROVE  TablesInv'
    BY <2>2, SameTables DEF LegSettles, dialogVars, CleanUpsStay
  <2> QED
    BY <2>1, <2>2, OneLegTables, ForkTables, DialogTables
    DEF Next, HandlerStep, dialogVars
<1> QED
  BY <1>1, <1>2, Typed, PTL DEF Spec

(* proxy.go, deferred clean-ups and cleanupCall: an entry to cancel, a pin *)
(* or a spoofed number has a handler, a call state or a clean-up under way *)
(* that will remove it, in whatever order the call failed, was answered    *)
(* and ended.                                                              *)
THEOREM NothingLeft == Spec => []NoLeftovers
<1>1. TablesInv => NoLeftovers
  BY DEF TablesInv, TablesOK, Unpinning, Ending, NoLeftovers
<1> QED
  BY <1>1, TablesAlways, PTL
-----------------------------------------------------------------------------
(* Forks.  While its handler runs a leg that rings is at a goroutine that  *)
(* is about to list its branch or has listed it, and what ends the handler *)
(* leaves no listed branch ringing: its own answer or failure, and CANCEL  *)
(* for the others.  A call with one leg rings only while it is waited for. *)

OneLegOK(c) ==
  /\ \A b \in Branches : branch[c][b] = "none"
  /\ \A b \in Branches :
       leg[c][b] = "ringing" => b = Only /\ pc[c] \in {"sent", "waiting", "digest"}

ForkOK(c) ==
  /\ pc[c] \in {"sent", "waiting", "recorded", "done"}
  /\ \A b \in Branches :
       leg[c][b] = "ringing" =>
         IF pc[c] = "done"
         THEN branch[c][b] = "unlisted" \/ <<c, b>> \in late
         ELSE branch[c][b] \in {"unlisted", "listening"}

NotCalled(c) ==
  \A b \in Branches : branch[c][b] = "none" /\ leg[c][b] = "none"

RingingOK(c) ==
  /\ pc[c] = "none" => NotCalled(c)
  /\ pc[c] # "none" /\ kind[c] # "to_user" => OneLegOK(c)
  /\ pc[c] # "none" /\ kind[c] = "to_user" => ForkOK(c)

RingingInv == \A c \in Calls : RingingOK(c)

\* A step of one call, or one that starts nobody ringing.
LEMMA OtherRinging ==
  ASSUME TypeInv, RingingInv, NEW c \in Calls,
         \A d \in Calls \ {c} :
           /\ UNCHANGED <<kind[d], pc[d], branch[d], leg[d]>>
           /\ \A b \in Branches : <<d, b>> \in late' <=> <<d, b>> \in late,
         RingingOK(c)'
  PROVE  RingingInv'
BY DEF RingingInv, RingingOK, OneLegOK, ForkOK, NotCalled

LEMMA FewerRing ==
  ASSUME TypeInv, RingingInv, UNCHANGED <<kind, pc, branch, late>>,
         \A c \in Calls, b \in Branches :
           /\ leg[c][b] = "none" => leg'[c][b] = "none"
           /\ leg'[c][b] = "ringing" => leg[c][b] = "ringing"
  PROVE  RingingInv'
BY DEF RingingInv, RingingOK, OneLegOK, ForkOK, NotCalled

\* What the helpers do to one leg or one branch.
LEMMA LegAt ==
  ASSUME TypeInv, NEW c \in Calls, NEW b, NEW to, SetLeg(c, b, to)
  PROVE  \A d \in Calls, k \in Branches :
           leg'[d][k] = IF d = c /\ k = b THEN to ELSE leg[d][k]
BY DEF TypeInv, TypeOK, SetLeg

LEMMA BranchAt ==
  ASSUME TypeInv, NEW c \in Calls, NEW b, NEW to, SetBranch(c, b, to)
  PROVE  \A d \in Calls, k \in Branches :
           branch'[d][k] = IF d = c /\ k = b THEN to ELSE branch[d][k]
BY DEF TypeInv, TypeOK, SetBranch

LEMMA ListedStopped ==
  ASSUME TypeInv, NEW c \in Calls, CancelListed(c)
  PROVE  \A d \in Calls, k \in Branches :
           leg'[d][k] = IF d = c /\ branch[c][k] = "listening"
                        THEN Stopped(leg[d][k]) ELSE leg[d][k]
BY DEF TypeInv, TypeOK, CancelListed

LEMMA PcAt ==
  ASSUME TypeInv, NEW c \in Calls, NEW to, Go(c, to)
  PROVE  \A d \in Calls : pc'[d] = IF d = c THEN to ELSE pc[d]
BY DEF TypeInv, TypeOK, Go

LEMMA OneLegRinging ==
  ASSUME TypeInv, RingingInv, NEW c \in Calls, OneLegStep(c)
  PROVE  RingingInv'
<1>1. /\ pc[c] # "none" /\ kind[c] # "to_user" => OneLegOK(c)
      /\ pc[c] = "none" => NotCalled(c)
  BY DEF RingingInv, RingingOK
<1>2. CASE SelectTarget(c)
  BY <1>1, <1>2, PcAt DEF SelectTarget, TypeInv, TypeOK, RingingInv, RingingOK,
                          OneLegOK, NotCalled, ForkOK
<1>3. CASE SaveTarget(c)
  BY <1>1, <1>3, PcAt DEF SaveTarget, TypeInv, TypeOK, RingingInv, RingingOK,
                          OneLegOK, NotCalled, ForkOK
<1>4. CASE StartTrunk(c)
  BY <1>1, <1>4, PcAt DEF StartTrunk, TypeInv, TypeOK, RingingInv, RingingOK,
                          OneLegOK, NotCalled, ForkOK
<1>5. CASE SendOnly(c)
  <2>1. CASE SetLeg(c, Only, "ringing") /\ Go(c, "sent")
    BY <1>1, <1>5, <2>1, PcAt, LegAt
    DEF SendOnly, RingingInv, RingingOK, OneLegOK, NotCalled, ForkOK
  <2>2. CASE Return(c, FALSE) /\ UNCHANGED leg
    BY <1>1, <1>5, <2>2, PcAt
    DEF SendOnly, Return, RingingInv, RingingOK, OneLegOK, NotCalled, ForkOK
  <2> QED
    BY <1>5, <2>1, <2>2 DEF SendOnly
<1>6. CASE StartWaiting(c)
  BY <1>1, <1>6, PcAt DEF StartWaiting, RingingInv, RingingOK, OneLegOK,
                          NotCalled, ForkOK
<1>7. CASE RelayFailure(c) \/ TransactionEnds(c) \/ RelayAnswer(c)
  <2>1. \A b \in Branches : leg[c][b] # "ringing"
    BY <1>1, <1>7 DEF RelayFailure, TransactionEnds, RelayAnswer, OneLegOK
  <2> QED
    BY <1>1, <1>7, <2>1, PcAt
    DEF RelayFailure, TransactionEnds, RelayAnswer, Return, RingingInv, RingingOK, OneLegOK,
        NotCalled, ForkOK
<1>8. CASE RetryWithDigest(c)
  BY <1>1, <1>8, PcAt, LegAt DEF RetryWithDigest, RingingInv, RingingOK,
                                 OneLegOK, NotCalled, ForkOK
<1>9. CASE RecordCall(c)
  BY <1>1, <1>9, PcAt DEF RecordCall, RingingInv, RingingOK, OneLegOK,
                          NotCalled, ForkOK
<1> QED
  BY <1>2, <1>3, <1>4, <1>5, <1>6, <1>7, <1>8, <1>9 DEF OneLegStep

LEMMA ForkRinging ==
  ASSUME TypeInv, RingingInv, NEW c \in Calls, ForkStep(c)
  PROVE  RingingInv'
<1>1. /\ pc[c] # "none" /\ kind[c] = "to_user" => ForkOK(c)
      /\ pc[c] # "none" /\ kind[c] # "to_user" => OneLegOK(c)
      /\ pc[c] = "none" => NotCalled(c)
  BY DEF RingingInv, RingingOK
<1>2. CASE StartFork(c)
  BY <1>1, <1>2, PcAt DEF StartFork, TypeInv, TypeOK, RingingInv, RingingOK,
                          OneLegOK, NotCalled, ForkOK
<1>3. CASE StartCollecting(c)
  BY <1>1, <1>3, PcAt DEF StartCollecting, RingingInv, RingingOK, OneLegOK,
                          NotCalled, ForkOK
<1>4. CASE RelayWinner(c)
  <2>1. ForkOK(c) /\ pc[c] = "recorded"
    BY <1>1, <1>4 DEF RelayWinner
  <2>2. \A b \in Branches : leg'[c][b] = "ringing" => branch[c][b] = "unlisted"
    BY <1>4, <2>1, ListedStopped DEF RelayWinner, ForkOK, Stopped
  <2>3. ForkOK(c)'
    BY <1>4, <2>2, PcAt DEF RelayWinner, Return, ForkOK
  <2>4. \A d \in Calls \ {c} : UNCHANGED <<kind[d], pc[d], branch[d], leg[d]>>
    BY <1>4, PcAt DEF RelayWinner, Return, CancelListed, TypeInv, TypeOK
  <2>5. RingingOK(c)'
    BY <1>4, <2>3, PcAt DEF RelayWinner, Return, RingingOK
  <2> QED
    BY <1>4, <2>4, <2>5, OtherRinging DEF RelayWinner
<1>5. ASSUME NEW b \in Branches, SendBranch(c, b)
      PROVE  RingingInv'
  <2>1. pc[c] # "none" /\ kind[c] = "to_user" /\ ForkOK(c)
    BY <1>1, <1>5 DEF SendBranch, NotCalled, OneLegOK
  <2>2. ForkOK(c)'
    BY <1>5, <2>1, BranchAt, LegAt DEF SendBranch, Handler, ForkOK
  <2>3. \A d \in Calls \ {c} : UNCHANGED <<kind[d], pc[d], branch[d], leg[d]>>
    BY <1>5 DEF SendBranch, Handler, SetBranch, SetLeg, TypeInv, TypeOK
  <2>4. RingingOK(c)'
    BY <1>5, <2>1, <2>2 DEF SendBranch, Handler, RingingOK
  <2> QED
    BY <1>5, <2>3, <2>4, OtherRinging DEF SendBranch
<1>6. ASSUME NEW b \in Branches, ListBranch(c, b) \/ BranchEnds(c, b)
      PROVE  RingingInv'
  <2>1. pc[c] # "none" /\ kind[c] = "to_user" /\ ForkOK(c)
    BY <1>1, <1>6 DEF ListBranch, BranchEnds, NotCalled, OneLegOK
  <2>2. ForkOK(c)'
    BY <1>6, <2>1, BranchAt DEF ListBranch, BranchEnds, Handler, ForkOK
  <2>3. \A d \in Calls \ {c} :
          /\ UNCHANGED <<kind[d], pc[d], branch[d], leg[d]>>
          /\ \A k \in Branches : <<d, k>> \in late' <=> <<d, k>> \in late
    BY <1>6 DEF ListBranch, BranchEnds, Handler, SetBranch, TypeInv, TypeOK
  <2>4. RingingOK(c)'
    BY <1>6, <2>1, <2>2 DEF ListBranch, BranchEnds, Handler, RingingOK
  <2> QED
    BY <2>3, <2>4, OtherRinging
<1>7. ASSUME NEW b \in Branches, BranchFails(c, b)
      PROVE  RingingInv'
  <2>1. /\ pc[c] = "waiting" /\ kind[c] = "to_user" /\ ForkOK(c)
        /\ leg[c][b] # "ringing"
    BY <1>1, <1>7 DEF BranchFails, Result
  <2>2. CASE Pending(c) = {b} /\ Return(c, FALSE)
    <3>1. \A k \in Branches : leg[c][k] # "ringing"
      BY <2>1, <2>2 DEF ForkOK, Pending
    <3> QED
      BY <1>7, <2>1, <2>2, <3>1, BranchAt, PcAt
      DEF BranchFails, Return, RingingInv, RingingOK, ForkOK, OneLegOK, NotCalled
  <2>3. CASE UNCHANGED pc
    BY <1>7, <2>1, <2>3, BranchAt
    DEF BranchFails, RingingInv, RingingOK, ForkOK, OneLegOK, NotCalled
  <2> QED
    BY <1>7, <2>2, <2>3 DEF BranchFails
<1>8. ASSUME NEW b \in Branches, GlobalFailure(c, b)
      PROVE  RingingInv'
  <2>1. /\ pc[c] = "waiting" /\ kind[c] = "to_user" /\ ForkOK(c)
        /\ leg[c][b] = "declined"
    BY <1>1, <1>8 DEF GlobalFailure, Result
  <2>2. \A k \in Branches :
          leg'[c][k] = "ringing" => k # b /\ branch[c][k] = "unlisted"
    BY <1>8, <2>1, ListedStopped DEF GlobalFailure, ForkOK, Stopped
  <2>3. ForkOK(c)'
    BY <1>8, <2>2, PcAt, BranchAt DEF GlobalFailure, Return, ForkOK
  <2>4. \A d \in Calls \ {c} : UNCHANGED <<kind[d], pc[d], branch[d], leg[d]>>
    BY <1>8, PcAt DEF GlobalFailure, Return, CancelListed, SetBranch, TypeInv,
                      TypeOK
  <2>5. RingingOK(c)'
    BY <1>8, <2>1, <2>3, PcAt DEF GlobalFailure, Return, RingingOK
  <2> QED
    BY <1>8, <2>4, <2>5, OtherRinging DEF GlobalFailure
<1>9. ASSUME NEW b \in Branches, RecordWinner(c, b)
      PROVE  RingingInv'
  <2>1. /\ pc[c] = "waiting" /\ kind[c] = "to_user" /\ ForkOK(c)
        /\ leg[c][b] = "answered"
    BY <1>1, <1>9 DEF RecordWinner, Result
  <2> QED
    BY <1>9, <2>1, BranchAt, PcAt
    DEF RecordWinner, RingingInv, RingingOK, ForkOK, OneLegOK, NotCalled
<1> QED
  BY <1>2, <1>3, <1>4, <1>5, <1>6, <1>7, <1>8, <1>9 DEF ForkStep

LEMMA DialogRinging ==
  ASSUME TypeInv, RingingInv, NEW c \in Calls, DialogStep(c)
  PROVE  RingingInv'
<1>1. CASE Cancel(c)
  <2>1. \A d \in Calls, b \in Branches :
          leg'[d][b] = leg[d][b] \/ leg'[d][b] = Stopped(leg[d][b])
    <3>1. CASE CancelOutgoing(c)
      BY <3>1 DEF CancelOutgoing, TypeInv, TypeOK
    <3>2. CASE CancelListed(c)
      BY <3>2, ListedStopped
    <3> QED
      BY <1>1, <3>1, <3>2 DEF Cancel
  <2> QED
    BY <1>1, <2>1, FewerRing DEF Cancel, Stopped
<1>2. CASE Ack(c)
  <2>1. \A d \in Calls, b \in Branches :
          \/ leg'[d][b] = leg[d][b]
          \/ leg[d][b] = "answered" /\ leg'[d][b] = "confirmed"
    BY <1>2, LegAt DEF Ack
  <2> QED
    BY <1>2, <2>1, FewerRing DEF Ack
<1>3. ASSUME NEW side, Leaves(c, side), InDialogAt(c, side),
             UNCHANGED <<kind, pc, branch, late>>
      PROVE  RingingInv'
  <2>1. \A d \in Calls, b \in Branches :
          \/ leg'[d][b] = leg[d][b]
          \/ leg[d][b] \in {"answered", "confirmed"} /\ leg'[d][b] = "ended"
    BY <1>3, LegAt DEF Leaves, InDialogAt
  <2> QED
    BY <1>3, <2>1, FewerRing
<1>4. ASSUME NEW side \in {Caller} \cup Branches, Bye(c, side)
      PROVE  RingingInv'
  BY <1>3, <1>4 DEF Bye
<1>5. ASSUME NEW bye \in byes, bye.of = c, ByeAnswered(bye)
      PROVE  RingingInv'
  <2>1. CASE PeerHasDialog(bye) /\ Leaves(c, Peer(bye))
    BY <1>3, <1>5, <2>1 DEF ByeAnswered, PeerHasDialog
  <2>2. CASE UNCHANGED leg
    BY <1>5, <2>2, FewerRing DEF ByeAnswered
  <2> QED
    BY <1>5, <2>1, <2>2 DEF ByeAnswered
<1>6. ASSUME NEW bye \in byes, ForgetAffinity(bye) \/ ForgetSpoofed(bye)
      PROVE  RingingInv'
  BY <1>6, FewerRing DEF ForgetAffinity, ForgetSpoofed, inviteVars
<1> QED
  BY <1>1, <1>2, <1>4, <1>5, <1>6 DEF DialogStep

LEMMA RingingAlways == Spec => []RingingInv
<1>1. Init => RingingInv
  BY DEF Init, ProxyInit, RingingInv, RingingOK, NotCalled
<1>2. TypeInv /\ RingingInv /\ [Next]_vars => RingingInv'
  <2>1. ASSUME RingingInv, UNCHANGED vars
        PROVE  RingingInv'
    BY <2>1 DEF vars, inviteVars, RingingInv, RingingOK, OneLegOK, ForkOK,
                NotCalled
  <2>2. ASSUME TypeInv, RingingInv, NEW c \in Calls, NEW b \in Branches,
               LegSettles(c, b)
        PROVE  RingingInv'
    <3>1. PICK to : to # "ringing" /\ SetLeg(c, b, to)
      BY <2>2 DEF LegSettles
    <3> QED
      BY <2>2, <3>1, LegAt, FewerRing DEF LegSettles
  <2> QED
    BY <2>1, <2>2, OneLegRinging, ForkRinging, DialogRinging
    DEF Next, HandlerStep
<1> QED
  BY <1>1, <1>2, Typed, PTL DEF Spec

(* proxy.go:614: a fork whose handler has returned, because a contact took *)
(* the call or refused it for all, or the last one failed, leaves nobody   *)
(* ringing but branches whose INVITE was on its way to be listed.          *)
THEOREM LosersStop == Spec => []LosersReleased
<1>1. RingingInv => LosersReleased
  BY DEF RingingInv, RingingOK, ForkOK, OneLegOK, LosersReleased
<1> QED
  BY <1>1, RingingAlways, PTL
-----------------------------------------------------------------------------
(* Legs.  The INVITE at a callee only goes forward: nothing that is late,  *)
(* neither a CANCEL nor a BYE nor a goroutine, takes back an answer or an  *)
(* end.                                                                    *)

Advances(from, to) ==
  \/ to = from
  \/ from = "none" /\ to \in {"ringing", "failed"}
  \/ from = "ringing" /\ to \notin {"none", "confirmed", "ended"}
  \/ from = "challenged" /\ to = "ringing"
  \/ from = "answered" /\ to \in {"confirmed", "ended"}
  \/ from = "confirmed" /\ to = "ended"

\* No INVITE has been sent yet.
LegsOK(c) ==
  /\ pc[c] \in {"none", "selected", "saved"} =>
       \A b \in Branches : leg[c][b] = "none"
  /\ \A b \in Branches : branch[c][b] = "sending" => leg[c][b] = "none"

LegsInv == \A c \in Calls : LegsOK(c)

LegsAdvance ==
  \A c \in Calls, b \in Branches : Advances(leg[c][b], leg'[c][b])

LEMMA LegAdvances ==
  ASSUME TypeInv, NEW c \in Calls, NEW b \in Branches, NEW to, SetLeg(c, b, to),
         Advances(leg[c][b], to)
  PROVE  LegsAdvance
BY LegAt DEF LegsAdvance, Advances

LEMMA SameLegs ==
  ASSUME UNCHANGED leg
  PROVE  LegsAdvance
BY DEF LegsAdvance, Advances

LEMMA CancelAdvances ==
  ASSUME TypeInv, NEW c \in Calls, CancelListed(c) \/ CancelOutgoing(c)
  PROVE  LegsAdvance
<1>1. \A d \in Calls, b \in Branches :
        leg'[d][b] = leg[d][b] \/ leg'[d][b] = Stopped(leg[d][b])
  <2>1. CASE CancelOutgoing(c)
    BY <2>1 DEF CancelOutgoing, TypeInv, TypeOK
  <2>2. CASE CancelListed(c)
    BY <2>2, ListedStopped
  <2> QED
    BY <2>1, <2>2
<1> QED
  BY <1>1 DEF LegsAdvance, Advances, Stopped

LEMMA LeavingAdvances ==
  ASSUME TypeInv, NEW c \in Calls, NEW side \in {Caller} \cup Branches,
         Leaves(c, side), InDialogAt(c, side)
  PROVE  LegsAdvance
<1>1. CASE side = Caller
  BY <1>1, SameLegs DEF Leaves
<1>2. CASE side # Caller
  <2>1. SetLeg(c, side, "ended") /\ side \in Branches
    BY <1>2 DEF Leaves
  <2>2. leg[c][side] \in {"answered", "confirmed"}
    BY <1>2 DEF InDialogAt
  <2> QED
    BY <2>1, <2>2, LegAdvances DEF Advances
<1> QED
  BY <1>1, <1>2

LEMMA OneLegAdvances ==
  ASSUME TypeInv, LegsInv, NEW c \in Calls, OneLegStep(c)
  PROVE  LegsAdvance
<1>1. CASE SendOnly(c)
  <2>1. leg[c][Only] = "none"
    BY <1>1 DEF SendOnly, LegsInv, LegsOK
  <2> QED
    BY <1>1, <2>1, LegAdvances, SameLegs DEF SendOnly, Advances
<1>2. CASE RetryWithDigest(c)
  BY <1>2, LegAdvances DEF RetryWithDigest, Advances
<1>3. CASE UNCHANGED leg
  BY <1>3, SameLegs
<1> QED
  BY <1>1, <1>2, <1>3 DEF OneLegStep, SelectTarget, SaveTarget, StartTrunk,
     StartWaiting, RelayFailure, TransactionEnds, RecordCall, RelayAnswer

LEMMA ForkAdvances ==
  ASSUME TypeInv, LegsInv, NEW c \in Calls, ForkStep(c)
  PROVE  LegsAdvance
<1>1. CASE RelayWinner(c)
  BY <1>1, CancelAdvances DEF RelayWinner
<1>2. ASSUME NEW b \in Branches, GlobalFailure(c, b)
      PROVE  LegsAdvance
  BY <1>2, CancelAdvances DEF GlobalFailure
<1>3. ASSUME NEW b \in Branches, SendBranch(c, b)
      PROVE  LegsAdvance
  <2>1. leg[c][b] = "none"
    BY <1>3 DEF SendBranch, LegsInv, LegsOK
  <2> QED
    BY <1>3, <2>1, LegAdvances DEF SendBranch, Advances
<1>4. CASE UNCHANGED leg
  BY <1>4, SameLegs
<1> QED
  BY <1>1, <1>2, <1>3, <1>4 DEF ForkStep, StartFork, StartCollecting,
     ListBranch, BranchEnds, BranchFails, RecordWinner

LEMMA DialogAdvances ==
  ASSUME TypeInv, NEW c \in Calls, DialogStep(c)
  PROVE  LegsAdvance
<1>1. CASE Cancel(c)
  BY <1>1, CancelAdvances, SameLegs DEF Cancel
<1>2. CASE Ack(c)
  <2>1. CASE UNCHANGED leg
    BY <2>1, SameLegs
  <2>2. CASE /\ calls[c] # None
             /\ leg[c][calls[c].leg] = "answered"
             /\ SetLeg(c, calls[c].leg, "confirmed")
    <3>1. calls[c].leg \in Branches
      BY <2>2 DEF TypeInv, TypeOK
    <3> QED
      BY <2>2, <3>1, LegAdvances DEF Advances
  <2> QED
    BY <1>2, <2>1, <2>2 DEF Ack
<1>3. ASSUME NEW side \in {Caller} \cup Branches, Bye(c, side)
      PROVE  LegsAdvance
  BY <1>3, LeavingAdvances DEF Bye
<1>4. ASSUME NEW bye \in byes, bye.of = c, ByeAnswered(bye)
      PROVE  LegsAdvance
  <2>1. CASE UNCHANGED leg
    BY <2>1, SameLegs
  <2>2. CASE PeerHasDialog(bye) /\ Leaves(c, Peer(bye))
    <3>1. InDialogAt(c, Peer(bye))
      BY <1>4, <2>2 DEF PeerHasDialog
    <3>2. CASE Peer(bye) = Caller
      BY <2>2, <3>2, SameLegs DEF Leaves
    <3>3. CASE Peer(bye) # Caller
      <4> DEFINE side == Peer(bye)
      <4>1. SetLeg(c, side, "ended") /\ leg[c][side] \in {"answered", "confirmed"}
        BY <2>2, <3>1, <3>3 DEF Leaves, InDialogAt
      <4> HIDE DEF side
      <4>2. \A d \in Calls, k \in Branches :
              leg'[d][k] = IF d = c /\ k = side THEN "ended" ELSE leg[d][k]
        BY <4>1, LegAt
      <4> QED
        BY <4>1, <4>2 DEF LegsAdvance, Advances
    <3> QED
      BY <3>2, <3>3
  <2> QED
    BY <1>4, <2>1, <2>2 DEF ByeAnswered
<1>5. ASSUME NEW bye \in byes, ForgetAffinity(bye) \/ ForgetSpoofed(bye)
      PROVE  LegsAdvance
  BY <1>5, SameLegs DEF ForgetAffinity, ForgetSpoofed, inviteVars
<1> QED
  BY <1>1, <1>2, <1>3, <1>4, <1>5 DEF DialogStep

LEMMA SettlingAdvances ==
  ASSUME TypeInv, NEW c \in Calls, NEW b \in Branches, LegSettles(c, b)
  PROVE  LegsAdvance
<1>1. PICK to : to \notin {"none", "confirmed", "ended"} /\ SetLeg(c, b, to)
  BY DEF LegSettles
<1>2. leg[c][b] = "ringing"
  BY DEF LegSettles
<1> QED
  BY <1>1, <1>2, LegAdvances DEF Advances

LEMMA NextAdvances ==
  ASSUME TypeInv, LegsInv, [Next]_vars
  PROVE  LegsAdvance
<1>1. CASE UNCHANGED vars
  BY <1>1, SameLegs DEF vars, inviteVars
<1> QED
  BY <1>1, OneLegAdvances, ForkAdvances, DialogAdvances, SettlingAdvances
  DEF Next, HandlerStep

(* A step is of one call, whose Call-ID the entries of all tables carry.   *)

SameOf(d) == UNCHANGED <<kind[d], pc[d], upstream[d], target[d], branch[d],
                         leg[d], calls[d], affinity[d]>>
SameIn(d) ==
  /\ d \in of_user' <=> d \in of_user
  /\ d \in digested' <=> d \in digested
  /\ d \in spoofed' <=> d \in spoofed
  /\ d \in spoof_cache' <=> d \in spoof_cache
  /\ d \in acked' <=> d \in acked
  /\ d \in hung' <=> d \in hung
  /\ \A bye \in byes' : bye.of = d => bye \in byes

OthersSame(c) == \A d \in Calls \ {c} : SameOf(d) /\ SameIn(d)

LEMMA OneLegIsOwn ==
  ASSUME TypeInv, NEW c \in Calls, OneLegStep(c), UNCHANGED dialogVars
  PROVE  OthersSame(c)
<1>1. CASE SelectTarget(c)
  BY <1>1 DEF SelectTarget, tables, dialogVars, Go, TypeInv, TypeOK, OthersSame,
              SameOf, SameIn
<1>2. CASE SaveTarget(c)
  BY <1>2 DEF SaveTarget, SaveAffinity, dialogVars, Go, TypeInv, TypeOK,
              OthersSame, SameOf, SameIn
<1>3. CASE StartTrunk(c)
  BY <1>3 DEF StartTrunk, dialogVars, Go, TypeInv, TypeOK, OthersSame, SameOf,
              SameIn
<1>4. CASE SendOnly(c)
  BY <1>4 DEF SendOnly, SetLeg, Respond, Return, dialogVars, Go, TypeInv,
              TypeOK, OthersSame, SameOf, SameIn
<1>5. CASE StartWaiting(c)
  BY <1>5 DEF StartWaiting, dialogVars, Go, TypeInv, TypeOK, OthersSame,
              SameOf, SameIn
<1>6. CASE RelayFailure(c)
  BY <1>6 DEF RelayFailure, Respond, Return, dialogVars, Go, TypeInv, TypeOK,
              OthersSame, SameOf, SameIn
<1>7. CASE RetryWithDigest(c)
  BY <1>7 DEF RetryWithDigest, SetLeg, dialogVars, Go, TypeInv, TypeOK,
              OthersSame, SameOf, SameIn
<1>8. CASE RecordCall(c)
  BY <1>8 DEF RecordCall, dialogVars, Go, TypeInv, TypeOK, OthersSame, SameOf,
              SameIn
<1>9. CASE RelayAnswer(c)
  BY <1>9 DEF RelayAnswer, Respond, Return, dialogVars, Go, TypeInv, TypeOK,
              OthersSame, SameOf, SameIn
<1>10. CASE TransactionEnds(c)
  BY <1>10 DEF TransactionEnds, Return, dialogVars, Go, TypeInv, TypeOK,
               OthersSame, SameOf, SameIn
<1> QED
  BY <1>1, <1>2, <1>3, <1>4, <1>5, <1>6, <1>7, <1>8, <1>9, <1>10 DEF OneLegStep

LEMMA ForkIsOwn ==
  ASSUME TypeInv, NEW c \in Calls, ForkStep(c), UNCHANGED dialogVars
  PROVE  OthersSame(c)
<1>1. CASE StartFork(c)
  BY <1>1 DEF StartFork, dialogVars, Go, TypeInv, TypeOK, OthersSame, SameOf,
              SameIn
<1>2. CASE StartCollecting(c)
  BY <1>2 DEF StartCollecting, dialogVars, Go, TypeInv, TypeOK, OthersSame,
              SameOf, SameIn
<1>3. CASE RelayWinner(c)
  BY <1>3 DEF RelayWinner, CancelListed, Respond, Return, dialogVars, Go,
              TypeInv, TypeOK, OthersSame, SameOf, SameIn
<1>4. ASSUME NEW b \in Branches,
             SendBranch(c, b) \/ ListBranch(c, b) \/ BranchEnds(c, b)
      PROVE  OthersSame(c)
  BY <1>4 DEF SendBranch, ListBranch, BranchEnds, SetBranch, SetLeg, Handler,
              tables, dialogVars, TypeInv, TypeOK, OthersSame, SameOf, SameIn
<1>5. ASSUME NEW b \in Branches, BranchFails(c, b)
      PROVE  OthersSame(c)
  BY <1>5 DEF BranchFails, SetBranch, Respond, Return, dialogVars, Go, TypeInv,
              TypeOK, OthersSame, SameOf, SameIn
<1>6. ASSUME NEW b \in Branches, GlobalFailure(c, b)
      PROVE  OthersSame(c)
  BY <1>6 DEF GlobalFailure, SetBranch, CancelListed, Respond, Return,
              dialogVars, Go, TypeInv, TypeOK, OthersSame, SameOf, SameIn
<1>7. ASSUME NEW b \in Branches, RecordWinner(c, b)
      PROVE  OthersSame(c)
  BY <1>7 DEF RecordWinner, SetBranch, dialogVars, Go, TypeInv, TypeOK,
              OthersSame, SameOf, SameIn
<1> QED
  BY <1>1, <1>2, <1>3, <1>4, <1>5, <1>6, <1>7 DEF ForkStep

LEMMA DialogIsOwn ==
  ASSUME TypeInv, NEW c \in Calls, DialogStep(c)
  PROVE  OthersSame(c)
<1>1. CASE Cancel(c)
  BY <1>1 DEF Cancel, CancelOutgoing, CancelListed, Respond, tables, dialogVars,
              TypeInv, TypeOK, OthersSame, SameOf, SameIn
<1>2. CASE Ack(c)
  BY <1>2 DEF Ack, SetLeg, tables, TypeInv, TypeOK, OthersSame, SameOf, SameIn
<1>3. ASSUME NEW side \in {Caller} \cup Branches, Bye(c, side)
      PROVE  OthersSame(c)
  BY <1>3 DEF Bye, Relayed, Leaves, SetLeg, tables, TypeInv, TypeOK, OthersSame,
              SameOf, SameIn
<1>4. ASSUME NEW bye \in byes, bye.of = c, ByeAnswered(bye)
      PROVE  OthersSame(c)
  <2>1. \A d \in Calls \ {c} : SameIn(d) /\ UNCHANGED <<calls[d], affinity[d]>>
    BY <1>4 DEF ByeAnswered, Leaves, ForgetCall, Goes, Relayed, TypeInv, TypeOK,
                SameIn
  <2>2. \A d \in Calls \ {c} : UNCHANGED leg[d]
    BY <1>4 DEF ByeAnswered, Leaves, SetLeg, TypeInv, TypeOK
  <2> QED
    BY <1>4, <2>1, <2>2 DEF ByeAnswered, OthersSame, SameOf
<1>5. ASSUME NEW bye \in byes, bye.of = c,
             ForgetAffinity(bye) \/ ForgetSpoofed(bye)
      PROVE  OthersSame(c)
  BY <1>5 DEF ForgetAffinity, ForgetSpoofed, Goes, Relayed, inviteVars, TypeInv,
              TypeOK, OthersSame, SameOf, SameIn
<1> QED
  BY <1>1, <1>2, <1>3, <1>4, <1>5 DEF DialogStep

LEMMA SettlingIsOwn ==
  ASSUME TypeInv, NEW c \in Calls, NEW b \in Branches, LegSettles(c, b)
  PROVE  OthersSame(c)
BY DEF LegSettles, SetLeg, tables, dialogVars, TypeInv, TypeOK, OthersSame,
       SameOf, SameIn

\* A goroutine of a fork is there before its INVITE, and so is a handler.
LEMMA LegsKept ==
  ASSUME TypeInv, RingingInv, LegsInv, NEW c \in Calls, OthersSame(c),
         LegsOK(c)'
  PROVE  LegsInv'
BY DEF LegsInv, LegsOK, OthersSame, SameOf

LEMMA OneLegLegs ==
  ASSUME TypeInv, RingingInv, LegsInv, NEW c \in Calls, OneLegStep(c)
  PROVE  LegsOK(c)'
<1>1. /\ LegsOK(c)
      /\ kind[c] # "to_user" => \A b \in Branches : branch[c][b] = "none"
      /\ pc[c] = "none" => \A b \in Branches : branch[c][b] = "none"
  BY DEF LegsInv, RingingInv, RingingOK, OneLegOK, NotCalled
<1>2. \A b \in Branches : branch'[c][b] = "none"
  BY <1>1 DEF OneLegStep, SelectTarget, SaveTarget, StartTrunk, SendOnly,
     StartWaiting, RelayFailure, TransactionEnds, RetryWithDigest, RecordCall,
     RelayAnswer
<1>3. CASE SelectTarget(c) \/ SaveTarget(c) \/ StartTrunk(c)
  BY <1>1, <1>2, <1>3 DEF SelectTarget, SaveTarget, StartTrunk, LegsOK
<1>4. ASSUME pc'[c] \notin {"none", "selected", "saved"}
      PROVE  LegsOK(c)'
  BY <1>2, <1>4 DEF LegsOK
<1> QED
  BY <1>3, <1>4, PcAt DEF OneLegStep, SendOnly, StartWaiting, RelayFailure,
     TransactionEnds, RetryWithDigest, RecordCall, RelayAnswer, Return

LEMMA ForkLegs ==
  ASSUME TypeInv, RingingInv, LegsInv, NEW c \in Calls, ForkStep(c)
  PROVE  LegsOK(c)'
<1>1. /\ LegsOK(c)
      /\ pc[c] = "none" => NotCalled(c)
      /\ kind[c] = "to_user" => pc[c] \notin {"selected", "saved"}
  BY DEF LegsInv, RingingInv, RingingOK, ForkOK
<1>2. \A b \in Branches : branch[c][b] # "none" =>
        pc[c] \notin {"none", "selected", "saved"}
  BY <1>1 DEF RingingInv, RingingOK, OneLegOK, NotCalled
<1>3. CASE StartFork(c)
  BY <1>1, <1>3, PcAt DEF StartFork, LegsOK
<1>4. CASE StartCollecting(c)
  BY <1>1, <1>4, PcAt DEF StartCollecting, LegsOK
<1>5. CASE RelayWinner(c)
  BY <1>1, <1>5, PcAt, ListedStopped DEF RelayWinner, Return, LegsOK
<1>6. ASSUME NEW b \in Branches, SendBranch(c, b)
      PROVE  LegsOK(c)'
  BY <1>1, <1>2, <1>6, BranchAt, LegAt DEF SendBranch, Handler, LegsOK
<1>7. ASSUME NEW b \in Branches, ListBranch(c, b) \/ BranchEnds(c, b)
      PROVE  LegsOK(c)'
  BY <1>1, <1>7, BranchAt DEF ListBranch, BranchEnds, Handler, LegsOK
<1>8. ASSUME NEW b \in Branches, BranchFails(c, b)
      PROVE  LegsOK(c)'
  <2>1. pc'[c] \in {"waiting", "done"}
    BY <1>8, PcAt DEF BranchFails, Result, Return
  <2> QED
    BY <1>1, <1>8, <2>1, BranchAt DEF BranchFails, LegsOK
<1>9. ASSUME NEW b \in Branches, GlobalFailure(c, b)
      PROVE  LegsOK(c)'
  BY <1>1, <1>9, BranchAt, PcAt, ListedStopped
  DEF GlobalFailure, Return, LegsOK
<1>10. ASSUME NEW b \in Branches, RecordWinner(c, b)
       PROVE  LegsOK(c)'
  BY <1>1, <1>10, BranchAt, PcAt DEF RecordWinner, LegsOK
<1> QED
  BY <1>3, <1>4, <1>5, <1>6, <1>7, <1>8, <1>9, <1>10 DEF ForkStep

\* Neither CANCEL, ACK nor BYE sends an INVITE, and no callee answers before
\* it has got one.
LEMMA NoNewLeg ==
  ASSUME LegsInv, NEW c \in Calls, UNCHANGED <<pc, branch>>,
         \A b \in Branches : leg[c][b] = "none" => leg'[c][b] = "none"
  PROVE  LegsOK(c)'
BY DEF LegsInv, LegsOK

LEMMA DialogLegs ==
  ASSUME TypeInv, LegsInv, NEW c \in Calls, DialogStep(c)
  PROVE  LegsOK(c)'
<1>1. CASE Cancel(c)
  <2>1. \A b \in Branches :
          leg'[c][b] = leg[c][b] \/ leg'[c][b] = Stopped(leg[c][b])
    <3>1. CASE CancelOutgoing(c)
      BY <3>1 DEF CancelOutgoing, TypeInv, TypeOK
    <3>2. CASE CancelListed(c)
      BY <3>2, ListedStopped
    <3> QED
      BY <1>1, <3>1, <3>2 DEF Cancel
  <2> QED
    BY <1>1, <2>1, NoNewLeg DEF Cancel, Stopped
<1>2. CASE Ack(c)
  BY <1>2, LegAt, NoNewLeg DEF Ack
<1>3. ASSUME NEW side, Leaves(c, side), InDialogAt(c, side),
             UNCHANGED <<pc, branch>>
      PROVE  LegsOK(c)'
  BY <1>3, LegAt, NoNewLeg DEF Leaves, InDialogAt
<1>4. ASSUME NEW side \in {Caller} \cup Branches, Bye(c, side)
      PROVE  LegsOK(c)'
  BY <1>3, <1>4 DEF Bye
<1>5. ASSUME NEW bye \in byes, bye.of = c, ByeAnswered(bye)
      PROVE  LegsOK(c)'
  <2>1. CASE PeerHasDialog(bye) /\ Leaves(c, Peer(bye))
    BY <1>3, <1>5, <2>1 DEF ByeAnswered, PeerHasDialog
  <2>2. CASE UNCHANGED leg
    BY <1>5, <2>2, NoNewLeg DEF ByeAnswered
  <2> QED
    BY <1>5, <2>1, <2>2 DEF ByeAnswered
<1>6. ASSUME NEW bye \in byes, ForgetAffinity(bye) \/ ForgetSpoofed(bye)
      PROVE  LegsOK(c)'
  BY <1>6, NoNewLeg DEF ForgetAffinity, ForgetSpoofed, inviteVars
<1> QED
  BY <1>1, <1>2, <1>4, <1>5, <1>6 DEF DialogStep

LEMMA SettlingLegs ==
  ASSUME TypeInv, LegsInv, NEW c \in Calls, NEW b \in Branches, LegSettles(c, b)
  PROVE  LegsOK(c)'
<1>1. PICK to : SetLeg(c, b, to)
  BY DEF LegSettles
<1> QED
  BY <1>1, LegAt, NoNewLeg DEF LegSettles

LEMMA LegsAlways == Spec => [](RingingInv /\ LegsInv)
<1>1. Init => LegsInv
  BY DEF Init, ProxyInit, LegsInv, LegsOK
<1>2. TypeInv /\ RingingInv /\ LegsInv /\ [Next]_vars => LegsInv'
  <2>1. ASSUME LegsInv, UNCHANGED vars
        PROVE  LegsInv'
    BY <2>1 DEF vars, inviteVars, LegsInv, LegsOK
  <2> QED
    BY <2>1, LegsKept, OneLegLegs, OneLegIsOwn, ForkLegs, ForkIsOwn, DialogLegs,
       DialogIsOwn, SettlingLegs, SettlingIsOwn DEF Next, HandlerStep
<1> QED
  BY <1>1, <1>2, Typed, RingingAlways, PTL DEF Spec
-----------------------------------------------------------------------------
(* Established calls.  What a call needs is put into the tables before its *)
(* INVITE is sent or its answer relayed, and taken out only when somebody  *)
(* has left: the handler's deferred clean-up spares it, and a BYE that is  *)
(* relayed was sent by a side that has left.                               *)

LegHungUp(c) == \E b \in Branches : leg[c][b] = "ended"
Left(c) == c \in hung \/ LegHungUp(c)

\* The call's entries are in the tables; the dialog is recorded.
Made(c) ==
  \/ pc[c] \in {"saved", "sent", "waiting", "digest", "recorded"}
  \/ upstream[c] = "answered"
Established(c) == pc[c] = "recorded" \/ upstream[c] = "answered"

\* A leg that was answered, whatever came then; and that the callee knows that
\* the caller knows, unless two have answered.
HasAnswered(c, b) == leg[c][b] \in {"answered", "confirmed", "ended"}
SomeAnswered(c) == \E b \in Branches : HasAnswered(c, b)
Reached(c) ==
  \E b \in Branches :
    /\ HasAnswered(c, b)
    /\ leg[c][b] # "answered" \/ \E k \in Branches \ {b} : HasAnswered(c, k)

\* Where the handler is and what it has done.
HandlerOK(c) ==
  /\ upstream[c] = "answered" => pc[c] = "done"
  /\ pc[c] = "none" =>
       upstream[c] = "none" /\ c \notin of_user \cup spoofed \cup digested
  /\ c \in of_user => kind[c] # "to_trunk"
  /\ c \in spoofed \cup digested => kind[c] = "to_trunk"
  /\ Established(c) => SomeAnswered(c)

\* What the tables have of the call.
EntriesOK(c) ==
  /\ pc[c] \notin {"recorded", "done"} => calls[c] = None
  /\ calls[c] # None =>
       HasAnswered(c, calls[c].leg) /\ calls[c].offset = InviteCSeq(c)
  /\ affinity[c] # None => c \in of_user /\ affinity[c] = target[c]
  /\ Made(c) /\ ~ Left(c) => /\ c \in of_user => affinity[c] = target[c]
                             /\ c \in spoofed => c \in spoof_cache
  /\ Established(c) /\ ~ Left(c) => calls[c] # None

\* Who has sent a request of the dialog.
RequestsOK(c) ==
  /\ \A bye \in byes : bye.of = c => Left(c)
  /\ c \in acked => upstream[c] = "answered" /\ Reached(c)

KnownOK(c) == HandlerOK(c) /\ EntriesOK(c) /\ RequestsOK(c)
KnownInv == \A c \in Calls : KnownOK(c)

\* Nobody comes back, and an answer stays one.
LegsForward(c) ==
  /\ Left(c) => Left(c)'
  /\ SomeAnswered(c) => SomeAnswered(c)'
  /\ Reached(c) => Reached(c)'
  /\ \A b \in Branches : HasAnswered(c, b) => HasAnswered(c, b)'

LEMMA Forward ==
  ASSUME LegsAdvance, NEW c \in Calls, c \in hung => c \in hung'
  PROVE  LegsForward(c)
<1>1. \A b \in Branches : Advances(leg[c][b], leg'[c][b])
  BY DEF LegsAdvance
<1>2. \A b \in Branches :
        /\ HasAnswered(c, b) => HasAnswered(c, b)'
        /\ HasAnswered(c, b) /\ leg[c][b] # "answered" => leg'[c][b] # "answered"
        /\ leg[c][b] = "ended" => leg'[c][b] = "ended"
  BY <1>1 DEF Advances, HasAnswered
<1>3. Left(c) => Left(c)'
  BY <1>2 DEF Left, LegHungUp
<1>4. Reached(c) => Reached(c)'
  <2> SUFFICES ASSUME Reached(c)
               PROVE  Reached(c)'
    OBVIOUS
  <2>1. PICK b \in Branches :
          /\ HasAnswered(c, b)
          /\ leg[c][b] # "answered" \/ \E k \in Branches \ {b} : HasAnswered(c, k)
    BY DEF Reached
  <2>2. HasAnswered(c, b)'
    BY <1>2, <2>1
  <2>3. leg'[c][b] # "answered" \/ \E k \in Branches \ {b} : HasAnswered(c, k)'
    BY <1>2, <2>1
  <2> QED
    BY <2>2, <2>3 DEF Reached
<1> QED
  BY <1>2, <1>3, <1>4 DEF LegsForward, SomeAnswered

LEMMA KnownByCall ==
  ASSUME TypeInv, KnownInv, NEW c \in Calls, OthersSame(c), KnownOK(c)'
  PROVE  KnownInv'
<1>1. ASSUME NEW d \in Calls \ {c}
      PROVE  KnownOK(d)'
  <2>1. SameOf(d) /\ SameIn(d) /\ KnownOK(d)
    BY DEF OthersSame, KnownInv
  <2>2. /\ Left(d)' <=> Left(d)
        /\ Made(d)' <=> Made(d)
        /\ Established(d)' <=> Established(d)
        /\ InviteCSeq(d)' = InviteCSeq(d)
        /\ SomeAnswered(d)' <=> SomeAnswered(d)
        /\ Reached(d)' <=> Reached(d)
        /\ \A b : HasAnswered(d, b)' <=> HasAnswered(d, b)
    BY <2>1 DEF SameOf, SameIn, Left, LegHungUp, Made, Established, InviteCSeq,
                SomeAnswered, Reached, HasAnswered
  <2>3. HandlerOK(d)'
    BY <2>1, <2>2 DEF KnownOK, HandlerOK, SameOf, SameIn
  <2>4. EntriesOK(d)'
    <3>1. (calls[d] # None)' => HasAnswered(d, calls[d].leg)'
      BY <2>1 DEF KnownOK, EntriesOK, SameOf, HasAnswered
    <3> QED
      BY <2>1, <2>2, <3>1 DEF KnownOK, EntriesOK, SameOf, SameIn
  <2>5. RequestsOK(d)'
    BY <2>1, <2>2 DEF KnownOK, RequestsOK, SameOf, SameIn
  <2> QED
    BY <2>3, <2>4, <2>5 DEF KnownOK
<1> QED
  BY <1>1 DEF KnownInv

\* A step that leaves the tables and requests alone and makes or establishes
\* nothing.
LEMMA KnownGoesOn ==
  ASSUME TypeInv, KnownInv, NEW c \in Calls, LegsForward(c),
         UNCHANGED <<kind, target, of_user, digested, calls, affinity, spoofed,
                     spoof_cache, acked, byes>>,
         \/ UNCHANGED upstream[c]
         \/ upstream'[c] # "answered" /\ c \notin acked /\ pc[c] # "none",
         \/ UNCHANGED pc[c]
         \/ /\ pc[c] \in {"saved", "sent", "waiting"}
            /\ pc'[c] \in {"saved", "sent", "waiting"}
            /\ upstream'[c] # "answered"
  PROVE  KnownOK(c)'
<1>1. KnownOK(c)
  BY DEF KnownInv
<1>2. (Made(c)' => Made(c)) /\ (Established(c)' => Established(c))
  BY DEF Made, Established
<1>3. HandlerOK(c)'
  BY <1>1, <1>2 DEF KnownOK, HandlerOK, LegsForward, Established
<1>4. EntriesOK(c)'
  <2>1. (calls[c] # None)' =>
          HasAnswered(c, calls[c].leg)' /\ (calls[c].offset = InviteCSeq(c))'
    <3>1. calls[c] # None => calls[c].leg \in Branches
      BY DEF TypeInv, TypeOK
    <3> QED
      BY <1>1, <3>1 DEF KnownOK, EntriesOK, LegsForward, HasAnswered, InviteCSeq
  <2> QED
    BY <1>1, <1>2, <2>1 DEF KnownOK, EntriesOK, LegsForward
<1>5. RequestsOK(c)'
  BY <1>1 DEF KnownOK, RequestsOK, LegsForward
<1> QED
  BY <1>3, <1>4, <1>5 DEF KnownOK

\* The handler records an answer, or returns without or with one.
LEMMA KnownRecorded ==
  ASSUME TypeInv, KnownInv, NEW c \in Calls, LegsForward(c),
         NEW b \in Branches, HasAnswered(c, b),
         calls' = [calls EXCEPT ![c] = CallState(b, InviteCSeq(c))],
         pc[c] \in {"waiting", "digest"}, Go(c, "recorded"),
         UNCHANGED <<kind, upstream, target, of_user, digested, affinity,
                     spoofed, spoof_cache, acked, byes>>
  PROVE  KnownOK(c)'
<1>1. KnownOK(c)
  BY DEF KnownInv
<1>2. pc'[c] = "recorded" /\ upstream[c] # "answered" /\ Made(c)
  BY <1>1, PcAt DEF KnownOK, HandlerOK, Made
<1>3. HandlerOK(c)'
  BY <1>1, <1>2 DEF KnownOK, HandlerOK, LegsForward, Established, SomeAnswered
<1>4. EntriesOK(c)'
  <2>1. CallState(b, InviteCSeq(c)) \in [leg : Branches, offset : 0 .. 1]
    BY DEF CallState, InviteCSeq
  <2>2. calls'[c] = CallState(b, InviteCSeq(c)) /\ (calls[c] # None)'
    BY <2>1 DEF TypeInv, TypeOK
  <2>3. (calls[c].leg)' = b /\ (calls[c].offset = InviteCSeq(c))'
    BY <2>2 DEF CallState, InviteCSeq
  <2>4. HasAnswered(c, calls[c].leg)'
    BY <2>3 DEF LegsForward, HasAnswered
  <2> QED
    BY <1>1, <1>2, <2>2, <2>3, <2>4 DEF KnownOK, EntriesOK, LegsForward
<1>5. RequestsOK(c)'
  BY <1>1 DEF KnownOK, RequestsOK, LegsForward
<1> QED
  BY <1>3, <1>4, <1>5 DEF KnownOK

LEMMA KnownFailed ==
  ASSUME TypeInv, KnownInv, NEW c \in Calls, LegsForward(c),
         pc[c] \notin {"none", "recorded", "done"},
         Respond(c, "failed") \/ UNCHANGED upstream, Return(c, FALSE),
         UNCHANGED <<kind, target, of_user, digested, calls, spoofed, acked,
                     byes>>
  PROVE  KnownOK(c)'
<1>1. KnownOK(c)
  BY DEF KnownInv
<1>2. pc'[c] = "done" /\ upstream[c] # "answered" /\ upstream'[c] # "answered"
  BY <1>1, PcAt DEF KnownOK, HandlerOK, Return, Respond, TypeInv, TypeOK
<1>3. ~ Made(c)' /\ ~ Established(c)' /\ c \notin acked
  BY <1>1, <1>2 DEF Made, Established, KnownOK, RequestsOK
<1>4. affinity'[c] \in {None, affinity[c]}
  BY DEF Return, TypeInv, TypeOK
<1>5. HandlerOK(c)'
  BY <1>1, <1>2, <1>3 DEF KnownOK, HandlerOK
<1>6. EntriesOK(c)'
  BY <1>1, <1>3, <1>4 DEF KnownOK, EntriesOK
<1>7. RequestsOK(c)'
  BY <1>1, <1>3 DEF KnownOK, RequestsOK, LegsForward
<1> QED
  BY <1>5, <1>6, <1>7 DEF KnownOK

LEMMA KnownAnswered ==
  ASSUME TypeInv, KnownInv, NEW c \in Calls, LegsForward(c),
         pc[c] = "recorded", Respond(c, "answered"), Return(c, TRUE),
         UNCHANGED <<kind, target, of_user, digested, calls, spoofed, acked,
                     byes>>
  PROVE  KnownOK(c)'
<1>1. KnownOK(c)
  BY DEF KnownInv
<1>2. pc'[c] = "done" /\ Made(c) /\ Established(c) /\ c \notin acked
  BY <1>1, PcAt DEF Return, Made, Established, KnownOK, HandlerOK, RequestsOK
<1>3. affinity' = affinity /\ spoof_cache' = spoof_cache
  BY DEF Return, TypeInv, TypeOK
<1>4. HandlerOK(c)'
  BY <1>1, <1>2 DEF KnownOK, HandlerOK, LegsForward
<1>5. EntriesOK(c)'
  <2>1. (calls[c] # None)' =>
          HasAnswered(c, calls[c].leg)' /\ (calls[c].offset = InviteCSeq(c))'
    <3>1. calls[c] # None => calls[c].leg \in Branches
      BY DEF TypeInv, TypeOK
    <3> QED
      BY <1>1, <3>1 DEF KnownOK, EntriesOK, LegsForward, HasAnswered, InviteCSeq
  <2> QED
    BY <1>1, <1>2, <1>3, <2>1 DEF KnownOK, EntriesOK, LegsForward
<1>6. RequestsOK(c)'
  BY <1>1, <1>2 DEF KnownOK, RequestsOK, LegsForward
<1> QED
  BY <1>4, <1>5, <1>6 DEF KnownOK

\* A call that has not been made has no entries.
LEMMA KnownMade ==
  ASSUME KnownInv, NEW c \in Calls, LegsForward(c), pc[c] = "none",
         UNCHANGED <<calls, acked, byes, digested>>,
         pc'[c] # "none", pc'[c] \notin {"recorded", "done"},
         upstream'[c] = "calling",
         c \in of_user' => kind'[c] # "to_trunk",
         c \in spoofed' => kind'[c] = "to_trunk" /\ c \in spoof_cache',
         \/ UNCHANGED affinity /\ pc'[c] = "selected"
         \/ UNCHANGED affinity /\ c \notin of_user'
         \/ c \in of_user' /\ affinity'[c] = target'[c]
  PROVE  KnownOK(c)'
<1>1. KnownOK(c) /\ c \notin of_user /\ affinity[c] = None
  BY DEF KnownInv, KnownOK, HandlerOK, EntriesOK
<1>2. calls[c] = None /\ c \notin acked
  BY <1>1 DEF KnownOK, HandlerOK, EntriesOK, RequestsOK
<1>3. HandlerOK(c)'
  BY <1>1 DEF KnownOK, HandlerOK, Established
<1>4. EntriesOK(c)'
  BY <1>1, <1>2 DEF EntriesOK, Made, Established
<1>5. RequestsOK(c)'
  BY <1>1, <1>2 DEF KnownOK, RequestsOK, LegsForward
<1> QED
  BY <1>3, <1>4, <1>5 DEF KnownOK

LEMMA OneLegKnown ==
  ASSUME TypeInv, KnownInv, NEW c \in Calls, LegsForward(c), OneLegStep(c),
         UNCHANGED dialogVars
  PROVE  KnownOK(c)'
<1>1. KnownOK(c)
  BY DEF KnownInv
<1>2. CASE SelectTarget(c)
  <2>1. /\ pc'[c] = "selected" /\ kind'[c] = "to_fs"
        /\ upstream'[c] = "calling"
    BY <1>2, PcAt DEF SelectTarget, TypeInv, TypeOK
  <2>2. c \notin spoofed'
    BY <1>1, <1>2 DEF SelectTarget, tables, KnownOK, HandlerOK
  <2> QED
    BY <1>2, <2>1, <2>2, KnownMade DEF SelectTarget, tables, dialogVars
<1>3. CASE SaveTarget(c)
  <2>1. /\ pc'[c] = "saved" /\ upstream[c] # "answered"
        /\ c \in of_user => affinity'[c] = target[c]
        /\ c \notin of_user => affinity'[c] = affinity[c]
        /\ c \notin spoofed
    BY <1>1, <1>3, PcAt
    DEF SaveTarget, SaveAffinity, KnownOK, HandlerOK, TypeInv, TypeOK
  <2>2. HandlerOK(c)'
    BY <1>1, <1>3, <2>1 DEF SaveTarget, KnownOK, HandlerOK, Established
  <2>3. EntriesOK(c)'
    BY <1>1, <1>3, <2>1 DEF SaveTarget, KnownOK, EntriesOK, Established
  <2>4. RequestsOK(c)'
    BY <1>1, <1>3 DEF SaveTarget, dialogVars, KnownOK, RequestsOK, LegsForward
  <2> QED
    BY <2>2, <2>3, <2>4 DEF KnownOK
<1>4. CASE StartTrunk(c)
  <2>1. /\ pc'[c] = "saved" /\ kind'[c] = "to_trunk"
        /\ upstream'[c] = "calling"
        /\ c \in spoofed' => c \in spoof_cache'
        /\ c \notin of_user'
    BY <1>1, <1>4, PcAt DEF StartTrunk, KnownOK, HandlerOK, TypeInv, TypeOK
  <2> QED
    BY <1>4, <2>1, KnownMade DEF StartTrunk, dialogVars
<1>5. CASE SendOnly(c)
  <2>1. CASE Go(c, "sent") /\ UNCHANGED <<upstream, affinity, spoof_cache>>
    <3>1. pc'[c] = "sent" /\ upstream[c] # "answered"
      BY <1>1, <1>5, <2>1, PcAt DEF SendOnly, KnownOK, HandlerOK
    <3> QED
      BY <1>5, <2>1, <3>1, KnownGoesOn DEF SendOnly, dialogVars
  <2>2. CASE Respond(c, "failed") /\ Return(c, FALSE)
    BY <1>5, <2>2, KnownFailed DEF SendOnly, dialogVars
  <2> QED
    BY <1>5, <2>1, <2>2 DEF SendOnly
<1>6. CASE StartWaiting(c)
  <2>1. pc'[c] = "waiting" /\ upstream[c] # "answered"
    BY <1>1, <1>6, PcAt DEF StartWaiting, KnownOK, HandlerOK
  <2> QED
    BY <1>6, <2>1, KnownGoesOn DEF StartWaiting, dialogVars
<1>7. CASE RelayFailure(c)
  BY <1>7, KnownFailed DEF RelayFailure, dialogVars
<1>8. CASE RetryWithDigest(c)
  <2>1. pc'[c] = "digest" /\ upstream[c] # "answered" /\ Made(c)
        /\ calls[c] = None
    BY <1>1, <1>8, PcAt DEF RetryWithDigest, KnownOK, HandlerOK, EntriesOK, Made
  <2>2. HandlerOK(c)'
    BY <1>1, <1>8, <2>1 DEF RetryWithDigest, KnownOK, HandlerOK, Established
  <2>3. EntriesOK(c)'
    BY <1>1, <1>8, <2>1
    DEF RetryWithDigest, KnownOK, EntriesOK, Established, LegsForward
  <2>4. RequestsOK(c)'
    BY <1>1, <1>8
    DEF RetryWithDigest, dialogVars, KnownOK, RequestsOK, LegsForward
  <2> QED
    BY <2>2, <2>3, <2>4 DEF KnownOK
<1>9. CASE RecordCall(c)
  <2>1. HasAnswered(c, Only) /\ DigestCSeqOffset(c) = InviteCSeq(c)
    BY <1>9 DEF RecordCall, HasAnswered, DigestCSeqOffset, InviteCSeq
  <2> QED
    BY <1>9, <2>1, KnownRecorded DEF RecordCall, dialogVars
<1>10. CASE RelayAnswer(c)
  BY <1>10, KnownAnswered DEF RelayAnswer, dialogVars
<1>11. CASE TransactionEnds(c)
  BY <1>11, KnownFailed DEF TransactionEnds, dialogVars
<1> QED
  BY <1>2, <1>3, <1>4, <1>5, <1>6, <1>7, <1>8, <1>9, <1>10, <1>11
  DEF OneLegStep

LEMMA ForkKnown ==
  ASSUME TypeInv, KnownInv, NEW c \in Calls, LegsForward(c), ForkStep(c),
         UNCHANGED dialogVars
  PROVE  KnownOK(c)'
<1>1. KnownOK(c)
  BY DEF KnownInv
<1>2. CASE StartFork(c)
  <2>1. /\ pc'[c] = "sent" /\ kind'[c] = "to_user"
        /\ upstream'[c] = "calling"
        /\ c \in of_user' /\ affinity'[c] = target'[c]
        /\ c \notin spoofed'
    BY <1>1, <1>2, PcAt DEF StartFork, KnownOK, HandlerOK, TypeInv, TypeOK
  <2> QED
    BY <1>2, <2>1, KnownMade DEF StartFork, dialogVars
<1>3. CASE StartCollecting(c)
  <2>1. pc'[c] = "waiting" /\ upstream[c] # "answered"
    BY <1>1, <1>3, PcAt DEF StartCollecting, KnownOK, HandlerOK
  <2> QED
    BY <1>3, <2>1, KnownGoesOn DEF StartCollecting, dialogVars
<1>4. CASE RelayWinner(c)
  BY <1>4, KnownAnswered DEF RelayWinner, dialogVars
<1>5. ASSUME NEW b \in Branches,
             SendBranch(c, b) \/ ListBranch(c, b) \/ BranchEnds(c, b)
      PROVE  KnownOK(c)'
  BY <1>5, KnownGoesOn DEF SendBranch, ListBranch, BranchEnds, Handler, tables,
                           dialogVars
<1>6. ASSUME NEW b \in Branches, BranchFails(c, b)
      PROVE  KnownOK(c)'
  <2>1. CASE Respond(c, "failed") /\ Return(c, FALSE)
    BY <1>6, <2>1, KnownFailed DEF BranchFails, Result, dialogVars
  <2>2. CASE UNCHANGED <<pc, upstream, active_tx, affinity, spoof_cache>>
    BY <1>6, <2>2, KnownGoesOn DEF BranchFails, dialogVars
  <2> QED
    BY <1>6, <2>1, <2>2 DEF BranchFails
<1>7. ASSUME NEW b \in Branches, GlobalFailure(c, b)
      PROVE  KnownOK(c)'
  BY <1>7, KnownFailed DEF GlobalFailure, Result, dialogVars
<1>8. ASSUME NEW b \in Branches, RecordWinner(c, b)
      PROVE  KnownOK(c)'
  <2>1. HasAnswered(c, b) /\ InviteCSeq(c) = 0
    BY <1>1, <1>8
    DEF RecordWinner, Result, HasAnswered, InviteCSeq, KnownOK, HandlerOK
  <2> QED
    BY <1>8, <2>1, KnownRecorded DEF RecordWinner, Result, dialogVars
<1> QED
  BY <1>2, <1>3, <1>4, <1>5, <1>6, <1>7, <1>8 DEF ForkStep

\* An ACK finds the call's state, and in it the leg that was answered and the
\* number it expects; without a state somebody has left.
LEMMA AckReaches ==
  ASSUME TypeInv, KnownInv, NEW c \in Calls, LegsForward(c), Ack(c)
  PROVE  Reached(c)'
<1>1. /\ EntriesOK(c) /\ Established(c) /\ c \notin hung
  BY DEF Ack, KnownInv, KnownOK, Established
<1>2. CASE calls[c] # None
  <2> DEFINE b == calls[c].leg
  <2>1. b \in Branches /\ HasAnswered(c, b) /\ calls[c].offset = InviteCSeq(c)
    BY <1>1, <1>2 DEF TypeInv, TypeOK, EntriesOK
  <2>2. CASE leg[c][b] = "answered"
    <3>1. SetLeg(c, b, "confirmed")
      BY <1>2, <2>1, <2>2 DEF Ack
    <3> HIDE DEF b
    <3>2. leg'[c][b] = "confirmed"
      BY <2>1, <3>1, LegAt
    <3> QED
      BY <2>1, <3>2 DEF Reached, HasAnswered
  <2>3. CASE leg[c][b] # "answered"
    <3> HIDE DEF b
    <3>1. Reached(c)
      BY <2>1, <2>3 DEF Reached
    <3> QED
      BY <3>1 DEF LegsForward
  <2> QED
    BY <2>2, <2>3
<1>3. CASE calls[c] = None
  <2>1. LegHungUp(c)
    BY <1>1, <1>3 DEF EntriesOK, Left
  <2>2. Reached(c)
    BY <2>1 DEF LegHungUp, Reached, HasAnswered
  <2> QED
    BY <2>2 DEF LegsForward
<1> QED
  BY <1>2, <1>3

\* A request of the dialog, and what a BYE does to the tables.
LEMMA KnownInDialog ==
  ASSUME TypeInv, KnownInv, NEW c \in Calls, LegsForward(c),
         UNCHANGED <<kind, pc, upstream, target, of_user, digested, spoofed>>,
         RequestsOK(c)',
         \/ UNCHANGED <<calls, affinity, spoof_cache>>
         \/ /\ Left(c)
            /\ calls'[c] \in {None, calls[c]}
            /\ affinity'[c] \in {None, affinity[c]}
  PROVE  KnownOK(c)'
<1>1. KnownOK(c)
  BY DEF KnownInv
<1>2. HandlerOK(c)'
  BY <1>1 DEF KnownOK, HandlerOK, LegsForward, Established
<1>3. (calls[c] # None)' /\ calls'[c] = calls[c] =>
        HasAnswered(c, calls[c].leg)' /\ (calls[c].offset = InviteCSeq(c))'
  <2>1. calls[c] # None => calls[c].leg \in Branches
    BY DEF TypeInv, TypeOK
  <2> QED
    BY <1>1, <2>1 DEF KnownOK, EntriesOK, LegsForward, HasAnswered, InviteCSeq
<1>4. EntriesOK(c)'
  <2>1. CASE UNCHANGED <<calls, affinity, spoof_cache>>
    BY <1>1, <1>3, <2>1 DEF KnownOK, EntriesOK, LegsForward, Made, Established
  <2>2. CASE /\ Left(c)
             /\ calls'[c] \in {None, calls[c]}
             /\ affinity'[c] \in {None, affinity[c]}
    BY <1>1, <1>3, <2>2 DEF KnownOK, EntriesOK, LegsForward
  <2> QED
    BY <2>1, <2>2
<1> QED
  BY <1>2, <1>4 DEF KnownOK

LEMMA DialogKnown ==
  ASSUME TypeInv, KnownInv, NEW c \in Calls, LegsForward(c), DialogStep(c)
  PROVE  KnownOK(c)'
<1>1. KnownOK(c)
  BY DEF KnownInv
<1>2. CASE Cancel(c)
  <2>1. upstream'[c] = "cancelled" /\ pc[c] # "none" /\ c \notin acked
    BY <1>1, <1>2
    DEF Cancel, Respond, TypeInv, TypeOK, KnownOK, HandlerOK, RequestsOK
  <2> QED
    BY <1>2, <2>1, KnownGoesOn DEF Cancel, tables, dialogVars
<1>3. CASE Ack(c)
  <2>1. RequestsOK(c)'
    BY <1>1, <1>3, AckReaches DEF Ack, KnownOK, RequestsOK, LegsForward
  <2> QED
    BY <1>3, <2>1, KnownInDialog DEF Ack, tables
<1>4. ASSUME NEW side \in {Caller} \cup Branches, Bye(c, side)
      PROVE  KnownOK(c)'
  <2>1. Left(c)'
    <3>1. CASE side = Caller
      BY <1>4, <3>1 DEF Bye, Leaves, Left
    <3>2. CASE side # Caller
      <4>1. SetLeg(c, side, "ended") /\ side \in Branches
        BY <1>4, <3>2 DEF Bye, Leaves
      <4>2. leg'[c][side] = "ended"
        BY <4>1, LegAt
      <4> QED
        BY <4>1, <4>2 DEF Left, LegHungUp
    <3> QED
      BY <3>1, <3>2
  <2>2. RequestsOK(c)'
    BY <1>1, <1>4, <2>1 DEF Bye, KnownOK, RequestsOK, LegsForward
  <2> QED
    BY <1>4, <2>2, KnownInDialog DEF Bye, tables
<1>5. ASSUME NEW bye \in byes, bye.of = c,
             \/ ByeAnswered(bye)
             \/ ForgetAffinity(bye)
             \/ ForgetSpoofed(bye)
      PROVE  KnownOK(c)'
  <2>1. Left(c)
    BY <1>1, <1>5 DEF KnownOK, RequestsOK
  <2>2. UNCHANGED <<kind, pc, upstream, target, of_user, digested, spoofed,
                    acked>>
    BY <1>5 DEF ByeAnswered, ForgetAffinity, ForgetSpoofed, inviteVars
  <2>3. RequestsOK(c)'
    BY <1>1, <2>1, <2>2 DEF KnownOK, RequestsOK, LegsForward
  <2>4. calls'[c] \in {None, calls[c]} /\ affinity'[c] \in {None, affinity[c]}
    BY <1>5 DEF ByeAnswered, ForgetCall, ForgetAffinity, ForgetSpoofed, TypeInv,
                TypeOK
  <2> QED
    BY <2>1, <2>2, <2>3, <2>4, KnownInDialog
<1> QED
  BY <1>2, <1>3, <1>4, <1>5 DEF DialogStep

LEMMA HungStays ==
  ASSUME TypeInv, [Next]_vars
  PROVE  hung \subseteq hung'
<1>1. ASSUME NEW c \in Calls, DialogStep(c)
      PROVE  hung \subseteq hung'
  BY <1>1 DEF DialogStep, Cancel, Ack, Bye, ByeAnswered, ForgetAffinity,
              ForgetSpoofed, Leaves, dialogVars
<1>2. ASSUME NEW c \in Calls, NEW b \in Branches, LegSettles(c, b)
      PROVE  hung \subseteq hung'
  BY <1>2 DEF LegSettles, dialogVars
<1> QED
  BY <1>1, <1>2 DEF Next, HandlerStep, vars, dialogVars

LEMMA NextKnown ==
  ASSUME TypeInv, LegsInv, KnownInv, [Next]_vars
  PROVE  KnownInv'
<1>1. LegsAdvance
  BY NextAdvances
<1>2. \A c \in Calls : LegsForward(c)
  BY <1>1, HungStays, Forward
<1>3. ASSUME NEW c \in Calls, HandlerStep(c)
      PROVE  KnownInv'
  BY <1>2, <1>3, OneLegKnown, OneLegIsOwn, ForkKnown, ForkIsOwn, KnownByCall
  DEF HandlerStep
<1>4. ASSUME NEW c \in Calls, DialogStep(c)
      PROVE  KnownInv'
  BY <1>2, <1>4, DialogKnown, DialogIsOwn, KnownByCall
<1>5. ASSUME NEW c \in Calls, NEW b \in Branches, LegSettles(c, b)
      PROVE  KnownInv'
  <2>1. KnownOK(c)'
    BY <1>2, <1>5, KnownGoesOn DEF LegSettles, tables, dialogVars
  <2> QED
    BY <1>5, <2>1, SettlingIsOwn, KnownByCall
<1>6. ASSUME UNCHANGED vars
      PROVE  KnownInv'
  <2> SUFFICES ASSUME NEW c \in Calls
               PROVE  KnownOK(c)'
    BY DEF KnownInv
  <2> QED
    BY <1>2, <1>6, KnownGoesOn DEF vars, inviteVars, tables, dialogVars
<1> QED
  BY <1>3, <1>4, <1>5, <1>6 DEF Next

LEMMA Known == Spec => []KnownInv
<1>1. Init => KnownInv
  BY DEF Init, ProxyInit, DialogInit, KnownInv, KnownOK, HandlerOK, EntriesOK,
         RequestsOK, Made, Established
<1>2. TypeInv /\ LegsInv /\ KnownInv /\ [Next]_vars => KnownInv'
  BY NextKnown
<1> QED
  BY <1>1, <1>2, Typed, LegsAlways, PTL DEF Spec

\* Who is undisturbed has not left, and nobody else has.
LEMMA NobodyLeft ==
  ASSUME NEW c, Undisturbed(c)
  PROVE  upstream[c] = "answered" /\ ~ Left(c)
BY DEF Undisturbed, Talking, LoserHungUp, Left, LegHungUp

(* proxy.go, calls, affinity, spoofCache: whatever clean-ups, BYEs and     *)
(* CANCELs of this and other calls run, two sides that talk have what      *)
(* their next request needs in the tables, unless another callee of the    *)
(* same fork had answered as well and has hung up: then they may talk on   *)
(* without (OnlyPartiesEndCalls).                                          *)
THEOREM TalkingIsKnown == Spec => []CallIsKnown
<1>1. KnownInv => CallIsKnown
  BY NobodyLeft DEF KnownInv, KnownOK, EntriesOK, CallIsKnown, Made, Established
<1> QED
  BY <1>1, Known, PTL

(* proxy.go:985, "a dropped 2xx ACK strands the callee": the caller's ACK   *)
(* reaches the callee that answered, digest retries and all, if only one   *)
(* has.                                                                    *)
THEOREM AcksArrive == Spec => []AckReachesCallee
<1>1. ASSUME KnownInv, NEW c \in Calls, NEW b \in Branches, c \in acked,
             Answered(c) = {b}
      PROVE  leg[c][b] # "answered"
  <2>1. PICK k \in Branches :
          /\ HasAnswered(c, k)
          /\ leg[c][k] # "answered"
               \/ \E l \in Branches \ {k} : HasAnswered(c, l)
    BY <1>1 DEF KnownInv, KnownOK, RequestsOK, Reached
  <2>2. \A l \in Branches : HasAnswered(c, l) => l = b
    BY <1>1 DEF Answered, HasAnswered
  <2> QED
    BY <2>1, <2>2
<1>2. KnownInv => AckReachesCallee
  BY <1>1 DEF AckReachesCallee
<1> QED
  BY <1>2, Known, PTL

\* Only a call that begins gets a node.
LEMMA NodeForNewCalls ==
  ASSUME TypeInv, NEW c \in Calls, [Next]_vars, target[c] = None,
         target'[c] # None, kind'[c] = "to_fs"
  PROVE  SelectTarget(c)
<1>1. ASSUME NEW d \in Calls, d # c, OthersSame(d)
      PROVE  FALSE
  BY <1>1 DEF OthersSame, SameOf
<1>2. CASE HandlerStep(c)
  <2>1. CASE OneLegStep(c)
    BY <1>2, <2>1 DEF OneLegStep, SaveTarget, StartTrunk, SendOnly,
       StartWaiting, RelayFailure, TransactionEnds, RetryWithDigest, RecordCall,
       RelayAnswer, TypeInv, TypeOK
  <2>2. CASE ForkStep(c)
    <3>1. CASE StartFork(c)
      <4>1. kind'[c] = "to_user"
        BY <3>1 DEF StartFork, TypeInv, TypeOK
      <4> QED
        BY <4>1
    <3>2. CASE StartCollecting(c) \/ RelayWinner(c)
      BY <3>2 DEF StartCollecting, RelayWinner
    <3>3. ASSUME NEW b \in Branches,
                 \/ SendBranch(c, b) \/ ListBranch(c, b) \/ BranchEnds(c, b)
                 \/ BranchFails(c, b) \/ GlobalFailure(c, b)
                 \/ RecordWinner(c, b)
          PROVE  UNCHANGED target
      BY <3>3 DEF SendBranch, ListBranch, BranchEnds, BranchFails,
         GlobalFailure, RecordWinner, Handler
    <3> QED
      BY <2>2, <3>1, <3>2, <3>3 DEF ForkStep
  <2> QED
    BY <1>2, <2>1, <2>2 DEF HandlerStep
<1>3. CASE DialogStep(c)
  BY <1>3 DEF DialogStep, Cancel, Ack, Bye, ByeAnswered, ForgetAffinity,
              ForgetSpoofed, inviteVars
<1>4. ASSUME NEW b \in Branches, LegSettles(c, b)
      PROVE  FALSE
  BY <1>4 DEF LegSettles
<1>5. CASE UNCHANGED vars
  BY <1>5 DEF vars, inviteVars
<1> QED
  BY <1>1, <1>2, <1>3, <1>4, <1>5, OneLegIsOwn, ForkIsOwn, DialogIsOwn,
     SettlingIsOwn DEF Next, HandlerStep

(* proxy.go, selectTargetForUsers: the pins the node is chosen by are of   *)
(* calls that are being made, recorded or cleaned up after, and a call that*)
(* talks has one, with the exception TalkingIsKnown names.                 *)
THEOREM UserStaysOnNodes == Spec => SameUserSameFs
<1> DEFINE OnNode ==
      \A c, d \in of_user' :
        target[c] = None /\ target'[c] # None /\ kind'[c] = "to_fs"
          /\ Undisturbed(d)
          => \E e \in of_user :
               /\ Running(e) \/ calls[e] # None \/ CleaningUp(e, {"affinity"})
               /\ target'[c] = target[e]
<1>1. TypeInv /\ TypeInv' /\ TablesInv /\ KnownInv /\ [Next]_vars => OnNode
  <2> SUFFICES ASSUME TypeInv, TypeInv', TablesInv, KnownInv, [Next]_vars,
                      NEW c \in of_user', NEW d \in of_user',
                      target[c] = None, target'[c] # None, kind'[c] = "to_fs",
                      Undisturbed(d)
               PROVE  \E e \in of_user :
                        /\ \/ Running(e) \/ calls[e] # None
                           \/ CleaningUp(e, {"affinity"})
                        /\ target'[c] = target[e]
    OBVIOUS
  <2>1. c \in Calls /\ d \in Calls /\ SelectTarget(c)
    BY NodeForNewCalls DEF TypeInv, TypeOK
  <2>2. pc[c] = "none" /\ upstream[c] = "none" /\ c \notin of_user
    BY <2>1 DEF SelectTarget, KnownInv, KnownOK, HandlerOK
  <2>3. d # c /\ d \in of_user /\ pc[d] # "none"
    BY <2>1, <2>2, NobodyLeft DEF SelectTarget, KnownInv, KnownOK, HandlerOK
  <2>4. affinity[d] = target[d] /\ target[d] # None
    BY <2>1, <2>3, NobodyLeft
    DEF KnownInv, KnownOK, EntriesOK, Made, TypeInv, TypeOK
  <2>5. target'[c] \in Selectable(TRUE)
    <3>1. PICK is_users \in BOOLEAN :
            /\ of_user' = IF is_users THEN of_user \cup {c} ELSE of_user
            /\ \E t \in Selectable(is_users) : target' = [target EXCEPT ![c] = t]
      BY <2>1 DEF SelectTarget
    <3>2. c \in of_user'
      OBVIOUS
    <3>3. is_users = TRUE
      BY <3>1, <3>2, <2>2
    <3>4. PICK t \in Selectable(TRUE) : target' = [target EXCEPT ![c] = t]
      BY <3>1, <3>3
    <3> QED
      BY <3>4, <2>1 DEF TypeInv, TypeOK
  <2>6. PICK e \in Calls : affinity[e] = target'[c]
    BY <2>1, <2>4, <2>5 DEF Selectable
  <2>7. e \in of_user /\ affinity[e] = target[e]
    BY <2>6 DEF KnownInv, KnownOK, EntriesOK
  <2>8. affinity[e] # None
    BY <2>6
  <2>9. Running(e) \/ calls[e] # None \/ CleaningUp(e, {"affinity"})
    BY <2>8 DEF TablesInv, TablesOK, Unpinning
  <2> QED
    BY <2>6, <2>7, <2>9
<1>2. TypeInv /\ TypeInv' /\ TablesInv /\ KnownInv /\ [Next]_vars => [OnNode]_vars
  BY <1>1
<1>3. Spec => []TablesInv
  BY TablesAlways
<1> QED
  BY <1>2, <1>3, Typed, Known, PTL DEF Spec, SameUserSameFs
===============================================================================
