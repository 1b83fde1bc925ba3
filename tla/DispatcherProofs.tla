--------------------------- MODULE DispatcherProofs ---------------------------
(***************************************************************************)
(* Proofs about Dispatcher, for any nodes and any number of INVITEs,       *)
(* crashes, restarts and requests that fail: its types, and that INVITEs   *)
(* are spread evenly while the list stays as it is.                        *)
(***************************************************************************)
EXTENDS Dispatcher, ListLemmas

USE DispatcherConstants

(* Types but for the list and the selections.                              *)
ServerTypes ==
  /\ known \subseteq Nodes
  /\ seen \in {Unknown} \cup SUBSET Named
  /\ up \cup key \cup expired \subseteq Nodes
  /\ beat \in [Nodes -> {"none", "saved", "absent"}]

\* Two sources add to the list and remove from it; a node is in it once.
Listing == targets \in Seq(Nodes) /\ IsInjective(targets)

\* The selections since the list changed are consecutive places of the list,
\* ending at the one the counter is at.
Round ==
  /\ recent \in Seq(Nodes)
  /\ Len(recent) <= Len(targets)
  /\ Len(recent) <= counter
  /\ \A i \in 1..Len(recent) :
       recent[i] = targets[((counter - Len(recent) + i) % Len(targets)) + 1]

DispatcherInv ==
  /\ ServerTypes
  /\ Listing
  /\ counter \in 0 .. MaxSelects
  /\ Round

(***************************************************************************)
(* Lemmas.                                                                 *)
(***************************************************************************)

\* Fewer than n consecutive numbers have different remainders.
LEMMA RemaindersDiffer ==
  ASSUME NEW n \in Nat \ {0}, NEW x \in Nat, NEW y \in Nat, x < y, y - x < n
  PROVE  x % n # y % n
<1> DEFINE p == x \div n
           q == y \div n
<1>1. p \in Int /\ q \in Int
  OBVIOUS
<1>2. x = n * p + (x % n) /\ y = n * q + (y % n)
  OBVIOUS
<1> HIDE DEF p, q
<1> SUFFICES ASSUME x % n = y % n
             PROVE  FALSE
  OBVIOUS
<1>3. x % n \in Int
  OBVIOUS
<1>4. y - x = n * q - n * p
  BY <1>1, <1>2, <1>3
<1>5. n * q - n * p = n * (q - p)
  BY <1>1
<1>6. CASE q - p <= 0
  <2>1. n * (q - p) <= 0
    BY <1>1, <1>6
  <2> QED
    BY <1>1, <1>4, <1>5, <2>1
<1>7. CASE q - p >= 1
  <2>1. n * (q - p) >= n
    BY <1>1, <1>7
  <2> QED
    BY <1>1, <1>4, <1>5, <2>1
<1> QED
  BY <1>1, <1>6, <1>7

\* A list that names each node once is no longer than there are nodes.
LEMMA ListFits ==
  ASSUME Listing
  PROVE  Len(targets) <= Cardinality(Nodes)
<1>1. targets \in Injection(1..Len(targets), Nodes)
  <2>1. targets \in [1..Len(targets) -> Nodes]
    BY DEF Listing
  <2>2. \A i, j \in 1..Len(targets) : targets[i] = targets[j] => i = j
    BY <2>1 DEF Listing, IsInjective
  <2> QED
    BY <2>1, <2>2 DEF Injection, IsInjective
<1>2. Cardinality(1..Len(targets)) <= Cardinality(Nodes)
  BY <1>1, FS_Injection
<1>3. Len(targets) \in Nat
  BY DEF Listing
<1>4. Cardinality(1..Len(targets)) = Len(targets)
  <2>1. ASSUME NEW n \in Nat
        PROVE  Cardinality(1..n) = n
    <3>1. Cardinality(1..n) = IF 1 > n THEN 0 ELSE n - 1 + 1
      BY FS_Interval
    <3> QED
      BY <3>1
  <2> QED
    BY <1>3, <2>1
<1> QED
  BY <1>2, <1>4

\* A round visits no node twice.
LEMMA RoundIsFair ==
  ASSUME DispatcherInv
  PROVE  RoundRobin
<1> DEFINE n == Len(targets)
           k == Len(recent)
           at(i) == (counter - k + i) % n
<1>1. /\ n \in Nat /\ k \in Nat /\ counter \in Nat
      /\ k <= n /\ k <= counter
      /\ DOMAIN recent = 1..k
      /\ DOMAIN targets = 1..n
  BY DEF DispatcherInv, Listing, Round
<1>2. \A i \in 1..k : recent[i] = targets[at(i) + 1]
  BY DEF DispatcherInv, Round
<1>3. \A i, j \in 1..n : targets[i] = targets[j] => i = j
  BY <1>1 DEF DispatcherInv, Listing, IsInjective
<1> HIDE DEF n, k
<1>4. ASSUME NEW i \in 1..k, NEW j \in 1..k, i < j
      PROVE  recent[i] # recent[j]
  <2>1. /\ n \in Nat \ {0}
        /\ counter - k + i \in Nat /\ counter - k + j \in Nat
        /\ (counter - k + j) - (counter - k + i) < n
        /\ counter - k + i < counter - k + j
    BY <1>1, <1>4
  <2>2. at(i) # at(j)
    BY <2>1, RemaindersDiffer
  <2>3. at(i) \in 0..(n - 1) /\ at(j) \in 0..(n - 1)
    BY <2>1
  <2> HIDE DEF at
  <2>4. at(i) + 1 \in 1..n /\ at(j) + 1 \in 1..n /\ at(i) + 1 # at(j) + 1
    BY <1>1, <2>2, <2>3
  <2> QED
    BY <1>2, <1>3, <2>4
<1>5. \A i, j \in 1..k : i = j \/ i < j \/ j < i
  BY <1>1
<1>6. \A i, j \in 1..k : recent[i] = recent[j] => i = j
  BY <1>4, <1>5
<1> QED
  BY <1>1, <1>6 DEF RoundRobin, IsInjective, k

\* AddTarget and RemoveTarget: the list stays one without repetitions, and the
\* round begins anew if it changed.
LEMMA Added ==
  ASSUME DispatcherInv, NEW f \in Nodes, AddTarget(f)
  PROVE  Listing'
<1>1. CASE Listed(f)
  BY <1>1 DEF AddTarget, DispatcherInv, Listing
<1>2. CASE ~ Listed(f)
  <2> DEFINE longer == Append(targets, f)
             n == Len(targets)
  <2>1. /\ n \in Nat
        /\ longer \in Seq(Nodes)
        /\ DOMAIN targets = 1..n
        /\ DOMAIN longer = 1..(n + 1)
        /\ longer[n + 1] = f
        /\ \A i \in 1..n : longer[i] = targets[i]
    BY DEF DispatcherInv, Listing
  <2>2. \A i \in 1..n : targets[i] # f
    BY <1>2, <2>1 DEF Listed, ToSet
  <2>3. \A i, j \in 1..n : targets[i] = targets[j] => i = j
    BY <2>1 DEF DispatcherInv, Listing, IsInjective
  <2>4. targets' = longer
    BY <1>2 DEF AddTarget
  <2> HIDE DEF longer, n
  <2>5. \A i \in 1..(n + 1) : i \in 1..n \/ i = n + 1
    BY <2>1
  <2>6. \A i, j \in 1..(n + 1) : longer[i] = longer[j] => i = j
    BY <2>1, <2>2, <2>3, <2>5
  <2>7. IsInjective(longer)
    BY <2>1, <2>6 DEF IsInjective
  <2> QED
    BY <2>1, <2>4, <2>7 DEF Listing
<1> QED
  BY <1>1, <1>2

LEMMA Removed ==
  ASSUME DispatcherInv, NEW f \in Nodes, RemoveTarget(f)
  PROVE  Listing'
BY RemoveFirstIsSeq DEF RemoveTarget, DispatcherInv, Listing

LEMMA RoundAnew ==
  ASSUME DispatcherInv, Changed, Listing', UNCHANGED counter
  PROVE  Round'
<1>1. CASE targets' = targets
  BY <1>1 DEF Changed, DispatcherInv, Round
<1>2. CASE recent' = <<>>
  <2>1. Len(targets)' \in Nat /\ counter \in Nat
    BY DEF Listing, DispatcherInv
  <2> QED
    BY <1>2, <2>1 DEF Round
<1> QED
  BY <1>1, <1>2 DEF Changed

\* SelectTarget takes the place after the one it took last.
LEMMA Selected ==
  ASSUME DispatcherInv, SelectTarget
  PROVE  Round'
<1> DEFINE n == Len(targets)
           k == Len(recent)
           c == counter + 1
           picked == targets[(c % n) + 1]
           picks == Append(recent, picked)
<1>1. /\ n \in Nat \ {0} /\ k \in Nat /\ counter \in Nat
      /\ k <= n /\ k <= counter
      /\ targets \in [1..n -> Nodes]
      /\ recent \in Seq(Nodes)
  BY DEF DispatcherInv, Listing, Round, SelectTarget
<1>2. \A i \in 1..k : recent[i] = targets[((counter - k + i) % n) + 1]
  BY DEF DispatcherInv, Round
<1>3. /\ counter' = c
      /\ targets' = targets
      /\ recent' = IF Len(picks) > n THEN Tail(picks) ELSE picks
  BY DEF SelectTarget
<1>4. picked \in Nodes
  <2>1. (c % n) + 1 \in 1..n
    BY <1>1
  <2> QED
    BY <1>1, <2>1
<1>5. /\ picks \in Seq(Nodes)
      /\ Len(picks) = k + 1
      /\ picks[k + 1] = picked
      /\ \A i \in 1..k : picks[i] = recent[i]
  BY <1>1, <1>4
<1> HIDE DEF picks
<1>6. \A i \in 1..(k + 1) : picks[i] = targets[((c - (k + 1) + i) % n) + 1]
  <2> TAKE i \in 1..(k + 1)
  <2>1. CASE i \in 1..k
    <3>1. c - (k + 1) + i = counter - k + i
      BY <1>1, <2>1
    <3> QED
      BY <1>2, <1>5, <2>1, <3>1
  <2>2. CASE i = k + 1
    <3>1. c - (k + 1) + i = c
      BY <1>1, <2>2
    <3> QED
      BY <1>5, <2>2, <3>1
  <2> QED
    BY <1>1, <2>1, <2>2
<1> HIDE DEF picked
<1>7. CASE Len(picks) > n
  <2>1. /\ recent' = Tail(picks)
        /\ k = n
        /\ Tail(picks) \in Seq(Nodes)
        /\ Len(Tail(picks)) = k
        /\ \A i \in 1..k : Tail(picks)[i] = picks[i + 1]
    BY <1>1, <1>3, <1>5, <1>7
  <2>2. \A i \in 1..k : recent'[i] = targets[((c - k + i) % n) + 1]
    <3> TAKE i \in 1..k
    <3>1. i + 1 \in 1..(k + 1) /\ c - (k + 1) + (i + 1) = c - k + i
      BY <1>1
    <3> QED
      BY <1>6, <2>1, <3>1
  <2>3. Len(recent') = k /\ k <= c
    BY <1>1, <2>1
  <2> QED
    BY <1>1, <1>3, <2>1, <2>2, <2>3 DEF Round
<1>8. CASE ~ (Len(picks) > n)
  <2>1. recent' = picks /\ k + 1 <= n /\ k + 1 <= c
    BY <1>1, <1>3, <1>5, <1>8
  <2> QED
    BY <1>1, <1>3, <1>5, <1>6, <2>1 DEF Round
<1> QED
  BY <1>7, <1>8

(***************************************************************************)
(* The steps.                                                              *)
(***************************************************************************)

\* A step that leaves the list and the selections alone.
LEMMA ListAlone ==
  ASSUME DispatcherInv, ServerTypes', UNCHANGED <<targets, counter, recent>>
  PROVE  DispatcherInv'
BY DEF DispatcherInv, Listing, Round

\* One that may change the list.
LEMMA ListChanges ==
  ASSUME DispatcherInv, ServerTypes', UNCHANGED counter,
         NEW f \in Nodes,
         AddTarget(f) \/ RemoveTarget(f) \/ UNCHANGED <<targets, recent>>
  PROVE  DispatcherInv'
<1>1. CASE UNCHANGED <<targets, recent>>
  BY <1>1, ListAlone
<1>2. CASE AddTarget(f) \/ RemoveTarget(f)
  <2>1. Listing'
    BY <1>2, Added, Removed
  <2>2. Round'
    BY <1>2, <2>1, RoundAnew DEF AddTarget, RemoveTarget
  <2> QED
    BY <2>1, <2>2 DEF DispatcherInv
<1> QED
  BY <1>1, <1>2

LEMMA NodeStep ==
  ASSUME DispatcherInv, NEW f \in Nodes,
         \/ Discovered(f) \/ NoLongerResolves(f)
         \/ SaveKey(f) \/ CheckListed(f) \/ AddByRpc(f)
         \/ KeyExpires(f) \/ RemoveByRpc(f)
         \/ NodeCrashes(f) \/ NodeStarts(f)
  PROVE  DispatcherInv'
<1>1. ServerTypes
  BY DEF DispatcherInv
<1>2. CASE Discovered(f)
  BY <1>1, <1>2, ListChanges DEF Discovered, ServerTypes, serverVars
<1>3. CASE NoLongerResolves(f)
  BY <1>1, <1>3, ListChanges DEF NoLongerResolves, ServerTypes, serverVars
<1>4. CASE SaveKey(f)
  BY <1>1, <1>4, ListAlone DEF SaveKey, ServerTypes, sbcVars
<1>5. CASE CheckListed(f)
  BY <1>1, <1>5, ListAlone DEF CheckListed, ServerTypes, sbcVars
<1>6. CASE AddByRpc(f)
  BY <1>1, <1>6, ListChanges DEF AddByRpc, ServerTypes
<1>7. CASE KeyExpires(f)
  BY <1>1, <1>7, ListAlone DEF KeyExpires, ServerTypes, sbcVars
<1>8. CASE RemoveByRpc(f)
  BY <1>1, <1>8, ListChanges DEF RemoveByRpc, ServerTypes
<1>9. CASE NodeCrashes(f)
  BY <1>1, <1>9, ListAlone DEF NodeCrashes, ServerTypes, sbcVars, serverVars
<1>10. CASE NodeStarts(f)
  BY <1>1, <1>10, ListAlone DEF NodeStarts, ServerTypes, sbcVars, serverVars
<1> QED
  BY <1>2, <1>3, <1>4, <1>5, <1>6, <1>7, <1>8, <1>9, <1>10

LEMMA EmptyList ==
  ASSUME targets = <<>>, recent = <<>>, counter = 0, ServerTypes
  PROVE  DispatcherInv
BY DEF DispatcherInv, Listing, Round, IsInjective

LEMMA NextKeeps ==
  ASSUME DispatcherInv, [Next]_vars
  PROVE  DispatcherInv'
<1>1. ServerTypes
  BY DEF DispatcherInv
<1>2. CASE SelectTarget
  <2>1. ServerTypes' /\ Listing'
    BY <1>2 DEF SelectTarget, DispatcherInv, Listing, ServerTypes, serverVars
  <2>2. counter' \in 0 .. MaxSelects
    BY <1>2 DEF SelectTarget, DispatcherInv
  <2> QED
    BY <1>2, <2>1, <2>2, Selected DEF DispatcherInv
<1>3. CASE LookupHost
  BY <1>1, <1>3, ListAlone DEF LookupHost, ServerTypes, serverVars
<1>4. CASE DiscoveryDone
  BY <1>1, <1>4, ListAlone DEF DiscoveryDone, ServerTypes, serverVars
<1>5. CASE SbcRestarts
  <2>1. ServerTypes'
    BY <1>1, <1>5 DEF SbcRestarts, ServerTypes, serverVars
  <2> QED
    BY <1>5, <2>1 DEF SbcRestarts, DispatcherInv, Listing, Round, IsInjective
<1>6. CASE UNCHANGED vars
  BY <1>1, <1>6, ListAlone DEF vars, sbcVars, serverVars, ServerTypes
<1> QED
  BY <1>2, <1>3, <1>4, <1>5, <1>6, NodeStep DEF Next

LEMMA Invariant == Spec => []DispatcherInv
<1>1. Init => DispatcherInv
  BY EmptyList DEF Init, ServerTypes
<1>2. DispatcherInv /\ [Next]_vars => DispatcherInv'
  BY NextKeeps
<1> QED
  BY <1>1, <1>2, PTL DEF Spec

(* dispatcher.go, main.go, event_router.ex: the types of the SBC's list and *)
(* of the server's handlers, and a list no longer than there are nodes.    *)
THEOREM TypeCorrect == Spec => []TypeOK
<1>1. DispatcherInv => TypeOK
  BY ListFits DEF DispatcherInv, ServerTypes, Listing, Round, TypeOK
<1> QED
  BY <1>1, Invariant, PTL

(* dispatcher.go, AddTarget: discovery and the server's heartbeats add the *)
(* same nodes without knowing of each other, and none is ever listed twice *)
(* and so given a double share.                                            *)
THEOREM ListedOnce == Spec => []IsInjective(targets)
<1>1. DispatcherInv => IsInjective(targets)
  BY DEF DispatcherInv, Listing
<1> QED
  BY <1>1, Invariant, PTL

(* dispatcher.go, SelectTarget: while the list stays as it is, no node gets *)
(* a second INVITE before every node has had one.                          *)
THEOREM FairShare == Spec => []RoundRobin
<1>1. DispatcherInv => RoundRobin
  BY RoundIsFair
<1> QED
  BY <1>1, Invariant, PTL
===============================================================================
