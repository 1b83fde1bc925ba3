----------------------------- MODULE Dispatcher -------------------------------
(***************************************************************************)
(* The FreeSWITCH nodes the SBC sends calls to (src/sbc/dispatcher.go).    *)
(* Two parties change the list: the SBC's own discovery by host name       *)
(* (main.go), and the server, by RPC, as a node's heartbeats arrive and    *)
(* their Redis key expires (event_router.ex, redis_listener.ex).           *)
(***************************************************************************)
EXTENDS Integers, FiniteSets, SequencesExt

CONSTANTS
  Nodes,        \* FreeSWITCH nodes, by address
  Named,        \* nodes the host name "freeswitch" resolves to
  Unknown,
  MaxSelects,   \* bound on INVITEs that the SBC selects a node for
  MaxCrashes,   \* bound on crashes of nodes
  MaxRestarts,  \* bound on restarts of the SBC
  MaxOutages,   \* bound on keys that expire although the node is up
  MaxLost       \* bound on requests to Redis and the SBC that fail

ASSUME DispatcherConstants ==
  /\ IsFiniteSet(Nodes)
  /\ Named \subseteq Nodes
  /\ \A s \in SUBSET Nodes : s # Unknown
  /\ MaxSelects \in Nat

VARIABLES
  targets,   \* the list of nodes
  counter,   \* selections since the SBC started
  recent,    \* nodes selected since the list changed, the last Len(targets)
  known,     \* what discovery has added
  seen,      \* the addresses discovery is working through, or Unknown
  up,        \* nodes that are up
  key,       \* nodes with a live key in Redis
  beat,      \* [Nodes -> the server's handler of a heartbeat]
  expired,   \* nodes whose expiry the server has been told
  crashes, restarts, outages, lost

sbcVars == <<targets, counter, recent, known, seen>>
serverVars == <<key, beat, expired>>
counts == <<crashes, restarts, outages, lost>>
vars == <<sbcVars, up, serverVars, counts>>

Init ==
  /\ targets = <<>>
  /\ counter = 0
  /\ recent = <<>>
  /\ known = {}
  /\ seen = Unknown
  /\ up \in SUBSET Nodes
  /\ key = {}
  /\ beat = [f \in Nodes |-> "none"]
  /\ expired = {}
  /\ crashes = 0 /\ restarts = 0 /\ outages = 0 /\ lost = 0

-----------------------------------------------------------------------------
(* dispatcher.go                                                           *)

Listed(f) == f \in ToSet(targets)

Changed == recent' = IF targets' = targets THEN recent ELSE <<>>

\* Mutant: a node may be listed twice.
AddTargetAgain(f) == targets' = Append(targets, f) /\ Changed

AddTarget(f) ==
  /\ targets' = IF Listed(f) THEN targets ELSE Append(targets, f)
  /\ Changed

RemoveTarget(f) ==
  /\ targets' = RemoveFirst(targets, f)
  /\ Changed

\* An INVITE picks the next node; without a target it is answered 503.
SelectTarget ==
  /\ targets # <<>>
  /\ counter < MaxSelects
  /\ counter' = counter + 1
  /\ LET picked == targets[(counter' % Len(targets)) + 1]
         picks  == Append(recent, picked)
     IN  recent' = IF Len(picks) > Len(targets) THEN Tail(picks) ELSE picks
  /\ UNCHANGED <<targets, known, seen, up, serverVars, counts>>

-----------------------------------------------------------------------------
(* Discovery, in main.go.                                                  *)

\* A name that does not resolve is an error, which skips the round.
LookupHost ==
  /\ seen = Unknown
  /\ seen' = IF Named \cap up = {} THEN Unknown ELSE Named \cap up
  /\ UNCHANGED <<targets, counter, recent, known, up, serverVars, counts>>

Discovered(f) ==
  /\ seen # Unknown
  /\ f \in seen \ known
  /\ AddTarget(f)
  /\ known' = known \cup {f}
  /\ UNCHANGED <<counter, seen, up, serverVars, counts>>

\* Mutant: discovery forgets the node and leaves it in the list.
NoLongerKnown(f) ==
  /\ seen # Unknown
  /\ seen \subseteq known
  /\ f \in known \ seen
  /\ known' = known \ {f}
  /\ UNCHANGED <<targets, recent, counter, seen, up, serverVars, counts>>

NoLongerResolves(f) ==
  /\ seen # Unknown
  /\ seen \subseteq known
  /\ f \in known \ seen
  /\ RemoveTarget(f)
  /\ known' = known \ {f}
  /\ UNCHANGED <<counter, seen, up, serverVars, counts>>

DiscoveryDone ==
  /\ seen # Unknown
  /\ seen = known
  /\ seen' = Unknown
  /\ UNCHANGED <<targets, counter, recent, known, up, serverVars, counts>>

SbcRestarts ==
  /\ restarts < MaxRestarts
  /\ restarts' = restarts + 1
  /\ targets' = <<>> /\ counter' = 0 /\ recent' = <<>>
  /\ known' = {} /\ seen' = Unknown
  /\ UNCHANGED <<up, serverVars, crashes, outages, lost>>

-----------------------------------------------------------------------------
(* The server: handle_heartbeat and handle_expired_key.                    *)

Fails == lost < MaxLost /\ lost' = lost + 1

SaveKey(f) ==
  /\ f \in up
  /\ beat[f] = "none"
  /\ beat' = [beat EXCEPT ![f] = "saved"]
  /\ \/ key' = key \cup {f} /\ UNCHANGED lost
     \/ Fails /\ UNCHANGED key
  /\ UNCHANGED <<sbcVars, up, expired, crashes, restarts, outages>>

\* Mutant: the key is taken for the list.
CheckKey(f) ==
  /\ beat[f] = "saved"
  /\ beat' = [beat EXCEPT ![f] = IF f \in key THEN "none" ELSE "absent"]
  /\ UNCHANGED <<sbcVars, up, key, expired, counts>>

\* dispatcher.list; an error counts as absent.
CheckListed(f) ==
  /\ beat[f] = "saved"
  /\ beat' = [beat EXCEPT ![f] = IF Listed(f) THEN "none" ELSE "absent"]
  /\ UNCHANGED <<sbcVars, up, key, expired, counts>>

AddByRpc(f) ==
  /\ beat[f] = "absent"
  /\ beat' = [beat EXCEPT ![f] = "none"]
  /\ \/ AddTarget(f) /\ UNCHANGED lost
     \/ Fails /\ UNCHANGED <<targets, recent>>
  /\ UNCHANGED <<counter, known, seen, up, key, expired, crashes, restarts,
                 outages>>

\* A key outlives a handler; it expires when heartbeats do not arrive.
KeyExpires(f) ==
  /\ f \in key
  /\ beat[f] = "none"
  /\ key' = key \ {f}
  /\ IF f \in up THEN outages < MaxOutages /\ outages' = outages + 1
                 ELSE UNCHANGED outages
  /\ \/ expired' = expired \cup {f} /\ UNCHANGED lost
     \/ Fails /\ UNCHANGED expired
  /\ UNCHANGED <<sbcVars, up, beat, crashes, restarts>>

RemoveByRpc(f) ==
  /\ f \in expired
  /\ expired' = expired \ {f}
  /\ \/ RemoveTarget(f) /\ UNCHANGED lost
     \/ Fails /\ UNCHANGED <<targets, recent>>
  /\ UNCHANGED <<counter, known, seen, up, key, beat, crashes, restarts,
                 outages>>

-----------------------------------------------------------------------------
(* FreeSWITCH nodes.                                                       *)

NodeCrashes(f) ==
  /\ f \in up
  /\ crashes < MaxCrashes
  /\ crashes' = crashes + 1
  /\ up' = up \ {f}
  /\ UNCHANGED <<sbcVars, serverVars, restarts, outages, lost>>

NodeStarts(f) ==
  /\ f \notin up
  /\ up' = up \cup {f}
  /\ UNCHANGED <<sbcVars, serverVars, counts>>

Next ==
  \/ SelectTarget
  \/ LookupHost \/ DiscoveryDone \/ SbcRestarts
  \/ \E f \in Nodes :
       \/ Discovered(f) \/ NoLongerResolves(f)
       \/ SaveKey(f) \/ CheckListed(f) \/ AddByRpc(f)
       \/ KeyExpires(f) \/ RemoveByRpc(f)
       \/ NodeCrashes(f) \/ NodeStarts(f)

Spec == Init /\ [][Next]_vars

\* Discovery ticks, a node that is up sends heartbeats, handlers finish, and
\* Redis expires what is not renewed.  INVITEs, crashes and outages are free.
LiveSpec ==
  /\ Spec
  /\ WF_vars(LookupHost) /\ WF_vars(DiscoveryDone)
  /\ \A f \in Nodes :
       /\ WF_vars(Discovered(f) \/ NoLongerResolves(f))
       /\ WF_vars(SaveKey(f)) /\ WF_vars(CheckListed(f)) /\ WF_vars(AddByRpc(f))
       /\ WF_vars(f \notin up /\ KeyExpires(f))
       /\ WF_vars(RemoveByRpc(f))

-----------------------------------------------------------------------------
(* Properties *)

\* Every variable has its type.
TypeOK ==
  /\ targets \in Seq(Nodes)
  /\ Len(targets) <= Cardinality(Nodes)
  /\ counter \in 0 .. MaxSelects
  /\ Len(recent) <= Len(targets)
  /\ known \subseteq Nodes
  /\ seen \in {Unknown} \cup SUBSET Named
  /\ up \cup key \cup expired \subseteq Nodes
  /\ beat \in [Nodes -> {"none", "saved", "absent"}]

\* dispatcher.go, SelectTarget: while the list stays as it is, no node gets a
\* second INVITE before every node has had one, whoever added them.
RoundRobin == IsInjective(recent)

\* event_router.ex, handle_heartbeat; main.go:199: a node that stays up ends
\* up in the list for good, after restarts of the SBC, expiries that were
\* under way and requests that failed.
AliveIsTarget ==
  \A f \in Nodes : <>[](f \in up) => <>[](Listed(f))

\* main.go:199, "can't strand the dispatcher on a dead address": a node that
\* stays down leaves the list, given another that resolves and that no request
\* or expiry was lost.
DeadIsDropped ==
  \A f \in Nodes :
    <>[](f \notin up /\ (Named \ {f}) \cap up # {} /\ lost = 0)
      => <>[](~ Listed(f))
==============================================================================
