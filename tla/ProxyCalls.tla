----------------------------- MODULE ProxyCalls ------------------------------
(***************************************************************************)
(* The SBC's calls: the handlers of INVITEs, the requests that follow them *)
(* and the telephones, trunks and FreeSWITCH nodes at both ends.           *)
(***************************************************************************)
EXTENDS InviteToOne, ForkInvite, InDialog

vars == <<inviteVars, tables, dialogVars>>

Init == ProxyInit /\ DialogInit

\* A callee that rings answers, refuses, declines everywhere, is lost, is a
\* trunk that asks for credentials, or its transaction ends with no response; in
\* the digest retry the library makes that an error.
LegSettles(c, b) ==
  /\ leg[c][b] = "ringing"
  /\ \E to \in {"answered", "refused", "declined", "failed"} \cup
               (IF c \in digested THEN {} ELSE {"closed"}) \cup
               (IF kind[c] = "to_trunk" /\ c \notin digested
                THEN {"challenged"} ELSE {}) :
       SetLeg(c, b, to)
  /\ UNCHANGED <<kind, pc, upstream, target, of_user, branch, late, watching,
                 digested, tables, dialogVars>>

HandlerStep(c) ==
  (OneLegStep(c) \/ ForkStep(c)) /\ UNCHANGED dialogVars

Next ==
  \E c \in Calls :
    \/ HandlerStep(c)
    \/ DialogStep(c)
    \/ \E b \in Branches : LegSettles(c, b)

Spec == Init /\ [][Next]_vars

\* A handler that runs goes on and its goroutines with it.  A callee may ring
\* for ever: nothing in the proxy limits it.  Calls, CANCELs, ACKs and BYEs are
\* free.
LiveSpec ==
  /\ Spec
  /\ \A c \in Calls : WF_vars(pc[c] # "none" /\ HandlerStep(c))

-----------------------------------------------------------------------------
(* Properties *)

\* Every variable has its type; a call that is made has a node.
TypeOK ==
  /\ kind \in [Calls -> Kinds \cup {None}]
  /\ pc \in [Calls -> PCs]
  /\ upstream \in [Calls -> Upstream]
  /\ target \in [Calls -> Targets \cup {None}]
  /\ \A c \in Calls : pc[c] # "none" => target[c] # None
  /\ of_user \subseteq Calls
  /\ branch \in [Calls -> [Branches -> BranchStates]]
  /\ leg \in [Calls -> [Branches -> Legs]]
  /\ late \subseteq Calls \X Branches
  /\ calls \in [Calls -> {None} \cup
                 [leg : Branches, offset : 0 .. 1]]
  /\ affinity \in [Calls -> Targets \cup {None}]
  /\ watching \cup digested \cup active_tx \cup spoofed \cup spoof_cache
       \cup acked \cup hung \subseteq Calls

\* The leg whose answer counts: of a fork, the first the handler read.
Winner(c, b) == IF kind[c] = "to_user" THEN branch[c][b] = "won" ELSE b = Only

\* A call the caller has been told is answered, and neither of the two has hung
\* up.
Talking(c) ==
  /\ upstream[c] = "answered"
  /\ c \notin hung
  /\ \A b \in Branches : Winner(c, b) => leg[c][b] # "ended"

\* Another callee of the fork, which answered too, has: its BYE ends the call
\* for the proxy (OnlyPartiesEndCalls).
LoserHungUp(c) == \E b \in Branches : ~ Winner(c, b) /\ leg[c][b] = "ended"
Undisturbed(c) == Talking(c) /\ ~ LoserHungUp(c)

\* proxy.go, calls, affinity, spoofCache: while two sides talk, and no third
\* one has hung up, the tables have what their next request needs.
CallIsKnown ==
  \A c \in Calls :
    Undisturbed(c) =>
      /\ calls[c] # None
      /\ c \in of_user => affinity[c] = target[c]
      /\ c \in spoofed => c \in spoof_cache

\* proxy.go, deferred clean-ups and cleanupCall: an entry has a handler, a call
\* state or a clean-up under way that will remove it, in whatever order the
\* call failed, was answered and ended.
CleaningUp(c, steps) == \E bye \in byes : bye.of = c /\ bye.step \in steps
NoLeftovers ==
  \A c \in Calls :
    /\ c \in active_tx => Running(c)
    /\ affinity[c] # None
         => Running(c) \/ calls[c] # None \/ CleaningUp(c, {"affinity"})
    /\ c \in spoof_cache
         => \/ Running(c) \/ calls[c] # None
            \/ CleaningUp(c, {"affinity", "spoofed"})

\* proxy.go:985, "a dropped 2xx ACK strands the callee": the ACK to an answer
\* reaches the callee, if only one has answered, with the number it expects.
Answered(c) ==
  {b \in Branches : leg[c][b] \in {"answered", "confirmed", "ended"}}
AckReachesCallee ==
  \A c \in Calls, b \in Branches :
    c \in acked /\ Answered(c) = {b} => leg[c][b] # "answered"

\* proxy.go, selectTargetForUsers: while a user talks, the user's next call
\* goes to a node that has a call of the user, which is being made, recorded or
\* cleaned up after.
SameUserSameFs ==
  [][\A c, d \in of_user' :
       target[c] = None /\ target'[c] # None /\ kind'[c] = "to_fs"
         /\ Undisturbed(d)
         => \E e \in of_user :
              /\ Running(e) \/ calls[e] # None \/ CleaningUp(e, {"affinity"})
              /\ target'[c] = target[e]]_vars

\* proxy.go:614: once the handler of a fork has returned, only branches whose
\* INVITE was on its way to be listed still ring.
LosersReleased ==
  \A c \in Calls, b \in Branches :
    pc[c] = "done" /\ leg[c][b] = "ringing"
      => branch[c][b] = "unlisted" \/ <<c, b>> \in late

\* proxy.go: an INVITE stays without a final response for ever only because a
\* callee rings for ever, or the transaction of a leg ended without a word; what
\* one callee decides for all reaches the caller whatever the others do.
InviteIsAnswered ==
  \A c \in Calls :
    /\ []<>(\/ upstream[c] # "calling"
           \/ \E b \in Branches : leg[c][b] \in {"ringing", "closed"})
    /\ \A b \in Branches :
         leg[c][b] \in {"answered", "declined"} ~> upstream[c] # "calling"

\* proxy.go:948, "Call terminated after remote BYE race": a BYE is answered
\* 481 if the other side has hung up as well, and so the call is over.
OnlyPartiesEndCalls ==
  [][\A c \in Calls :
       calls[c] # None /\ calls'[c] = None
         => c \in hung \/ leg[c][calls[c].leg] = "ended"]_vars
==============================================================================
