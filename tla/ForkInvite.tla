------------------------------ MODULE ForkInvite ------------------------------
(***************************************************************************)
(* handleInviteFromFSToUser in src/sbc/proxy.go: an INVITE is sent to every*)
(* contact of a user by a goroutine of its own; the first 2xx or 6xx ends  *)
(* the rest.  A goroutine lists its branch after its INVITE has been sent, *)
(* and only branches in the list can be cancelled.                         *)
(***************************************************************************)
EXTENDS ProxyState

\* Contacts are looked up, affinity is saved, the goroutines start.
StartFork(c) ==
  /\ "to_user" \in Kinds
  /\ pc[c] = "none"
  /\ kind' = [kind EXCEPT ![c] = "to_user"]
  /\ upstream' = [upstream EXCEPT ![c] = "calling"]
  /\ of_user' = of_user \cup {c}
  /\ \E t \in Targets :
       /\ target' = [target EXCEPT ![c] = t]
       /\ affinity' = [affinity EXCEPT ![c] = t]
  /\ \E contacts \in SUBSET Branches \ {{}} :
       branch' = [branch EXCEPT ![c] =
         [b \in Branches |-> IF b \in contacts THEN "sending" ELSE "none"]]
  /\ Go(c, "sent")
  /\ UNCHANGED <<leg, late, watching, digested, calls, active_tx, spoofed,
                 spoof_cache>>

StartCollecting(c) ==
  /\ kind[c] = "to_user"
  /\ pc[c] = "sent"
  /\ active_tx' = active_tx \cup {c}
  /\ watching' = watching \cup {c}
  /\ Go(c, "waiting")
  /\ UNCHANGED <<kind, upstream, target, of_user, branch, leg, late, digested,
                 calls, affinity, spoofed, spoof_cache>>

SetBranch(c, b, to) == branch' = [branch EXCEPT ![c][b] = to]
Handler == <<kind, pc, upstream, target, of_user, watching, digested, tables>>

\* The goroutine of a branch: connect and send, list the branch, and hand over
\* responses until the handler has returned.
SendBranch(c, b) ==
  /\ branch[c][b] = "sending"
  /\ \/ SetBranch(c, b, "unlisted") /\ SetLeg(c, b, "ringing")
     \/ SetBranch(c, b, "listening") /\ SetLeg(c, b, "failed")
  /\ UNCHANGED <<late, Handler>>

ListBranch(c, b) ==
  /\ branch[c][b] = "unlisted"
  /\ SetBranch(c, b, "listening")
  /\ late' = IF pc[c] = "done" THEN late \cup {<<c, b>>} ELSE late
  /\ UNCHANGED <<leg, Handler>>

BranchEnds(c, b) ==
  /\ pc[c] = "done"
  /\ branch[c][b] = "listening"
  /\ SetBranch(c, b, "over")
  /\ UNCHANGED <<leg, late, Handler>>

\* A result the handler has not read yet.  The goroutine of a branch whose
\* transaction is closed ends without one, and the handler still counts on it.
Result(c, b) ==
  /\ kind[c] = "to_user"
  /\ pc[c] = "waiting"
  /\ branch[c][b] = "listening"
  /\ leg[c][b] \in {"answered", "refused", "declined", "failed", "stopped"}

\* Mutant: contacts that have failed are waited for.
PendingEver(c) == {b \in Branches : branch[c][b] # "none"}

Pending(c) == {b \in Branches : branch[c][b] \notin {"none", "won", "over"}}

\* A failure of one contact; the last one ends the call with the best of them.
BranchFails(c, b) ==
  /\ Result(c, b)
  /\ leg[c][b] \in {"refused", "failed", "stopped"}
  /\ SetBranch(c, b, "over")
  /\ IF Pending(c) = {b}
     THEN Respond(c, "failed") /\ Return(c, FALSE)
     ELSE UNCHANGED <<pc, upstream, active_tx, affinity, spoof_cache>>
  /\ UNCHANGED <<kind, target, of_user, leg, late, watching, digested, calls,
                 spoofed>>

\* A 6xx refuses the call everywhere.
GlobalFailure(c, b) ==
  /\ Result(c, b)
  /\ leg[c][b] = "declined"
  /\ SetBranch(c, b, "over")
  /\ CancelListed(c)
  /\ Respond(c, "failed")
  /\ Return(c, FALSE)
  /\ UNCHANGED <<kind, target, of_user, late, watching, digested, calls,
                 spoofed>>

\* A 2xx wins: recorded first, then relayed, then the others are cancelled.
RecordWinner(c, b) ==
  /\ Result(c, b)
  /\ leg[c][b] = "answered"
  /\ calls' = [calls EXCEPT ![c] = CallState(b, 0)]
  /\ SetBranch(c, b, "won")
  /\ Go(c, "recorded")
  /\ UNCHANGED <<kind, upstream, target, of_user, leg, late, watching,
                 digested, active_tx, affinity, spoofed, spoof_cache>>

RelayWinner(c) ==
  /\ kind[c] = "to_user"
  /\ pc[c] = "recorded"
  /\ Respond(c, "answered")
  /\ CancelListed(c)
  /\ Return(c, TRUE)
  /\ UNCHANGED <<kind, target, of_user, branch, late, watching, digested,
                 calls, spoofed>>

ForkStep(c) ==
  \/ StartFork(c) \/ StartCollecting(c) \/ RelayWinner(c)
  \/ \E b \in Branches :
       \/ SendBranch(c, b) \/ ListBranch(c, b) \/ BranchEnds(c, b)
       \/ BranchFails(c, b) \/ GlobalFailure(c, b) \/ RecordWinner(c, b)
==============================================================================
