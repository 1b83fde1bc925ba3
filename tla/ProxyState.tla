------------------------------ MODULE ProxyState ------------------------------
(***************************************************************************)
(* The tables of src/sbc/proxy.go and the transactions of a call, as its   *)
(* handlers see them.  A Call-ID is followed through one INVITE, from one  *)
(* of three kinds of callers, and one dialog.  Affinity is that of one     *)
(* user, whom some of the calls are from or to.                            *)
(***************************************************************************)
EXTENDS Integers, FiniteSets

CONSTANTS
  Calls,     \* Call-IDs
  Branches,  \* legs a call can have: contacts of a user, or the only leg
  Only,      \* the leg of a call to FreeSWITCH or to a trunk
  Targets,   \* FreeSWITCH nodes the dispatcher knows
  Kinds,     \* which kinds of calls there are
  None

ASSUME ProxyConstants ==
  /\ Only \in Branches
  /\ None \notin Targets
  /\ None \notin Branches
  /\ None \notin [leg : Branches, offset : 0 .. 1]
  /\ Kinds \subseteq {"to_fs", "to_user", "to_trunk"}

VARIABLES
  kind,       \* [Calls -> kind of the call, or None]
  pc,         \* [Calls -> where the handler of its INVITE is]
  upstream,   \* [Calls -> what the caller was answered]
  target,     \* [Calls -> FreeSWITCH node of the call]
  of_user,    \* calls that are the user's
  branch,     \* [Calls -> [Branches -> goroutine of the branch]]
  leg,        \* [Calls -> [Branches -> the INVITE at the callee]]
  late,       \* branches sent after the handler had cancelled the others
  watching,   \* calls whose CANCEL has a handler (tx.OnCancel)
  digested,   \* calls whose INVITE was sent again with credentials
  calls,      \* [Calls -> call state, or None]
  active_tx,  \* calls with an entry to cancel
  affinity,   \* [Calls -> node the user is pinned to by the call]
  spoofed,    \* calls whose caller's number is not the trunk's
  spoof_cache \* calls with an entry for the spoofed number

inviteVars ==
  <<kind, pc, upstream, target, of_user, branch, leg, late, watching, digested>>
tables == <<calls, active_tx, affinity, spoofed, spoof_cache>>

\* The handler: before the INVITE, target chosen, affinity saved, INVITE sent,
\* reading responses, in the digest retry, dialog recorded, returned.
PCs == {"none", "selected", "saved", "sent", "waiting", "digest", "recorded",
        "done"}
Running(c) == pc[c] \notin {"none", "done"}

\* At the callee: no INVITE yet, ringing, or how it ended.  A closed leg is one
\* whose transaction ended with neither a response nor an error.  An answered
\* one is confirmed by the caller's ACK and ends with a BYE.
Legs == {"none", "ringing", "answered", "refused", "declined", "failed",
         "closed", "stopped", "challenged", "confirmed", "ended"}

\* A goroutine of a fork: not there, connecting, INVITE sent, listed among the
\* branches and listening, its 2xx the one that counts, or read and done with.
BranchStates == {"none", "sending", "unlisted", "listening", "won", "over"}

CallState(b, offset) == [leg |-> b, offset |-> offset]

\* What the caller hears: nothing final, a 2xx, another final response, or
\* the 487 that the library answers to a CANCEL.
Upstream == {"none", "calling", "answered", "failed", "cancelled"}

\* The library drops a response to a transaction that has its final one.
Respond(c, final) ==
  upstream' =
    [upstream EXCEPT ![c] = IF @ = "calling" THEN final ELSE @]

ProxyInit ==
  /\ kind = [c \in Calls |-> None]
  /\ pc = [c \in Calls |-> "none"]
  /\ upstream = [c \in Calls |-> "none"]
  /\ target = [c \in Calls |-> None]
  /\ of_user = {}
  /\ branch = [c \in Calls |-> [b \in Branches |-> "none"]]
  /\ leg = [c \in Calls |-> [b \in Branches |-> "none"]]
  /\ late = {}
  /\ watching = {}
  /\ digested = {}
  /\ calls = [c \in Calls |-> None]
  /\ active_tx = {}
  /\ affinity = [c \in Calls |-> None]
  /\ spoofed = {}
  /\ spoof_cache = {}

Go(c, to) == pc' = [pc EXCEPT ![c] = to]
SetLeg(c, b, to) == leg' = [leg EXCEPT ![c][b] = to]

SaveAffinity(c, t) ==
  affinity' = [affinity EXCEPT ![c] = IF c \in of_user THEN t ELSE @]

\* Mutant: no pin is taken for a node.
SelectableUnchecked(is_users) ==
  IF is_users THEN {affinity[c] : c \in Calls} ELSE Targets

\* An active call of the user decides the node; otherwise the dispatcher does.
Selectable(is_users) ==
  LET pinned == {affinity[c] : c \in Calls} \ {None}
  IN  IF is_users /\ pinned # {} THEN pinned ELSE Targets

\* Mutant: clean-up is deferred for calls that are established, too.
ReturnForgets(c, established) ==
  /\ Go(c, "done")
  /\ active_tx' = active_tx \ {c}
  /\ affinity' = [affinity EXCEPT ![c] = IF kind[c] = "to_trunk" THEN @ ELSE None]
  /\ spoof_cache' = spoof_cache \ {c}

\* The deferred calls of a handler that returns.
Return(c, established) ==
  /\ Go(c, "done")
  /\ active_tx' = active_tx \ {c}
  /\ affinity' =
       [affinity EXCEPT ![c] =
          IF established \/ kind[c] = "to_trunk" THEN @ ELSE None]
  /\ spoof_cache' = IF established THEN spoof_cache ELSE spoof_cache \ {c}

\* CANCEL stops a leg that still rings.
Stopped(l) == IF l = "ringing" THEN "stopped" ELSE l

\* Mutant: one listed branch is cancelled, not all.
CancelOne(c) ==
  LET ringing == {b \in Branches :
                    branch[c][b] = "listening" /\ leg[c][b] = "ringing"}
  IN  IF ringing = {} THEN UNCHANGED leg
      ELSE \E b \in ringing : SetLeg(c, b, "stopped")

\* cancelBranch for every branch in the list.
CancelListed(c) ==
  leg' = [leg EXCEPT ![c] =
    [b \in Branches |->
       IF branch[c][b] = "listening" THEN Stopped(@[b]) ELSE @[b]]]

\* cancelOutgoing: the INVITE of the entry for the call, if there is one.
CancelOutgoing(c) ==
  leg' = [leg EXCEPT ![c][Only] =
            IF c \in active_tx THEN Stopped(@) ELSE @]
==============================================================================
