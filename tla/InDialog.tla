------------------------------- MODULE InDialog -------------------------------
(***************************************************************************)
(* What follows an INVITE in src/sbc/proxy.go: CANCEL (cancelOutgoing and  *)
(* the OnCancel functions), ACK (handleAck) and BYE (relayInDialog).  Any  *)
(* request of a dialog finds its call by the Call-ID alone, whichever leg  *)
(* of a fork it comes from.                                                *)
(***************************************************************************)
EXTENDS ProxyState

VARIABLES
  acked,  \* calls whose caller has sent the ACK to its 2xx
  hung,   \* calls whose caller has left the dialog
  byes    \* BYEs being relayed: call, sender, the call state read, next step

dialogVars == <<acked, hung, byes>>

Caller == "caller"

DialogInit ==
  /\ acked = {}
  /\ hung = {}
  /\ byes = {}

\* The library answers the INVITE 487 and calls the OnCancel function, if one
\* has been set by then.
Cancel(c) ==
  /\ upstream[c] = "calling"
  /\ Respond(c, "cancelled")
  /\ \/ /\ c \in watching
        /\ \/ kind[c] # "to_user" /\ CancelOutgoing(c)
           \/ kind[c] = "to_user" /\ CancelListed(c)
     \/ c \notin watching /\ UNCHANGED leg
  /\ UNCHANGED <<kind, pc, target, of_user, branch, late, watching, digested,
                 tables, dialogVars>>

\* The CSeq the callee's dialog expects of an ACK.
InviteCSeq(c) == IF c \in digested THEN 1 ELSE 0

\* handleAck: to the leg of the call's state, or nowhere.
Ack(c) ==
  /\ upstream[c] = "answered"
  /\ c \notin acked \cup hung
  /\ acked' = acked \cup {c}
  /\ LET state == calls[c] IN
       IF /\ state # None
          /\ leg[c][state.leg] = "answered"
          /\ state.offset = InviteCSeq(c)
       THEN SetLeg(c, state.leg, "confirmed")
       ELSE UNCHANGED leg
  /\ UNCHANGED <<kind, pc, upstream, target, of_user, branch, late, watching,
                 digested, tables, hung, byes>>

\* Without an ACK a callee gives up after half a minute, when its answer has
\* long been read.
InDialogAt(c, side) ==
  IF side = Caller
  THEN upstream[c] = "answered" /\ c \notin hung
  ELSE \/ leg[c][side] = "answered" /\ pc[c] \in {"recorded", "done"}
       \/ leg[c][side] = "confirmed"

Leaves(c, side) ==
  IF side = Caller THEN hung' = hung \cup {c} /\ UNCHANGED leg
                   ELSE SetLeg(c, side, "ended") /\ UNCHANGED hung

\* The caller's side is outside for a call to FreeSWITCH, the other side for
\* the rest.
Outside(c, side) == (side = Caller) = (kind[c] = "to_fs")

\* A trunk is let in by its number, which a call with another number only has
\* in the cache.
Authorizable(c) == c \in spoofed => c \in spoof_cache

Relayed(c, side, state, step) ==
  [of |-> c, from |-> side, state |-> state, step |-> step]

\* relayInDialog until it waits for the other side's answer.  A BYE without a
\* call state is answered 200; one from outside may be refused.
Bye(c, side) ==
  /\ InDialogAt(c, side)
  /\ Leaves(c, side)
  /\ \/ calls[c] = None /\ UNCHANGED byes
     \/ calls[c] # None /\ Outside(c, side) /\ UNCHANGED byes
     \/ /\ calls[c] # None
        /\ Outside(c, side) => Authorizable(c)
        /\ byes' = byes \cup {Relayed(c, side, calls[c], "sent")}
  /\ UNCHANGED <<kind, pc, upstream, target, of_user, branch, late, watching,
                 digested, tables, acked>>

\* Whom a BYE goes to, and whether that side has the dialog it names.
Peer(bye) == IF bye.from = Caller THEN bye.state.leg ELSE Caller
PeerHasDialog(bye) ==
  /\ InDialogAt(bye.of, Peer(bye))
  /\ bye.from \in {Caller, bye.state.leg}

Goes(bye, step) ==
  byes' = (byes \ {bye}) \cup {Relayed(bye.of, bye.from, bye.state, step)}

\* cleanupCall clears one table after the other, each under a lock of its own.
ForgetCall(bye) ==
  /\ calls' = [calls EXCEPT ![bye.of] = None]
  /\ Goes(bye, "affinity")

\* The other side answers 200, or 481 if it has no such dialog, or cannot be
\* reached; any other answer leaves the call's state alone.
ByeAnswered(bye) ==
  /\ bye.step = "sent"
  /\ IF PeerHasDialog(bye)
     THEN \/ Leaves(bye.of, Peer(bye)) /\ ForgetCall(bye)
          \/ UNCHANGED <<leg, hung>> /\ ForgetCall(bye)
          \/ UNCHANGED <<leg, hung, calls>> /\ byes' = byes \ {bye}
     ELSE ForgetCall(bye) /\ UNCHANGED <<leg, hung>>
  /\ UNCHANGED <<kind, pc, upstream, target, of_user, branch, late, watching,
                 digested, active_tx, affinity, spoofed, spoof_cache, acked>>

ForgetAffinity(bye) ==
  /\ bye.step = "affinity"
  /\ affinity' = [affinity EXCEPT ![bye.of] = None]
  /\ Goes(bye, "spoofed")
  /\ UNCHANGED <<inviteVars, calls, active_tx, spoofed, spoof_cache, acked,
                 hung>>

\* Mutant: the spoofed number's entry is kept.
KeepSpoofed(bye) ==
  /\ bye.step = "spoofed"
  /\ byes' = byes \ {bye}
  /\ UNCHANGED <<inviteVars, tables, acked, hung>>

ForgetSpoofed(bye) ==
  /\ bye.step = "spoofed"
  /\ spoof_cache' = spoof_cache \ {bye.of}
  /\ byes' = byes \ {bye}
  /\ UNCHANGED <<inviteVars, calls, active_tx, affinity, spoofed, acked, hung>>

DialogStep(c) ==
  \/ Cancel(c)
  \/ Ack(c)
  \/ \E side \in {Caller} \cup Branches : Bye(c, side)
  \/ \E bye \in byes :
       /\ bye.of = c
       /\ ByeAnswered(bye) \/ ForgetAffinity(bye) \/ ForgetSpoofed(bye)
==============================================================================
