----------------------------- MODULE InviteToOne ------------------------------
(***************************************************************************)
(* INVITEs that have one leg: from a telephone or a trunk to FreeSWITCH    *)
(* (handleInviteToFS) and from FreeSWITCH to a trunk                       *)
(* (handleInviteFromFSToTrunk), in src/sbc/proxy.go.                       *)
(***************************************************************************)
EXTENDS ProxyState

\* handleInviteToFS, of a request that is let in.
SelectTarget(c) ==
  /\ "to_fs" \in Kinds
  /\ pc[c] = "none"
  /\ kind' = [kind EXCEPT ![c] = "to_fs"]
  /\ \E is_users \in BOOLEAN :
       /\ of_user' = IF is_users THEN of_user \cup {c} ELSE of_user
       /\ \E t \in Selectable(is_users) :
            /\ target' = [target EXCEPT ![c] = t]
            /\ Go(c, "selected")
            /\ upstream' = [upstream EXCEPT ![c] = "calling"]
  /\ UNCHANGED <<branch, leg, late, watching, digested, tables>>

SaveTarget(c) ==
  /\ kind[c] = "to_fs"
  /\ pc[c] = "selected"
  /\ SaveAffinity(c, target[c])
  /\ Go(c, "saved")
  /\ UNCHANGED <<kind, upstream, target, of_user, branch, leg, late, watching,
                 digested, calls, active_tx, spoofed, spoof_cache>>

\* handleInviteFromFSToTrunk, of a request with a trunk that is known.
StartTrunk(c) ==
  /\ "to_trunk" \in Kinds
  /\ pc[c] = "none"
  /\ kind' = [kind EXCEPT ![c] = "to_trunk"]
  /\ upstream' = [upstream EXCEPT ![c] = "calling"]
  /\ \E t \in Targets : target' = [target EXCEPT ![c] = t]
  /\ \E spoofs \in BOOLEAN :
       /\ spoofed' = IF spoofs THEN spoofed \cup {c} ELSE spoofed
       /\ spoof_cache' = IF spoofs THEN spoof_cache \cup {c} ELSE spoof_cache
  /\ Go(c, "saved")
  /\ UNCHANGED <<of_user, branch, leg, late, watching, digested, calls,
                 active_tx, affinity>>

\* The INVITE is forwarded, or cannot be (483, 502).
SendOnly(c) ==
  /\ kind[c] # "to_user"
  /\ pc[c] = "saved"
  /\ \/ /\ SetLeg(c, Only, "ringing")
        /\ Go(c, "sent")
        /\ UNCHANGED <<upstream, active_tx, affinity, spoof_cache>>
     \/ Respond(c, "failed") /\ Return(c, FALSE) /\ UNCHANGED leg
  /\ UNCHANGED <<kind, target, of_user, branch, late, watching, digested,
                 calls, spoofed>>

\* activeTx.Store, tx.OnCancel.
StartWaiting(c) ==
  /\ kind[c] # "to_user"
  /\ pc[c] = "sent"
  /\ active_tx' = active_tx \cup {c}
  /\ watching' = watching \cup {c}
  /\ Go(c, "waiting")
  /\ UNCHANGED <<kind, upstream, target, of_user, branch, leg, late, digested,
                 calls, affinity, spoofed, spoof_cache>>

\* A final response other than a 2xx, or a transaction that fails (408, 502).
RelayFailure(c) ==
  /\ kind[c] # "to_user"
  /\ pc[c] \in {"waiting", "digest"}
  /\ leg[c][Only] \in {"refused", "declined", "failed", "stopped"}
  /\ Respond(c, "failed")
  /\ Return(c, FALSE)
  /\ UNCHANGED <<kind, target, of_user, branch, leg, late, watching, digested,
                 calls, spoofed>>

\* The transaction ends, or its channel is closed, without an error: the handler
\* returns, and the caller hears nothing.
TransactionEnds(c) ==
  /\ kind[c] # "to_user"
  /\ pc[c] = "waiting"
  /\ leg[c][Only] = "closed"
  /\ Return(c, FALSE)
  /\ UNCHANGED <<kind, upstream, target, of_user, branch, leg, late, watching,
                 digested, calls, spoofed>>

\* A 401 or 407 of a trunk: the entry goes, and the INVITE is sent again with
\* credentials and the next CSeq while the handler waits.
RetryWithDigest(c) ==
  /\ kind[c] = "to_trunk"
  /\ pc[c] = "waiting"
  /\ leg[c][Only] = "challenged"
  /\ active_tx' = active_tx \ {c}
  /\ digested' = digested \cup {c}
  /\ SetLeg(c, Only, "ringing")
  /\ Go(c, "digest")
  /\ UNCHANGED <<kind, upstream, target, of_user, branch, late, watching,
                 calls, affinity, spoofed, spoof_cache>>

\* Mutant: the digest retry is forgotten.
NoOffset(c) == 0

\* How far the trunk's CSeq is ahead of FreeSWITCH's.
DigestCSeqOffset(c) == IF c \in digested THEN 1 ELSE 0

\* A 2xx: the dialog is recorded before the response goes upstream.
RecordCall(c) ==
  /\ kind[c] # "to_user"
  /\ pc[c] \in {"waiting", "digest"}
  /\ leg[c][Only] = "answered"
  /\ calls' = [calls EXCEPT ![c] = CallState(Only, DigestCSeqOffset(c))]
  /\ Go(c, "recorded")
  /\ UNCHANGED <<kind, upstream, target, of_user, branch, leg, late, watching,
                 digested, active_tx, affinity, spoofed, spoof_cache>>

RelayAnswer(c) ==
  /\ kind[c] # "to_user"
  /\ pc[c] = "recorded"
  /\ Respond(c, "answered")
  /\ Return(c, TRUE)
  /\ UNCHANGED <<kind, target, of_user, branch, leg, late, watching, digested,
                 calls, spoofed>>

OneLegStep(c) ==
  \/ SelectTarget(c) \/ SaveTarget(c) \/ StartTrunk(c)
  \/ SendOnly(c) \/ StartWaiting(c)
  \/ RelayFailure(c) \/ TransactionEnds(c) \/ RetryWithDigest(c)
  \/ RecordCall(c) \/ RelayAnswer(c)
==============================================================================
