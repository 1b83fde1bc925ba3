---------------------------- MODULE PresenceLapse ----------------------------
(***************************************************************************)
(* What the server does when the SBC tells it of a member's registration   *)
(* (member_controller.ex and org_member.ex under src/server).  A request   *)
(* is handled by a process of its own, which reads and writes the member's *)
(* row and two Redis keys in separate steps.  What sessions and calls do   *)
(* to the row and the keys is a step of its own each.  Busy, which no call *)
(* owns and a timer ends, is treated as Wrap Up is.                        *)
(***************************************************************************)
EXTENDS Integers

CONSTANT Posts   \* requests under way at a time

VARIABLES
  presence,     \* the column of the member's row
  lapsed_key,   \* the Redis key presence_before_lapse, or "none"
  previous_key, \* the Redis key previous_presence, or "none"
  post          \* [Posts -> the request and how far it got]

keys == <<lapsed_key, previous_key>>
presenceVars == <<presence, keys, post>>

Presence == {"Available", "On Break", "Wrap Up", "On Call", "Logged Out"}
Lapsing == {"Available", "On Break", "Wrap Up"}

Actions == {"registered", "unregistered", "expired"}
Steps == {"sent", "read", "kept", "undo", "restore", "forgotten", "not_lapsed",
          "revert", "rewrite", "clean_up"}
NoPost == [step |-> "idle"]

Send(p, action) ==
  /\ post[p] = NoPost
  /\ post' = [post EXCEPT ![p] = [step |-> "sent", action |-> action,
                                  saw |-> "none"]]

At(p, action, step) ==
  post[p] # NoPost /\ post[p].action = action /\ post[p].step = step
Goes(p, step, saw) == post' = [post EXCEPT ![p].step = step, ![p].saw = saw]
Ends(p) == post' = [post EXCEPT ![p] = NoPost]

Lost(p) ==
  /\ post[p].step = "sent"
  /\ Ends(p)
  /\ UNCHANGED <<presence, keys>>

\* forget_presence_before_lapse, then an unconditional update.
ForgetLapse(p) ==
  /\ At(p, "unregistered", "sent")
  /\ lapsed_key' = "none"
  /\ Goes(p, "forgotten", "none")
  /\ UNCHANGED <<presence, previous_key>>

LogOut(p) ==
  /\ At(p, "unregistered", "forgotten")
  /\ presence' = "Logged Out"
  /\ Ends(p)
  /\ UNCHANGED keys

\* log_out_until_registered: read the row, set the key, update the row if it
\* is still the same, and delete the key if it is not.
ReadPresence(p) ==
  /\ At(p, "expired", "sent")
  /\ IF presence \in Lapsing THEN Goes(p, "read", presence) ELSE Ends(p)
  /\ UNCHANGED <<presence, keys>>

KeepPresence(p) ==
  /\ At(p, "expired", "read")
  /\ lapsed_key' = IF post[p].saw = "On Break" THEN "On Break" ELSE "Available"
  /\ Goes(p, "kept", post[p].saw)
  /\ UNCHANGED <<presence, previous_key>>

\* Mutant: the row is updated without the condition.
LogOutAnyway(p) ==
  /\ At(p, "expired", "kept")
  /\ presence' = "Logged Out"
  /\ Ends(p)
  /\ UNCHANGED keys

LogOutIfUnchanged(p) ==
  /\ At(p, "expired", "kept")
  /\ \/ presence = post[p].saw /\ presence' = "Logged Out" /\ Ends(p)
     \/ presence # post[p].saw /\ Goes(p, "undo", "none") /\ UNCHANGED presence
  /\ UNCHANGED keys

ForgetKept(p) ==
  /\ At(p, "expired", "undo")
  /\ lapsed_key' = "none"
  /\ Ends(p)
  /\ UNCHANGED <<presence, previous_key>>

\* restore_presence_after_lapse: get and delete the key, update the row if the
\* member is still Logged Out.
TakeKept(p) ==
  /\ At(p, "registered", "sent")
  /\ IF lapsed_key = "none" THEN Goes(p, "not_lapsed", "none")
                            ELSE Goes(p, "read", lapsed_key)
  /\ UNCHANGED <<presence, keys>>

DeleteKept(p) ==
  /\ At(p, "registered", "read")
  /\ lapsed_key' = "none"
  /\ Goes(p, "restore", post[p].saw)
  /\ UNCHANGED <<presence, previous_key>>

RestoreIfLoggedOut(p) ==
  /\ At(p, "registered", "restore")
  /\ presence' = IF presence = "Logged Out" THEN post[p].saw ELSE presence
  /\ Ends(p)
  /\ UNCHANGED keys

\* When there is nothing to restore, revert_member_presence_from_logged_out:
\* read the row, get the other key, write the row whatever it is by then, and
\* delete the key.
ReadLoggedOut(p) ==
  /\ At(p, "registered", "not_lapsed")
  /\ IF presence = "Logged Out" THEN Goes(p, "revert", "none") ELSE Ends(p)
  /\ UNCHANGED <<presence, keys>>

TakePrevious(p) ==
  /\ At(p, "registered", "revert")
  /\ IF previous_key \in {"none", "Logged Out"}
       THEN Goes(p, "clean_up", "none")
       ELSE Goes(p, "rewrite", previous_key)
  /\ UNCHANGED <<presence, keys>>

WritePrevious(p) ==
  /\ At(p, "registered", "rewrite")
  /\ presence' = post[p].saw
  /\ Goes(p, "clean_up", "none")
  /\ UNCHANGED keys

DeletePrevious(p) ==
  /\ At(p, "registered", "clean_up")
  /\ previous_key' = "none"
  /\ Ends(p)
  /\ UNCHANGED <<presence, lapsed_key>>

ServerStep(p) ==
  \/ ForgetLapse(p) \/ LogOut(p)
  \/ ReadPresence(p) \/ KeepPresence(p) \/ LogOutIfUnchanged(p) \/ ForgetKept(p)
  \/ TakeKept(p) \/ DeleteKept(p) \/ RestoreIfLoggedOut(p)
  \/ ReadLoggedOut(p) \/ TakePrevious(p) \/ WritePrevious(p) \/ DeletePrevious(p)

\* Other writers of the row: the member, the member's session, and calls.
MemberPicks(v) ==
  /\ presence # v
  /\ presence' = v
  /\ UNCHANGED <<keys, post>>

\* update_member_presence_to_on_call, which a session calls unless the member
\* is Logged Out.
CallStarts ==
  /\ presence \notin {"On Call", "Logged Out"}
  /\ previous_key' = presence
  /\ presence' = "On Call"
  /\ UNCHANGED <<lapsed_key, post>>

\* The end of a leg that a queue dialled, and of the wrap-up after it.
QueueCallEnds ==
  /\ \/ presence = "On Call" /\ presence' = "Wrap Up"
     \/ presence = "Wrap Up" /\ presence' = "Available"
  /\ UNCHANGED <<keys, post>>

\* revert_member_presence_from_on_call, at the end of any other leg, writes
\* the row whatever it is.
DirectCallEnds ==
  /\ presence' = IF previous_key \in {"none", "On Call"} THEN "Available"
                                                       ELSE previous_key
  /\ previous_key' = "none"
  /\ UNCHANGED <<lapsed_key, post>>

\* force_member_logged_out, after too many attempts without an answer.
ForceLogOut ==
  /\ previous_key' = "Logged Out"
  /\ presence' = "Logged Out"
  /\ UNCHANGED <<lapsed_key, post>>
==============================================================================
