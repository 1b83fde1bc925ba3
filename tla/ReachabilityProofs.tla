------------------------- MODULE ReachabilityProofs --------------------------
(***************************************************************************)
(* Proofs about Reachability, for any addresses, posts and bounds: types,  *)
(* that a call's presence survives a lapse, and that an AOR without a live *)
(* contact is always on its way to be reported to the server.              *)
(***************************************************************************)
EXTENDS Reachability, TLAPS

USE RegistrarConstants, ReachabilityConstants

Kept == {"Available", "On Break"}
Requests == [step : Steps, action : Actions, saw : {"none"} \cup Presence]

(* What a request read from the row, or from the key.                      *)
RequestOK(r) ==
  r # NoPost =>
    /\ r \in Requests
    /\ r.action = "expired" /\ r.step \in {"read", "kept"} => r.saw \in Lapsing
    /\ r.action = "registered" /\ r.step \in {"read", "restore"} => r.saw \in Kept
    /\ r.step = "rewrite" => r.saw \in Presence

ContactsInv ==
  /\ contacts \in [Addrs -> Contact \cup {NoContact}]
  /\ listed \in BOOLEAN
  /\ Held # {} => listed

PresenceInv ==
  /\ presence \in Presence
  /\ lapsed_key \in {"none"} \cup Kept
  /\ previous_key \in {"none"} \cup (Presence \ {"On Call"})
  /\ DOMAIN post = Posts
  /\ \A p \in Posts : RequestOK(post[p])

LapsesInv == lapses \in 0 .. MaxLapses

----------------------------------------------------------------------------
(* The registrar.                                                          *)

LEMMA ContactIsHeld ==
  ASSUME NEW c \in Contact
  PROVE  c # NoContact
BY DEF Contact, NoContact

(* Every method but Register takes contacts away, or changes one.          *)
ContactsStay ==
  /\ contacts' \in [Addrs -> Contact \cup {NoContact}]
  /\ \A d \in Addrs : contacts'[d] # NoContact => contacts[d] # NoContact

LEMMA StaysHeld ==
  ASSUME ContactsInv, ContactsStay, Held' # {}
  PROVE  listed
BY DEF ContactsInv, ContactsStay, Held

LEMMA RegisterOK ==
  ASSUME ContactsInv, NEW d \in Addrs, NEW nat \in BOOLEAN, Register(d, nat)
  PROVE  ContactsInv' /\ IsRegistered'
<1> DEFINE new == [live |-> TRUE, nat |-> nat, missed |-> 0]
<1>1. new \in Contact
  BY DEF Contact
<1>2. new.live = TRUE
  OBVIOUS
<1> HIDE DEF new
<1>3. contacts' = [contacts EXCEPT ![d] = new] /\ listed' = TRUE
  BY DEF Register, new
<1>4. contacts'[d] = new
  BY <1>3 DEF ContactsInv
<1>5. IsRegistered'
  BY <1>1, <1>2, <1>4, ContactIsHeld DEF IsRegistered, LookupAll, Held
<1> QED
  BY <1>1, <1>3, <1>5 DEF ContactsInv

LEMMA UnregisterOK ==
  ASSUME ContactsInv, Unregister
  PROVE  ContactsInv'
BY DEF ContactsInv, Unregister, Held

LEMMA UnregisterContactOK ==
  ASSUME ContactsInv, NEW d \in Addrs, UnregisterContact(d)
  PROVE  ContactsInv' /\ listed' = listed
<1>1. ContactsStay
  BY DEF ContactsInv, ContactsStay, UnregisterContact
<1> QED
  BY <1>1, StaysHeld DEF ContactsInv, ContactsStay, UnregisterContact

LEMMA RunsOutOK ==
  ASSUME ContactsInv, NEW d \in Addrs, RunsOut(d)
  PROVE  ContactsInv' /\ listed' = listed /\ listed
<1>1. contacts[d] # NoContact /\ contacts[d] \in Contact
  BY DEF ContactsInv, RunsOut, LookupAll, Held
<1>2. [contacts[d] EXCEPT !.live = FALSE] \in Contact
  BY <1>1 DEF Contact
<1>3. ContactsStay
  BY <1>1, <1>2 DEF ContactsInv, ContactsStay, RunsOut
<1>4. listed
  BY <1>1 DEF ContactsInv, Held
<1> QED
  BY <1>3, <1>4, StaysHeld DEF ContactsInv, ContactsStay, RunsOut

LEMMA ReapOK ==
  ASSUME ContactsInv, Reap
  PROVE  ContactsInv' /\ (IsRegistered => IsRegistered')
<1>1. ContactsStay
  BY DEF ContactsInv, ContactsStay, Reap, Reaped, LookupAll, Held
<1>2. LookupAll' = LookupAll
  <2>1. Addrs = Addrs' /\ \A d \in Addrs :
          contacts'[d] = IF d \in LookupAll THEN contacts[d] ELSE NoContact
    BY DEF Reap, Reaped
  <2>2. \A d \in Addrs : d \in LookupAll <=>
          contacts[d] # NoContact /\ contacts[d].live
    BY DEF LookupAll, Held
  <2>3. LookupAll' = {d \in Addrs : contacts'[d] # NoContact /\ contacts'[d].live}
    BY DEF LookupAll, Held
  <2>4. LookupAll \subseteq Addrs
    BY DEF LookupAll, Held
  <2> QED
    BY <2>1, <2>2, <2>3, <2>4
<1>3. Held' = LookupAll
  BY DEF Reap, Reaped, Held, LookupAll
<1>4. Held' # {} => listed'
  BY <1>1, <1>3, StaysHeld DEF Reap, IsRegistered
<1> QED
  BY <1>1, <1>2, <1>4 DEF ContactsInv, ContactsStay, Reap, IsRegistered

LEMMA AnswerOK ==
  ASSUME ContactsInv, NEW d \in Addrs, PingAnswered(d)
  PROVE  ContactsInv' /\ listed' = listed /\ (IsRegistered => IsRegistered')
<1> DEFINE new == IF contacts[d] = NoContact THEN contacts[d]
                  ELSE [contacts[d] EXCEPT !.missed = 0]
<1>1. new \in Contact \cup {NoContact}
  BY DEF ContactsInv, Contact
<1>2. new = NoContact <=> contacts[d] = NoContact
  BY DEF ContactsInv, Contact, NoContact
<1>3. contacts[d] # NoContact => new.live = contacts[d].live
  BY DEF ContactsInv, Contact
<1>4. contacts' = [contacts EXCEPT ![d] = new] /\ listed' = listed
  BY DEF PingAnswered
<1> HIDE DEF new
<1>5. ContactsStay
  BY <1>1, <1>2, <1>4 DEF ContactsInv, ContactsStay
<1>6. \A e \in LookupAll : e \in LookupAll'
  BY <1>2, <1>3, <1>4 DEF ContactsInv, LookupAll, Held
<1> QED
  BY <1>4, <1>5, <1>6, StaysHeld DEF ContactsInv, ContactsStay, IsRegistered

LEMMA MissOK ==
  ASSUME ContactsInv, NEW d \in Addrs, PingMissed(d)
  PROVE  /\ ContactsInv'
         /\ MissEmpties(d) \/ listed' = listed
         /\ ~ MissEmpties(d) /\ IsRegistered => listed
<1> DEFINE new == IF d \notin Held \/ LastMiss(d) THEN NoContact
                  ELSE [contacts[d] EXCEPT !.missed = @ + 1]
<1>1. new \in Contact \cup {NoContact}
  <2>1. CASE d \in Held /\ ~ LastMiss(d)
    <3>1. contacts[d] \in Contact
      BY <2>1 DEF ContactsInv, Held
    <3>2. contacts[d].missed + 1 \in 0 .. MaxMissed - 1
      BY <2>1, <3>1 DEF LastMiss, Contact
    <3> QED
      BY <2>1, <3>1, <3>2 DEF Contact
  <2> QED
    BY <2>1
<1>2. contacts[d] = NoContact => new = NoContact
  BY DEF Held
<1>3. LastMiss(d) => new = NoContact
  OBVIOUS
<1>4. contacts' = [contacts EXCEPT ![d] = new]
  BY DEF PingMissed
<1> HIDE DEF new
<1>5. ContactsStay
  BY <1>1, <1>2, <1>4 DEF ContactsInv, ContactsStay
<1>6. MissEmpties(d) => Held' = {}
  BY <1>3, <1>4 DEF MissEmpties, Held, ContactsInv
<1>7. IsRegistered => listed
  BY DEF IsRegistered, LookupAll, ContactsInv
<1> QED
  BY <1>5, <1>6, <1>7, StaysHeld DEF ContactsInv, ContactsStay, PingMissed

LEMMA ContactsSame ==
  ASSUME ContactsInv, UNCHANGED registrarVars
  PROVE  ContactsInv' /\ IsRegistered' = IsRegistered
BY DEF ContactsInv, registrarVars, Held, IsRegistered, LookupAll


LEMMA RegisteredIsListed ==
  ASSUME ContactsInv, IsRegistered
  PROVE  listed
BY DEF ContactsInv, IsRegistered, LookupAll

----------------------------------------------------------------------------
(* The presence.                                                           *)

LEMMA PostSet ==
  ASSUME PresenceInv, NEW p \in Posts, NEW r, RequestOK(r),
         post' = [post EXCEPT ![p] = r]
  PROVE  DOMAIN post' = Posts /\ \A q \in Posts : RequestOK(post'[q])
<1>1. DOMAIN post' = Posts
  BY DEF PresenceInv
<1>2. post'[p] = r /\ \A q \in Posts \ {p} : post'[q] = post[q]
  BY DEF PresenceInv
<1> QED
  BY <1>1, <1>2 DEF PresenceInv

LEMMA SendOK ==
  ASSUME PresenceInv, NEW p \in Posts, NEW action \in Actions, Send(p, action)
  PROVE  DOMAIN post' = Posts /\ \A q \in Posts : RequestOK(post'[q])
<1> DEFINE r == [step |-> "sent", action |-> action, saw |-> "none"]
<1>1. RequestOK(r)
  BY DEF RequestOK, Requests, Steps
<1> HIDE DEF r
<1>2. post' = [post EXCEPT ![p] = r]
  BY DEF Send, r
<1> QED
  BY <1>1, <1>2, PostSet

LEMMA EndOK ==
  ASSUME PresenceInv, NEW p \in Posts, Ends(p)
  PROVE  DOMAIN post' = Posts /\ \A q \in Posts : RequestOK(post'[q])
BY PostSet DEF Ends, RequestOK

(* A request goes on with what it saw.                                     *)
LEMMA GoOK ==
  ASSUME PresenceInv, NEW p \in Posts, NEW action, NEW at, NEW step \in Steps,
         NEW saw \in {"none"} \cup Presence, At(p, action, at),
         Goes(p, step, saw),
         action = "expired" /\ step \in {"read", "kept"} => saw \in Lapsing,
         action = "registered" /\ step \in {"read", "restore"} => saw \in Kept,
         step = "rewrite" => saw \in Presence
  PROVE  DOMAIN post' = Posts /\ \A q \in Posts : RequestOK(post'[q])
<1> DEFINE r == [step |-> step, action |-> action, saw |-> saw]
<1>1. post[p] \in Requests /\ post[p].action = action
  BY DEF At, PresenceInv, RequestOK
<1>2. action \in Actions
  BY <1>1 DEF Requests
<1>3. RequestOK(r)
  BY <1>2 DEF RequestOK, Requests
<1>4. post' = [post EXCEPT ![p] = r]
  <2> DEFINE old == post[p]
             gone == [old EXCEPT !.step = step]
  <2>1. old \in Requests /\ old.action = action
    BY <1>1
  <2>2. p \in DOMAIN post
    BY DEF PresenceInv
  <2> HIDE DEF old
  <2>3. gone = [step |-> step, action |-> action, saw |-> old.saw]
    BY <2>1 DEF Requests
  <2> HIDE DEF gone
  <2>4. [gone EXCEPT !.saw = saw] = r
    BY <2>3
  <2>5. post' = [[post EXCEPT ![p] = gone] EXCEPT ![p] = [gone EXCEPT !.saw = saw]]
    BY <2>2 DEF Goes, gone, old
  <2> QED
    BY <2>2, <2>4, <2>5
<1> HIDE DEF r
<1> QED
  BY <1>3, <1>4, PostSet

LEMMA PresencesAre ==
  /\ Lapsing \subseteq Presence /\ Kept \subseteq Presence
  /\ "none" \notin Presence /\ "On Call" \notin Lapsing /\ "On Call" \notin Kept
  /\ "Logged Out" \in Presence
BY DEF Lapsing, Presence, Kept

(* What a request that goes on saw.                                        *)
LEMMA SawRightly ==
  ASSUME PresenceInv, NEW p \in Posts
  PROVE  /\ At(p, "expired", "read") \/ At(p, "expired", "kept")
              => post[p].saw \in Lapsing
         /\ At(p, "registered", "read") \/ At(p, "registered", "restore")
              => post[p].saw \in Kept
         /\ At(p, "registered", "rewrite") => post[p].saw \in Presence
BY DEF PresenceInv, RequestOK, At

LEMMA ServerStepOK ==
  ASSUME PresenceInv, NEW p \in Posts, ServerStep(p)
  PROVE  PresenceInv'
<1>1. ASSUME DOMAIN post' = Posts, \A q \in Posts : RequestOK(post'[q]),
             presence' \in Presence, lapsed_key' \in {"none"} \cup Kept,
             previous_key' \in {"none"} \cup (Presence \ {"On Call"})
      PROVE  PresenceInv'
  BY <1>1 DEF PresenceInv, RequestOK, Requests
<1>2. /\ presence \in Presence /\ lapsed_key \in {"none"} \cup Kept
      /\ previous_key \in {"none"} \cup (Presence \ {"On Call"})
  BY DEF PresenceInv
<1>3. CASE ForgetLapse(p)
  <2>1. DOMAIN post' = Posts /\ \A q \in Posts : RequestOK(post'[q])
    BY <1>3, GoOK DEF ForgetLapse, Steps
  <2> QED
    BY <1>1, <1>2, <1>3, <2>1 DEF ForgetLapse
<1>4. CASE LogOut(p)
  BY <1>1, <1>2, <1>4, EndOK, PresencesAre DEF LogOut, keys
<1>5. CASE ReadPresence(p)
  <2>1. CASE presence \in Lapsing
    <3>1. DOMAIN post' = Posts /\ \A q \in Posts : RequestOK(post'[q])
      BY <1>2, <1>5, <2>1, GoOK DEF ReadPresence, Steps
    <3> QED
      BY <1>1, <1>2, <1>5, <3>1 DEF ReadPresence, keys
  <2>2. CASE presence \notin Lapsing
    BY <1>1, <1>2, <1>5, <2>2, EndOK DEF ReadPresence, keys
  <2> QED
    BY <2>1, <2>2
<1>6. CASE KeepPresence(p)
  <2>1. post[p].saw \in Lapsing
    BY <1>6, SawRightly DEF KeepPresence
  <2>2. DOMAIN post' = Posts /\ \A q \in Posts : RequestOK(post'[q])
    BY <1>6, <2>1, GoOK, PresencesAre DEF KeepPresence, Steps
  <2> QED
    BY <1>1, <1>2, <1>6, <2>2 DEF KeepPresence, Kept
<1>7. CASE LogOutIfUnchanged(p)
  <2>1. CASE Ends(p)
    BY <1>1, <1>2, <1>7, <2>1, EndOK, PresencesAre DEF LogOutIfUnchanged, keys
  <2>2. CASE Goes(p, "undo", "none")
    <3>1. DOMAIN post' = Posts /\ \A q \in Posts : RequestOK(post'[q])
      BY <1>7, <2>2, GoOK DEF LogOutIfUnchanged, Steps
    <3> QED
      BY <1>1, <1>2, <1>7, <3>1, PresencesAre DEF LogOutIfUnchanged, keys
  <2> QED
    BY <1>7, <2>1, <2>2 DEF LogOutIfUnchanged
<1>8. CASE ForgetKept(p)
  BY <1>1, <1>2, <1>8, EndOK DEF ForgetKept
<1>9. CASE TakeKept(p)
  <2>1. CASE lapsed_key = "none"
    <3>1. DOMAIN post' = Posts /\ \A q \in Posts : RequestOK(post'[q])
      BY <1>9, <2>1, GoOK DEF TakeKept, Steps
    <3> QED
      BY <1>1, <1>2, <1>9, <3>1 DEF TakeKept, keys
  <2>2. CASE lapsed_key # "none"
    <3>1. lapsed_key \in Kept
      BY <1>2, <2>2
    <3>2. DOMAIN post' = Posts /\ \A q \in Posts : RequestOK(post'[q])
      BY <1>9, <2>2, <3>1, GoOK, PresencesAre DEF TakeKept, Steps
    <3> QED
      BY <1>1, <1>2, <1>9, <3>2 DEF TakeKept, keys
  <2> QED
    BY <2>1, <2>2
<1>10. CASE DeleteKept(p)
  <2>1. post[p].saw \in Kept
    BY <1>10, SawRightly DEF DeleteKept
  <2>2. DOMAIN post' = Posts /\ \A q \in Posts : RequestOK(post'[q])
    BY <1>10, <2>1, GoOK, PresencesAre DEF DeleteKept, Steps
  <2> QED
    BY <1>1, <1>2, <1>10, <2>2 DEF DeleteKept
<1>11. CASE RestoreIfLoggedOut(p)
  <2>1. post[p].saw \in Presence
    BY <1>11, SawRightly, PresencesAre DEF RestoreIfLoggedOut
  <2> QED
    BY <1>1, <1>2, <1>11, <2>1, EndOK DEF RestoreIfLoggedOut, keys
<1>12. CASE ReadLoggedOut(p)
  <2>1. DOMAIN post' = Posts /\ \A q \in Posts : RequestOK(post'[q])
    BY <1>12, GoOK, EndOK DEF ReadLoggedOut, Steps
  <2> QED
    BY <1>1, <1>2, <1>12, <2>1 DEF ReadLoggedOut, keys
<1>13. CASE TakePrevious(p)
  <2>1. CASE previous_key \in {"none", "Logged Out"}
    <3>1. DOMAIN post' = Posts /\ \A q \in Posts : RequestOK(post'[q])
      BY <1>13, <2>1, GoOK DEF TakePrevious, Steps
    <3> QED
      BY <1>1, <1>2, <1>13, <3>1 DEF TakePrevious, keys
  <2>2. CASE previous_key \notin {"none", "Logged Out"}
    <3>1. previous_key \in Presence
      BY <1>2, <2>2
    <3>2. DOMAIN post' = Posts /\ \A q \in Posts : RequestOK(post'[q])
      BY <1>13, <2>2, <3>1, GoOK DEF TakePrevious, Steps
    <3> QED
      BY <1>1, <1>2, <1>13, <3>2 DEF TakePrevious, keys
  <2> QED
    BY <2>1, <2>2
<1>14. CASE WritePrevious(p)
  <2>1. post[p].saw \in Presence
    BY <1>14, SawRightly DEF WritePrevious
  <2>2. DOMAIN post' = Posts /\ \A q \in Posts : RequestOK(post'[q])
    BY <1>14, GoOK DEF WritePrevious, Steps
  <2> QED
    BY <1>1, <1>2, <1>14, <2>1, <2>2 DEF WritePrevious, keys
<1>15. CASE DeletePrevious(p)
  BY <1>1, <1>2, <1>15, EndOK DEF DeletePrevious
<1> QED
  BY <1>3, <1>4, <1>5, <1>6, <1>7, <1>8, <1>9, <1>10, <1>11, <1>12, <1>13, <1>14,
     <1>15 DEF ServerStep

LEMMA PresenceSame ==
  ASSUME PresenceInv, UNCHANGED presenceVars
  PROVE  PresenceInv'
BY DEF PresenceInv, presenceVars, keys, RequestOK, Requests

LEMMA SentOnly ==
  ASSUME PresenceInv, UNCHANGED <<presence, keys>>,
         DOMAIN post' = Posts /\ \A q \in Posts : RequestOK(post'[q])
  PROVE  PresenceInv'
BY DEF PresenceInv, keys, RequestOK, Requests

----------------------------------------------------------------------------
(* The steps.                                                              *)

ReachInv == ContactsInv /\ PresenceInv /\ LapsesInv /\ LapseIsPending

LEMMA LapseOK ==
  ASSUME LapsesInv, NEW lapsed \in BOOLEAN, MaybeLapse(lapsed)
  PROVE  LapsesInv' /\ (lapsed => lapses' > 0) /\ (lapses > 0 => lapses' > 0)
BY DEF LapsesInv, MaybeLapse, Lapse

LEMMA RequestsOK ==
  ASSUME ReachInv, NEW d \in Addrs, NEW p \in Posts,
         \/ HandleRegister(d, p)
         \/ HandleUnregisterAll(d, p)
         \/ HandleUnregisterOne(d, p)
  PROVE  ReachInv'
<1> USE DEF ReachInv
<1>1. UNCHANGED <<presence, keys, lapses>>
  BY DEF HandleRegister, HandleUnregisterAll, HandleUnregisterOne, Phone
<1>2. LapsesInv'
  BY <1>1 DEF LapsesInv
<1>3. CASE HandleRegister(d, p)
  <2>1. ContactsInv' /\ IsRegistered'
    BY <1>3, RegisterOK DEF HandleRegister
  <2>2. PresenceInv'
    BY <1>1, <1>3, SendOK, SentOnly DEF HandleRegister, Actions
  <2> QED
    BY <1>2, <2>1, <2>2 DEF LapseIsPending
<1>4. CASE HandleUnregisterAll(d, p)
  <2>1. ContactsInv' /\ told'
    BY <1>4, UnregisterOK DEF HandleUnregisterAll
  <2>2. PresenceInv'
    BY <1>1, <1>4, SendOK, SentOnly DEF HandleUnregisterAll, Actions
  <2> QED
    BY <1>2, <2>1, <2>2 DEF LapseIsPending
<1>5. CASE HandleUnregisterOne(d, p)
  <2>1. ContactsInv'
    BY <1>5, UnregisterContactOK DEF HandleUnregisterOne
  <2>2. CASE IsRegistered' /\ UNCHANGED <<post, told>>
    BY <1>1, <1>2, <2>1, <2>2, PresenceSame DEF LapseIsPending, presenceVars
  <2>3. CASE ~ IsRegistered' /\ Send(p, "unregistered") /\ told' = TRUE
    <3>1. PresenceInv'
      BY <1>1, <2>3, SendOK, SentOnly DEF Actions
    <3> QED
      BY <1>2, <2>1, <2>3, <3>1 DEF LapseIsPending
  <2> QED
    BY <1>5, <2>2, <2>3 DEF HandleUnregisterOne
<1> QED
  BY <1>3, <1>4, <1>5

LEMMA ReaperOK ==
  ASSUME ReachInv, ReapExpired
  PROVE  ReachInv'
<1>1. ContactsInv /\ PresenceInv /\ LapsesInv
  BY DEF ReachInv
<1>2. PresenceInv'
  BY <1>1, PresenceSame DEF ReapExpired
<1>3. ContactsInv' /\ (IsRegistered => IsRegistered')
  BY <1>1, ReapOK DEF ReapExpired
<1>4. Emptied \in BOOLEAN /\ MaybeLapse(Emptied)
  BY <1>1 DEF ReapExpired, Emptied, ContactsInv
<1>5. LapsesInv' /\ (Emptied => lapses' > 0) /\ (lapses > 0 => lapses' > 0)
  BY <1>1, <1>4, LapseOK
<1>6. IsRegistered' \/ Emptied
  BY <1>3 DEF ReapExpired, Emptied
<1> QED
  BY <1>2, <1>3, <1>5, <1>6 DEF ReachInv, LapseIsPending

LEMMA PingsOK ==
  ASSUME ReachInv, NEW d \in Addrs, StartPing(d) \/ Answer(d) \/ Miss(d)
  PROVE  ReachInv'
<1>1. ContactsInv /\ PresenceInv /\ LapsesInv /\ LapseIsPending
  BY DEF ReachInv
<1>2. UNCHANGED presenceVars /\ told' = told
  BY DEF StartPing, Answer, Miss, PingEnds
<1>3. PresenceInv'
  BY <1>1, <1>2, PresenceSame
<1>4. CASE StartPing(d)
  <2>1. ContactsInv' /\ IsRegistered' = IsRegistered
    BY <1>1, <1>4, ContactsSame DEF StartPing
  <2> QED
    BY <1>1, <1>2, <1>3, <1>4, <2>1
       DEF ReachInv, StartPing, registrarVars, LapsesInv, LapseIsPending
<1>5. CASE Answer(d)
  <2>1. ContactsInv' /\ listed' = listed /\ (IsRegistered => IsRegistered')
    BY <1>1, <1>5, AnswerOK DEF Answer
  <2> QED
    BY <1>1, <1>2, <1>3, <1>5, <2>1
       DEF ReachInv, Answer, LapsesInv, LapseIsPending
<1>6. CASE Miss(d)
  <2>1. /\ ContactsInv'
        /\ MissEmpties(d) \/ listed' = listed
        /\ ~ MissEmpties(d) /\ IsRegistered => listed
    BY <1>1, <1>6, MissOK DEF Miss
  <2>2. /\ LapsesInv'
        /\ MissEmpties(d) => lapses' > 0
        /\ lapses > 0 => lapses' > 0
    BY <1>1, <1>6, LapseOK DEF Miss, MissEmpties, LastMiss
  <2> QED
    BY <1>1, <1>2, <1>3, <2>1, <2>2 DEF ReachInv, LapseIsPending
<1> QED
  BY <1>4, <1>5, <1>6

LEMMA LegsOK ==
  ASSUME ReachInv, NEW d \in Addrs, LegEnds(d)
  PROVE  ReachInv'
<1>1. ContactsInv /\ PresenceInv /\ LapsesInv /\ LapseIsPending
  BY DEF ReachInv
<1>2. UNCHANGED presenceVars /\ told' = told
  BY DEF LegEnds
<1>3. PresenceInv'
  BY <1>1, <1>2, PresenceSame
<1>4. CASE UNCHANGED <<registrarVars, lapses>>
  BY <1>1, <1>2, <1>3, <1>4, ContactsSame
     DEF ReachInv, registrarVars, LapsesInv, LapseIsPending
<1>5. CASE UnregisterContact(d) /\ Lapse
  <2>1. ContactsInv'
    BY <1>1, <1>5, UnregisterContactOK
  <2>2. LapsesInv' /\ lapses' > 0
    BY <1>1, <1>5 DEF LapsesInv, Lapse
  <2> QED
    BY <1>3, <2>1, <2>2 DEF ReachInv, LapseIsPending
<1> QED
  BY <1>4, <1>5 DEF LegEnds

LEMMA LapsedOK ==
  ASSUME ReachInv, NEW p \in Posts, RegistrationLapsed(p)
  PROVE  ReachInv'
<1>1. ContactsInv /\ PresenceInv /\ LapsesInv /\ LapseIsPending
  BY DEF ReachInv
<1>2. UNCHANGED <<registrarVars, presence, keys>>
  BY DEF RegistrationLapsed
<1>3. ContactsInv' /\ IsRegistered' = IsRegistered
  BY <1>1, <1>2, ContactsSame
<1>4. LapsesInv'
  BY <1>1 DEF RegistrationLapsed, LapsesInv
<1>5. CASE IsRegistered /\ UNCHANGED <<post, told>>
  <2>1. PresenceInv'
    BY <1>1, <1>2, <1>5, PresenceSame DEF presenceVars
  <2> QED
    BY <1>3, <1>4, <1>5, <2>1 DEF ReachInv, LapseIsPending
<1>6. CASE ~ IsRegistered /\ Send(p, "expired") /\ told' = TRUE
  <2>1. PresenceInv'
    BY <1>1, <1>2, <1>6, SendOK, SentOnly DEF Actions
  <2> QED
    BY <1>3, <1>4, <1>6, <2>1 DEF ReachInv, LapseIsPending
<1> QED
  BY <1>5, <1>6 DEF RegistrationLapsed

(* Steps that leave the registrar alone.                                   *)
LEMMA PresenceOnly ==
  ASSUME ReachInv, PresenceInv', UNCHANGED <<registrarVars, lapses, told>>
  PROVE  ReachInv'
<1>1. ContactsInv' /\ IsRegistered' = IsRegistered
  BY ContactsSame DEF ReachInv
<1> QED
  BY <1>1 DEF ReachInv, LapsesInv, LapseIsPending, registrarVars

LEMMA ServerOK ==
  ASSUME ReachInv, NEW p \in Posts, Server(p)
  PROVE  ReachInv'
<1>1. PresenceInv
  BY DEF ReachInv
<1>2. CASE ServerStep(p)
  BY <1>1, <1>2, ServerStepOK, PresenceOnly DEF Server, Others
<1>3. CASE Lost(p)
  <2>1. PresenceInv'
    BY <1>1, <1>3, EndOK, SentOnly DEF Lost
  <2> QED
    BY <2>1, PresenceOnly DEF Server, Others
<1> QED
  BY <1>2, <1>3 DEF Server

LEMMA OtherPresenceOK ==
  ASSUME ReachInv, OtherPresence
  PROVE  ReachInv'
<1>1. PresenceInv
  BY DEF ReachInv
<1>2. /\ presence' \in Presence /\ UNCHANGED <<lapsed_key, post>>
      /\ previous_key' \in {"none"} \cup (Presence \ {"On Call"})
  BY <1>1 DEF OtherPresence, MemberPicks, CallStarts, QueueCallEnds,
              DirectCallEnds, ForceLogOut, PresenceInv, Presence, keys
<1>3. PresenceInv'
  BY <1>1, <1>2 DEF PresenceInv, RequestOK, Requests
<1> QED
  BY <1>3, PresenceOnly DEF OtherPresence, Others

LEMMA WorldOK ==
  ASSUME ReachInv, NEW d \in Addrs, TimePasses(d) \/ PhoneDies(d)
  PROVE  ReachInv'
<1>1. ContactsInv /\ PresenceInv /\ LapsesInv /\ LapseIsPending
  BY DEF ReachInv
<1>2. PresenceInv' /\ LapsesInv'
  BY <1>1, PresenceSame DEF TimePasses, PhoneDies, LapsesInv
<1>3. CASE TimePasses(d)
  BY <1>1, <1>2, <1>3, RunsOutOK DEF TimePasses, ReachInv, LapseIsPending
<1>4. CASE PhoneDies(d)
  BY <1>1, <1>2, <1>4, ContactsSame
     DEF PhoneDies, ReachInv, LapseIsPending, registrarVars
<1> QED
  BY <1>3, <1>4

LEMMA ReachStart == Init => ReachInv
<1> SUFFICES ASSUME Init
             PROVE  ReachInv
  OBVIOUS
<1>1. ContactsInv
  BY DEF Init, NobodyRegistered, ContactsInv, Held
<1>2. PresenceInv
  <2>1. /\ presence \in Presence /\ lapsed_key \in {"none"} \cup Kept
        /\ previous_key \in {"none"} \cup (Presence \ {"On Call"})
    BY DEF Init, Presence
  <2>2. DOMAIN post = Posts /\ \A p \in Posts : RequestOK(post[p])
    BY DEF Init, RequestOK
  <2> QED
    BY <2>1, <2>2 DEF PresenceInv
<1>3. LapsesInv /\ LapseIsPending
  <2>1. told = TRUE /\ lapses = 0
    BY DEF Init
  <2> QED
    BY <2>1 DEF LapsesInv, LapseIsPending
<1> QED
  BY <1>1, <1>2, <1>3 DEF ReachInv

LEMMA ReachStep == ReachInv /\ [Next]_vars => ReachInv'
<1> SUFFICES ASSUME ReachInv, [Next]_vars
             PROVE  ReachInv'
  OBVIOUS
<1>1. CASE UNCHANGED vars
  BY <1>1, PresenceSame, PresenceOnly DEF vars, ReachInv
<1>2. CASE \E d \in Addrs, p \in Posts :
             \/ HandleRegister(d, p)
             \/ HandleUnregisterAll(d, p)
             \/ HandleUnregisterOne(d, p)
  BY <1>2, RequestsOK
<1>3. CASE ReapExpired
  BY <1>3, ReaperOK
<1>4. CASE \E d \in Addrs : StartPing(d) \/ Answer(d) \/ Miss(d)
  BY <1>4, PingsOK
<1>5. CASE \E d \in Addrs : LegEnds(d)
  BY <1>5, LegsOK
<1>6. CASE \E d \in Addrs : TimePasses(d) \/ PhoneDies(d)
  BY <1>6, WorldOK
<1>7. CASE ForkInvite
  BY <1>7, PresenceSame, PresenceOnly DEF ForkInvite, ReachInv
<1>8. CASE \E p \in Posts : RegistrationLapsed(p) \/ Server(p)
  BY <1>8, LapsedOK, ServerOK
<1>9. CASE OtherPresence
  BY <1>9, OtherPresenceOK
<1> QED
  BY <1>1, <1>2, <1>3, <1>4, <1>5, <1>6, <1>7, <1>8, <1>9 DEF Next

LEMMA ReachAlways == Spec => []ReachInv
BY ReachStart, ReachStep, PTL DEF Spec

----------------------------------------------------------------------------
(* Contacts stay below the limit of missed pings; what is kept over a      *)
(* lapse is a presence that no timer would have ended.                     *)
THEOREM TypeCorrect == Spec => []TypeOK
<1>1. ReachInv => TypeOK
  BY DEF ReachInv, ContactsInv, PresenceInv, LapsesInv, RequestOK, Requests,
         TypeOK, Kept
<1> QED
  BY <1>1, ReachAlways, PTL

(* registrar.go and nat_keepalive.go: no way of losing the last contact    *)
(* leaves a member unreported with nothing that will report it.            *)
THEOREM LapsesPend == Spec => []LapseIsPending
<1>1. ReachInv => LapseIsPending
  BY DEF ReachInv
<1> QED
  BY <1>1, ReachAlways, PTL

(* org_member.ex, log_out_until_registered: the update of the row is       *)
(* conditional on the presence that was read, and On Call is none of those *)
(* that a request goes on with.                                            *)
THEOREM CallsKeepPresence == Spec => CallKeepsPresence
<1> DEFINE Keeps == \A p \in Posts :
             At(p, "expired", "kept") /\ presence = "On Call"
               => presence' # "Logged Out" \/ post'[p] = post[p]
<1>1. ReachInv /\ [Next]_vars => Keeps
  <2> SUFFICES ASSUME ReachInv, [Next]_vars, NEW p \in Posts,
                      At(p, "expired", "kept"), presence = "On Call"
               PROVE  presence' # "Logged Out" \/ post'[p] = post[p]
    OBVIOUS
  <2>1. PresenceInv /\ post[p].saw # "On Call"
    BY SawRightly, PresencesAre DEF ReachInv
  <2>2. ASSUME NEW q \in Posts, NEW r, post' = [post EXCEPT ![q] = r], q # p
        PROVE  post'[p] = post[p]
    BY <2>1, <2>2 DEF PresenceInv
  <2>3. CASE UNCHANGED presence
    BY <2>3
  <2>4. ASSUME NEW q \in Posts, Server(q)
        PROVE  presence' # "Logged Out" \/ post'[p] = post[p]
    <3>1. CASE q = p
      BY <2>1, <2>4, <3>1
         DEF Server, ServerStep, At, ForgetLapse, LogOut, ReadPresence,
             KeepPresence, LogOutIfUnchanged, ForgetKept, TakeKept, DeleteKept,
             RestoreIfLoggedOut, ReadLoggedOut, TakePrevious, WritePrevious,
             DeletePrevious, Lost
    <3>2. CASE q # p
      <4>1. CASE UNCHANGED presence
        BY <4>1
      <4>2. CASE LogOut(q) \/ LogOutIfUnchanged(q) \/ RestoreIfLoggedOut(q)
        BY <2>1, <2>2, <3>2, <4>2
           DEF LogOut, LogOutIfUnchanged, RestoreIfLoggedOut, Ends, Goes
      <4>3. CASE WritePrevious(q)
        <5>1. Goes(q, "clean_up", "none") /\ q \in DOMAIN post /\ p \in DOMAIN post
          BY <2>1, <4>3 DEF WritePrevious, PresenceInv
        <5> QED
          BY <3>2, <5>1 DEF Goes
      <4> QED
        BY <2>4, <4>1, <4>2, <4>3
           DEF Server, ServerStep, ForgetLapse, ReadPresence, KeepPresence,
               ForgetKept, TakeKept, DeleteKept, ReadLoggedOut, TakePrevious,
               DeletePrevious, Lost
    <3> QED
      BY <3>1, <3>2
  <2>5. CASE OtherPresence
    BY <2>5 DEF OtherPresence, MemberPicks, CallStarts, QueueCallEnds,
                DirectCallEnds, ForceLogOut
  <2>6. CASE UNCHANGED vars
    BY <2>6 DEF vars, presenceVars
  <2> QED
    BY <2>3, <2>4, <2>5, <2>6
       DEF Next, HandleRegister, HandleUnregisterAll, HandleUnregisterOne, Phone,
           ReapExpired, StartPing, Answer, Miss, PingEnds, LegEnds, TimePasses,
           PhoneDies, ForkInvite, RegistrationLapsed, presenceVars
<1>2. ReachInv /\ [Next]_vars => [Keeps]_vars
  BY <1>1
<1> QED
  BY <1>2, ReachAlways, PTL DEF Spec, CallKeepsPresence
============================================================================
