---------------------------- MODULE Reachability -----------------------------
(***************************************************************************)
(* One member's telephones, their registrations at the SBC and what the    *)
(* server shows of the member: Registrar and PresenceLapse with the        *)
(* goroutines between them (src/sbc/proxy.go, nat_keepalive.go).           *)
(***************************************************************************)
EXTENDS Registrar, PresenceLapse

CONSTANTS
  MaxPings,      \* bound on pings of an address under way
  MaxLapses,     \* bound on goroutines of registrationLapsed under way
  MaxRegisters,  \* bound on REGISTERs
  MaxActs,       \* bound on presences set by the member and by calls
  MayUnregister, \* whether telephones unregister
  MayLose        \* whether requests to the server get lost

ASSUME ReachabilityConstants ==
  /\ MaxPings \in Nat \ {0}
  /\ MaxLapses \in Nat \ {0}
  /\ MaxRegisters \in Nat
  /\ MaxActs \in Nat

VARIABLES
  pings,      \* [Addrs -> pings under way]
  ringing,    \* addresses an INVITE was forked to and has not ended at
  lapses,     \* goroutines of registrationLapsed under way
  silent,     \* addresses whose telephone is gone for good
  told,       \* since it registered last, the server was told it is gone
  registers,  \* REGISTERs so far
  acts        \* presences set so far

bounds == <<registers, acts>>
vars == <<registrarVars, presenceVars, pings, ringing, lapses, silent, told,
          bounds>>

\* The SBC may start while the member is in a call.
Init ==
  /\ NobodyRegistered
  /\ \/ presence = "Available" /\ previous_key = "none"
     \/ presence = "On Call" /\ previous_key = "Available"
  /\ lapsed_key = "none"
  /\ post = [p \in Posts |-> NoPost]
  /\ pings = [d \in Addrs |-> 0]
  /\ ringing = {}
  /\ lapses = 0
  /\ silent = {}
  /\ told = TRUE
  /\ registers = 0
  /\ acts = 0

Phone(d) ==
  /\ d \notin silent
  /\ registers < MaxRegisters
  /\ registers' = registers + 1
  /\ UNCHANGED <<presence, keys, pings, ringing, lapses, silent, acts>>

\* handleRegister, with the goroutine that posts the presence.
HandleRegister(d, p) ==
  /\ Phone(d)
  /\ \E nat \in BOOLEAN : Register(d, nat)
  /\ Send(p, "registered")
  /\ told' = FALSE

HandleUnregisterAll(d, p) ==
  /\ MayUnregister
  /\ Phone(d)
  /\ Unregister
  /\ Send(p, "unregistered")
  /\ told' = TRUE

\* Only the last contact's unregistration is posted.
HandleUnregisterOne(d, p) ==
  /\ MayUnregister
  /\ Phone(d)
  /\ UnregisterContact(d)
  /\ \/ IsRegistered' /\ UNCHANGED <<post, told>>
     \/ ~ IsRegistered' /\ Send(p, "unregistered") /\ told' = TRUE

Lapse == lapses < MaxLapses /\ lapses' = lapses + 1
MaybeLapse(lapsed) == IF lapsed THEN Lapse ELSE UNCHANGED lapses

\* reapExpired's tick.
ReapExpired ==
  /\ listed
  /\ Reap
  /\ MaybeLapse(Emptied)
  /\ UNCHANGED <<presenceVars, pings, ringing, silent, told, bounds>>

\* natKeepalive's tick starts a ping, which takes an interval at most.
StartPing(d) ==
  /\ d \in NatContacts
  /\ pings[d] < MaxPings
  /\ pings' = [pings EXCEPT ![d] = @ + 1]
  /\ UNCHANGED <<registrarVars, presenceVars, ringing, lapses, silent, told,
                 bounds>>

PingEnds(d) ==
  /\ pings[d] > 0
  /\ pings' = [pings EXCEPT ![d] = @ - 1]
  /\ UNCHANGED <<presenceVars, ringing, silent, told, bounds>>

Answer(d) ==
  /\ d \notin silent
  /\ PingEnds(d)
  /\ PingAnswered(d)
  /\ UNCHANGED lapses

Miss(d) ==
  /\ PingEnds(d)
  /\ PingMissed(d)
  /\ MaybeLapse(MissEmpties(d))

\* An INVITE is forked to the live contacts; the goroutine of one that cannot
\* be reached unregisters the address, whoever holds it by then.
ForkInvite ==
  /\ ringing = {}
  /\ ringing' = LookupAll
  /\ UNCHANGED <<registrarVars, presenceVars, pings, lapses, silent, told,
                 bounds>>

LegEnds(d) ==
  /\ d \in ringing
  /\ ringing' = ringing \ {d}
  /\ \/ UNCHANGED <<registrarVars, lapses>>
     \/ UnregisterContact(d) /\ Lapse
  /\ UNCHANGED <<presenceVars, pings, silent, told, bounds>>

\* registrationLapsed.
RegistrationLapsed(p) ==
  /\ lapses > 0
  /\ lapses' = lapses - 1
  /\ \/ IsRegistered /\ UNCHANGED <<post, told>>
     \/ ~ IsRegistered /\ Send(p, "expired") /\ told' = TRUE
  /\ UNCHANGED <<registrarVars, presence, keys, pings, ringing, silent,
                 bounds>>

Others == <<registrarVars, pings, ringing, lapses, silent, told>>

Server(p) ==
  /\ ServerStep(p) \/ (MayLose /\ Lost(p))
  /\ UNCHANGED <<Others, bounds>>

OtherPresence ==
  /\ acts < MaxActs
  /\ acts' = acts + 1
  /\ \/ \E v \in {"Available", "On Break"} : MemberPicks(v)
     \/ CallStarts \/ QueueCallEnds \/ DirectCallEnds
     \/ ForceLogOut
  /\ UNCHANGED <<Others, registers>>

TimePasses(d) ==
  /\ RunsOut(d)
  /\ UNCHANGED <<presenceVars, pings, ringing, lapses, silent, told, bounds>>

PhoneDies(d) ==
  /\ d \notin silent
  /\ silent' = silent \cup {d}
  /\ UNCHANGED <<registrarVars, presenceVars, pings, ringing, lapses, told,
                 bounds>>

Next ==
  \/ \E d \in Addrs, p \in Posts :
       \/ HandleRegister(d, p)
       \/ HandleUnregisterAll(d, p)
       \/ HandleUnregisterOne(d, p)
  \/ ReapExpired
  \/ \E d \in Addrs :
       StartPing(d) \/ Answer(d) \/ Miss(d) \/ LegEnds(d)
       \/ TimePasses(d) \/ PhoneDies(d)
  \/ ForkInvite
  \/ \E p \in Posts : RegistrationLapsed(p) \/ Server(p)
  \/ OtherPresence

Spec == Init /\ [][Next]_vars

\* Tickers tick, goroutines run and requests end; telephones, members and the
\* time of expiry are free.
LiveSpec ==
  /\ Spec
  /\ WF_vars(ReapExpired)
  /\ \A d \in Addrs : /\ WF_vars(StartPing(d))
                      /\ WF_vars(Answer(d) \/ Miss(d))
                      /\ WF_vars(LegEnds(d))
  /\ WF_vars(\E p \in Posts : RegistrationLapsed(p))
  /\ \A p \in Posts : WF_vars(Server(p))

-----------------------------------------------------------------------------
(* Properties *)

\* Contacts are below the limit of missed pings and in a list of the map; what
\* is kept over a lapse is never a presence that a timer would have ended.
TypeOK ==
  /\ contacts \in [Addrs -> Contact \cup {NoContact}]
  /\ listed \in BOOLEAN
  /\ Held # {} => listed
  /\ presence \in Presence
  /\ lapsed_key \in {"none", "Available", "On Break"}
  /\ previous_key \in {"none"} \cup (Presence \ {"On Call"})
  /\ \A p \in Posts : post[p] # NoPost =>
       post[p].action \in Actions /\ post[p].step \in Steps
  /\ lapses \in 0 .. MaxLapses

\* registrar.go, reap, and nat_keepalive.go, pingMissed: a member who can no
\* longer be reached and has not been reported is in a list that reapExpired
\* will find empty, or has a goroutine of registrationLapsed under way,
\* whichever way the contacts went.
LapseIsPending == IsRegistered \/ told \/ listed \/ lapses > 0

\* proxy.go, registrationLapsed: a member who can no longer be reached is
\* reported to the server, whichever way the last contact went, unless the
\* member registers again first.
LapseIsTold == ~ IsRegistered ~> IsRegistered \/ told

\* nat_keepalive.go: a contact behind a NAT whose telephone is gone does not
\* stay, even if its registration never runs out and pings overlap.
SilentContactGoes ==
  \A d \in Addrs :
    d \in silent /\ d \in NatContacts ~> d \notin Held

\* org_member.ex, log_out_until_registered: "A member On Call ... is left
\* alone", also when the call comes between reading the row and writing it.
CallKeepsPresence ==
  [][\A p \in Posts :
       At(p, "expired", "kept") /\ presence = "On Call"
         => presence' # "Logged Out" \/ post'[p] = post[p]]_vars
==============================================================================
