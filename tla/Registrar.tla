------------------------------ MODULE Registrar ------------------------------
(***************************************************************************)
(* The contacts of one AOR in src/sbc/registrar.go and nat_keepalive.go.   *)
(* Every method locks the registrar and touches one AOR's list, so AORs    *)
(* do not meet.  The time when a contact expires is abstracted to whether  *)
(* it is still live: it may run out at any moment.                         *)
(***************************************************************************)
EXTENDS Integers, FiniteSets

CONSTANTS
  Addrs,      \* addresses that contacts register from
  MaxMissed   \* NAT_PING_MAX_MISSED

ASSUME RegistrarConstants == MaxMissed \in Nat \ {0}

VARIABLES
  contacts,  \* [Addrs -> contact, or NoContact]
  listed     \* the AOR has a list in the map, perhaps an empty one

registrarVars == <<contacts, listed>>

Contact == [live : BOOLEAN, nat : BOOLEAN, missed : 0 .. MaxMissed - 1]
NoContact == [live |-> FALSE]
Held == {d \in Addrs : contacts[d] # NoContact}

NobodyRegistered ==
  /\ contacts = [d \in Addrs |-> NoContact]
  /\ listed = FALSE

LookupAll == {d \in Held : contacts[d].live}
IsRegistered == LookupAll # {}
\* Mutant: a contact that missed a ping is not pinged again.
NatContactsUnmissed == {d \in LookupAll : contacts[d].nat /\ contacts[d].missed = 0}

NatContacts == {d \in LookupAll : contacts[d].nat}

\* Replaces the contact at the same address, missed pings and all.
Register(d, nat) ==
  /\ contacts' =
       [contacts EXCEPT ![d] = [live |-> TRUE, nat |-> nat, missed |-> 0]]
  /\ listed' = TRUE

Unregister == contacts' = [d \in Addrs |-> NoContact] /\ listed' = FALSE

\* Leaves the list in the map when it was the last one.
UnregisterContact(d) ==
  contacts' = [contacts EXCEPT ![d] = NoContact] /\ UNCHANGED listed

\* Time: a registration runs out.
RunsOut(d) ==
  /\ d \in LookupAll
  /\ contacts' = [contacts EXCEPT ![d].live = FALSE]
  /\ UNCHANGED listed

\* reap drops what ran out, and the list if nothing is left.
Reaped == [d \in Addrs |-> IF d \in LookupAll THEN contacts[d] ELSE NoContact]
\* Mutant: only a list that was empty before is reported.
EmptiedBefore == listed /\ Held = {}
Emptied == listed /\ ~ IsRegistered
Reap == contacts' = Reaped /\ listed' = (listed /\ IsRegistered)

PingAnswered(d) ==
  /\ contacts' =
       [contacts EXCEPT ![d] = IF @ = NoContact THEN @ ELSE [@ EXCEPT !.missed = 0]]
  /\ UNCHANGED listed

\* Mutant: one miss more is tolerated.
LastMissLate(d) == d \in Held /\ contacts[d].missed + 1 > MaxMissed

\* The miss that unregisters a contact, and whether it leaves the AOR empty.
LastMiss(d) == d \in Held /\ contacts[d].missed + 1 >= MaxMissed
MissEmpties(d) == LastMiss(d) /\ Held = {d}

\* Mutant: the list goes with any contact.
PingMissedDropsList(d) ==
  /\ contacts' =
       [contacts EXCEPT ![d] =
          IF d \notin Held \/ LastMiss(d) THEN NoContact
          ELSE [contacts[d] EXCEPT !.missed = @ + 1]]
  /\ listed' = (listed /\ ~ LastMiss(d))

PingMissed(d) ==
  /\ contacts' =
       [contacts EXCEPT ![d] =
          IF d \notin Held \/ LastMiss(d) THEN NoContact
          ELSE [contacts[d] EXCEPT !.missed = @ + 1]]
  /\ listed' = (listed /\ ~ MissEmpties(d))
==============================================================================
