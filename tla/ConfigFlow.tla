------------------------------- MODULE ConfigFlow -------------------------------
(***************************************************************************)
(* The config flow, config_flow.py: how stations in reach become entries.  *)
(* Flows of a discovery and flows of a user run side by side, and one that *)
(* has passed its last check awaits the catalog before it creates its      *)
(* entry.  Home Assistant is external: it starts the flows, keeps what     *)
(* was received of each station, refuses a second discovery of a station   *)
(* in progress, and when an entry is created aborts the other flows for    *)
(* the station and puts the entry in the place of one it had.              *)
(***************************************************************************)
EXTENDS Scanner

CONSTANTS
  Flows,     \* flows at one time
  MaxFlows   \* bound: flows started

VARIABLES
  received,  \* per address: what Home Assistant has received: name, uuid
  flow,      \* per flow: its step, number, unique_id and what it was told
  entries,   \* per address: the data of its entry, None when there is none
  raced,     \* history: flows past their check when the entry was created
  started    \* history: flows started
flowVars == <<received, flow, entries, raced, started>>

Addresses == {s.address : s \in Stations}
StationAt(address) == CHOOSE s \in Stations : s.address = address

(* What Home Assistant tells of a station, and what an entry keeps of it *)
Names == {s.name : s \in Stations} \cup {None}
Uuids == {s.uuid : s \in Stations} \cup {None}
Views == [address : Addresses, name : Names, ours : BOOLEAN, uuid : Uuids]
EntryData == [number : Nat, name : Names, key : Uuids,
              params : {k.params : k \in Known} \cup {Defaults}]

ASSUME ConfigFlowAssumption == None \notin EntryData

Idle == [step |-> "none", number |-> 0, unique |-> None, info |-> None, offered |-> {}]

FlowInit ==
  /\ received = [a \in Addresses |-> None]
  /\ flow = [f \in Flows |-> Idle]
  /\ entries = [a \in Addresses |-> None]
  /\ raced = [a \in Addresses |-> {}]
  /\ started = 0

-------------------------------------------------------------------------------
(* Home Assistant's view *)

(* An advertisement adds a name or a UUID to what is known of a station. *)
Receive ==
  /\ \E s \in Stations, named, identified \in BOOLEAN :
       LET before == received[s.address]
           name == named \/ (before # None /\ before.name # None)
           uuid == identified \/ (before # None /\ before.uuid # None)
       IN received' = [received EXCEPT ![s.address] =
            [address |-> s.address, name |-> IF name THEN s.name ELSE None,
             ours |-> name /\ s.ours, uuid |-> IF uuid THEN s.uuid ELSE None]]
  /\ UNCHANGED <<flow, entries, raced, started>>

InProgress(address) == \E f \in Flows : flow[f].unique = address

Begin(f, state) ==
  /\ flow[f] = Idle /\ started < MaxFlows /\ started' = started + 1
  /\ flow' = [flow EXCEPT ![f] = [state EXCEPT !.number = started']]
  /\ UNCHANGED <<received, entries, raced>>

-------------------------------------------------------------------------------
(* Steps of the flow *)

(* async_step_bluetooth: a station of a known UUID; aborted when a flow is *)
(* in progress for it, when it is configured, and when it is not ours.     *)
StepBluetooth(f) ==
  \E a \in Addresses :
    /\ received[a] # None /\ received[a].uuid # None
    /\ ~InProgress(a) /\ entries[a] = None
    /\ received[a].ours
    /\ Begin(f, [Idle EXCEPT !.step = "confirm", !.unique = a, !.info = received[a]])

(* async_step_bluetooth_confirm, submitted *)
Confirm(f) ==
  /\ flow[f].step = "confirm"
  /\ flow' = [flow EXCEPT ![f].step = "resolving"]
  /\ UNCHANGED <<received, entries, raced, started>>

(* async_step_user, shown: the stations not configured yet *)
StepUser(f) ==
  LET offered == {received[a] : a \in {b \in Addresses : /\ received[b] # None
                                                          /\ entries[b] = None
                                                          /\ received[b].ours}}
  IN offered # {} /\ Begin(f, [Idle EXCEPT !.step = "choose", !.offered = offered])

(* Slip: only what is offered is checked, when the form is drawn. *)
ConfiguredNoCheck(address) == FALSE

(* _abort_if_unique_id_configured *)
Configured(address) == entries[address] # None

(* Slip: the identity of the flow is not set. *)
ChosenUnset(before, info) == [before EXCEPT !.step = "resolving", !.info = info, !.offered = {}]

(* async_set_unique_id, whatever is in progress *)
Chosen(before, info) ==
  [before EXCEPT !.step = "resolving", !.unique = info.address, !.info = info, !.offered = {}]

(* async_step_user, submitted: checked again, then resolved *)
Submit(f) ==
  /\ flow[f].step = "choose"
  /\ \E info \in flow[f].offered :
       flow' = [flow EXCEPT ![f] =
         IF Configured(info.address) THEN Idle ELSE Chosen(flow[f], info)]
  /\ UNCHANGED <<received, entries, raced, started>>

(* async_create_entry, once the catalog is loaded *)
CreateEntry(f) ==
  LET a      == flow[f].unique
      others == {g \in Flows \ {f} : flow[g].unique = a}
      past   == {g \in others : flow[g].step = "resolving"}
  IN /\ flow[f].step = "resolving"
     /\ entries' = [entries EXCEPT ![a] =
          [number |-> flow[f].number, name |-> flow[f].info.name, key |-> flow[f].info.uuid,
           params |-> ParamsFromServiceInfo(flow[f].info)]]
     /\ \E running \in SUBSET past :
          /\ raced' = [raced EXCEPT ![a] = running]
          /\ flow' = [g \in Flows |-> IF g \in {f} \cup (others \ running) THEN Idle ELSE flow[g]]
     /\ UNCHANGED <<received, started>>

Dismiss(f) ==
  /\ flow[f].step \in {"confirm", "choose"}
  /\ flow' = [flow EXCEPT ![f] = Idle]
  /\ UNCHANGED <<received, entries, raced, started>>

RemoveEntry ==
  /\ \E a \in Addresses : entries[a] # None /\ entries' = [entries EXCEPT ![a] = None]
                                            /\ raced' = [raced EXCEPT ![a] = {}]
  /\ UNCHANGED <<received, flow, started>>

FlowNext == Receive \/ RemoveEntry
            \/ \E f \in Flows : \/ StepBluetooth(f) \/ Confirm(f) \/ StepUser(f)
                                \/ Submit(f) \/ CreateEntry(f) \/ Dismiss(f)

-------------------------------------------------------------------------------
(* Properties *)

(* An entry, and the options set on it since, is never put aside for a new *)
(* one, but by a flow that had passed its check before it was created.     *)
OnlyRacersReplace ==
  [][\A a \in Addresses :
       entries[a] # None /\ entries'[a] \notin {entries[a], None} =>
         \E f \in raced[a] : flow[f].step = "resolving" /\ flow[f].unique = a]_flowVars

(* An entry is for a station with a name of the family, under its address  *)
(* and name; its parameters are those the scanner resolves for the same    *)
(* station, or the defaults when the UUID had not been received.           *)
EntryFitsTheStation ==
  \A a \in Addresses :
    entries[a] # None =>
      LET s == StationAt(a)
      IN /\ s.ours /\ entries[a].name = s.name
         /\ entries[a].key \in {None, s.uuid}
         /\ entries[a].params =
              IF entries[a].key = None THEN Defaults
              ELSE Parsed(Advertisement(s, -60, TRUE, TRUE, "service")).params
===============================================================================
