------------------------------ MODULE EntryOptions ------------------------------
(***************************************************************************)
(* A config entry: its setup and unloading                                 *)
(* (custom_components/sydpower/__init__.py), its options dialogs           *)
(* (config_flow.py, SydpowerOptionsFlow) and the correction a coordinator  *)
(* fits from the stored samples (coordinator.py, correction).              *)
(*                                                                         *)
(* Each setup makes a coordinator of its own, so a task started on an      *)
(* earlier one may still be running.  A register access of Coordinator is  *)
(* one connection here; a reading is numbered, so that an old one can be   *)
(* told from a new one, and says whether the station was charging.  How    *)
(* Home Assistant reloads an entry (async_reload, the functions registered *)
(* with async_on_unload, the retry of a setup) is external.                *)
(*                                                                         *)
(* A definition commented "Slip" is a variant of the one after it with a   *)
(* plausible mistake, and not part of the model.                           *)
(***************************************************************************)
EXTENDS Naturals, Sequences, FiniteSets, SequencesExt

CONSTANTS Dialogs,      \* options dialogs that may be open at the same time
          MaxSetups,    \* bound: setups of the entry
          MaxReadings,  \* bound: changes of the station's readings
          MaxChanges,   \* bound: changes of the options, counting those of open dialogs
          None          \* Python's None

Tasks    == {"first", "poll", "call"} \cup Dialogs
Setups   == 1 .. MaxSetups     \* coordinators are numbered as they are made
Readings == [at : 0 .. MaxReadings, charging : BOOLEAN]
Nothing  == 0

EntryAssumption ==
  /\ MaxSetups \in Nat \ {0}
  /\ MaxReadings \in Nat /\ MaxChanges \in Nat
  /\ IsFiniteSet(Dialogs) /\ Dialogs \cap {"first", "poll", "call"} = {}
  /\ None \notin Readings
ASSUME EntryAssumption

VARIABLES
  samples,     \* the entry's options: the calibration samples
  changes,     \* the number of times the options were changed
  state,       \* the entry: idle, setup, retry, platforms, loaded, unloading, failed
  made,        \* coordinators made so far
  registered,  \* hass.data[DOMAIN][entry_id]: a coordinator, or Nothing
  shut,        \* coordinators that were shut down
  data,        \* the coordinators' data: a reading, or None
  fitted,      \* the samples their correction was fitted from, or None
  entities,    \* the platforms are loaded
  listening,   \* the update listener is registered
  reloads,     \* reloads requested and not begun
  device,      \* what the station's registers hold
  using,       \* the coordinator a task has entered, or Nothing
  linked,      \* the tasks that have a connection
  dialog       \* the options dialogs

options == <<samples, changes, reloads>>
entry   == <<state, made, registered, shut, entities, listening>>
links   == <<using, linked>>
vars    == <<options, entry, data, fitted, device, links, dialog>>

Closed == [step |-> "closed", count |-> 0, before |-> None, since |-> 0]

Init ==
  /\ samples \in {<<>>, <<[at |-> 0, charging |-> TRUE]>>} /\ changes = 0 /\ reloads = 0
  /\ state = "idle" /\ made = 0 /\ registered = Nothing /\ shut = {}
  /\ data = [c \in Setups |-> None] /\ fitted = [c \in Setups |-> None]
  /\ entities = FALSE /\ listening = FALSE
  /\ device \in [at : {0}, charging : BOOLEAN]
  /\ using = [t \in Tasks |-> Nothing] /\ linked = {}
  /\ dialog = [d \in Dialogs |-> Closed]

-------------------------------------------------------------------------------
(* Tasks and the connections they make *)

(* A coordinator's lock admits one task; coordinators know nothing of each *)
(* other's locks.                                                          *)
Link(t) ==
  /\ using[t] # Nothing /\ t \notin linked
  /\ \A u \in linked : using[u] # using[t]
  /\ linked' = linked \cup {t}
  /\ UNCHANGED <<options, entry, data, fitted, device, using, dialog>>

(* Slip: the lock is left, and the connection not closed.                  *)
LeavesOpen(t) == using' = [using EXCEPT ![t] = Nothing] /\ UNCHANGED linked

Leaves(t) == using' = [using EXCEPT ![t] = Nothing] /\ linked' = linked \ {t}

(* The connection yields the readings, or fails and leaves the last ones.  *)
Fetches(c) == data' = [data EXCEPT ![c] = device]
FetchesOrFails(c) == Fetches(c) \/ UNCHANGED data

(* A scheduled poll begins while there are entities that listen; a service *)
(* call is made on an entity.                                              *)
Begins(t) ==
  /\ t \in {"poll", "call"} /\ entities /\ using[t] = Nothing
  /\ using' = [using EXCEPT ![t] = registered]
  /\ UNCHANGED <<options, entry, data, fitted, device, linked, dialog>>

Ends(t) ==
  /\ t \in {"poll", "call"} /\ t \in linked
  /\ FetchesOrFails(using[t]) /\ Leaves(t)
  /\ UNCHANGED <<options, entry, fitted, device, dialog>>

-------------------------------------------------------------------------------
(* async_setup_entry *)

(* A setup is begun at startup, as the second half of a reload, or after a *)
(* failed one: by the timer of the retry, or by a reload still to come,    *)
(* which finds nothing to unload.                                          *)
SetupBegins ==
  \/ state = "idle" /\ UNCHANGED reloads
  \/ state = "retry" /\ UNCHANGED reloads
  \/ state = "retry" /\ reloads > 0 /\ reloads' = reloads - 1

(* No adapter, or a station out of range: ConfigEntryNotReady.             *)
NotReachable ==
  /\ SetupBegins /\ state' = "retry"
  /\ UNCHANGED <<samples, changes, made, registered, shut, entities, listening, data,
                 fitted, device, links, dialog>>

(* The coordinator is made, registered, and begins its first refresh.      *)
Setup ==
  /\ SetupBegins /\ made < MaxSetups
  /\ state' = "setup" /\ made' = made + 1 /\ registered' = made + 1
  /\ using' = [using EXCEPT !["first"] = made + 1]
  /\ UNCHANGED <<samples, changes, shut, entities, listening, data, fitted,
                 device, linked, dialog>>

(* Slip: the refresh is not one that raises ConfigEntryNotReady.           *)
SetupGoesOn ==
  /\ state = "setup" /\ "first" \in linked /\ Leaves("first")
  /\ listening' = TRUE /\ state' = "platforms"
  /\ UNCHANGED <<options, made, registered, shut, entities, data, fitted, device, dialog>>

(* The first refresh is done: from here on changes of the options reload   *)
(* the entry, and the platforms are set up.                                *)
FirstRefresh ==
  /\ state = "setup" /\ "first" \in linked
  /\ Fetches(made) /\ Leaves("first")
  /\ listening' = TRUE /\ state' = "platforms"
  /\ UNCHANGED <<options, made, registered, shut, entities, fitted, device, dialog>>

(* It fails: ConfigEntryNotReady.  The coordinator is shut down but stays  *)
(* registered, and the setup is tried again later.                         *)
SetupFails ==
  /\ state = "setup" /\ "first" \in linked /\ Leaves("first")
  /\ shut' = shut \cup {made} /\ state' = "retry"
  /\ UNCHANGED <<options, made, registered, entities, listening, data, fitted,
                 device, dialog>>

(* async_forward_entry_setups; the correction is fitted when an entity     *)
(* first uses it.                                                          *)
Loaded ==
  /\ state = "platforms" /\ state' = "loaded" /\ entities' = TRUE
  /\ fitted' = [fitted EXCEPT ![registered] = samples]
  /\ UNCHANGED <<options, made, registered, shut, listening, data, device, links, dialog>>

(* async_unload_entry, called by the reload the update listener asks for.  *)
Unload ==
  /\ state = "loaded" /\ reloads > 0 /\ reloads' = reloads - 1
  /\ state' = "unloading" /\ entities' = FALSE
  /\ UNCHANGED <<samples, changes, made, registered, shut, listening, data, fitted,
                 device, links, dialog>>

(* The platforms are unloaded: the coordinator is forgotten and shut down, *)
(* and a poll of it cancelled.                                             *)
Unloaded ==
  /\ state = "unloading" /\ state' = "idle"
  /\ registered' = Nothing /\ shut' = shut \cup {registered}
  /\ listening' = FALSE /\ Leaves("poll")
  /\ UNCHANGED <<options, made, entities, data, fitted, device, dialog>>

(* They are not: the entry can only be set up again after a restart.       *)
UnloadFails ==
  /\ state = "unloading" /\ state' = "failed"
  /\ UNCHANGED <<options, made, registered, shut, entities, listening, data, fitted,
                 device, links, dialog>>

-------------------------------------------------------------------------------
(* SydpowerOptionsFlow *)

(* _raw_readings *)
RawReadings == IF registered = Nothing THEN None ELSE data[registered]

Becomes(d, step) == dialog' = [dialog EXCEPT ![d].step = step]
Closes(d)        == dialog' = [dialog EXCEPT ![d] = Closed]

(* Slip: only a new interval reloads the entry.                            *)
SaveInterval(d, stored, interval) ==
  /\ Closes(d) /\ samples' = stored
  /\ IF stored = samples /\ ~interval THEN UNCHANGED <<changes, reloads>>
     ELSE /\ changes' = changes + 1
          /\ reloads' = IF listening /\ interval THEN reloads + 1 ELSE reloads

(* _save: the samples, and the interval, which was changed or not.  Home   *)
(* Assistant calls the update listener if anything is new.                 *)
Save(d, stored, interval) ==
  /\ Closes(d) /\ samples' = stored
  /\ IF stored = samples /\ ~interval THEN UNCHANGED <<changes, reloads>>
     ELSE /\ changes' = changes + 1
          /\ reloads' = IF listening THEN reloads + 1 ELSE reloads

Open(d) ==
  /\ dialog[d].step = "closed" /\ Becomes(d, "init")
  /\ changes + Cardinality({o \in Dialogs : dialog[o].step # "closed"}) < MaxChanges
  /\ UNCHANGED <<options, entry, data, fitted, device, links>>

(* async_step_init with one of the actions that end the dialog *)
KeepOrClear(d) ==
  /\ dialog[d].step = "init"
  /\ \E stored \in {samples, <<>>}, interval \in BOOLEAN : Save(d, stored, interval)
  /\ UNCHANGED <<entry, data, fitted, device, links>>

(* with one that goes on to the form for a sample, or for the review       *)
Choose(d) ==
  /\ dialog[d].step = "init"
  /\ \/ RawReadings = None /\ Closes(d)
     \/ RawReadings # None /\ Becomes(d, "add")
     \/ samples = <<>> /\ Closes(d)
     \/ /\ samples # <<>>
        /\ dialog' = [dialog EXCEPT ![d].step = "review", ![d].count = Len(samples)]
  /\ UNCHANGED <<options, entry, data, fitted, device, links>>

Without(drop) ==
  LET kept[i \in 0 .. Len(samples)] ==
        IF i = 0 THEN <<>>
        ELSE IF i \in drop THEN kept[i - 1] ELSE Append(kept[i - 1], samples[i])
  IN kept[Len(samples)]

(* async_step_review_samples: the selected indices are dropped from what   *)
(* is stored by now.                                                       *)
Review(d) ==
  /\ dialog[d].step = "review"
  /\ \/ samples = <<>> /\ Closes(d) /\ UNCHANGED options
     \/ /\ samples # <<>>
        /\ \E drop \in SUBSET (1 .. dialog[d].count), interval \in BOOLEAN :
             Save(d, Without(drop), interval)
  /\ UNCHANGED <<entry, data, fitted, device, links>>

(* Slip: the samples are those there were before the poll.                 *)
AddedToThoseShown(d, reading) ==
  Append(SubSeq(samples, 1, Min({dialog[d].count, Len(samples)})), reading)

Added(d, reading) == Append(samples, reading)

(* Slip: the readings are those from before the poll.                      *)
AsBefore(d) == dialog[d].before

(* What the poll left behind; the readings from before it if there is      *)
(* nothing, because the entry is being reloaded.                           *)
FreshReadings(d) == IF RawReadings' = None THEN dialog[d].before ELSE RawReadings'

(* Slip: that the station charges was checked before the poll.             *)
RecordsIfItCharged(d) ==
  \E interval \in BOOLEAN :
    IF dialog[d].before = None \/ ~dialog[d].before.charging THEN Closes(d) /\ UNCHANGED options
    ELSE Save(d, Added(d, FreshReadings(d)), interval)

(* The rest of async_step_add_sample: a sample is stored if the station    *)
(* charges, and the form shown again otherwise.                            *)
Records(d) ==
  LET raw == FreshReadings(d)
  IN \/ raw = None /\ Closes(d) /\ UNCHANGED options
     \/ raw # None /\ ~raw.charging /\ UNCHANGED options
          /\ IF RawReadings' = None THEN Closes(d)
             ELSE dialog' = [dialog EXCEPT ![d] = [Closed EXCEPT !.step = "add"]]
     \/ raw # None /\ raw.charging
          /\ \E interval \in BOOLEAN : Save(d, Added(d, raw), interval)

(* async_step_add_sample up to the poll of _async_fresh_readings; a        *)
(* coordinator that was shut down does not poll.                           *)
Submit(d) ==
  /\ dialog[d].step = "add"
  /\ UNCHANGED <<entry, data, fitted, device, linked>>
  /\ \/ registered = Nothing /\ Closes(d) /\ UNCHANGED <<options, using>>
     \/ registered \in shut /\ Records(d) /\ UNCHANGED using
     \/ /\ registered # Nothing /\ registered \notin shut
        /\ dialog' = [dialog EXCEPT ![d] = [step |-> "polling", count |-> Len(samples),
                                            before |-> RawReadings, since |-> device.at]]
        /\ using' = [using EXCEPT ![d] = registered] /\ UNCHANGED options

Polled(d) ==
  /\ dialog[d].step = "polling" /\ d \in linked
  /\ FetchesOrFails(using[d]) /\ Leaves(d)
  /\ UNCHANGED <<entry, fitted, device>>
  /\ Records(d)

(* The user closes the dialog.                                             *)
Abandon(d) ==
  /\ dialog[d].step \in {"init", "add", "review"} /\ Closes(d)
  /\ UNCHANGED <<options, entry, data, fitted, device, links>>

-------------------------------------------------------------------------------
(* The station's registers change.                                         *)
DeviceChanges ==
  /\ device.at < MaxReadings
  /\ \E charging \in BOOLEAN : device' = [at |-> device.at + 1, charging |-> charging]
  /\ UNCHANGED <<options, entry, data, fitted, links, dialog>>

Next ==
  \/ NotReachable \/ Setup \/ FirstRefresh \/ SetupFails \/ Loaded
  \/ Unload \/ Unloaded \/ UnloadFails \/ DeviceChanges
  \/ \E t \in Tasks : Link(t) \/ Begins(t) \/ Ends(t)
  \/ \E d \in Dialogs : Open(d) \/ KeepOrClear(d) \/ Choose(d) \/ Review(d)
                         \/ Submit(d) \/ Polled(d) \/ Abandon(d)

Spec == Init /\ [][Next]_vars

-------------------------------------------------------------------------------
(* Properties *)

IsDialog(x) ==
  /\ x.step \in {"closed", "init", "add", "review", "polling"}
  /\ x.count \in 0 .. MaxChanges + 1 /\ x.before \in Readings \cup {None}
  /\ x.since \in 0 .. MaxReadings

(* Every variable holds a value of its kind, and only tasks that use a     *)
(* coordinator have a connection.                                          *)
TypeOK ==
  /\ samples \in Seq(Readings) /\ changes \in 0 .. MaxChanges
  /\ reloads \in 0 .. MaxChanges
  /\ state \in {"idle", "setup", "retry", "platforms", "loaded", "unloading", "failed"}
  /\ made \in 0 .. MaxSetups /\ registered \in {Nothing, made} /\ shut \subseteq 1 .. made
  /\ data \in [Setups -> Readings \cup {None}]
  /\ \A c \in Setups : fitted[c] = None \/ fitted[c] \in Seq(Readings)
  /\ entities \in BOOLEAN /\ listening \in BOOLEAN /\ device \in Readings
  /\ using \in [Tasks -> Setups \cup {Nothing}]
  /\ linked \subseteq {t \in Tasks : using[t] # Nothing}
  /\ \A d \in Dialogs : IsDialog(dialog[d])

(* "Entities are never created against a device we have never read": where *)
(* there are entities, their coordinator is the registered one, polls, and *)
(* has readings.                                                           *)
ReadBeforeEntities ==
  entities => registered # Nothing /\ registered \notin shut /\ RawReadings # None

(* "The entry reloads whenever the samples change": the cached correction  *)
(* of a loaded entry is fitted from the samples stored, unless a reload is *)
(* on its way, whatever was saved while the entry was being set up or      *)
(* unloaded.                                                               *)
CorrectionInForce ==
  state = "loaded" /\ reloads = 0 => fitted[registered] = samples

(* "The error only appears while charging": no sample is stored that was   *)
(* read while the station did not charge, though it stops charging, the    *)
(* entry is reloaded and other dialogs save while the form is open.        *)
OnlyWhileCharging == \A i \in DOMAIN samples : samples[i].charging

(* A dialog that adds a sample keeps every sample stored by then, those    *)
(* recorded by other dialogs during its poll included.                     *)
NoSampleLost ==
  [][\A d \in Dialogs : dialog[d].step = "polling" /\ dialog'[d].step # "polling"
       => IsPrefix(samples, samples')]_vars

(* "The registers are re-read when the form is submitted": a sample was    *)
(* read after that, if the poll succeeded, and also if the entry was       *)
(* reloaded meanwhile and a new coordinator, with readings of its own, is  *)
(* in charge when the poll of the old one ends, or fails.  Otherwise the   *)
(* last readings there were are used, as _async_fresh_readings says.       *)
SampleIsFresh ==
  [][\A d \in Dialogs :
       /\ dialog[d].step = "polling" /\ dialog'[d].step = "closed" /\ samples' # samples
       /\ RawReadings' # None
       /\ using[d] = registered => data'[registered] = device
       => Last(samples').at >= dialog[d].since]_vars

(* What a comment says, refuted: "These devices accept a single BLE client *)
(* at a time, so all access is serialised."                                *)
SingleClient == \A t, u \in linked : t = u
===============================================================================
