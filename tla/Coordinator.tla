------------------------------ MODULE Coordinator ------------------------------
(***************************************************************************)
(* The Home Assistant coordinator of one power station:                    *)
(* custom_components/sydpower/coordinator.py, with the entities that read  *)
(* its snapshot and write through it (switch, light, number, select,       *)
(* button).                                                                *)
(*                                                                         *)
(* Every task opens a connection of its own, reads the registers, closes   *)
(* it and publishes what it read; the lock _io_lock serialises them.  The  *)
(* tasks are the scheduled poll, the debounced refresh and the service     *)
(* calls that write.  Home Assistant's DataUpdateCoordinator and Debouncer *)
(* are external.  A register access is one step here, with the outcomes    *)
(* BleExchange shows it can have.                                          *)
(*                                                                         *)
(* A definition commented "Slip" is not part of the model: it is a variant *)
(* of the definition after it with a plausible mistake, and the property   *)
(* meant to notice that mistake is violated when it takes its place.       *)
(***************************************************************************)
EXTENDS Naturals, Sequences, SequencesExt

CONSTANTS Writers,     \* service calls, each made at most once
          Toggles,       \* those made through a switch or the light
          Values,        \* contents of the register they write
          Polling,       \* is the poll timer running for this entry?
          Faults,        \* may connections and register accesses fail?
          Cancels,       \* may service calls be cancelled, as a restarted script does?
          LateReplies,   \* may an abandoned reply arrive on a later connection?
          MaxPanel       \* bound: changes made at the front panel

CoordinatorAssumption ==
  /\ Toggles \subseteq Writers /\ Values # {} /\ MaxPanel \in Nat
  /\ Polling \in BOOLEAN /\ Faults \in BOOLEAN /\ Cancels \in BOOLEAN
  /\ LateReplies \in BOOLEAN
ASSUME CoordinatorAssumption

Poll       == "poll"
Refresh    == "refresh"
Refreshers == {Poll, Refresh}
Tasks      == Writers \cup Refreshers
Nobody     == "nobody"
Entities   == "entities"
ASSUME TasksAssumption == Writers \cap {Poll, Refresh, Nobody, Entities} = {}

ReadHoldingBank == 3   \* function codes
WriteRegister   == 6

VARIABLES
  station,    \* the register: its content, and how often it has changed
  applying,   \* the service call whose write the station is about to carry out
  late,       \* the abandoned reply the station still has queued, if any
  pc,         \* per task: the await it is in
  want,       \* per service call: the value requested
  seen,       \* per task: the snapshot it has read
  ioLock,     \* _io_lock: the owner followed by the waiters, first come first served
  published,  \* coordinator.data
  available,  \* coordinator.last_update_success
  debouncer,  \* Debouncer: ready, running its job, or cooling down
  again,      \* Debouncer: run once more when the cooldown ends?
  landed,     \* history: the change of the register each service call made
  lastWanted, \* history: the value requested last
  panel,      \* history: changes made at the front panel
  stray       \* history: whose snapshot was taken from an abandoned reply

device == <<station, applying, late>>
tasks  == <<pc, want, seen, ioLock>>
shown  == <<published, available>>
bounce == <<debouncer, again>>
ghosts == <<landed, lastWanted, panel, stray>>
vars   == <<device, tasks, shown, bounce, ghosts>>

Ended     == {"ok", "failed", "skipped", "cancelled"}
Connected == {"writing", "settling", "holding", "input", "closing", "aborting", "dropping"}
Goto(t, label) == pc' = [pc EXCEPT ![t] = label]

Init ==
  /\ \E v \in Values : station = [val |-> v, ver |-> 0]
  /\ applying = Nobody /\ late = {}
  /\ pc = [t \in Tasks |-> "idle"] /\ ioLock = <<>>
  /\ want = [w \in Writers |-> station.val] /\ seen = [t \in Tasks |-> station]
  /\ published = station /\ available = TRUE
  /\ debouncer = "ready" /\ again = FALSE
  /\ landed = [w \in Writers |-> 0] /\ lastWanted = station.val /\ panel = 0 /\ stray = {}

-------------------------------------------------------------------------------
(* Starting a task: the device is resolved before the lock is awaited *)

(* Slip: the lock is granted to the newcomer among the waiters first. *)
EnqueueFirst(t) ==
  /\ ioLock' = IF ioLock = <<>> THEN <<t>> ELSE <<Head(ioLock), t>> \o Tail(ioLock)
  /\ Goto(t, "queued")

Enqueue(t) == ioLock' = Append(ioLock, t) /\ Goto(t, "queued")

CancelDebounced ==
  /\ again' = FALSE
  /\ debouncer' = IF debouncer = "cooling" THEN "ready" ELSE debouncer

(* _async_update_data for the poll timer, or UpdateFailed at once when no  *)
(* adapter reaches the station.  Any refresh cancels a debounced one.      *)
StartPoll ==
  /\ Polling /\ pc[Poll] = "idle"
  /\ CancelDebounced
  /\ \/ Enqueue(Poll) /\ UNCHANGED available
     \/ Faults /\ available' = FALSE /\ UNCHANGED <<pc, ioLock>>
  /\ UNCHANGED <<device, want, seen, published, ghosts>>

(* The debounced refresh starts its job. *)
StartRefresh ==
  /\ debouncer = "running" /\ pc[Refresh] = "idle"
  /\ \/ Enqueue(Refresh) /\ UNCHANGED <<available, debouncer>>
     \/ /\ Faults /\ available' = FALSE /\ debouncer' = "cooling"
        /\ UNCHANGED <<pc, ioLock>>
  /\ UNCHANGED <<device, want, seen, published, again, ghosts>>

(* The cooldown ends: one more run when one was asked for meanwhile. *)
CooldownEnds ==
  /\ debouncer = "cooling"
  /\ debouncer' = IF again THEN "running" ELSE "ready"
  /\ again' = FALSE
  /\ UNCHANGED <<device, tasks, shown, ghosts>>

(* A service call on an available entity.  A switch and the light skip the *)
(* write when the snapshot already shows the value; any call fails when no *)
(* adapter reaches the station.                                            *)
Skips(w, val) == w \in Toggles /\ published.val = val

Request(w, val) ==
  /\ pc[w] = "idle" /\ available
  /\ want' = [want EXCEPT ![w] = val] /\ lastWanted' = val
  /\ \/ Skips(w, val) /\ Goto(w, "skipped") /\ UNCHANGED ioLock
     \/ ~Skips(w, val) /\ Enqueue(w)
     \/ ~Skips(w, val) /\ Faults /\ Goto(w, "failed") /\ UNCHANGED ioLock
  /\ UNCHANGED <<device, seen, shown, bounce, landed, panel, stray>>

-------------------------------------------------------------------------------
(* Holding the lock: async with self._io_lock, device *)

Owner(t) == ioLock # <<>> /\ Head(ioLock) = t

(* Slip: the device connects without waiting for the lock. *)
AcquireUnlocked(t) ==
  /\ pc[t] = "queued"
  /\ Goto(t, "connecting")
  /\ UNCHANGED <<device, want, seen, ioLock, shown, bounce, ghosts>>

(* The lock is granted and the device connects. *)
Acquire(t) ==
  /\ pc[t] = "queued" /\ Owner(t)
  /\ Goto(t, "connecting")
  /\ UNCHANGED <<device, want, seen, ioLock, shown, bounce, ghosts>>

(* A connection takes longer to come up than a write takes to take effect. *)
LinkUp(t) ==
  /\ pc[t] = "connecting" /\ applying = Nobody
  /\ Goto(t, IF t \in Writers THEN "writing" ELSE "holding")
  /\ UNCHANGED <<device, want, seen, ioLock, shown, bounce, ghosts>>

(* An abandoned reply that answers requests of function code fc.  Any      *)
(* other one is discarded by the first access of the next connection.      *)
LateAnswers(fc) == {reply \in late : reply.fc = fc}

(* write_register succeeds: the station has echoed the request.  When the  *)
(* echo is that of an abandoned write, it may not even have accepted it.   *)
Write(w) ==
  /\ pc[w] = "writing"
  /\ \/ applying' = w
     \/ LateAnswers(WriteRegister) # {} /\ UNCHANGED applying
  /\ late' = {} /\ Goto(w, "settling")
  /\ UNCHANGED <<station, want, seen, ioLock, shown, bounce, ghosts>>

(* Slip: the registers are read back at once. *)
SettledAtOnce(w) ==
  /\ pc[w] = "settling"
  /\ Goto(w, "holding")
  /\ UNCHANGED <<device, want, seen, ioLock, shown, bounce, ghosts>>

(* The sleep of WRITE_SETTLE_DELAY, within which the write takes effect. *)
Settled(w) ==
  /\ pc[w] = "settling" /\ applying = Nobody
  /\ Goto(w, "holding")
  /\ UNCHANGED <<device, want, seen, ioLock, shown, bounce, ghosts>>

(* read_holding_registers: the reply to this request, or an abandoned one. *)
ReadHolding(t) ==
  /\ pc[t] = "holding"
  /\ \/ /\ LateAnswers(ReadHoldingBank) = {}
        /\ seen' = [seen EXCEPT ![t] = station] /\ stray' = stray \ {t}
     \/ /\ \E reply \in LateAnswers(ReadHoldingBank) : seen' = [seen EXCEPT ![t] = reply.snapshot]
        /\ stray' = stray \cup {t}
  /\ late' = {} /\ Goto(t, "input")
  /\ UNCHANGED <<station, applying, want, ioLock, shown, bounce, landed, lastWanted, panel>>

(* read_input_registers *)
ReadInput(t) ==
  /\ pc[t] = "input"
  /\ Goto(t, "closing")
  /\ UNCHANGED <<device, want, seen, ioLock, shown, bounce, ghosts>>

(* The reply of function code fc that a failing access may leave behind. *)
Abandoned(fc) ==
  IF LateReplies THEN {{[fc |-> fc, snapshot |-> station]}} ELSE {}

(* What an access leaves behind that does not wait for its reply: a write  *)
(* may have been accepted all the same, and a reply may still come.        *)
LeavesBehind(t) ==
  \/ UNCHANGED <<applying, late>>
  \/ /\ pc[t] = "writing" /\ applying' = t
     /\ late' \in {late} \cup Abandoned(WriteRegister)
  \/ /\ pc[t] = "holding" /\ UNCHANGED applying
     /\ late' \in Abandoned(ReadHoldingBank)

(* Slip: any failed access is taken for a write that may have landed. *)
FailsAsWrite(t) ==
  /\ Faults /\ pc[t] \in {"connecting", "writing", "holding", "input"}
  /\ applying' \in {applying, t} /\ UNCHANGED late
  /\ Goto(t, "aborting")
  /\ UNCHANGED <<station, want, seen, ioLock, shown, bounce, ghosts>>

(* A connection or a register access fails. *)
Fails(t) ==
  /\ Faults /\ pc[t] \in {"connecting", "writing", "holding", "input"}
  /\ LeavesBehind(t) /\ Goto(t, "aborting")
  /\ UNCHANGED <<station, want, seen, ioLock, shown, bounce, ghosts>>

(* A service call is cancelled.  One that waits leaves the queue; one that *)
(* holds the lock closes its connection, if any, and asks for no refresh:  *)
(* CancelledError is none of the errors the code catches.                  *)
LeavesQueue(w) ==
  /\ Cancels /\ pc[w] = "queued"
  /\ \E i \in 1..Len(ioLock) : ioLock[i] = w /\ ioLock' = RemoveAt(ioLock, i)
  /\ Goto(w, "cancelled")
  /\ UNCHANGED <<device, want, seen, shown, bounce, ghosts>>

Drops(w) ==
  /\ Cancels /\ pc[w] \in {"connecting", "writing", "settling", "holding", "input"}
  /\ LeavesBehind(w) /\ Goto(w, "dropping")
  /\ UNCHANGED <<station, want, seen, ioLock, shown, bounce, ghosts>>

-------------------------------------------------------------------------------
(* Leaving the lock: the connection is closed first, and what follows the  *)
(* release runs without another await.                                     *)

Release == ioLock' = Tail(ioLock)

(* async_set_updated_data *)
Publish(t) ==
  /\ published' = seen[t] /\ available' = TRUE
  /\ stray' = IF t \in stray THEN {Entities} ELSE {}

(* async_write_register returns after publishing the read-back. *)
WriteReturns(w) ==
  /\ pc[w] = "closing"
  /\ Release /\ Publish(w) /\ CancelDebounced /\ Goto(w, "ok")
  /\ UNCHANGED <<device, want, seen, landed, lastWanted, panel>>

(* async_request_refresh: the refresh runs now, or is left to the run      *)
(* under way or to the end of the cooldown.                                *)
RequestRefresh(w) ==
  /\ Goto(w, IF debouncer = "ready" THEN "refreshing" ELSE "failed")
  /\ debouncer' = IF debouncer = "ready" THEN "running" ELSE debouncer
  /\ again' = (again \/ debouncer = "cooling")

(* Slip: the refresh is awaited before the lock is released. *)
WriteFailsLocked(w) ==
  /\ pc[w] = "aborting" /\ RequestRefresh(w)
  /\ IF pc'[w] = "refreshing" THEN UNCHANGED ioLock ELSE Release
  /\ UNCHANGED <<device, want, seen, shown, ghosts>>

(* Slip: the error is raised without asking for a refresh. *)
WriteFailsQuietly(w) ==
  /\ pc[w] = "aborting" /\ Release /\ Goto(w, "failed")
  /\ UNCHANGED <<device, want, seen, shown, bounce, ghosts>>

(* It failed: the lock is released, and a refresh requested. *)
WriteFails(w) ==
  /\ pc[w] = "aborting" /\ Release /\ RequestRefresh(w)
  /\ UNCHANGED <<device, want, seen, shown, ghosts>>

(* It was cancelled: the lock is released and nothing else happens. *)
Dropped(w) ==
  /\ pc[w] = "dropping" /\ Release /\ Goto(w, "cancelled")
  /\ UNCHANGED <<device, want, seen, shown, bounce, ghosts>>

(* The refresh it waited for is over: HomeAssistantError is raised. *)
WriteRaises(w) ==
  /\ pc[w] = "refreshing" /\ debouncer # "running"
  /\ Goto(w, "failed")
  /\ UNCHANGED <<device, want, seen, ioLock, shown, bounce, ghosts>>

(* A poll or refresh publishes what it read, or marks the data as failed.  *)
RefreshEnds(t) ==
  /\ pc[t] \in {"closing", "aborting"}
  /\ Release /\ Goto(t, "idle")
  /\ IF pc[t] = "closing" THEN Publish(t)
     ELSE available' = FALSE /\ stray' = stray \ {t} /\ UNCHANGED published
  /\ debouncer' = IF t = Refresh THEN "cooling" ELSE debouncer
  /\ UNCHANGED <<device, want, seen, again, landed, lastWanted, panel>>

-------------------------------------------------------------------------------
(* The station (external) *)

Change(val) == station' = [val |-> val, ver |-> station.ver + 1]

(* A write takes effect. *)
StationApplies ==
  /\ applying # Nobody
  /\ Change(want[applying])
  /\ landed' = [landed EXCEPT ![applying] = station.ver + 1]
  /\ applying' = Nobody
  /\ UNCHANGED <<late, tasks, shown, bounce, lastWanted, panel, stray>>

(* Somebody presses a button on the station. *)
PanelChange ==
  /\ panel < MaxPanel /\ panel' = panel + 1
  /\ \E val \in Values \ {station.val} : Change(val)
  /\ UNCHANGED <<applying, late, tasks, shown, bounce, landed, lastWanted, stray>>

-------------------------------------------------------------------------------
Session(t) == \/ Acquire(t) \/ LinkUp(t) \/ ReadHolding(t) \/ ReadInput(t) \/ Fails(t)

WriterStep(w) ==
  \/ Session(w) \/ Write(w) \/ Settled(w)
  \/ WriteReturns(w) \/ WriteFails(w) \/ WriteRaises(w) \/ Dropped(w)

RefresherStep(t) == Session(t) \/ RefreshEnds(t)

Requests == \E w \in Writers, val \in Values : Request(w, val)

Next ==
  \/ Requests \/ StartPoll \/ StartRefresh \/ CooldownEnds
  \/ \E w \in Writers : WriterStep(w) \/ LeavesQueue(w) \/ Drops(w)
  \/ \E t \in Refreshers : RefresherStep(t)
  \/ StationApplies \/ PanelChange

Spec == Init /\ [][Next]_vars

(* The event loop resumes every task whose await ends, and every await     *)
(* ends: BleExchange shows it of register accesses.  Timers fire, and the  *)
(* station carries out what it accepted.  Nothing makes users or polls     *)
(* come.                                                                   *)
FairSpec ==
  /\ Spec
  /\ \A w \in Writers : WF_vars(WriterStep(w))
  /\ \A t \in Refreshers : WF_vars(RefresherStep(t))
  /\ WF_vars(StartRefresh) /\ WF_vars(CooldownEnds) /\ WF_vars(StationApplies)

-------------------------------------------------------------------------------
(* Properties *)

Snapshots == [val : Values, ver : Nat]

(* Every variable holds a value of its kind. *)
TypeOK ==
  /\ station \in Snapshots /\ applying \in Writers \cup {Nobody}
  /\ late \in SUBSET [fc : {ReadHoldingBank, WriteRegister}, snapshot : Snapshots]
  /\ pc \in [Tasks -> {"idle", "queued", "connecting", "refreshing"} \cup Connected \cup Ended]
  /\ \A t \in Refreshers :
       pc[t] \notin {"writing", "settling", "refreshing", "dropping"} \cup Ended
  /\ want \in [Writers -> Values] /\ seen \in [Tasks -> Snapshots]
  /\ ioLock \in Seq(Tasks) /\ published \in Snapshots /\ available \in BOOLEAN
  /\ debouncer \in {"ready", "running", "cooling"} /\ again \in BOOLEAN
  /\ landed \in [Writers -> Nat] /\ lastWanted \in Values /\ panel \in Nat
  /\ stray \subseteq Tasks \cup {Entities}

(* "These devices accept a single BLE client at a time": no two tasks have *)
(* a connection, or one in the making, at once.                            *)
OneClientAtATime ==
  \A t, u \in Tasks :
    {pc[t], pc[u]} \subseteq Connected \cup {"connecting"} => t = u

(* However polls, refreshes and writes overlap, what is published is never *)
(* replaced by something read before it.                                   *)
NeverBackwards ==
  [][published'.ver >= published.ver]_vars

(* When a service call returns success, the entities show the register as  *)
(* it was when its write took effect, or later: the read-back happens on   *)
(* the same connection, after the settle delay, and never uses a reply     *)
(* from before the write.                                                  *)
ReadBackIsFresh ==
  \A w \in Writers : pc[w] = "ok" => published.ver >= landed[w]

Done(w) == pc[w] \in Ended \cup {"idle"}
Untouched == panel = 0 /\ applying = Nobody /\ \A w \in Writers : Done(w)

(* When every call that was made wrote successfully, the register holds    *)
(* what was requested last: the lock serves calls in the order they came.  *)
LastWriteWins ==
  Untouched /\ (\A w \in Writers : pc[w] \notin {"failed", "skipped", "cancelled"})
    => station.val = lastWanted

(* Every service call returns, even while the station cannot be reached.   *)
EveryCallReturns ==
  \A w \in Writers : pc[w] = "queued" ~> Done(w)

(* A write that took effect is not hidden for good, with polling disabled  *)
(* too: in the end the entities show it, or are unavailable.  Two cases    *)
(* are not covered by the refresh a failed write asks for: one that is     *)
(* itself answered by an abandoned reply, so that the snapshot shown last  *)
(* is a stray one, and a call that was cancelled, which asks for none.     *)
WritesConverge ==
  <>[](available /\ Entities \notin stray =>
         \A w \in Writers : pc[w] # "cancelled" => published.ver >= landed[w])

-------------------------------------------------------------------------------
(* The inductive invariant behind the safety properties *)

(* The lock's queue holds each task once, in some state between awaiting   *)
(* the lock and leaving it, and whoever is past the wait is in front.      *)
LockInv ==
  /\ \A i, j \in 1..Len(ioLock) : ioLock[i] = ioLock[j] => i = j
  /\ \A i \in 1..Len(ioLock) : pc[ioLock[i]] \in Connected \cup {"connecting", "queued"}
  /\ \A t \in Tasks : pc[t] \in Connected \cup {"connecting"} => Owner(t)

(* Versions are ordered: published, read or still under way, the register. *)
SnapshotInv ==
  /\ published.ver <= station.ver
  /\ \A reply \in late : /\ published.ver <= reply.snapshot.ver
                         /\ reply.snapshot.ver <= station.ver
  /\ \A t \in Tasks : pc[t] \in {"input", "closing"} =>
       late = {} /\ published.ver <= seen[t].ver /\ seen[t].ver <= station.ver

(* A write is applied before it is read back, and what is read back was    *)
(* sent afterwards.                                                        *)
LandedInv ==
  /\ applying # Nobody => pc[applying] \in 
       {"settling", "aborting", "refreshing", "failed", "dropping", "cancelled"}
  /\ \A w \in Writers :
       /\ landed[w] <= station.ver
       /\ pc[w] \in {"settling", "holding", "input", "closing"} => late = {}
       /\ pc[w] \in {"input", "closing"} => landed[w] <= seen[w].ver

(* Service calls that have asked for the lock and not written yet.         *)
Pending == {w \in Writers : pc[w] \in {"queued", "connecting", "writing"}}

(* Nothing but successful service calls has written.                       *)
Untroubled ==
  /\ panel = 0
  /\ \A w \in Writers :
       pc[w] \notin {"aborting", "refreshing", "failed", "skipped", "dropping", "cancelled"}

(* The value requested last is the one of the last call in the queue, or,  *)
(* when all have written, what the register holds or is about to.          *)
OrderInv ==
  Untroubled =>
    /\ \A i \in 1..Len(ioLock) :
         ioLock[i] \in Pending /\ (\A j \in i+1..Len(ioLock) : ioLock[j] \notin Writers)
           => want[ioLock[i]] = lastWanted
    /\ Pending = {} => lastWanted = IF applying = Nobody THEN station.val ELSE want[applying]
    /\ \A reply \in late : reply.fc # WriteRegister

IInv == TypeOK /\ LockInv /\ SnapshotInv /\ LandedInv /\ OrderInv /\ ReadBackIsFresh

-------------------------------------------------------------------------------
(* What docstrings say of the coordinator and the entities, refuted *)

(* switch.py, _write: "Write unless the device already reports the         *)
(* requested state".  If skipping is harmless, then the register holds     *)
(* what was requested last when no call failed.                            *)
LastRequestWins ==
  Untouched /\ (\A w \in Writers : pc[w] \notin {"failed", "cancelled"})
    => station.val = lastWanted

(* coordinator.py, async_write_register: raises on failure "rather than    *)
(* failing silently".  Success then means that the write took effect.      *)
NeverFailsSilently ==
  \A w \in Writers : pc[w] = "ok" => landed[w] > 0
===============================================================================
