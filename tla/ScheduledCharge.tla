---------------------------- MODULE ScheduledCharge ----------------------------
(***************************************************************************)
(* The datetime entity "Scheduled charge":                                 *)
(* custom_components/sydpower/datetime.py, class SydpowerScheduledCharge,  *)
(* with the button that cancels the schedule.                              *)
(*                                                                         *)
(* The station is given a delay in whole minutes and counts it down; the   *)
(* entity remembers the time that was asked for and compares it with what  *)
(* the countdown projects.  Time is counted in ticks, Minute of them to a  *)
(* minute, and starts at a full minute.  A poll or write of Coordinator    *)
(* is one or two steps here.                                               *)
(*                                                                         *)
(* A definition commented "Slip" is not part of the model: it is a variant *)
(* of the definition after it with a plausible mistake, and the property   *)
(* meant to notice that mistake is violated when it takes its place.       *)
(***************************************************************************)
EXTENDS Integers

CONSTANTS Minute,       \* ticks to a minute
          MaxDelay,     \* the longest delay the write allowlist permits, in minutes
          Horizon,      \* bound: ticks the clock runs
          MaxEdits,     \* bound: changes of the schedule in the station
          None,         \* Python's None; the state "unknown"
          Unavailable   \* the state "unavailable"

ChargeAssumption ==
  /\ Minute \in Nat \ {0} /\ MaxDelay \in Nat \ {0}
  /\ Horizon \in Nat /\ MaxEdits \in Nat
  /\ None \notin Int /\ Unavailable \notin Int /\ None # Unavailable
ASSUME ChargeAssumption

MinDelay  == 1             \* MIN_DELAY_MINUTES
Tolerance == 2 * Minute    \* COUNTDOWN_TOLERANCE, 120 seconds

VARIABLES
  now,      \* the clock
  due,      \* the station: when it starts charging, or None
  edits,    \* history: changes of the schedule in the station
  pc,       \* the service call: idle, queued for the connection, settling; or starting
  value,    \* the time the call asks for, or None to cancel
  delay,    \* the delay in minutes it computed
  waited,   \* ticks from there until the write takes effect
  target,   \* _target
  shown,    \* the entity's state in Home Assistant
  agreed,   \* history: edits when the entity's value was last computed
  taken,    \* history: edits when _target was asked for or adopted
  lag       \* history: ticks the write of _target had waited, 0 for an adopted one

service == <<pc, value, delay, waited>>
entity  == <<target, shown, agreed, taken, lag>>
vars    == <<now, due, edits, service, entity>>

(* The register the station counts down: started minutes count. *)
Countdown ==
  IF due = None \/ due <= now THEN 0 ELSE (due - now + Minute - 1) \div Minute

Init ==
  /\ now = 0 /\ due = None /\ edits = 0
  /\ pc = "starting" /\ value = None /\ delay = 0 /\ waited = 0
  /\ target = None /\ shown = Unavailable /\ agreed = 0 /\ taken = 0 /\ lag = 0

-------------------------------------------------------------------------------
(* native_value: it is computed, and may change _target, whenever the      *)
(* coordinator publishes a snapshot.                                       *)

Projected == now + Countdown * Minute

WholeMinutes(time) == (time \div Minute) * Minute

(* Slip: a tolerance of one minute. *)
AgreesClosely(time) == time - Projected \in -Minute .. Minute

Agrees(time) == time - Projected \in -Tolerance .. Tolerance

(* Slip: a remembered time is reported without a check. *)
Remembered ==
  IF Countdown = 0 THEN None ELSE IF target # None THEN target ELSE WholeMinutes(Projected)

NativeValue ==
  IF Countdown = 0 THEN None
  ELSE IF target # None /\ Agrees(target) THEN target
  ELSE WholeMinutes(Projected)

(* A poll, or the refresh after a failed write, that succeeds. *)
Poll ==
  /\ pc # "settling"
  /\ target' = NativeValue /\ shown' = NativeValue /\ agreed' = edits
  /\ taken' = IF target' = target THEN taken ELSE edits
  /\ lag' = IF target' = target THEN lag ELSE 0
  /\ pc' = IF pc = "starting" THEN "idle" ELSE pc
  /\ UNCHANGED <<now, due, edits, value, delay, waited>>

(* One that fails: the entity is unavailable, and its value not computed. *)
PollFails ==
  /\ pc \in {"idle", "queued"}
  /\ shown' = Unavailable
  /\ UNCHANGED <<now, due, edits, service, target, agreed, taken, lag>>

-------------------------------------------------------------------------------
(* async_set_value and the cancel button *)

(* Python's round: a tie goes to the even neighbour. *)
Rounded(ticks) ==
  LET low == ticks \div Minute
      double == 2 * (ticks % Minute)
  IN IF double > Minute \/ (double = Minute /\ low % 2 = 1) THEN low + 1 ELSE low

(* Slip: a time too far ahead is not refused. *)
SetAnyValue(time) ==
  /\ pc = "idle" /\ shown # Unavailable /\ edits < MaxEdits
  /\ Rounded(time - now) >= MinDelay
  /\ pc' = "queued" /\ value' = time /\ delay' = Rounded(time - now) /\ waited' = 0
  /\ UNCHANGED <<now, due, edits, entity>>

(* The delay is computed before the connection is awaited; a time out of   *)
(* range raises ServiceValidationError and changes nothing.                *)
SetValue(time) ==
  /\ pc = "idle" /\ shown # Unavailable /\ edits < MaxEdits
  /\ Rounded(time - now) \in MinDelay .. MaxDelay
  /\ pc' = "queued" /\ value' = time /\ delay' = Rounded(time - now) /\ waited' = 0
  /\ UNCHANGED <<now, due, edits, entity>>

Cancel ==
  /\ pc = "idle" /\ shown # Unavailable /\ edits < MaxEdits
  /\ pc' = "queued" /\ value' = None /\ delay' = 0 /\ waited' = 0
  /\ UNCHANGED <<now, due, edits, entity>>

(* The station is told to start in so many minutes.  It counts the minutes *)
(* of its own clock, so the first of them may be a short one.              *)
Schedule(minutes) ==
  /\ edits < MaxEdits /\ edits' = edits + 1
  /\ IF minutes = 0 THEN due' = None
     ELSE \E elapsed \in 0 .. Minute - 1 : due' = now + minutes * Minute - elapsed

(* The call is over, and with it what it computed. *)
Over == value' = None /\ delay' = 0 /\ waited' = 0

(* async_write_register: the write takes effect. *)
Written ==
  /\ pc = "queued" /\ pc' = "settling" /\ Schedule(delay)
  /\ UNCHANGED <<now, value, delay, waited, entity>>

(* It is read back and published, which computes the value from what was   *)
(* remembered before; then the time asked for is remembered.               *)
ReadBack ==
  /\ pc = "settling" /\ pc' = "idle"
  /\ shown' = NativeValue /\ agreed' = edits /\ taken' = edits
  /\ target' = IF value = None THEN NativeValue ELSE value
  /\ lag' = IF value = None THEN 0 ELSE waited
  /\ Over /\ UNCHANGED <<now, due, edits>>

(* The write or its read-back fails, and HomeAssistantError is raised; a   *)
(* write that failed may take effect all the same.                         *)
CallFails ==
  /\ pc \in {"queued", "settling"} /\ pc' = "idle"
  /\ \/ UNCHANGED <<due, edits>>
     \/ pc = "queued" /\ Schedule(delay)
  /\ Over /\ UNCHANGED <<now, entity>>

-------------------------------------------------------------------------------
(* The environment *)

(* Somebody uses the vendor's application, which cannot connect as long as *)
(* the write and its read-back have the connection.                        *)
Elsewhere ==
  /\ pc # "settling"
  /\ \E minutes \in 0 .. MaxDelay : Schedule(minutes)
  /\ UNCHANGED <<now, service, entity>>

(* Home Assistant restarts; async_added_to_hass restores the last state.   *)
(* A call under way is lost, and its write perhaps carried out.            *)
Restart ==
  /\ pc # "starting" /\ pc' = "starting"
  /\ \/ UNCHANGED <<due, edits>>
     \/ pc = "queued" /\ Schedule(delay)
  /\ target' = IF shown \in {None, Unavailable} THEN None ELSE shown
  /\ shown' = Unavailable
  /\ taken' = IF target' = target THEN taken ELSE -1
  /\ Over /\ UNCHANGED <<now, agreed, lag>>

(* Time passes, while the call waits for the lock and the connection too:  *)
(* nothing bounds how long that takes.                                     *)
Tick ==
  /\ now < Horizon /\ now' = now + 1
  /\ waited' = IF pc = "queued" THEN waited + 1 ELSE waited
  /\ UNCHANGED <<due, edits, pc, value, delay, entity>>

Next ==
  \/ Poll \/ PollFails
  \/ \E ahead \in 0 .. (MaxDelay + 1) * Minute : SetValue(now + ahead)
  \/ Cancel \/ Written \/ ReadBack \/ CallFails
  \/ Elsewhere \/ Restart \/ Tick

Spec == Init /\ [][Next]_vars

-------------------------------------------------------------------------------
(* Properties *)

Times == 0 .. Horizon + (MaxDelay + 1) * Minute

(* Every variable holds a value of its kind; no delay beyond what the      *)
(* allowlist permits is ever asked of the station.                         *)
TypeOK ==
  /\ now \in 0 .. Horizon /\ due \in Times \cup {None} /\ edits \in 0 .. MaxEdits
  /\ pc \in {"idle", "queued", "settling", "starting"}
  /\ value \in Times \cup {None} /\ delay \in 0 .. MaxDelay /\ waited \in 0 .. now
  /\ target \in Times \cup {None} /\ shown \in Times \cup {None, Unavailable}
  /\ agreed \in 0 .. MaxEdits /\ taken \in -1 .. MaxEdits /\ lag \in 0 .. Horizon

(* "The value therefore never drifts": a time that was asked for, or       *)
(* adopted, for the schedule in the station stays what it is while that    *)
(* schedule is pending, at whatever moments the countdown is read and      *)
(* through restarts.  Two cases are not covered.  The tolerance leaves a   *)
(* write half a minute from the call until it takes effect: one that waits *)
(* longer may set a schedule that disagrees, whose projection is adopted,  *)
(* once.  And a restart restores the state shown: where that is not the    *)
(* remembered time, because the entity was unavailable or no poll has come *)
(* since the service call, the time is lost or shifted.                    *)
NeverDrifts ==
  [][target # None /\ taken = edits /\ 2 * lag <= Minute /\ Countdown > 0
       => target' = target \/ (pc' = "starting" /\ shown # target)]_vars

(* "A stale one cannot survive": what is shown for the schedule in the     *)
(* station is within the tolerance and one minute of when it starts,       *)
(* whatever was remembered or restored, and nothing is shown once it was   *)
(* cancelled.                                                              *)
ShowsTheSchedule ==
  agreed = edits /\ shown \notin {None, Unavailable} =>
    due # None /\ shown - due \in -Tolerance .. Tolerance + Minute

-------------------------------------------------------------------------------
(* The inductive invariant behind them *)

(* Schedules are numbered, and none is further ahead than a delay allows.  *)
EditsInv ==
  /\ agreed <= edits /\ taken <= edits /\ (pc = "settling" => taken < edits)
  /\ due # None => due <= Horizon + MaxDelay * Minute

(* The delay of a call is the nearest to the time it asks for, as it was   *)
(* when the delay was computed.                                            *)
CallInv ==
  pc = "queued" =>
    IF value = None THEN delay = 0
    ELSE /\ delay >= MinDelay
         /\ 2 * (value - (now - waited) - delay * Minute) \in -Minute .. Minute

IInv == TypeOK /\ EditsInv /\ CallInv /\ ShowsTheSchedule

(* A time that agrees with every countdown of the schedule in the station. *)
Lasting(time) == time - due \in Minute - 1 - Tolerance .. Tolerance

(* So does the time that was asked for in time, or adopted, for that       *)
(* schedule.                                                               *)
DriftInv ==
  /\ pc = "settling" =>
       IF value = None THEN due = None
       ELSE 2 * waited <= Minute => due # None /\ Lasting(value)
  /\ target # None /\ taken = edits /\ 2 * lag <= Minute /\ due # None => Lasting(target)
===============================================================================
