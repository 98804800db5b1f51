------------------------- MODULE ScheduledChargeProofs -------------------------
(***************************************************************************)
(* The scheduled charge for every resolution of time, every longest delay  *)
(* and every number of changes: what is shown is near the schedule in the  *)
(* station, and a remembered time whose write took effect within half a    *)
(* minute of the call, or that was adopted, does not drift.                *)
(***************************************************************************)
EXTENDS ScheduledCharge, TLAPS

-------------------------------------------------------------------------------
(* Arithmetic *)

LEMMA DivMod ==
  ASSUME NEW x \in Nat, NEW m \in Nat \ {0}
  PROVE  /\ x \div m \in Nat /\ x % m \in 0 .. m - 1
         /\ x = ((x \div m) * m) + (x % m)
OBVIOUS

LEMMA Products ==
  ASSUME NEW a \in Nat, NEW m \in Nat
  PROVE  a * m \in Nat /\ (a + 1) * m = a * m + m /\ \A b \in Nat : a <= b => a * m <= b * m
OBVIOUS

(* Rounding moves a delay by half a minute at most (datetime.py, round).   *)
LEMMA RoundedFacts ==
  ASSUME NEW ticks \in Nat
  PROVE  Rounded(ticks) \in Nat /\ 2 * (ticks - Rounded(ticks) * Minute) \in -Minute .. Minute
<1> DEFINE low == ticks \div Minute
           rest == ticks % Minute
<1>1. low \in Nat /\ rest \in 0 .. Minute - 1 /\ ticks = (low * Minute) + rest /\ Minute \in Nat
  BY DivMod, ChargeAssumption DEF ChargeAssumption
<1>2. low * Minute \in Nat /\ (low + 1) * Minute = low * Minute + Minute
  BY <1>1, Products
<1>3. \/ Rounded(ticks) = low /\ 2 * rest <= Minute
      \/ Rounded(ticks) = low + 1 /\ 2 * rest >= Minute
  BY <1>1 DEF Rounded
<1> HIDE DEF low, rest
<1> QED BY <1>1, <1>2, <1>3

(* The countdown projects the start of the charge or a little later.       *)
LEMMA ProjectedFacts ==
  ASSUME TypeOK, Countdown # 0
  PROVE  due # None /\ due \in Nat /\ Projected \in due .. due + Minute - 1
<1>1. due # None /\ due > now /\ due \in Nat /\ now \in Nat /\ Minute \in Nat \ {0}
  BY ChargeAssumption DEF TypeOK, Times, Countdown, ChargeAssumption
<1> DEFINE x == due - now + Minute - 1
<1>2. x \in Nat /\ Countdown = x \div Minute
  BY <1>1 DEF Countdown
<1>3. Countdown * Minute \in x - (Minute - 1) .. x
  <2>1. /\ x \div Minute \in Nat /\ x % Minute \in 0 .. Minute - 1
        /\ x = ((x \div Minute) * Minute) + (x % Minute)
    BY <1>1, <1>2, DivMod
  <2>2. (x \div Minute) * Minute \in Nat
    BY <1>1, <2>1, Products
  <2> HIDE DEF x
  <2> QED BY <1>1, <1>2, <2>1, <2>2
<1> QED BY <1>1, <1>3 DEF Projected

LEMMA CountdownPositive ==
  ASSUME TypeOK
  PROVE  Countdown \in Nat
<1>1. CASE due = None \/ due <= now
  BY <1>1 DEF Countdown
<1>2. CASE ~(due = None \/ due <= now)
  <2>1. due - now + Minute - 1 \in Nat /\ Minute \in Nat \ {0}
    BY <1>2, ChargeAssumption DEF TypeOK, Times, ChargeAssumption
  <2> QED BY <1>2, <2>1, DivMod DEF Countdown
<1> QED BY <1>1, <1>2

LEMMA WholeMinutesFacts ==
  ASSUME NEW time \in Nat
  PROVE  WholeMinutes(time) \in Nat /\ WholeMinutes(time) \in time - (Minute - 1) .. time
<1>1. Minute \in Nat \ {0}
  BY ChargeAssumption DEF ChargeAssumption
<1>2. /\ time \div Minute \in Nat /\ time % Minute \in 0 .. Minute - 1
      /\ time = ((time \div Minute) * Minute) + (time % Minute)
  BY <1>1, DivMod
<1>3. (time \div Minute) * Minute \in Nat
  BY <1>1, <1>2, Products
<1> QED BY <1>1, <1>2, <1>3 DEF WholeMinutes

(* The bounds of the constants, and the latest times.                      *)
LEMMA Bounds ==
  /\ Minute \in Nat /\ Minute >= 1 /\ MaxDelay \in Nat /\ MaxDelay >= 1
  /\ Horizon \in Nat /\ MaxEdits \in Nat /\ MaxDelay * Minute \in Nat
  /\ (MaxDelay + 1) * Minute = MaxDelay * Minute + Minute
  /\ Tolerance = 2 * Minute
BY Products, ChargeAssumption DEF ChargeAssumption, Tolerance

-------------------------------------------------------------------------------
(* What is computed for the entity, and what is written *)

(* The entity's value is none without a countdown, and otherwise near the  *)
(* schedule; a value that replaces the remembered time agrees with every   *)
(* countdown of the schedule (datetime.py, native_value).                  *)
LEMMA NativeFacts ==
  ASSUME TypeOK, EditsInv
  PROVE  /\ NativeValue \in Times \cup {None}
         /\ Countdown = 0 => NativeValue = None
         /\ Countdown # 0 => /\ NativeValue # None /\ due # None
                             /\ NativeValue - due \in -Tolerance .. Tolerance + Minute
         /\ NativeValue # None /\ NativeValue # target => Lasting(NativeValue)
<1> USE Bounds, ChargeAssumption
<1>1. CASE Countdown = 0
  BY <1>1 DEF NativeValue
<1>2. CASE Countdown # 0
  <2>1. due # None /\ due \in Nat /\ Projected \in due .. due + Minute - 1 /\ Projected \in Nat
    BY <1>2, ProjectedFacts
  <2>2. Projected <= Horizon + MaxDelay * Minute + Minute - 1
    BY <2>1 DEF EditsInv
  <2>3. CASE target # None /\ Agrees(target)
    <3>1. NativeValue = target /\ target \in Times /\ target \in Nat
      BY <1>2, <2>3 DEF NativeValue, TypeOK, Times
    <3>2. target - Projected \in -Tolerance .. Tolerance
      BY <2>3 DEF Agrees
    <3>3. target - due \in -Tolerance .. Tolerance + Minute
      BY <2>1, <3>1, <3>2
    <3>4. target # None
      BY <2>3
    <3> QED BY <1>2, <2>1, <3>1, <3>3, <3>4
  <2>4. CASE ~(target # None /\ Agrees(target))
    <3>1. NativeValue = WholeMinutes(Projected)
      BY <1>2, <2>4 DEF NativeValue
    <3>2. NativeValue \in Nat /\ NativeValue \in Projected - (Minute - 1) .. Projected
      BY <2>1, <3>1, WholeMinutesFacts
    <3>3. NativeValue \in Times /\ NativeValue # None
      BY <2>1, <2>2, <3>2 DEF Times, ChargeAssumption
    <3>4. NativeValue - due \in -(Minute - 1) .. Minute - 1
      BY <2>1, <3>2
    <3> QED BY <1>2, <2>1, <3>2, <3>3, <3>4 DEF Lasting
  <2> QED BY <2>3, <2>4
<1> QED BY <1>1, <1>2

(* A change of the schedule in the station is a new one, due within the    *)
(* minute before the delay is over.                                        *)
LEMMA ScheduleFacts ==
  ASSUME TypeOK, NEW minutes \in 0 .. MaxDelay, Schedule(minutes)
  PROVE  /\ edits' = edits + 1 /\ edits' \in 0 .. MaxEdits
         /\ due' \in Times \cup {None}
         /\ due' # None => due' <= Horizon + MaxDelay * Minute
         /\ IF minutes = 0 THEN due' = None
            ELSE due' # None /\ due' \in Nat
                   /\ due' - now - minutes * Minute \in -(Minute - 1) .. 0
<1> USE Bounds
<1>1. edits' = edits + 1 /\ edits' \in 0 .. MaxEdits /\ now \in 0 .. Horizon
  BY DEF Schedule, TypeOK
<1>2. CASE minutes = 0
  BY <1>1, <1>2 DEF Schedule
<1>3. CASE minutes # 0
  <2>1. PICK elapsed \in 0 .. Minute - 1 : due' = now + minutes * Minute - elapsed
    BY <1>3 DEF Schedule
  <2>2. minutes \in Nat /\ 1 * Minute <= minutes * Minute /\ minutes * Minute <= MaxDelay * Minute
        /\ minutes * Minute \in Nat
    BY <1>3, Products
  <2>3. due' \in Nat /\ due' <= Horizon + MaxDelay * Minute
        /\ due' - now - minutes * Minute \in -(Minute - 1) .. 0
    BY <1>1, <2>1, <2>2
  <2>4. due' \in Times /\ due' # None
    BY <2>3, ChargeAssumption DEF Times, ChargeAssumption
  <2> QED BY <1>1, <1>3, <2>3, <2>4
<1> QED BY <1>2, <1>3

-------------------------------------------------------------------------------
(* The invariant, step by step *)

LEMMA InitInv == Init => IInv /\ DriftInv
<1> SUFFICES ASSUME Init PROVE IInv /\ DriftInv
  OBVIOUS
<1>1. TypeOK
  BY Bounds DEF Init, TypeOK
<1> QED BY <1>1 DEF Init, IInv, EditsInv, CallInv, ShowsTheSchedule, DriftInv

(* A poll or the refresh after a write computes the value.                 *)
LEMMA PollStep ==
  ASSUME IInv, Poll
  PROVE  IInv'
<1> USE Bounds
<1>0. TypeOK /\ EditsInv /\ CallInv
  BY DEF IInv
<1>1. TypeOK'
  BY <1>0, NativeFacts DEF Poll, TypeOK, Times
<1>2. EditsInv' /\ CallInv'
  BY <1>0 DEF Poll, EditsInv, CallInv, TypeOK
<1>3. ShowsTheSchedule'
  BY <1>0, NativeFacts DEF Poll, ShowsTheSchedule
<1> QED BY <1>1, <1>2, <1>3 DEF IInv

LEMMA ReadBackStep ==
  ASSUME IInv, ReadBack
  PROVE  IInv'
<1> USE Bounds
<1>0. TypeOK /\ EditsInv /\ CallInv
  BY DEF IInv
<1>1. TypeOK'
  <2>1. NativeValue \in Times \cup {None} /\ waited \in 0 .. Horizon
    BY <1>0, NativeFacts DEF TypeOK
  <2> QED BY <1>0, <2>1 DEF ReadBack, Over, TypeOK
<1>2. EditsInv' /\ CallInv'
  BY <1>0 DEF ReadBack, Over, EditsInv, CallInv, TypeOK
<1>3. ShowsTheSchedule'
  BY <1>0, NativeFacts DEF ReadBack, ShowsTheSchedule
<1> QED BY <1>1, <1>2, <1>3 DEF IInv

LEMMA PollFailsStep ==
  ASSUME IInv, PollFails
  PROVE  IInv'
<1>1. TypeOK' /\ EditsInv' /\ CallInv'
  BY DEF IInv, PollFails, TypeOK, EditsInv, CallInv, service
<1> QED BY <1>1 DEF IInv, PollFails, ShowsTheSchedule

LEMMA SetValueStep ==
  ASSUME IInv, NEW ahead \in 0 .. (MaxDelay + 1) * Minute, SetValue(now + ahead)
  PROVE  IInv'
<1> USE Bounds
<1>1. ahead \in Nat /\ now \in 0 .. Horizon /\ (now + ahead) - now = ahead
  BY DEF IInv, TypeOK
<1>2. /\ value' = now + ahead /\ delay' = Rounded(ahead) /\ delay' \in MinDelay .. MaxDelay
      /\ waited' = 0 /\ pc' = "queued" /\ UNCHANGED <<now, due, edits, target, shown, agreed, taken, lag>>
  BY <1>1 DEF SetValue, entity
<1>3. value' \in Times /\ value' # None
  BY <1>1, <1>2, ChargeAssumption DEF Times, ChargeAssumption
<1>4. TypeOK'
  BY <1>2, <1>3 DEF IInv, TypeOK, Times, MinDelay
<1>5. EditsInv'
  BY <1>2 DEF IInv, EditsInv
<1>6. CallInv'
  <2>1. 2 * (ahead - Rounded(ahead) * Minute) \in -Minute .. Minute /\ Rounded(ahead) \in Nat
    BY <1>1, RoundedFacts
  <2>2. Rounded(ahead) * Minute \in Nat
    BY <2>1, Products
  <2>3. value' - (now' - waited') - delay' * Minute = ahead - Rounded(ahead) * Minute
    BY <1>1, <1>2, <2>2
  <2> QED BY <1>2, <1>3, <2>1, <2>3 DEF CallInv
<1> QED BY <1>2, <1>4, <1>5, <1>6 DEF IInv, ShowsTheSchedule

LEMMA CancelStep ==
  ASSUME IInv, Cancel
  PROVE  IInv'
<1>1. TypeOK'
  BY Bounds DEF IInv, Cancel, TypeOK, entity
<1>2. EditsInv' /\ CallInv'
  BY DEF IInv, Cancel, EditsInv, CallInv, entity
<1> QED BY <1>1, <1>2 DEF IInv, Cancel, ShowsTheSchedule, entity

(* A new schedule in the station: nothing is said of it yet.               *)
LEMMA NewSchedule ==
  ASSUME IInv, NEW minutes \in 0 .. MaxDelay, Schedule(minutes), UNCHANGED agreed,
         taken' <= edits, taken' \in Int
  PROVE  EditsInv' /\ ShowsTheSchedule'
<1>1. TypeOK /\ EditsInv
  BY DEF IInv
<1>2. edits' = edits + 1 /\ edits \in Nat /\ agreed \in Nat /\ agreed <= edits
  BY <1>1, ScheduleFacts DEF TypeOK, EditsInv
<1> QED BY <1>1, <1>2, ScheduleFacts DEF EditsInv, ShowsTheSchedule

LEMMA WrittenStep ==
  ASSUME IInv, Written
  PROVE  IInv'
<1> USE Bounds
<1>0. TypeOK /\ EditsInv /\ CallInv /\ delay \in 0 .. MaxDelay
  BY DEF IInv, TypeOK
<1>1. TypeOK'
  BY <1>0, ScheduleFacts DEF Written, TypeOK, entity
<1>2. EditsInv' /\ ShowsTheSchedule'
  BY <1>0, NewSchedule DEF Written, entity, TypeOK, EditsInv
<1>3. CallInv'
  BY <1>0 DEF Written, CallInv
<1> QED BY <1>1, <1>2, <1>3 DEF IInv

LEMMA ElsewhereStep ==
  ASSUME IInv, Elsewhere
  PROVE  IInv'
<1> USE Bounds
<1>0. TypeOK /\ EditsInv /\ CallInv
  BY DEF IInv
<1>1. PICK minutes \in 0 .. MaxDelay : Schedule(minutes)
  BY DEF Elsewhere
<1>2. TypeOK'
  BY <1>0, <1>1, ScheduleFacts DEF Elsewhere, TypeOK, entity, service
<1>3. EditsInv' /\ ShowsTheSchedule'
  BY <1>0, <1>1, NewSchedule DEF Elsewhere, entity, service, TypeOK, EditsInv
<1>4. CallInv'
  BY <1>0 DEF Elsewhere, CallInv, service
<1> QED BY <1>2, <1>3, <1>4 DEF IInv

LEMMA CallFailsStep ==
  ASSUME IInv, CallFails
  PROVE  IInv'
<1> USE Bounds
<1>0. TypeOK /\ EditsInv /\ CallInv /\ delay \in 0 .. MaxDelay
  BY DEF IInv, TypeOK
<1>1. CallInv' /\ pc' = "idle" /\ Over /\ UNCHANGED <<now, target, shown, agreed, taken, lag>>
  BY DEF CallFails, CallInv, entity
<1> USE DEF Over
<1>2. CASE UNCHANGED <<due, edits>>
  BY <1>0, <1>1, <1>2 DEF IInv, TypeOK, EditsInv, ShowsTheSchedule
<1>3. CASE Schedule(delay)
  <2>1. TypeOK'
    BY <1>0, <1>1, <1>3, ScheduleFacts DEF TypeOK
  <2>2. EditsInv' /\ ShowsTheSchedule'
    BY <1>0, <1>1, <1>3, NewSchedule DEF TypeOK, EditsInv
  <2> QED BY <1>1, <2>1, <2>2 DEF IInv
<1> QED BY <1>2, <1>3 DEF CallFails

LEMMA RestartStep ==
  ASSUME IInv, Restart
  PROVE  IInv'
<1> USE Bounds
<1>0. TypeOK /\ EditsInv /\ CallInv /\ delay \in 0 .. MaxDelay
  BY DEF IInv, TypeOK
<1>1. /\ CallInv' /\ pc' = "starting" /\ shown' = Unavailable /\ taken' \in {taken, -1}
      /\ Over /\ UNCHANGED <<now, agreed, lag>>
  BY DEF Restart, CallInv
<1> USE DEF Over
<1>2. target' \in Times \cup {None} /\ taken' <= edits /\ taken' \in -1 .. MaxEdits
  BY <1>0, <1>1 DEF Restart, TypeOK, EditsInv
<1>3. CASE UNCHANGED <<due, edits>>
  BY <1>0, <1>1, <1>2, <1>3 DEF IInv, TypeOK, EditsInv, ShowsTheSchedule
<1>4. CASE Schedule(delay)
  <2>1. TypeOK'
    BY <1>0, <1>1, <1>2, <1>4, ScheduleFacts DEF TypeOK
  <2>2. EditsInv' /\ ShowsTheSchedule'
    BY <1>0, <1>1, <1>2, <1>4, NewSchedule DEF TypeOK, EditsInv
  <2> QED BY <1>1, <2>1, <2>2 DEF IInv
<1> QED BY <1>3, <1>4 DEF Restart

(* Waiting for the connection lets the delay age by as much.               *)
LEMMA TickStep ==
  ASSUME IInv, Tick
  PROVE  IInv'
<1> USE Bounds
<1>0. TypeOK /\ EditsInv /\ CallInv
  BY DEF IInv
<1>1. TypeOK'
  BY <1>0 DEF Tick, TypeOK, entity
<1>2. EditsInv'
  BY <1>0 DEF Tick, EditsInv, entity
<1>3. CallInv'
  <2>1. pc' = "queued" => now' - waited' = now - waited
    BY <1>0 DEF Tick, TypeOK
  <2>2. UNCHANGED <<pc, value, delay>>
    BY DEF Tick
  <2> QED BY <1>0, <2>1, <2>2 DEF CallInv
<1>4. ShowsTheSchedule'
  BY DEF Tick, IInv, ShowsTheSchedule, entity
<1> QED BY <1>1, <1>2, <1>3, <1>4 DEF IInv

LEMMA Step == IInv /\ [Next]_vars => IInv'
<1> SUFFICES ASSUME IInv, [Next]_vars PROVE IInv'
  OBVIOUS
<1>1. CASE UNCHANGED vars
  BY <1>1 DEF vars, service, entity, IInv, TypeOK, EditsInv, CallInv, ShowsTheSchedule
<1> QED BY <1>1, PollStep, PollFailsStep, SetValueStep, CancelStep, WrittenStep, ReadBackStep,
           CallFailsStep, ElsewhereStep, RestartStep, TickStep DEF Next

-------------------------------------------------------------------------------
(* The remembered time, step by step *)

(* A lasting time agrees with the countdown at every moment.               *)
LEMMA LastingAgrees ==
  ASSUME TypeOK, NEW time \in Int, Lasting(time), Countdown # 0
  PROVE  Agrees(time)
BY Bounds, ProjectedFacts DEF Lasting, Agrees

(* The remembered time of the schedule in the station is reported as it is *)
(* (datetime.py, native_value).                                            *)
LEMMA Unchanged ==
  ASSUME TypeOK, DriftInv, target # None, taken = edits, 2 * lag <= Minute, Countdown # 0
  PROVE  NativeValue = target
<1>1. due # None
  BY ProjectedFacts
<1>2. target \in Int
  BY DEF TypeOK, Times
<1> QED BY <1>1, <1>2, LastingAgrees DEF DriftInv, NativeValue

(* A write in time sets a schedule that agrees with the time asked for.    *)
LEMMA WrittenInTime ==
  ASSUME IInv, 2 * waited <= Minute, pc = "queued", value # None, Schedule(delay)
  PROVE  due' # None /\ value - due' \in Minute - 1 - Tolerance .. Tolerance
<1>1. /\ now \in Nat /\ waited \in Nat /\ delay \in 0 .. MaxDelay /\ delay >= 1 /\ value \in Nat
      /\ 2 * (value - (now - waited) - delay * Minute) \in -Minute .. Minute
  BY Bounds DEF IInv, TypeOK, CallInv, MinDelay, Times
<1>2. /\ due' # None /\ due' \in Nat /\ delay * Minute \in Nat
      /\ due' - now - delay * Minute \in -(Minute - 1) .. 0
  BY <1>1, ScheduleFacts, Bounds, Products DEF IInv
<1>3. ASSUME NEW length \in Nat, NEW start \in Nat, NEW wait \in Nat, 2 * wait <= Minute,
             start - now - length \in -(Minute - 1) .. 0,
             2 * (value - (now - wait) - length) \in -Minute .. Minute
      PROVE  value - start \in Minute - 1 - Tolerance .. Tolerance
  BY <1>1, <1>3, Bounds
<1> QED BY <1>1, <1>2, <1>3

LEMMA DriftStep == IInv /\ DriftInv /\ [Next]_vars => DriftInv'
<1> SUFFICES ASSUME IInv, DriftInv, [Next]_vars PROVE DriftInv'
  OBVIOUS
<1> USE Bounds
<1>0. TypeOK /\ EditsInv /\ CallInv
  BY DEF IInv
<1>1. ASSUME UNCHANGED <<due, edits, target, taken, lag>>,
             pc' = "settling" => pc = "settling" /\ UNCHANGED <<value, waited>>
      PROVE  DriftInv'
  BY <1>1 DEF DriftInv, Lasting
<1>2. ASSUME pc' # "settling", edits' = edits + 1, taken' <= edits, taken' \in Int
      PROVE  DriftInv'
  BY <1>0, <1>2 DEF DriftInv, TypeOK
<1>3. CASE UNCHANGED vars \/ PollFails \/ Cancel \/ Tick \/ \E ahead : SetValue(now + ahead)
  BY <1>1, <1>3 DEF vars, service, entity, PollFails, Cancel, Tick, SetValue
<1>4. CASE Poll
  <2>1. /\ pc' # "settling" /\ target' = NativeValue /\ UNCHANGED <<due, edits>>
        /\ taken' = IF target' = target THEN taken ELSE edits
        /\ lag' = IF target' = target THEN lag ELSE 0
    BY <1>4 DEF Poll
  <2>2. CASE target' = target
    BY <1>1, <2>1, <2>2
  <2>3. CASE target' # target
    BY <1>0, <2>1, <2>3, NativeFacts DEF DriftInv, Lasting
  <2> QED BY <2>2, <2>3
<1>5. CASE ReadBack
  <2>1. /\ pc = "settling" /\ pc' = "idle" /\ taken' = edits /\ UNCHANGED <<due, edits>>
        /\ target' = IF value = None THEN NativeValue ELSE value
        /\ lag' = IF value = None THEN 0 ELSE waited
    BY <1>5 DEF ReadBack
  <2>2. CASE value = None
    BY <2>1, <2>2 DEF DriftInv
  <2>3. CASE value # None
    BY <2>1, <2>3 DEF DriftInv, Lasting
  <2> QED BY <2>2, <2>3
<1>6. CASE Written
  <2>1. /\ pc = "queued" /\ Schedule(delay) /\ UNCHANGED <<value, delay, waited, target, taken>>
        /\ delay \in 0 .. MaxDelay
    BY <1>0, <1>6 DEF Written, entity, TypeOK
  <2>2. edits' = edits + 1 /\ edits \in Nat /\ taken \in Int /\ taken <= edits
    BY <1>0, <2>1, ScheduleFacts DEF TypeOK, EditsInv
  <2>3. value = None => due' = None
    BY <1>0, <2>1, ScheduleFacts DEF CallInv
  <2>4. value # None /\ 2 * waited <= Minute => due' # None /\ Lasting(value)'
    BY <2>1, WrittenInTime DEF Lasting
  <2> QED BY <2>1, <2>2, <2>3, <2>4 DEF DriftInv, Lasting
<1>7. CASE CallFails
  <2>1. pc' = "idle" /\ UNCHANGED <<target, taken, lag>> /\ delay \in 0 .. MaxDelay
    BY <1>0, <1>7 DEF CallFails, entity, TypeOK
  <2>2. CASE UNCHANGED <<due, edits>>
    BY <1>1, <2>1, <2>2
  <2>3. CASE Schedule(delay)
    BY <1>0, <1>2, <2>1, <2>3, ScheduleFacts DEF TypeOK, EditsInv
  <2> QED BY <1>7, <2>2, <2>3 DEF CallFails
<1>8. CASE Elsewhere
  <2>1. PICK minutes \in 0 .. MaxDelay : Schedule(minutes)
    BY <1>8 DEF Elsewhere
  <2> QED BY <1>0, <1>2, <1>8, <2>1, ScheduleFacts DEF Elsewhere, service, entity, TypeOK, EditsInv
<1>9. CASE Restart
  <2>1. /\ pc' = "starting" /\ delay \in 0 .. MaxDelay /\ lag' = lag
        /\ taken' = IF target' = target THEN taken ELSE -1
    BY <1>0, <1>9 DEF Restart, TypeOK
  <2>2. CASE UNCHANGED <<due, edits>>
    BY <1>0, <1>1, <2>1, <2>2 DEF DriftInv, TypeOK
  <2>3. CASE Schedule(delay)
    BY <1>0, <1>2, <2>1, <2>3, ScheduleFacts DEF TypeOK, EditsInv
  <2> QED BY <1>9, <2>2, <2>3 DEF Restart
<1> QED BY <1>3, <1>4, <1>5, <1>6, <1>7, <1>8, <1>9 DEF Next

(* Only a poll, a read-back or a restart touches the remembered time, and  *)
(* a restart restores the one shown.                                       *)
LEMMA TargetStays ==
  ASSUME IInv, DriftInv, [Next]_vars, target # None, taken = edits, 2 * lag <= Minute, Countdown > 0
  PROVE  target' = target \/ (pc' = "starting" /\ shown # target)
<1>0. TypeOK /\ EditsInv /\ Countdown # 0
  BY CountdownPositive DEF IInv
<1>1. CASE Poll
  BY <1>0, <1>1, Unchanged DEF Poll
<1>2. ~ReadBack
  BY <1>0 DEF ReadBack, EditsInv, TypeOK
<1>3. CASE Restart
  <2>1. target # Unavailable
    BY ChargeAssumption DEF IInv, TypeOK, Times, ChargeAssumption
  <2> QED BY <1>3, <2>1 DEF Restart
<1> QED BY <1>1, <1>2, <1>3
        DEF Next, vars, service, entity, PollFails, SetValue, Cancel, Written, CallFails, Elsewhere, Tick

-------------------------------------------------------------------------------
(* Theorems *)

(* The invariant of the entity and the schedule in the station.            *)
THEOREM Inductive == Spec => []IInv
BY InitInv, Step, PTL DEF Spec

(* Every variable keeps its kind: no delay beyond what the allowlist       *)
(* permits is ever asked of the station (datetime.py, async_set_value).    *)
THEOREM TypeCorrect == Spec => []TypeOK
<1>1. IInv => TypeOK
  BY DEF IInv
<1> QED BY <1>1, Inductive, PTL

(* What is shown for the schedule in the station is within the tolerance   *)
(* and a minute of when it starts, however long a write waited, whatever   *)
(* was restored, and whoever changed the schedule (datetime.py,            *)
(* native_value).                                                          *)
THEOREM NearTheSchedule == Spec => []ShowsTheSchedule
<1>1. IInv => ShowsTheSchedule
  BY DEF IInv
<1> QED BY <1>1, Inductive, PTL

(* A remembered time does not drift, through polls and restarts, if its    *)
(* write took effect within half a minute of the call, the margin the      *)
(* tolerance leaves (datetime.py, COUNTDOWN_TOLERANCE), or it was adopted; *)
(* only a restart while another state is shown replaces it.  Nothing is    *)
(* assumed of how long other writes take.                                  *)
THEOREM NoDrift == Spec => NeverDrifts
<1>1. IInv /\ DriftInv /\ [Next]_vars => DriftInv'
  BY DriftStep
<1>2. Spec => []DriftInv
  BY InitInv, Inductive, <1>1, PTL DEF Spec
<1>3. IInv /\ DriftInv /\ [Next]_vars =>
        [target # None /\ taken = edits /\ 2 * lag <= Minute /\ Countdown > 0
           => target' = target \/ (pc' = "starting" /\ shown # target)]_vars
  BY TargetStays
<1> QED BY <1>2, <1>3, Inductive, PTL DEF Spec, NeverDrifts
===============================================================================
