--------------------------- MODULE EntryOptionsProofs ---------------------------
(***************************************************************************)
(* The life of an entry: entities only over a coordinator that has been    *)
(* read, and the correction of the samples stored; then the samples that   *)
(* options dialogs store: what they were read from, and that none is lost. *)
(* All this for any number of dialogs, setups, changes and readings.       *)
(***************************************************************************)
EXTENDS EntryOptions, FiniteSetTheorems, Recursion, TLAPS

(* What the arguments below need to know of the variables' kinds.          *)
KindInv ==
  /\ made \in 0 .. MaxSetups /\ registered \in {Nothing, made} /\ shut \subseteq 1 .. made
  /\ data \in [Setups -> Readings \cup {None}] /\ DOMAIN fitted = Setups
  /\ device \in Readings /\ reloads \in Nat
  /\ state \in {"idle", "setup", "retry", "platforms", "loaded", "unloading", "failed"}
  /\ entities \in BOOLEAN /\ listening \in BOOLEAN

(* From a setup on the newest coordinator is registered and not shut down; *)
(* from the first refresh on it has been read and changes of the options   *)
(* are listened to; entities are there when the entry is loaded.           *)
LifeInv ==
  /\ state \in {"setup", "platforms", "loaded", "unloading"} =>
       made # 0 /\ registered = made /\ made \notin shut
  /\ state \in {"platforms", "loaded", "unloading"} => data[made] # None /\ listening
  /\ entities => state = "loaded"

IInv == KindInv /\ LifeInv /\ CorrectionInForce

(* What an action that is no part of the entry's life may do: leave some   *)
(* readings with a coordinator, and change the options, for which a reload *)
(* is requested if anybody listens.                                        *)
DataStep    == data' = data \/ \E c : data' = [data EXCEPT ![c] = device]
OptionsStep == /\ reloads' \in {reloads, reloads + 1}
               /\ listening /\ samples' # samples => reloads' = reloads + 1
Outside     == DataStep /\ OptionsStep /\ device' = device /\ UNCHANGED <<entry, fitted>>

-------------------------------------------------------------------------------
(* Steps outside the entry's life *)

(* The options are saved, and a reload follows (config_flow.py, _save).    *)
LEMMA SaveIsOptionsStep ==
  ASSUME NEW d, NEW stored, NEW interval, Save(d, stored, interval)
  PROVE  OptionsStep
BY DEF Save, OptionsStep

LEMMA RecordsIsOptionsStep ==
  ASSUME NEW d, Records(d)
  PROVE  OptionsStep
<1>1. CASE UNCHANGED options
  BY <1>1 DEF options, OptionsStep
<1>2. CASE \E interval \in BOOLEAN : Save(d, Added(d, FreshReadings(d)), interval)
  BY <1>2, SaveIsOptionsStep
<1> QED BY <1>1, <1>2 DEF Records

(* A connection leaves readings with its coordinator, or nothing.          *)
LEMMA FetchIsDataStep ==
  ASSUME NEW c, FetchesOrFails(c)
  PROVE  DataStep
BY DEF FetchesOrFails, Fetches, DataStep

(* A poll or a service call leaves readings, and nothing else.             *)
LEMMA TaskSteps ==
  ASSUME NEW t \in Tasks, Link(t) \/ Begins(t) \/ Ends(t)
  PROVE  Outside
<1>1. CASE Link(t)
  BY <1>1 DEF Link, Outside, DataStep, OptionsStep, options
<1>2. CASE Begins(t)
  BY <1>2 DEF Begins, Outside, DataStep, OptionsStep, options
<1>3. CASE Ends(t)
  BY <1>3, FetchIsDataStep DEF Ends, Outside, OptionsStep, options
<1> QED BY <1>1, <1>2, <1>3

(* Dialogs save options, and poll (config_flow.py, SydpowerOptionsFlow).   *)
LEMMA DialogSteps ==
  ASSUME NEW d \in Dialogs,
         \/ Open(d) \/ KeepOrClear(d) \/ Choose(d) \/ Review(d)
         \/ Submit(d) \/ Polled(d) \/ Abandon(d)
  PROVE  Outside
<1>1. CASE Open(d) \/ Choose(d) \/ Abandon(d)
  BY <1>1 DEF Open, Choose, Abandon, Outside, DataStep, OptionsStep, options
<1>2. CASE KeepOrClear(d)
  BY <1>2, SaveIsOptionsStep DEF KeepOrClear, Outside, DataStep
<1>3. CASE Review(d)
  <2>1. OptionsStep
    <3>1. CASE UNCHANGED options
      BY <3>1 DEF OptionsStep, options
    <3>2. CASE \E drop \in SUBSET (1 .. dialog[d].count), interval \in BOOLEAN :
                 Save(d, Without(drop), interval)
      BY <3>2, SaveIsOptionsStep
    <3> QED BY <1>3, <3>1, <3>2 DEF Review
  <2> QED BY <1>3, <2>1 DEF Review, Outside, DataStep
<1>4. CASE Submit(d)
  <2>1. OptionsStep
    <3>1. CASE UNCHANGED options
      BY <3>1 DEF OptionsStep, options
    <3>2. CASE Records(d)
      BY <3>2, RecordsIsOptionsStep
    <3> QED BY <1>4, <3>1, <3>2 DEF Submit
  <2> QED BY <1>4, <2>1 DEF Submit, Outside, DataStep
<1>5. CASE Polled(d)
  BY <1>5, RecordsIsOptionsStep, FetchIsDataStep DEF Polled, Outside
<1> QED BY <1>1, <1>2, <1>3, <1>4, <1>5

(* None of this disturbs the invariant: readings replace readings, and     *)
(* samples that differ from the fitted ones come with a reload.            *)
LEMMA OutsideStep ==
  ASSUME IInv, Outside
  PROVE  IInv'
<1>1. data' \in [Setups -> Readings \cup {None}]
  BY DEF IInv, KindInv, Outside, DataStep
<1>2. \A c \in Setups : data[c] # None => data'[c] # None
  BY EntryAssumption DEF IInv, KindInv, Outside, DataStep, EntryAssumption
<1>3. KindInv'
  BY <1>1 DEF IInv, KindInv, Outside, OptionsStep, entry
<1>4. LifeInv'
  <2>1. made # 0 => made \in Setups
    BY DEF IInv, KindInv, Setups
  <2> QED BY <1>2, <2>1 DEF IInv, LifeInv, Outside, entry
<1>5. CorrectionInForce'
  <2> SUFFICES ASSUME state = "loaded", reloads' = 0
               PROVE  fitted[registered] = samples'
    BY DEF CorrectionInForce, Outside, entry
  <2>1. listening
    BY DEF IInv, LifeInv
  <2>2. reloads = 0 /\ samples' = samples
    BY <2>1 DEF IInv, KindInv, Outside, OptionsStep
  <2> QED BY <2>2 DEF IInv, CorrectionInForce
<1> QED BY <1>3, <1>4, <1>5 DEF IInv

-------------------------------------------------------------------------------
(* Steps of the entry's life *)

(* A setup that is begun may carry out one reload still to come.           *)
LEMMA SetupReloads ==
  ASSUME KindInv, SetupBegins
  PROVE  reloads' \in Nat /\ reloads' \in 0 .. reloads /\ state \in {"idle", "retry"}
BY DEF KindInv, SetupBegins

(* One that cannot begin leaves the entry as it was.                       *)
LEMMA NotReachableStep ==
  ASSUME IInv, NotReachable
  PROVE  IInv'
<1>1. state' = "retry" /\ reloads' \in Nat /\ state \in {"idle", "retry"}
  BY SetupReloads DEF NotReachable, IInv
<1>2. UNCHANGED <<made, registered, shut, data, fitted, device, entities, listening>>
  BY DEF NotReachable
<1> QED BY <1>1, <1>2 DEF IInv, KindInv, LifeInv, CorrectionInForce

(* A setup makes the newest coordinator, which nobody has shut down        *)
(* (__init__.py, async_setup_entry).                                       *)
LEMMA SetupStep ==
  ASSUME IInv, Setup
  PROVE  IInv'
<1>1. made' = made + 1 /\ made' \in 1 .. MaxSetups /\ made' \notin shut
  BY EntryAssumption DEF IInv, KindInv, Setup, EntryAssumption
<1>2. KindInv'
  <2> reloads' \in Nat
    BY SetupReloads DEF Setup, IInv
  <2> QED BY <1>1 DEF IInv, KindInv, Setup
<1>3. LifeInv'
  <2> state \in {"idle", "retry"}
    BY SetupReloads DEF Setup, IInv
  <2> QED BY <1>1 DEF IInv, LifeInv, Setup
<1>4. CorrectionInForce'
  BY DEF CorrectionInForce, Setup
<1> QED BY <1>2, <1>3, <1>4 DEF IInv

LEMMA FirstRefreshStep ==
  ASSUME IInv, FirstRefresh
  PROVE  IInv'
<1>1. made \in Setups
  BY DEF IInv, KindInv, LifeInv, FirstRefresh, Setups
<1>2. data' \in [Setups -> Readings \cup {None}] /\ data'[made] # None
  BY <1>1, EntryAssumption DEF IInv, KindInv, FirstRefresh, Fetches, EntryAssumption
<1>3. KindInv'
  BY <1>2 DEF IInv, KindInv, FirstRefresh, options
<1>4. LifeInv'
  BY <1>2 DEF IInv, LifeInv, FirstRefresh
<1>5. CorrectionInForce'
  BY DEF CorrectionInForce, FirstRefresh
<1> QED BY <1>3, <1>4, <1>5 DEF IInv

LEMMA SetupFailsStep ==
  ASSUME IInv, SetupFails
  PROVE  IInv'
<1>1. KindInv'
  BY DEF IInv, KindInv, LifeInv, SetupFails, options
<1>2. LifeInv'
  BY DEF IInv, LifeInv, SetupFails
<1>3. CorrectionInForce'
  BY DEF CorrectionInForce, SetupFails
<1> QED BY <1>1, <1>2, <1>3 DEF IInv

(* The correction is fitted from the samples stored by now                 *)
(* (coordinator.py, correction).                                           *)
LEMMA LoadedStep ==
  ASSUME IInv, Loaded
  PROVE  IInv'
<1>1. registered \in Setups
  BY DEF IInv, KindInv, LifeInv, Loaded, Setups
<1>2. DOMAIN fitted' = Setups /\ fitted'[registered] = samples
  BY <1>1 DEF IInv, KindInv, Loaded
<1>3. KindInv'
  BY <1>2 DEF IInv, KindInv, Loaded, options
<1>4. LifeInv'
  BY DEF IInv, LifeInv, Loaded
<1>5. CorrectionInForce'
  BY <1>2 DEF CorrectionInForce, Loaded, options
<1> QED BY <1>3, <1>4, <1>5 DEF IInv

(* An entry that is being unloaded has no entities (__init__.py,           *)
(* async_unload_entry).                                                    *)
LEMMA UnloadSteps ==
  ASSUME IInv, Unload \/ Unloaded \/ UnloadFails
  PROVE  IInv'
<1>1. CASE Unload
  <2>1. entities' \in BOOLEAN /\ state' = "unloading"
    BY <1>1 DEF Unload
  <2>2. reloads' \in Nat
    BY <1>1 DEF IInv, KindInv, Unload
  <2>3. UNCHANGED <<made, registered, shut, data, fitted, device, listening>>
    BY <1>1 DEF Unload
  <2>4. KindInv'
    BY <2>1, <2>2, <2>3 DEF IInv, KindInv
  <2>5. LifeInv'
    BY <1>1 DEF IInv, LifeInv, Unload
  <2> QED BY <1>1, <2>4, <2>5 DEF IInv, CorrectionInForce, Unload
<1>2. CASE Unloaded
  <2>1. registered = made /\ made \in 1 .. made
    BY <1>2 DEF IInv, KindInv, LifeInv, Unloaded
  <2>2. shut' \subseteq 1 .. made'
    BY <1>2, <2>1 DEF IInv, KindInv, Unloaded
  <2>3. KindInv'
    BY <1>2, <2>2 DEF IInv, KindInv, Unloaded, options
  <2>4. LifeInv'
    BY <1>2 DEF IInv, LifeInv, Unloaded
  <2>5. CorrectionInForce'
    BY <1>2 DEF CorrectionInForce, Unloaded
  <2> QED BY <2>3, <2>4, <2>5 DEF IInv
<1>3. CASE UnloadFails
  BY <1>3 DEF IInv, KindInv, LifeInv, CorrectionInForce, UnloadFails, options
<1> QED BY <1>1, <1>2, <1>3

LEMMA DeviceStep ==
  ASSUME IInv, DeviceChanges
  PROVE  IInv'
<1>1. device' \in Readings
  BY EntryAssumption DEF IInv, KindInv, DeviceChanges, Readings, EntryAssumption
<1> QED BY <1>1 DEF IInv, KindInv, LifeInv, CorrectionInForce, DeviceChanges, options, entry

-------------------------------------------------------------------------------
(* Theorems of the entry's life *)

LEMMA InitInv == Init => IInv
<1> SUFFICES ASSUME Init PROVE IInv
  OBVIOUS
<1>1. made \in 0 .. MaxSetups /\ device \in Readings
  BY EntryAssumption DEF Init, Readings, EntryAssumption
<1>2. KindInv
  BY <1>1 DEF Init, KindInv, Nothing
<1> QED BY <1>2 DEF Init, IInv, LifeInv, CorrectionInForce

LEMMA Step == IInv /\ [Next]_vars => IInv'
<1> SUFFICES ASSUME IInv, [Next]_vars PROVE IInv'
  OBVIOUS
<1>1. CASE NotReachable \/ Setup \/ FirstRefresh \/ SetupFails \/ Loaded
  BY <1>1, NotReachableStep, SetupStep, FirstRefreshStep, SetupFailsStep, LoadedStep
<1>2. CASE Unload \/ Unloaded \/ UnloadFails \/ DeviceChanges
  BY <1>2, UnloadSteps, DeviceStep
<1>3. CASE \E t \in Tasks : Link(t) \/ Begins(t) \/ Ends(t)
  BY <1>3, TaskSteps, OutsideStep
<1>4. CASE \E d \in Dialogs : \/ Open(d) \/ KeepOrClear(d) \/ Choose(d) \/ Review(d)
                              \/ Submit(d) \/ Polled(d) \/ Abandon(d)
  BY <1>4, DialogSteps, OutsideStep
<1>5. CASE UNCHANGED vars
  BY <1>5 DEF vars, options, entry, IInv, KindInv, LifeInv, CorrectionInForce
<1> QED BY <1>1, <1>2, <1>3, <1>4, <1>5 DEF Next

(* The invariant of an entry's life.                                       *)
THEOREM Inductive == Spec => []IInv
BY InitInv, Step, PTL DEF Spec

(* Entities exist only over a registered coordinator that polls and has    *)
(* been read, whatever reloads, failed refreshes and dialogs do            *)
(* (__init__.py, async_setup_entry).                                       *)
THEOREM ReadFirst == Spec => []ReadBeforeEntities
<1>1. IInv => ReadBeforeEntities
  BY DEF IInv, KindInv, LifeInv, ReadBeforeEntities, RawReadings, Nothing
<1> QED BY <1>1, Inductive, PTL

(* The correction in force is the one of the samples stored, or a reload   *)
(* is on its way (coordinator.py, correction; __init__.py, the listener).  *)
THEOREM InForce == Spec => []CorrectionInForce
<1>1. IInv => CorrectionInForce
  BY DEF IInv
<1> QED BY <1>1, Inductive, PTL

-------------------------------------------------------------------------------
(* The samples a review keeps *)

(* Without is recursive: it is one of the functions Recursion speaks of,   *)
(* and shares what each of their steps preserves.                          *)
LEMMA WithoutKeeps ==
  ASSUME NEW T, samples \in Seq(T), NEW drop
  PROVE  Without(drop) \in Seq(T) /\ Len(Without(drop)) <= Len(samples)
<1> DEFINE n == Len(samples)
           S == Seq(T)
           G == [i \in 1 .. n |-> [x \in S |-> IF i \in drop THEN x ELSE Append(x, samples[i])]]
           Defines(f) == f = [i \in 0 .. n |->
                                IF i = 0 THEN <<>>
                                ELSE IF i \in drop THEN f[i - 1] ELSE Append(f[i - 1], samples[i])]
           kept == CHOOSE f : Defines(f)
           P == [i \in 0 .. n |-> {x \in S : Len(x) <= i}]
<1>1. n \in Nat /\ <<>> \in S /\ \A i \in 1 .. n : samples[i] \in T
  OBVIOUS
<1>2. G \in [1 .. n -> [S -> S]]
  BY <1>1
<1>3. PICK f \in [0 .. n -> S] : Iterates(f, n, <<>>, G)
  <2> HIDE DEF n, S, G
  <2> QED BY <1>1, <1>2, Recursion
<1>4. Defines(f)
  <2>1. ASSUME NEW i \in 0 .. n
        PROVE  f[i] = IF i = 0 THEN <<>>
                      ELSE IF i \in drop THEN f[i - 1] ELSE Append(f[i - 1], samples[i])
    <3>1. CASE i = 0
      BY <1>1, <1>3, <3>1, IteratesSteps
    <3>2. CASE i \in 1 .. n
      <4>1. f[i] = G[i][f[i - 1]]
        <5> HIDE DEF G, n, S
        <5> QED BY <1>1, <1>3, <3>2, IteratesSteps
      <4>2. f[i - 1] \in S
        BY <1>1, <3>2
      <4> QED BY <3>2, <4>1, <4>2
    <3> QED BY <3>1, <3>2
  <2> QED BY <2>1
<1>5. Defines(kept)
  <2> HIDE DEF Defines
  <2> QED BY <1>4
<1>6. Without(drop) = kept[n]
  BY DEF Without
<1> HIDE DEF kept, n
<1>7. kept[0] = <<>>
  <2> 0 \in 0 .. n
    BY <1>1
  <2> QED BY <1>5
<1>8. ASSUME NEW i \in 1 .. n
      PROVE  kept[i] = IF i \in drop THEN kept[i - 1] ELSE Append(kept[i - 1], samples[i])
  <2> i \in 0 .. n /\ i # 0
    BY <1>1
  <2> QED BY <1>5
<1>9. kept[0] \in P[0]
  <2> Len(<<>>) = 0
    OBVIOUS
  <2> QED BY <1>1, <1>7
<1>10. ASSUME NEW i \in 1 .. n, kept[i - 1] \in P[i - 1] PROVE kept[i] \in P[i]
  <2>1. /\ kept[i - 1] \in Seq(T) /\ Len(kept[i - 1]) <= i - 1
        /\ i \in 0 .. n /\ i - 1 \in 0 .. n
    BY <1>1, <1>10
  <2>2. samples[i] \in T /\ kept[i] \in {kept[i - 1], Append(kept[i - 1], samples[i])}
    BY <1>1, <1>8
  <2>3. \A q \in Seq(T), x \in T : Append(q, x) \in Seq(T) /\ Len(Append(q, x)) = Len(q) + 1
    OBVIOUS
  <2>4. kept[i] \in Seq(T) /\ Len(kept[i]) <= i
    <3> Len(kept[i - 1]) \in Nat /\ i \in Nat
      BY <2>1
    <3>1. CASE kept[i] = kept[i - 1]
      BY <2>1, <3>1
    <3>2. CASE kept[i] = Append(kept[i - 1], samples[i])
      BY <2>1, <2>2, <2>3, <3>2
    <3> QED BY <2>2, <3>1, <3>2
  <2> QED BY <2>1, <2>4
<1>11. \A i \in 0 .. n : kept[i] \in P[i]
  <2> HIDE DEF P
  <2> QED BY <1>1, <1>9, <1>10, Along
<1>12. n \in 0 .. n
  BY <1>1
<1> QED BY <1>6, <1>11, <1>12 DEF n

-------------------------------------------------------------------------------
(* Options, tasks and dialogs *)

Stored == {r \in Readings : r.charging}
Forms  == [step : {"closed", "init", "add", "review", "polling"}, count : 0 .. MaxChanges + 1,
           before : Readings \cup {None}, since : 0 .. MaxReadings]
OpenDialogs == {d \in Dialogs : dialog[d].step # "closed"}

(* The samples were read while charging; each change adds at most one, and *)
(* asks for at most one reload; a change is kept back for each open dialog.*)
OptionsInv ==
  /\ samples \in Seq(Stored) /\ Len(samples) <= changes + 1
  /\ changes \in Nat /\ reloads \in 0 .. changes
  /\ changes + Cardinality(OpenDialogs) <= MaxChanges

TaskInv ==
  /\ using \in [Tasks -> Setups \cup {Nothing}]
  /\ linked \subseteq {t \in Tasks : using[t] # Nothing}

(* A dialog that polls is in a coordinator, which has readings if the      *)
(* dialog has seen some.                                                   *)
PollInv ==
  /\ dialog \in [Dialogs -> Forms]
  /\ \A d \in Dialogs : dialog[d].step = "polling" =>
       /\ using[d] # Nothing
       /\ dialog[d].before # None => data[using[d]] # None

FittedInv == \A c \in Setups : fitted[c] = None \/ fitted[c] \in Seq(Readings)

DialogInv == OptionsInv /\ TaskInv /\ PollInv /\ FittedInv

(* What a dialog's answer does to the options: the dialog closes, and the  *)
(* samples are as they were, or samples that may be stored.                *)
Answer(d) ==
  \/ /\ UNCHANGED options
     /\ \E form \in Forms : form.step # "polling" /\ dialog' = [dialog EXCEPT ![d] = form]
  \/ \E stored \in Seq(Stored), interval \in BOOLEAN :
       Len(stored) <= Len(samples) + 1 /\ Save(d, stored, interval)

LEMMA ClosedIsForm == Closed \in Forms /\ Closed.step = "closed"
BY EntryAssumption DEF Closed, Forms, EntryAssumption

LEMMA AnswerForms ==
  ASSUME DialogInv, NEW d \in Dialogs, Answer(d)
  PROVE  \E form \in Forms : form.step # "polling" /\ dialog' = [dialog EXCEPT ![d] = form]
BY ClosedIsForm DEF Answer, Save, Closes

LEMMA OpenFinite == IsFiniteSet(OpenDialogs) /\ Cardinality(OpenDialogs) \in Nat
<1> IsFiniteSet(Dialogs) /\ OpenDialogs \in SUBSET Dialogs
  BY EntryAssumption DEF EntryAssumption, OpenDialogs
<1> QED BY FS_Subset, FS_CardinalityType

(* Dialogs that are open stay counted when one of them closes.             *)
LEMMA AnswerOptions ==
  ASSUME DialogInv, NEW d \in Dialogs, dialog[d].step # "closed", Answer(d)
  PROVE  OptionsInv'
<1>1. PICK form \in Forms : form.step # "polling" /\ dialog' = [dialog EXCEPT ![d] = form]
  BY AnswerForms
<1>2. IsFiniteSet(OpenDialogs) /\ Cardinality(OpenDialogs) \in Nat
  BY OpenFinite
<1>3. Cardinality(OpenDialogs \ {d}) = Cardinality(OpenDialogs) - 1
  <2> d \in OpenDialogs
    BY DEF OpenDialogs
  <2> QED BY <1>2, FS_RemoveElement
<1>4. CASE UNCHANGED options
  <2>1. OpenDialogs' \in SUBSET OpenDialogs
    BY <1>1 DEF OpenDialogs, DialogInv, PollInv
  <2>2. Cardinality(OpenDialogs') <= Cardinality(OpenDialogs) /\ Cardinality(OpenDialogs') \in Nat
    BY <1>2, <2>1, FS_Subset, FS_CardinalityType
  <2> QED BY <1>2, <1>4, <2>2, EntryAssumption DEF DialogInv, OptionsInv, options, EntryAssumption
<1>5. CASE \E stored \in Seq(Stored), interval \in BOOLEAN :
             Len(stored) <= Len(samples) + 1 /\ Save(d, stored, interval)
  <2>1. PICK stored \in Seq(Stored), interval \in BOOLEAN :
          Len(stored) <= Len(samples) + 1 /\ Save(d, stored, interval)
    BY <1>5
  <2>2. OpenDialogs' = OpenDialogs \ {d}
    BY <2>1, ClosedIsForm DEF Save, Closes, OpenDialogs, DialogInv, PollInv
  <2>3. Cardinality(OpenDialogs') = Cardinality(OpenDialogs) - 1
    BY <1>3, <2>2
  <2>4. /\ samples' \in Seq(Stored) /\ Len(samples') <= changes' + 1
        /\ changes' \in Nat /\ reloads' \in 0 .. changes' /\ changes' \in {changes, changes + 1}
    BY <2>1 DEF Save, DialogInv, OptionsInv
  <2> QED BY <1>2, <2>3, <2>4, EntryAssumption DEF DialogInv, OptionsInv, EntryAssumption
<1> QED BY <1>4, <1>5 DEF Answer


(* What is no dialog's step leaves the samples and the dialogs alone, and  *)
(* takes no reading away.                                                  *)
Quiet ==
  /\ UNCHANGED <<samples, changes, dialog>> /\ reloads' \in 0 .. reloads
  /\ \A d \in Dialogs : using'[d] = using[d]
  /\ \A c \in Setups : data[c] # None => data'[c] # None

LEMMA QuietStep ==
  ASSUME DialogInv, Quiet
  PROVE  OptionsInv' /\ PollInv'
<1>1. OptionsInv'
  BY DEF DialogInv, OptionsInv, Quiet, OpenDialogs
<1>2. PollInv'
  <2> SUFFICES ASSUME NEW d \in Dialogs, dialog[d].step = "polling"
               PROVE  /\ using[d] # Nothing
                      /\ dialog[d].before # None => data'[using[d]] # None
    BY DEF DialogInv, PollInv, Quiet
  <2>1. using[d] \in Setups
    BY DEF DialogInv, PollInv, TaskInv, Tasks
  <2> QED BY <2>1 DEF DialogInv, PollInv, Quiet
<1> QED BY <1>1, <1>2

LEMMA DataStays ==
  ASSUME KindInv, DataStep
  PROVE  \A c \in Setups : data[c] # None => data'[c] # None
BY EntryAssumption DEF KindInv, DataStep, EntryAssumption

(* A task other than the dialogs' leaves or enters a coordinator.          *)
Own == {"first", "poll", "call"}

LEMMA OwnTasks ==
  ASSUME NEW t \in Own
  PROVE  t \in Tasks /\ t \notin Dialogs
BY EntryAssumption DEF Own, Tasks, EntryAssumption

LEMMA LeavesTasks ==
  ASSUME TaskInv, NEW t \in Own, Leaves(t)
  PROVE  TaskInv' /\ \A d \in Dialogs : using'[d] = using[d]
BY OwnTasks DEF TaskInv, Leaves, Tasks

LEMMA EntersTasks ==
  ASSUME TaskInv, NEW t \in Own, NEW c \in Setups,
         using' = [using EXCEPT ![t] = c], linked' = linked
  PROVE  TaskInv' /\ \A d \in Dialogs : using'[d] = using[d]
<1> c # Nothing
  BY DEF Setups, Nothing
<1> QED BY OwnTasks DEF TaskInv, Tasks

LEMMA OwnTaskSteps ==
  ASSUME IInv, DialogInv, NEW t \in Tasks, Link(t) \/ Begins(t) \/ Ends(t)
  PROVE  DialogInv'
<1>1. CASE Link(t)
  <2>1. Quiet
    BY <1>1 DEF Link, Quiet, options, DialogInv, OptionsInv
  <2>2. TaskInv'
    BY <1>1 DEF Link, DialogInv, TaskInv
  <2> QED BY <1>1, <2>1, <2>2, QuietStep DEF DialogInv, FittedInv, Link
<1>2. CASE Begins(t)
  <2>1. registered \in Setups
    BY <1>2 DEF Begins, IInv, KindInv, LifeInv, Setups
  <2>2. TaskInv' /\ \A d \in Dialogs : using'[d] = using[d]
    BY <1>2, <2>1, EntersTasks DEF Begins, DialogInv, Own
  <2>3. Quiet
    BY <1>2, <2>2 DEF Begins, Quiet, options, DialogInv, OptionsInv
  <2> QED BY <1>2, <2>2, <2>3, QuietStep DEF DialogInv, FittedInv, Begins
<1>3. CASE Ends(t)
  <2>1. TaskInv' /\ \A d \in Dialogs : using'[d] = using[d]
    BY <1>3, LeavesTasks DEF Ends, DialogInv, Own
  <2>2. DataStep
    BY <1>3, FetchIsDataStep DEF Ends
  <2>3. Quiet
    BY <1>3, <2>1, <2>2, DataStays DEF Ends, Quiet, options, DialogInv, OptionsInv, IInv
  <2> QED BY <1>3, <2>1, <2>3, QuietStep DEF DialogInv, FittedInv, Ends
<1> QED BY <1>1, <1>2, <1>3

LEMMA EntrySteps ==
  ASSUME IInv, DialogInv,
         \/ NotReachable \/ Setup \/ FirstRefresh \/ SetupFails \/ Loaded
         \/ Unload \/ Unloaded \/ UnloadFails \/ DeviceChanges
  PROVE  DialogInv'
<1>1. CASE Setup
  <2>1. made + 1 \in Setups
    BY <1>1, EntryAssumption DEF Setup, IInv, KindInv, Setups, EntryAssumption
  <2>2. TaskInv' /\ \A d \in Dialogs : using'[d] = using[d]
    BY <1>1, <2>1, EntersTasks DEF Setup, DialogInv, Own
  <2>3. Quiet
    BY <1>1, <2>2, SetupReloads DEF Setup, Quiet, IInv
  <2> QED BY <1>1, <2>2, <2>3, QuietStep DEF DialogInv, FittedInv, Setup
<1>2. CASE FirstRefresh
  <2>1. TaskInv' /\ \A d \in Dialogs : using'[d] = using[d]
    BY <1>2, LeavesTasks DEF FirstRefresh, DialogInv, Own
  <2>2. DataStep
    BY <1>2 DEF FirstRefresh, Fetches, DataStep
  <2>3. Quiet
    BY <1>2, <2>1, <2>2, DataStays DEF FirstRefresh, Quiet, options, DialogInv, OptionsInv, IInv
  <2> QED BY <1>2, <2>1, <2>3, QuietStep DEF DialogInv, FittedInv, FirstRefresh
<1>3. CASE SetupFails
  <2>1. TaskInv' /\ \A d \in Dialogs : using'[d] = using[d]
    BY <1>3, LeavesTasks DEF SetupFails, DialogInv, Own
  <2>2. Quiet
    BY <1>3, <2>1 DEF SetupFails, Quiet, options, DialogInv, OptionsInv
  <2> QED BY <1>3, <2>1, <2>2, QuietStep DEF DialogInv, FittedInv, SetupFails
<1>4. CASE Loaded
  <2>1. Quiet /\ TaskInv'
    BY <1>4 DEF Loaded, Quiet, options, links, DialogInv, OptionsInv, TaskInv
  <2>2. samples \in Seq(Readings)
    BY DEF DialogInv, OptionsInv, Stored
  <2>3. FittedInv'
    BY <1>4, <2>2 DEF Loaded, DialogInv, FittedInv, IInv, KindInv
  <2> QED BY <2>1, <2>3, QuietStep DEF DialogInv
<1>5. CASE Unload
  <2>1. Quiet /\ TaskInv' /\ FittedInv'
    BY <1>5 DEF Unload, Quiet, links, DialogInv, OptionsInv, TaskInv, FittedInv
  <2> QED BY <2>1, QuietStep DEF DialogInv
<1>6. CASE Unloaded
  <2>1. TaskInv' /\ \A d \in Dialogs : using'[d] = using[d]
    BY <1>6, LeavesTasks DEF Unloaded, DialogInv, Own
  <2>2. Quiet
    BY <1>6, <2>1 DEF Unloaded, Quiet, options, DialogInv, OptionsInv
  <2> QED BY <1>6, <2>1, <2>2, QuietStep DEF DialogInv, FittedInv, Unloaded
<1>7. CASE UnloadFails \/ DeviceChanges
  <2>1. Quiet /\ TaskInv' /\ FittedInv'
    BY <1>7 DEF UnloadFails, DeviceChanges, Quiet, options, links, DialogInv, OptionsInv,
                  TaskInv, FittedInv
  <2> QED BY <2>1, QuietStep DEF DialogInv
<1>8. CASE NotReachable
  <2>1. Quiet /\ TaskInv' /\ FittedInv'
    BY <1>8, SetupReloads DEF NotReachable, Quiet, links, IInv, DialogInv, TaskInv, FittedInv
  <2> QED BY <2>1, QuietStep DEF DialogInv
<1> QED BY <1>1, <1>2, <1>3, <1>4, <1>5, <1>6, <1>7, <1>8

(* An answer leaves the other dialogs, and their polls, as they were.      *)
LEMMA AnswerStep ==
  ASSUME DialogInv, NEW d \in Dialogs, dialog[d].step # "closed", Answer(d),
         TaskInv', fitted' = fitted,
         \A e \in Dialogs : e # d => using'[e] = using[e],
         \A c \in Setups : data[c] # None => data'[c] # None
  PROVE  DialogInv'
<1>1. PICK form \in Forms : form.step # "polling" /\ dialog' = [dialog EXCEPT ![d] = form]
  BY AnswerForms
<1>2. dialog' \in [Dialogs -> Forms] /\ dialog'[d].step # "polling"
  BY <1>1 DEF DialogInv, PollInv
<1>3. ASSUME NEW e \in Dialogs, dialog'[e].step = "polling"
      PROVE  using'[e] # Nothing /\ (dialog'[e].before # None => data'[using'[e]] # None)
  <2>1. e # d /\ dialog'[e] = dialog[e] /\ using'[e] = using[e]
    BY <1>1, <1>2, <1>3 DEF DialogInv, PollInv
  <2>2. using[e] # Nothing /\ using[e] \in Setups
    BY <1>3, <2>1 DEF DialogInv, PollInv, TaskInv, Tasks
  <2> QED BY <1>3, <2>1, <2>2 DEF DialogInv, PollInv
<1>4. PollInv'
  BY <1>2, <1>3 DEF PollInv
<1> QED BY <1>4, AnswerOptions DEF DialogInv, FittedInv

(* The steps of a dialog that answer it with something that may be stored  *)
(* (config_flow.py, async_step_init, async_step_review_samples).           *)
LEMMA ReadingKinds ==
  ASSUME KindInv
  PROVE  RawReadings \in Readings \cup {None}
BY DEF KindInv, RawReadings, Setups, Nothing

LEMMA CloseAnswers ==
  ASSUME NEW d \in Dialogs, Closes(d), UNCHANGED options
  PROVE  Answer(d)
BY ClosedIsForm DEF Closes, Answer

LEMMA BecomesForm ==
  ASSUME DialogInv, NEW d \in Dialogs, NEW step \in {"init", "add", "review"}, Becomes(d, step)
  PROVE  \E form \in Forms : form.step = step /\ dialog' = [dialog EXCEPT ![d] = form]
<1> DEFINE form == [dialog[d] EXCEPT !.step = step]
<1>1. form \in Forms /\ form.step = step
  BY DEF DialogInv, PollInv, Forms
<1>2. dialog' = [dialog EXCEPT ![d] = form]
  BY DEF Becomes
<1> QED BY <1>1, <1>2

LEMMA ChooseAnswers ==
  ASSUME DialogInv, NEW d \in Dialogs, Choose(d)
  PROVE  Answer(d)
<1>1. CASE Closes(d)
  BY <1>1, CloseAnswers DEF Choose
<1>2. CASE Becomes(d, "add")
  BY <1>2, BecomesForm DEF Choose, Answer
<1>3. CASE dialog' = [dialog EXCEPT ![d].step = "review", ![d].count = Len(samples)]
  <2> DEFINE form == [dialog[d] EXCEPT !.step = "review", !.count = Len(samples)]
  <2>1. Len(samples) \in 0 .. MaxChanges + 1
    <3> Len(samples) \in Nat
      BY DEF DialogInv, OptionsInv
    <3> QED BY OpenFinite, EntryAssumption DEF DialogInv, OptionsInv, EntryAssumption
  <2>2. form \in Forms /\ form.step = "review"
    BY <2>1 DEF DialogInv, PollInv, Forms
  <2>3. dialog' = [dialog EXCEPT ![d] = form]
    BY <1>3
  <2> QED BY <2>2, <2>3 DEF Choose, Answer
<1> QED BY <1>1, <1>2, <1>3 DEF Choose

LEMMA SaveAnswers ==
  ASSUME DialogInv, NEW d \in Dialogs, KeepOrClear(d) \/ Review(d)
  PROVE  Answer(d)
<1>1. CASE KeepOrClear(d)
  <2>1. PICK stored \in {samples, <<>>}, interval \in BOOLEAN : Save(d, stored, interval)
    BY <1>1 DEF KeepOrClear
  <2>2. stored \in Seq(Stored) /\ Len(stored) <= Len(samples) + 1
    <3> <<>> \in Seq(Stored) /\ Len(<<>>) = 0 /\ Len(samples) \in Nat
      BY DEF DialogInv, OptionsInv
    <3>1. CASE stored = samples
      BY <3>1 DEF DialogInv, OptionsInv
    <3>2. CASE stored = <<>>
      BY <3>2
    <3> QED BY <2>1, <3>1, <3>2
  <2> QED BY <2>1, <2>2 DEF Answer
<1>2. CASE Closes(d) /\ UNCHANGED options
  BY <1>2, CloseAnswers
<1>3. CASE \E drop \in SUBSET (1 .. dialog[d].count), interval \in BOOLEAN :
             Save(d, Without(drop), interval)
  <2>1. PICK drop \in SUBSET (1 .. dialog[d].count), interval \in BOOLEAN :
          Save(d, Without(drop), interval)
    BY <1>3
  <2>2. /\ Without(drop) \in Seq(Stored) /\ Len(Without(drop)) <= Len(samples)
        /\ Len(samples) \in Nat
    BY WithoutKeeps DEF DialogInv, OptionsInv
  <2>3. Len(Without(drop)) <= Len(samples) + 1
    BY <2>2
  <2> QED BY <2>1, <2>2, <2>3 DEF Answer
<1> QED BY <1>1, <1>2, <1>3 DEF Review

(* The rest of async_step_add_sample stores a reading taken while charging.*)
LEMMA RecordsAnswers ==
  ASSUME KindInv', DialogInv, NEW d \in Dialogs, Records(d)
  PROVE  Answer(d)
<1> DEFINE raw == FreshReadings(d)
<1>1. RawReadings' \in Readings \cup {None}
  BY DEF KindInv, RawReadings, Setups, Nothing
<1>2. raw \in Readings \cup {None}
  BY <1>1 DEF FreshReadings, DialogInv, PollInv, Forms
<1>3. CASE Closes(d) /\ UNCHANGED options
  BY <1>3, CloseAnswers
<1>4. CASE UNCHANGED options /\ dialog' = [dialog EXCEPT ![d] = [Closed EXCEPT !.step = "add"]]
  <2>1. [Closed EXCEPT !.step = "add"] \in Forms /\ [Closed EXCEPT !.step = "add"].step = "add"
    BY EntryAssumption DEF Closed, Forms, EntryAssumption
  <2> QED BY <1>4, <2>1 DEF Answer
<1>5. CASE raw # None /\ raw.charging /\ \E interval \in BOOLEAN : Save(d, Added(d, raw), interval)
  <2>1. raw \in Stored
    BY <1>2, <1>5 DEF Stored
  <2>2. Added(d, raw) \in Seq(Stored) /\ Len(Added(d, raw)) <= Len(samples) + 1
    <3> \A s \in Seq(Stored), r \in Stored :
          Append(s, r) \in Seq(Stored) /\ Len(Append(s, r)) <= Len(s) + 1
      OBVIOUS
    <3> QED BY <2>1 DEF Added, DialogInv, OptionsInv
  <2> QED BY <1>5, <2>2 DEF Answer
<1> QED BY <1>3, <1>4, <1>5 DEF Records

LEMMA DialogKeeps ==
  ASSUME IInv, IInv', DialogInv, NEW d \in Dialogs,
         \/ Open(d) \/ KeepOrClear(d) \/ Choose(d) \/ Review(d)
         \/ Submit(d) \/ Polled(d) \/ Abandon(d)
  PROVE  DialogInv'
<1>1. CASE KeepOrClear(d) \/ Choose(d) \/ Review(d) \/ Abandon(d)
  <2>1. Answer(d)
    BY <1>1, SaveAnswers, ChooseAnswers, CloseAnswers DEF Abandon
  <2>2. UNCHANGED <<using, linked, data, fitted>> /\ dialog[d].step # "closed"
    BY <1>1 DEF KeepOrClear, Choose, Review, Abandon, links
  <2>3. TaskInv'
    BY <2>2 DEF DialogInv, TaskInv
  <2> QED BY <2>1, <2>2, <2>3, AnswerStep
<1>2. CASE Polled(d)
  <2>1. Answer(d)
    BY <1>2, RecordsAnswers DEF Polled, IInv
  <2>2. TaskInv' /\ \A e \in Dialogs : e # d => using'[e] = using[e]
    BY <1>2 DEF Polled, Leaves, DialogInv, TaskInv, Tasks
  <2>3. \A c \in Setups : data[c] # None => data'[c] # None
    BY <1>2, FetchIsDataStep, DataStays DEF Polled, IInv
  <2>4. fitted' = fitted /\ dialog[d].step # "closed"
    BY <1>2 DEF Polled
  <2> QED BY <2>1, <2>2, <2>3, <2>4, AnswerStep
<1>3. CASE Submit(d)
  <2>1. UNCHANGED <<linked, data, fitted>> /\ dialog[d].step = "add"
    BY <1>3 DEF Submit
  <2>2. CASE using' = using /\ Answer(d)
    <3> TaskInv'
      BY <2>1, <2>2 DEF DialogInv, TaskInv
    <3> QED BY <2>1, <2>2, AnswerStep
  <2>3. CASE /\ registered # Nothing /\ registered \notin shut
             /\ dialog' = [dialog EXCEPT ![d] = [step |-> "polling", count |-> Len(samples),
                                                 before |-> RawReadings, since |-> device.at]]
             /\ using' = [using EXCEPT ![d] = registered] /\ UNCHANGED options
    <3> DEFINE form == [step |-> "polling", count |-> Len(samples),
                        before |-> RawReadings, since |-> device.at]
    <3>1. registered \in Setups /\ d \in Tasks
      BY <2>3 DEF IInv, KindInv, Setups, Tasks, Nothing
    <3>2. form \in Forms
      <4>1. device.at \in 0 .. MaxReadings
        BY DEF IInv, KindInv, Readings
      <4>2. Len(samples) \in 0 .. MaxChanges + 1
        <5> Len(samples) \in Nat
          BY DEF DialogInv, OptionsInv
        <5> QED BY OpenFinite, EntryAssumption DEF DialogInv, OptionsInv, EntryAssumption
      <4> QED BY <4>1, <4>2, ReadingKinds DEF Forms, IInv
    <3>3. TaskInv' /\ \A e \in Dialogs : e # d => using'[e] = using[e]
      BY <2>1, <2>3, <3>1 DEF DialogInv, TaskInv, Setups, Nothing
    <3>4. ASSUME NEW e \in Dialogs, dialog'[e].step = "polling"
          PROVE  using'[e] # Nothing /\ (dialog'[e].before # None => data[using'[e]] # None)
      <4>1. CASE e = d
        <5> dialog'[d].before = RawReadings /\ using'[d] = registered
          BY <2>3, <3>1 DEF DialogInv, PollInv, TaskInv
        <5> QED BY <2>3, <4>1 DEF RawReadings
      <4>2. CASE e # d
        BY <2>3, <3>3, <3>4, <4>2 DEF DialogInv, PollInv
      <4> QED BY <4>1, <4>2
    <3>5. PollInv'
      BY <2>1, <2>3, <3>2, <3>4 DEF PollInv, DialogInv
    <3>6. OpenDialogs' = OpenDialogs
      BY <2>1, <2>3 DEF OpenDialogs, DialogInv, PollInv
    <3>7. OptionsInv'
      BY <2>3, <3>6 DEF OptionsInv, DialogInv, options
    <3> QED BY <2>1, <3>3, <3>5, <3>7 DEF DialogInv, FittedInv
  <2>4. CASE registered = Nothing /\ Closes(d) /\ UNCHANGED <<options, using>>
    BY <2>2, <2>4, CloseAnswers
  <2>5. CASE registered \in shut /\ Records(d) /\ UNCHANGED using
    BY <2>2, <2>5, RecordsAnswers DEF IInv
  <2> QED BY <1>3, <2>3, <2>4, <2>5 DEF Submit
<1>4. CASE Open(d)
  <2>1. PICK form \in Forms : form.step = "init" /\ dialog' = [dialog EXCEPT ![d] = form]
    BY <1>4, BecomesForm DEF Open
  <2>2. UNCHANGED <<samples, changes, reloads, using, linked, data, fitted>>
    BY <1>4 DEF Open, options, links
  <2>3. OpenDialogs' = OpenDialogs \cup {d} /\ d \notin OpenDialogs
    BY <1>4, <2>1 DEF Open, OpenDialogs, DialogInv, PollInv
  <2>4. Cardinality(OpenDialogs') = Cardinality(OpenDialogs) + 1
    BY <2>3, OpenFinite, FS_AddElement
  <2>5. changes + Cardinality(OpenDialogs) < MaxChanges
    BY <1>4 DEF Open, OpenDialogs
  <2>6. OptionsInv'
    BY <2>2, <2>4, <2>5, OpenFinite, EntryAssumption DEF OptionsInv, DialogInv, EntryAssumption
  <2>7. PollInv'
    <3> \A e \in Dialogs : dialog'[e].step = "polling" => dialog'[e] = dialog[e]
      BY <2>1 DEF DialogInv, PollInv
    <3> QED BY <2>1, <2>2 DEF DialogInv, PollInv
  <2> QED BY <2>2, <2>6, <2>7 DEF DialogInv, TaskInv, FittedInv
<1> QED BY <1>1, <1>2, <1>3, <1>4

(* The invariant of the dialogs holds at first, and each step keeps it.    *)
LEMMA InitDialogs == Init => DialogInv
<1> SUFFICES ASSUME Init PROVE DialogInv
  OBVIOUS
<1>1. samples \in Seq(Stored) /\ Len(samples) <= 1 /\ changes = 0 /\ reloads = 0
  <2>1. [at |-> 0, charging |-> TRUE] \in Stored
    BY EntryAssumption DEF Stored, Readings, EntryAssumption
  <2>2. \A r \in Stored : <<r>> \in Seq(Stored) /\ Len(<<r>>) = 1
    OBVIOUS
  <2>3. <<>> \in Seq(Stored) /\ Len(<<>>) = 0
    OBVIOUS
  <2>4. CASE samples = <<>>
    BY <2>3, <2>4 DEF Init
  <2>5. CASE samples = <<[at |-> 0, charging |-> TRUE]>>
    BY <2>1, <2>2, <2>5 DEF Init
  <2> QED BY <2>4, <2>5 DEF Init
<1>2. dialog \in [Dialogs -> Forms] /\ \A d \in Dialogs : dialog[d].step = "closed"
  BY ClosedIsForm DEF Init
<1>3. OpenDialogs = {} /\ Cardinality(OpenDialogs) = 0
  BY <1>2, FS_EmptySet DEF OpenDialogs
<1>4. OptionsInv
  BY <1>1, <1>3, EntryAssumption DEF OptionsInv, EntryAssumption
<1>5. TaskInv
  BY DEF Init, TaskInv
<1>6. PollInv /\ FittedInv
  BY <1>2 DEF Init, PollInv, FittedInv
<1> QED BY <1>4, <1>5, <1>6 DEF DialogInv

LEMMA DialogStep == IInv /\ IInv' /\ DialogInv /\ [Next]_vars => DialogInv'
<1> SUFFICES ASSUME IInv, IInv', DialogInv, [Next]_vars PROVE DialogInv'
  OBVIOUS
<1>1. CASE \/ NotReachable \/ Setup \/ FirstRefresh \/ SetupFails \/ Loaded
           \/ Unload \/ Unloaded \/ UnloadFails \/ DeviceChanges
  BY <1>1, EntrySteps
<1>2. CASE \E t \in Tasks : Link(t) \/ Begins(t) \/ Ends(t)
  BY <1>2, OwnTaskSteps
<1>3. CASE \E d \in Dialogs : \/ Open(d) \/ KeepOrClear(d) \/ Choose(d) \/ Review(d)
                              \/ Submit(d) \/ Polled(d) \/ Abandon(d)
  BY <1>3, DialogKeeps
<1>4. CASE UNCHANGED vars
  BY <1>4 DEF vars, options, entry, links, DialogInv, OptionsInv, OpenDialogs, TaskInv,
                  PollInv, FittedInv
<1> QED BY <1>1, <1>2, <1>3, <1>4 DEF Next

-------------------------------------------------------------------------------
(* A sample is added *)

(* Only a dialog's own poll takes it out of "polling".                     *)
LEMMA PollEnds ==
  ASSUME DialogInv, [Next]_vars, NEW d \in Dialogs,
         dialog[d].step = "polling", dialog'[d].step # "polling"
  PROVE  Polled(d)
<1>1. dialog' # dialog
  OBVIOUS
<1>2. CASE \/ NotReachable \/ Setup \/ FirstRefresh \/ SetupFails \/ Loaded
           \/ Unload \/ Unloaded \/ UnloadFails \/ DeviceChanges
  BY <1>1, <1>2 DEF NotReachable, Setup, FirstRefresh, SetupFails, Loaded, Unload, Unloaded, UnloadFails,
                    DeviceChanges
<1>3. CASE \E t \in Tasks : Link(t) \/ Begins(t) \/ Ends(t)
  BY <1>1, <1>3 DEF Link, Begins, Ends
<1>4. CASE \E e \in Dialogs : \/ Open(e) \/ KeepOrClear(e) \/ Choose(e) \/ Review(e)
                              \/ Submit(e) \/ Polled(e) \/ Abandon(e)
  <2>1. PICK e \in Dialogs : \/ Open(e) \/ KeepOrClear(e) \/ Choose(e) \/ Review(e)
                             \/ Submit(e) \/ Polled(e) \/ Abandon(e)
    BY <1>4
  <2>2. ASSUME e # d PROVE dialog'[d] = dialog[d]
    BY <2>1, <2>2 DEF Open, KeepOrClear, Choose, Review, Submit, Polled, Abandon, Records, Save,
                      Becomes, Closes, DialogInv, PollInv
  <2>3. e = d
    BY <2>2
  <2> QED BY <2>1, <2>3 DEF Open, KeepOrClear, Choose, Review, Submit, Abandon
<1>5. CASE UNCHANGED vars
  BY <1>1, <1>5 DEF vars
<1> QED BY <1>2, <1>3, <1>4, <1>5 DEF Next

LEMMA RecordsAppends ==
  ASSUME NEW d \in Dialogs, Records(d)
  PROVE  samples' \in {samples, Append(samples, FreshReadings(d))}
BY DEF Records, Save, Added, options

(* Nothing that was stored during the poll is overwritten by its answer.   *)
LEMMA KeepsSamples ==
  ASSUME DialogInv, [Next]_vars, NEW d \in Dialogs,
         dialog[d].step = "polling", dialog'[d].step # "polling"
  PROVE  IsPrefix(samples, samples')
<1>1. samples' \in {samples, Append(samples, FreshReadings(d))}
  BY PollEnds, RecordsAppends DEF Polled
<1>2. \A s \in Seq(Stored) : \A x : IsPrefix(s, s) /\ IsPrefix(s, Append(s, x))
  BY DEF IsPrefix
<1> QED BY <1>1, <1>2 DEF DialogInv, OptionsInv

(* Coordinators are numbered as they are made; readings grow older, and    *)
(* what a newer coordinator than a dialog's was read after the dialog      *)
(* submitted its form.                                                     *)
FreshInv ==
  /\ \A t \in Tasks : using[t] <= made
  /\ \A c \in Setups : c > made => data[c] = None
  /\ \A d \in Dialogs : dialog[d].step = "polling" =>
       /\ dialog[d].since <= device.at
       /\ \A c \in Setups : c > using[d] /\ data[c] # None => data[c].at >= dialog[d].since

(* What steps do to the coordinators: they are made and entered, readings  *)
(* are left with one, or the station's change, and a dialog begins a poll  *)
(* of the newest one.                                                      *)
Gets(c) == c \in 0 .. made /\ data' = [data EXCEPT ![c] = device]
Polls(d) ==
  \/ dialog'[d] = dialog[d] /\ using'[d] = using[d]
  \/ /\ dialog'[d].since = device.at /\ using'[d] = made
     /\ UNCHANGED <<data, device, made>>
Enters == \A t \in Tasks : using'[t] \in {using[t], Nothing, made'}
Moves ==
  /\ made' \in {made, made + 1} /\ Enters
  /\ device'.at >= device.at
  /\ data' = data \/ (device' = device /\ \E c : Gets(c))
  /\ \A d \in Dialogs : dialog'[d].step = "polling" => Polls(d)

LEMMA MovesKeepFresh ==
  ASSUME IInv, IInv', DialogInv, DialogInv', FreshInv, Moves
  PROVE  FreshInv'
<1>1. made \in Nat /\ made' \in Nat /\ made' >= made
  BY DEF IInv, KindInv, Moves
<1>2. /\ device.at \in Nat /\ device'.at \in Nat
      /\ \A c \in Setups : data[c] # None => data[c].at \in Nat
  BY DEF IInv, KindInv, Readings
<1>3. \A c \in Setups : data'[c] = data[c] \/ (c <= made /\ data'[c] = device /\ device' = device)
  BY DEF Moves, Gets, IInv, KindInv
<1>4. ASSUME NEW t \in Tasks PROVE using'[t] <= made'
  <2> using[t] \in Nat /\ using[t] <= made
    BY DEF FreshInv, DialogInv, TaskInv, Setups, Nothing
  <2> QED BY <1>1 DEF Moves, Enters, Nothing
<1>5. ASSUME NEW c \in Setups, c > made' PROVE data'[c] = None
  <2> c > made
    BY <1>1, <1>5 DEF Setups
  <2> QED BY <1>1, <1>3 DEF FreshInv, Setups
<1>6. ASSUME NEW d \in Dialogs, dialog'[d].step = "polling"
      PROVE  /\ dialog'[d].since <= device'.at
             /\ \A c \in Setups : c > using'[d] /\ data'[c] # None => data'[c].at >= dialog'[d].since
  <2>1. CASE dialog'[d] = dialog[d] /\ using'[d] = using[d]
    <3>1. dialog[d].since \in Nat /\ dialog[d].since <= device.at
      BY <1>6, <2>1 DEF FreshInv, DialogInv, PollInv, Forms
    <3>2. dialog'[d].since <= device'.at
      BY <1>2, <2>1, <3>1 DEF Moves
    <3>3. ASSUME NEW c \in Setups, c > using[d], data'[c] # None
          PROVE  data'[c].at >= dialog[d].since
      BY <1>2, <1>3, <1>6, <2>1, <3>1, <3>3 DEF FreshInv
    <3> QED BY <2>1, <3>2, <3>3
  <2>2. CASE dialog'[d].since = device.at /\ using'[d] = made /\ UNCHANGED <<data, device, made>>
    BY <1>2, <2>2 DEF FreshInv
  <2> QED BY <1>6, <2>1, <2>2 DEF Moves, Polls
<1> QED BY <1>4, <1>5, <1>6 DEF FreshInv

(* A connection's end leaves readings with the coordinator in use.         *)
LEMMA LeavesMoves ==
  ASSUME DialogInv, FreshInv, NEW t \in Tasks, using[t] # Nothing, FetchesOrFails(using[t]),
         Leaves(t), made' = made, device' = device
  PROVE  /\ Enters /\ (data' = data \/ \E c : Gets(c))
         /\ \A d \in Dialogs : d # t => using'[d] = using[d]
<1>1. using[t] \in 0 .. made
  BY DEF DialogInv, TaskInv, FreshInv, Setups, Nothing
<1>2. data' = data \/ Gets(using[t])
  BY <1>1 DEF FetchesOrFails, Fetches, Gets
<1>3. Enters
  BY DEF Leaves, Enters, DialogInv, TaskInv
<1>4. \A d \in Dialogs : d # t => using'[d] = using[d]
  BY DEF Leaves, DialogInv, TaskInv, Tasks
<1> QED BY <1>2, <1>3, <1>4

LEMMA EntryMoves ==
  ASSUME IInv, DialogInv, FreshInv,
         \/ NotReachable \/ Setup \/ FirstRefresh \/ SetupFails \/ Loaded
         \/ Unload \/ Unloaded \/ UnloadFails \/ DeviceChanges
  PROVE  Moves
<1>1. made \in Nat /\ device.at \in Nat
  BY DEF IInv, KindInv, Readings
<1>2. \A d \in Dialogs : d \in Tasks /\ d \notin Own /\ dialog'[d] = dialog[d]
  BY OwnTasks, EntryAssumption
     DEF Tasks, Own, EntryAssumption, NotReachable, Setup, FirstRefresh, SetupFails, Loaded,
         Unload, Unloaded, UnloadFails, DeviceChanges
<1>3. CASE NotReachable \/ Loaded \/ Unload \/ UnloadFails
  BY <1>1, <1>2, <1>3 DEF NotReachable, Loaded, Unload, UnloadFails, Moves, Enters, Polls, links
<1>4. CASE Setup
  <2>1. Enters /\ \A d \in Dialogs : using'[d] = using[d]
    BY <1>2, <1>4 DEF Setup, Enters, Own, DialogInv, TaskInv
  <2> QED BY <1>1, <1>2, <1>4, <2>1 DEF Setup, Moves, Polls
<1>5. CASE FirstRefresh \/ SetupFails \/ Unloaded
  <2>1. PICK t \in Own : Leaves(t)
    BY <1>5 DEF FirstRefresh, SetupFails, Unloaded, Own
  <2>2. Enters /\ \A d \in Dialogs : using'[d] = using[d]
    BY <2>1, OwnTasks DEF Leaves, Enters, DialogInv, TaskInv, Tasks
  <2>3. data' = data \/ Gets(made)
    BY <1>1, <1>5 DEF FirstRefresh, SetupFails, Unloaded, Fetches, Gets
  <2> QED BY <1>1, <1>2, <1>5, <2>2, <2>3
      DEF FirstRefresh, SetupFails, Unloaded, Moves, Polls
<1>6. CASE DeviceChanges
  <2>1. device'.at = device.at + 1 /\ UNCHANGED <<made, using, data>>
    BY <1>6 DEF DeviceChanges, entry, links
  <2> QED BY <1>1, <1>2, <2>1 DEF Moves, Enters, Polls
<1> QED BY <1>3, <1>4, <1>5, <1>6

LEMMA TaskMoves ==
  ASSUME IInv, DialogInv, FreshInv, NEW t \in Tasks, Link(t) \/ Begins(t) \/ Ends(t)
  PROVE  Moves
<1>1. made \in Nat /\ device.at \in Nat
  BY DEF IInv, KindInv, Readings
<1>2. CASE Link(t)
  BY <1>1, <1>2 DEF Link, entry, Moves, Enters, Polls
<1>3. CASE Begins(t)
  <2>1. t \in Own /\ registered = made
    BY <1>3 DEF Begins, Own, IInv, KindInv, LifeInv
  <2>2. Enters /\ \A d \in Dialogs : using'[d] = using[d]
    BY <1>3, <2>1, OwnTasks DEF Begins, entry, Enters, DialogInv, TaskInv, Tasks
  <2> QED BY <1>1, <1>3, <2>2 DEF Begins, entry, Moves, Polls
<1>4. CASE Ends(t)
  <2>1. t \in Own /\ using[t] # Nothing
    BY <1>4 DEF Ends, Own, DialogInv, TaskInv
  <2>2. /\ Enters /\ (data' = data \/ \E c : Gets(c))
        /\ \A d \in Dialogs : using'[d] = using[d]
    BY <1>4, <2>1, LeavesMoves, OwnTasks DEF Ends, entry
  <2> QED BY <1>1, <1>4, <2>2 DEF Ends, entry, Moves, Polls
<1> QED BY <1>2, <1>3, <1>4

LEMMA RecordsCloses ==
  ASSUME DialogInv, NEW d \in Dialogs, Records(d)
  PROVE  dialog'[d].step # "polling" /\ \A e \in Dialogs : e # d => dialog'[e] = dialog[e]
BY DEF Records, Save, Closes, Closed, DialogInv, PollInv

LEMMA DialogMoves ==
  ASSUME IInv, DialogInv, FreshInv, NEW d \in Dialogs,
         \/ Open(d) \/ KeepOrClear(d) \/ Choose(d) \/ Review(d)
         \/ Submit(d) \/ Polled(d) \/ Abandon(d)
  PROVE  Moves
<1>1. made \in Nat /\ device.at \in Nat /\ d \in Tasks
  BY DEF IInv, KindInv, Readings, Tasks
<1>2. CASE Open(d) \/ KeepOrClear(d) \/ Choose(d) \/ Review(d) \/ Abandon(d)
  <2>1. UNCHANGED <<made, using, data, device>>
    BY <1>2 DEF Open, KeepOrClear, Choose, Review, Abandon, entry, links
  <2>2. PICK form \in Forms : form.step # "polling" /\ dialog' = [dialog EXCEPT ![d] = form]
    <3>1. CASE Open(d)
      BY <3>1, BecomesForm DEF Open
    <3>2. CASE KeepOrClear(d) \/ Choose(d) \/ Review(d) \/ Abandon(d)
      BY <3>2, SaveAnswers, ChooseAnswers, CloseAnswers, AnswerForms DEF Abandon
    <3> QED BY <1>2, <3>1, <3>2
  <2>3. \A e \in Dialogs : dialog'[e].step = "polling" => dialog'[e] = dialog[e]
    BY <2>2 DEF DialogInv, PollInv
  <2> QED BY <1>1, <2>1, <2>3 DEF Moves, Enters, Polls
<1>3. CASE Polled(d)
  <2>1. using[d] # Nothing
    BY <1>3 DEF Polled, DialogInv, PollInv
  <2>2. /\ Enters /\ (data' = data \/ \E c : Gets(c))
        /\ \A e \in Dialogs : e # d => using'[e] = using[e]
    BY <1>1, <1>3, <2>1, LeavesMoves DEF Polled, entry
  <2>3. dialog'[d].step # "polling" /\ \A e \in Dialogs : e # d => dialog'[e] = dialog[e]
    BY <1>3, RecordsCloses DEF Polled
  <2> QED BY <1>1, <1>3, <2>2, <2>3 DEF Polled, entry, Moves, Polls
<1>4. CASE Submit(d)
  <2>1. UNCHANGED <<made, data, device>>
    BY <1>4 DEF Submit, entry
  <2>2. CASE using' = using /\ (Records(d) \/ Closes(d))
    <3>1. dialog'[d].step # "polling" /\ \A e \in Dialogs : e # d => dialog'[e] = dialog[e]
      BY <2>2, RecordsCloses DEF Closes, Closed, DialogInv, PollInv
    <3> QED BY <1>1, <2>1, <2>2, <3>1 DEF Moves, Enters, Polls
  <2>3. CASE /\ registered # Nothing
             /\ dialog' = [dialog EXCEPT ![d] = [step |-> "polling", count |-> Len(samples),
                                                 before |-> RawReadings, since |-> device.at]]
             /\ using' = [using EXCEPT ![d] = registered]
    <3>1. registered = made
      BY <2>3 DEF IInv, KindInv
    <3>2. Enters
      BY <2>1, <2>3, <3>1 DEF Enters, DialogInv, TaskInv
    <3>3. \A e \in Dialogs : Polls(e)
      BY <1>1, <2>1, <2>3, <3>1 DEF Polls, DialogInv, PollInv, TaskInv, Tasks
    <3> QED BY <1>1, <2>1, <3>2, <3>3 DEF Moves
  <2> QED BY <1>4, <2>2, <2>3 DEF Submit
<1> QED BY <1>2, <1>3, <1>4

LEMMA InitFresh == Init => FreshInv
BY DEF Init, FreshInv, Closed, Nothing

LEMMA FreshStep ==
  ASSUME IInv, IInv', DialogInv, DialogInv', FreshInv, [Next]_vars
  PROVE  FreshInv'
<1>1. CASE \/ NotReachable \/ Setup \/ FirstRefresh \/ SetupFails \/ Loaded
           \/ Unload \/ Unloaded \/ UnloadFails \/ DeviceChanges
  BY <1>1, EntryMoves, MovesKeepFresh
<1>2. CASE \E t \in Tasks : Link(t) \/ Begins(t) \/ Ends(t)
  BY <1>2, TaskMoves, MovesKeepFresh
<1>3. CASE \E d \in Dialogs : \/ Open(d) \/ KeepOrClear(d) \/ Choose(d) \/ Review(d)
                              \/ Submit(d) \/ Polled(d) \/ Abandon(d)
  BY <1>3, DialogMoves, MovesKeepFresh
<1>4. CASE UNCHANGED vars
  BY <1>4 DEF vars, entry, links, FreshInv
<1> QED BY <1>1, <1>2, <1>3, <1>4 DEF Next

(* The sample is what the coordinator in charge has when the poll ends:    *)
(* what the poll left with it, or what a newer one read meanwhile.         *)
LEMMA RecordsFresh ==
  ASSUME IInv, IInv', DialogInv, FreshInv, [Next]_vars, NEW d \in Dialogs,
         dialog[d].step = "polling", dialog'[d].step # "polling", samples' # samples,
         RawReadings' # None, using[d] = registered => data'[registered] = device
  PROVE  Last(samples').at >= dialog[d].since
<1>1. Polled(d)
  BY PollEnds
<1>2. Last(samples') = RawReadings'
  <2>1. samples' = Append(samples, RawReadings')
    BY <1>1, RecordsAppends DEF Polled, FreshReadings
  <2>2. \A s \in Seq(Stored) : \A x : Last(Append(s, x)) = x
    BY DEF Last
  <2> QED BY <2>1, <2>2 DEF DialogInv, OptionsInv
<1>3. registered' = registered /\ registered = made /\ made \in Setups
  BY <1>1 DEF Polled, entry, IInv, KindInv, RawReadings, Setups, Nothing
<1>4. RawReadings' = data'[made] /\ data'[made] # None
  BY <1>1, <1>3 DEF RawReadings, Setups, Nothing
<1>5. dialog[d].since <= device.at /\ dialog[d].since \in Nat /\ device.at \in Nat
  BY DEF FreshInv, DialogInv, PollInv, Forms, IInv, KindInv, Readings
<1>6. CASE using[d] = registered
  BY <1>2, <1>3, <1>4, <1>5, <1>6
<1>7. CASE using[d] # registered
  <2>1. d \in Tasks /\ using[d] \in Setups
    BY DEF DialogInv, PollInv, TaskInv, Tasks
  <2>2. made > using[d]
    <3> using[d] \in Nat /\ made \in Nat /\ using[d] <= made /\ using[d] # made
      BY <1>3, <1>7, <2>1 DEF FreshInv, Setups
    <3> QED OBVIOUS
  <2>3. data'[made] = data[made]
    BY <1>1, <1>3, <1>7 DEF Polled, FetchesOrFails, Fetches, IInv, KindInv
  <2> QED BY <1>2, <1>3, <1>4, <2>1, <2>2, <2>3 DEF FreshInv
<1> QED BY <1>6, <1>7

-------------------------------------------------------------------------------
(* Theorems of the dialogs *)

(* The invariant of the options, the tasks and the dialogs.                *)
THEOREM DialogsInductive == Spec => []DialogInv
<1>1. IInv /\ IInv' /\ DialogInv /\ [Next]_vars => DialogInv'
  BY DialogStep
<1> QED BY <1>1, InitDialogs, Inductive, PTL DEF Spec

(* Every variable of the entry holds a value of its kind: no more samples  *)
(* than a form can number, no task with a connection and no coordinator.   *)
THEOREM TypeCorrect == Spec => []TypeOK
<1>1. IInv /\ DialogInv => TypeOK
  <2> SUFFICES ASSUME IInv, DialogInv PROVE TypeOK
    OBVIOUS
  <2>1. samples \in Seq(Readings)
    BY DEF DialogInv, OptionsInv, Stored
  <2>2. changes \in 0 .. MaxChanges /\ reloads \in 0 .. MaxChanges
    BY OpenFinite, EntryAssumption DEF DialogInv, OptionsInv, EntryAssumption
  <2>3. \A d \in Dialogs : IsDialog(dialog[d])
    BY DEF DialogInv, PollInv, Forms, IsDialog
  <2> QED BY <2>1, <2>2, <2>3 DEF TypeOK, IInv, KindInv, LifeInv, DialogInv, TaskInv, FittedInv
<1> QED BY <1>1, Inductive, DialogsInductive, PTL

(* No sample is stored that was read while the station did not charge,     *)
(* whatever happens while the form is open (config_flow.py,                *)
(* async_step_add_sample).                                                 *)
THEOREM ChargingOnly == Spec => []OnlyWhileCharging
<1>1. DialogInv => OnlyWhileCharging
  BY DEF DialogInv, OptionsInv, Stored, OnlyWhileCharging
<1> QED BY <1>1, DialogsInductive, PTL

(* A dialog that adds a sample keeps those stored by then, other dialogs'  *)
(* included (config_flow.py, async_step_add_sample).                       *)
THEOREM NothingLost == Spec => NoSampleLost
<1>1. DialogInv /\ [Next]_vars =>
        [\A d \in Dialogs : dialog[d].step = "polling" /\ dialog'[d].step # "polling"
           => IsPrefix(samples, samples')]_vars
  BY KeepsSamples
<1> QED BY <1>1, DialogsInductive, PTL DEF Spec, NoSampleLost

(* The invariant of the readings that dialogs may come to store.           *)
THEOREM FreshInductive == Spec => []FreshInv
<1>1. IInv /\ IInv' /\ DialogInv /\ DialogInv' /\ FreshInv /\ [Next]_vars => FreshInv'
  BY FreshStep
<1> QED BY <1>1, InitFresh, Inductive, DialogsInductive, PTL DEF Spec

(* A sample was read after its form was submitted, by the poll, or by the  *)
(* coordinator of a reload that overtook the poll (config_flow.py,         *)
(* _async_fresh_readings).                                                 *)
THEOREM Fresh == Spec => SampleIsFresh
<1>1. IInv /\ IInv' /\ DialogInv /\ FreshInv /\ [Next]_vars =>
        [\A d \in Dialogs :
           /\ dialog[d].step = "polling" /\ dialog'[d].step = "closed" /\ samples' # samples
           /\ RawReadings' # None
           /\ using[d] = registered => data'[registered] = device
           => Last(samples').at >= dialog[d].since]_vars
  BY RecordsFresh
<1> QED BY <1>1, Inductive, DialogsInductive, FreshInductive, PTL DEF Spec, SampleIsFresh
===============================================================================
