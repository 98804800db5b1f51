----------------------------- MODULE EntitiesProofs -----------------------------
(***************************************************************************)
(* What the entities offer, write and show, for every catalog, every       *)
(* snapshot and every span a user of the library may try.                  *)
(***************************************************************************)
EXTENDS Entities, Recursion, FiniteSetTheorems

Snapshots == [holding : [Registers -> Words], input : [InputRegisters -> SUBSET Int]]

(* A snapshot, if there is one, is of the banks.                           *)
DataInv == data # None => data \in Snapshots

(* The entities know the version the panel reported when they were built.  *)
BuiltInv == built # None => built.panel \in Words

IInv == TypeOK /\ DataInv /\ BuiltInv /\ NoControlIsRefused /\ DoesWhatWasAsked

(* A register holds numbers, and every number the code writes or the       *)
(* station reports.                                                        *)
LEMMA WordsAreNat == Words \subseteq Nat
BY SMT DEF Words

LEMMA SmallIsWord ==
  ASSUME NEW v \in 0 .. 1800
  PROVE  v \in Words
BY SMT DEF Words

(* What is read of a station is a snapshot, never Python's None            *)
(* (coordinator.py, _async_update_data).                                   *)
LEMMA ReadIsSnapshot ==
  ASSUME TypeOK, NEW b \in [Registers -> Words]
  PROVE  [holding |-> b, input |-> Input] \in Snapshots \ {None}
<1>1. Input \in [InputRegisters -> SUBSET Int]
  <2> SUFFICES ASSUME NEW reg \in InputRegisters
               PROVE  Input[reg] \subseteq Int
    BY DEF Input
  <2>1. lit \subseteq Int /\ \A f \in faults : f[2] \in Int
    BY DEF TypeOK
  <2>2. \A g \in FaultGroups : GroupBits(g, reg, faults) \subseteq Int
    BY <2>1 DEF GroupBits
  <2>3. Healthy(reg) \subseteq Int
    BY DEF Healthy
  <2> QED BY <2>1, <2>2, <2>3 DEF Input
<1> QED BY <1>1, EntitiesAssumption DEF EntitiesAssumption, Snapshots

(* A sequence with one element more.                                       *)
LEMMA AppendToSet ==
  ASSUME NEW S, NEW q \in Seq(S), NEW x \in S
  PROVE  /\ Append(q, x) \in Seq(S) /\ Len(Append(q, x)) = Len(q) + 1
         /\ Append(q, x)[Len(q) + 1] = x /\ \A i \in 1 .. Len(q) : Append(q, x)[i] = q[i]
         /\ ToSet(Append(q, x)) = ToSet(q) \cup {x}
<1>1. /\ Append(q, x) \in Seq(S) /\ Len(Append(q, x)) = Len(q) + 1 /\ Len(q) \in Nat
      /\ Append(q, x)[Len(q) + 1] = x /\ \A i \in 1 .. Len(q) : Append(q, x)[i] = q[i]
  OBVIOUS
<1>2. DOMAIN Append(q, x) = (1 .. Len(q)) \cup {Len(q) + 1} /\ DOMAIN q = 1 .. Len(q)
  BY <1>1
<1> QED BY <1>1, <1>2 DEF ToSet

-------------------------------------------------------------------------------
(* Requests *)

(* What a request has to be: permitted by the allowlist, and what the user *)
(* asked for (constants.py, WRITABLE_HOLDING_REGISTERS).                   *)
Sound(r) == r.reg \in Writable /\ InRange(r.reg, r.value) /\ r.value \in r.wanted

(* The value of an option is what the station stores for it (select.py,    *)
(* _encode).                                                               *)
LEMMA ValuesAreStored ==
  ASSUME NEW s, s.reg \in Writable, NEW panel, NEW d, d = Describe(s, panel)
  PROVE  /\ DOMAIN d.values = DOMAIN d.choices
         /\ \A i \in DOMAIN d.values : d.values[i] = Stores(s, d.choices[i])
<1> DEFINE options == GatedOptions(s, product, panel)
<1>1. /\ d.choices = options /\ DOMAIN d.values = DOMAIN options
      /\ \A i \in DOMAIN options :
           d.values[i] = Encode(s.reg, options[i],
                           CHOOSE k \in DOMAIN s.options : s.options[k] = options[i])
  BY DEF Describe
<1> HIDE DEF options
<1>2. CASE s.reg = 13
  BY <1>1, <1>2 DEF Encode, SettingEncoding, Stores
<1>3. CASE s.reg \in {60, 61, 62}
  BY <1>1, <1>3 DEF Encode, SettingEncoding, Stores
<1>4. CASE s.reg \notin {13, 60, 61, 62}
  <2>1. s.reg # 13 /\ s.reg \notin 60 .. 62
    BY <1>4 DEF Writable
  <2> QED BY <1>1, <1>4, <2>1 DEF Encode, SettingEncoding, Stores
<1> QED BY <1>1, <1>2, <1>3, <1>4

(* A select writes its option's encoding, which is what the station stores *)
(* for it, and only what is in range (select.py, _catalog_descriptions).   *)
LEMMA SelectsAreSound == \A r \in SelectRequests : Sound(r)
<1> SUFFICES ASSUME NEW d \in Selects, NEW i \in DOMAIN d.values
             PROVE  Sound(Request(d.reg, d.values[i], FALSE, {Stores(d.setting, d.choices[i])}))
  BY DEF SelectRequests
<1>1. d.reg \in Writable /\ InRange(d.reg, d.values[i])
  BY DEF Selects
<1>2. d.values[i] = Stores(d.setting, d.choices[i])
  <2>1. PICK s \in Settings : d = Describe(s, built.panel)
    BY DEF Selects
  <2>2. d.reg = s.reg /\ d.setting = s
    BY <2>1 DEF Describe
  <2> QED BY <1>1, <2>1, <2>2, ValuesAreStored
<1> QED BY <1>1, <1>2 DEF Sound, Request

(* The limits of every register of the allowlist (constants.py,            *)
(* WRITABLE_HOLDING_REGISTERS).                                            *)
LEMMA Limits ==
  /\ PermittedRange(13) = <<1, 5>>
  /\ \A reg \in {15, 24, 25, 26, 56, 57} : PermittedRange(reg) = <<0, 1>>
  /\ PermittedRange(20) = <<1, 100>> /\ PermittedRange(27) = <<0, 3>>
  /\ PermittedRange(59) = <<0, 30>>
  /\ \A reg \in {60, 61, 63} : PermittedRange(reg) = <<0, 1440>>
  /\ PermittedRange(62) = <<180, 1800>> /\ PermittedRange(64) = <<1, 1>>
  /\ PermittedRange(66) = <<0, 500>> /\ PermittedRange(67) = <<100, 1000>>
  /\ PermittedRange(68) = <<5, 480>>
BY DEF PermittedRange

(* Switches write 0 and 1 to outputs and extras (switch.py).               *)
LEMMA SwitchesAreSound ==
  ASSUME TypeOK
  PROVE  \A r \in SwitchRequests : Sound(r)
<1>1. ASSUME NEW r \in SwitchRequests
      PROVE  Sound(r)
  <2>1. PICK reg \in Switches, v \in {0, 1} : r = Request(reg, v, TRUE, {v})
    BY DEF SwitchRequests
  <2>2. reg \in {24, 25, 26, 56, 57}
    BY EntitiesAssumption
    DEF Switches, ExtraSwitches, REG_LIGHT_CONTROL, EntitiesAssumption, TypeOK
  <2>3. PermittedRange(reg) = <<0, 1>>
    BY <2>2, Limits
  <2>4. reg \in Writable /\ InRange(reg, v)
    BY <2>2, <2>3 DEF Writable, InRange
  <2> QED BY <2>1, <2>4 DEF Sound, Request
<1> QED BY <1>1

(* The light writes one of its modes, or 0 (light.py).                     *)
LEMMA LightIsSound ==
  ASSUME TypeOK
  PROVE  \A r \in LightRequests : Sound(r)
<1>1. /\ LightModes[1].value = 1
      /\ \A m \in ToSet(LightModes) : m.value \in 1 .. 3
  <2>1. CASE OutputChildren(product, REG_LIGHT_CONTROL) = <<>>
    BY <2>1 DEF LightModes, LIGHT_MODES, ToSet
  <2>2. CASE OutputChildren(product, REG_LIGHT_CONTROL) # <<>>
    BY <2>2, EntitiesAssumption DEF LightModes, ToSet, EntitiesAssumption, TypeOK
  <2> QED BY <2>1, <2>2
<1>2. \A v \in 0 .. 3 : REG_LIGHT_CONTROL \in Writable /\ InRange(REG_LIGHT_CONTROL, v)
  BY Limits DEF Writable, InRange, REG_LIGHT_CONTROL
<1> QED BY <1>1, <1>2 DEF LightRequests, Sound, Request

(* What is rounded to the nearest whole number is no further than half of  *)
(* one away (number.py, round).                                            *)
LEMMA RoundedIsNear ==
  ASSUME NEW x \in Int, NEW v \in Rounded(x, 10)
  PROVE  v \in Int /\ 10 * v - x \in -5 .. 5
<1>1. x \div 10 \in Int
  OBVIOUS
<1>2. v \in Int /\ 2 * (10 * v - x) \in -10 .. 10
  BY <1>1 DEF Rounded
<1> QED BY <1>2

(* A threshold stays within its limits when it is rounded (number.py).     *)
LEMMA ThresholdIsSound ==
  ASSUME NEW reg \in Writable, NEW min \in 0 .. 100, NEW max \in 0 .. 100,
         PermittedRange(reg) = <<10 * min, 10 * max>>,
         NEW r \in ThresholdsWithin(reg, min, max)
  PROVE  Sound(r)
<1>1. PICK x \in Thresholds : /\ 100 * min <= x /\ x <= 100 * max
                              /\ \E v \in Rounded(x, 10) :
                                   r = Request(reg, v, FALSE, Nearest(x))
  BY DEF ThresholdsWithin
<1>2. PICK v \in Rounded(x, 10) : r = Request(reg, v, FALSE, Nearest(x))
  BY <1>1
<1>3. x \in Int
  BY EntitiesAssumption DEF EntitiesAssumption
<1>4. v \in Int /\ 10 * v - x \in -5 .. 5
  BY <1>3, RoundedIsNear
<1>5. v \in 10 * min .. 10 * max /\ v \in Nearest(x)
  BY <1>1, <1>3, <1>4 DEF Nearest
<1>6. InRange(reg, v)
  BY <1>5 DEF InRange
<1> QED BY <1>2, <1>5, <1>6 DEF Sound, Request

LEMMA ThresholdsAreSound == \A r \in ThresholdRequests : Sound(r)
<1>1. \A r \in ThresholdsWithin(REG_THRESHOLD_CHARGE, 10, 100) : Sound(r)
  <2> DEFINE min == 10
             max == 100
  <2>1. /\ REG_THRESHOLD_CHARGE \in Writable /\ min \in 0 .. 100 /\ max \in 0 .. 100
        /\ PermittedRange(REG_THRESHOLD_CHARGE) = <<10 * min, 10 * max>>
    BY Limits DEF REG_THRESHOLD_CHARGE, Writable
  <2> HIDE DEF min, max
  <2>2. ASSUME NEW r \in ThresholdsWithin(REG_THRESHOLD_CHARGE, min, max)
        PROVE  Sound(r)
    BY <2>1, ThresholdIsSound, Zenon
  <2> QED BY <2>2 DEF min, max
<1>2. \A r \in ThresholdsWithin(REG_THRESHOLD_DISCHARGE, 0, 50) : Sound(r)
  <2> DEFINE min == 0
             max == 50
  <2>1. /\ REG_THRESHOLD_DISCHARGE \in Writable /\ min \in 0 .. 100 /\ max \in 0 .. 100
        /\ PermittedRange(REG_THRESHOLD_DISCHARGE) = <<10 * min, 10 * max>>
    BY Limits DEF REG_THRESHOLD_DISCHARGE, Writable
  <2> HIDE DEF min, max
  <2>2. ASSUME NEW r \in ThresholdsWithin(REG_THRESHOLD_DISCHARGE, min, max)
        PROVE  Sound(r)
    BY <2>1, ThresholdIsSound, Zenon
  <2> QED BY <2>2 DEF min, max
<1> QED BY <1>1, <1>2 DEF ThresholdRequests

(* The charging current stays below the ceiling the station declares and   *)
(* below the permitted one (number.py, native_max_value).                  *)
LEMMA CurrentsAreSound ==
  ASSUME data \in Snapshots \ {None}
  PROVE  \A r \in CurrentRequests : Sound(r)
<1> DEFINE declared == Holding(CEILING)
           ceiling  == CurrentCeiling
<1>1. declared \in Nat
  <2>1. data # None /\ data.holding \in [Registers -> Words]
    BY DEF Snapshots
  <2>2. CEILING \in Registers
    BY DEF Registers
  <2>3. data.holding[CEILING] \in Words
    BY <2>1, <2>2
  <2> QED BY <2>1, <2>3, WordsAreNat DEF Holding
<1>2. ceiling = IF declared < 100 THEN declared ELSE 100
  BY Limits DEF CurrentCeiling
<1>3. ASSUME NEW r \in CurrentRequests
      PROVE  Sound(r)
  <2>1. PICK x \in Currents : /\ 10 <= x /\ x <= 10 * ceiling
                              /\ \E v \in Rounded(x, 10) :
                                   r = Request(20, v, FALSE, Nearest(x) \cap 1 .. declared)
    BY DEF CurrentRequests
  <2>2. PICK v \in Rounded(x, 10) : r = Request(20, v, FALSE, Nearest(x) \cap 1 .. declared)
    BY <2>1
  <2> HIDE DEF declared, ceiling
  <2>3. x \in Int
    BY EntitiesAssumption DEF EntitiesAssumption
  <2>4. v \in Int /\ 10 * v - x \in -5 .. 5
    BY <2>3, RoundedIsNear
  <2>5. v \in 1 .. 100 /\ v \in Nearest(x) \cap 1 .. declared
    BY <1>1, <1>2, <2>1, <2>3, <2>4 DEF Nearest
  <2>6. InRange(20, v) /\ 20 \in Writable
    BY <2>5, Limits DEF InRange, Writable
  <2> QED BY <2>2, <2>5, <2>6 DEF Sound, Request
<1> QED BY <1>3

(* A time asked for is a minute to a day away (datetime.py,                *)
(* async_set_value).                                                       *)
LEMMA SchedulesAreSound == \A r \in ScheduleRequests : Sound(r)
<1> SUFFICES ASSUME NEW r \in ScheduleRequests PROVE Sound(r)
  OBVIOUS
<1> DEFINE Near(x) == {w \in Words : 60 * w - x \in -30 .. 30}
<1>1. PICK x \in Delays :
        \E v \in Rounded(x, 60) \cap MIN_DELAY_MINUTES .. PermittedRange(63)[2] :
          r = Request(63, v, FALSE, Near(x))
  BY DEF ScheduleRequests
<1>2. PICK v \in Rounded(x, 60) \cap MIN_DELAY_MINUTES .. PermittedRange(63)[2] :
        r = Request(63, v, FALSE, Near(x))
  BY <1>1
<1>3. v \in 1 .. 1440 /\ x \in Int
  <2>1. PermittedRange(63) = <<0, 1440>>
    BY Limits
  <2>2. x \in Int
    BY EntitiesAssumption DEF EntitiesAssumption
  <2>3. v \in MIN_DELAY_MINUTES .. PermittedRange(63)[2]
    OBVIOUS
  <2> QED BY <2>1, <2>2, <2>3 DEF MIN_DELAY_MINUTES
<1>4. 2 * (60 * v - x) \in -60 .. 60
  BY <1>2 DEF Rounded
<1>5. v \in Near(x)
  BY <1>3, <1>4, SmallIsWord
<1>6. 63 \in Writable /\ InRange(63, v)
  BY <1>3, Limits DEF Writable, InRange
<1> HIDE DEF Near
<1> QED BY <1>2, <1>5, <1>6 DEF Sound, Request

(* Every request of an available entity is sound.                          *)
LEMMA RequestsAreSound ==
  ASSUME TypeOK, DataInv
  PROVE  \A r \in Requests : Sound(r)
<1> SUFFICES ASSUME built # None
             PROVE  \A r \in SelectRequests \cup SwitchRequests \cup LightRequests
                             \cup ThresholdRequests \cup CurrentRequests \cup ScheduleRequests
                             \cup ButtonRequests : Sound(r)
  BY DEF Requests
<1>1. data \in Snapshots \ {None}
  BY DEF TypeOK, DataInv
<1>2. \A r \in ButtonRequests : Sound(r)
  BY Limits DEF ButtonRequests, Sound, Request, Writable, InRange
<1> QED BY <1>1, <1>2, SelectsAreSound, SwitchesAreSound, LightIsSound, ThresholdsAreSound,
           CurrentsAreSound, SchedulesAreSound

-------------------------------------------------------------------------------
(* What the selects offer and show *)

(* A rule drops the zero and what is below, and nothing else (catalog.py,  *)
(* gated_setting_options): Positive is one of the functions Recursion      *)
(* speaks of.                                                              *)
LEMMA PositiveKeeps ==
  ASSUME NEW options \in Seq(Int)
  PROVE  Positive(options) \in Seq(Int) /\ ToSet(Positive(options)) = {o \in ToSet(options) : o > 0}
<1> DEFINE n == Len(options)
           S == Seq(Int)
           G == [i \in 1 .. n |->
                   [x \in S |-> IF options[i] > 0 THEN Append(x, options[i]) ELSE x]]
           Defines(f) == f = [i \in 0 .. n |->
                                IF i = 0 THEN <<>>
                                ELSE IF options[i] > 0 THEN Append(f[i - 1], options[i]) ELSE f[i - 1]]
           kept == CHOOSE f : Defines(f)
           Left(i) == {o \in {options[j] : j \in 1 .. i} : o > 0}
           P == [i \in 0 .. n |-> {x \in S : ToSet(x) = Left(i)}]
<1>1. n \in Nat /\ <<>> \in S /\ n \in 0 .. n /\ \A i \in 1 .. n : options[i] \in Int
  OBVIOUS
<1>2. G \in [1 .. n -> [S -> S]]
  BY <1>1
<1>3. PICK f \in [0 .. n -> S] : Iterates(f, n, <<>>, G)
  <2> HIDE DEF n, S, G
  <2> QED BY <1>1, <1>2, Recursion
<1>4. Defines(f)
  <2>1. ASSUME NEW i \in 0 .. n
        PROVE  f[i] = IF i = 0 THEN <<>>
                      ELSE IF options[i] > 0 THEN Append(f[i - 1], options[i]) ELSE f[i - 1]
    <3>1. CASE i = 0
      BY <1>1, <1>3, <3>1, IteratesSteps
    <3>2. CASE i \in 1 .. n
      <4>1. f[i] = G[i][f[i - 1]]
        <5> HIDE DEF G, n, S
        <5> QED BY <1>1, <1>3, <3>2, IteratesSteps
      <4>2. f[i - 1] \in S
        BY <1>1, <3>2
      <4> QED BY <3>2, <4>1, <4>2
    <3> QED BY <3>1, <3>2
  <2> QED BY <2>1
<1>5. Defines(kept)
  <2> HIDE DEF Defines
  <2> QED BY <1>4
<1>6. Positive(options) = kept[n]
  BY DEF Positive
<1> HIDE DEF kept
<1>7. kept[0] = <<>>
  <2> 0 \in 0 .. n
    BY <1>1
  <2> QED BY <1>5
<1>8. ASSUME NEW i \in 1 .. n
      PROVE  kept[i] = IF options[i] > 0 THEN Append(kept[i - 1], options[i]) ELSE kept[i - 1]
  <2> i \in 0 .. n /\ i # 0
    BY <1>1
  <2> QED BY <1>5
<1>9. kept[0] \in P[0]
  BY <1>1, <1>7 DEF ToSet
<1>10. ASSUME NEW i \in 1 .. n, kept[i - 1] \in P[i - 1] PROVE kept[i] \in P[i]
  <2>1. kept[i - 1] \in Seq(Int) /\ ToSet(kept[i - 1]) = Left(i - 1) /\ i \in 0 .. n
    BY <1>1, <1>10
  <2>2. options[i] \in Int /\ 1 .. i = (1 .. i - 1) \cup {i}
    BY <1>1
  <2>3. Left(i) = Left(i - 1) \cup (IF options[i] > 0 THEN {options[i]} ELSE {})
    BY <2>2
  <2> HIDE DEF Left
  <2>4. CASE options[i] > 0
    <3>1. kept[i] = Append(kept[i - 1], options[i])
      BY <1>8, <2>4
    <3>2. /\ Append(kept[i - 1], options[i]) \in Seq(Int)
          /\ ToSet(Append(kept[i - 1], options[i])) = ToSet(kept[i - 1]) \cup {options[i]}
      BY <2>1, <2>2, AppendToSet
    <3> QED BY <2>1, <2>3, <2>4, <3>1, <3>2
  <2>5. CASE ~(options[i] > 0)
    BY <1>8, <2>1, <2>3, <2>5
  <2> QED BY <2>4, <2>5
<1>11. kept[n] \in P[n]
  <2> HIDE DEF P, n
  <2> QED BY <1>1, <1>9, <1>10, Along
<1>12. Left(n) = {o \in ToSet(options) : o > 0}
  <2>1. DOMAIN options = 1 .. n
    OBVIOUS
  <2> QED BY <2>1 DEF ToSet
<1> QED BY <1>1, <1>6, <1>11, <1>12

(* The options a description keeps are options of its setting, and what    *)
(* the station stores for them is different for each.                      *)
LEMMA DescribedOptions ==
  ASSUME product \in Products, NEW s \in Settings, s.reg \in Writable, NEW panel
  PROVE  LET choices == GatedOptions(s, product, panel)
         IN /\ choices \in Seq(Int) /\ ToSet(choices) \subseteq ToSet(s.options)
            /\ Gated(product, panel) => 0 \notin ToSet(choices)
            /\ \A o \in ToSet(s.options) : o > 0 => o \in ToSet(choices)
            /\ ~Gated(product, panel) => choices = s.options
            /\ \A o, p \in ToSet(choices) : Stores(s, o) = Stores(s, p) => o = p
<1> DEFINE choices == GatedOptions(s, product, panel)
<1>1. s.options \in Seq(Int) /\ IsInjective(s.options)
  BY CatalogAssumption DEF CatalogAssumption, Settings
<1>2. /\ choices \in Seq(Int) /\ ToSet(choices) \subseteq ToSet(s.options)
      /\ Gated(product, panel) => 0 \notin ToSet(choices)
      /\ \A o \in ToSet(s.options) : o > 0 => o \in ToSet(choices)
      /\ ~Gated(product, panel) => choices = s.options
  BY <1>1, PositiveKeeps DEF GatedOptions
<1>3. \A o \in ToSet(s.options) : o \in Int /\ \E i \in DOMAIN s.options : s.options[i] = o
  BY <1>1 DEF ToSet
<1>4. ASSUME NEW o \in ToSet(s.options), NEW p \in ToSet(s.options), Stores(s, o) = Stores(s, p)
      PROVE  o = p
  <2>1. CASE s.reg = 13
    BY <1>3, <1>4, <2>1 DEF Stores
  <2>2. CASE s.reg \in {60, 61, 62}
    <3>1. o * 60 = p * 60
      BY <1>4, <2>2 DEF Stores
    <3> QED BY <1>3, <3>1
  <2>3. CASE s.reg \notin {13, 60, 61, 62}
    <3>1. s.reg # 13 /\ s.reg \notin 60 .. 62
      BY <2>3 DEF Writable
    <3> QED BY <1>4, <3>1 DEF Stores
  <2> QED BY <2>1, <2>2, <2>3
<1> HIDE DEF choices
<1>5. \A o, p \in ToSet(choices) : Stores(s, o) = Stores(s, p) => o = p
  BY <1>2, <1>4
<1> QED BY <1>2, <1>5 DEF choices

(* What a select shows is the option the station holds, and nothing if it  *)
(* holds none of those offered (select.py, current_option).                *)
LEMMA Showing == TypeOK /\ DataInv => SelectsShowTheStation
<1> SUFFICES ASSUME TypeOK, DataInv, built # None, Current, NEW d \in Selects
             PROVE  LET standing == {o \in ToSet(GatedOptions(d.setting, product, built.panel)) :
                                       Stores(d.setting, o) = bank[d.reg]}
                    IN standing = (IF Shown(d) = None THEN {} ELSE {Shown(d)})
  BY DEF SelectsShowTheStation
<1>1. PICK s \in Settings : d = Describe(s, built.panel)
  BY DEF Selects
<1> DEFINE choices == GatedOptions(s, product, built.panel)
           standing == {o \in ToSet(choices) : Stores(s, o) = bank[s.reg]}
           found    == {i \in DOMAIN d.values : d.values[i] = Holding(d.reg)}
<1>2. d.setting = s /\ d.reg = s.reg /\ d.choices = choices /\ s.reg \in Writable
  <2>1. d.setting = s /\ d.reg = s.reg /\ d.choices = choices
    BY <1>1 DEF Describe
  <2> QED BY <2>1 DEF Selects
<1>3. /\ DOMAIN d.values = DOMAIN choices
      /\ \A i \in DOMAIN choices : d.values[i] = Stores(s, choices[i])
  BY <1>1, <1>2, ValuesAreStored
<1>4. /\ choices \in Seq(Int)
      /\ \A o, p \in ToSet(choices) : Stores(s, o) = Stores(s, p) => o = p
  BY <1>2, DescribedOptions DEF TypeOK
<1>5. Holding(d.reg) = bank[s.reg]
  <2>1. data # None
    BY DEF TypeOK
  <2> QED BY <1>2, <2>1 DEF Holding, Current, Snapshot
<1> HIDE DEF choices
<1>6. found = {i \in DOMAIN choices : Stores(s, choices[i]) = bank[s.reg]}
  BY <1>3, <1>5
<1>7. DOMAIN choices = 1 .. Len(choices) /\ Len(choices) \in Nat
      /\ ToSet(choices) = {choices[i] : i \in DOMAIN choices}
  BY <1>4 DEF ToSet
<1>8. CASE found = {}
  <2>1. Shown(d) = None
    BY <1>8 DEF Shown
  <2>2. standing = {}
    BY <1>6, <1>7, <1>8
  <2> QED BY <1>2, <2>1, <2>2 DEF choices
<1>9. CASE found # {}
  <2> DEFINE first == CHOOSE i \in found : \A j \in found : i <= j
  <2>1. first \in found
    <3>1. found \in SUBSET Nat
      BY <1>6, <1>7
    <3> HIDE DEF found
    <3>2. \E i \in found : \A j \in found : i <= j
      BY <1>9, <3>1, Least
    <3> QED BY <3>2
  <2>2. Shown(d) = choices[first]
    BY <1>2, <1>9 DEF Shown
  <2> HIDE DEF first, found
  <2>3. first \in DOMAIN choices /\ Stores(s, choices[first]) = bank[s.reg]
    BY <1>6, <2>1
  <2>4. choices[first] \in Int /\ choices[first] \in standing
    BY <1>4, <1>7, <2>3
  <2>5. standing = {choices[first]}
    BY <1>4, <2>4
  <2>6. choices[first] # None
    BY <2>4, CatalogAssumption DEF CatalogAssumption
  <2> QED BY <1>2, <2>2, <2>5, <2>6 DEF choices
<1> QED BY <1>8, <1>9

(* The gate is the one of the version shown: it hides the zero and nothing *)
(* above it, and without it everything permitted is offered (select.py,    *)
(* _catalog_descriptions; catalog.py, gated_setting_options).              *)
LEMMA Honoured == TypeOK /\ BuiltInv => GateHonoured
<1> SUFFICES ASSUME TypeOK, BuiltInv, built # None, NEW s \in Settings
             PROVE  LET version == FirmwareShown(built.panel).tenths
                        gated   == \E g \in Gates : g.product = product /\ g.version = version
                        options   == ToSet(s.options)
                        offered   == UNION {ToSet(d.choices) : d \in {x \in Selects : x.setting = s}}
                        permitted == /\ s.reg \in Writable /\ ~s.packed
                                     /\ \A o \in options : InRange(s.reg, Stores(s, o))
                    IN /\ gated /\ s.reg = AC_STANDBY => 0 \notin offered
                       /\ ~gated /\ Len(s.options) >= 2 /\ permitted => offered = options
                       /\ permitted => \A o, p \in options : 0 < o /\ o < p => {o, p} \subseteq offered
  BY DEF GateHonoured
<1> DEFINE gated     == \E g \in Gates : g.product = product /\ g.version = FirmwareShown(built.panel).tenths
           d         == Describe(s, built.panel)
           choices   == GatedOptions(s, product, built.panel)
           offered   == UNION {ToSet(x.choices) : x \in {y \in Selects : y.setting = s}}
           permitted == /\ s.reg \in Writable /\ ~s.packed
                        /\ \A o \in ToSet(s.options) : InRange(s.reg, Stores(s, o))
<1>1. gated <=> Gated(product, built.panel)
  <2>1. built.panel # None
    <3>1. \A v \in Words : v \in Int
      BY DEF Words
    <3>2. built.panel \in Int
      BY <3>1 DEF BuiltInv
    <3> QED BY <3>2, CatalogAssumption DEF CatalogAssumption
  <2> QED BY <2>1 DEF Gated, FirmwareShown
<1>2. ASSUME NEW x \in Selects, x.setting = s
      PROVE  x = d /\ s.reg \in Writable
  <2>1. PICK t \in Settings : x = Describe(t, built.panel)
    BY DEF Selects
  <2>2. x.setting = t /\ x.reg = t.reg
    BY <2>1 DEF Describe
  <2>3. x.reg \in Writable
    BY DEF Selects
  <2> QED BY <1>2, <2>1, <2>2, <2>3
<1>3. d.setting = s /\ d.reg = s.reg /\ d.choices = choices
  BY DEF Describe
<1>4. ASSUME gated PROVE 0 \notin offered
  <2>1. ASSUME NEW x \in Selects, x.setting = s PROVE 0 \notin ToSet(x.choices)
    <3>1. x = d /\ s.reg \in Writable
      BY <1>2, <2>1
    <3>2. 0 \notin ToSet(choices)
      BY <1>1, <1>4, <3>1, DescribedOptions DEF TypeOK
    <3> HIDE DEF d, choices
    <3> QED BY <1>3, <3>1, <3>2
  <2> QED BY <2>1
<1>5. ASSUME permitted, Len(choices) >= 2
      PROVE  offered = ToSet(choices)
  <2>1. ToSet(choices) \subseteq ToSet(s.options)
    BY <1>5, DescribedOptions DEF TypeOK
  <2>2. \A i \in DOMAIN d.values : InRange(d.reg, d.values[i])
    <3>1. DOMAIN d.values = DOMAIN d.choices /\ \A i \in DOMAIN d.values : d.values[i] = Stores(s, d.choices[i])
      BY <1>5, ValuesAreStored
    <3>2. \A i \in DOMAIN choices : choices[i] \in ToSet(s.options)
      BY <2>1 DEF ToSet
    <3> HIDE DEF d, choices
    <3> QED BY <1>3, <1>5, <3>1, <3>2
  <2>3. d \in Selects
    <3> HIDE DEF choices
    <3> QED BY <1>3, <1>5, <2>2 DEF Selects
  <2>4. {y \in Selects : y.setting = s} = {d}
    <3> HIDE DEF d
    <3> QED BY <1>2, <1>3, <2>3
  <2> HIDE DEF d, choices
  <2> QED BY <1>3, <2>4
<1>6. ASSUME ~gated, Len(s.options) >= 2, permitted
      PROVE  offered = ToSet(s.options)
  <2>1. choices = s.options
    BY <1>1, <1>6, DescribedOptions DEF TypeOK
  <2> HIDE DEF choices
  <2> QED BY <1>5, <1>6, <2>1
<1>7. ASSUME permitted, NEW o \in ToSet(s.options), NEW p \in ToSet(s.options), 0 < o, o < p
      PROVE  {o, p} \subseteq offered
  <2>1. o > 0 /\ p > 0 /\ o # p
    <3>1. s.options \in Seq(Int)
      BY CatalogAssumption DEF CatalogAssumption, Settings, TypeOK
    <3>2. o \in Int /\ p \in Int
      BY <3>1 DEF ToSet
    <3> QED BY <1>7, <3>2
  <2>2. choices \in Seq(Int) /\ {o, p} \subseteq ToSet(choices)
    BY <1>7, <2>1, DescribedOptions DEF TypeOK
  <2> HIDE DEF choices
  <2>3. PICK i \in DOMAIN choices, j \in DOMAIN choices : choices[i] = o /\ choices[j] = p
    BY <2>2 DEF ToSet
  <2>4. DOMAIN choices = 1 .. Len(choices) /\ Len(choices) \in Nat
    BY <2>2
  <2>5. Len(choices) >= 2
    BY <2>3, <2>4, <2>1
  <2> HIDE DEF offered
  <2> QED BY <1>5, <1>7, <2>2, <2>5
<1> HIDE DEF gated, d, choices, offered, permitted
<1> QED BY <1>4, <1>6, <1>7 DEF gated, offered, permitted

-------------------------------------------------------------------------------
(* What the sensors show *)

(* The two registers of the state word say which bits are set (catalog.py, *)
(* state_word).                                                            *)
LEMMA WordIsLit == TypeOK /\ Current => StateWord(data.input) = lit
<1> SUFFICES ASSUME TypeOK, Current PROVE StateWord(Input) = lit
  BY DEF Current, Snapshot
<1>1. lit \subseteq Int
  BY DEF TypeOK
<1>2. Input[41] = {b - 16 : b \in {x \in lit : x >= 16}} /\ Input[42] = {b \in lit : b < 16}
  BY DEF Input, InputRegisters
<1>3. {bit + 16 : bit \in Input[41]} = {b \in lit : b >= 16}
  <2>1. \A b \in lit : b \in Int /\ (b - 16) + 16 = b
    BY <1>1
  <2> QED BY <1>2, <2>1
<1>4. {b \in lit : b < 16} \cup {b \in lit : b >= 16} = lit
  <2>1. \A b \in lit : b < 16 \/ b >= 16
    BY <1>1
  <2> QED BY <2>1
<1> QED BY <1>2, <1>3, <1>4 DEF StateWord, Combined

(* Is s a port or an output of its own, and does its name only repeat its  *)
(* output's?                                                               *)
Port(s) == s.bit # None /\ ~IsLightMode(s)
Dull(s) == ParentOf(s) # None /\ AddsNothing(s.name, ParentOf(s).name)

States  == StatesOf[product]
Bits    == {s.bit : s \in ToSet(States)}
Sensors == [key : {s.id : s \in ToSet(States)}, bit : Bits, name : Seq(NameWords)]
Accs    == [seen : SUBSET Bits, sensors : Seq(Sensors)]

(* The first port with its bit                                             *)
First(j) == Port(States[j]) /\ \A l \in 1 .. j - 1 : Port(States[l]) => States[l].bit # States[j].bit

(* After i rounds: the bits seen are those of the ports among the first i  *)
(* states, the sensors are those of the first ports with their bits whose  *)
(* names say something, and no two sensors share a bit.                    *)
Reflects(acc, i) ==
  /\ \A k \in 1 .. Len(acc.sensors) :
       /\ acc.sensors[k].bit \in acc.seen
       /\ \E j \in 1 .. i : /\ First(j) /\ ~Dull(States[j])
                           /\ acc.sensors[k].bit = States[j].bit /\ acc.sensors[k].key = States[j].id
  /\ \A k, l \in 1 .. Len(acc.sensors) : k # l => acc.sensors[k].bit # acc.sensors[l].bit
  /\ \A j \in 1 .. i : First(j) /\ ~Dull(States[j]) =>
       \E k \in 1 .. Len(acc.sensors) :
         acc.sensors[k].bit = States[j].bit /\ acc.sensors[k].key = States[j].id
  /\ \A b \in acc.seen : \E j \in 1 .. i : Port(States[j]) /\ States[j].bit = b
  /\ \A j \in 1 .. i : Port(States[j]) => States[j].bit \in acc.seen
  /\ Len(acc.sensors) <= i /\ (i > 0 => acc.sensors # <<>>)

(* What the catalog says of the states of a product.                       *)
LEMMA StateFacts ==
  ASSUME TypeOK
  PROVE  /\ Len(States) \in Nat /\ DOMAIN States = 1 .. Len(States) /\ Len(States) <= Len(Numerals)
         /\ \A i \in 1 .. Len(States) : States[i] \in ToSet(States)
         /\ \A s \in ToSet(States) : \E i \in 1 .. Len(States) : States[i] = s
         /\ \A s \in ToSet(States) : s.name \in Seq(NameWords) /\ s.id # None
         /\ \A i, j \in 1 .. Len(States) : i # j => States[i].id # States[j].id
         /\ Len(States) > 0 => States[1].bit # None /\ States[1].parent = None
<1>1. /\ States \in Seq(ToSet(States))
      /\ \A i, j \in DOMAIN States : i # j => States[i].id # States[j].id
      /\ \A i \in DOMAIN States : States[i].id # None
      /\ States # <<>> => States[1].bit # None /\ States[1].parent = None
      /\ Len(States) <= Len(Numerals)
      /\ \A i \in DOMAIN States : States[i].name \in Seq(NameWords)
  BY CatalogAssumption DEF CatalogAssumption, TypeOK, States
<1>2. Len(States) \in Nat /\ DOMAIN States = 1 .. Len(States) /\ (Len(States) > 0 => States # <<>>)
  BY <1>1
<1>3. ToSet(States) = {States[i] : i \in DOMAIN States}
  BY DEF ToSet
<1> HIDE DEF States
<1> QED BY <1>1, <1>2, <1>3

(* A parent is a state of the product (binary_sensor.py, by_id).           *)
LEMMA Parents ==
  ASSUME NEW s
  PROVE  ParentOf(s) # None => ParentOf(s) \in ToSet(States)
BY DEF ParentOf, States

(* One round (binary_sensor.py, _catalog_descriptions).                    *)
LEMMA RoundKind ==
  ASSUME TypeOK, NEW acc \in Accs, NEW s \in ToSet(States)
  PROVE  Described(acc, s) \in Accs
<1>1. s.name \in Seq(NameWords) /\ s.bit \in Bits /\ s.id \in {x.id : x \in ToSet(States)}
  BY StateFacts DEF Bits
<1> DEFINE parent == ParentOf(s)
           name   == IF parent = None THEN s.name ELSE parent.name \o s.name
           sensor == [key |-> s.id, bit |-> s.bit, name |-> name]
<1>2. name \in Seq(NameWords)
  <2>1. parent # None => parent.name \in Seq(NameWords)
    BY Parents, StateFacts
  <2>2. \A p, q \in Seq(NameWords) : p \o q \in Seq(NameWords)
    OBVIOUS
  <2> HIDE DEF parent
  <2> QED BY <1>1, <2>1, <2>2
<1>3. acc.seen \subseteq Bits /\ acc.sensors \in Seq(Sensors)
  BY DEF Accs
<1>4. Append(acc.sensors, sensor) \in Seq(Sensors)
  <2>1. sensor \in Sensors
    <3> HIDE DEF name
    <3> QED BY <1>1, <1>2 DEF Sensors
  <2> HIDE DEF sensor
  <2> QED BY <1>3, <2>1
<1> HIDE DEF sensor
<1>5. \/ Described(acc, s) = acc
      \/ Described(acc, s) = [seen |-> acc.seen \cup {s.bit}, sensors |-> acc.sensors]
      \/ Described(acc, s) = [seen |-> acc.seen \cup {s.bit}, sensors |-> Append(acc.sensors, sensor)]
  BY DEF Described, sensor, name, parent
<1>6. \A q \in Seq(Sensors) : [seen |-> acc.seen \cup {s.bit}, sensors |-> q] \in Accs
  BY <1>1, <1>3 DEF Accs
<1> QED BY <1>3, <1>4, <1>5, <1>6

LEMMA RoundKeeps ==
  ASSUME TypeOK, NEW i \in 1 .. Len(States), NEW acc \in Accs, Reflects(acc, i - 1)
  PROVE  Reflects(Described(acc, States[i]), i)
<1> DEFINE s      == States[i]
           parent == ParentOf(s)
           name   == IF parent = None THEN s.name ELSE parent.name \o s.name
           sensor == [key |-> s.id, bit |-> s.bit, name |-> name]
           n      == Len(acc.sensors)
           after  == Described(acc, s)
<1>1. /\ s \in ToSet(States) /\ i \in Nat /\ i > 0 /\ Len(States) \in Nat
      /\ 1 .. i = (1 .. i - 1) \cup {i}
  BY StateFacts
<1>2. n \in Nat /\ acc.sensors \in Seq(Sensors) /\ (n > 0 => acc.sensors # <<>>)
      /\ (n = 0 => acc.sensors = <<>>)
  BY DEF Accs
<1>3. i = 1 => Port(s) /\ ~Dull(s) /\ s.bit \notin acc.seen
  <2> SUFFICES ASSUME i = 1 PROVE Port(s) /\ ~Dull(s) /\ s.bit \notin acc.seen
    OBVIOUS
  <2>1. s.bit # None /\ s.parent = None /\ \A x \in ToSet(States) : x.id # None
    BY <1>1, StateFacts
  <2>2. ParentOf(s) = None
    BY <2>1 DEF ParentOf, States
  <2>3. acc.seen = {}
    <3>1. 1 .. i - 1 = {} /\ n = 0
      BY <1>2 DEF Reflects
    <3>2. 1 .. n = {}
      BY <3>1
    <3> HIDE DEF n
    <3> QED BY <3>1, <3>2 DEF Reflects, n
  <2> QED BY <2>1, <2>2, <2>3 DEF Port, Dull, IsLightMode
<1> DEFINE first == First(i)
<1>7. first <=> Port(s) /\ s.bit \notin acc.seen
  <2>1. /\ \A b \in acc.seen : \E j \in 1 .. i - 1 : Port(States[j]) /\ States[j].bit = b
        /\ \A j \in 1 .. i - 1 : Port(States[j]) => States[j].bit \in acc.seen
    BY DEF Reflects
  <2> QED BY <2>1 DEF First
<1> HIDE DEF first
<1>4. CASE ~Port(s) \/ s.bit \in acc.seen
  <2>1. after = acc
    BY <1>4 DEF Described, Port
  <2>2. i # 1 /\ i - 1 > 0 /\ ~First(i)
    BY <1>1, <1>3, <1>4, <1>7 DEF first
  <2> HIDE DEF s, after
  <2> QED BY <1>1, <1>2, <1>4, <2>1, <2>2 DEF Reflects, s, after
<1>5. CASE Port(s) /\ s.bit \notin acc.seen /\ Dull(s)
  <2>1. after = [seen |-> acc.seen \cup {s.bit}, sensors |-> acc.sensors]
    BY <1>5 DEF Described, Port, Dull
  <2>2. after.seen = acc.seen \cup {s.bit} /\ after.sensors = acc.sensors
    BY <2>1
  <2>3. i # 1 /\ i - 1 > 0
    BY <1>1, <1>3, <1>5
  <2> HIDE DEF after, n
  <2>4. \A j \in 1 .. i : First(j) /\ ~Dull(States[j]) => j \in 1 .. i - 1
    BY <1>1, <1>5
  <2>5. \A b \in after.seen : \E j \in 1 .. i : Port(States[j]) /\ States[j].bit = b
    BY <1>1, <1>5, <2>2 DEF Reflects
  <2>6. \A j \in 1 .. i : Port(States[j]) => States[j].bit \in after.seen
    BY <1>1, <1>5, <2>2 DEF Reflects
  <2>7. \A k \in 1 .. Len(acc.sensors) :
          /\ acc.sensors[k].bit \in after.seen
          /\ \E j \in 1 .. i : /\ First(j) /\ ~Dull(States[j])
                              /\ acc.sensors[k].bit = States[j].bit /\ acc.sensors[k].key = States[j].id
    <3>1. ASSUME NEW k \in 1 .. Len(acc.sensors)
          PROVE  /\ acc.sensors[k].bit \in acc.seen
                 /\ \E j \in 1 .. i - 1 : /\ First(j) /\ ~Dull(States[j])
                              /\ acc.sensors[k].bit = States[j].bit /\ acc.sensors[k].key = States[j].id
      BY <3>1 DEF Reflects
    <3>2. 1 .. i - 1 \subseteq 1 .. i
      BY <1>1
    <3> QED BY <2>2, <3>1, <3>2
  <2>8. \A j \in 1 .. i : First(j) /\ ~Dull(States[j]) =>
          \E k \in 1 .. Len(acc.sensors) :
            acc.sensors[k].bit = States[j].bit /\ acc.sensors[k].key = States[j].id
    BY <2>4 DEF Reflects
  <2>9. /\ \A k, l \in 1 .. Len(acc.sensors) : k # l => acc.sensors[k].bit # acc.sensors[l].bit
        /\ Len(acc.sensors) <= i /\ acc.sensors # <<>>
    BY <1>1, <1>2, <2>3 DEF Reflects, n
  <2> QED BY <2>2, <2>5, <2>6, <2>7, <2>8, <2>9 DEF Reflects, after
<1>6. CASE Port(s) /\ s.bit \notin acc.seen /\ ~Dull(s)
  <2>1. after = [seen |-> acc.seen \cup {s.bit}, sensors |-> Append(acc.sensors, sensor)]
    BY <1>6 DEF Described, Port, Dull
  <2>2. after.seen = acc.seen \cup {s.bit} /\ after.sensors = Append(acc.sensors, sensor)
    BY <2>1
  <2>3. sensor.bit = s.bit /\ sensor.key = s.id
    OBVIOUS
  <2> HIDE DEF sensor
  <2>4. /\ Len(after.sensors) = n + 1 /\ after.sensors[n + 1] = sensor
        /\ \A k \in 1 .. n : after.sensors[k] = acc.sensors[k]
        /\ 1 .. n + 1 = (1 .. n) \cup {n + 1} /\ after.sensors # <<>>
    BY <1>2, <2>2
  <2>5. /\ \A k \in 1 .. n :
             /\ acc.sensors[k].bit \in acc.seen
             /\ \E j \in 1 .. i - 1 : /\ First(j) /\ ~Dull(States[j])
                           /\ acc.sensors[k].bit = States[j].bit /\ acc.sensors[k].key = States[j].id
        /\ n <= i - 1
    BY DEF Reflects
  <2>12. /\ \A k, l \in 1 .. n : k # l => acc.sensors[k].bit # acc.sensors[l].bit
         /\ \A k \in 1 .. n : acc.sensors[k].bit \in acc.seen
    BY DEF Reflects
  <2>13. \A j \in 1 .. i - 1 : First(j) /\ ~Dull(States[j]) =>
           \E k \in 1 .. n : acc.sensors[k].bit = States[j].bit /\ acc.sensors[k].key = States[j].id
    BY DEF Reflects
  <2>14. /\ \A b \in acc.seen : \E j \in 1 .. i - 1 : Port(States[j]) /\ States[j].bit = b
         /\ \A j \in 1 .. i - 1 : Port(States[j]) => States[j].bit \in acc.seen
    BY DEF Reflects
  <2> HIDE DEF n, after
  <2>6. \A k \in 1 .. n + 1 :
             /\ after.sensors[k].bit \in after.seen
             /\ \E j \in 1 .. i : /\ First(j) /\ ~Dull(States[j])
                           /\ after.sensors[k].bit = States[j].bit /\ after.sensors[k].key = States[j].id
    <3>1. First(i) /\ ~Dull(States[i])
      BY <1>6, <1>7 DEF first
    <3>2. ASSUME NEW k \in 1 .. n
          PROVE  /\ after.sensors[k].bit \in after.seen
                 /\ \E j \in 1 .. i : /\ First(j) /\ ~Dull(States[j])
                           /\ after.sensors[k].bit = States[j].bit /\ after.sensors[k].key = States[j].id
      <4>1. after.sensors[k] = acc.sensors[k]
        BY <2>4
      <4>2. PICK j \in 1 .. i - 1 : /\ First(j) /\ ~Dull(States[j])
                           /\ acc.sensors[k].bit = States[j].bit /\ acc.sensors[k].key = States[j].id
        BY <2>5
      <4>3. j \in 1 .. i
        BY <1>1
      <4>4. acc.sensors[k].bit \in after.seen
        BY <2>2, <2>5
      <4> QED BY <4>1, <4>2, <4>3, <4>4
    <3>3. /\ after.sensors[n + 1].bit \in after.seen
          /\ after.sensors[n + 1].bit = States[i].bit /\ after.sensors[n + 1].key = States[i].id
      BY <2>2, <2>3, <2>4
    <3>4. i \in 1 .. i
      BY <1>1
    <3> QED BY <2>4, <3>1, <3>2, <3>3, <3>4
  <2>7. ASSUME NEW k \in 1 .. n + 1, NEW l \in 1 .. n + 1, k # l
        PROVE  after.sensors[k].bit # after.sensors[l].bit
    <3>1. CASE k \in 1 .. n /\ l \in 1 .. n
      BY <2>4, <2>7, <2>12, <3>1
    <3>2. CASE k \in 1 .. n /\ l = n + 1
      BY <1>6, <2>3, <2>4, <2>12, <3>2
    <3>3. CASE k = n + 1 /\ l \in 1 .. n
      BY <1>6, <2>3, <2>4, <2>12, <3>3
    <3> QED BY <2>4, <2>7, <3>1, <3>2, <3>3
  <2>8. ASSUME NEW j \in 1 .. i, First(j), ~Dull(States[j])
        PROVE  \E k \in 1 .. n + 1 :
                 after.sensors[k].bit = States[j].bit /\ after.sensors[k].key = States[j].id
    <3>1. CASE j = i
      <4> n + 1 \in 1 .. n + 1
        BY <1>2 DEF n
      <4> QED BY <2>3, <2>4, <3>1
    <3>2. CASE j \in 1 .. i - 1
      <4>1. PICK k \in 1 .. n : acc.sensors[k].bit = States[j].bit /\ acc.sensors[k].key = States[j].id
        BY <2>8, <2>13, <3>2
      <4>2. k \in 1 .. n + 1 /\ after.sensors[k] = acc.sensors[k]
        BY <2>4
      <4> QED BY <4>1, <4>2
    <3> QED BY <1>1, <3>1, <3>2
  <2>11. \A b \in after.seen : \E j \in 1 .. i : Port(States[j]) /\ States[j].bit = b
    BY <1>1, <1>6, <2>2, <2>14
  <2>9. \A j \in 1 .. i : Port(States[j]) => States[j].bit \in after.seen
    BY <1>1, <2>2, <2>14
  <2>10. n + 1 <= i
    BY <1>1, <1>2, <2>5 DEF n
  <2> QED BY <2>4, <2>6, <2>7, <2>8, <2>9, <2>10, <2>11 DEF Reflects, after
<1> QED BY <1>4, <1>5, <1>6

(* The whole loop: CatalogDescriptions is one of the functions Recursion   *)
(* speaks of.                                                              *)
LEMMA LoopReflects ==
  ASSUME TypeOK
  PROVE  \E acc \in Accs : acc.sensors = CatalogDescriptions /\ Reflects(acc, Len(States))
<1> DEFINE n == Len(States)
           start == [seen |-> {}, sensors |-> <<>>]
           G == [i \in 1 .. n |-> [x \in Accs |-> Described(x, States[i])]]
           Defines(f) == f = [i \in 0 .. n |-> IF i = 0 THEN start ELSE Described(f[i - 1], States[i])]
           round == CHOOSE f : Defines(f)
           P == [i \in 0 .. n |-> {x \in Accs : Reflects(x, i)}]
<1>1. n \in Nat /\ n \in 0 .. n /\ 0 \in 0 .. n /\ \A i \in 1 .. n : States[i] \in ToSet(States)
  BY StateFacts
<1>2. start \in Accs
  BY DEF Accs
<1>3. G \in [1 .. n -> [Accs -> Accs]]
  BY <1>1, RoundKind
<1>4. PICK f \in [0 .. n -> Accs] : Iterates(f, n, start, G)
  <2> HIDE DEF n, G, start
  <2> QED BY <1>1, <1>2, <1>3, Recursion
<1>5. Defines(f)
  <2>1. ASSUME NEW i \in 0 .. n
        PROVE  f[i] = IF i = 0 THEN start ELSE Described(f[i - 1], States[i])
    <3> HIDE DEF start
    <3>1. CASE i = 0
      BY <1>1, <1>4, <3>1, IteratesSteps
    <3>2. CASE i \in 1 .. n
      <4>1. f[i] = G[i][f[i - 1]]
        <5> HIDE DEF G, n
        <5> QED BY <1>1, <1>4, <3>2, IteratesSteps
      <4>2. f[i - 1] \in Accs
        BY <1>1, <3>2
      <4> QED BY <3>2, <4>1, <4>2
    <3> QED BY <1>1, <3>1, <3>2
  <2> HIDE DEF start
  <2> QED BY <2>1
<1>6. Defines(round)
  <2> HIDE DEF Defines
  <2> QED BY <1>5
<1>7. CatalogDescriptions = round[n].sensors
  BY DEF CatalogDescriptions, States
<1> HIDE DEF round
<1>8. round[0] \in P[0]
  <2>1. round[0] = start
    BY <1>1, <1>6
  <2>2. Reflects(start, 0)
    <3> Len(<<>>) = 0 /\ 1 .. 0 = {}
      OBVIOUS
    <3> QED BY DEF Reflects
  <2> QED BY <1>1, <1>2, <2>1, <2>2
<1>9. ASSUME NEW i \in 1 .. n, round[i - 1] \in P[i - 1] PROVE round[i] \in P[i]
  <2>1. i \in 0 .. n /\ i - 1 \in 0 .. n /\ i # 0
    BY <1>1
  <2>2. round[i] = Described(round[i - 1], States[i])
    <3> HIDE DEF start, n
    <3> QED BY <1>6, <2>1
  <2>3. round[i - 1] \in Accs /\ Reflects(round[i - 1], i - 1)
    BY <1>9, <2>1
  <2>4. round[i] \in Accs /\ Reflects(round[i], i)
    BY <1>1, <2>2, <2>3, RoundKind, RoundKeeps
  <2> QED BY <2>1, <2>4
<1>10. round[n] \in P[n]
  <2> HIDE DEF P, n
  <2> QED BY <1>1, <1>8, <1>9, Along
<1> QED BY <1>1, <1>7, <1>10

(* Ranks in a set of places: the number of members up to a place.          *)
LEMMA Ranks ==
  ASSUME NEW n \in Nat, NEW T \in SUBSET (1 .. n), NEW i \in T, NEW j \in T, i < j
  PROVE  /\ Cardinality({l \in T : l <= i}) \in 1 .. n /\ Cardinality({l \in T : l <= j}) \in 1 .. n
         /\ Cardinality({l \in T : l <= i}) # Cardinality({l \in T : l <= j})
<1> DEFINE Upto(k) == {l \in T : l <= k}
<1>0. \A k \in T : k \in 1 .. n /\ k \in Int
  OBVIOUS
<1>1. IsFiniteSet(1 .. n) /\ Cardinality(1 .. n) = n
  <2>1. 1 \in Int /\ n \in Int /\ (IF 1 > n THEN 0 ELSE n - 1 + 1) = n
    OBVIOUS
  <2> QED BY <2>1, FS_Interval
<1>2. ASSUME NEW k \in T
      PROVE  IsFiniteSet(Upto(k)) /\ Cardinality(Upto(k)) \in 1 .. n
  <2>1. Upto(k) \in SUBSET (1 .. n) /\ k \in Upto(k)
    <3>1. k <= k
      BY <1>0
    <3> QED BY <3>1
  <2> HIDE DEF Upto
  <2>2. IsFiniteSet(Upto(k)) /\ Cardinality(Upto(k)) <= n
    BY <1>1, <2>1, FS_Subset
  <2>3. Cardinality(Upto(k)) \in Nat /\ Cardinality(Upto(k)) # 0
    BY <2>1, <2>2, FS_CardinalityType, FS_EmptySet
  <2> QED BY <2>2, <2>3
<1>3. Upto(i) \in SUBSET Upto(j) /\ Upto(i) # Upto(j)
  <2>1. j \in Upto(j) /\ j \notin Upto(i)
    BY <1>0
  <2>2. \A l \in T : l <= i => l <= j
    BY <1>0
  <2>3. Upto(i) \subseteq Upto(j)
    BY <2>2
  <2> QED BY <2>1, <2>3
<1> HIDE DEF Upto
<1>4. Cardinality(Upto(i)) # Cardinality(Upto(j))
  BY <1>2, <1>3, FS_Subset
<1> QED BY <1>2, <1>4 DEF Upto

(* A name with a numeral is neither one without nor one with another.      *)
LEMMA NumeralsTell ==
  ASSUME NEW p \in Seq(NameWords), NEW q \in Seq(NameWords),
         NEW x \in ToSet(Numerals), NEW y \in ToSet(Numerals)
  PROVE  /\ Append(p, x) # q
         /\ Append(p, x) = Append(q, y) => p = q /\ x = y
<1> DEFINE W == NameWords \cup ToSet(Numerals)
<1>1. x \notin NameWords
  BY CatalogAssumption DEF CatalogAssumption
<1>2. p \in Seq(W) /\ q \in Seq(W) /\ x \in W /\ y \in W
  OBVIOUS
<1>3. /\ Len(p) \in Nat /\ Len(q) \in Nat
      /\ Len(Append(p, x)) = Len(p) + 1 /\ Append(p, x)[Len(p) + 1] = x
      /\ \A i \in 1 .. Len(p) : Append(p, x)[i] = p[i]
      /\ Len(Append(q, y)) = Len(q) + 1 /\ Append(q, y)[Len(q) + 1] = y
      /\ \A i \in 1 .. Len(q) : Append(q, y)[i] = q[i]
      /\ \A i \in 1 .. Len(q) : q[i] \in NameWords
  BY <1>2
<1>4. Append(p, x) # q
  <2> SUFFICES ASSUME Append(p, x) = q PROVE FALSE
    OBVIOUS
  <2>1. Len(q) = Len(p) + 1 /\ q[Len(q)] = x
    BY <1>3
  <2>2. Len(q) \in 1 .. Len(q)
    BY <1>3, <2>1
  <2> QED BY <1>1, <1>3, <2>1, <2>2
<1>5. ASSUME Append(p, x) = Append(q, y) PROVE p = q /\ x = y
  <2>1. Len(p) = Len(q) /\ x = y
    BY <1>3, <1>5
  <2>2. \A i \in 1 .. Len(p) : p[i] = q[i]
    BY <1>3, <1>5, <2>1
  <2> QED BY <2>1, <2>2
<1> QED BY <1>4, <1>5

(* Numbered names are different, and nothing else of a sensor changes      *)
(* (binary_sensor.py, _number_duplicates).                                 *)
LEMMA NumberedNames ==
  ASSUME NEW q \in Seq(Sensors), Len(q) <= Len(Numerals)
  PROVE  LET r == NumberDuplicates(q)
         IN /\ DOMAIN r = 1 .. Len(q)
            /\ \A i \in 1 .. Len(q) : r[i].bit = q[i].bit /\ r[i].key = q[i].key
            /\ \A i, j \in 1 .. Len(q) : i # j => r[i].name # r[j].name
<1> DEFINE n       == Len(q)
           r       == NumberDuplicates(q)
           Same(i) == {j \in DOMAIN q : q[j].name = q[i].name}
           Rank(i) == Cardinality({j \in Same(i) : j <= i})
<1>1. n \in Nat /\ DOMAIN q = 1 .. n /\ \A i \in 1 .. n : q[i] \in Sensors
  OBVIOUS
<1>2. \A i \in 1 .. n : q[i].name \in Seq(NameWords)
  BY <1>1 DEF Sensors
<1>3. DOMAIN r = 1 .. n /\ \A i \in 1 .. n :
        r[i] = IF Same(i) = {i} THEN q[i]
               ELSE [q[i] EXCEPT !.name = Append(@, Numerals[Rank(i)])]
  BY <1>1 DEF NumberDuplicates
<1>4. ASSUME NEW i \in 1 .. n
      PROVE  /\ i \in Same(i) /\ Same(i) \in SUBSET (1 .. n)
             /\ r[i].bit = q[i].bit /\ r[i].key = q[i].key
             /\ Same(i) = {i} => r[i].name = q[i].name
             /\ Same(i) # {i} => r[i].name = Append(q[i].name, Numerals[Rank(i)])
  <2>1. i \in Same(i) /\ Same(i) \in SUBSET (1 .. n)
    BY <1>1
  <2>2. r[i] = IF Same(i) = {i} THEN q[i]
               ELSE [q[i] EXCEPT !.name = Append(q[i].name, Numerals[Rank(i)])]
    BY <1>3
  <2> DEFINE numbered == Append(q[i].name, Numerals[Rank(i)])
  <2> HIDE DEF Same, Rank, r
  <2>3. CASE Same(i) = {i}
    BY <2>1, <2>2, <2>3
  <2>4. CASE Same(i) # {i}
    <3> HIDE DEF numbered
    <3>1. r[i] = [q[i] EXCEPT !.name = numbered]
      BY <2>2, <2>4 DEF numbered
    <3>2. r[i].bit = q[i].bit /\ r[i].key = q[i].key /\ r[i].name = numbered
      BY <1>1, <3>1 DEF Sensors
    <3> QED BY <2>1, <2>4, <3>2 DEF numbered
  <2> QED BY <2>3, <2>4
<1> HIDE DEF r
<1>5. Numerals \in Seq(ToSet(Numerals)) /\ IsInjective(Numerals) /\ n <= Len(Numerals)
  BY CatalogAssumption DEF CatalogAssumption
<1>6. \A k \in 1 .. n : k \in DOMAIN Numerals /\ Numerals[k] \in ToSet(Numerals)
  BY <1>1, <1>5 DEF ToSet
<1>7. ASSUME NEW i \in 1 .. n, Same(i) # {i}
      PROVE  Rank(i) \in 1 .. n
  <2>1. PICK j \in Same(i) : j # i
    BY <1>4, <1>7
  <2>2. i \in Same(i) /\ Same(i) \in SUBSET (1 .. n) /\ i \in Int /\ j \in Int
    BY <1>4
  <2> HIDE DEF Same
  <2>3. i < j \/ j < i
    BY <2>1, <2>2
  <2> QED BY <1>1, <2>1, <2>2, <2>3, Ranks DEF Rank
<1>11. ASSUME NEW i \in 1 .. n, Same(i) # {i}
      PROVE  \E x \in ToSet(Numerals) : x = Numerals[Rank(i)] /\ r[i].name = Append(q[i].name, x)
  <2> HIDE DEF Rank, Same
  <2> QED BY <1>4, <1>6, <1>7, <1>11
<1>8. ASSUME NEW i \in 1 .. n, NEW j \in 1 .. n, i < j
      PROVE  r[i].name # r[j].name
  <2>0. q[i].name \in Seq(NameWords) /\ q[j].name \in Seq(NameWords)
    BY <1>2
  <2>1. CASE q[i].name # q[j].name
    <3> HIDE DEF Same, Rank
    <3>1. CASE Same(i) = {i} /\ Same(j) = {j}
      BY <1>4, <2>1, <3>1
    <3>2. CASE Same(i) # {i} /\ Same(j) = {j}
      <4>1. PICK x \in ToSet(Numerals) : r[i].name = Append(q[i].name, x)
        BY <1>11, <3>2
      <4>2. Append(q[i].name, x) # q[j].name
        BY <2>0, NumeralsTell
      <4> QED BY <1>4, <3>2, <4>1, <4>2
    <3>3. CASE Same(i) = {i} /\ Same(j) # {j}
      <4>1. PICK x \in ToSet(Numerals) : r[j].name = Append(q[j].name, x)
        BY <1>11, <3>3
      <4>2. Append(q[j].name, x) # q[i].name
        BY <2>0, NumeralsTell
      <4> QED BY <1>4, <3>3, <4>1, <4>2
    <3>4. CASE Same(i) # {i} /\ Same(j) # {j}
      <4>1. PICK x \in ToSet(Numerals) : r[i].name = Append(q[i].name, x)
        BY <1>11, <3>4
      <4>2. PICK y \in ToSet(Numerals) : r[j].name = Append(q[j].name, y)
        BY <1>11, <3>4
      <4>3. Append(q[i].name, x) = Append(q[j].name, y) => q[i].name = q[j].name
        BY <2>0, NumeralsTell
      <4> QED BY <2>1, <4>1, <4>2, <4>3
    <3> QED BY <3>1, <3>2, <3>3, <3>4
  <2>2. CASE q[i].name = q[j].name
    <3>1. Same(i) = Same(j) /\ i \in Same(i) /\ j \in Same(i) /\ Same(i) \in SUBSET (1 .. n)
      <4>1. Same(i) = Same(j)
        BY <2>2
      <4> QED BY <1>4, <4>1
    <3>2. Same(i) # {i} /\ Same(j) # {j}
      BY <1>8, <3>1
    <3>3. Rank(i) \in 1 .. n /\ Rank(j) \in 1 .. n /\ Rank(i) # Rank(j)
      <4>1. Rank(j) = Cardinality({l \in Same(i) : l <= j})
        BY <3>1
      <4>2. Rank(i) = Cardinality({l \in Same(i) : l <= i})
        OBVIOUS
      <4> HIDE DEF Same, Rank
      <4> QED BY <1>1, <1>8, <3>1, <4>1, <4>2, Ranks
    <3> HIDE DEF Rank, Same
    <3>4. PICK x \in ToSet(Numerals) : x = Numerals[Rank(i)] /\ r[i].name = Append(q[i].name, x)
      BY <1>11, <3>2
    <3>5. PICK y \in ToSet(Numerals) : y = Numerals[Rank(j)] /\ r[j].name = Append(q[j].name, y)
      BY <1>11, <3>2
    <3>6. x # y
      BY <1>5, <1>6, <3>3, <3>4, <3>5 DEF IsInjective
    <3> QED BY <2>0, <3>4, <3>5, <3>6, NumeralsTell
  <2> QED BY <2>1, <2>2
<1>9. \A i, j \in 1 .. n : i # j => r[i].name # r[j].name
  <2>1. \A i, j \in 1 .. n : i # j => i < j \/ j < i
    OBVIOUS
  <2> QED BY <1>8, <2>1
<1>10. \A i \in 1 .. n : r[i].bit = q[i].bit /\ r[i].key = q[i].key
  BY <1>4
<1> QED BY <1>3, <1>9, <1>10 DEF r

(* The problem sensor is on exactly when a named fault is reported         *)
(* (catalog.py, active_faults; binary_sensor.py, is_on).                   *)
LEMMA ProblemsAreNamed ==
  ASSUME TypeOK, Current
  PROVE  Problem <=> \E f \in faults : f[2] \in f[1].named
<1>1. faults \subseteq FaultGroups \X (0 .. 31)
  BY DEF TypeOK
<1> DEFINE Reported(g) == {f[2] : f \in {x \in faults : x[1] = g}}
<1>2. \A g \in FaultGroups : Reported(g) \subseteq 0 .. 31
  BY <1>1
<1>3. ASSUME NEW g \in FaultGroups
      PROVE  g.named \cap FaultValue(g.registers, Input) = g.named \cap Reported(g)
  <2>1. /\ Len(g.registers) \in {1, 2} /\ g.registers \in Seq(Nat \ {41, 42})
        /\ IsInjective(g.registers)
        /\ \A h \in FaultGroups \ {g} : ToSet(g.registers) \cap ToSet(h.registers) = {}
    BY CatalogAssumption DEF CatalogAssumption
  <2>2. /\ ToSet(g.registers) \subseteq InputRegisters \ {41, 42}
        /\ \A k \in 1 .. Len(g.registers) : g.registers[k] \in ToSet(g.registers)
    BY <2>1 DEF ToSet, InputRegisters
  <2>3. ASSUME NEW h \in FaultGroups, h # g, NEW reg \in ToSet(g.registers)
        PROVE  GroupBits(h, reg, faults) = {}
    <3>1. reg \notin ToSet(h.registers)
      BY <2>1, <2>3
    <3>2. h.registers \in Seq(Nat \ {41, 42}) /\ Len(h.registers) \in {1, 2}
      BY CatalogAssumption DEF CatalogAssumption
    <3>3. reg # h.registers[1] /\ (Len(h.registers) = 2 => reg # h.registers[2])
      BY <3>1, <3>2 DEF ToSet
    <3> QED BY <3>2, <3>3 DEF GroupBits
  <2>4. \A reg \in ToSet(g.registers) : Input[reg] = Healthy(reg) \cup GroupBits(g, reg, faults)
    <3> SUFFICES ASSUME NEW reg \in ToSet(g.registers)
                 PROVE  Input[reg] = Healthy(reg) \cup GroupBits(g, reg, faults)
      OBVIOUS
    <3>1. UNION {GroupBits(h, reg, faults) : h \in FaultGroups} = GroupBits(g, reg, faults)
      BY <2>3
    <3>2. reg \in InputRegisters /\ reg # 41 /\ reg # 42
      BY <2>2
    <3> QED BY <3>1, <3>2 DEF Input
  <2>5. g.named \cap FaultValue(g.registers, [reg \in ToSet(g.registers) |-> Healthy(reg)]) = {}
    BY EntitiesAssumption DEF EntitiesAssumption
  <2>6. CASE Len(g.registers) = 1
    <3> DEFINE reg == g.registers[1]
    <3>1. reg \in ToSet(g.registers)
      BY <2>2, <2>6
    <3>2. FaultValue(g.registers, Input) = Input[reg]
      BY <2>6 DEF FaultValue
    <3>3. FaultValue(g.registers, [r \in ToSet(g.registers) |-> Healthy(r)]) = Healthy(reg)
      BY <2>6, <3>1 DEF FaultValue
    <3>4. GroupBits(g, reg, faults) = Reported(g)
      BY <2>6 DEF GroupBits
    <3> QED BY <2>4, <2>5, <3>1, <3>2, <3>3, <3>4
  <2>7. CASE Len(g.registers) = 2
    <3> DEFINE high == g.registers[1]
               low  == g.registers[2]
               Up(S) == {b + 16 : b \in S}
    <3>1. high \in ToSet(g.registers) /\ low \in ToSet(g.registers) /\ high # low
      BY <2>1, <2>2, <2>7 DEF IsInjective
    <3>2. FaultValue(g.registers, Input) = Input[low] \cup Up(Input[high])
      BY <2>7 DEF FaultValue, Combined
    <3>3. FaultValue(g.registers, [r \in ToSet(g.registers) |-> Healthy(r)])
            = Healthy(low) \cup Up(Healthy(high))
      BY <2>7, <3>1 DEF FaultValue, Combined
    <3>4. /\ GroupBits(g, low, faults) = {b \in Reported(g) : b < 16}
          /\ GroupBits(g, high, faults) = {b - 16 : b \in {x \in Reported(g) : x >= 16}}
      BY <2>7, <3>1 DEF GroupBits
    <3>5. Up({b - 16 : b \in {x \in Reported(g) : x >= 16}}) = {b \in Reported(g) : b >= 16}
      <4>1. \A b \in Reported(g) : b \in Int /\ (b - 16) + 16 = b
        BY <1>2
      <4> HIDE DEF Reported
      <4> QED BY <4>1
    <3>6. {b \in Reported(g) : b < 16} \cup {b \in Reported(g) : b >= 16} = Reported(g)
      <4>1. \A b \in Reported(g) : b < 16 \/ b >= 16
        BY <1>2
      <4> HIDE DEF Reported
      <4> QED BY <4>1
    <3>7. \A S, T : Up(S \cup T) = Up(S) \cup Up(T)
      OBVIOUS
    <3> HIDE DEF high, low, Up, Reported
    <3>8. /\ Input[low] = Healthy(low) \cup GroupBits(g, low, faults)
          /\ Up(Input[high]) = Up(Healthy(high)) \cup Up(GroupBits(g, high, faults))
      BY <2>4, <3>1, <3>7
    <3>9. Up(GroupBits(g, high, faults)) = {b \in Reported(g) : b >= 16}
      BY <3>4, <3>5
    <3>10. FaultValue(g.registers, Input) = (Healthy(low) \cup Up(Healthy(high))) \cup Reported(g)
      BY <3>2, <3>4, <3>6, <3>8, <3>9
    <3> QED BY <2>5, <3>3, <3>10
  <2> QED BY <2>1, <2>6, <2>7
<1>4. data.input = Input
  BY DEF Current, Snapshot
<1>5. Problem <=> \E f \in FaultGroups \X (0 .. 31) : f[2] \in f[1].named /\ f[2] \in FaultValue(f[1].registers, Input)
  BY <1>4 DEF Problem, ActiveFaults
<1>6. Problem <=> \E g \in FaultGroups : \E b \in 0 .. 31 : b \in g.named \cap FaultValue(g.registers, Input)
  <2>1. \A g \in FaultGroups : \A b \in 0 .. 31 : <<g, b>> \in FaultGroups \X (0 .. 31)
    OBVIOUS
  <2>2. \A f \in FaultGroups \X (0 .. 31) : f[1] \in FaultGroups /\ f[2] \in 0 .. 31 /\ f = <<f[1], f[2]>>
    OBVIOUS
  <2> QED BY <1>5, <2>1, <2>2
<1>7. (\E g \in FaultGroups : \E b \in 0 .. 31 : b \in g.named \cap Reported(g))
        <=> \E f \in faults : f[2] \in f[1].named
  BY <1>1
<1> HIDE DEF Reported
<1> QED BY <1>3, <1>6, <1>7

(* What the sensors of the states are (binary_sensor.py).                  *)
LEMMA SensorFacts ==
  ASSUME TypeOK
  PROVE  LET sensors == StateSensors
         IN /\ \A i, j \in DOMAIN sensors :
                 i # j => /\ sensors[i].bit # sensors[j].bit
                          /\ sensors[i].key # sensors[j].key
                          /\ sensors[i].name # sensors[j].name
            /\ States # <<>> =>
                 {<<sensors[i].key, sensors[i].bit>> : i \in DOMAIN sensors}
                 = {<<States[i].id, States[i].bit>> :
                      i \in {j \in DOMAIN States : First(j) /\ ~Dull(States[j])}}
<1> DEFINE sensors == StateSensors
           n       == Len(States)
<1>1. PICK acc \in Accs : acc.sensors = CatalogDescriptions /\ Reflects(acc, n)
  BY LoopReflects
<1>2. /\ n \in Nat /\ n <= Len(Numerals) /\ DOMAIN States = 1 .. n
      /\ \A i, j \in 1 .. n : i # j => States[i].id # States[j].id
      /\ n = 0 => States = <<>>
  <2>1. States \in Seq(ToSet(States))
    BY CatalogAssumption DEF CatalogAssumption, TypeOK, States
  <2>2. n = 0 => States = <<>>
    <3> HIDE DEF States
    <3> QED BY <2>1
  <2> QED BY <2>2, StateFacts
<1>3. CASE CatalogDescriptions = <<>>
  <2>1. n = 0
    BY <1>1, <1>2, <1>3 DEF Reflects
  <2>2. States = <<>>
    BY <1>2, <2>1
  <2>3. sensors = FallbackSensors
    BY <1>3 DEF StateSensors
  <2>4. \A i, j \in DOMAIN FallbackSensors :
          i # j => /\ FallbackSensors[i].bit # FallbackSensors[j].bit
                   /\ FallbackSensors[i].key # FallbackSensors[j].key
                   /\ FallbackSensors[i].name # FallbackSensors[j].name
    BY DEF FallbackSensors
  <2> QED BY <2>2, <2>3, <2>4
<1>4. CASE CatalogDescriptions # <<>>
  <2> DEFINE q == acc.sensors
             m == Len(q)
  <2>1. q \in Seq(Sensors) /\ m \in Nat /\ m <= Len(Numerals)
    <3>1. q \in Seq(Sensors) /\ m \in Nat
      BY DEF Accs
    <3>2. m <= n
      BY <1>1 DEF Reflects
    <3> QED BY <1>2, <3>1, <3>2, CatalogAssumption DEF CatalogAssumption
  <2>2. sensors = NumberDuplicates(q)
    BY <1>1, <1>4 DEF StateSensors
  <2>3. /\ DOMAIN sensors = 1 .. m
        /\ \A i \in 1 .. m : sensors[i].bit = q[i].bit /\ sensors[i].key = q[i].key
        /\ \A i, j \in 1 .. m : i # j => sensors[i].name # sensors[j].name
    BY <2>1, <2>2, NumberedNames
  <2>4. /\ \A k \in 1 .. m :
             \E j \in 1 .. n : /\ First(j) /\ ~Dull(States[j])
                              /\ q[k].bit = States[j].bit /\ q[k].key = States[j].id
        /\ \A k, l \in 1 .. m : k # l => q[k].bit # q[l].bit
        /\ \A j \in 1 .. n : First(j) /\ ~Dull(States[j]) =>
             \E k \in 1 .. m : q[k].bit = States[j].bit /\ q[k].key = States[j].id
    BY <1>1 DEF Reflects
  <2> HIDE DEF sensors, q, m, n
  <2>5. \A k, l \in 1 .. m : k # l => q[k].key # q[l].key
    <3>1. ASSUME NEW k \in 1 .. m, NEW l \in 1 .. m, q[k].key = q[l].key
          PROVE  q[k].bit = q[l].bit
      <4>1. PICK i \in 1 .. n : q[k].bit = States[i].bit /\ q[k].key = States[i].id
        BY <2>4
      <4>2. PICK j \in 1 .. n : q[l].bit = States[j].bit /\ q[l].key = States[j].id
        BY <2>4
      <4> QED BY <1>2, <3>1, <4>1, <4>2
    <3> QED BY <2>4, <3>1
  <2>6. \A i, j \in DOMAIN sensors :
          i # j => /\ sensors[i].bit # sensors[j].bit
                   /\ sensors[i].key # sensors[j].key
                   /\ sensors[i].name # sensors[j].name
    BY <2>3, <2>4, <2>5
  <2> DEFINE shown == {<<sensors[i].key, sensors[i].bit>> : i \in DOMAIN sensors}
             due   == {j \in DOMAIN States : First(j) /\ ~Dull(States[j])}
             owed  == {<<States[i].id, States[i].bit>> : i \in due}
  <2>7. shown = owed
    <3>1. ASSUME NEW i \in 1 .. m PROVE <<sensors[i].key, sensors[i].bit>> \in owed
      <4>1. PICK j \in 1 .. n : /\ First(j) /\ ~Dull(States[j])
                               /\ q[i].bit = States[j].bit /\ q[i].key = States[j].id
        BY <2>4
      <4>2. j \in due
        BY <1>2, <4>1
      <4> HIDE DEF due
      <4> QED BY <2>3, <4>1, <4>2
    <3>2. ASSUME NEW j \in due PROVE <<States[j].id, States[j].bit>> \in shown
      <4>1. PICK k \in 1 .. m : q[k].bit = States[j].bit /\ q[k].key = States[j].id
        BY <1>2, <2>4
      <4> QED BY <2>3, <4>1
    <3> HIDE DEF due
    <3> QED BY <2>3, <3>1, <3>2
  <2> QED BY <2>6, <2>7 DEF sensors
<1> QED BY <1>3, <1>4

LEMMA Truthful == TypeOK => SensorsTellTheTruth
<1> SUFFICES ASSUME TypeOK, data # None, Current PROVE SensorsTellTheTruth
  BY DEF SensorsTellTheTruth
<1>1. \A s : IsOn(s) <=> s.bit \in lit
  BY WordIsLit DEF IsOn
<1>2. VoltageShown <=> 27 \in lit
  BY WordIsLit DEF VoltageShown
<1> DEFINE due    == {j \in DOMAIN States : First(j) /\ ~Dull(States[j])}
           firsts == {i \in DOMAIN States :
                        /\ Port(States[i])
                        /\ \A j \in 1 .. i - 1 : Port(States[j]) => States[j].bit # States[i].bit}
<1>3. due = {j \in firsts : ~Dull(States[j])}
  BY DEF First
<1> HIDE DEF due
<1> QED BY <1>1, <1>2, <1>3, SensorFacts, ProblemsAreNamed
    DEF SensorsTellTheTruth, States, Port, Dull, due

-------------------------------------------------------------------------------
(* Steps *)

(* A step of WritesStayPermitted *)
PermittedStep ==
  last'.by \in {"entity", "library"} =>
    \A reg \in Registers :
      bank'[reg] # bank[reg] =>
        last'.how # "refused" /\ reg \in Writable /\ InRange(reg, bank'[reg])

(* What the allowlist permits fits a register (constants.py).              *)
LEMMA PermittedIsWord ==
  ASSUME NEW reg \in Writable, NEW v, InRange(reg, v)
  PROVE  v \in Words /\ reg \in Registers
<1> DEFINE low  == PermittedRange(reg)[1]
           high == PermittedRange(reg)[2]
<1>1. low \in Int /\ 0 <= low /\ high \in Int /\ high <= 1800
  BY Limits DEF Writable
<1>2. v \in low .. high
  BY DEF InRange
<1> HIDE DEF low, high
<1>3. v \in 0 .. 1800
  BY <1>1, <1>2
<1> QED BY <1>3, SmallIsWord DEF Registers

(* The library lets a single permitted write through, and nothing else     *)
(* (device.py, _check_writes_safe).                                        *)
LEMMA SoundIsSafe ==
  ASSUME NEW r, Sound(r)
  PROVE  WritesSafe(r.reg, <<r.value>>, FALSE)
<1>1. r.reg \in Nat
  BY DEF Sound, Writable
<1>2. \A i \in 1 .. Len(<<r.value>>) : r.reg + i - 1 = r.reg /\ <<r.value>>[i] = r.value
  BY <1>1
<1>3. <<r.value>> # <<>>
  OBVIOUS
<1> QED BY <1>2, <1>3 DEF WritesSafe, Sound

(* What the panel puts into a register fits it.                            *)
LEMMA ContentsAreWords ==
  ASSUME TypeOK, NEW reg \in Registers
  PROVE  Contents(reg) \subseteq Words
<1>1. {0, 1, 2, 3, 7, 20, 200} \subseteq Words
  BY SmallIsWord
<1>2. \A s \in Settings : \A o \in ToSet(s.options) : Stores(s, o) \in Words
  BY EntitiesAssumption DEF EntitiesAssumption, Settings, TypeOK
<1>3. PanelVersions \subseteq Words
  BY EntitiesAssumption DEF EntitiesAssumption
<1> QED BY <1>1, <1>2, <1>3 DEF Contents

(* A call that writes keeps the invariant, and writes what is permitted    *)
(* and asked for (coordinator.py, async_write_register).                   *)
LEMMA WriteStep ==
  ASSUME IInv, NEW r, Sound(r), Write(r), moves' \in 0 .. MaxMoves,
         UNCHANGED <<product, lit, faults, built>>
  PROVE  IInv' /\ PermittedStep
<1> DEFINE after == [bank EXCEPT ![r.reg] = r.value]
<1>1. \/ /\ bank' = after
         /\ data' = [holding |-> after, input |-> Input] /\ ok' = TRUE
         /\ last' = Called("written", "entity", r.reg, r.wanted)
      \/ /\ bank' \in {after, bank}
         /\ last' = Called("raised", "entity", r.reg, r.wanted) /\ UNCHANGED <<data, ok>>
  BY SoundIsSafe DEF Write
<1>2. r.reg \in Writable /\ InRange(r.reg, r.value) /\ r.value \in r.wanted
  BY DEF Sound
<1>3. r.reg \in Registers /\ r.value \in Words
  BY <1>2, PermittedIsWord
<1>4. bank \in [Registers -> Words] /\ after \in [Registers -> Words]
  BY <1>3 DEF IInv, TypeOK
<1>5. after[r.reg] = r.value /\ \A reg \in Registers : reg # r.reg => after[reg] = bank[reg]
  BY <1>3, <1>4
<1>6. [holding |-> after, input |-> Input] \in Snapshots \ {None}
  BY <1>4, ReadIsSnapshot DEF IInv
<1> HIDE DEF after
<1>7. TypeOK'
  BY <1>1, <1>4, <1>6 DEF IInv, TypeOK, Called
<1>8. DataInv'
  BY <1>1, <1>6 DEF IInv, DataInv
<1>11. BuiltInv'
  BY DEF IInv, BuiltInv
<1>9. NoControlIsRefused' /\ DoesWhatWasAsked'
  BY <1>1, <1>2, <1>5 DEF NoControlIsRefused, DoesWhatWasAsked, Called
<1>10. PermittedStep
  BY <1>1, <1>2, <1>5 DEF PermittedStep, Called
<1> QED BY <1>7, <1>8, <1>9, <1>10, <1>11 DEF IInv

LEMMA ServiceStep ==
  ASSUME IInv, ServiceCall
  PROVE  IInv' /\ PermittedStep
<1>1. PICK r \in Requests :
        IF r.lazy /\ Holding(r.reg) = r.value
        THEN last' = Called("skipped", "entity", r.reg, r.wanted) /\ UNCHANGED <<bank, data, ok>>
        ELSE Write(r)
  BY DEF ServiceCall
<1>2. moves' \in 0 .. MaxMoves /\ UNCHANGED <<product, lit, faults, built>>
  BY EntitiesAssumption DEF ServiceCall, Move, IInv, TypeOK, EntitiesAssumption
<1>3. Sound(r)
  BY RequestsAreSound DEF IInv
<1>4. CASE Write(r)
  BY <1>2, <1>3, <1>4, WriteStep
<1>5. CASE /\ Holding(r.reg) = r.value
           /\ last' = Called("skipped", "entity", r.reg, r.wanted) /\ UNCHANGED <<bank, data, ok>>
  <2>1. Holding(r.reg)' = Holding(r.reg)
    BY <1>5 DEF Holding
  <2>2. TypeOK'
    BY <1>2, <1>5 DEF IInv, TypeOK, Called
  <2>3. DataInv' /\ BuiltInv' /\ NoControlIsRefused'
    BY <1>2, <1>5 DEF IInv, DataInv, BuiltInv, NoControlIsRefused, Called
  <2>4. DoesWhatWasAsked'
    BY <1>3, <1>5 DEF DoesWhatWasAsked, Called, Sound, Holding
  <2>5. PermittedStep
    BY <1>5 DEF PermittedStep
  <2> QED BY <2>2, <2>3, <2>4, <2>5 DEF IInv
<1> QED BY <1>1, <1>4, <1>5

(* A span is written whole, or refused whole (device.py, write_registers). *)
LEMMA SpanStep ==
  ASSUME IInv, NEW by \in {"library", "unsafe"}, NEW start \in Nat,
         NEW values \in Seq(Words), WriteSpan(by, start, values),
         moves' \in 0 .. MaxMoves, UNCHANGED <<product, lit, faults, data, ok, built>>
  PROVE  IInv' /\ PermittedStep
<1> DEFINE span  == start .. start + Len(values) - 1
           after == [reg \in Registers |->
                       IF reg \in span THEN values[reg - start + 1] ELSE bank[reg]]
<1>1. \/ /\ WritesSafe(start, values, by = "unsafe")
         /\ bank' = after /\ last' = Called("written", by, start, {})
      \/ bank' = bank /\ last' = Called("refused", by, start, {})
  BY DEF WriteSpan
<1>2. \A reg \in span : /\ reg - start + 1 \in 1 .. Len(values)
                         /\ start + (reg - start + 1) - 1 = reg
  OBVIOUS
<1>3. \A reg \in span : values[reg - start + 1] \in Words
  BY <1>2
<1>4. bank \in [Registers -> Words] /\ after \in [Registers -> Words]
  BY <1>3 DEF IInv, TypeOK
<1>5. ASSUME WritesSafe(start, values, by = "unsafe"), by = "library",
             NEW reg \in Registers, after[reg] # bank[reg]
      PROVE  reg \in Writable /\ InRange(reg, after[reg])
  <2>1. reg \in span /\ after[reg] = values[reg - start + 1]
    BY <1>5
  <2>2. \A i \in 1 .. Len(values) :
          start + i - 1 \in Writable /\ InRange(start + i - 1, values[i])
    BY <1>5 DEF WritesSafe
  <2> QED BY <1>2, <2>1, <2>2
<1> HIDE DEF span, after
<1>6. TypeOK'
  BY <1>1, <1>4 DEF IInv, TypeOK, Called
<1>7. DataInv' /\ BuiltInv' /\ NoControlIsRefused' /\ DoesWhatWasAsked'
  BY <1>1 DEF IInv, DataInv, BuiltInv, NoControlIsRefused, DoesWhatWasAsked, Called
<1>8. PermittedStep
  BY <1>1, <1>5 DEF PermittedStep, Called
<1> QED BY <1>6, <1>7, <1>8 DEF IInv

LEMMA LibraryStep ==
  ASSUME IInv, LibraryWrite
  PROVE  IInv' /\ PermittedStep
<1>1. moves' \in 0 .. MaxMoves
  BY EntitiesAssumption DEF LibraryWrite, Move, IInv, TypeOK, EntitiesAssumption
<1>2. PICK s \in Spans, by \in {"library", "unsafe"} : WriteSpan(by, s.start, s.values)
  BY DEF LibraryWrite
<1>3. s.start \in Nat /\ s.values \in Seq(Words)
  BY EntitiesAssumption DEF EntitiesAssumption
<1>4. UNCHANGED <<product, lit, faults, data, ok, built>>
  BY DEF LibraryWrite
<1> QED BY <1>1, <1>2, <1>3, <1>4, SpanStep

(* The station, a poll and a setup write nothing on anybody's behalf.      *)
LEMMA OtherSteps ==
  ASSUME IInv, PanelChanges \/ Poll \/ Setup
  PROVE  IInv' /\ PermittedStep
<1>1. last' = NoCall
  BY DEF PanelChanges, Poll, Setup
<1>2. NoControlIsRefused' /\ DoesWhatWasAsked' /\ PermittedStep
  BY <1>1 DEF NoControlIsRefused, DoesWhatWasAsked, PermittedStep, NoCall
<1>3. Snapshot \in Snapshots \ {None}
  BY ReadIsSnapshot DEF IInv, TypeOK, Snapshot
<1>4. CASE PanelChanges
  <2>1. bank' \in [Registers -> Words]
    <3>1. CASE bank' = bank
      BY <3>1 DEF IInv, TypeOK
    <3>2. ASSUME NEW reg \in Registers, NEW v \in Contents(reg), bank' = [bank EXCEPT ![reg] = v]
          PROVE  bank' \in [Registers -> Words]
      <4>1. v \in Words
        BY ContentsAreWords DEF IInv
      <4> QED BY <3>2, <4>1 DEF IInv, TypeOK
    <3> QED BY <1>4, <3>1, <3>2 DEF PanelChanges
  <2>2. lit' \subseteq 0 .. 31 /\ faults' \subseteq FaultGroups \X (0 .. 31)
    <3>1. lit' \in LitSets \cup {lit} /\ faults' \in FaultSets \cup {faults}
      BY <1>4 DEF PanelChanges
    <3> QED BY <3>1, EntitiesAssumption DEF EntitiesAssumption, IInv, TypeOK
  <2>3. moves' \in 0 .. MaxMoves /\ UNCHANGED <<product, data, ok, built>>
    BY <1>4, EntitiesAssumption DEF PanelChanges, Move, IInv, TypeOK, EntitiesAssumption
  <2>4. TypeOK' /\ DataInv' /\ BuiltInv'
    BY <1>1, <2>1, <2>2, <2>3 DEF IInv, TypeOK, DataInv, BuiltInv, NoCall
  <2> QED BY <1>2, <2>4 DEF IInv
<1>5. CASE Poll
  <2>1. TypeOK' /\ DataInv' /\ BuiltInv'
    BY <1>1, <1>3, <1>5 DEF Poll, IInv, TypeOK, DataInv, BuiltInv, NoCall
  <2> QED BY <1>2, <2>1 DEF IInv
<1>6. CASE Setup
  <2>1. TypeOK' /\ DataInv'
    BY <1>1, <1>3, <1>6 DEF Setup, IInv, TypeOK, DataInv, NoCall
  <2>2. BuiltInv'
    BY <1>6 DEF Setup, IInv, TypeOK, BuiltInv, Registers
  <2> QED BY <1>2, <2>1, <2>2 DEF IInv
<1> QED BY <1>4, <1>5, <1>6

-------------------------------------------------------------------------------
(* Theorems *)

LEMMA InitInv == Init => IInv
<1> SUFFICES ASSUME Init PROVE IInv
  OBVIOUS
<1>1. {0, 1, 5, 20, 29, 180, 1000} \subseteq Words
  BY SmallIsWord
<1>2. bank \in [Registers -> Words]
  BY <1>1 DEF Init
<1>3. TypeOK
  BY <1>2, EntitiesAssumption DEF Init, TypeOK, NoCall, EntitiesAssumption
<1> QED BY <1>3 DEF Init, IInv, DataInv, BuiltInv, NoControlIsRefused, DoesWhatWasAsked, NoCall

LEMMA Step ==
  ASSUME IInv, [Next]_vars
  PROVE  IInv' /\ (PermittedStep \/ UNCHANGED vars)
<1>1. CASE Next
  BY <1>1, ServiceStep, LibraryStep, OtherSteps DEF Next
<1>2. CASE UNCHANGED vars
  BY <1>2 DEF vars, IInv, TypeOK, DataInv, BuiltInv, NoControlIsRefused, DoesWhatWasAsked, Holding
<1> QED BY <1>1, <1>2

(* The invariant of the entities: snapshots are of the banks, and the last *)
(* call was accepted and did what was asked for.                           *)
THEOREM Inductive == Spec => []IInv
<1>1. IInv /\ [Next]_vars => IInv'
  BY Step
<1> QED BY <1>1, InitInv, PTL DEF Spec

(* Every variable keeps its type, entities exist only over a snapshot, and *)
(* a coordinator without one has not succeeded.                            *)
THEOREM TypeCorrect == Spec => []TypeOK
<1>1. IInv => TypeOK
  BY DEF IInv
<1> QED BY <1>1, Inductive, PTL

(* For every catalog, no entity offers a choice whose write the library    *)
(* refuses (select.py, number.py against device.py:286).                   *)
THEOREM NothingRefused == Spec => []NoControlIsRefused
<1>1. IInv => NoControlIsRefused
  BY DEF IInv
<1> QED BY <1>1, Inductive, PTL

(* For every catalog, a call that returned has put into the register what  *)
(* the user chose, in the station's own terms.                             *)
THEOREM AsAsked == Spec => []DoesWhatWasAsked
<1>1. IInv => DoesWhatWasAsked
  BY DEF IInv
<1> QED BY <1>1, Inductive, PTL

(* For every catalog, a select shows the option whose content the station  *)
(* holds, and nothing when it holds none of those offered (select.py,      *)
(* current_option).                                                        *)
THEOREM SelectsShown == Spec => []SelectsShowTheStation
<1>1. IInv => SelectsShowTheStation
  BY Showing DEF IInv
<1> QED BY <1>1, Inductive, PTL

(* For every catalog and every set of rules, a rule for the version shown  *)
(* hides the option 0 of the AC no-load standby timer, no rule hides one   *)
(* above 0 of a setting that has two of them, and without a rule every     *)
(* option of a permitted setting is offered (catalog.py,                   *)
(* gated_setting_options; select.py, _catalog_descriptions).               *)
THEOREM GateApplies == Spec => []GateHonoured
<1>1. IInv => GateHonoured
  BY Honoured DEF IInv
<1> QED BY <1>1, Inductive, PTL

(* For every catalog, the sensors show the bits reported, each once and    *)
(* under a name of its own, and are those of the first ports with their    *)
(* bits, in the catalog's order, that do not only repeat their outputs'    *)
(* names; the problem sensor is on exactly for a named fault, and the AC   *)
(* voltage shown exactly while the AC output is on (binary_sensor.py,      *)
(* sensor.py).                                                             *)
THEOREM SensorsTruthful == Spec => []SensorsTellTheTruth
<1>1. IInv => SensorsTellTheTruth
  BY Truthful DEF IInv
<1> QED BY <1>1, Inductive, PTL

(* For every catalog and every span, no write without the unsafe flag      *)
(* leaves the allowlist (device.py, _check_writes_safe).                   *)
THEOREM Permitted == Spec => WritesStayPermitted
<1>1. IInv /\ [Next]_vars => [PermittedStep]_vars
  BY Step
<1> QED BY <1>1, Inductive, PTL DEF Spec, WritesStayPermitted, PermittedStep
===============================================================================
