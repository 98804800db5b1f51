-------------------------------- MODULE Entities --------------------------------
(***************************************************************************)
(* The entities of one entry (custom_components/sydpower: select, switch,  *)
(* light, number, datetime, button, binary_sensor, sensor, entity) between *)
(* the service calls and the registers of a station: what they offer, what *)
(* a call writes, what the library lets through and what they show of the  *)
(* coordinator's snapshot.  Concurrent calls are Coordinator's subject,    *)
(* and the time shown ScheduledCharge's: here a call is one step.          *)
(*                                                                         *)
(* The station is external, and so is the meaning of its registers: Stores *)
(* and Input say it independently of the code's encodings.  Products are   *)
(* those of protocol 0, for which the register map was verified.           *)
(***************************************************************************)
EXTENDS Catalog, FiniteSets

CONSTANTS
  LitSets,      \* sets of bits of the state word the station may report
  FaultSets,    \* sets of faults it may report, each <<group, bit>>
  Spans,        \* writes made through the library: [start, values]
  Thresholds,   \* thresholds asked for, in hundredths of a percent
  Currents,     \* charging currents asked for, in tenths of an ampere
  Delays,       \* times asked for, in seconds from the call
  PanelVersions,\* contents of the panel's version register
  MaxMoves      \* bound: changes at the station and calls that write

VARIABLES
  product,      \* CONF_PRODUCT_KEY; the name is part of it
  bank,         \* holding registers of the station
  lit, faults,  \* what it reports in its input registers
  data, ok,     \* coordinator.data and coordinator.last_update_success
  built,        \* the panel's version the entities were built from, or None
  last,         \* history: the call made last
  moves         \* history: moves made
vars == <<product, bank, lit, faults, data, ok, built, last, moves>>

REG_LIGHT_CONTROL       == 27
REG_THRESHOLD_DISCHARGE == 66
REG_THRESHOLD_CHARGE    == 67
CEILING                 == 17
AC_STANDBY              == 60
Registers == Writable \cup {CEILING, 28, PanelVersionRegister}
ExtraSwitches == {56, 57}
LIGHT_MODES == <<[value |-> 1, name |-> <<"on">>], [value |-> 2, name |-> <<"sos">>],
                 [value |-> 3, name |-> <<"flashing">>]>>

Words == 0 .. 65535

-------------------------------------------------------------------------------
(* The station *)

(* What it stores for an option: the place in the list for the charging    *)
(* power, minutes for hours, seconds for minutes, the option itself.       *)
Stores(setting, option) ==
  CASE setting.reg = 13       -> CHOOSE i \in DOMAIN setting.options : setting.options[i] = option
    [] setting.reg \in 60..62 -> option * 60
    [] OTHER                  -> option

(* Bits without a message that a healthy station sets. *)
Healthy(reg) == CASE reg = 47 -> {12, 13} [] reg = 48 -> {14} [] OTHER -> {}

GroupBits(g, reg, active) ==
  LET bits == {f[2] : f \in {x \in active : x[1] = g}}
  IN IF Len(g.registers) = 1
     THEN {b \in bits : reg = g.registers[1]}
     ELSE {b - 16 : b \in {x \in bits : x >= 16 /\ reg = g.registers[1]}}
          \cup {b \in bits : b < 16 /\ reg = g.registers[2]}

InputRegisters == {41, 42} \cup UNION {ToSet(g.registers) : g \in FaultGroups}

Input == [reg \in InputRegisters |->
            CASE reg = 41 -> {b - 16 : b \in {x \in lit : x >= 16}}
              [] reg = 42 -> {b \in lit : b < 16}
              [] OTHER    -> Healthy(reg) \cup UNION {GroupBits(g, reg, faults) : g \in FaultGroups}]

Snapshot == [holding |-> bank, input |-> Input]
Current  == data = Snapshot   \* nothing has changed since it was read

Settings == ToSet(SettingsOf[product])

(* What the panel or the station itself may put into a register: the 7 is  *)
(* on no list of options.                                                  *)
Contents(reg) ==
  CASE reg = PanelVersionRegister -> PanelVersions
    [] reg = CEILING              -> {0, 20, 200}
    [] reg = REG_LIGHT_CONTROL    -> 0 .. 3
    [] reg \in {24, 25, 26, 56}   -> {0, 1}
    [] OTHER -> UNION {{7} \cup {Stores(s, o) : o \in ToSet(s.options)} :
                         s \in {x \in Settings : x.reg = reg}}

(* The station reports bits of its words; what it stores for an option     *)
(* fits a register, and so does what is written through the library.  In   *)
(* the catalog the outputs of protocol 0 are controlled by registers 24 to *)
(* 27, and the light's modes, where a product lists them, are 1 to 3,      *)
(* steady on first.                                                        *)
EntitiesAssumption ==
  /\ MaxMoves \in Nat /\ Products # {}
  /\ LitSets \subseteq SUBSET (0 .. 31)
  /\ FaultSets \subseteq SUBSET (FaultGroups \X (0 .. 31))
  /\ \A s \in Spans : s.start \in Nat /\ s.values \in Seq(Words)
  /\ Thresholds \cup Currents \cup Delays \subseteq Int /\ PanelVersions \subseteq Words
  /\ \A p \in Products :
       LET modes == OutputChildren(p, REG_LIGHT_CONTROL)
       IN /\ \A s \in ToSet(SettingsOf[p]) : \A o \in ToSet(s.options) : Stores(s, o) \in Words
          /\ \A s \in ToSet(StatesOf[p]) : s.control \in {None} \cup 24 .. 27
          /\ modes # <<>> => modes[1].value = 1 /\ \A i \in DOMAIN modes : modes[i].value \in 1 .. 3
  /\ \A g \in FaultGroups :
       g.named \cap FaultValue(g.registers, [reg \in ToSet(g.registers) |-> Healthy(reg)]) = {}
  /\ None \notin [holding : [Registers -> Words], input : [InputRegisters -> SUBSET Int]]
ASSUME EntitiesAssumption

-------------------------------------------------------------------------------
(* The coordinator's snapshot *)

(* _holding, _input: None before the first poll *)
Holding(reg) == IF data = None THEN None ELSE data.holding[reg]

-------------------------------------------------------------------------------
(* Selects *)

(* Slip: no setting is stored in minutes. *)
EncodeInHours(reg, value, index) == IF SettingEncoding(reg) = "index1" THEN index ELSE value

(* _encode; the index counts from 1 here *)
Encode(reg, value, index) ==
  CASE SettingEncoding(reg) = "index1" -> index
    [] SettingEncoding(reg) = "x60"    -> value * 60
    [] OTHER                           -> value

(* Slip: the labels are taken from the head of the unfiltered list. *)
DescribeShifted(setting, panel) ==
  LET options == GatedOptions(setting, product, panel)
  IN [setting |-> setting, reg |-> setting.reg,
      choices |-> SubSeq(setting.options, 1, Len(options)),
      values  |-> [i \in DOMAIN options |->
                     Encode(setting.reg, options[i],
                            CHOOSE k \in DOMAIN setting.options : setting.options[k] = options[i])]]

(* One description: values and labels of the options the gate leaves, at   *)
(* their places in the whole list.                                         *)
Describe(setting, panel) ==
  LET options == GatedOptions(setting, product, panel)
  IN [setting |-> setting, reg |-> setting.reg, choices |-> options,
      values  |-> [i \in DOMAIN options |->
                     Encode(setting.reg, options[i],
                            CHOOSE k \in DOMAIN setting.options : setting.options[k] = options[i])]]

(* _catalog_descriptions, over the settings of the product *)
Selects ==
  IF built = None THEN {}
  ELSE {d \in {Describe(s, built.panel) : s \in {x \in Settings : ~x.packed}} :
          /\ Len(d.choices) >= 2
          /\ d.reg \in Writable
          /\ \A i \in DOMAIN d.values : InRange(d.reg, d.values[i])}

(* current_option; an unknown content is None, and the select unavailable *)
Shown(d) ==
  LET found == {i \in DOMAIN d.values : d.values[i] = Holding(d.reg)}
  IN IF found = {} THEN None ELSE d.choices[CHOOSE i \in found : \A j \in found : i <= j]

-------------------------------------------------------------------------------
(* What the service calls ask for, per platform.  A request is a register, *)
(* the value the entity would write, whether it compares the value with    *)
(* the snapshot first, and the contents that would satisfy the user.       *)

Request(reg, value, lazy, wanted) ==
  [reg |-> reg, value |-> value, lazy |-> lazy, wanted |-> wanted]

SelectRequests ==
  UNION {{Request(d.reg, d.values[i], FALSE, {Stores(d.setting, d.choices[i])}) : i \in DOMAIN d.values}
           : d \in {x \in Selects : Shown(x) # None}}

(* _descriptions of switch.py: outputs that can be written, and the extras *)
Switches ==
  LET outputs == {s.control : s \in {x \in ToSet(StatesOf[product]) : x.control # None}}
  IN ((outputs \ {REG_LIGHT_CONTROL}) \cup ExtraSwitches) \cap Writable

SwitchRequests == UNION {{Request(reg, v, TRUE, {v}) : v \in {0, 1}} : reg \in Switches}

(* _modes *)
LightModes ==
  LET modes == OutputChildren(product, REG_LIGHT_CONTROL)
  IN IF modes = <<>> THEN LIGHT_MODES ELSE modes

(* An effect by name; none or an unknown one is steady on, mode 1. *)
LightRequests ==
  {Request(REG_LIGHT_CONTROL, m.value, TRUE, {m.value}) : m \in ToSet(LightModes)}
  \cup {Request(REG_LIGHT_CONTROL, LightModes[1].value, TRUE, {1}),
        Request(REG_LIGHT_CONTROL, 0, TRUE, {0})}

(* Python's round of x / n, a tie going either way *)
Rounded(x, n) == {r \in {x \div n, x \div n + 1} : 2 * (n * r - x) \in -n .. n}

(* The whole tens no further than half of one from x, in tens *)
Nearest(x) == {w \in 0 .. 1000 : 10 * w - x \in -5 .. 5}

(* A threshold between the limits Home Assistant holds it to, in percent,  *)
(* to the nearest permille                                                 *)
ThresholdsWithin(reg, min, max) ==
  UNION {{Request(reg, v, FALSE, Nearest(x)) : v \in Rounded(x, 10)} :
           x \in {y \in Thresholds : 100 * min <= y /\ y <= 100 * max}}

ThresholdRequests == ThresholdsWithin(REG_THRESHOLD_CHARGE, 10, 100)
                     \cup ThresholdsWithin(REG_THRESHOLD_DISCHARGE, 0, 50)

(* Slip: the ceiling is the one the station declares. *)
DeclaredCeiling == Holding(CEILING)

(* native_max_value: the lower of the declared ceiling and the permitted *)
CurrentCeiling == IF Holding(CEILING) < PermittedRange(20)[2] THEN Holding(CEILING)
                                                              ELSE PermittedRange(20)[2]

CurrentRequests ==
  IF Holding(CEILING) = 0 THEN {}
  ELSE UNION {{Request(20, v, FALSE, Nearest(x) \cap 1 .. Holding(CEILING)) : v \in Rounded(x, 10)} :
                 x \in {y \in Currents : 10 <= y /\ y <= 10 * CurrentCeiling}}

MIN_DELAY_MINUTES == 1

(* A time within the permitted minutes from now, to the nearest minute *)
ScheduleRequests ==
  UNION {{Request(63, v, FALSE, {w \in Words : 60 * w - x \in -30 .. 30}) :
            v \in Rounded(x, 60) \cap MIN_DELAY_MINUTES .. PermittedRange(63)[2]} : x \in Delays}

ButtonRequests == {Request(63, 0, FALSE, {0}), Request(64, 1, FALSE, {1})}

(* Entities are available while the last poll or write succeeded. *)
Requests ==
  IF built = None \/ ~ok THEN {}
  ELSE SelectRequests \cup SwitchRequests \cup LightRequests \cup ThresholdRequests
       \cup CurrentRequests \cup ScheduleRequests \cup ButtonRequests

-------------------------------------------------------------------------------
(* Sensors *)

(* _adds_nothing_to *)
AddsNothing(name, parentName) ==
  parentName # <<>> /\ name # <<>> /\ ToSet(name) \subseteq ToSet(parentName)

ParentOf(s) ==
  LET found == {p \in ToSet(StatesOf[product]) : p.id = s.parent}
  IN IF found = {} THEN None ELSE CHOOSE p \in found : TRUE

IsLightMode(s) == ParentOf(s) # None /\ ParentOf(s).control = REG_LIGHT_CONTROL

(* One round of the loop of _catalog_descriptions in binary_sensor.py.     *)
Described(acc, s) ==
  IF s.bit = None \/ IsLightMode(s) \/ s.bit \in acc.seen THEN acc
  ELSE LET parent == ParentOf(s)
           name   == IF parent = None THEN s.name ELSE parent.name \o s.name
       IN [seen    |-> acc.seen \cup {s.bit},
           sensors |-> IF parent # None /\ AddsNothing(s.name, parent.name) THEN acc.sensors
                       ELSE Append(acc.sensors, [key |-> s.id, bit |-> s.bit, name |-> name])]

(* _number_duplicates: the number is the last word of a repeated name. *)
NumberDuplicates(sensors) ==
  LET Same(i) == {j \in DOMAIN sensors : sensors[j].name = sensors[i].name}
  IN [i \in DOMAIN sensors |->
        IF Same(i) = {i} THEN sensors[i]
        ELSE [sensors[i] EXCEPT !.name = Append(@, Numerals[Cardinality({j \in Same(i) : j <= i})])]]

FallbackSensors ==
  <<[key |-> "state_25", bit |-> 25, name |-> <<"usb", "output">>],
    [key |-> "state_26", bit |-> 26, name |-> <<"dc", "output">>],
    [key |-> "state_27", bit |-> 27, name |-> <<"ac", "output">>],
    [key |-> "state_28", bit |-> 28, name |-> <<"light">>]>>

(* The loop over all states, and the names numbered. *)
CatalogDescriptions ==
  LET states == StatesOf[product]
      round[i \in 0 .. Len(states)] ==
        IF i = 0 THEN [seen |-> {}, sensors |-> <<>>] ELSE Described(round[i - 1], states[i])
  IN round[Len(states)].sensors

StateSensors == IF CatalogDescriptions = <<>> THEN FallbackSensors
                                              ELSE NumberDuplicates(CatalogDescriptions)

IsOn(sensor) == sensor.bit \in StateWord(data.input)

Problem == ActiveFaults(data.input) # {}

(* _meaningful, of the AC output voltage *)
VoltageShown == 27 \in StateWord(data.input)

(* native_value of a firmware sensor: the low byte in tenths, the high one *)
FirmwareShown(raw) == [tenths |-> raw % 256, high |-> raw \div 256]

-------------------------------------------------------------------------------
(* Behaviour *)

NoCall == [how |-> "none", by |-> "nobody", reg |-> None, wanted |-> {}]
Called(how, by, reg, wanted) == [how |-> how, by |-> by, reg |-> reg, wanted |-> wanted]

Init ==
  /\ product \in Products
  /\ bank = [reg \in Registers |->
               CASE reg = CEILING -> 20 [] reg = PanelVersionRegister -> 29
                 [] reg \in {13, 20} -> 1 [] reg = 62 -> 180 [] reg = 68 -> 5
                 [] reg = REG_THRESHOLD_CHARGE -> 1000 [] OTHER -> 0]
  /\ lit = {} /\ faults = {}
  /\ data = None /\ ok = FALSE /\ built = None
  /\ last = NoCall /\ moves = 0

Move == moves < MaxMoves /\ moves' = moves + 1

PanelChanges ==
  /\ Move /\ last' = NoCall
  /\ \/ \E reg \in Registers : \E v \in Contents(reg) \ {bank[reg]} :
          bank' = [bank EXCEPT ![reg] = v] /\ UNCHANGED <<lit, faults>>
     \/ lit' \in LitSets \ {lit} /\ UNCHANGED <<bank, faults>>
     \/ faults' \in FaultSets \ {faults} /\ UNCHANGED <<bank, lit>>
  /\ UNCHANGED <<product, data, ok, built>>

(* A poll: the snapshot it publishes, or the failure the entities show. *)
Poll ==
  /\ built # None
  /\ \/ data' = Snapshot /\ ok' = TRUE
     \/ data' = data     /\ ok' = FALSE
  /\ last' = NoCall
  /\ UNCHANGED <<product, bank, lit, faults, built, moves>>

(* Slip: the platforms are set up whether the first refresh succeeds or not. *)
SetupRegardless ==
  /\ built' = [panel |-> None] /\ data' = None /\ ok' = FALSE
  /\ last' = NoCall
  /\ UNCHANGED <<product, bank, lit, faults, moves>>

(* Setup, and setup again on a reload: a new coordinator, a first refresh  *)
(* that succeeds, and the entities built from it.                          *)
Setup ==
  /\ data' = Snapshot /\ ok' = TRUE
  /\ built' = [panel |-> bank[PanelVersionRegister]]
  /\ last' = NoCall
  /\ UNCHANGED <<product, bank, lit, faults, moves>>

(* async_write_register: the library refuses, or the write lands and is    *)
(* read back, or it lands and only the read-back fails, or it is lost.  In *)
(* the last two the call raises, and a refresh is requested: a Poll.       *)
Write(r) ==
  LET start == r.reg
      after == [bank EXCEPT ![start] = r.value]
  IN IF ~WritesSafe(start, <<r.value>>, FALSE)
     THEN last' = Called("refused", "entity", start, r.wanted) /\ UNCHANGED <<bank, data, ok>>
     ELSE \/ /\ bank' = after
             /\ data' = [holding |-> after, input |-> Input] /\ ok' = TRUE
             /\ last' = Called("written", "entity", start, r.wanted)
          \/ /\ bank' \in {after, bank}
             /\ last' = Called("raised", "entity", start, r.wanted) /\ UNCHANGED <<data, ok>>

ServiceCall ==
  /\ Move
  /\ \E r \in Requests :
       IF r.lazy /\ Holding(r.reg) = r.value
       THEN last' = Called("skipped", "entity", r.reg, r.wanted) /\ UNCHANGED <<bank, data, ok>>
       ELSE Write(r)
  /\ UNCHANGED <<product, lit, faults, built>>

(* write_registers: the span is written whole or not at all. *)
WriteSpan(by, start, values) ==
  LET span  == start .. start + Len(values) - 1
      after == [reg \in Registers |-> IF reg \in span THEN values[reg - start + 1] ELSE bank[reg]]
  IN \/ /\ WritesSafe(start, values, by = "unsafe")
        /\ bank' = after /\ last' = Called("written", by, start, {})
     \/ /\ ~WritesSafe(start, values, by = "unsafe")
        /\ bank' = bank  /\ last' = Called("refused", by, start, {})

(* A user of the library writes, not through the integration. *)
LibraryWrite ==
  /\ Move
  /\ \E s \in Spans, by \in {"library", "unsafe"} : WriteSpan(by, s.start, s.values)
  /\ UNCHANGED <<product, lit, faults, data, ok, built>>

Next == PanelChanges \/ Poll \/ Setup \/ ServiceCall \/ LibraryWrite
Spec == Init /\ [][Next]_vars

-------------------------------------------------------------------------------
(* Properties *)

(* Entities exist only over a snapshot, and a coordinator without one has  *)
(* not succeeded.                                                          *)
TypeOK ==
  /\ product \in Products /\ moves \in 0 .. MaxMoves
  /\ bank \in [Registers -> Words]
  /\ lit \subseteq 0 .. 31 /\ faults \subseteq FaultGroups \X (0 .. 31)
  /\ built # None => data # None
  /\ ok => data # None
  /\ last.how \in {"none", "refused", "written", "skipped", "raised"}

(* No entity offers a choice whose write the library refuses. *)
NoControlIsRefused == last.by = "entity" => last.how # "refused"

(* A call that returned has put into the register what the user chose, in  *)
(* the station's own terms; one that was skipped found it there when the   *)
(* snapshot was read.                                                      *)
DoesWhatWasAsked ==
  /\ last.how = "written" /\ last.by = "entity" => bank[last.reg] \in last.wanted
  /\ last.how = "skipped" => Holding(last.reg) \in last.wanted

(* Without the unsafe flag no write of the entities or of a user of the    *)
(* library puts a register outside the allowlist, or a content outside     *)
(* its range, into the station, and a refused span changes nothing.        *)
WritesStayPermitted ==
  [][last'.by \in {"entity", "library"} =>
       \A reg \in Registers :
         bank'[reg] # bank[reg] =>
           last'.how # "refused" /\ reg \in Writable /\ InRange(reg, bank'[reg])]_vars

(* A select shows the option whose content the station holds, and nothing  *)
(* when it holds none of those offered.                                    *)
SelectsShowTheStation ==
  built # None /\ Current =>
    \A d \in Selects :
      LET standing == {o \in ToSet(GatedOptions(d.setting, product, built.panel)) :
                         Stores(d.setting, o) = bank[d.reg]}
      IN standing = (IF Shown(d) = None THEN {} ELSE {Shown(d)})

(* The state sensors show the bits the station reports, each bit once and  *)
(* under a name of its own.  A described product has one for the first     *)
(* port with each bit, a mode of the light being no port, and none if that *)
(* port only repeats its output's name.  A second port with the bit has    *)
(* none in either case: AC 30A of POWER-004E shares bit 18 with such a     *)
(* port, AC, which binary_sensor.py:85 takes for the output's only one.    *)
(* The problem sensor is on exactly when a named fault is reported, and    *)
(* the AC voltage is shown exactly while the AC output is on.              *)
SensorsTellTheTruth ==
  data # None /\ Current =>
    LET sensors == StateSensors
        states  == StatesOf[product]
        Port(s) == s.bit # None /\ ~IsLightMode(s)
        Dull(s) == ParentOf(s) # None /\ AddsNothing(s.name, ParentOf(s).name)
        firsts  == {i \in DOMAIN states :
                      /\ Port(states[i])
                      /\ \A j \in 1 .. i - 1 : Port(states[j]) => states[j].bit # states[i].bit}
    IN /\ \A i \in DOMAIN sensors : IsOn(sensors[i]) <=> sensors[i].bit \in lit
       /\ \A i, j \in DOMAIN sensors :
            i # j => /\ sensors[i].bit # sensors[j].bit
                     /\ sensors[i].key # sensors[j].key
                     /\ sensors[i].name # sensors[j].name
       /\ states # <<>> => {<<sensors[i].key, sensors[i].bit>> : i \in DOMAIN sensors}
                             = {<<states[i].id, states[i].bit>> : i \in {j \in firsts : ~Dull(states[j])}}
       /\ Problem <=> \E f \in faults : f[2] \in f[1].named
       /\ VoltageShown <=> 27 \in lit

(* The gate applies to the version the firmware sensor showed when the     *)
(* entities were built.  Then the AC no-load standby timer cannot be set   *)
(* to 0; without it every option of a permitted setting is offered.  No    *)
(* gate takes options above 0 from a setting that has two of them.  It     *)
(* does take the 0 of settings other than the timer, and with it a setting *)
(* that has one more option, as the DC input of POWER-0504: select.py:94   *)
(* passes every setting through what catalog.py:198 says of the timer.     *)
GateHonoured ==
  built # None =>
    LET version == FirmwareShown(built.panel).tenths
        gated   == \E g \in Gates : g.product = product /\ g.version = version
    IN \A s \in Settings :
         LET options   == ToSet(s.options)
             offered   == UNION {ToSet(d.choices) : d \in {x \in Selects : x.setting = s}}
             permitted == /\ s.reg \in Writable /\ ~s.packed
                          /\ \A o \in options : InRange(s.reg, Stores(s, o))
         IN /\ gated /\ s.reg = AC_STANDBY => 0 \notin offered
            /\ ~gated /\ Len(s.options) >= 2 /\ permitted => offered = options
            /\ permitted => \A o, p \in options : 0 < o /\ o < p => {o, p} \subseteq offered
===============================================================================
