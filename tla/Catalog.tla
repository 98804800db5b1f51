-------------------------------- MODULE Catalog --------------------------------
(***************************************************************************)
(* The product catalog (sydpower/catalog.py), the encodings of settings    *)
(* and the write allowlist (sydpower/constants.py), and the check of a     *)
(* write against it (sydpower/device.py).  Nothing here has a state.       *)
(*                                                                         *)
(* A register that the code takes apart into bits is the set of the bits   *)
(* that are set, so | is union and << 16 adds 16 to each member.  A name   *)
(* is the sequence of its words in lower case, and an option of a setting  *)
(* its number: the label the user picks is the number with its unit.       *)
(*                                                                         *)
(* A definition commented "Slip" is a variant of the one after it with a   *)
(* plausible mistake, and not part of the model.                           *)
(***************************************************************************)
EXTENDS Integers, SequencesExt

CONSTANTS
  Products,     \* products of the catalog
  SettingsOf,   \* their settings:  [reg, options, packed]
  StatesOf,     \* their states:    [id, bit, parent, control, name]
  Gates,        \* firmware gates:  [product, version], the version in tenths
  FaultGroups,  \* fault groups:    [registers, named]
  Numerals,     \* the words for 1, 2, 3 ...
  None          \* Python's None

NameWords == UNION {UNION {ToSet(s.name) : s \in ToSet(StatesOf[p])} : p \in Products}

(* What every product of protocol 0 and every fault group of the catalog   *)
(* has: options that differ, states with identifiers of their own of which *)
(* the first is an output, names without numerals, and registers of its    *)
(* own for every group.                                                    *)
CatalogAssumption ==
  /\ None \notin Int
  /\ \A p \in Products :
       LET states == StatesOf[p]
       IN /\ \A s \in ToSet(SettingsOf[p]) : s.options \in Seq(Int) /\ IsInjective(s.options)
          /\ states \in Seq(ToSet(states))
          /\ \A i, j \in DOMAIN states : i # j => states[i].id # states[j].id
          /\ \A i \in DOMAIN states : states[i].id # None
          /\ states # <<>> => states[1].bit # None /\ states[1].parent = None
          /\ Len(states) <= Len(Numerals)
          /\ \A i \in DOMAIN states : states[i].name \in Seq(NameWords) /\ states[i].name # <<>>
  /\ Numerals \in Seq(ToSet(Numerals)) /\ IsInjective(Numerals) /\ ToSet(Numerals) \cap NameWords = {}
  /\ \A g \in FaultGroups :
       /\ Len(g.registers) \in {1, 2} /\ g.registers \in Seq(Nat \ {41, 42}) /\ IsInjective(g.registers)
       /\ \A h \in FaultGroups \ {g} : ToSet(g.registers) \cap ToSet(h.registers) = {}
ASSUME CatalogAssumption

-------------------------------------------------------------------------------
(* Settings *)

PanelVersionRegister == 50

(* Slip: the whole register is compared with the version. *)
GateOfTheRegister(product, panel) ==
  panel # None /\ \E g \in Gates : g.product = product /\ g.version = panel

(* Does a gate apply?  The panel's version is the low byte, in tenths. *)
Gated(product, panel) ==
  panel # None /\ \E g \in Gates : g.product = product /\ g.version = panel % 256

(* The options a rule leaves: those above 0. *)
Positive(options) ==
  LET kept[i \in 0 .. Len(options)] ==
        IF i = 0 THEN <<>>
        ELSE IF options[i] > 0 THEN Append(kept[i - 1], options[i]) ELSE kept[i - 1]
  IN kept[Len(options)]

(* gated_setting_options *)
GatedOptions(setting, product, panel) ==
  IF Gated(product, panel) THEN Positive(setting.options) ELSE setting.options

(* SETTING_ENCODINGS, setting_encoding *)
SettingEncoding(reg) ==
  CASE reg = 13             -> "index1"
    [] reg \in {60, 61, 62} -> "x60"
    [] OTHER                -> "raw"

-------------------------------------------------------------------------------
(* The words assembled from input registers *)

Combined(low, high) == low \cup {bit + 16 : bit \in high}

(* Slip: the halves in the order fault_value takes them. *)
SwappedWord(input) == Combined(input[41], input[42])

(* state_word, over STATE_WORD_REGISTERS *)
StateWord(input) == Combined(input[42], input[41])

(* fault_value, of one or two registers *)
FaultValue(registers, input) ==
  IF Len(registers) = 1 THEN input[registers[1]]
                        ELSE Combined(input[registers[2]], input[registers[1]])

(* active_faults: a bit without a message does not count. *)
ActiveFaults(input) ==
  {f \in FaultGroups \X (0 .. 31) :
     f[2] \in f[1].named /\ f[2] \in FaultValue(f[1].registers, input)}

(* get_output_children: the children of the first output that reg controls *)
OutputChildren(product, reg) ==
  LET states   == StatesOf[product]
      parent   == SelectInSeq(states, LAMBDA s : s.control = reg /\ s.parent = None)
      children == {s \in ToSet(states) : parent # 0 /\ s.parent = states[parent].id /\ s.bit # None}
  IN SetToSortSeq({[value |-> s.bit, name |-> s.name] : s \in children},
                  LAMBDA a, b : a.value < b.value)

-------------------------------------------------------------------------------
(* The write allowlist *)

(* WRITABLE_HOLDING_REGISTERS: the lowest and the highest value permitted. *)
PermittedRange(reg) ==
  CASE reg = 13                        -> <<1, 5>>
    [] reg \in {15, 24, 25, 26, 56, 57} -> <<0, 1>>
    [] reg = 20                        -> <<1, 100>>
    [] reg = 27                        -> <<0, 3>>
    [] reg = 59                        -> <<0, 30>>
    [] reg \in {60, 61, 63}            -> <<0, 1440>>
    [] reg = 62                        -> <<180, 1800>>
    [] reg = 64                        -> <<1, 1>>
    [] reg = 66                        -> <<0, 500>>
    [] reg = 67                        -> <<100, 1000>>
    [] reg = 68                        -> <<5, 480>>

Writable == {13, 15, 20, 24, 25, 26, 27, 56, 57, 59, 60, 61, 62, 63, 64, 66, 67, 68}

InRange(reg, value) == value \in PermittedRange(reg)[1] .. PermittedRange(reg)[2]

(* Slip: only the register a span starts at is looked up. *)
StartSafe(start, values, unsafe) ==
  values # <<>> /\ (unsafe \/ (start \in Writable /\ InRange(start, values[1])))

(* _check_writes_safe: every register of the span, or nothing is sent. *)
WritesSafe(start, values, unsafe) ==
  /\ values # <<>>
  /\ \/ unsafe
     \/ \A i \in 1 .. Len(values) :
          start + i - 1 \in Writable /\ InRange(start + i - 1, values[i])
===============================================================================
