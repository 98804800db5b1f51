------------------------------ MODULE CommandLine ------------------------------
(***************************************************************************)
(* The command line, sydpower/cli.py: the scan (scanner.py) that chooses a *)
(* station, and the dump that reads its banks once, or again and again,    *)
(* printing what changed.  A register access is one step and may fail;     *)
(* BleExchange is about what happens inside it.                            *)
(***************************************************************************)
EXTENDS Scanner, FiniteSets

CONSTANTS
  Heard,      \* advertisements the scan may receive
  MaxHeard,   \* bound: how many of them
  MaxChanges, \* bound: changes of the station's registers
  Values,     \* contents of a register
  Unknown     \* what the screen says of a register it has not shown

Banks == <<"holding", "input">>

CommandLineAssumption ==
  /\ None \notin Seq(Values \cup {0})
  /\ \A adv \in Heard :
       /\ adv.rssi \in Int \cup {None}
       /\ \E s \in Stations, named, identified \in BOOLEAN,
            carrier \in {"service", "manufacturer", "none"} :
            adv = Advertisement(s, adv.rssi, named, identified, carrier)
ASSUME CommandLineAssumption

VARIABLES
  phase,      \* scan, read, print, ended
  heard,      \* history: advertisements received
  results,    \* results: the kept ones, in the order of their addresses' arrival
  banks,      \* the banks asked for (--bank)
  station,    \* the registers of the station, per bank
  changes,    \* history: how often they have changed
  snapshot,   \* the banks printed last, None before
  current,    \* the banks read in this round
  screen      \* what the printed lines add up to, per bank
cliVars == <<phase, heard, results, banks, station, changes, snapshot, current, screen>>

Nothing == [b \in ToSet(Banks) |-> None]

CliInit ==
  /\ phase = "scan" /\ heard = {} /\ results = <<>>
  /\ banks \in {{"holding"}, {"input"}, ToSet(Banks)}
  /\ station = [b \in ToSet(Banks) |-> <<0, 0>>] /\ changes = 0
  /\ snapshot = Nothing /\ current = Nothing /\ screen = Nothing

-------------------------------------------------------------------------------
(* The scan *)

Entry(adv) == [device |-> Parsed(adv), rssi |-> Strength(adv)]

(* Slip: the one heard last is kept. *)
KeepLatest(kept, adv) ==
  IF \E i \in DOMAIN kept : kept[i].device.address = adv.address
  THEN [i \in DOMAIN kept |-> IF kept[i].device.address = adv.address THEN Entry(adv) ELSE kept[i]]
  ELSE Append(kept, Entry(adv))

(* The callback's results: the best of each address, an address in the     *)
(* place it was first heard in.                                            *)
Keep(kept, adv) ==
  IF \E i \in DOMAIN kept : kept[i].device.address = adv.address
  THEN [i \in DOMAIN kept |->
          IF kept[i].device.address = adv.address /\ Strength(adv) > kept[i].rssi
          THEN Entry(adv) ELSE kept[i]]
  ELSE Append(kept, Entry(adv))

Hear ==
  /\ phase = "scan" /\ Cardinality(heard) < MaxHeard
  /\ \E adv \in Heard \ heard :
       /\ heard' = heard \cup {adv}
       /\ results' = IF Parsed(adv) = None THEN results ELSE Keep(results, adv)
  /\ UNCHANGED <<phase, banks, station, changes, snapshot, current, screen>>

Before(i, j) == \/ results[i].rssi > results[j].rssi
                \/ results[i].rssi = results[j].rssi /\ i < j

Place(i) == Cardinality({j \in DOMAIN results : j = i \/ Before(j, i)})

(* What scan returns: strongest first, ties in the order of arrival *)
Listed == [p \in DOMAIN results |->
             results[CHOOSE i \in DOMAIN results : Place(i) = p].device]

(* resolve_device: the one with the address asked for, or the first *)
Resolved(address) ==
  LET matches == {i \in DOMAIN Listed : address \in {None, Listed[i].address}}
  IN IF matches = {} THEN None ELSE Listed[Min(matches)]

(* The scan is over, and its results are gone with it. *)
Resolve ==
  /\ phase = "scan"
  /\ \E address \in {None} \cup {s.address : s \in Stations} :
       phase' = IF Resolved(address) = None THEN "ended" ELSE "read"
  /\ heard' = {} /\ results' = <<>>
  /\ UNCHANGED <<banks, station, changes, snapshot, current, screen>>

-------------------------------------------------------------------------------
(* The dump *)

(* The station's registers change, or how many it answers with. *)
StationChanges ==
  /\ phase \in {"read", "print"} /\ changes < MaxChanges /\ changes' = changes + 1
  /\ \E b \in banks :
       \/ \E i \in DOMAIN station[b], v \in Values : station' = [station EXCEPT ![b][i] = v]
       \/ station' = [station EXCEPT ![b] = IF Len(@) = 1 THEN Append(@, 0) ELSE <<Head(@)>>]
  /\ UNCHANGED <<phase, heard, results, banks, snapshot, current, screen>>

(* read_banks: holding, then input *)
ReadBank ==
  /\ phase = "read"
  /\ \E b \in banks :
       /\ current[b] = None
       /\ b = "holding" \/ "holding" \notin banks \/ current["holding"] # None
       /\ current' = [current EXCEPT ![b] = station[b]]
       /\ phase' = IF \E c \in banks \ {b} : current[c] = None THEN "read" ELSE "print"
  /\ UNCHANGED <<heard, results, banks, station, changes, snapshot, screen>>

(* print_changes: the new count alone, or the registers that differ *)
ChangesShown(shown, before, after) ==
  IF Len(before) # Len(after) THEN [i \in DOMAIN after |-> Unknown]
  ELSE [i \in DOMAIN shown |-> IF before[i] # after[i] THEN after[i] ELSE shown[i]]

(* Slip: every round is compared with the first. *)
KeepFirst(before, after) == IF before = Nothing THEN after ELSE before

(* snapshot = current *)
TakeOver(before, after) == after

(* print_bank in the first round, print_changes in the others *)
Show ==
  /\ phase = "print"
  /\ screen' = [b \in ToSet(Banks) |->
       IF b \notin banks \/ snapshot[b] = None THEN current[b]
       ELSE ChangesShown(screen[b], snapshot[b], current[b])]
  /\ snapshot' = TakeOver(snapshot, current) /\ current' = Nothing
  /\ phase' \in {"read", "ended"}   \* --watch or not
  /\ UNCHANGED <<heard, results, banks, station, changes>>

(* A connection or an access fails, or the user stops the program. *)
Stop ==
  /\ phase = "read" /\ phase' = "ended"
  /\ UNCHANGED <<heard, results, banks, station, changes, snapshot, current, screen>>

RunAgain ==
  /\ phase = "ended" /\ phase' = "scan"
  /\ snapshot' = Nothing /\ current' = Nothing /\ screen' = Nothing
  /\ banks' \in {{"holding"}, {"input"}, ToSet(Banks)}
  /\ UNCHANGED <<heard, results, station, changes>>

CliNext == Hear \/ Resolve \/ StationChanges \/ ReadBank \/ Show \/ Stop \/ RunAgain

-------------------------------------------------------------------------------
(* Properties *)

Parseable == {adv \in heard : Parsed(adv) # None}

(* Of each station the scan lists the strongest advertisement it received, *)
(* once, the strongest station first, and a dump of no particular station  *)
(* is one of the strongest; 0 dBm, no signal being that strong, counts as  *)
(* the weakest.                                                            *)
StrongestIsKept ==
  /\ {d.address : d \in ToSet(Listed)} = {adv.address : adv \in Parseable}
  /\ \A i, j \in DOMAIN Listed : i # j => Listed[i].address # Listed[j].address
  /\ \A i \in DOMAIN Listed :
       \E adv \in Parseable :
         /\ Parsed(adv) = Listed[i]
         /\ \A other \in Parseable :
              other.address \notin {Listed[k].address : k \in 1 .. i - 1}
                => Strength(other) <= Strength(adv)
  /\ \A s \in Stations : LET r == Resolved(s.address) IN r # None => r.address = s.address

(* Identifier, status and serial number are the station's, whichever way   *)
(* its payload came, unless the identifier of a legacy station starts with *)
(* the prefix it leaves out, or the catalog does not know it for one.      *)
IdentityIsRead ==
  \A adv \in Parseable :
    LET d == Parsed(adv)
        s == StationOf(adv)
        legacy == d.params.protocol_version = 0
    IN (adv.service # None \/ adv.company # None)
         /\ (s.prefixed => legacy) /\ ~(legacy /\ ~s.prefixed /\ s.id[1] = LegacyPrefix)
       => d.advertis = s.id /\ d.init_status = s.status /\ d.serial_no = s.serial

(* Whoever reads the output of a dump knows every register printed last,   *)
(* except those of a bank whose length has changed since it was printed    *)
(* whole, and never believes a content the bank did not have.              *)
WatchTellsEverything ==
  \A b \in banks :
    snapshot[b] # None =>
      /\ Len(screen[b]) = Len(snapshot[b])
      /\ \A i \in DOMAIN snapshot[b] : screen[b][i] \in {snapshot[b][i], Unknown}
===============================================================================
