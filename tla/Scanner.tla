-------------------------------- MODULE Scanner --------------------------------
(***************************************************************************)
(* What sydpower/scanner.py, the catalog and the config flow of the        *)
(* integration make of a Bluetooth advertisement.                          *)
(*                                                                         *)
(* The stations and what they broadcast are external.  A byte is a number; *)
(* an address, a name and a service UUID are abstract, so the letter case  *)
(* the code evens out is left out.                                         *)
(***************************************************************************)
EXTENDS Integers, SequencesExt

CONSTANTS
  Stations,   \* devices in reach: [address, name, ours, uuid, prefixed, id, status, serial]
  Known,      \* products of the catalog: a set of [key, params]
  None        \* Python's None

LegacyPrefix == 153   \* 0x99
SerialLength == 16
Byte         == 0 .. 255
Defaults     == [modbus_address |-> 18, modbus_count |-> 85, protocol_version |-> 1]

ScannerAssumption ==
  /\ \A s, t \in Stations : s.address = t.address => s = t
  /\ \A k, l \in Known : k.key = l.key => k = l
  /\ \A s \in Stations :
       /\ s.id \in Seq(Byte) /\ Len(s.id) = 6 /\ s.status \in Byte
       /\ s.serial # None => s.serial \in Seq(Byte) /\ Len(s.serial) = SerialLength
       /\ s.ours \in BOOLEAN /\ s.prefixed \in BOOLEAN /\ None \notin {s.address, s.name, s.uuid}
  /\ None \notin Int \cup Seq(Byte)
ASSUME ScannerAssumption

-------------------------------------------------------------------------------
(* Advertisements *)

(* The payload a station broadcasts. *)
Broadcast(s) ==
  (IF s.prefixed THEN <<LegacyPrefix>> ELSE <<>>) \o s.id \o <<s.status>>
    \o (IF s.serial = None THEN <<>> ELSE s.serial)

(* Its advertisement: the name or the UUID may be missing, and the payload *)
(* comes as service data or, its first two bytes taken for a company's     *)
(* identifier, as manufacturer data.                                       *)
Advertisement(s, rssi, named, identified, carrier) ==
  LET bytes == Broadcast(s)
  IN [address |-> s.address, rssi |-> rssi,
      name    |-> IF named THEN s.name ELSE None,
      ours    |-> named /\ s.ours,
      uuid    |-> IF identified THEN s.uuid ELSE None,
      service |-> IF carrier = "service" THEN bytes ELSE None,
      company |-> IF carrier = "manufacturer" THEN bytes[1] + 256 * bytes[2] ELSE None,
      rest    |-> IF carrier = "manufacturer" THEN SubSeq(bytes, 3, Len(bytes)) ELSE <<>>]

StationOf(adv) == CHOOSE s \in Stations : s.address = adv.address

-------------------------------------------------------------------------------
(* Parameters *)

(* get_device_params *)
DeviceParams(key) ==
  LET found == {k \in Known : k.key = key}
  IN IF found = {} THEN None ELSE (CHOOSE k \in found : TRUE).params

OrDefaults(params) == IF params = None THEN Defaults ELSE params

(* Slip: the catalog is asked for the name alone. *)
ParamsByName(info) == OrDefaults(DeviceParams(<<info.name>>))

(* _params_from_service_info: without a UUID there is no product to look up. *)
ParamsFromServiceInfo(info) ==
  IF info.uuid = None THEN Defaults ELSE OrDefaults(DeviceParams(<<info.uuid, info.name>>))

-------------------------------------------------------------------------------
(* Parsing *)

(* Slip: the bytes taken for a company are not put back. *)
RestAlone(adv) == IF adv.service # None THEN adv.service ELSE adv.rest

(* The payload: service data, or else manufacturer data put together again *)
Payload(adv) ==
  IF adv.service # None THEN adv.service
  ELSE IF adv.company # None THEN <<adv.company % 256, adv.company \div 256>> \o adv.rest
       ELSE <<>>

(* _parse_advertisement *)
Parsed(adv) ==
  IF ~adv.ours \/ adv.uuid = None THEN None
  ELSE LET params == OrDefaults(DeviceParams(<<adv.uuid, adv.name>>))
           bytes  == Payload(adv)
           offset == IF params.protocol_version = 0 /\ bytes # <<>> /\ bytes[1] = LegacyPrefix
                     THEN 1 ELSE 0
       IN [address     |-> adv.address,
           params      |-> params,
           advertis    |-> IF Len(bytes) >= offset + 6 THEN SubSeq(bytes, offset + 1, offset + 6)
                           ELSE <<>>,
           init_status |-> IF Len(bytes) >= offset + 7 THEN bytes[offset + 7] ELSE 0,
           serial_no   |-> IF Len(bytes) = offset + 7 + SerialLength
                           THEN SubSeq(bytes, offset + 8, Len(bytes)) ELSE None]

(* adv.rssi or -100: no signal strength, and 0 dBm too, is the weakest *)
Strength(adv) == IF adv.rssi \in {0, None} THEN -100 ELSE adv.rssi
===============================================================================
