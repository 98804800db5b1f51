---------------------------- MODULE ResponseBuffer ----------------------------
(***************************************************************************)
(* The reply accumulator of sydpower/protocol.py, class ResponseBuffer.    *)
(*                                                                         *)
(* A reply travels in one or two BLE notifications; a notification is a    *)
(* "chunk".  Bytes are abstracted to what feed() can tell apart: the       *)
(* function code it sees in the second byte, whether enough bytes are      *)
(* there, and whether the CRC holds.  What the abstraction cannot decide   *)
(* (the bytes a tail happens to show where a header is expected) is a set  *)
(* of outcomes, and the exchange picks one of them.                        *)
(*                                                                         *)
(* A definition commented "Slip" is not part of the model: it is a variant *)
(* of the definition after it with a plausible mistake, and the property   *)
(* meant to notice that mistake is violated when it takes its place.       *)
(***************************************************************************)
EXTENDS Naturals, Sequences

CONSTANTS Values,   \* contents of the register under study
          Garbled   \* stands for any payload the device never sent

ASSUME GarbledAssumption == Garbled \notin Values

ReadHolding   == 3
ReadInput     == 4
WriteRegister == 6
FunctionCodes == {ReadHolding, ReadInput, WriteRegister}
Foreign       == 0   \* any other second byte

(* A notification.  call identifies the request it answers and good says   *)
(* whether its bytes arrived as sent; feed() sees neither of the two.      *)
Chunk == [part : {"whole", "head", "tail", "exception"},
          fc   : FunctionCodes,
          val  : Values,
          good : BOOLEAN,
          call : Nat]

(* Slip: the function code is not looked at. *)
AnyCode(c) == FunctionCodes

(* The function codes feed() may see when the chunk starts the buffer:     *)
(* bit 7 is masked, so an exception reply shows its request's code; the    *)
(* continuation of a reply, or a damaged chunk, may show any byte.         *)
LeadingCode(c) ==
  IF c.part = "tail" \/ ~c.good THEN FunctionCodes \cup {Foreign} ELSE {c.fc}

(* Can the bytes reach the expected total?  A whole reply or a head and    *)
(* its sequel do, a lone head or a five-byte exception does not; a buffer  *)
(* that begins with anything else has an arbitrary length field.           *)
LongEnough(raw) ==
  CASE Len(raw) = 1 /\ raw[1].part = "whole" /\ raw[1].good        -> {TRUE}
    [] Len(raw) = 1 /\ raw[1].part = "head" /\ raw[1].good         -> {FALSE}
    [] Len(raw) = 1 /\ raw[1].part = "exception"                   -> {FALSE}
    [] Len(raw) = 2 /\ raw[1].part = "head" /\ raw[1].good
                    /\ raw[2].part \in {"whole", "tail"}           -> {TRUE}
    [] OTHER                                                       -> BOOLEAN

(* Two chunks are one frame on the wire when their bytes are: every call   *)
(* reads the whole bank, so replies of one code and content are identical. *)
SameFrame(head, tail) ==
  /\ head.part = "head" /\ tail.part = "tail"
  /\ head.fc = tail.fc  /\ head.val = tail.val

(* Slip: a frame of the expected length is taken without its CRC. *)
LengthAlone(raw) == TRUE

(* crc16_modbus over the accumulated bytes matches the trailing two bytes  *)
(* exactly for an undamaged frame.                                         *)
CRCHolds(raw) ==
  /\ \A i \in 1..Len(raw) : raw[i].good
  /\ \/ Len(raw) = 1 /\ raw[1].part = "whole"
     \/ Len(raw) = 2 /\ SameFrame(raw[1], raw[2])

(* Slip: a reply of another function code is passed over but not cleared. *)
PassOver(expected, raw, c) ==
  IF raw # <<>> \/ LeadingCode(c) = {expected}
  THEN {[raw |-> Append(raw, c), future |-> IF CRCHolds(Append(raw, c)) THEN "result" ELSE "error"]}
  ELSE {[raw |-> <<c>>, future |-> "pending"]}

(* What feed() does with one more chunk: it discards the buffer when the   *)
(* leading code is not the expected one, waits, raises CRCError, or        *)
(* completes.  A buffer that is not empty has passed the code check.       *)
FeedOutcomes(expected, raw, c) ==
  LET longer == Append(raw, c)
      leads  == IF raw = <<>> THEN LeadingCode(c) ELSE {expected}
      discard == IF \E fc \in leads : fc # expected
                 THEN {[raw |-> <<>>, future |-> "pending"]} ELSE {}
      accept == IF expected \in leads
                THEN {[raw |-> longer,
                       future |-> IF ~enough THEN "pending"
                                  ELSE IF CRCHolds(longer) THEN "result"
                                  ELSE "error"] : enough \in LongEnough(longer)}
                ELSE {}
  IN discard \cup accept

(* The registers result() decodes from a completed buffer.                 *)
Decoded(raw) ==
  IF \A i \in 1..Len(raw) : raw[i].good /\ raw[i].val = raw[1].val
  THEN raw[1].val ELSE Garbled
===============================================================================
