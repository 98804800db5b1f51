------------------------------ MODULE BleExchange ------------------------------
(***************************************************************************)
(* One sydpower.SydpowerDevice talking to one power station:               *)
(* sydpower/device.py over the reply accumulator of sydpower/protocol.py.  *)
(*                                                                         *)
(* The library connects, sends one Modbus request at a time, arms a        *)
(* ResponseBuffer and a future, and waits for the notification callback    *)
(* to complete them or for a timeout, after which the request is sent      *)
(* again.  The station is external: it works through what it was sent in   *)
(* order, answers in one or two notifications or not at all, and what it   *)
(* has queued may be delivered after a reconnection.                       *)
(***************************************************************************)
EXTENDS ResponseBuffer

CONSTANTS MaxRetries,  \* MAX_COMMAND_RETRIES, the sends one call may make
          MaxCalls,    \* bound: calls made over the whole behaviour
          MaxQueue,    \* bound: notifications the station holds back
          Disturbances \* what replies may suffer: members of Kinds

Kinds == {"damage", "split", "exception", "loss"}

ASSUME ExchangeAssumption == /\ MaxRetries \in Nat \ {0}
                             /\ MaxCalls \in Nat /\ MaxQueue \in Nat
                             /\ Disturbances \subseteq Kinds

VARIABLES
  reg,      \* the station: the register's content
  inbox,    \* the station: requests received and not yet worked on
  outbox,   \* the station: notifications queued and not yet delivered
  link,     \* BleakClient.is_connected
  client,   \* is SydpowerDevice._client set?
  pc,       \* where the task is suspended: the await it is in, or "idle"
  request,  \* the packet of the current call
  attempt,  \* the loop variable of _send
  active,   \* is SydpowerDevice._active_buffer set?
  raw,      \* ResponseBuffer._raw
  future,   \* SydpowerDevice._response_future
  outcome,  \* how the last connect or register access ended
  call,     \* history: number of the current or last call
  sends,    \* history: requests this call has handed to the stack
  clean,    \* history: was nothing outstanding when this call began?
  rough,    \* history: was this attempt notified of anything but whole replies?
  held      \* history: contents the register had since this call began

device  == <<reg, inbox, outbox, held>>
session == <<link, client>>
buffer  == <<active, raw, future, rough>>
ghosts  == <<call, sends, clean>>
vars    == <<device, session, pc, request, attempt, buffer, outcome, ghosts>>

(* A read request carries no value. *)
Requests      == [fc : {ReadHolding, ReadInput}, val : {Garbled}, call : Nat]
                 \cup [fc : {WriteRegister}, val : Values, call : Nat]
OutcomeKinds  == {"none", "connected", "connection", "gatt", "cancelled", "crc", "timeout",
                  "ok"}
Outcomes      == [kind : OutcomeKinds, fc : FunctionCodes \cup {Foreign},
                  val : Values \cup {Garbled}, answers : Nat]
Outcome(kind) == [kind |-> kind, fc |-> Foreign, val |-> Garbled, answers |-> 0]
NoOutcome     == Outcome("none")
InCall        == pc \in {"sending", "waiting"}
IsConnected   == client /\ link

Init ==
  /\ reg \in Values /\ inbox = <<>> /\ outbox = <<>> /\ held = {reg}
  /\ link = FALSE /\ client = FALSE /\ pc = "idle"
  /\ request = [fc |-> ReadHolding, val |-> Garbled, call |-> 0] /\ attempt = 0
  /\ active = FALSE /\ raw = <<>> /\ future = "none" /\ rough = FALSE
  /\ outcome = NoOutcome
  /\ call = 0 /\ sends = 0 /\ clean = TRUE

-------------------------------------------------------------------------------
(* Connecting and disconnecting *)

(* connect(): await the client factory or BleakClient.connect(). *)
Connect ==
  /\ pc = "idle" /\ ~client
  /\ pc' = "connecting" /\ outcome' = NoOutcome
  /\ UNCHANGED <<device, session, request, attempt, buffer, ghosts>>

(* The link comes up, the MTU settles, and start_notify is awaited. *)
LinkUp ==
  /\ pc = "connecting"
  /\ link' = TRUE /\ pc' = "subscribing"
  /\ UNCHANGED <<device, client, request, attempt, buffer, outcome, ghosts>>

ConnectFails ==
  /\ pc = "connecting"
  /\ pc' = "idle" /\ outcome' = Outcome("connection")
  /\ UNCHANGED <<device, session, request, attempt, buffer, ghosts>>

(* start_notify succeeded: only now is _client set. *)
Subscribed ==
  /\ pc = "subscribing" /\ link
  /\ client' = TRUE /\ pc' = "idle" /\ outcome' = Outcome("connected")
  /\ UNCHANGED <<device, link, request, attempt, buffer, ghosts>>

(* start_notify failed: the half-open link is closed again. *)
SubscribeFails ==
  /\ pc = "subscribing"
  /\ link' = FALSE /\ pc' = "idle" /\ outcome' = Outcome("connection")
  /\ UNCHANGED <<device, client, request, attempt, buffer, ghosts>>

(* connect() is cancelled: no except clause catches that, and a link that  *)
(* is up already stays up, with nobody to close it.                        *)
ConnectCancelled ==
  /\ pc \in {"connecting", "subscribing"}
  /\ pc' = "idle" /\ outcome' = Outcome("cancelled")
  /\ UNCHANGED <<device, session, request, attempt, buffer, ghosts>>

(* When a link goes down the station keeps what it has queued, or not. *)
QueueSurvivesOrNot == outbox' \in {outbox, <<>>} /\ UNCHANGED <<reg, inbox, held>>

(* disconnect(): whatever stop_notify and disconnect say, _client is None. *)
Disconnect ==
  /\ pc = "idle" /\ client
  /\ client' = FALSE /\ link' = FALSE /\ QueueSurvivesOrNot
  /\ UNCHANGED <<pc, request, attempt, buffer, outcome, ghosts>>

(* The station or the radio drops the link; nothing tells SydpowerDevice. *)
LinkDrops ==
  /\ link
  /\ link' = FALSE /\ QueueSurvivesOrNot
  /\ UNCHANGED <<client, pc, request, attempt, buffer, outcome, ghosts>>

-------------------------------------------------------------------------------
(* One register access *)

(* Slip: a buffer that is still armed is used again. *)
ArmOnce     == active' = TRUE /\ IF active THEN UNCHANGED <<raw, future, rough>>
                                 ELSE raw' = <<>> /\ future' = "pending" /\ rough' = FALSE

ArmBuffer   == active' = TRUE /\ raw' = <<>> /\ future' = "pending" /\ rough' = FALSE
ClearBuffer == active' = FALSE /\ raw' = <<>> /\ future' = "none" /\ UNCHANGED rough

(* read_holding_registers, read_input_registers, write_registers: _send    *)
(* up to the await of write_gatt_char, or the refusal when not connected,  *)
(* of which nothing remains.                                               *)
Call(fc, val) ==
  /\ pc = "idle" /\ call < MaxCalls
  /\ call' = call + 1 /\ sends' = 0 /\ held' = {reg}
  /\ clean' = (inbox = <<>> /\ outbox = <<>>)
  /\ IF IsConnected
     THEN /\ request' = [fc |-> fc, val |-> val, call |-> call + 1]
          /\ pc' = "sending" /\ attempt' = 1 /\ ArmBuffer /\ outcome' = NoOutcome
     ELSE /\ outcome' = Outcome("connection")
          /\ UNCHANGED <<pc, request, attempt, buffer>>
  /\ UNCHANGED <<reg, inbox, outbox, session>>

(* write_gatt_char returns: the station has the request. *)
Sent ==
  /\ pc = "sending" /\ link
  /\ inbox' = Append(inbox, request) /\ sends' = sends + 1 /\ pc' = "waiting"
  /\ UNCHANGED <<reg, outbox, held, session, request, attempt, buffer, outcome,
                 call, clean>>

(* write_gatt_char raises, or the task is cancelled in it.  The request    *)
(* may have reached the station.  This await is outside the try block, so  *)
(* the buffer and the future stay where they are.                          *)
SendFails ==
  /\ pc = "sending"
  /\ inbox' \in {inbox} \cup (IF link THEN {Append(inbox, request)} ELSE {})
  /\ sends' = sends + 1 /\ pc' = "idle"
  /\ \E kind \in {"gatt", "cancelled"} : outcome' = Outcome(kind)
  /\ UNCHANGED <<reg, outbox, held, session, request, attempt, buffer, call, clean>>

(* wait_for returns or raises what the notification callback put in the    *)
(* future; the finally clause clears buffer and future.                    *)
Finish ==
  /\ pc = "waiting" /\ future \in {"result", "error"}
  /\ pc' = "idle" /\ ClearBuffer
  /\ outcome' = IF future = "result"
                THEN [kind |-> "ok", fc |-> raw[1].fc, val |-> Decoded(raw),
                      answers |-> raw[1].call]
                ELSE Outcome("crc")
  /\ UNCHANGED <<device, session, request, attempt, ghosts>>

(* The loop of _send after a timeout: the next attempt starts from a new   *)
(* buffer, or the call gives up.                                           *)
RetryUnless(last) ==
  /\ IF last THEN /\ pc' = "idle" /\ outcome' = Outcome("timeout") /\ ClearBuffer
                  /\ UNCHANGED attempt
             ELSE /\ pc' = "sending" /\ attempt' = attempt + 1 /\ ArmBuffer
                  /\ UNCHANGED outcome
  /\ UNCHANGED <<device, session, request, ghosts>>

(* Slip: the loop runs once too often, or once too few. *)
OneAttemptTooMany == pc = "waiting" /\ RetryUnless(attempt > MaxRetries)
OneAttemptTooFew  == pc = "waiting" /\ RetryUnless(attempt + 1 >= MaxRetries)

(* Slip: a dropped link is left to end the wait by itself. *)
TimesOutWhileLinked == pc = "waiting" /\ link /\ RetryUnless(attempt = MaxRetries)

(* COMMAND_TIMEOUT passes, perhaps just after the reply completed. *)
TimesOut == pc = "waiting" /\ RetryUnless(attempt = MaxRetries)

(* Slip: the cancellation is swallowed, and the caller is told nothing. *)
CancelSwallowed ==
  /\ pc = "waiting"
  /\ pc' = "idle" /\ ClearBuffer
  /\ UNCHANGED <<device, session, request, attempt, outcome, ghosts>>

(* The task awaiting the reply is cancelled: the finally clause still runs. *)
Cancelled ==
  /\ pc = "waiting"
  /\ pc' = "idle" /\ outcome' = Outcome("cancelled") /\ ClearBuffer
  /\ UNCHANGED <<device, session, request, attempt, ghosts>>

(* _on_notification: ignored without a buffer; otherwise fed to it, and    *)
(* the future, unless it is done, takes what feed() reports.  Feeding a    *)
(* buffer whose future is done changes nothing that is read again.         *)
Notified ==
  /\ IsConnected /\ outbox # <<>>
  /\ outbox' = Tail(outbox)
  /\ IF active /\ future = "pending"
     THEN LET c == Head(outbox) IN
          /\ \E o \in FeedOutcomes(request.fc, raw, c) : raw' = o.raw /\ future' = o.future
          /\ rough' = (rough \/ c.part # "whole" \/ ~c.good)
     ELSE UNCHANGED <<raw, future, rough>>
  /\ UNCHANGED <<reg, inbox, held, session, pc, request, attempt, active, outcome,
                 ghosts>>

-------------------------------------------------------------------------------
(* The station and the radio (external) *)

Part(part, fc, val, good) ==
  [part |-> part, fc |-> fc, val |-> val, good |-> good, call |-> Head(inbox).call]

(* A reply as notifications: a write echo fits in one, a bank may take two. *)
Replies(fc, val) ==
  LET soundness == IF "damage" \in Disturbances THEN BOOLEAN ELSE {TRUE}
  IN {<<Part("whole", fc, val, good)>> : good \in soundness}
     \cup (IF fc # WriteRegister /\ "split" \in Disturbances
           THEN {<<Part("head", fc, val, good[1]), Part("tail", fc, val, good[2])>>
                   : good \in soundness \X soundness}
           ELSE {})

(* The station works on the oldest request and queues its reply. *)
StationAnswers ==
  /\ inbox # <<>>
  /\ LET r == Head(inbox) IN
     /\ reg' = IF r.fc = WriteRegister THEN r.val ELSE reg
     /\ \E reply \in Replies(r.fc, reg') : /\ Len(outbox) + Len(reply) <= MaxQueue
                                          /\ outbox' = outbox \o reply
  /\ inbox' = Tail(inbox) /\ held' = held \cup {reg'}
  /\ UNCHANGED <<session, pc, request, attempt, buffer, outcome, ghosts>>

(* It refuses the request with a Modbus exception, or ignores it. *)
StationRefuses ==
  /\ inbox # <<>>
  /\ inbox' = Tail(inbox)
  /\ \/ outbox' = outbox
     \/ /\ "exception" \in Disturbances /\ Len(outbox) < MaxQueue
        /\ outbox' = Append(outbox, Part("exception", Head(inbox).fc, reg, TRUE))
  /\ UNCHANGED <<reg, held, session, pc, request, attempt, buffer, outcome, ghosts>>

(* The register changes at the station's front panel. *)
PanelChange ==
  /\ \E v \in Values \ {reg} : reg' = v /\ held' = held \cup {v}
  /\ UNCHANGED <<inbox, outbox, session, pc, request, attempt, buffer, outcome, ghosts>>

(* A notification is lost on the air or in a Bluetooth proxy. *)
NotificationLost ==
  /\ "loss" \in Disturbances /\ outbox # <<>>
  /\ outbox' = Tail(outbox)
  /\ UNCHANGED <<reg, inbox, held, session, pc, request, attempt, buffer, outcome,
                 ghosts>>

-------------------------------------------------------------------------------
Accesses ==
  \/ \E fc \in {ReadHolding, ReadInput} : Call(fc, Garbled)
  \/ \E val \in Values : Call(WriteRegister, val)

ClientStep ==
  \/ LinkUp \/ ConnectFails \/ Subscribed \/ SubscribeFails
  \/ Sent \/ SendFails \/ Finish \/ TimesOut

User    == Connect \/ ConnectCancelled \/ Disconnect \/ Accesses \/ Cancelled
Station == StationAnswers \/ StationRefuses \/ PanelChange
Radio   == LinkDrops \/ Notified \/ NotificationLost

Next == User \/ ClientStep \/ Station \/ Radio

Spec == Init /\ [][Next]_vars

(* asyncio resumes a task whose await completed, and every await of the    *)
(* library ends: connecting and GATT requests have timeouts of their own   *)
(* in the Bluetooth stack, the reply is bounded by COMMAND_TIMEOUT.        *)
FairSpec == Spec /\ WF_vars(ClientStep)

-------------------------------------------------------------------------------
(* Properties *)

(* Every variable holds a value of its kind. *)
TypeOK ==
  /\ reg \in Values /\ held \in SUBSET Values
  /\ inbox \in Seq(Requests) /\ outbox \in Seq(Chunk)
  /\ link \in BOOLEAN /\ client \in BOOLEAN
  /\ pc \in {"idle", "connecting", "subscribing", "sending", "waiting"}
  /\ request \in Requests /\ attempt \in 0..MaxRetries
  /\ active \in BOOLEAN /\ raw \in Seq(Chunk)
  /\ future \in {"none", "pending", "result", "error"}
  /\ outcome \in Outcomes
  /\ call \in Nat /\ sends \in Nat /\ clean \in BOOLEAN /\ rough \in BOOLEAN

(* A register access that succeeds returns the bank, or the write echo,    *)
(* it asked for, whatever is still queued from earlier calls: feed()       *)
(* discards other function codes.                                          *)
ReturnsTheRightBank ==
  outcome.kind = "ok" => outcome.fc = request.fc

(* What a successful access returns was sent by the station in one reply:  *)
(* never a splice of two replies and never damaged bytes.                  *)
NeverGarbled ==
  outcome.kind = "ok" => outcome.val \in Values

(* CommandTimeoutError means that MAX_COMMAND_RETRIES requests went out    *)
(* for this call, and no call ever sends more.                             *)
TimeoutAfterEveryAttempt ==
  /\ sends <= MaxRetries
  /\ outcome.kind = "timeout" => sends = MaxRetries

(* A call that begins with nothing outstanding tells the truth: it is      *)
(* answered by the reply to one of its own requests, a read returns what   *)
(* the register held at some moment during the call, and a write that      *)
(* succeeds was carried out.                                               *)
CleanCallIsTruthful ==
  outcome.kind = "ok" /\ clean =>
    /\ outcome.answers = call
    /\ outcome.val \in held
    /\ request.fc = WriteRegister => outcome.val = request.val

(* Late replies of other calls, whatever their function code, never make   *)
(* an attempt fail on its CRC while all it is notified of is whole and     *)
(* undamaged: a discarded reply leaves nothing in the buffer.              *)
WholeRepliesNeverFail ==
  outcome.kind = "crc" => rough

(* Every connect and every register access comes to an end, whatever the   *)
(* station, the radio and the user do meanwhile.                           *)
EveryCallEnds ==
  pc # "idle" ~> pc = "idle"

(* The inductive invariant behind the properties above *)

(* A buffer that starts with a header was matched against the request, and *)
(* a completed one holds one undamaged frame.                              *)
BufferInv ==
  /\ raw # <<>> /\ raw[1].good /\ raw[1].part # "tail" => raw[1].fc = request.fc
  /\ future \in {"result", "error"} => raw # <<>>
  /\ future = "result" => CRCHolds(raw)
  /\ active /\ ~rough => \/ future = "pending" /\ raw = <<>>
                         \/ future = "result"
  /\ InCall => active

(* The loop variable counts the requests sent. *)
AttemptInv ==
  /\ InCall => attempt \in 1..MaxRetries /\ outcome = NoOutcome /\ request.call = call
  /\ pc = "sending" => sends = attempt - 1
  /\ pc = "waiting" => sends = attempt

(* Chunks that all answer call n, whose request is r, truthfully: they     *)
(* carry one of the contents the register had meanwhile.                   *)
Truthful(chunks, n, r, contents) ==
  \A i \in 1..Len(chunks) :
    /\ chunks[i].call = n /\ chunks[i].val \in contents
    /\ chunks[i].part # "exception" /\ r.fc = WriteRegister => chunks[i].val = r.val

(* After a clean start all that is under way belongs to the current call. *)
CleanInv ==
  /\ reg \in held
  /\ clean => /\ \A i \in 1..Len(inbox) : inbox[i] = request /\ request.call = call
              /\ Truthful(outbox, call, request, held)
              /\ InCall => Truthful(raw, call, request, held)

ExchangeSafety ==
  /\ ReturnsTheRightBank /\ NeverGarbled /\ TimeoutAfterEveryAttempt
  /\ CleanCallIsTruthful /\ WholeRepliesNeverFail

IInv == TypeOK /\ BufferInv /\ AttemptInv /\ CleanInv /\ ExchangeSafety

-------------------------------------------------------------------------------
(* Refinement *)

(* How the last access ended, for the caller of SydpowerDevice. *)
Result ==
  CASE outcome.kind = "ok"                   -> [kind |-> "done", fc |-> outcome.fc,
                                                 val |-> outcome.val]
    [] outcome.kind \in {"none", "connected"} -> [kind |-> "none", fc |-> Garbled,
                                                 val |-> Garbled]
    [] OTHER                                 -> [kind |-> "failed", fc |-> Garbled,
                                                 val |-> Garbled]

Access == INSTANCE RegisterAccess WITH
            Nothing <- Garbled, ReadCodes <- {ReadHolding, ReadInput},
            WriteCode <- WriteRegister, busy <- InCall, result <- Result,
            asked <- [fc |-> request.fc, val |-> request.val]

(* Every step of the exchange, with its buffers, retries, timeouts and     *)
(* reconnections, is a step of an access of RegisterAccess, or changes     *)
(* nothing the caller could notice: an access ends once, in one step, with *)
(* a result its caller may rely on, and nothing that arrives afterwards    *)
(* changes it.                                                             *)
ImplementsRegisterAccess == Access!Spec
===============================================================================
