--------------------------- MODULE BleExchangeProofs ---------------------------
(***************************************************************************)
(* The safety of BleExchange for every register content, every number of   *)
(* attempts and calls, and every kind of disturbance.                      *)
(***************************************************************************)
EXTENDS BleExchange, TLAPS

(* What feed() reports of a chunk: it leaves the buffer empty or one chunk *)
(* longer; it is done only with the chunk in the buffer, and with a result *)
(* only when the CRC holds; a chunk with a header that is kept is of the   *)
(* expected function code (protocol.py, feed).                             *)
LEMMA FeedFacts ==
  ASSUME NEW expected \in FunctionCodes, NEW rs \in Seq(Chunk), NEW c \in Chunk,
         NEW o \in FeedOutcomes(expected, rs, c)
  PROVE  /\ \/ o.raw = <<>> /\ o.future = "pending"
            \/ /\ o.raw = Append(rs, c)
               /\ o.future \in {"pending", "result", "error"}
         /\ o.future = "result" => CRCHolds(Append(rs, c))
         /\ o.raw = Append(rs, c) /\ rs = <<>> /\ c.good /\ c.part # "tail"
              => c.fc = expected
<1> DEFINE leads == IF rs = <<>> THEN LeadingCode(c) ELSE {expected}
<1>1. \/ o = [raw |-> <<>>, future |-> "pending"]
      \/ /\ expected \in leads
         /\ \E enough \in LongEnough(Append(rs, c)) :
              o = [raw |-> Append(rs, c),
                   future |-> IF ~enough THEN "pending"
                              ELSE IF CRCHolds(Append(rs, c)) THEN "result"
                              ELSE "error"]
  BY DEF FeedOutcomes
<1>2. Append(rs, c) # <<>>
  <2>1. Len(Append(rs, c)) = Len(rs) + 1
    OBVIOUS
  <2>2. Len(rs) \in Nat /\ Len(<<>>) = 0
    OBVIOUS
  <2> QED BY <2>1, <2>2
<1>3. expected \in leads /\ rs = <<>> /\ c.good /\ c.part # "tail" => c.fc = expected
  BY DEF LeadingCode
<1> QED BY <1>1, <1>2, <1>3

(* An undamaged whole reply that starts the buffer is discarded, or        *)
(* completes it at once: it never waits and never fails.                   *)
LEMMA WholeReply ==
  ASSUME NEW expected \in FunctionCodes, NEW c \in Chunk,
         c.part = "whole", c.good,
         NEW o \in FeedOutcomes(expected, <<>>, c)
  PROVE  (o.raw = <<>> /\ o.future = "pending") \/ o.future = "result"
<1> DEFINE one == Append(<<>>, c)
<1>1. one \in Seq(Chunk) /\ Len(one) = 1 /\ one[1] = c
  OBVIOUS
<1>2. LongEnough(one) = {TRUE}
  BY <1>1 DEF LongEnough
<1>3. CRCHolds(one)
  BY <1>1 DEF CRCHolds
<1> HIDE DEF one
<1>4. \/ o = [raw |-> <<>>, future |-> "pending"]
      \/ \E enough \in LongEnough(one) :
           o = [raw |-> one,
                future |-> IF ~enough THEN "pending"
                           ELSE IF CRCHolds(one) THEN "result" ELSE "error"]
  BY DEF FeedOutcomes, one
<1> QED BY <1>2, <1>3, <1>4

(* A buffer whose CRC holds is decoded to what the station sent. *)
LEMMA DecodedFrame ==
  ASSUME NEW rs \in Seq(Chunk), CRCHolds(rs)
  PROVE  /\ rs # <<>> /\ rs[1] \in Chunk
         /\ Decoded(rs) = rs[1].val
         /\ rs[1].good /\ rs[1].part \in {"whole", "head"}
<1>1. Len(rs) \in {1, 2} /\ \A i \in 1..Len(rs) : rs[i].good
  BY DEF CRCHolds
<1>2. rs # <<>> /\ rs[1] \in Chunk
  BY <1>1
<1>3. rs[1].part \in {"whole", "head"}
  BY DEF CRCHolds, SameFrame
<1>4. Len(rs) = 2 => rs[2].val = rs[1].val
  BY DEF CRCHolds, SameFrame
<1>5. \A i \in 1..Len(rs) : rs[i].good /\ rs[i].val = rs[1].val
  BY <1>1, <1>4
<1> QED BY <1>1, <1>2, <1>3, <1>5 DEF Decoded

(* A reply, in one notification or two, is made of chunks of the request   *)
(* the station works on, with the content it was asked to report.          *)
LEMMA RepliesFacts ==
  ASSUME TypeOK, inbox # <<>>, NEW v \in Values,
         NEW reply \in Replies(Head(inbox).fc, v)
  PROVE  /\ reply \in Seq(Chunk)
         /\ \A i \in 1..Len(reply) :
              /\ reply[i].call = Head(inbox).call /\ reply[i].val = v
              /\ reply[i].part # "exception"
<1>1. Head(inbox) \in Requests
  BY DEF TypeOK
<1>2. Head(inbox).fc \in FunctionCodes /\ Head(inbox).call \in Nat
  BY <1>1 DEF Requests, FunctionCodes
<1>3. \A good \in BOOLEAN, part \in {"whole", "head", "tail"} :
        /\ Part(part, Head(inbox).fc, v, good) \in Chunk
        /\ Part(part, Head(inbox).fc, v, good).call = Head(inbox).call
        /\ Part(part, Head(inbox).fc, v, good).val = v
        /\ Part(part, Head(inbox).fc, v, good).part = part
  BY <1>2 DEF Part, Chunk
<1> DEFINE P(part, good) == Part(part, Head(inbox).fc, v, good)
<1>4. \/ \E good \in BOOLEAN : reply = <<P("whole", good)>>
      \/ \E g1, g2 \in BOOLEAN : reply = <<P("head", g1), P("tail", g2)>>
  BY DEF Replies
<1> HIDE DEF P
<1>5. \A good \in BOOLEAN, part \in {"whole", "head", "tail"} :
        /\ P(part, good) \in Chunk /\ P(part, good).call = Head(inbox).call
        /\ P(part, good).val = v /\ P(part, good).part = part
  BY <1>3 DEF P
<1>6. CASE \E good \in BOOLEAN : reply = <<P("whole", good)>>
  <2> PICK good \in BOOLEAN : reply = <<P("whole", good)>>
    BY <1>6
  <2> QED BY <1>5
<1>7. CASE \E g1, g2 \in BOOLEAN : reply = <<P("head", g1), P("tail", g2)>>
  <2> PICK g1 \in BOOLEAN, g2 \in BOOLEAN : reply = <<P("head", g1), P("tail", g2)>>
    BY <1>7
  <2>1. /\ reply \in Seq(Chunk) /\ Len(reply) = 2
        /\ reply[1] = P("head", g1) /\ reply[2] = P("tail", g2)
    BY <1>5
  <2> QED BY <1>5, <2>1
<1> QED BY <1>4, <1>6, <1>7

(* Every step keeps every variable in its type. *)
LEMMA TypeStep == IInv /\ [Next]_vars => TypeOK'
<1> SUFFICES ASSUME IInv, [Next]_vars PROVE TypeOK'
  OBVIOUS
<1> USE DEF TypeOK, device, session, buffer, ghosts, ArmBuffer, ClearBuffer, NoOutcome
<1>1. TypeOK
  BY DEF IInv
<1>2. <<>> \in Seq(Chunk)
  OBVIOUS
<1>2b. \A kind \in OutcomeKinds : Outcome(kind) \in Outcomes
  BY DEF Outcome, Outcomes
<1>2c. {"none", "connected", "connection", "gatt", "cancelled", "crc", "timeout"}
         \subseteq OutcomeKinds
  BY DEF OutcomeKinds
<1>2a. CASE UNCHANGED vars
  BY <1>1, <1>2a DEF vars
<1>3. CASE \/ Connect \/ LinkUp \/ ConnectFails \/ ConnectCancelled
          \/ Subscribed \/ SubscribeFails
  BY <1>1, <1>2b, <1>2c, <1>3 DEF Connect, LinkUp, ConnectFails, ConnectCancelled, Subscribed,
         SubscribeFails
<1>4. CASE Disconnect \/ LinkDrops
  <2>1. outbox' = outbox \/ outbox' = <<>>
    BY <1>4 DEF Disconnect, LinkDrops, QueueSurvivesOrNot
  <2>2. outbox' \in Seq(Chunk)
    BY <1>1, <1>2, <2>1
  <2> QED BY <1>1, <1>4, <2>2 DEF Disconnect, LinkDrops, QueueSurvivesOrNot
<1>5. CASE Accesses
  <2>1. PICK fc \in FunctionCodes, val \in Values \cup {Garbled} :
          /\ Call(fc, val)
          /\ [fc |-> fc, val |-> val, call |-> call + 1] \in Requests
    BY <1>1, <1>5 DEF Accesses, Requests, FunctionCodes
  <2>2. raw' \in Seq(Chunk)
    BY <1>1, <1>2, <2>1 DEF Call
  <2>3. request' \in Requests
    BY <1>1, <2>1 DEF Call
  <2>4. attempt' \in 0..MaxRetries
    BY <1>1, <2>1, ExchangeAssumption DEF Call
  <2>5. clean' \in BOOLEAN
    BY <2>1 DEF Call
  <2>6. CASE IsConnected
    <3>1. /\ pc' = "sending" /\ active' = TRUE /\ future' = "pending" /\ rough' = FALSE
          /\ outcome' = Outcome("none") /\ call' = call + 1 /\ sends' = 0
          /\ held' = {reg} /\ UNCHANGED <<reg, inbox, outbox, link, client>>
      BY <2>1, <2>6 DEF Call
    <3>2. outcome' \in Outcomes
      BY <1>2b, <1>2c, <3>1
    <3>3. reg' \in Values /\ held' \in SUBSET Values /\ call' \in Nat /\ sends' \in Nat
      BY <1>1, <3>1
    <3> QED BY <1>1, <2>2, <2>3, <2>4, <2>5, <3>1, <3>2, <3>3
  <2>7. CASE ~IsConnected
    BY <1>1, <1>2b, <1>2c, <2>1, <2>2, <2>3, <2>4, <2>5, <2>7 DEF Call
  <2> QED BY <2>6, <2>7
<1>6. CASE Sent \/ SendFails
  <2>1. inbox' \in Seq(Requests)
    <3>1. inbox' = inbox \/ inbox' = Append(inbox, request)
      BY <1>6 DEF Sent, SendFails
    <3>2. Append(inbox, request) \in Seq(Requests)
      BY <1>1
    <3> QED BY <1>1, <3>1, <3>2
  <2> QED BY <1>1, <1>2b, <1>2c, <1>6, <2>1 DEF Sent, SendFails
<1>7. CASE Finish
  <2>1. raw' \in Seq(Chunk)
    BY <1>2, <1>7 DEF Finish
  <2>2. CASE future = "result"
    <3>1. CRCHolds(raw)
      BY <2>2 DEF IInv, BufferInv
    <3>2. raw[1] \in Chunk /\ Decoded(raw) = raw[1].val
      BY <1>1, <3>1, DecodedFrame
    <3> QED BY <1>1, <1>7, <2>1, <2>2, <3>2 DEF Finish, Chunk, Outcomes, OutcomeKinds
  <2> QED BY <1>1, <1>2b, <1>2c, <1>7, <2>1, <2>2 DEF Finish
<1>8. CASE TimesOut \/ Cancelled
  <2>1. raw' \in Seq(Chunk)
    BY <1>2, <1>8 DEF TimesOut, RetryUnless, Cancelled
  <2>2. attempt' \in 0..MaxRetries
    BY <1>1, <1>8, ExchangeAssumption DEF TimesOut, RetryUnless, Cancelled
  <2> QED BY <1>1, <1>2b, <1>2c, <1>8, <2>1, <2>2 DEF TimesOut, RetryUnless, Cancelled
<1>9. CASE Notified
  <2>1. Head(outbox) \in Chunk /\ outbox' \in Seq(Chunk)
    BY <1>1, <1>9 DEF Notified
  <2>2. request.fc \in FunctionCodes
    BY <1>1 DEF Requests, FunctionCodes
  <2>3. /\ raw' \in Seq(Chunk) /\ rough' \in BOOLEAN
        /\ future' \in {"none", "pending", "result", "error"}
    <3>1. CASE active /\ future = "pending"
      <4>1. PICK o \in FeedOutcomes(request.fc, raw, Head(outbox)) :
              raw' = o.raw /\ future' = o.future
        BY <1>9, <3>1 DEF Notified
      <4>2. Append(raw, Head(outbox)) \in Seq(Chunk)
        BY <1>1, <2>1
      <4>3. /\ o.raw = <<>> \/ o.raw = Append(raw, Head(outbox))
            /\ o.future \in {"pending", "result", "error"}
        BY <1>1, <2>1, <2>2, FeedFacts
      <4>4. rough' = (rough \/ Head(outbox).part # "whole" \/ ~Head(outbox).good)
        BY <1>9, <3>1 DEF Notified
      <4> QED BY <1>2, <4>1, <4>2, <4>3, <4>4
    <3> QED BY <1>1, <1>9, <3>1 DEF Notified
  <2> QED BY <1>1, <1>9, <2>1, <2>3 DEF Notified
<1>10. CASE StationAnswers
  <2>1. Head(inbox) \in Requests /\ inbox' \in Seq(Requests) /\ inbox # <<>>
    BY <1>1, <1>10 DEF StationAnswers
  <2>2. reg' \in Values
    BY <1>1, <1>10, <2>1 DEF StationAnswers, Requests, ReadHolding, ReadInput, WriteRegister
  <2>3. PICK reply \in Replies(Head(inbox).fc, reg') : outbox' = outbox \o reply
    BY <1>10 DEF StationAnswers
  <2>4. reply \in Seq(Chunk)
    BY <1>1, <2>1, <2>2, <2>3, RepliesFacts
  <2>5. outbox' \in Seq(Chunk)
    BY <1>1, <2>3, <2>4
  <2> QED BY <1>1, <1>10, <2>1, <2>2, <2>5 DEF StationAnswers
<1>11. CASE StationRefuses
  <2>1. Head(inbox) \in Requests /\ inbox' \in Seq(Requests)
    BY <1>1, <1>11 DEF StationRefuses
  <2>2. Part("exception", Head(inbox).fc, reg, TRUE) \in Chunk
    BY <1>1, <2>1 DEF Part, Chunk, Requests, FunctionCodes
  <2>3. outbox' \in Seq(Chunk)
    <3>1. PICK refusal \in Chunk : outbox' = outbox \/ outbox' = Append(outbox, refusal)
      BY <1>11, <2>2 DEF StationRefuses
    <3>2. Append(outbox, refusal) \in Seq(Chunk)
      BY <1>1
    <3> QED BY <1>1, <3>1, <3>2
  <2> QED BY <1>1, <1>11, <2>1, <2>3 DEF StationRefuses
<1>12. CASE PanelChange
  BY <1>1, <1>12 DEF PanelChange
<1>13. CASE NotificationLost
  BY <1>1, <1>13 DEF NotificationLost
<1> QED BY <1>2a, <1>3, <1>4, <1>5, <1>6, <1>7, <1>8, <1>9, <1>10, <1>11, <1>12, <1>13
        DEF Next, User, ClientStep, Station, Radio

(* The buffer belongs to the request: what starts it was matched against   *)
(* the request's function code, what completes it is one frame, and whole  *)
(* undamaged replies never leave it waiting.                               *)
LEMMA BufferStep == IInv /\ [Next]_vars => BufferInv'
<1> SUFFICES ASSUME IInv, [Next]_vars PROVE BufferInv'
  OBVIOUS
<1> USE DEF BufferInv, InCall, device, session, buffer, ghosts, ArmBuffer, ClearBuffer
<1>1. BufferInv /\ TypeOK
  BY DEF IInv
<1>2. CASE UNCHANGED vars
  BY <1>1, <1>2 DEF vars
<1>3. CASE \/ Connect \/ LinkUp \/ ConnectFails \/ ConnectCancelled
          \/ Subscribed \/ SubscribeFails
           \/ Disconnect \/ LinkDrops
  BY <1>1, <1>3 DEF Connect, LinkUp, ConnectFails, ConnectCancelled, Subscribed, SubscribeFails,
                    Disconnect, LinkDrops
<1>4. CASE Accesses
  BY <1>1, <1>4 DEF Accesses, Call
<1>5. CASE Sent \/ SendFails \/ Finish \/ TimesOut \/ Cancelled
  BY <1>1, <1>5 DEF Sent, SendFails, Finish, TimesOut, RetryUnless, Cancelled
<1>6. CASE StationAnswers \/ StationRefuses \/ PanelChange \/ NotificationLost
  <2>1. UNCHANGED <<active, raw, future, rough, pc, request>>
    BY <1>6 DEF StationAnswers, StationRefuses, PanelChange, NotificationLost
  <2> QED BY <1>1, <2>1
<1>7. CASE Notified
  <2> DEFINE c == Head(outbox)
  <2>1. c \in Chunk /\ request.fc \in FunctionCodes /\ raw \in Seq(Chunk)
    BY <1>1, <1>7 DEF TypeOK, Notified, Requests, FunctionCodes
  <2> HIDE DEF c
  <2>2. CASE active /\ future = "pending"
    <3>1. PICK o \in FeedOutcomes(request.fc, raw, c) : raw' = o.raw /\ future' = o.future
      BY <1>7, <2>2 DEF Notified, c
    <3>2. /\ rough' = (rough \/ c.part # "whole" \/ ~c.good)
          /\ UNCHANGED <<active, pc, request>>
      BY <1>7, <2>2 DEF Notified, c
    <3>3. /\ \/ raw' = <<>> /\ future' = "pending"
             \/ raw' = Append(raw, c) /\ future' \in {"pending", "result", "error"}
          /\ future' = "result" => CRCHolds(Append(raw, c))
          /\ raw' = Append(raw, c) /\ raw = <<>> /\ c.good /\ c.part # "tail"
               => c.fc = request.fc
      BY <2>1, <3>1, FeedFacts
    <3>4. /\ Append(raw, c) # <<>>
          /\ raw = <<>> => Append(raw, c)[1] = c
          /\ raw # <<>> => Append(raw, c)[1] = raw[1]
      <4>1. Len(Append(raw, c)) = Len(raw) + 1 /\ Len(raw) \in Nat
        BY <2>1
      <4>2. raw = <<>> => Len(raw) = 0
        OBVIOUS
      <4>3. raw # <<>> => Len(raw) >= 1
        BY <2>1
      <4> QED BY <2>1, <4>1, <4>2, <4>3
    <3>5. raw' # <<>> /\ raw'[1].good /\ raw'[1].part # "tail" => raw'[1].fc = request'.fc
      BY <1>1, <3>2, <3>3, <3>4
    <3>6. active' /\ ~rough' => \/ future' = "pending" /\ raw' = <<>>
                                \/ future' = "result"
      <4> SUFFICES ASSUME ~rough'
                   PROVE  (future' = "pending" /\ raw' = <<>>) \/ future' = "result"
        OBVIOUS
      <4>1. ~rough /\ c.part = "whole" /\ c.good
        BY <2>1, <3>2 DEF Chunk
      <4>2. raw = <<>>
        BY <1>1, <2>2, <4>1
      <4> QED BY <2>1, <3>1, <4>1, <4>2, WholeReply
    <3> QED BY <1>1, <3>2, <3>3, <3>4, <3>5, <3>6
  <2>3. CASE ~(active /\ future = "pending")
    BY <1>1, <1>7, <2>3 DEF Notified
  <2> QED BY <2>2, <2>3
<1> QED BY <1>2, <1>3, <1>4, <1>5, <1>6, <1>7 DEF Next, User, ClientStep, Station, Radio

(* The number of requests sent follows the loop of _send. *)
LEMMA AttemptStep == IInv /\ [Next]_vars => AttemptInv'
<1> SUFFICES ASSUME IInv, [Next]_vars PROVE AttemptInv'
  OBVIOUS
<1> USE DEF AttemptInv, InCall, device, session, buffer, ghosts, NoOutcome
<1>1. AttemptInv /\ TypeOK
  BY DEF IInv
<1>2. CASE UNCHANGED vars
  BY <1>1, <1>2 DEF vars
<1>3. CASE \/ Connect \/ LinkUp \/ ConnectFails \/ ConnectCancelled
          \/ Subscribed \/ SubscribeFails
           \/ Disconnect \/ LinkDrops
  BY <1>1, <1>3 DEF Connect, LinkUp, ConnectFails, ConnectCancelled, Subscribed, SubscribeFails,
                    Disconnect, LinkDrops
<1>4. CASE Accesses
  BY <1>1, <1>4, ExchangeAssumption DEF Accesses, Call
<1>5. CASE Sent \/ SendFails \/ Finish \/ Cancelled
  BY <1>1, <1>5 DEF Sent, SendFails, Finish, Cancelled, TypeOK
<1>6. CASE TimesOut
  BY <1>1, <1>6, ExchangeAssumption DEF TimesOut, RetryUnless, TypeOK
<1>7. CASE Notified \/ StationAnswers \/ StationRefuses \/ PanelChange \/ NotificationLost
  BY <1>1, <1>7 DEF Notified, StationAnswers, StationRefuses, PanelChange, NotificationLost
<1> QED BY <1>2, <1>3, <1>4, <1>5, <1>6, <1>7 DEF Next, User, ClientStep, Station, Radio

(* Only the end of an access can report success, and what it reports is    *)
(* what the buffer holds.                                                  *)
LEMMA SafetyStep == IInv /\ [Next]_vars => ExchangeSafety'
<1> SUFFICES ASSUME IInv, [Next]_vars PROVE ExchangeSafety'
  OBVIOUS
<1> USE DEF ExchangeSafety, ReturnsTheRightBank, NeverGarbled, TimeoutAfterEveryAttempt,
            CleanCallIsTruthful, WholeRepliesNeverFail, Outcome, NoOutcome,
            device, session, buffer, ghosts, ArmBuffer, ClearBuffer
<1>1. ExchangeSafety /\ TypeOK /\ AttemptInv
  BY DEF IInv
<1>2. CASE UNCHANGED vars
  BY <1>1, <1>2 DEF vars
<1>3. CASE \/ Connect \/ LinkUp \/ ConnectFails \/ ConnectCancelled
          \/ Subscribed \/ SubscribeFails
           \/ Disconnect \/ LinkDrops
  <2>1. /\ UNCHANGED <<request, sends, call, clean, held, rough>>
        /\ outcome' = outcome \/ outcome'.kind \in {"none", "connected", "connection", "cancelled"}
    BY <1>3 DEF Connect, LinkUp, ConnectFails, ConnectCancelled, Subscribed, SubscribeFails,
                Disconnect, LinkDrops, QueueSurvivesOrNot
  <2> QED BY <1>1, <2>1
<1>4. CASE Accesses
  BY <1>1, <1>4, ExchangeAssumption DEF Accesses, Call, InCall
<1>5. CASE Sent \/ SendFails \/ TimesOut \/ Cancelled
  BY <1>1, <1>5, ExchangeAssumption
     DEF Sent, SendFails, TimesOut, RetryUnless, Cancelled, AttemptInv, InCall, TypeOK
<1>6. CASE Notified \/ StationAnswers \/ StationRefuses \/ PanelChange \/ NotificationLost
  <2>1. /\ UNCHANGED <<request, sends, call, clean, outcome>>
        /\ held \subseteq held'
    BY <1>6 DEF Notified, StationAnswers, StationRefuses, PanelChange, NotificationLost
  <2>2. rough => rough'
    <3>1. CASE Notified
      <4>1. rough' = (rough \/ Head(outbox).part # "whole" \/ ~Head(outbox).good)
            \/ rough' = rough
        BY <3>1 DEF Notified
      <4> QED BY <4>1, Zenon
    <3>2. CASE ~Notified
      BY <1>6, <3>2 DEF StationAnswers, StationRefuses, PanelChange, NotificationLost
    <3> QED BY <3>1, <3>2
  <2> QED BY <1>1, <2>1, <2>2
<1>7. CASE Finish
  <2>1. UNCHANGED <<request, held, call, sends, clean, rough>>
    BY <1>7 DEF Finish
  <2>2. TimeoutAfterEveryAttempt'
    BY <1>1, <1>7, <2>1 DEF Finish
  <2>3. CASE future = "result"
    <3>1. CRCHolds(raw) /\ raw \in Seq(Chunk)
      BY <1>1, <2>3 DEF IInv, BufferInv, TypeOK
    <3>2. /\ raw # <<>> /\ raw[1] \in Chunk /\ raw[1].good
          /\ raw[1].part \in {"whole", "head"} /\ Decoded(raw) = raw[1].val
      BY <3>1, DecodedFrame
    <3>3. outcome' = [kind |-> "ok", fc |-> raw[1].fc, val |-> raw[1].val,
                      answers |-> raw[1].call]
      BY <1>7, <2>3, <3>2 DEF Finish
    <3>4. raw[1].fc = request.fc
      BY <3>2 DEF IInv, BufferInv
    <3>5. clean => Truthful(raw, call, request, held) /\ 1 \in 1..Len(raw)
      BY <1>7, <3>1, <3>2 DEF Finish, IInv, CleanInv, InCall
    <3>6. NeverGarbled'
      BY <3>2, <3>3 DEF Chunk
    <3>7. CleanCallIsTruthful'
      BY <2>1, <3>2, <3>3, <3>5, <1>1 DEF Truthful, TypeOK
    <3> QED BY <2>1, <2>2, <3>3, <3>4, <3>6, <3>7
  <2>4. CASE future = "error"
    <3>1. rough
      BY <1>7, <2>4 DEF Finish, IInv, BufferInv, InCall
    <3> QED BY <1>7, <2>1, <2>2, <2>4, <3>1 DEF Finish
  <2> QED BY <1>7, <2>3, <2>4 DEF Finish
<1> QED BY <1>2, <1>3, <1>4, <1>5, <1>6, <1>7 DEF Next, User, ClientStep, Station, Radio

(* Truthfulness is kept by shortening, joining and extending sequences of  *)
(* chunks, and when the register takes more contents.                      *)
LEMMA TruthfulSequences ==
  ASSUME NEW n, NEW r, NEW old, NEW contents, old \subseteq contents,
         NEW s \in Seq(Chunk), Truthful(s, n, r, old)
  PROVE  /\ Truthful(s, n, r, contents)
         /\ s # <<>> => Truthful(Tail(s), n, r, contents)
         /\ \A t \in Seq(Chunk) : Truthful(t, n, r, contents)
                                    => Truthful(s \o t, n, r, contents)
         /\ \A c \in Chunk : Truthful(<<c>>, n, r, contents)
                               => Truthful(Append(s, c), n, r, contents)
<1>1. Truthful(s, n, r, contents)
  BY DEF Truthful
<1>2. s # <<>> => Truthful(Tail(s), n, r, contents)
  BY <1>1 DEF Truthful
<1>3. ASSUME NEW t \in Seq(Chunk), Truthful(t, n, r, contents)
      PROVE  Truthful(s \o t, n, r, contents)
  <2>1. \A i \in 1..Len(s \o t) :
          \/ i \in 1..Len(s) /\ (s \o t)[i] = s[i]
          \/ i - Len(s) \in 1..Len(t) /\ (s \o t)[i] = t[i - Len(s)]
    OBVIOUS
  <2> QED BY <1>1, <1>3, <2>1 DEF Truthful
<1>4. ASSUME NEW c \in Chunk, Truthful(<<c>>, n, r, contents)
      PROVE  Truthful(Append(s, c), n, r, contents)
  <2>1. \A i \in 1..Len(Append(s, c)) :
          (i \in 1..Len(s) /\ Append(s, c)[i] = s[i]) \/ Append(s, c)[i] = c
    OBVIOUS
  <2>2. Len(<<c>>) = 1 /\ <<c>>[1] = c
    OBVIOUS
  <2>3. /\ c.call = n /\ c.val \in contents
        /\ c.part # "exception" /\ r.fc = WriteRegister => c.val = r.val
    BY <1>4, <2>2 DEF Truthful
  <2> QED BY <1>1, <2>1, <2>3 DEF Truthful
<1> QED BY <1>1, <1>2, <1>3, <1>4

(* After a clean start nothing foreign enters the queues or the buffer.    *)
LEMMA CleanStep == IInv /\ [Next]_vars => CleanInv'
<1> SUFFICES ASSUME IInv, [Next]_vars PROVE CleanInv'
  OBVIOUS
<1> USE DEF CleanInv, InCall, device, session, buffer, ghosts, ArmBuffer, ClearBuffer
<1>1. CleanInv /\ TypeOK /\ AttemptInv
  BY DEF IInv
<1>2. inbox \in Seq(Requests) /\ outbox \in Seq(Chunk) /\ raw \in Seq(Chunk)
  BY <1>1 DEF TypeOK
<1>3. Truthful(<<>>, call, request, held)
  BY DEF Truthful
<1>4. ASSUME UNCHANGED <<reg, held, inbox, call, request, clean>>,
             outbox' = outbox \/ outbox' = <<>> \/ (outbox # <<>> /\ outbox' = Tail(outbox)),
             InCall' => raw' = <<>> \/ (InCall /\ raw' = raw)
      PROVE  CleanInv'
  <2>1. clean => Truthful(outbox', call, request, held)
    <3> HIDE DEF CleanInv
    <3> SUFFICES ASSUME clean PROVE Truthful(outbox', call, request, held)
      OBVIOUS
    <3>1. Truthful(outbox, call, request, held)
      BY <1>1 DEF CleanInv
    <3>2. outbox # <<>> => Truthful(Tail(outbox), call, request, held)
      BY <1>2, <3>1, TruthfulSequences
    <3> QED BY <1>3, <1>4, <3>1, <3>2
  <2> QED BY <1>1, <1>3, <1>4, <2>1
<1>5. CASE UNCHANGED vars
  BY <1>4, <1>5 DEF vars
<1>6. CASE \/ Connect \/ LinkUp \/ ConnectFails \/ ConnectCancelled
          \/ Subscribed \/ SubscribeFails
  BY <1>4, <1>6 DEF Connect, LinkUp, ConnectFails, ConnectCancelled, Subscribed,
         SubscribeFails
<1>7. CASE Disconnect \/ LinkDrops
  BY <1>4, <1>7 DEF Disconnect, LinkDrops, QueueSurvivesOrNot
<1>8. CASE Finish \/ TimesOut \/ Cancelled
  BY <1>4, <1>8 DEF Finish, TimesOut, RetryUnless, Cancelled
<1>9. CASE NotificationLost
  BY <1>4, <1>9 DEF NotificationLost
<1>10. CASE Accesses
  <2>1. PICK fc, val : Call(fc, val)
    BY <1>10 DEF Accesses
  <2>2. /\ reg' \in held' /\ inbox' = inbox /\ outbox' = outbox
        /\ InCall' => raw' = <<>>
    BY <1>1, <2>1 DEF Call
  <2>3. clean' => inbox = <<>> /\ outbox = <<>>
    BY <2>1, Zenon DEF Call
  <2> QED BY <2>2, <2>3 DEF Truthful
<1>11. CASE Sent \/ SendFails
  <2>1. /\ UNCHANGED <<reg, held, outbox, call, request, raw, clean>>
        /\ inbox' = inbox \/ inbox' = Append(inbox, request)
        /\ InCall
    BY <1>11 DEF Sent, SendFails
  <2>2. request.call = call
    BY <1>1, <2>1 DEF AttemptInv
  <2>3. clean => \A i \in 1..Len(inbox') : inbox'[i] = request /\ request.call = call
    <3>1. request \in Requests
      BY <1>1 DEF TypeOK
    <3>2. \A i \in 1..Len(Append(inbox, request)) :
            \/ i \in 1..Len(inbox) /\ Append(inbox, request)[i] = inbox[i]
            \/ Append(inbox, request)[i] = request
      BY <1>2, <3>1
    <3> QED BY <1>1, <2>1, <2>2, <3>2
  <2> QED BY <1>1, <2>1, <2>3
<1>12. CASE Notified
  <2> DEFINE c == Head(outbox)
  <2>1. /\ UNCHANGED <<reg, held, inbox, call, request, pc, clean>>
        /\ outbox # <<>> /\ outbox' = Tail(outbox)
    BY <1>12 DEF Notified
  <2>2. c \in Chunk /\ request.fc \in FunctionCodes
    BY <1>1, <1>2, <2>1 DEF TypeOK, Requests, FunctionCodes
  <2>3. raw' = raw \/ raw' = <<>> \/ raw' = Append(raw, c)
    <3>1. CASE active /\ future = "pending"
      <4>1. PICK o \in FeedOutcomes(request.fc, raw, c) : raw' = o.raw
        BY <1>12, <3>1 DEF Notified
      <4> QED BY <1>2, <2>2, <4>1, FeedFacts
    <3>2. CASE ~(active /\ future = "pending")
      BY <1>12, <3>2 DEF Notified
    <3> QED BY <3>1, <3>2
  <2>4. CASE clean
    <3>1. Truthful(outbox, call, request, held) /\ Truthful(outbox', call, request, held)
      BY <1>1, <1>2, <2>1, <2>4, TruthfulSequences
    <3>2. Truthful(<<c>>, call, request, held) /\ <<c>> \in Seq(Chunk)
      BY <1>2, <2>1, <2>2, <3>1 DEF Truthful
    <3> HIDE DEF c
    <3>4. InCall => Truthful(raw', call, request, held)
      <4>1. InCall => Truthful(raw, call, request, held)
        BY <1>1, <2>4
      <4>2. ASSUME InCall PROVE Truthful(Append(raw, c), call, request, held)
        BY <1>2, <2>2, <3>2, <4>1, <4>2, TruthfulSequences
      <4> QED BY <1>3, <2>3, <4>1, <4>2
    <3> QED BY <1>1, <2>1, <3>1, <3>4
  <2>5. CASE ~clean
    BY <1>1, <2>1, <2>5
  <2> QED BY <2>4, <2>5
<1>13. CASE StationAnswers \/ StationRefuses \/ PanelChange
  <2>1. /\ UNCHANGED <<call, request, raw, pc, clean>>
        /\ held \subseteq held' /\ reg' \in held'
    BY <1>1, <1>13 DEF StationAnswers, StationRefuses, PanelChange
  <2>2. CASE ~clean
    BY <2>1, <2>2
  <2>3. CASE clean
    <3>1. InCall => Truthful(raw, call, request, held')
      BY <1>1, <1>2, <2>1, <2>3, TruthfulSequences
    <3>2. \A i \in 1..Len(inbox) : inbox[i] = request /\ request.call = call
      BY <1>1, <2>3
    <3>3. inbox # <<>> => Head(inbox) = request /\ request.call = call
      BY <1>2, <3>2
    <3>4. \A i \in 1..Len(inbox') : inbox'[i] = request /\ request.call = call
      <4>1. inbox' = inbox \/ (inbox # <<>> /\ inbox' = Tail(inbox))
        BY <1>13 DEF StationAnswers, StationRefuses, PanelChange
      <4>2. inbox # <<>> => \A i \in 1..Len(Tail(inbox)) :
                               i + 1 \in 1..Len(inbox) /\ Tail(inbox)[i] = inbox[i + 1]
        BY <1>2
      <4> QED BY <3>2, <4>1, <4>2
    <3>5. Truthful(outbox, call, request, held)
      BY <1>1, <2>3
    <3>6. Truthful(outbox', call, request, held')
      <4>1. CASE PanelChange
        BY <1>2, <2>1, <3>5, <4>1, TruthfulSequences DEF PanelChange
      <4>2. CASE StationRefuses
        <5> DEFINE refusal == Part("exception", Head(inbox).fc, reg, TRUE)
        <5>1. /\ outbox' = outbox \/ outbox' = Append(outbox, refusal)
              /\ inbox # <<>> /\ UNCHANGED <<reg, held>>
          BY <4>2 DEF StationRefuses
        <5>2. refusal \in Chunk
          BY <1>1, <1>2, <5>1 DEF Part, Chunk, Requests, FunctionCodes, TypeOK
        <5>3. refusal.call = call /\ refusal.val \in held /\ refusal.part = "exception"
          BY <1>1, <3>3, <5>1 DEF Part
        <5> HIDE DEF refusal
        <5>4. Truthful(<<refusal>>, call, request, held) /\ <<refusal>> \in Seq(Chunk)
          BY <5>2, <5>3 DEF Truthful
        <5>5. Truthful(Append(outbox, refusal), call, request, held)
          BY <1>2, <3>5, <5>2, <5>4, TruthfulSequences
        <5> QED BY <3>5, <5>1, <5>5
      <4>3. CASE StationAnswers
        <5>1. /\ inbox # <<>>
              /\ Head(inbox).fc = WriteRegister => reg' = Head(inbox).val
          BY <4>3 DEF StationAnswers
        <5>2. reg' \in Values
          BY <1>1, <1>2, <4>3
             DEF TypeOK, StationAnswers, Requests, ReadHolding, ReadInput, WriteRegister
        <5>3. PICK reply \in Replies(Head(inbox).fc, reg') : outbox' = outbox \o reply
          BY <4>3 DEF StationAnswers
        <5>4. /\ reply \in Seq(Chunk)
              /\ \A i \in 1..Len(reply) :
                   reply[i].call = Head(inbox).call /\ reply[i].val = reg'
          BY <1>1, <5>1, <5>2, <5>3, RepliesFacts
        <5>5. Truthful(reply, call, request, held')
          BY <2>1, <3>3, <5>1, <5>4 DEF Truthful
        <5> QED BY <1>2, <2>1, <3>5, <5>3, <5>4, <5>5, TruthfulSequences
      <4> QED BY <1>13, <4>1, <4>2, <4>3
    <3> QED BY <2>1, <3>1, <3>4, <3>6
  <2> QED BY <2>2, <2>3
<1> QED BY <1>5, <1>6, <1>7, <1>8, <1>9, <1>10, <1>11, <1>12, <1>13
        DEF Next, User, ClientStep, Station, Radio

-------------------------------------------------------------------------------
(* IInv is inductive: every variable keeps its type, the buffer belongs to *)
(* the request, the loop counts the requests sent, and after a clean start *)
(* all that is under way belongs to the current call.                      *)
THEOREM Inductive == Spec => []IInv
<1>1. Init => IInv
  <2> SUFFICES ASSUME Init PROVE IInv
    OBVIOUS
  <2>1. TypeOK
    <3>1. <<>> \in Seq(Requests) /\ <<>> \in Seq(Chunk)
      OBVIOUS
    <3>2. outcome \in Outcomes
      BY DEF Init, NoOutcome, Outcome, Outcomes, OutcomeKinds
    <3>3. request \in Requests /\ attempt \in 0..MaxRetries
      BY ExchangeAssumption DEF Init, Requests
    <3> QED BY <3>1, <3>2, <3>3 DEF Init, TypeOK
  <2>2. BufferInv /\ AttemptInv /\ CleanInv
    <3>1. Len(<<>>) = 0
      OBVIOUS
    <3>2. AttemptInv
      BY DEF Init, AttemptInv, InCall
    <3>3. CleanInv
      BY <3>1 DEF Init, CleanInv, InCall, Truthful
    <3>4. BufferInv
      BY DEF Init, BufferInv, InCall
    <3> QED BY <3>2, <3>3, <3>4
  <2>3. ExchangeSafety
    BY ExchangeAssumption
       DEF Init, ExchangeSafety, ReturnsTheRightBank, NeverGarbled, TimeoutAfterEveryAttempt,
           CleanCallIsTruthful, WholeRepliesNeverFail, NoOutcome, Outcome
  <2> QED BY <2>1, <2>2, <2>3 DEF IInv
<1>2. IInv /\ [Next]_vars => IInv'
  BY TypeStep, BufferStep, AttemptStep, CleanStep, SafetyStep DEF IInv
<1> QED BY <1>1, <1>2, PTL DEF Spec

(* Type correctness of the exchange. *)
THEOREM TypeCorrect == Spec => []TypeOK
<1>1. IInv => TypeOK
  BY DEF IInv
<1> QED BY <1>1, Inductive, PTL

(* Whatever stale, split, damaged, lost or refused replies the station and *)
(* the radio produce, a successful access is of the bank that was asked    *)
(* for (_send and feed match the function code).                           *)
THEOREM RightBank == Spec => []ReturnsTheRightBank
<1>1. IInv => ReturnsTheRightBank
  BY DEF IInv, ExchangeSafety
<1> QED BY <1>1, Inductive, PTL

(* ... and returns bytes the station sent in one reply (the CRC check).    *)
THEOREM Intact == Spec => []NeverGarbled
<1>1. IInv => NeverGarbled
  BY DEF IInv, ExchangeSafety
<1> QED BY <1>1, Inductive, PTL

(* CommandTimeoutError follows exactly MAX_COMMAND_RETRIES sends.          *)
THEOREM EveryAttemptMade == Spec => []TimeoutAfterEveryAttempt
<1>1. IInv => TimeoutAfterEveryAttempt
  BY DEF IInv, ExchangeSafety
<1> QED BY <1>1, Inductive, PTL

(* A call that begins with nothing outstanding is answered by its own      *)
(* reply and tells the truth about the register.                           *)
THEOREM CleanTruth == Spec => []CleanCallIsTruthful
<1>1. IInv => CleanCallIsTruthful
  BY DEF IInv, ExchangeSafety
<1> QED BY <1>1, Inductive, PTL

(* An attempt that is notified only of whole, undamaged replies does not   *)
(* end in CRCError: discarding a stale reply leaves nothing behind.        *)
THEOREM WholeRepliesSafe == Spec => []WholeRepliesNeverFail
<1>1. IInv => WholeRepliesNeverFail
  BY DEF IInv, ExchangeSafety
<1> QED BY <1>1, Inductive, PTL

(* The exchange starts where an access of RegisterAccess does. *)
LEMMA InitMaps == Init => Access!Init
<1> SUFFICES ASSUME Init PROVE Access!Init
  OBVIOUS
<1>1. ~InCall /\ Result = [kind |-> "none", fc |-> Garbled, val |-> Garbled]
  BY DEF Init, InCall, Result, NoOutcome, Outcome
<1>2. [fc |-> request.fc, val |-> request.val] \in Access!Accesses
  BY DEF Init, Access!Accesses, FunctionCodes
<1> QED BY <1>1, <1>2 DEF Init, Access!Init, Access!Ended

(* Each step of the exchange is a step of the access, or stutters. *)
LEMMA StepMaps == IInv /\ IInv' /\ [Next]_vars => [Access!Next]_(Access!vars)
<1> SUFFICES ASSUME IInv, IInv', [Next]_vars PROVE [Access!Next]_(Access!vars)
  OBVIOUS
<1> DEFINE same == UNCHANGED <<reg, held, call, clean, request, outcome>>
           ask == [fc |-> request.fc, val |-> request.val]
<1> USE DEF device, session, buffer, ghosts, InCall
<1>1. same /\ (InCall' <=> InCall) => UNCHANGED Access!vars
  <2> SUFFICES ASSUME same, InCall' <=> InCall PROVE UNCHANGED Access!vars
    OBVIOUS
  <2>1. UNCHANGED Result
    BY DEF Result
  <2>2. InCall' = InCall
    <3> HIDE DEF InCall
    <3> QED BY Zenon
  <2> HIDE DEF InCall
  <2> QED BY <2>1, <2>2 DEF Access!vars
<1>2. TypeOK /\ TypeOK' /\ reg \in held /\ (InCall => outcome = NoOutcome)
  BY DEF IInv, CleanInv, AttemptInv
<1>3. Access!Ended("failed") = [kind |-> "failed", fc |-> Garbled, val |-> Garbled]
      /\ Access!Ended("none") = [kind |-> "none", fc |-> Garbled, val |-> Garbled]
  BY DEF Access!Ended
<1>4. /\ outcome.kind \in {"none", "connected"} => Result = Access!Ended("none")
      /\ outcome'.kind \in {"none", "connected"} => Result' = Access!Ended("none")
      /\ outcome'.kind \in {"connection", "gatt", "cancelled", "crc", "timeout"}
           => Result' = Access!Ended("failed")
      /\ outcome'.kind = "ok" => Result' = [kind |-> "done", fc |-> outcome'.fc,
                                            val |-> outcome'.val]
  BY <1>3 DEF Result
<1>5. \A kind : Outcome(kind).kind = kind
  BY DEF Outcome
<1>6. UNCHANGED outcome => UNCHANGED Result
  BY DEF Result
<1>7. CASE UNCHANGED vars
  BY <1>1, <1>7 DEF vars
<1>8. CASE Connect \/ ConnectFails \/ ConnectCancelled \/ Subscribed \/ SubscribeFails
  <2>1. ~InCall /\ ~InCall' /\ UNCHANGED <<reg, held, call, clean, request>>
    BY <1>8 DEF Connect, ConnectFails, ConnectCancelled, Subscribed, SubscribeFails
  <2>2. Result' \in {Access!Ended("none"), Access!Ended("failed")}
    BY <1>8, <1>4, <1>5 DEF Connect, ConnectFails, ConnectCancelled, Subscribed,
                               SubscribeFails, NoOutcome
  <2> QED BY <2>1, <2>2 DEF Access!Next, Access!Connect
<1>9. CASE LinkUp \/ Disconnect \/ LinkDrops \/ NotificationLost \/ Sent \/ Notified
           \/ StationRefuses
  <2>1. same
    BY <1>9 DEF LinkUp, Disconnect, LinkDrops, NotificationLost, Sent, Notified,
                StationRefuses, QueueSurvivesOrNot
  <2>2. InCall' <=> InCall
    BY <1>9 DEF LinkUp, Disconnect, LinkDrops, NotificationLost, Sent, Notified,
                StationRefuses
  <2> HIDE DEF same, InCall
  <2> QED BY <1>1, <2>1, <2>2
<1>10. ASSUME NEW fc \in FunctionCodes, NEW val \in Values \cup {Garbled}, Call(fc, val)
       PROVE  Access!Begin
  <2>1. ~InCall /\ call' = call + 1 /\ held' = {reg} /\ clean' \in BOOLEAN /\ reg' = reg
    BY <1>2, <1>10 DEF Call, TypeOK
  <2>2. CASE IsConnected
    <3>1. InCall' /\ outcome' = NoOutcome
      BY <1>10, <2>2 DEF Call
    <3>2. Result' = Access!Ended("none")
      BY <3>1, <1>4, <1>5 DEF NoOutcome
    <3>3. ask' \in Access!Accesses
      <4>1. request' \in Requests
        BY <1>2 DEF TypeOK
      <4> QED BY <4>1 DEF Requests, Access!Accesses
    <3> QED BY <2>1, <3>1, <3>2, <3>3 DEF Access!Begin
  <2>3. CASE ~IsConnected
    <3>1. outcome' = Outcome("connection") /\ UNCHANGED <<pc, request>>
      BY <1>10, <2>3 DEF Call
    <3>2. Result' = Access!Ended("failed")
      BY <3>1, <1>4, <1>5
    <3> QED BY <2>1, <3>1, <3>2 DEF Access!Begin
  <2> QED BY <2>2, <2>3
<1>11. CASE SendFails \/ Cancelled
  <2>1. InCall /\ ~InCall' /\ UNCHANGED <<reg, held, call, clean, request>>
    BY <1>11 DEF SendFails, Cancelled
  <2>2. Result' = Access!Ended("failed")
    BY <1>11, <1>4, <1>5 DEF SendFails, Cancelled
  <2> QED BY <2>1, <2>2 DEF Access!Next, Access!Fail
<1>12. CASE TimesOut
  <2>1. CASE attempt = MaxRetries
    <3>1. InCall /\ ~InCall' /\ UNCHANGED <<reg, held, call, clean, request>>
      BY <1>12, <2>1 DEF TimesOut, RetryUnless
    <3>2. Result' = Access!Ended("failed")
      BY <1>12, <2>1, <1>4, <1>5 DEF TimesOut, RetryUnless
    <3> QED BY <3>1, <3>2 DEF Access!Next, Access!Fail
  <2>2. CASE attempt # MaxRetries
    BY <1>1, <1>12, <2>2 DEF TimesOut, RetryUnless
  <2> QED BY <2>1, <2>2
<1>13. CASE Finish
  <2>1. InCall /\ ~InCall' /\ UNCHANGED <<reg, held, call, clean, request>>
    BY <1>13 DEF Finish
  <2>2. CASE future # "result"
    <3>1. Result' = Access!Ended("failed")
      BY <1>13, <2>2, <1>4, <1>5 DEF Finish
    <3> QED BY <2>1, <3>1 DEF Access!Next, Access!Fail
  <2>3. CASE future = "result"
    <3>1. outcome'.kind = "ok"
      BY <1>13, <2>3 DEF Finish
    <3>2. /\ outcome'.fc = request.fc /\ outcome'.val \in Values
          /\ clean => outcome'.val \in held
          /\ clean /\ request.fc = WriteRegister => outcome'.val = request.val
      BY <2>1, <3>1 DEF IInv, ExchangeSafety, ReturnsTheRightBank, NeverGarbled,
                        CleanCallIsTruthful
    <3>3. Result' = [kind |-> "done", fc |-> request.fc, val |-> outcome'.val]
      BY <3>1, <3>2, <1>4
    <3>4. ask.fc = request.fc /\ ask.val = request.val
      OBVIOUS
    <3> QED BY <2>1, <3>2, <3>3, <3>4 DEF Access!Next, Access!Succeed
  <2> QED BY <2>2, <2>3
<1>14. CASE StationAnswers \/ PanelChange
  <2>1. reg' \in Values /\ held' = held \cup {reg'}
        /\ UNCHANGED <<call, clean, pc, request, outcome>>
    BY <1>2, <1>14 DEF StationAnswers, PanelChange, TypeOK
  <2> QED BY <2>1, <1>6 DEF Access!Next, Access!Change
<1>15. CASE Accesses
  BY <1>10, <1>15 DEF Accesses, FunctionCodes, Access!Next
<1> QED BY <1>7, <1>8, <1>9, <1>11, <1>12, <1>13, <1>14, <1>15
        DEF Next, User, ClientStep, Station, Radio

(* The exchange keeps the promise of RegisterAccess for all values of the  *)
(* constants: however many retries, reconnections and stale, split or      *)
(* damaged notifications an access takes, its caller sees it begin and end *)
(* once, with a result it may rely on (device.py, _send).                  *)
THEOREM Implements == Spec => ImplementsRegisterAccess
<1>1. IInv /\ IInv' /\ [Next]_vars => [Access!Next]_(Access!vars)
  BY StepMaps
<1> QED BY <1>1, InitMaps, Inductive, PTL DEF Spec, ImplementsRegisterAccess, Access!Spec
===============================================================================
