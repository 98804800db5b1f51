---------------------------- MODULE RegisterAccess ----------------------------
(***************************************************************************)
(* What sydpower.SydpowerDevice promises its callers about one register:   *)
(* an access begins, the station's register may change meanwhile, and the  *)
(* access ends with a result or fails.  Connections, packets, buffers,     *)
(* retries and the station's queue do not exist here.                      *)
(*                                                                         *)
(* The promise is as strong as the code can keep it.  Replies carry no     *)
(* identification, so only an access that begins with nothing outstanding  *)
(* tells the truth; any other access returns some content of the register  *)
(* in a reply of the right kind.                                           *)
(***************************************************************************)
EXTENDS Naturals

CONSTANTS Values,         \* contents of the register
          Nothing,        \* the value of an access that has none
          ReadCodes,      \* function codes of the reads
          WriteCode       \* function code of the write

VARIABLES
  reg,     \* the station's register
  held,    \* its contents since the current access began
  call,    \* number of the current or last access
  clean,   \* nothing was outstanding when it began
  busy,    \* is it under way?
  asked,   \* what it asks for
  result   \* how the last access ended

vars == <<reg, held, call, clean, busy, asked, result>>

Accesses == [fc : ReadCodes, val : {Nothing}] \cup [fc : {WriteCode}, val : Values]
Ended(kind) == [kind |-> kind, fc |-> Nothing, val |-> Nothing]

Init ==
  /\ reg \in Values /\ held = {reg} /\ call = 0 /\ clean = TRUE
  /\ busy = FALSE /\ asked \in Accesses /\ result = Ended("none")

(* The caller asks; without a connection the access fails at once. *)
Begin ==
  /\ ~busy /\ call' = call + 1 /\ held' = {reg} /\ clean' \in BOOLEAN
  /\ \/ busy' = TRUE /\ asked' \in Accesses /\ result' = Ended("none")
     \/ result' = Ended("failed") /\ UNCHANGED <<busy, asked>>
  /\ UNCHANGED reg

(* A write is carried out, perhaps one given up long ago, or the front     *)
(* panel is used.                                                          *)
Change ==
  /\ reg' \in Values /\ held' = held \cup {reg'}
  /\ UNCHANGED <<call, clean, busy, asked, result>>

(* The access succeeds, with a value of the register. *)
Succeed ==
  /\ busy /\ busy' = FALSE
  /\ \E val \in Values :
       /\ result' = [kind |-> "done", fc |-> asked.fc, val |-> val]
       /\ clean => val \in held /\ (asked.fc = WriteCode => val = asked.val)
  /\ UNCHANGED <<reg, held, call, clean, asked>>

Fail ==
  /\ busy /\ busy' = FALSE /\ result' = Ended("failed")
  /\ UNCHANGED <<reg, held, call, clean, asked>>

(* Connecting, between accesses, forgets the last result. *)
Connect ==
  /\ ~busy /\ result' \in {Ended("none"), Ended("failed")}
  /\ UNCHANGED <<reg, held, call, clean, busy, asked>>

Next == Begin \/ Change \/ Succeed \/ Fail \/ Connect

Spec == Init /\ [][Next]_vars
===============================================================================
