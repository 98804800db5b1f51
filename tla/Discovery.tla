------------------------------- MODULE Discovery -------------------------------
(***************************************************************************)
(* The two programs that look for stations: the command line and the       *)
(* integration.  They share nothing but the air, so that a behaviour of    *)
(* both is a behaviour of each, and a behaviour here is of one of them.    *)
(***************************************************************************)
EXTENDS CommandLine, ConfigFlow

VARIABLE program
discoveryVars == <<program, cliVars, flowVars>>

Init == CliInit /\ FlowInit /\ program \in {"sydpower", "homeassistant"}

Next == \/ program = "sydpower"      /\ CliNext  /\ UNCHANGED <<program, flowVars>>
        \/ program = "homeassistant" /\ FlowNext /\ UNCHANGED <<program, cliVars>>

Spec == Init /\ [][Next]_discoveryVars

(* A dump prints only what was asked for, a flow that has chosen a station *)
(* was told of that station, and a check passed before an entry was made   *)
(* is by a flow for that station.                                          *)
TypeOK ==
  /\ phase \in {"scan", "read", "print", "ended"}
  /\ \A b \in ToSet(Banks) : b \notin banks => snapshot[b] = None /\ current[b] = None
  /\ phase = "print" => \A b \in banks : current[b] # None
  /\ \A f \in Flows :
       /\ flow[f].step \in {"none", "confirm", "choose", "resolving"}
       /\ flow[f].step \in {"confirm", "resolving"} => flow[f].info.address = flow[f].unique
       /\ flow[f].step \in {"none", "choose"} => flow[f].unique = None
  /\ \A a \in Addresses : raced[a] # {} => entries[a] # None
===============================================================================
