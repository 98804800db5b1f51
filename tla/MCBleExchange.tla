---------------------------- MODULE MCBleExchange ----------------------------
(* Model-checking instance of BleExchange: register contents are interchangeable. *)
EXTENDS BleExchange, TLC

ValueSymmetry == Permutations(Values)
==============================================================================
