----------------------------- MODULE MCEntryOptions -----------------------------
(* EntryOptions with what TLC needs: the dialogs are interchangeable.        *)
EXTENDS EntryOptions, TLC

Symmetry == Permutations(Dialogs)
===============================================================================
