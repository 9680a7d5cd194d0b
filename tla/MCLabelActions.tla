---------------------------- MODULE MCLabelActions ----------------------------
(* Small instances of LabelActions for TLC.                                *)
EXTENDS LabelActions, TLC

Symmetry ==
  Permutations(Messages) \cup Permutations(Workers) \cup Permutations(Actions)

===============================================================================
