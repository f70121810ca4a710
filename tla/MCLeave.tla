------------------------------ MODULE MCLeave -------------------------------
(* Model-checking instance of Leave: sets of model values and symmetry.    *)
EXTENDS Leave, TLC

(* Adjustments of either sign; a .cfg cannot write a negative number. *)
MCAdjustments == {-1}

MCSymmetry == Permutations(Requests) \cup Permutations(Sessions)
=============================================================================
