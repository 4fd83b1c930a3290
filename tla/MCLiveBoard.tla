---------------------------- MODULE MCLiveBoard ----------------------------
(* Model-checking instances of LiveBoard. *)
EXTENDS LiveBoard, TLC

Symmetry == Permutations(Players)

==============================================================================
