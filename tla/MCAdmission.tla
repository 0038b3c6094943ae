---------------------------- MODULE MCAdmission ----------------------------
(* Small instances of Admission.  Tasks of one kind are interchangeable,   *)
(* and so are the release calls.                                           *)
EXTENDS Admission, TLC

Symmetry ==
    Permutations(ImplTasks) \cup Permutations(Tasks \ ImplTasks)
    \cup Permutations(Calls)
=============================================================================
