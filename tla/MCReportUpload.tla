--------------------------- MODULE MCReportUpload ---------------------------
(* Instances of ReportUpload for TLC: users, pushes and whose they are.    *)
EXTENDS ReportUpload

CONSTANTS ada, bob, p1, p2, p3

OneUser  == {ada}
TwoUsers == {ada, bob}

OnePush   == {p1}
ThreePushes == {p1, p2, p3}
ForAda    == [p \in Pushes |-> ada]

(* Pushes to one user are alike. *)
Alike == Permutations(Pushes)
=============================================================================
