----------------------- MODULE MCAdmissionNotification ----------------------
(* Small instances of AdmissionNotification for TLC. *)
EXTENDS AdmissionNotification

CONSTANTS a1, a2, t1, t2, t3

MCAppOf == [t \in Token |-> IF t = t3 THEN a2 ELSE a1]
OneDelay == <<1>>
=============================================================================
