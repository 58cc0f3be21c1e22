------------------------------ MODULE MCDoctor ------------------------------
(* Doctor on a small instance. *)
EXTENDS Doctor

CONSTANTS t1, t2, p1, portal, app

Sound == [routes |-> TRUE, tls |-> "valid", issuer |-> "serves", registry |-> "pulls", discovery |-> "serves"]

MCOutsides ==
  {Sound,
   [routes |-> FALSE, tls |-> "rejected", issuer |-> "fails", registry |-> "refuses",
    discovery |-> "newer"]}

MCLibraries ==
  {[titles |-> {}, packaged |-> {}],
   [titles |-> {t1, t2}, packaged |-> {t1, t2}]}

MCDetailSizes == {[ok |-> 50, skip |-> 100, warn |-> 250, fail |-> 600]}

=============================================================================
