---------------------------- MODULE MCAdminRollout ----------------------------
(* Instances of AdminRollout: two or three members, one or two requests with
   different canaries.                                                       *)
EXTENDS AdminRollout

CONSTANTS m1, m2, m3, r1, r2

Canaries == [r \in Requests |-> IF r = r1 THEN m1 ELSE m2]

NobodyRejects == [r \in Requests |-> {}]

EverybodyRejects == [r \in Requests |-> Members]
===============================================================================
