--------------------------- MODULE MCRolloutProgress ---------------------------
(* The progress of a rollout under the fairness of AdminRollout, while no process
   stops.  A behaviour is hurried or unhurried from the start: in hurried ones
   members refuse and phases expire; in unhurried ones coordinators fence each
   other, members answer, and no deadline passes.                             *)
EXTENDS AdminRollout

CONSTANTS m1, m2, r1

VARIABLE hurried

progressVars == <<vars, hurried>>

FirstMember == [r \in Requests |-> m1]

NobodyRejects == [r \in Requests |-> {}]

Unhurried == INSTANCE AdminRollout WITH Faults <- {"lease"}, MaxEpoch <- 2

Steps(quick, slow) == UNCHANGED hurried /\ ((hurried /\ quick) \/ (~hurried /\ slow))

ProgressFairness ==
  /\ \A m \in Members :
       /\ WF_progressVars(Steps(Coordinator(m), Unhurried!Coordinator(m)))
       /\ WF_progressVars(Steps(MemberLoop(m), Unhurried!MemberLoop(m)))
  /\ \A r \in Requests : WF_progressVars(Steps(Age(r), Unhurried!Age(r)))

ProgressInit == Init /\ hurried \in BOOLEAN

ProgressSpec == ProgressInit /\ [][Steps(Next, Unhurried!Next)]_progressVars /\ ProgressFairness
================================================================================
