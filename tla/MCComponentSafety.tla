--------------------------- MODULE MCComponentSafety ---------------------------
(* The components that share no state with one another, side by side: a
   behaviour picks one of them at the start and follows it alone.            *)
EXTENDS RolloutDecision, UploadStore, StagedMembership, GatewayController, TLC

CONSTANTS m1, m2, m3, u1, t1, t2, p1, p2, a, b

VARIABLE part

decisionVars == <<snap, verdict>>

componentVars == <<decisionVars, uploadVars, memberVars, gatewayVars, part>>

(* The snapshot of the parts that are not about decisions. *)
JustClaimed ==
  [st |-> "claimed", tg |-> [m \in Members |-> [st |-> "pending", eff |-> FALSE]],
   exact |-> TRUE, timedOut |-> FALSE, observed |-> FALSE]

PlainAndDictionary ==
  {[dictionary |-> FALSE, upstream |-> TRUE], [dictionary |-> TRUE, upstream |-> FALSE]}

\* the tasks of the uploads double as the replicas of the controller
Interchangeable == Permutations(Tasks) \cup Permutations(Pods) \cup Permutations(Revisions)

ComponentInit ==
  /\ UploadInit /\ MembershipInit /\ GatewayInit
  /\ part \in {"decision", "upload", "membership", "gateway"}
  /\ IF part = "decision" THEN DecisionInit ELSE snap = JustClaimed /\ verdict = Undecided

ComponentNext ==
  /\ UNCHANGED part
  /\ \/ part = "decision" /\ Reconcile /\ UNCHANGED <<uploadVars, memberVars, gatewayVars>>
     \/ part = "upload" /\ UploadNext /\ UNCHANGED <<decisionVars, memberVars, gatewayVars>>
     \/ part = "membership" /\ MembershipNext /\ UNCHANGED <<decisionVars, uploadVars, gatewayVars>>
     \/ part = "gateway" /\ GatewayNext /\ UNCHANGED <<decisionVars, uploadVars, memberVars>>

ComponentSpec == ComponentInit /\ [][ComponentNext]_componentVars
================================================================================
