-------------------------- MODULE MCComponentProgress --------------------------
(* Durable operations and the first epoch of the membership, each under the
   fairness of its own module.  A behaviour picks what it follows at the start:
   the membership of a cluster that has no epoch yet, or an operation under one
   of the scenarios.                                                          *)
EXTENDS StagedMembership, AdminOperations

CONSTANTS m1, m2, m3, w1, w2, o1

VARIABLE scenario

componentVars == <<memberVars, opVars, scenario>>

Scenario(workers, faults, kinds, boots, cancels) ==
  [workers |-> workers, faults |-> faults, kinds |-> kinds, boots |-> boots, cancels |-> cancels]

\* the other instance never takes part in the second
OpScenarios ==
  { Scenario({w1, w2}, {"pause"}, {"warm"}, 1, 0),
    Scenario({w1}, {"stop", "fail", "replay", "anchor"}, OpKinds, MaxOpBoots, MaxCancels),
    Scenario({w1, w2}, {"stop"}, {"warm"}, 2, 0) }

MembershipOnly == Scenario({}, {}, {}, 0, 0)

Under(s) == INSTANCE AdminOperations
              WITH Workers <- s.workers, OpFaults <- s.faults, OpKinds <- s.kinds,
                   MaxOpBoots <- s.boots, MaxCancels <- s.cancels

ComponentInit ==
  /\ MembershipInit /\ OperationInit
  /\ scenario \in OpScenarios \cup {MembershipOnly}

OperationStep(s) == scenario = s /\ Under(s)!OperationNext /\ UNCHANGED <<memberVars, scenario>>

MembershipStep == scenario = MembershipOnly /\ MembershipNext /\ UNCHANGED <<opVars, scenario>>

ComponentNext == MembershipStep \/ \E s \in OpScenarios : OperationStep(s)

Follows(w) == w \in scenario.workers /\ UNCHANGED <<memberVars, scenario>>

ComponentFairness ==
  /\ \A t \in Requests :
       WF_componentVars(scenario = MembershipOnly /\ Finalize(t) /\ UNCHANGED <<opVars, scenario>>)
  /\ \A w \in Workers : WF_componentVars(Follows(w) /\ StartWorker(w))
  /\ \A w \in Workers, o \in Ops : WF_componentVars(Follows(w) /\ SweepStep(w, o))
  /\ \A o \in Ops : WF_componentVars(Follows(w1) /\ LifetimeExpires(o))

ComponentSpec == ComponentInit /\ [][ComponentNext]_componentVars /\ ComponentFairness
================================================================================
