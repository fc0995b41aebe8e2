---------------------------- MODULE MCRolloutFaults ----------------------------
(* AdminRollout under one scenario of faults after another: a behaviour picks its
   scenario at the start and keeps it.  The constants of the configuration are
   the largest of the scenarios, whose own values instantiate the actions.   *)
EXTENDS AdminRollout

CONSTANTS m1, m2, r1, r2

VARIABLE scenario

Canaries == [r \in Requests |-> IF r = r1 THEN m1 ELSE m2]

NobodyRejects == [r \in Requests |-> {}]

Scenario(faults, requests, boots, epochs, etags) ==
  [faults |-> faults, requests |-> requests, boots |-> boots, epochs |-> epochs,
   etags |-> etags]

(* Four etags are an apply, its rollback and the same rollback once more. *)
Scenarios ==
  { Scenario({"lease", "reject"}, {r1}, 1, 2, 4),   \* refusals; coordinators fence each other
    Scenario({"timeout"}, {r1, r2}, 1, 1, 4),       \* a request after an overdue one
    Scenario({"stop"}, {r1}, 2, 3, 4),              \* processes stop and boot again
    Scenario({"store"}, {r1}, 1, 1, 3),             \* store calls fail or lose answers
    Scenario({"lapse"}, {r1}, 1, 1, 4) }            \* running members miss heartbeats

Under(s) == INSTANCE AdminRollout
              WITH Faults <- s.faults, Requests <- s.requests, MaxBoots <- s.boots,
                   MaxEpoch <- s.epochs, MaxEtag <- s.etags

ScenarioInit == scenario \in Scenarios /\ Init

(* A second request is followed up to its admission. *)
ScenarioNext ==
  \E s \in Scenarios :
    /\ scenario = s /\ UNCHANGED scenario
    /\ Under(s)!Next
    /\ mut'[r2].st \in {"absent", "claimed"}

ScenarioSpec == ScenarioInit /\ [][ScenarioNext]_<<vars, scenario>>

(* A call that fails after a local step has its worker do the step again, and a
   rollback done again swaps the process's two snapshots back (executor.rollback).
   A boot, an apply and one rollback leave a process at its third etag.       *)
Twice(m) == /\ {"lapse", "store"} \cap scenario.faults # {}
            /\ proc[m].etag > 3

(* A rollout reported as rolled back finds every running process on the
   configuration it started from (verify_restored), except one that restored it
   more than once because the publication after a restore failed.             *)
RestoredUnlessTwice ==
  [][\A r \in Requests : mut[r].st # "rolled_back" /\ mut'[r].st = "rolled_back" =>
       \A m \in Members : proc[m].up /\ ~Twice(m) => proc[m].active = mut[r].prior]_<<vars, scenario>>

(* A ready head of a member without work names what its process runs, with the
   same exception, as long as store calls succeed: after one that failed, a
   restarted member loop publishes again the head observed when the process
   booted (activate_resource_heads), and a rollout that ends blocked may leave a
   restored process without its publication.                                  *)
SettledUnlessTwice ==
  "store" \notin scenario.faults =>
    \A m \in Members : HeadTruthful(m) \/ Twice(m)
================================================================================
