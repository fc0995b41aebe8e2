---------------------------- MODULE LogicalRevision ----------------------------
(* What the mutation ledger promises about one logical resource: its committed
   revision advances along a chain of admitted requests, one at a time; a
   request that neither commits nor is provably undone blocks the resource.   *)
CONSTANTS Requests, Base, None

VARIABLES
  committed,  \* the committed revision
  pending,    \* the request that reserves the resource, or None
  outcome,    \* per request: absent, open, committed, released or blocked
  prior       \* per request: the revision it was admitted against

revisionVars == <<committed, pending, outcome, prior>>

RevisionInit ==
  /\ committed = Base
  /\ pending = None
  /\ outcome = [r \in Requests |-> "absent"]
  /\ prior = [r \in Requests |-> Base]

Claim(r) ==
  /\ pending = None /\ outcome[r] = "absent"
  /\ pending' = r
  /\ outcome' = [outcome EXCEPT ![r] = "open"]
  /\ prior' = [prior EXCEPT ![r] = committed]
  /\ UNCHANGED committed

Commit(r) ==
  /\ pending = r /\ outcome[r] = "open" /\ prior[r] = committed
  /\ committed' = r
  /\ pending' = None
  /\ outcome' = [outcome EXCEPT ![r] = "committed"]
  /\ UNCHANGED prior

Release(r) ==
  /\ pending = r /\ outcome[r] = "open"
  /\ pending' = None
  /\ outcome' = [outcome EXCEPT ![r] = "released"]
  /\ UNCHANGED <<committed, prior>>

(* The reservation stays: nothing is admitted after it. *)
Block(r) ==
  /\ pending = r /\ outcome[r] = "open"
  /\ outcome' = [outcome EXCEPT ![r] = "blocked"]
  /\ UNCHANGED <<committed, pending, prior>>

RevisionNext == \E r \in Requests : Claim(r) \/ Commit(r) \/ Release(r) \/ Block(r)

RevisionSpec == RevisionInit /\ [][RevisionNext]_revisionVars
===============================================================================
