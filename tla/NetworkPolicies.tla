-------------------------- MODULE NetworkPolicies --------------------------
(***************************************************************************)
(* The NetworkPolicies of indexer, managers and dashboard: who may talk to *)
(* whom while the user switches them on and off and the operator follows.  *)
(* A policy names pods by their app.kubernetes.io/name label.              *)
(***************************************************************************)
EXTENDS Naturals, Sequences, TLC

CONSTANTS PolicyEdits, PolicyFaults

VARIABLES
  policyOn,     \* the components with networkPolicy.enabled
  policies,     \* the NetworkPolicies that exist
  policyStep,   \* 0, or the component the reconcile is at
  policyView,   \* the specification the pass has read
  policyEdits, policyFaults
policyVars ==
  <<policyOn, policies, policyStep, policyView, policyEdits, policyFaults>>

Components == {"indexer", "manager", "dashboard"}
Order == <<"indexer", "manager", "dashboard">>

\* The component the pods are labelled with (CommonLabels), and the one the
\* builders of the policies select by (SelectorLabels of the Component names).
PodLabel ==
  [c \in Components |-> IF c = "manager" THEN "wazuh-manager" ELSE c]
Selector == [c \in Components |-> c]

\* The default rules, without the ports: for the pods a policy selects, the
\* labels of those they may hear from and talk to.
Policy(pods, from, to) == [pods |-> pods, from |-> from, to |-> to]
AnySource == {"indexer", "manager", "wazuh-manager", "dashboard"}

\* Mutant: the dashboard is not admitted.
BuildWithoutDashboard ==
  Policy(Selector["indexer"], {Selector["indexer"], Selector["manager"]},
         {Selector["indexer"]})
BuildIndexerNetworkPolicy ==
  Policy(Selector["indexer"],
         {Selector["indexer"], Selector["manager"], Selector["dashboard"]},
         {Selector["indexer"]})
BuildManagerNetworkPolicy ==
  Policy(Selector["manager"], {Selector["manager"], Selector["dashboard"]},
         {Selector["indexer"], Selector["manager"]})
BuildDashboardNetworkPolicy ==
  Policy(Selector["dashboard"], AnySource,
         {Selector["indexer"], Selector["manager"]})

Build ==
  "indexer" :> BuildIndexerNetworkPolicy @@
  "manager" :> BuildManagerNetworkPolicy @@
  "dashboard" :> BuildDashboardNetworkPolicy

\* A pod that some policy selects talks only to whom one of them allows
\* (Kubernetes).
Covering(c) == {p \in {Build[q] : q \in policies} : p.pods = PodLabel[c]}
Connected(a, b) ==
  /\ Covering(a) = {} \/ \E p \in Covering(a) : PodLabel[b] \in p.to
  /\ Covering(b) = {} \/ \E p \in Covering(b) : PodLabel[a] \in p.from

\* Shards, the events Filebeat ships, the dashboard's queries, the cluster of
\* the managers, the API.
Links ==
  {<<"indexer", "indexer">>, <<"manager", "indexer">>,
   <<"dashboard", "indexer">>, <<"manager", "manager">>,
   <<"dashboard", "manager">>}

-----------------------------------------------------------------------------
Init ==
  /\ policyOn = {} /\ policies = {} /\ policyStep = 0 /\ policyView = {}
  /\ policyEdits = 0 /\ policyFaults = 0

Toggle ==
  /\ policyEdits < PolicyEdits /\ policyEdits' = policyEdits + 1
  /\ \E c \in Components :
       policyOn' = IF c \in policyOn THEN policyOn \ {c} ELSE policyOn \cup {c}
  /\ UNCHANGED <<policies, policyStep, policyView, policyFaults>>

Begin ==
  /\ policyStep = 0 /\ policyStep' = 1 /\ policyView' = policyOn
  /\ UNCHANGED <<policyOn, policies, policyEdits, policyFaults>>

\* One component after the other: the policy is written or, switched off,
\* deleted.  An error ends the reconcile.
reconcileNetworkPolicy ==
  LET c == Order[policyStep]
  IN  /\ policyStep > 0
      /\ \/ /\ policies' = IF c \in policyView THEN policies \cup {c}
                           ELSE policies \ {c}
            /\ policyStep' = (policyStep + 1) % (Len(Order) + 1)
            /\ UNCHANGED policyFaults
         \/ /\ policyFaults < PolicyFaults /\ policyFaults' = policyFaults + 1
            /\ policyStep' = 0 /\ UNCHANGED policies
      /\ UNCHANGED <<policyOn, policyView, policyEdits>>

Operator == Begin \/ reconcileNetworkPolicy
Next == Toggle \/ Operator

Spec == Init /\ [][Next]_policyVars /\ WF_policyVars(Operator)

-----------------------------------------------------------------------------
TypeOK ==
  /\ policyOn \subseteq Components /\ policies \subseteq Components
  /\ policyView \subseteq Components /\ policyStep \in 0..Len(Order)
  /\ policyEdits \in 0..PolicyEdits /\ policyFaults \in 0..PolicyFaults

\* Whatever combination of policies there is on the way, the indexers keep
\* each other and the dashboard, and the managers keep each other; the managers
\* are cut off only by the policy of the other end, which does not know their
\* label.
LinksKept ==
  \A l \in Links :
    \/ Connected(l[1], l[2])
    \/ l = <<"manager", "indexer">> /\ "indexer" \in policies
    \/ l = <<"dashboard", "manager">> /\ "dashboard" \in policies

PoliciesFollowed == policies = policyOn

=============================================================================
