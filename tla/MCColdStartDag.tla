---------------------------- MODULE MCColdStartDag ----------------------------
(* Four stages of different needs, in every order their dependencies may give. *)
EXTENDS ColdStartDag, FiniteSetsExt

MCStages == 1..4
\* Every relation among three stages, and a fourth that depends on some of them.
MCPlans ==
  {d \in [MCStages -> SUBSET (1..3)] :
     /\ \A s \in 1..3 : s \notin d[s] \/ d[s] = {s}
     /\ d[4] \in {{}, {1}, {2, 3}}}
MCHosts == {[cpu |-> 1, rss |-> 3], [cpu |-> 2, rss |-> 3], [cpu |-> 4, rss |-> 4]}
MCCpu == <<1, 1, 2, 1>>
MCRss == <<1, 2, 1, 2>>
MCClass == <<"java", "java", "java", "link">>
MCInstances == <<2, 1, 2, 1>>
MCKey == <<"repo", "none", "none", "repo">>
MCTotalCpu == [S \in SUBSET MCStages |-> MapThenSumSet(LAMBDA s : MCCpu[s], S)]
MCTotalRss == [S \in SUBSET MCStages |-> MapThenSumSet(LAMBDA s : MCRss[s], S)]
=============================================================================
