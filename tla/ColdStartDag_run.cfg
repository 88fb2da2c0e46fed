SPECIFICATION FairSpec
CONSTANTS
  Stages <- MCStages
  Plans <- MCPlans
  Hosts <- MCHosts
  Cpu <- MCCpu
  Rss <- MCRss
  Class <- MCClass
  Instances <- MCInstances
  Key <- MCKey
  NoKey = "none"
  TotalCpu <- MCTotalCpu
  TotalRss <- MCTotalRss
  MaxWait = 3
INVARIANTS
  AcceptedIffAcyclic
  WithinBudget
  DependenciesFirst
  NeverLost
  QuietAtReturn
  NobodyBlocks
PROPERTIES
  Returns
CHECK_DEADLOCK FALSE
