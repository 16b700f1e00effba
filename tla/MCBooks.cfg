CONSTANTS
  Accounts = {a1, a2}
  Strategies = {s1}
  Types = {"Stock", "Future", "Warrant"}
  WithMethod = {"Stock", "Future"}
  MaxTrades = 3
  Ids <- MCIds
  MaxWaiting = 2
SYMMETRY Symmetry
SPECIFICATION Spec
CHECK_DEADLOCK FALSE
INVARIANTS BooksMatchTrades ToldIsCurrent OrdinaryTradesNeverStop TypesAgree TypesAreUnique
