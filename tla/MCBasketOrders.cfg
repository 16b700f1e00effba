SPECIFICATION FairBasketSpec
CONSTANTS
  Orders = {o1, o2}
  Volume = 3
INVARIANT EndMeansNothingMore
PROPERTY EndIsSeen
