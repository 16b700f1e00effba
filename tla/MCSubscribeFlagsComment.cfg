SPECIFICATION Spec
INVARIANT AllOrStockIsThree
