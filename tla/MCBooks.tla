-------------------------------- MODULE MCBooks --------------------------------
EXTENDS Books, Instruments, TLC

Symmetry == Permutations(Accounts)

\* Every code of a repo table's prefixes; for the codes that are also Hong Kong
\* numbers, the last two digits at which some range ends; one code for the other
\* prefixes, and one of eight digits for each.
Tails(p) == CASE p \in 2040 .. 2049 \cup {1318} -> 0 .. 99
              [] p < 1000 -> {0, 1, 29, 30, 43, 44, 49, 50, 99}
              [] OTHER -> {0}
MCIds ==
  UNION {{[prefix |-> p, tail |-> t, length |-> 6] : t \in Tails(p)} : p \in 0 .. 9999} \cup
  {[prefix |-> p, tail |-> 0, length |-> 8] : p \in 0 .. 9999}

\* The books are kept by instrument type, so the functions that find the type
\* must agree (is_repo, is_convertible_bond, get_instrument_type, the tables of
\* repo terms, the products of the futures exchanges): looked at once, where the
\* runs begin.
TypesAgree == Init => TablesAgree

\* The type of a code, and the exchange of a product, do not depend on the order
\* of the rules (HKCodeRule, get_exchange_id_from_future_instrument_id).
TypesAreUnique == Init => OneRulePerCode
================================================================================
