----------------------------- MODULE Instruments -----------------------------
(***************************************************************************)
(* What kind of instrument a code stands for (wingchun/common.h).  Several *)
(* functions answer from tables of their own: get_instrument_type, the     *)
(* predicates is_repo and is_convertible_bond, the two tables of repo      *)
(* terms, the Hong Kong ranges, and the table that finds the exchange of a *)
(* futures contract.  Nothing in the code ties one table to another; the   *)
(* properties here do.                                                     *)
(*                                                                         *)
(* A code of six or eight digits is its first four digits, its fifth and   *)
(* sixth, and its length; a contract of a future is its product.           *)
(***************************************************************************)
EXTENDS Integers, FiniteSets

CONSTANT Ids        \* the codes looked at
ASSUME IdsAssumption ==
  \A i \in Ids : /\ i.prefix \in Nat /\ i.prefix <= 9999
                 /\ i.tail \in Nat /\ i.tail <= 99

StockExchanges == {"US", "SGX", "LON", "AEX", "AUX", "HEXS", "IDX", "MYS", "PRX", "SIX",
                   "TAX", "JP", "TSE", "EUR"}
FutureExchanges == {"DCE", "SHFE", "CFFEX", "CZCE", "INE",
                    "HKFUT", "USFUT", "SGXFUT", "LONFUT", "AEXFUT", "AUXFUT", "HEXSFUT",
                    "IDXFUT", "KORC", "LME", "MYSFUT", "ABB", "PRXFUT", "SIXFUT", "TAXFUT",
                    "JPFUT", "TSEFUT", "XETRA", "EURFUT"}

Number(i) == 100 * i.prefix + i.tail
\* startswith, string_equals_n: the first n digits of the code
First(i, n) == i.prefix \div <<1000, 100, 10, 1>>[n]

is_convertible_bond(x, i) ==
  \/ x = "SZE" /\ First(i, 3) \in {117, 123, 125, 126, 127, 128}
  \/ x = "SSE" /\ First(i, 3) \in {110, 113}

is_repo(x, i) ==
  \/ x = "SSE" /\ First(i, 3) = 204
  \/ x = "SZE" /\ First(i, 4) = 1318

\* The commission rate of a repo in units of 0.00001, 0 for any other code
get_repo_commission_rate(i) ==
  CASE Number(i) \in {204001, 131810} -> 1  [] Number(i) \in {204002, 131811} -> 2
    [] Number(i) \in {204003, 131800} -> 3  [] Number(i) \in {204004, 131809} -> 4
    [] Number(i) \in {204007, 131801} -> 5  [] Number(i) \in {204014, 131802} -> 10
    [] Number(i) \in {204029, 131803} -> 20 [] Number(i) \in {204091, 131805} -> 30
    [] Number(i) \in {204182, 131806} -> 30
    [] OTHER -> 0

get_repo_expire_days(i) ==
  CASE Number(i) \in {204001, 131810} -> 1  [] Number(i) \in {204002, 131811} -> 2
    [] Number(i) \in {204003, 131800} -> 3  [] Number(i) \in {204004, 131809} -> 4
    [] Number(i) \in {204007, 131801} -> 7  [] Number(i) \in {204014, 131802} -> 14
    [] Number(i) \in {204029, 131803} -> 28 [] Number(i) \in {204091, 131805} -> 91
    [] Number(i) \in {204182, 131806} -> 182
    [] OTHER -> 0

\* HKCodeRule: the ranges of Hong Kong codes, by type
FundRanges_OnePast ==
  {<<2800, 2849>>, <<3000, 3199>>, <<3400, 3499>>, <<9000, 9200>>, <<9400, 9500>>, <<9800, 9850>>,
   <<82800, 82850>>, <<83000, 83200>>, <<83400, 83500>>, <<87000, 87100>>}
FundRanges ==
  {<<2800, 2849>>, <<3000, 3199>>, <<3400, 3499>>, <<9000, 9199>>, <<9400, 9499>>, <<9800, 9849>>,
   <<82800, 82849>>, <<83000, 83199>>, <<83400, 83499>>, <<87000, 87099>>}
HKRules ==
  [Fund        |-> FundRanges,
   Bond        |-> {<<4000, 4199>>, <<4200, 4299>>, <<4300, 4329>>, <<4400, 4599>>,
                    <<5000, 6029>>, <<40000, 40999>>, <<4700, 4799>>, <<6750, 6799>>,
                    <<84300, 84329>>, <<84400, 84599>>, <<85000, 85743>>, <<85901, 86029>>,
                    <<86600, 86799>>},
   Stock       |-> {<<1, 2799>>, <<4600, 4699>>, <<4800, 4999>>, <<6200, 6299>>,
                    <<6300, 6399>>, <<7200, 7399>>, <<7500, 7599>>, <<7800, 7999>>,
                    <<8000, 8999>>, <<9200, 9399>>, <<9500, 9599>>, <<30000, 39999>>,
                    <<41000, 46999>>, <<49000, 49999>>, <<70000, 79999>>, <<84600, 84699>>,
                    <<85744, 85900>>, <<87200, 87399>>, <<87500, 87599>>, <<90000, 99999>>},
   StockOption |-> {<<10000, 29999>>, <<89000, 89999>>},
   Warrant     |-> {<<47000, 48999>>, <<50000, 69999>>}]

\* The rules a code falls under; the code takes the first of its list
RulesFor(n) ==
  UNION {{<<ty, r>> : r \in {q \in HKRules[ty] : q[1] <= n /\ n <= q[2]}} : ty \in DOMAIN HKRules}

get_instrument_type_by_exchange_hk(i) ==
  IF RulesFor(Number(i)) = {} THEN "Stock"
  ELSE (CHOOSE rule \in RulesFor(Number(i)) : TRUE)[1]

TypeOnSSE(i) ==
  CASE i.length = 8                                        -> "StockOption"
    [] i.length # 8 /\ First(i, 2) = 0                     -> "Index"
    [] i.length # 8 /\ First(i, 2) # 0 /\ First(i, 1) = 0  -> "Bond"
    [] i.length # 8 /\ First(i, 1) = 1                     -> "Bond"
    [] i.length # 8 /\ First(i, 1) = 2                     -> "Repo"
    [] i.length # 8 /\ First(i, 1) = 5                     -> "Fund"
    [] i.length # 8 /\ First(i, 3) \in {688, 787, 789}     -> "TechStock"
    [] OTHER                                               -> "Stock"

TypeOnSZE_BondFirst(i) ==
  CASE i.length = 8                                        -> "StockOption"
    [] i.length # 8 /\ First(i, 2) \in {15, 16, 18}        -> "Fund"
    [] i.length # 8 /\ First(i, 2) \notin {15, 16, 18} /\ First(i, 1) = 1 -> "Bond"
    [] OTHER                                               -> "Stock"
TypeOnSZE(i) ==
  CASE i.length = 8                                        -> "StockOption"
    [] i.length # 8 /\ First(i, 2) \in {15, 16, 18}        -> "Fund"
    [] i.length # 8 /\ First(i, 3) = 131                   -> "Repo"
    [] i.length # 8 /\ First(i, 2) \notin {15, 16, 18} /\ First(i, 3) # 131
         /\ First(i, 1) = 1                                -> "Bond"
    [] OTHER                                               -> "Stock"

get_instrument_type(x, i) ==
  CASE x = "SSE"                       -> TypeOnSSE(i)
    [] x = "SZE"                       -> TypeOnSZE(i)
    [] x = "HK"                        -> get_instrument_type_by_exchange_hk(i)
    [] x = "BSE" \/ x \in StockExchanges -> "Stock"
    [] x \in FutureExchanges           -> "Future"
    [] x \in {"BINANCE", "HB"}         -> "Crypto"
    [] OTHER                           -> "Unknown"

\* The products of each exchange; the contract's product is looked up in turn
INEProducts == {"sc"}
Products ==
  [DCE   |-> {"c", "cs", "a", "b", "m", "y", "p", "fb", "bb", "jd", "rr", "l", "v", "pp", "j",
              "jm", "i", "eg", "eb"},
   CZCE  |-> {"wh", "pm", "cf", "sr", "oi", "ri", "rs", "rm", "jr", "lr", "cy", "ap", "cj",
              "ta", "ma", "zc", "sf", "sm", "ur", "fg", "sa"},
   SHFE  |-> {"cu", "al", "zn", "pb", "ni", "sn", "au", "ag", "rb", "wr", "hc", "ss", "fu",
              "bu", "ru", "nr", "sp"},
   CFFEX |-> {"if", "ic", "ih", "ts", "tf", "t"},
   INE   |-> INEProducts]

NoExchange == ""
get_exchange_id_from_future_instrument_id(p) ==
  IF \E x \in DOMAIN Products : p \in Products[x]
  THEN CHOOSE x \in DOMAIN Products : p \in Products[x]
  ELSE NoExchange

-----------------------------------------------------------------------------

\* Functions that answer from different tables agree: what is_repo accepts is
\* a Repo for get_instrument_type, what is_convertible_bond accepts is a Bond
\* (a code of eight digits is an option whatever it begins with), the tables of
\* repo terms have the same codes and only codes of repos, and what is traded
\* on the exchange of a product is a Future.
TablesAgree ==
  /\ \A i \in {j \in Ids : j.length = 6} :
       /\ \A x \in {"SSE", "SZE"} :
            /\ is_repo(x, i) => get_instrument_type(x, i) = "Repo"
            /\ is_convertible_bond(x, i) => get_instrument_type(x, i) = "Bond"
       /\ get_repo_expire_days(i) > 0 <=> get_repo_commission_rate(i) > 0
       /\ get_repo_expire_days(i) > 0 => is_repo("SSE", i) \/ is_repo("SZE", i)
  /\ \A x \in DOMAIN Products : \A p \in Products[x] :
       get_instrument_type(get_exchange_id_from_future_instrument_id(p), p) = "Future"

\* No Hong Kong code falls under two ranges, and no product under two
\* exchanges: the order of the rules, which is neither that of the codes nor
\* that of the types, decides nothing.
OneRulePerCode ==
  /\ \A n \in {Number(i) : i \in Ids} : Cardinality(RulesFor(n)) <= 1
  /\ \A x \in DOMAIN Products : \A p \in Products[x] :
       get_exchange_id_from_future_instrument_id(p) = x
===============================================================================
