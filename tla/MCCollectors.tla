----------------------------- MODULE MCCollectors -----------------------------
(* Three items, the first and the third at the same time and the second before  *)
(* them; scans of two, which without a mark may begin at the second's time.     *)
EXTENDS Collectors

Times == [i \in Item |-> IF i = 2 THEN 2 ELSE 3]
=============================================================================
