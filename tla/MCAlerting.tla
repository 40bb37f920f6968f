------------------------------ MODULE MCAlerting ------------------------------
(* Two events: a DNS query that a block-list rule hits, and an install     *)
(* that matches a rule without a condition.                                *)
EXTENDS Alerting

CONSTANTS blocklist, installs

Kinds     == <<"dns", "install">>
RuleKinds == [r \in {blocklist, installs} |->
                IF r = blocklist THEN "domain_blocklist" ELSE "new_install"]
BlockedDomain == {<<1, blocklist>>}
=============================================================================
