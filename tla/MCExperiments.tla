--------------------------- MODULE MCExperiments ---------------------------
EXTENDS Experiments

At(leg, today, his) == [l \in Legs |-> IF l = leg THEN [today |-> today, his |-> his] ELSE NoLots]

\* ctp-pairs sends what ctp-reject sends, and the case "rounding" what "multi" sends.
MCNames == (DOMAIN ProbeScripts \cup DOMAIN CommandScripts) \ {"ctpPairs", "ctpExtRounding"}

\* These send no plain close, so what it means makes no difference to them.
NoPlainClose == {"ctpSlices", "ctpReject", "ctpPriority", "ctpFee", "ctpDup"}

\* The quota scripts run on the exchanges alone where a plain close takes any lot
\* (closefee_quota.go:180).
OfQuota == {"ctpQuota", "ctpExtExplicit", "ctpExtOpposite", "ctpExtMulti", "ctpExtRewrite"}

Found == {At(Long, 0, 0), At(Long, 0, 1), At(Long, 0, 2), At(Long, 1, 1), At(Short, 0, 1)}
MCWorlds(n) ==
  CASE n \in NoPlainClose -> [pos : {At(Long, 0, 0), At(Long, 0, 1), At(Long, 1, 1)}, history : {TRUE}]
    [] n \in OfQuota      -> [pos : Found, history : {FALSE}]
    [] OTHER        -> [pos : Found, history : BOOLEAN]

=============================================================================
