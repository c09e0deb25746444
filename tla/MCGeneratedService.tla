------------------------- MODULE MCGeneratedService -------------------------
(* Names at the edges of what the packs accept, and drafts with up to two   *)
(* rules, each part right or wrong in its own way.                          *)
EXTENDS GeneratedService

CONSTANTS v1, v2

MCPercentages == {0, 1, 50, 100, 101}
MCAttributes == {"organization.id", "targetingKey", "plan"}

MCRules ==
  { [attribute |-> "organization.id", equals |-> v1, variant |-> "on"],
    [attribute |-> "organization.id", equals |-> v1, variant |-> "off"],
    [attribute |-> "targetingKey", equals |-> v2, variant |-> "on"],
    [attribute |-> "targetingKey", equals |-> Empty, variant |-> "on"],
    [attribute |-> "plan", equals |-> v1, variant |-> "on"],
    [attribute |-> "targetingKey", equals |-> v1, variant |-> "missing"] }

(* Two of these match one context and disagree.                             *)
MCOverlapping == {rule \in MCRules : rule.equals # Empty /\ rule.variant # "missing"
                                      /\ rule.attribute # "plan"}

MCRollouts ==
  [attribute : {"organization.id", "targetingKey"}, percentage : {-1, 1, 101},
   variant : {"on", "missing"}]
  \cup {[attribute |-> "plan", percentage |-> 1, variant |-> "on"], Absent}

MCVariants ==
  { [n \in {"on", "off"} |-> "boolean"], [n \in {"on", "off"} |-> "string"],
    [n \in {"on", "off"} |-> IF n = "on" THEN "boolean" ELSE "string"],
    [n \in {"on", "off", ""} |-> "boolean"],
    [n \in {} |-> "boolean"] }

MCDrafts ==
  [kind : {"boolean", "number"}, enabled : BOOLEAN, defaultVariant : {"off", "missing"},
   variants : MCVariants,
   rules : {<< >>} \cup {<<a>> : a \in MCRules} \cup {<<a, b>> : a, b \in MCOverlapping},
   rollout : MCRollouts]

MCNames ==
  { DefaultName,
    [label |-> FALSE, length |-> 12, internal |-> FALSE],
    [label |-> TRUE, length |-> 5, internal |-> FALSE],
    [label |-> TRUE, length |-> 31, internal |-> FALSE],
    [label |-> TRUE, length |-> 33, internal |-> FALSE],
    [label |-> TRUE, length |-> 12, internal |-> TRUE] }

MCAttributeLists ==
  { << >>, <<"targetingKey">>, <<"organization.id">>, <<"targetingKey", "targetingKey">>,
    <<"targetingKey", "">>, <<"targetingKey", "plan">> }

MCReplicas == {0, 1, 2, 3}
=============================================================================
