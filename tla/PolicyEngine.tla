---------------------------- MODULE PolicyEngine ----------------------------
(***************************************************************************)
(* The policy engine (policy.py): the table gateway_policy_rules, kept in  *)
(* rowid order, and its first-match, deny-by-default evaluation.           *)
(***************************************************************************)
EXTENDS GatewayTypes

CONSTANT RulePayloads   \* the rules posted to POST /gateway/policy/rules

VARIABLE rules   \* SELECT * FROM gateway_policy_rules ORDER BY rowid

Effects == {"allow", "deny"}

\* tenants = {Star} stands for tenants_json NULL: the rule is for every tenant.
Rule == [name      : RuleNames,
         effect    : Effects,
         actions   : SUBSET (Methods \cup {Star}),
         resources : SUBSET (Servers \cup {Star}),
         tenants   : (SUBSET Tenants) \cup {{Star}}]

PolicyRequest == [action : Methods, resource : Servers, tenant : Tenants]

RulesTypeOK == rules \in Seq(Rule)

ASSUME PayloadAssumption == RulePayloads \subseteq Rule

-----------------------------------------------------------------------------
\* PolicyRule.matches; the resource of server s is "gateway.server.<s>".
Matches(rule, q) ==
  /\ {q.action, Star} \cap rule.actions # {}
  /\ {q.resource, Star} \cap rule.resources # {}
  /\ {q.tenant, Star} \cap rule.tenants # {}

Matching(rs, q) == {i \in 1..Len(rs) : Matches(rs[i], q)}

Least(S) == CHOOSE i \in S : \A j \in S : i <= j

\* PolicyEngine.evaluate: the first match in table order, else the default.
Evaluate(rs, q) ==
  IF Matching(rs, q) = {}
    THEN [decision |-> "deny", rule |-> None]
    ELSE LET first == rs[Least(Matching(rs, q))]
         IN  [decision |-> first.effect, rule |-> first.name]

Positions(rs, name) == {i \in 1..Len(rs) : rs[i].name = name}

\* Faulty add_rule: INSERT OR REPLACE, which moves a rewritten rule to the end.
AddRuleReplacing(rule) ==
  rules' = Append(SelectSeq(rules, LAMBDA x : x.name # rule.name), rule)

\* PolicyEngine.add_rule: a known name is overwritten where it stands (the
\* upsert keeps the rowid), a new one gets the largest rowid.
AddRule(rule) ==
  rules' = IF Positions(rules, rule.name) = {}
             THEN Append(rules, rule)
             ELSE [i \in 1..Len(rules) |->
                     IF rules[i].name = rule.name THEN rule ELSE rules[i]]

\* PolicyEngine.remove_rule: DELETE WHERE name = ?; no row is no error.
RemoveRule(name) ==
  LET gone == Positions(rules, name) IN
  rules' = IF gone = {} THEN rules
             ELSE [i \in 1..(Len(rules) - 1) |->
                     IF i < Least(gone) THEN rules[i] ELSE rules[i + 1]]

-----------------------------------------------------------------------------
\* The engine driven on its own: any sequence of rule edits.
PolicyInit == rules = << >>

PolicyNext == \/ \E rule \in RulePayloads : AddRule(rule)
              \/ \E name \in RuleNames : RemoveRule(name)

PolicySpec == PolicyInit /\ [][PolicyNext]_rules

-----------------------------------------------------------------------------
\* The table never holds two rules of one name: add_rule's overwrite in place
\* and remove_rule's single deletion both keep the primary key.
UniqueNames == \A i, j \in 1..Len(rules) : rules[i].name = rules[j].name => i = j

\* Every rule of rs stands in other with the same content.
Keeps(rs, other) == \A i \in 1..Len(rs) : \E j \in 1..Len(other) : other[j] = rs[i]

\* A step that leaves every rule in the table (add_rule of a new name, or of an
\* unchanged one) changes the verdict of no request an existing rule decides:
\* a new rule never outranks an old one, and a rewrite does not move its rule.
NewRulesRankLast ==
  [][Keeps(rules, rules') =>
       \A q \in PolicyRequest :
         Evaluate(rules, q).rule # None => Evaluate(rules', q) = Evaluate(rules, q)]_rules

\* A step that only takes rules away (remove_rule) changes the verdict of no
\* request decided by a rule that remains, or by the default.
RemovalIsLocal ==
  [][Keeps(rules', rules) /\ Len(rules') < Len(rules) =>
       \A q \in PolicyRequest :
         LET verdict == Evaluate(rules, q) IN
         verdict.rule = None \/ Positions(rules', verdict.rule) # {}
           => Evaluate(rules', q) = verdict]_rules
=============================================================================
