---------------------------- MODULE GatewayProofs ---------------------------
(***************************************************************************)
(* Theorems about the gateway for every vocabulary, every set of payloads  *)
(* and every number of requests, submissions, agents and restarts:         *)
(*   1. the token table and the policy table, and the lemmas on TokenRow,  *)
(*      Evaluate, AddRule and RemoveRule that the rest uses;               *)
(*   2. the routes: Invariant is the inductive invariant, and the          *)
(*      refinement of Gatekeeper is proved step by step under it;          *)
(*   3. Code Mode: the gate, the number of runs, the finality of records;  *)
(*   4. agent enrollment: the two tables and the registration window.      *)
(***************************************************************************)
EXTENDS Gateway, CodeMode, AgentEnrollment, SequenceTheorems, FunctionTheorems,
        FiniteSetTheorems, WellFoundedInduction, TLAPS

-----------------------------------------------------------------------------
(***************************************************************************)
(* 1. The token table and the policy table                                 *)
(***************************************************************************)

(* The token table                                                         *)

\* The row the process creates for the admin token at every start is a token row.
LEMMA BootstrapRowType == BootstrapRow \in TokenRow
BY DEF BootstrapRow, TokenRow, Roles, Scopes, Expiries

\* upsert_token, revoke_token and the passing of an expiry keep the table's type.
LEMMA TokenStepTypes ==
  ASSUME TokensTypeOK, NEW t \in Tokens
  PROVE  /\ \A row \in TokenRow : UpsertToken(t, row) => TokensTypeOK'
         /\ RevokeToken(t) => TokensTypeOK'
         /\ ExpireToken(t) => TokensTypeOK'
<1>1. ASSUME NEW row \in TokenRow, UpsertToken(t, row) PROVE TokensTypeOK'
  BY <1>1 DEF UpsertToken, TokensTypeOK
<1>2. ASSUME RevokeToken(t) PROVE TokensTypeOK'
  <2>1. tokens[t] \in TokenRow
    BY <1>2 DEF RevokeToken, TokensTypeOK
  <2>2. [[tokens[t] EXCEPT !.enabled = FALSE] EXCEPT !.revoked = TRUE] \in TokenRow
    BY <2>1 DEF TokenRow
  <2>3. tokens' = [tokens EXCEPT ![t] = [[tokens[t] EXCEPT !.enabled = FALSE] EXCEPT !.revoked = TRUE]]
    BY <1>2 DEF RevokeToken, TokensTypeOK
  <2>4. QED
    BY <2>2, <2>3 DEF TokensTypeOK
<1>3. ASSUME ExpireToken(t) PROVE TokensTypeOK'
  <2>1. tokens[t] \in TokenRow
    BY <1>3 DEF ExpireToken, TokensTypeOK
  <2>2. [tokens[t] EXCEPT !.expiry = "passed"] \in TokenRow
    BY <2>1 DEF TokenRow, Expiries
  <2>3. QED
    BY <1>3, <2>2 DEF ExpireToken, TokensTypeOK
<1>4. QED
  BY <1>1, <1>2, <1>3

-----------------------------------------------------------------------------
(* The policy table                                                        *)

\* A nonempty set of positions has a least element, and Least returns it.
LEMMA LeastProperties ==
  ASSUME NEW S \in SUBSET Nat, S # {}
  PROVE  Least(S) \in S /\ \A j \in S : Least(S) <= j
<1>1. PICK x \in S : \A y \in S : ~(<<y, x>> \in OpToRel(<, Nat))
  <2>1. IsWellFoundedOn(OpToRel(<, Nat), Nat)
    BY NatLessThanWellFounded
  <2>2. QED
    BY <2>1, WFMin, Zenon
<1>2. \A y \in S : x <= y
  <2> SUFFICES ASSUME NEW y \in S PROVE x <= y
    OBVIOUS
  <2>1. <<y, x>> \notin OpToRel(<, Nat)
    BY <1>1
  <2>2. ~(y < x)
    BY <2>1 DEF OpToRel
  <2>3. QED
    BY <2>2
<1>3. QED
  BY <1>2 DEF Least

\* Evaluate decides by the first rule that matches, or by default.
LEMMA EvaluateProperties ==
  ASSUME NEW rs \in Seq(Rule), NEW q
  PROVE  /\ Evaluate(rs, q) \in [decision : Effects, rule : RuleNames \cup {None}]
         /\ \/ /\ Matching(rs, q) = {}
               /\ Evaluate(rs, q) = [decision |-> "deny", rule |-> None]
            \/ \E i \in 1..Len(rs) :
                 /\ Matches(rs[i], q)
                 /\ \A j \in 1..Len(rs) : Matches(rs[j], q) => i <= j
                 /\ Evaluate(rs, q) = [decision |-> rs[i].effect, rule |-> rs[i].name]
<1> DEFINE M == Matching(rs, q)
           i == Least(M)
<1>1. M \in SUBSET Nat /\ M \subseteq 1..Len(rs)
  BY LenProperties DEF Matching
<1>2. CASE M = {}
  BY <1>2 DEF Evaluate, Effects
<1>3. CASE M # {}
  <2>1. i \in M /\ \A j \in M : i <= j
    BY <1>1, <1>3, LeastProperties
  <2>2. i \in 1..Len(rs) /\ rs[i] \in Rule
    BY <1>1, <2>1, ElementOfSeq
  <2>3. Matches(rs[i], q) /\ \A j \in 1..Len(rs) : Matches(rs[j], q) => i <= j
    BY <2>1 DEF Matching
  <2>4. Evaluate(rs, q) = [decision |-> rs[i].effect, rule |-> rs[i].name]
    BY <1>3 DEF Evaluate
  <2>5. rs[i].effect \in Effects /\ rs[i].name \in RuleNames
    BY <2>2 DEF Rule
  <2>6. Evaluate(rs, q) \in [decision : Effects, rule : RuleNames \cup {None}]
    BY <2>4, <2>5
  <2> QED
    BY <2>2, <2>3, <2>4, <2>6
<1>4. QED
  BY <1>2, <1>3

\* add_rule keeps the table well formed.
LEMMA AddRuleType ==
  ASSUME RulesTypeOK, NEW rule \in Rule, AddRule(rule)
  PROVE  RulesTypeOK'
<1>1. CASE Positions(rules, rule.name) = {}
  BY <1>1, AppendProperties DEF AddRule, RulesTypeOK
<1>2. CASE Positions(rules, rule.name) # {}
  <2> DEFINE e(i) == IF rules[i].name = rule.name THEN rule ELSE rules[i]
  <2>1. rules' = [i \in 1..Len(rules) |-> e(i)]
    BY <1>2 DEF AddRule
  <2>2. Len(rules) \in Nat /\ \A i \in 1..Len(rules) : e(i) \in Rule
    BY LenProperties, ElementOfSeq DEF RulesTypeOK
  <2> HIDE DEF e
  <2>3. [i \in 1..Len(rules) |-> e(i)] \in [1..Len(rules) -> Rule]
    BY <2>2
  <2>4. QED
    BY <2>1, <2>2, <2>3, SeqDef DEF RulesTypeOK
<1>3. QED
  BY <1>1, <1>2

\* remove_rule keeps the table well formed.
LEMMA RemoveRuleType ==
  ASSUME RulesTypeOK, NEW name, RemoveRule(name)
  PROVE  RulesTypeOK'
<1> DEFINE gone == Positions(rules, name)
<1>1. CASE gone = {}
  BY <1>1 DEF RemoveRule, RulesTypeOK
<1>2. CASE gone # {}
  <2> DEFINE e(i) == IF i < Least(gone) THEN rules[i] ELSE rules[i + 1]
             n == Len(rules) - 1
  <2>1. rules' = [i \in 1..n |-> e(i)]
    BY <1>2 DEF RemoveRule
  <2>2. n \in Nat
    BY <1>2, LenProperties DEF Positions, RulesTypeOK
  <2>3. \A i \in 1..n : i \in 1..Len(rules) /\ i + 1 \in 1..Len(rules)
    BY <2>2, LenProperties DEF RulesTypeOK
  <2>4. \A i \in 1..n : e(i) \in Rule
    BY <2>3, ElementOfSeq DEF RulesTypeOK
  <2> HIDE DEF e, n
  <2>5. [i \in 1..n |-> e(i)] \in [1..n -> Rule]
    BY <2>2, <2>4
  <2>6. QED
    BY <2>1, <2>2, <2>5, SeqDef DEF RulesTypeOK
<1>3. QED
  BY <1>1, <1>2

\* What add_rule leaves at each position, and how long the table is.
LEMMA AddRuleEffect ==
  ASSUME RulesTypeOK, NEW rule \in Rule, AddRule(rule)
  PROVE  /\ \A i \in 1..Len(rules) :
              rules'[i] = IF rules[i].name = rule.name THEN rule ELSE rules[i]
         /\ Positions(rules, rule.name) # {} => Len(rules') = Len(rules)
         /\ Positions(rules, rule.name) = {} =>
              Len(rules') = Len(rules) + 1 /\ rules'[Len(rules) + 1] = rule
<1>1. CASE Positions(rules, rule.name) = {}
  <2>1. rules' = Append(rules, rule)
    BY <1>1 DEF AddRule
  <2>2. \A i \in 1..Len(rules) : rules[i].name # rule.name
    BY <1>1 DEF Positions
  <2>3. QED
    BY <1>1, <2>1, <2>2, AppendProperties DEF RulesTypeOK
<1>2. CASE Positions(rules, rule.name) # {}
  <2>1. rules' = [i \in 1..Len(rules) |->
                    IF rules[i].name = rule.name THEN rule ELSE rules[i]]
    BY <1>2 DEF AddRule
  <2>2. rules' \in Seq(Rule)
    BY AddRuleType DEF RulesTypeOK
  <2>3. Len(rules') = Len(rules)
    BY <2>1, <2>2, LenProperties DEF RulesTypeOK
  <2>4. QED
    BY <1>2, <2>1, <2>3
<1>3. QED
  BY <1>1, <1>2

\* remove_rule closes the gap of a rule it finds.
LEMMA RemoveRuleEffect ==
  ASSUME RulesTypeOK, NEW name, RemoveRule(name), Positions(rules, name) # {}
  PROVE  /\ Least(Positions(rules, name)) \in 1..Len(rules)
         /\ rules[Least(Positions(rules, name))].name = name
         /\ Len(rules') = Len(rules) - 1
         /\ \A i \in 1..Len(rules') :
              rules'[i] = IF i < Least(Positions(rules, name)) THEN rules[i] ELSE rules[i + 1]
<1> DEFINE gone == Positions(rules, name)
<1>1. gone \in SUBSET Nat /\ gone \subseteq 1..Len(rules)
  BY LenProperties DEF Positions, RulesTypeOK
<1>2. Least(gone) \in gone
  BY <1>1, LeastProperties
<1>3. Least(gone) \in 1..Len(rules) /\ rules[Least(gone)].name = name
  BY <1>2 DEF Positions
<1>4. rules' = [i \in 1..(Len(rules) - 1) |->
                  IF i < Least(gone) THEN rules[i] ELSE rules[i + 1]]
  BY DEF RemoveRule
<1>5. rules' \in Seq(Rule)
  BY RemoveRuleType DEF RulesTypeOK
<1>6. Len(rules') = Len(rules) - 1
  <2>1. Len(rules) - 1 \in Nat
    BY <1>3, LenProperties DEF RulesTypeOK
  <2>2. DOMAIN rules' = 1..(Len(rules) - 1)
    BY <1>4
  <2>3. DOMAIN rules' = 1..Len(rules') /\ Len(rules') \in Nat
    BY <1>5, LenProperties
  <2>4. QED
    BY <2>1, <2>2, <2>3
<1>7. QED
  BY <1>3, <1>4, <1>6

-----------------------------------------------------------------------------
\* Adding a rule keeps the names distinct.
LEMMA AddRuleUnique ==
  ASSUME RulesTypeOK, UniqueNames, NEW rule \in Rule, AddRule(rule)
  PROVE  UniqueNames'
<1> SUFFICES ASSUME NEW i \in 1..Len(rules'), NEW j \in 1..Len(rules'),
                    rules'[i].name = rules'[j].name
             PROVE  i = j
  BY DEF UniqueNames
<1> Len(rules) \in Nat
  BY LenProperties DEF RulesTypeOK
<1>1. \A k \in 1..Len(rules) : rules'[k].name = rules[k].name
  BY AddRuleEffect
<1>2. CASE Positions(rules, rule.name) # {}
  BY <1>1, <1>2, AddRuleEffect DEF UniqueNames
<1>3. CASE Positions(rules, rule.name) = {}
  <2>1. Len(rules') = Len(rules) + 1 /\ rules'[Len(rules) + 1] = rule
    BY <1>3, AddRuleEffect
  <2>2. \A k \in 1..Len(rules) : rules[k].name # rule.name
    BY <1>3 DEF Positions
  <2>3. QED
    BY <1>1, <2>1, <2>2 DEF UniqueNames
<1>4. QED
  BY <1>2, <1>3

\* Removing a rule keeps the names distinct.
LEMMA RemoveRuleUnique ==
  ASSUME RulesTypeOK, UniqueNames, NEW name, RemoveRule(name)
  PROVE  UniqueNames'
<1> DEFINE gone == Least(Positions(rules, name))
<1>1. CASE Positions(rules, name) = {}
  BY <1>1 DEF RemoveRule, UniqueNames
<1>2. CASE Positions(rules, name) # {}
  <2> SUFFICES ASSUME NEW i \in 1..Len(rules'), NEW j \in 1..Len(rules'),
                      rules'[i].name = rules'[j].name
               PROVE  i = j
    BY DEF UniqueNames
  <2> DEFINE old(k) == IF k < gone THEN k ELSE k + 1
  <2>1. gone \in 1..Len(rules) /\ Len(rules) \in Nat /\ Len(rules') = Len(rules) - 1
    BY <1>2, RemoveRuleEffect, LenProperties DEF RulesTypeOK
  <2>2. \A k \in 1..Len(rules') : old(k) \in 1..Len(rules) /\ rules'[k] = rules[old(k)]
    BY <1>2, <2>1, RemoveRuleEffect
  <2>3. old(i) = old(j)
    BY <2>2 DEF UniqueNames
  <2>4. QED
    BY <2>1, <2>3
<1>3. QED
  BY <1>1, <1>2

\* The primary key of gateway_policy_rules, for every set of posted rules: no
\* sequence of additions and removals leaves two rules of one name.
THEOREM PolicyTableIsKeyed == PolicySpec => [](RulesTypeOK /\ UniqueNames)
<1>1. PolicyInit => RulesTypeOK /\ UniqueNames
  BY EmptySeq DEF PolicyInit, RulesTypeOK, UniqueNames
<1>2. RulesTypeOK /\ UniqueNames /\ [PolicyNext]_rules => (RulesTypeOK /\ UniqueNames)'
  <2> SUFFICES ASSUME RulesTypeOK, UniqueNames, [PolicyNext]_rules
               PROVE  RulesTypeOK' /\ UniqueNames'
    OBVIOUS
  <2>1. CASE \E rule \in RulePayloads : AddRule(rule)
    BY <2>1, PayloadAssumption, AddRuleType, AddRuleUnique
  <2>2. CASE \E name \in RuleNames : RemoveRule(name)
    BY <2>2, RemoveRuleType, RemoveRuleUnique
  <2>3. CASE UNCHANGED rules
    BY <2>3 DEF RulesTypeOK, UniqueNames
  <2>4. QED
    BY <2>1, <2>2, <2>3 DEF PolicyNext
<1>3. QED
  BY <1>1, <1>2, PTL DEF PolicySpec

-----------------------------------------------------------------------------
\* A verdict depends only on the table up to its first match: two tables that
\* agree up to there give the same one.
LEMMA SameFirstMatch ==
  ASSUME NEW rs \in Seq(Rule), NEW other \in Seq(Rule), NEW q,
         Len(rs) <= Len(other), \A i \in 1..Len(rs) : other[i] = rs[i],
         Matching(rs, q) # {}
  PROVE  Evaluate(other, q) = Evaluate(rs, q)
<1> Len(rs) \in Nat /\ Len(other) \in Nat
  BY LenProperties
<1>1. PICK i \in 1..Len(rs) : /\ Matches(rs[i], q)
                              /\ \A j \in 1..Len(rs) : Matches(rs[j], q) => i <= j
                              /\ Evaluate(rs, q) = [decision |-> rs[i].effect, rule |-> rs[i].name]
  BY EvaluateProperties
<1>2. i \in 1..Len(other) /\ Matches(other[i], q)
  BY <1>1
<1>3. Matching(other, q) # {}
  BY <1>2 DEF Matching
<1>4. PICK k \in 1..Len(other) :
             /\ Matches(other[k], q)
             /\ \A j \in 1..Len(other) : Matches(other[j], q) => k <= j
             /\ Evaluate(other, q) = [decision |-> other[k].effect, rule |-> other[k].name]
  BY <1>3, EvaluateProperties
<1>5. k <= i
  BY <1>2, <1>4
<1>6. k \in 1..Len(rs) /\ other[k] = rs[k]
  BY <1>1, <1>4, <1>5
<1>7. k = i
  BY <1>1, <1>4, <1>5, <1>6
<1>8. QED
  BY <1>1, <1>4, <1>6, <1>7

\* An edit after which every rule still stands leaves the old table as a prefix
\* of the new one.
LEMMA KeepingIsExtending ==
  ASSUME RulesTypeOK, UniqueNames, [PolicyNext]_rules, Keeps(rules, rules')
  PROVE  Len(rules) <= Len(rules') /\ \A i \in 1..Len(rules) : rules'[i] = rules[i]
<1> Len(rules) \in Nat
  BY LenProperties DEF RulesTypeOK
<1>1. CASE \E rule \in RulePayloads : AddRule(rule)
  <2>1. PICK rule \in Rule : AddRule(rule)
    BY <1>1, PayloadAssumption
  <2>2. Len(rules) <= Len(rules')
    BY <2>1, AddRuleEffect
  <2>3. ASSUME NEW i \in 1..Len(rules) PROVE rules'[i] = rules[i]
    <3>1. CASE rules[i].name # rule.name
      BY <2>1, <3>1, AddRuleEffect
    <3>2. CASE rules[i].name = rule.name
      <4>1. Positions(rules, rule.name) # {} /\ Len(rules') = Len(rules)
        BY <2>1, <3>2, AddRuleEffect DEF Positions
      <4>2. PICK j \in 1..Len(rules) : rules'[j] = rules[i]
        BY <4>1 DEF Keeps
      <4>3. rules[j].name = rules'[j].name
        BY <2>1, AddRuleEffect
      <4>4. j = i
        BY <4>2, <4>3 DEF UniqueNames
      <4>5. QED
        BY <4>2, <4>4
    <3>3. QED
      BY <3>1, <3>2
  <2>4. QED
    BY <2>2, <2>3
<1>2. CASE \E name \in RuleNames : RemoveRule(name)
  <2>1. PICK name \in RuleNames : RemoveRule(name)
    BY <1>2
  <2>2. CASE Positions(rules, name) = {}
    BY <2>1, <2>2 DEF RemoveRule
  <2>3. CASE Positions(rules, name) # {}
    <3> DEFINE gone == Least(Positions(rules, name))
    <3>1. gone \in 1..Len(rules) /\ Len(rules') = Len(rules) - 1
      BY <2>1, <2>3, RemoveRuleEffect
    <3>2. PICK j \in 1..Len(rules') : rules'[j] = rules[gone]
      BY <3>1 DEF Keeps
    <3> DEFINE old == IF j < gone THEN j ELSE j + 1
    <3>3. old \in 1..Len(rules) /\ old # gone
      BY <3>1
    <3>4. rules'[j] = rules[old]
      BY <2>1, <2>3, RemoveRuleEffect
    <3>5. rules[old] = rules[gone]
      BY <3>2, <3>4
    <3>6. old = gone
      BY <3>1, <3>3, <3>5 DEF UniqueNames
    <3>7. QED
      BY <3>3, <3>6
  <2>4. QED
    BY <2>2, <2>3
<1>3. CASE UNCHANGED rules
  BY <1>3
<1>4. QED
  BY <1>1, <1>2, <1>3 DEF PolicyNext

\* First-match order is stable: an edit that leaves every rule standing changes
\* the verdict of no request that a rule already decides.
THEOREM EditsRankLast == PolicySpec => NewRulesRankLast
<1>1. RulesTypeOK /\ UniqueNames /\ RulesTypeOK' /\ [PolicyNext]_rules
        => [Keeps(rules, rules') =>
              \A q \in PolicyRequest :
                Evaluate(rules, q).rule # None => Evaluate(rules', q) = Evaluate(rules, q)]_rules
  <2> SUFFICES ASSUME RulesTypeOK, UniqueNames, RulesTypeOK', [PolicyNext]_rules,
                      Keeps(rules, rules'),
                      NEW q \in PolicyRequest, Evaluate(rules, q).rule # None
               PROVE  Evaluate(rules', q) = Evaluate(rules, q)
    OBVIOUS
  <2>1. Matching(rules, q) # {}
    BY DEF Evaluate
  <2>2. Len(rules) <= Len(rules') /\ \A i \in 1..Len(rules) : rules'[i] = rules[i]
    BY KeepingIsExtending
  <2>3. QED
    BY <2>1, <2>2, SameFirstMatch DEF RulesTypeOK
<1>2. QED
  BY <1>1, PolicyTableIsKeyed, PTL DEF PolicySpec, NewRulesRankLast

\* Dropping the rule at one position drops it from the order, and no more.
LEMMA RemovalKeepsVerdict ==
  ASSUME RulesTypeOK, RulesTypeOK', UniqueNames, NEW name, RemoveRule(name),
         Positions(rules, name) # {}, NEW q,
         Evaluate(rules, q).rule = None \/ Positions(rules', Evaluate(rules, q).rule) # {}
  PROVE  Evaluate(rules', q) = Evaluate(rules, q)
<1> DEFINE gone == Least(Positions(rules, name))
           old(k) == IF k < gone THEN k ELSE k + 1
<1>1. gone \in 1..Len(rules) /\ Len(rules) \in Nat /\ Len(rules') = Len(rules) - 1
  BY RemoveRuleEffect, LenProperties DEF RulesTypeOK
<1>2. \A k \in 1..Len(rules') : old(k) \in 1..Len(rules) /\ rules'[k] = rules[old(k)]
  BY <1>1, RemoveRuleEffect
<1>3. CASE Matching(rules, q) = {}
  <2>1. \A i \in 1..Len(rules) : ~Matches(rules[i], q)
    BY <1>3 DEF Matching
  <2>2. \A k \in 1..Len(rules') : ~Matches(rules'[k], q)
    BY <1>2, <2>1
  <2>3. Matching(rules', q) = {}
    BY <2>2 DEF Matching
  <2>4. QED
    BY <1>3, <2>3 DEF Evaluate
<1>4. CASE Matching(rules, q) # {}
  <2>1. PICK i \in 1..Len(rules) :
               /\ Matches(rules[i], q)
               /\ \A j \in 1..Len(rules) : Matches(rules[j], q) => i <= j
               /\ Evaluate(rules, q) = [decision |-> rules[i].effect, rule |-> rules[i].name]
    BY <1>4, EvaluateProperties DEF RulesTypeOK
  <2>2. rules[i].name \in RuleNames
    <3>1. rules[i] \in Rule
      BY <2>1, ElementOfSeq DEF RulesTypeOK
    <3>2. QED
      BY <3>1 DEF Rule
  <2>3. Positions(rules', rules[i].name) # {}
    BY <2>1, <2>2, VocabularyAssumption
  <2>4. PICK k \in 1..Len(rules') : rules'[k].name = rules[i].name
    BY <2>3 DEF Positions
  <2>5. old(k) = i
    BY <1>2, <2>4 DEF UniqueNames
  <2>6. Matches(rules'[k], q)
    BY <1>2, <2>1, <2>5
  <2>7. ASSUME NEW j \in 1..Len(rules'), Matches(rules'[j], q) PROVE k <= j
    <3>1. i <= old(j)
      BY <1>2, <2>1, <2>7
    <3>2. QED
      BY <1>1, <2>5, <3>1
  <2>8. PICK first \in 1..Len(rules') :
               /\ Matches(rules'[first], q)
               /\ \A j \in 1..Len(rules') : Matches(rules'[j], q) => first <= j
               /\ Evaluate(rules', q) = [decision |-> rules'[first].effect,
                                         rule |-> rules'[first].name]
    <3>1. Matching(rules', q) # {}
      BY <2>6 DEF Matching
    <3>2. QED
      BY <3>1, EvaluateProperties DEF RulesTypeOK
  <2>9. first = k
    <3>1. first <= k /\ k <= first
      BY <2>6, <2>7, <2>8
    <3>2. QED
      BY <1>1, <3>1
  <2>10. rules'[first] = rules[i]
    BY <1>2, <2>5, <2>9
  <2>11. QED
    BY <2>1, <2>8, <2>10
<1>5. QED
  BY <1>3, <1>4

\* A removal changes no verdict but those of the removed rule.
THEOREM RemovalsAreLocal == PolicySpec => RemovalIsLocal
<1>1. RulesTypeOK /\ UniqueNames /\ RulesTypeOK' /\ [PolicyNext]_rules
        => [Keeps(rules', rules) /\ Len(rules') < Len(rules) =>
              \A q \in PolicyRequest :
                LET said == Evaluate(rules, q) IN
                said.rule = None \/ Positions(rules', said.rule) # {}
                  => Evaluate(rules', q) = said]_rules
  <2> SUFFICES ASSUME RulesTypeOK, UniqueNames, RulesTypeOK', [PolicyNext]_rules,
                      Len(rules') < Len(rules), NEW q \in PolicyRequest,
                      \/ Evaluate(rules, q).rule = None
                      \/ Positions(rules', Evaluate(rules, q).rule) # {}
               PROVE  Evaluate(rules', q) = Evaluate(rules, q)
    OBVIOUS
  <2>1. Len(rules) \in Nat /\ rules' # rules
    BY LenProperties DEF RulesTypeOK
  <2>2. ~\E rule \in RulePayloads : AddRule(rule)
    <3> SUFFICES ASSUME NEW rule \in RulePayloads, AddRule(rule) PROVE FALSE
      OBVIOUS
    <3>1. rule \in Rule
      BY PayloadAssumption
    <3>2. QED
      BY <2>1, <3>1, AddRuleEffect
  <2>3. PICK name \in RuleNames : RemoveRule(name)
    BY <2>1, <2>2 DEF PolicyNext
  <2>4. Positions(rules, name) # {}
    BY <2>1, <2>3 DEF RemoveRule
  <2>5. QED
    BY <2>3, <2>4, RemovalKeepsVerdict
<1>2. QED
  BY <1>1, PolicyTableIsKeyed, PTL DEF PolicySpec, RemovalIsLocal

-----------------------------------------------------------------------------
(***************************************************************************)
(* 2. The routes                                                           *)
(***************************************************************************)

(* The server registry and posted rules                                    *)

\* register and set_health keep the type of gateway_servers.
LEMMA ServerStepTypes ==
  ASSUME ServersTypeOK, NEW s \in Servers
  PROVE  /\ \A row \in ServerRow : Register(s, row) => ServersTypeOK'
         /\ \A health \in Health : SetHealth(s, health) => ServersTypeOK'
<1>1. ASSUME NEW row \in ServerRow, Register(s, row) PROVE ServersTypeOK'
  <2>1. [row EXCEPT !.health = "up"] \in ServerRow
    BY DEF ServerRow, Health
  <2>2. QED
    BY <1>1, <2>1 DEF Register, ServersTypeOK
<1>2. ASSUME NEW health \in Health, SetHealth(s, health) PROVE ServersTypeOK'
  <2>1. (IF servers[s] = None THEN None ELSE [servers[s] EXCEPT !.health = health])
          \in ServerRow \cup {None}
    BY DEF ServerRow, ServersTypeOK
  <2>2. QED
    BY <1>2, <2>1 DEF SetHealth, ServersTypeOK
<1>3. QED
  BY <1>1, <1>2

\* The rule that create_policy_rule stores for a payload is a rule.
LEMMA PostedType == ASSUME NEW rule \in Rule PROVE Posted(rule) \in Rule
BY DEF Posted, Rule

-----------------------------------------------------------------------------
(* Verdicts                                                                *)

\* What dry-run and execute decide is a verdict, for the caller's token.
LEMMA PlanType ==
  ASSUME RulesTypeOK, ServersTypeOK, NEW t \in Tokens, NEW tenant \in Tenants,
         NEW m \in Methods, NEW s \in Servers
  PROVE  PlanAt(t, tenant, m, s) \in Verdict /\ PlanAt(t, tenant, m, s).actor = t
<1> DEFINE q == [action |-> m, resource |-> s, tenant |-> tenant]
           ev == Evaluate(rules, q)
<1>1. ev \in [decision : Effects, rule : RuleNames \cup {None}]
  BY EvaluateProperties DEF RulesTypeOK
<1>2. servers[s] # None => servers[s].health \in Health
  BY DEF ServersTypeOK, ServerRow
<1> HIDE DEF ev
<1>3. QED
  BY <1>1, <1>2 DEF PlanAt, VerdictOf, Verdict, Denied, Effects, Health, ev

\* What route_execute decides is a verdict for the caller's token and the target.
LEMMA ExecuteVerdictType ==
  ASSUME RulesTypeOK, ServersTypeOK, NEW t \in Tokens,
         NEW m \in Methods, NEW s \in Servers, servers[s] # None
  PROVE  /\ ExecuteVerdict(t, s, m) \in Verdict
         /\ ExecuteVerdict(t, s, m).actor = t
         /\ ExecuteVerdict(t, s, m).server = s
<1> DEFINE q == [action |-> m, resource |-> s, tenant |-> servers[s].tenant]
           ev == Evaluate(rules, q)
<1>1. ev \in [decision : Effects, rule : RuleNames \cup {None}]
  BY EvaluateProperties DEF RulesTypeOK
<1>2. servers[s].health \in Health /\ servers[s].tenant \in Tenants
  BY DEF ServersTypeOK, ServerRow
<1> HIDE DEF ev
<1>3. QED
  BY <1>1, <1>2 DEF ExecuteVerdict, VerdictOf, Verdict, ev

-----------------------------------------------------------------------------
(* What a step may do, in two views: to the stores and to the requests.    *)

StoreStep ==
  /\ \/ UNCHANGED tokens
     \/ \E t \in Tokens, row \in TokenPayloads : UpsertToken(t, row)
     \/ UpsertToken(AdminToken, BootstrapRow)
     \/ \E t \in Tokens : RevokeToken(t) \/ ExpireToken(t)
  /\ \/ UNCHANGED rules
     \/ \E rule \in RulePayloads : AddRule(Posted(rule))
     \/ \E name \in RuleNames : RemoveRule(name)
  /\ \/ UNCHANGED servers
     \/ \E s \in Servers, row \in ServerPayloads : Register(s, row)
     \/ \E s \in Servers, health \in Health : SetHealth(s, health)

\* The token a verdict is reached for is in force when it is reached.
InForce(t) == tokens[t] # None /\ ~tokens[t].revoked /\ tokens[t].expiry # "passed"

AnswerStep(r) ==
  /\ stage[r] = "idle"
  /\ \E v \in Verdict, status \in {"planned", "denied", "allowed", "error"} :
       InForce(v.actor) /\ Answer(r, v, status)

SendStep(r) ==
  /\ stage[r] = "idle"
  /\ \E v \in Verdict :
       /\ v.decision = "allow" /\ InForce(v.actor)
       /\ v.server \in Servers /\ servers[v.server] # None
       /\ Send(r, v)

RequestStep ==
  \/ UNCHANGED handlers
  \/ \E r \in Requests : Refuse(r)
  \/ \E r \in Requests : AnswerStep(r)
  \/ \E r \in Requests : SendStep(r)
  \/ \E r \in Requests, status \in {"allowed", "error"} : Conclude(r, status)
  \/ CrashAndRestart

\* A management request edits a table and touches no handler.
LEMMA ManagementSteps ==
  ASSUME NEW by \in Tokens, Management(by)
  PROVE  StoreStep /\ UNCHANGED handlers
<1>1. CASE \E t \in Tokens, row \in TokenPayloads : CreateAccessToken(by, t, row)
  BY <1>1 DEF CreateAccessToken, StoreStep
<1>2. CASE \E t \in Tokens : RevokeAccessToken(by, t)
  BY <1>2 DEF RevokeAccessToken, StoreStep
<1>3. CASE \E s \in Servers, row \in ServerPayloads : RegisterServer(by, s, row)
  BY <1>3 DEF RegisterServer, StoreStep
<1>4. CASE \E s \in Servers, health \in Health : SetServerHealth(by, s, health)
  BY <1>4 DEF SetServerHealth, StoreStep
<1>5. CASE \E rule \in RulePayloads : CreatePolicyRule(by, rule)
  BY <1>5 DEF CreatePolicyRule, StoreStep
<1>6. CASE \E name \in RuleNames : DeletePolicyRule(by, name)
  BY <1>6 DEF DeletePolicyRule, StoreStep
<1>7. QED
  BY <1>1, <1>2, <1>3, <1>4, <1>5, <1>6 DEF Management

\* A token that _require_actor and require_scope let through is in force.
LEMMA PermittedInForce ==
  ASSUME NEW t \in Tokens, NEW scope, NEW tenant, Authenticated(t), InScope(t, scope, tenant)
  PROVE  InForce(t)
BY DEF Authenticated, InScope, InForce

\* A dry-run answers its request in one step.
LEMMA DryRunSteps ==
  ASSUME RulesTypeOK, ServersTypeOK, NEW r \in Requests, NEW t \in Tokens,
         NEW tenant \in Tenants, NEW m \in Methods, NEW target \in Servers \cup {None},
         NEW preferred \in Servers \cup {None}, NEW strategy \in Strategies,
         DryRun(r, t, tenant, m, target, strategy, preferred)
  PROVE  AnswerStep(r)
<1>1. stage[r] = "idle" /\ InForce(t)
  BY PermittedInForce DEF DryRun, Permitted
<1>2. PICK v \in Plans(t, tenant, m, target, strategy, preferred) : Answer(r, v, "planned")
  BY DEF DryRun
<1>3. PickServer(tenant, strategy, preferred) \subseteq Servers
  BY DEF PickServer, Candidates, Strategies
<1>4. \A s \in Servers : PlanAt(t, tenant, m, s) \in Verdict /\ PlanAt(t, tenant, m, s).actor = t
  BY PlanType
<1>5. /\ VerdictOf(t, tenant, m, None, None, Denied) \in Verdict
      /\ VerdictOf(t, tenant, m, None, None, Denied).actor = t
  BY DEF VerdictOf, Verdict, Denied, Effects
<1>6. v \in Verdict /\ v.actor = t
  <2> DEFINE picks == IF target # None THEN {target} ELSE PickServer(tenant, strategy, preferred)
  <2>1. picks \subseteq Servers
    BY <1>3
  <2>2. \/ v = VerdictOf(t, tenant, m, None, None, Denied)
        \/ \E s \in picks : v = PlanAt(t, tenant, m, s)
    BY <1>2 DEF Plans
  <2> HIDE DEF picks
  <2>3. QED
    BY <1>4, <1>5, <2>1, <2>2
<1>7. QED
  BY <1>1, <1>2, <1>6 DEF AnswerStep

\* An execute answers its request, or decides allow and sends the call.
LEMMA ExecuteSteps ==
  ASSUME RulesTypeOK, ServersTypeOK, NEW r \in Requests, NEW t \in Tokens,
         NEW s \in Servers, NEW m \in Methods, NEW dry \in BOOLEAN, Execute(r, t, s, m, dry)
  PROVE  AnswerStep(r) \/ SendStep(r)
<1> DEFINE v == ExecuteVerdict(t, s, m)
<1>1. stage[r] = "idle" /\ InForce(t) /\ servers[s] # None
  BY PermittedInForce DEF Execute, MayExecute
<1>2. v \in Verdict /\ v.actor = t /\ v.server = s
  BY <1>1, ExecuteVerdictType
<1>3. \/ \E status \in {"planned", "denied", "allowed", "error"} : Answer(r, v, status)
      \/ v.decision = "allow" /\ Send(r, v)
  BY DEF Execute
<1> HIDE DEF v
<1>4. QED
  BY <1>1, <1>2, <1>3 DEF AnswerStep, SendStep

\* Every step of the gateway, in both views.
LEMMA Steps ==
  ASSUME RulesTypeOK, ServersTypeOK, [Next]_vars
  PROVE  StoreStep /\ RequestStep
<1>1. CASE \E t \in Tokens : Management(t)
  BY <1>1, ManagementSteps DEF RequestStep
<1>2. CASE \E t \in Tokens : ExpireToken(t) /\ UNCHANGED <<rules, servers, handlers>>
  BY <1>2 DEF StoreStep, RequestStep
<1>3. CASE \E r \in Requests, t \in Tokens : Request(r, t)
  <2>1. PICK r \in Requests, t \in Tokens : Request(r, t)
    BY <1>3
  <2>2. CASE Refuse(r)
    BY <2>2 DEF StoreStep, RequestStep, Refuse, stores
  <2>3. CASE AnswerStep(r)
    BY <2>3 DEF StoreStep, RequestStep, AnswerStep, Answer, stores
  <2>4. CASE SendStep(r)
    BY <2>4 DEF StoreStep, RequestStep, SendStep, Send, stores
  <2>5. QED
    BY <2>1, <2>2, <2>3, <2>4, DryRunSteps, ExecuteSteps
       DEF Request, DryRunRefused, ExecuteRefused
<1>4. CASE \E r \in Requests, status \in {"allowed", "error"} : Conclude(r, status)
  BY <1>4 DEF StoreStep, RequestStep, Conclude, Answer, stores
<1>5. CASE CrashAndRestart
  BY <1>5 DEF StoreStep, RequestStep, CrashAndRestart
<1>6. CASE UNCHANGED vars
  BY <1>6 DEF StoreStep, RequestStep, vars, handlers
<1>7. QED
  BY <1>1, <1>2, <1>3, <1>4, <1>5, <1>6 DEF Next, AdapterReturns, AdapterTimesOut

-----------------------------------------------------------------------------
(* The inductive invariant                                                 *)

Invariant ==
  /\ TypeOK
  /\ UniqueNames
  /\ HandlersOK
  /\ RecordedExactlyOnce
  /\ RecordsCarryDecision
  /\ StatusCoherent

\* Every step keeps the types of the three tables.
LEMMA StoresTyped ==
  ASSUME TypeOK, StoreStep
  PROVE  TokensTypeOK' /\ RulesTypeOK' /\ ServersTypeOK'
<1> USE DEF TypeOK
<1>1. TokensTypeOK'
  <2>1. CASE UNCHANGED tokens
    BY <2>1 DEF TokensTypeOK
  <2>2. QED
    BY <2>1, TokenStepTypes, BootstrapRowType, GatewayAssumption, VocabularyAssumption
       DEF StoreStep
<1>2. RulesTypeOK'
  <2>1. CASE UNCHANGED rules
    BY <2>1 DEF RulesTypeOK
  <2>2. QED
    BY <2>1, AddRuleType, RemoveRuleType, PostedType, PayloadAssumption DEF StoreStep
<1>3. ServersTypeOK'
  <2>1. CASE UNCHANGED servers
    BY <2>1 DEF ServersTypeOK
  <2>2. QED
    BY <2>1, ServerStepTypes, GatewayAssumption DEF StoreStep
<1>4. QED
  BY <1>1, <1>2, <1>3

\* Every step keeps the key of the rule table.
LEMMA NamesStayUnique ==
  ASSUME TypeOK, UniqueNames, StoreStep
  PROVE  UniqueNames'
<1>1. CASE UNCHANGED rules
  BY <1>1 DEF UniqueNames
<1>2. QED
  BY <1>1, AddRuleUnique, RemoveRuleUnique, PostedType, PayloadAssumption DEF StoreStep, TypeOK

\* Only an upsert enables a token, and no payload carries revoked_at.
LEMMA StatusStaysCoherent ==
  ASSUME TypeOK, StatusCoherent, StoreStep
  PROVE  StatusCoherent'
<1> SUFFICES ASSUME NEW u \in Tokens, Authenticated(u)' PROVE ~tokens'[u].revoked
  BY DEF StatusCoherent
<1> USE DEF TypeOK, TokensTypeOK
<1>1. CASE UNCHANGED tokens
  BY <1>1 DEF StatusCoherent, Authenticated
<1>2. ASSUME NEW t \in Tokens, NEW row, ~row.revoked, UpsertToken(t, row)
      PROVE  ~tokens'[u].revoked
  BY <1>2 DEF UpsertToken, StatusCoherent, Authenticated
<1>3. ASSUME NEW t \in Tokens, RevokeToken(t) PROVE ~tokens'[u].revoked
  <2>1. tokens[t] \in TokenRow
    BY <1>3 DEF RevokeToken
  <2>2. tokens'[t].enabled = FALSE
    BY <1>3, <2>1 DEF RevokeToken, TokenRow
  <2>3. u # t
    BY <2>2 DEF Authenticated
  <2>4. tokens'[u] = tokens[u]
    BY <1>3, <2>3 DEF RevokeToken
  <2>5. QED
    BY <2>4 DEF StatusCoherent, Authenticated
<1>4. ASSUME NEW t \in Tokens, ExpireToken(t) PROVE ~tokens'[u].revoked
  <2>1. tokens[t] \in TokenRow
    BY <1>4 DEF ExpireToken
  <2>2. tokens'[t].expiry = "passed"
    BY <1>4, <2>1 DEF ExpireToken, TokenRow
  <2>3. u # t
    BY <2>2 DEF Authenticated
  <2>4. tokens'[u] = tokens[u]
    BY <1>4, <2>3 DEF ExpireToken
  <2>5. QED
    BY <2>4 DEF StatusCoherent, Authenticated
<1>5. AdminToken \in Tokens /\ ~BootstrapRow.revoked
  BY VocabularyAssumption DEF BootstrapRow
<1>6. QED
  BY <1>1, <1>2, <1>3, <1>4, <1>5, GatewayAssumption DEF StoreStep

HandlersTypeOK ==
  /\ stage \in [Requests -> Stages]
  /\ decided \in [Requests -> Verdict \cup {None}]
  /\ route \in [Requests -> Route \cup {None}]
  /\ audit \subseteq AuditRow

\* Handler steps keep the types of the handler variables.
LEMMA HandlersTyped ==
  ASSUME Invariant, RequestStep
  PROVE  HandlersTypeOK'
<1> USE DEF Invariant, TypeOK, HandlersTypeOK
<1>1. CASE UNCHANGED handlers
  BY <1>1 DEF handlers
<1>2. ASSUME NEW r \in Requests, Refuse(r)
      PROVE  HandlersTypeOK'
  BY <1>2 DEF Refuse, Stages
<1>3. ASSUME NEW r \in Requests, NEW v \in Verdict,
             NEW status \in {"planned", "denied", "allowed", "error"}, Answer(r, v, status)
      PROVE  HandlersTypeOK'
  <2>1. [event |-> r, verdict |-> v, status |-> status] \in AuditRow
    BY DEF AuditRow
  <2>2. QED
    BY <1>3, <2>1 DEF Answer, Stages
<1>4. ASSUME NEW r \in Requests, SendStep(r)
      PROVE  HandlersTypeOK'
  <2>1. PICK v \in Verdict : v.server \in Servers /\ servers[v.server] # None /\ Send(r, v)
    BY <1>4 DEF SendStep
  <2>2. servers[v.server] \in ServerRow
    BY <2>1 DEF ServersTypeOK
  <2>3. [transport |-> servers[v.server].transport, endpoint |-> servers[v.server].endpoint] \in Route
    BY <2>2 DEF Route, ServerRow
  <2>4. QED
    BY <2>1, <2>3 DEF Send, Stages
<1>5. ASSUME NEW r \in Requests, NEW status \in {"allowed", "error"}, Conclude(r, status)
      PROVE  decided[r] \in Verdict /\ Answer(r, decided[r], status)
  BY <1>5 DEF Conclude, HandlersOK
<1>6. CASE CrashAndRestart
  BY <1>6 DEF CrashAndRestart, Stages
<1>7. QED
  BY <1>1, <1>2, <1>3, <1>4, <1>5, <1>6 DEF RequestStep, AnswerStep

\* A call goes out only on an allow, and a crash does not touch a decision.
LEMMA HandlersStayOK ==
  ASSUME Invariant, RequestStep
  PROVE  HandlersOK'
<1> SUFFICES ASSUME NEW q \in Requests
             PROVE  (/\ stage[q] \in {"idle", "refused"} => decided[q] = None /\ route[q] = None
                     /\ stage[q] \notin {"idle", "refused"} => decided[q] \in Verdict
                     /\ stage[q] = "calling" => route[q] # None
                     /\ route[q] # None => decided[q].decision = "allow")'
  BY DEF HandlersOK
<1> USE DEF Invariant, TypeOK, HandlersOK
<1>1. CASE UNCHANGED handlers
  BY <1>1 DEF handlers
<1>2. ASSUME NEW r \in Requests, Refuse(r) PROVE HandlersOK'
  BY <1>2 DEF Refuse
<1>3. ASSUME NEW r \in Requests, AnswerStep(r) PROVE HandlersOK'
  BY <1>3 DEF AnswerStep, Answer
<1>4. ASSUME NEW r \in Requests, SendStep(r) PROVE HandlersOK'
  <2>1. PICK v \in Verdict : /\ stage[r] = "idle" /\ v.decision = "allow"
                             /\ v.server \in Servers /\ servers[v.server] # None /\ Send(r, v)
    BY <1>4 DEF SendStep
  <2>2. servers[v.server] \in ServerRow
    BY <2>1 DEF ServersTypeOK
  <2> DEFINE sent == [transport |-> servers[v.server].transport,
                      endpoint |-> servers[v.server].endpoint]
  <2>3. sent # None
    <3>1. sent \in Route
      BY <2>2 DEF Route, ServerRow
    <3>2. QED
      BY <3>1, GatewayAssumption
  <2>4. /\ stage' = [stage EXCEPT ![r] = "calling"]
        /\ decided' = [decided EXCEPT ![r] = v]
        /\ route' = [route EXCEPT ![r] = sent]
    BY <2>1 DEF Send
  <2> HIDE DEF sent
  <2>5. QED
    BY <2>1, <2>3, <2>4
<1>5. ASSUME NEW r \in Requests, NEW status, Conclude(r, status) PROVE HandlersOK'
  BY <1>5 DEF Conclude, Answer
<1>6. CASE CrashAndRestart
  BY <1>6 DEF CrashAndRestart
<1>7. QED
  BY <1>1, <1>2, <1>3, <1>4, <1>5, <1>6 DEF RequestStep

\* An answer writes its row once; nothing else writes one.
LEMMA AuditStaysExact ==
  ASSUME Invariant, RequestStep
  PROVE  RecordedExactlyOnce' /\ RecordsCarryDecision'
<1> USE DEF Invariant, TypeOK, RecordedExactlyOnce, RecordsCarryDecision
<1>1. CASE UNCHANGED handlers
  BY <1>1 DEF handlers
<1>2. ASSUME NEW r \in Requests, Refuse(r)
      PROVE  RecordedExactlyOnce' /\ RecordsCarryDecision'
  BY <1>2 DEF Refuse
<1>3. ASSUME NEW r \in Requests, NEW v, NEW status,
             stage[r] # "answered", Answer(r, v, status)
      PROVE  RecordedExactlyOnce' /\ RecordsCarryDecision'
  <2> DEFINE row == [event |-> r, verdict |-> v, status |-> status]
  <2>1. \A a \in audit : a.event # r /\ a.event \in Requests
    BY <1>3 DEF AuditRow
  <2>2. audit' = audit \cup {row} /\ row.event = r /\ row.verdict = v
    BY <1>3 DEF Answer
  <2>3. stage' = [stage EXCEPT ![r] = "answered"] /\ decided' = [decided EXCEPT ![r] = v]
    BY <1>3 DEF Answer
  <2> HIDE DEF row
  <2>4. RecordedExactlyOnce'
    BY <2>1, <2>2, <2>3
  <2>5. RecordsCarryDecision'
    BY <2>1, <2>2, <2>3
  <2>6. QED
    BY <2>4, <2>5
<1>4. ASSUME NEW r \in Requests, AnswerStep(r)
      PROVE  RecordedExactlyOnce' /\ RecordsCarryDecision'
  BY <1>3, <1>4 DEF AnswerStep
<1>5. ASSUME NEW r \in Requests, SendStep(r)
      PROVE  RecordedExactlyOnce' /\ RecordsCarryDecision'
  BY <1>5 DEF SendStep, Send, AuditRow
<1>6. ASSUME NEW r \in Requests, NEW status, Conclude(r, status)
      PROVE  RecordedExactlyOnce' /\ RecordsCarryDecision'
  BY <1>3, <1>6 DEF Conclude
<1>7. CASE CrashAndRestart
  BY <1>7 DEF CrashAndRestart, AuditRow
<1>8. QED
  BY <1>1, <1>2, <1>4, <1>5, <1>6, <1>7 DEF RequestStep

\* Among the healthy servers of a tenant one comes first by id, and one by
\* priority and id.
LEMMA FirstCandidates ==
  ASSUME ServersTypeOK, NEW tenant, Candidates(tenant) # {}
  PROVE  /\ \E s \in Candidates(tenant) : \A c \in Candidates(tenant) : s <= c
         /\ \E s \in Candidates(tenant) : \A c \in Candidates(tenant) : Before(s, c)
<1> DEFINE cands == Candidates(tenant)
           priorities == {servers[c].priority : c \in cands}
           first == {c \in cands : servers[c].priority = Least(priorities)}
<1>1. \A c \in cands : c \in Nat /\ servers[c].priority \in Nat
  BY VocabularyAssumption, RegistryAssumption DEF Candidates, ServersTypeOK, ServerRow
<1>2. \E s \in cands : \A c \in cands : s <= c
  <2>1. cands \in SUBSET Nat /\ cands # {}
    BY <1>1
  <2> HIDE DEF cands
  <2>2. QED
    BY <2>1, LeastProperties
<1>3. \E s \in cands : \A c \in cands : Before(s, c)
  <2>1. priorities \in SUBSET Nat /\ priorities # {}
    BY <1>1
  <2>2. Least(priorities) \in priorities /\ \A n \in priorities : Least(priorities) <= n
    <3> HIDE DEF priorities
    <3>1. QED
      BY <2>1, LeastProperties
  <2>3. first \in SUBSET Nat /\ first # {}
    BY <1>1, <2>2
  <2>4. Least(first) \in first /\ \A c \in first : Least(first) <= c
    <3> HIDE DEF first
    <3>1. QED
      BY <2>3, LeastProperties
  <2>5. \A c \in cands : Before(Least(first), c)
    <3> SUFFICES ASSUME NEW c \in cands PROVE Before(Least(first), c)
      OBVIOUS
    <3>1. /\ servers[c].priority \in priorities /\ servers[c].priority \in Nat
          /\ servers[Least(first)].priority = Least(priorities) /\ Least(priorities) \in Nat
          /\ Least(priorities) <= servers[c].priority
      BY <1>1, <2>2, <2>4
    <3>2. c \in first <=> servers[c].priority = Least(priorities)
      OBVIOUS
    <3> HIDE DEF first, priorities, cands
    <3>3. QED
      BY <2>4, <3>1, <3>2 DEF Before
  <2>6. QED
    BY <2>4, <2>5
<1>4. QED
  BY <1>2, <1>3

\* Init establishes the invariant and every step keeps it.
LEMMA InvariantHolds == Spec => []Invariant
<1>1. Init => Invariant
  <2> SUFFICES ASSUME Init PROVE Invariant
    OBVIOUS
  <2>1. TypeOK
    BY BootstrapRowType, EmptySeq
       DEF Init, AuthzInit, PolicyInit, RegistryInit, TypeOK, TokensTypeOK, RulesTypeOK,
           ServersTypeOK, Stages
  <2>2. StatusCoherent
    BY DEF Init, AuthzInit, StatusCoherent, Authenticated, BootstrapRow
  <2>3. UniqueNames /\ HandlersOK /\ RecordedExactlyOnce /\ RecordsCarryDecision
    BY DEF Init, PolicyInit, UniqueNames, HandlersOK, RecordedExactlyOnce, RecordsCarryDecision
  <2>4. QED
    BY <2>1, <2>2, <2>3 DEF Invariant
<1>2. Invariant /\ [Next]_vars => Invariant'
  <2> SUFFICES ASSUME Invariant, [Next]_vars PROVE Invariant'
    OBVIOUS
  <2>1. StoreStep /\ RequestStep
    BY Steps DEF Invariant, TypeOK
  <2>2. TypeOK'
    BY <2>1, StoresTyped, HandlersTyped DEF Invariant, TypeOK, HandlersTypeOK
  <2>3. UniqueNames'
    BY <2>1, NamesStayUnique DEF Invariant
  <2>4. HandlersOK'
    BY <2>1, HandlersStayOK
  <2>5. RecordedExactlyOnce' /\ RecordsCarryDecision'
    BY <2>1, AuditStaysExact
  <2>6. StatusCoherent'
    BY <2>1, StatusStaysCoherent DEF Invariant
  <2>7. QED
    BY <2>2, <2>3, <2>4, <2>5, <2>6 DEF Invariant
<1>3. QED
  BY <1>1, <1>2, PTL DEF Spec

-----------------------------------------------------------------------------
(* The theorems                                                            *)

\* The tables and the handlers' variables keep their types through every
\* handler, crash and restart.
THEOREM GatewayTypeCorrect == Spec => []TypeOK
BY InvariantHolds, PTL DEF Invariant

\* route_dry_run and route_execute: each answered request has one audit row, a
\* refused, pending or lost one has none.
THEOREM GatewayRecordsOnce == Spec => []RecordedExactlyOnce
BY InvariantHolds, PTL DEF Invariant

\* _store_execute_audit writes what was read before the await.
THEOREM GatewayRecordsFaithfully == Spec => []RecordsCarryDecision
BY InvariantHolds, PTL DEF Invariant

\* route_execute reaches the adapter on an allow verdict only.
THEOREM GatewayCallsOnAllow == Spec => []HandlersOK
BY InvariantHolds, PTL DEF Invariant

\* _require_actor and require_scope agree on which tokens are revoked.
THEOREM GatewayStatusCoherent == Spec => []StatusCoherent
BY InvariantHolds, PTL DEF Invariant

\* A request is decided for a token that is in force at that moment, whatever
\* happens to the token while the call is out.
THEOREM GatewayDecidesInForce == Spec => OnlyTokensInForceDecide
<1> DEFINE Decides ==
      \A r \in Requests :
        stage[r] = "idle" /\ decided'[r] # None =>
          LET row == tokens[decided'[r].actor] IN
          row # None /\ ~row.revoked /\ row.expiry # "passed"
<1>1. Invariant /\ [Next]_vars => [Decides]_vars
  <2> SUFFICES ASSUME Invariant, [Next]_vars, NEW q \in Requests,
                      stage[q] = "idle", decided'[q] # None
               PROVE  InForce(decided'[q].actor)
    BY DEF InForce
  <2> USE DEF Invariant, TypeOK, HandlersOK
  <2>1. RequestStep
    BY Steps
  <2>2. CASE UNCHANGED handlers
    BY <2>2 DEF handlers
  <2>3. CASE \E r \in Requests : Refuse(r)
    BY <2>3 DEF Refuse
  <2>4. CASE \E r \in Requests : AnswerStep(r)
    BY <2>4 DEF AnswerStep, Answer
  <2>5. CASE \E r \in Requests : SendStep(r)
    <3>1. PICK r \in Requests, v \in Verdict : InForce(v.actor) /\ Send(r, v)
      BY <2>5 DEF SendStep
    <3>2. decided' = [decided EXCEPT ![r] = v]
      BY <3>1 DEF Send
    <3>3. QED
      BY <3>1, <3>2
  <2>6. CASE \E r \in Requests, status \in {"allowed", "error"} : Conclude(r, status)
    BY <2>6 DEF Conclude, Answer
  <2>7. CASE CrashAndRestart
    BY <2>7 DEF CrashAndRestart
  <2>8. QED
    BY <2>1, <2>2, <2>3, <2>4, <2>5, <2>6, <2>7 DEF RequestStep
<1>2. QED
  BY <1>1, InvariantHolds, PTL DEF Spec, OnlyTokensInForceDecide

\* pick_server answers whenever the tenant has a healthy server, with one of
\* those, and without a choice unless the strategy is weighted: the order by
\* priority and id, and the order by id, have one first candidate.
THEOREM GatewaySelectsSoundly == Spec => []SelectionSound
<1>1. Invariant => SelectionSound
  <2> SUFFICES ASSUME Invariant, NEW tenant \in Tenants, NEW strategy \in Strategies,
                      NEW preferred \in Servers \cup {None}
               PROVE  LET picks == PickServer(tenant, strategy, preferred) IN
                      /\ picks \subseteq Candidates(tenant)
                      /\ picks = {} <=> Candidates(tenant) = {}
                      /\ strategy # "weighted" => \A s, u \in picks : s = u
    BY DEF SelectionSound
  <2> DEFINE cands == Candidates(tenant)
             lowest == {s \in cands : \A c \in cands : s <= c}
             best == {s \in cands : \A c \in cands : Before(s, c)}
  <2>1. ServersTypeOK /\ \A c \in cands : c \in Nat /\ servers[c].priority \in Nat
    BY VocabularyAssumption, RegistryAssumption
    DEF Invariant, TypeOK, Candidates, ServersTypeOK, ServerRow
  <2>2. (\A s, u \in lowest : s = u) /\ (lowest = {} <=> cands = {})
    BY <2>1, FirstCandidates
  <2>3. (\A s, u \in best : s = u) /\ (best = {} <=> cands = {})
    <3>1. \A s, u \in best : s = u
      BY <2>1 DEF Before
    <3>2. QED
      BY <2>1, <3>1, FirstCandidates
  <2>4. PickServer(tenant, strategy, preferred) =
          IF preferred \in cands THEN {preferred}
          ELSE IF strategy = "weighted" THEN cands
          ELSE IF strategy = "failover" THEN best ELSE lowest
    BY DEF PickServer, Strategies
  <2> HIDE DEF cands
  <2>5. QED
    BY <2>2, <2>3, <2>4 DEF cands
<1>2. QED
  BY <1>1, InvariantHolds, PTL

\* Planning a named server for its own tenant never promises what execute would
\* then refuse: both take the first rule of one table.
THEOREM GatewayPlansSoundly == Spec => []PlanPredictsExecute
<1>1. PlanPredictsExecute
  <2> SUFFICES ASSUME NEW t \in Tokens, NEW s \in Servers, NEW m \in Methods, servers[s] # None,
                      PlanAt(t, servers[s].tenant, m, s).decision = "allow"
               PROVE  ExecuteVerdict(t, s, m) = PlanAt(t, servers[s].tenant, m, s)
    BY DEF PlanPredictsExecute
  <2>1. servers[s].health # "down"
    BY DEF PlanAt, VerdictOf, Denied
  <2>2. QED
    BY <2>1 DEF PlanAt, ExecuteVerdict
<1>2. QED
  BY <1>1, PTL

-----------------------------------------------------------------------------
(* The gateway implements the Gatekeeper                                   *)

\* A new audit row adds its own (event, verdict) pair to the ledger.
LEMMA LedgerGrows ==
  ASSUME NEW row, NEW more, more = audit \cup {row}
  PROVE  {<<a.event, a.verdict>> : a \in more}
           = {<<a.event, a.verdict>> : a \in audit} \cup {<<row.event, row.verdict>>}
BY SMT

\* Moving one handler moves one phase.
LEMMA PhaseMoves ==
  ASSUME stage \in [Requests -> Stages], NEW r \in Requests, NEW s \in Stages,
         stage' = [stage EXCEPT ![r] = s]
  PROVE  /\ [q \in Requests |-> Phase[stage[q]]][r] = Phase[stage[r]]
         /\ [q \in Requests |-> Phase[stage[q]]]'
              = [[q \in Requests |-> Phase[stage[q]]] EXCEPT ![r] = Phase[s]]
<1>1. \A q \in Requests : stage'[q] = IF q = r THEN s ELSE stage[q]
  OBVIOUS
<1>2. QED
  BY <1>1

\* Every step is a step of the Gatekeeper, or stutters: a handler settles,
\* refuses or forwards a new request, and records a forwarded one.
THEOREM GatewayKeepsPromise == Spec => KeepsPromise
<1> DEFINE phase == [r \in Requests |-> Phase[stage[r]]]
           ledger == {<<a.event, a.verdict>> : a \in audit}
<1>1. Init => Promise!Init
  BY DEF Init, Promise!Init, Phase
<1>2. Invariant /\ [Next]_vars => [Promise!Next]_(Promise!gatekeeperVars)
  <2> SUFFICES ASSUME Invariant, [Next]_vars
               PROVE  Promise!Next \/ UNCHANGED Promise!gatekeeperVars
    OBVIOUS
  <2> USE DEF Invariant, TypeOK, HandlersOK, Stages, Phase
  <2>1. RequestStep
    BY Steps
  <2>2. CASE UNCHANGED handlers
    BY <2>2 DEF handlers, Promise!gatekeeperVars
  <2>3. CASE \E r \in Requests : Refuse(r)
    <3>1. PICK r \in Requests : Refuse(r)
      BY <2>3
    <3>2. phase[r] = "new" /\ phase' = [phase EXCEPT ![r] = "refused"]
      <4>1. stage[r] = "idle" /\ stage' = [stage EXCEPT ![r] = "refused"]
        BY <3>1 DEF Refuse
      <4>2. phase[r] = Phase[stage[r]] /\ phase' = [phase EXCEPT ![r] = Phase["refused"]]
        BY <4>1, PhaseMoves, Zenon
      <4>3. QED
        BY <4>1, <4>2
    <3>3. Promise!Refuse(r)
      BY <3>1, <3>2 DEF Refuse, Promise!Refuse
    <3>4. QED
      BY <3>3 DEF Promise!Next
  <2>4. CASE \E r \in Requests : AnswerStep(r)
    <3>1. PICK r \in Requests, v \in Verdict, status \in {"planned", "denied", "allowed", "error"} :
            stage[r] = "idle" /\ Answer(r, v, status)
      BY <2>4 DEF AnswerStep
    <3>2. ledger' = ledger \cup {<<r, v>>}
      BY <3>1, LedgerGrows DEF Answer
    <3>3. phase[r] = "new" /\ phase' = [phase EXCEPT ![r] = "closed"]
      <4>1. stage[r] = "idle" /\ stage' = [stage EXCEPT ![r] = "answered"]
        BY <3>1 DEF Answer
      <4>2. phase[r] = Phase[stage[r]] /\ phase' = [phase EXCEPT ![r] = Phase["answered"]]
        BY <4>1, PhaseMoves, Zenon
      <4>3. QED
        BY <4>1, <4>2
    <3>4. Promise!Settle(r, v)
      BY <3>1, <3>2, <3>3 DEF Answer, Promise!Settle
    <3>5. QED
      BY <3>4 DEF Promise!Next
  <2>5. CASE \E r \in Requests : SendStep(r)
    <3>1. PICK r \in Requests, v \in Verdict : stage[r] = "idle" /\ v.decision = "allow" /\ Send(r, v)
      BY <2>5 DEF SendStep
    <3>2. phase[r] = "new" /\ phase' = [phase EXCEPT ![r] = "forwarded"]
      <4>1. stage[r] = "idle" /\ stage' = [stage EXCEPT ![r] = "calling"]
        BY <3>1 DEF Send
      <4>2. phase[r] = Phase[stage[r]] /\ phase' = [phase EXCEPT ![r] = Phase["calling"]]
        BY <4>1, PhaseMoves, Zenon
      <4>3. QED
        BY <4>1, <4>2
    <3>3. decided' = [decided EXCEPT ![r] = v] /\ UNCHANGED audit
      BY <3>1 DEF Send
    <3>4. Promise!Forward(r, v)
      BY <3>1, <3>2, <3>3 DEF Promise!Forward
    <3>5. QED
      BY <3>4 DEF Promise!Next
  <2>6. CASE \E r \in Requests, status \in {"allowed", "error"} : Conclude(r, status)
    <3>1. PICK r \in Requests, status \in {"allowed", "error"} : Conclude(r, status)
      BY <2>6
    <3>2. ledger' = ledger \cup {<<r, decided[r]>>}
      BY <3>1, LedgerGrows DEF Conclude, Answer
    <3>3. phase[r] = "forwarded" /\ phase' = [phase EXCEPT ![r] = "closed"]
      <4>1. stage[r] = "calling" /\ stage' = [stage EXCEPT ![r] = "answered"]
        BY <3>1 DEF Conclude, Answer
      <4>2. phase[r] = Phase[stage[r]] /\ phase' = [phase EXCEPT ![r] = Phase["answered"]]
        BY <4>1, PhaseMoves, Zenon
      <4>3. QED
        BY <4>1, <4>2
    <3>4. UNCHANGED decided
      BY <3>1 DEF Conclude, Answer
    <3>5. Promise!Record(r)
      BY <3>2, <3>3, <3>4 DEF Promise!Record
    <3>6. QED
      BY <3>5 DEF Promise!Next
  <2>7. CASE CrashAndRestart
    <3>1. Promise!GoDown
      BY <2>7 DEF CrashAndRestart, Promise!GoDown
    <3>2. QED
      BY <3>1 DEF Promise!Next
  <2>8. QED
    BY <2>1, <2>2, <2>3, <2>4, <2>5, <2>6, <2>7 DEF RequestStep
<1>3. QED
  BY <1>1, <1>2, InvariantHolds, PTL DEF Spec, KeepsPromise, Promise!Spec

-----------------------------------------------------------------------------
(***************************************************************************)
(* 3. Code Mode                                                            *)
(***************************************************************************)

(* The inductive invariant                                                 *)

IsRunning(e) == running # None /\ running.event = e

HasStatus(e, status) == events[e] # None /\ events[e].status = status

\* A submission waits for an approval only if the policy allowed it, and one
\* that the policy has judged is on file or has been started.
Judged(e) ==
  /\ HasStatus(e, "pending_approval") => verdict[e] # None /\ verdict[e].decision = "allow"
  /\ verdict[e] # None /\ events[e] = None => runs[e] > 0

\* Each run was cut off, but the one that is on or the one that is recorded.
Counted(e) ==
  /\ IsRunning(e) \/ HasStatus(e, "completed") => runs[e] = 1 + cut[e]
  /\ ~IsRunning(e) /\ ~HasStatus(e, "completed") => runs[e] = cut[e]

Gated(e) ==
  runs[e] > 0 /\ verdict[e] # None =>
    /\ verdict[e].decision = "allow"
    /\ verdict[e].rule \in ApprovalNames => e \in approved

\* What runs is a parked submission that was taken up, or has no record yet.
RunningOpen ==
  running # None =>
    \/ running.purpose = "approve" /\ HasStatus(running.event, "pending_approval")
       /\ running.event \in approved
    \/ running.purpose # "approve" /\ events[running.event] = None

CodeInvariant ==
  /\ CodeTypeOK
  /\ RunningOpen
  /\ \A e \in Events : Judged(e) /\ Counted(e) /\ Gated(e)

-----------------------------------------------------------------------------
(* Steps                                                                   *)

\* Every step keeps the types of the two shared tables.
LEMMA SharedTablesTyped ==
  ASSUME CodeInvariant, [CodeNext]_codeVars
  PROVE  TokensTypeOK' /\ RulesTypeOK'
<1> USE DEF CodeInvariant, CodeTypeOK
<1>1. CASE UNCHANGED <<tokens, rules>>
  BY <1>1 DEF TokensTypeOK, RulesTypeOK
<1>2. CASE CodeCrash
  BY <1>2, BootstrapRowType, TokenStepTypes, VocabularyAssumption
     DEF CodeCrash, RulesTypeOK
<1>3. CASE ManageTokens
  BY <1>3, TokenStepTypes, CodeAssumption DEF ManageTokens, RulesTypeOK
<1>4. CASE ManageRules
  BY <1>4, AddRuleType, RemoveRuleType, PayloadAssumption DEF ManageRules, TokensTypeOK
<1>5. QED
  BY <1>1, <1>2, <1>3, <1>4
     DEF CodeNext, codeVars, Search, ExecuteCode, Approve, Finish, FinishUnserialisable

\* The policy's answer, and the tenant of a token that is on file.
LEMMA GateTypes ==
  ASSUME TokensTypeOK, RulesTypeOK, NEW t \in Tokens, tokens[t] # None, NEW q
  PROVE  Evaluate(rules, q) \in Evaluation /\ TokenTenant(t) \in Tenants
<1>1. Evaluate(rules, q) \in Evaluation
  BY EvaluateProperties DEF RulesTypeOK, Evaluation
<1>2. TokenTenant(t) \in Tenants
  BY CodeAssumption DEF TokenTenant, TokensTypeOK, TokenRow
<1>3. QED
  BY <1>1, <1>2

\* A run that begins on a submission with no completed record keeps the count.
LEMMA BeginKeepsCount ==
  ASSUME CodeInvariant, NEW e \in Events, NEW purpose \in Purposes, NEW tenant \in Tenants,
         running = None, ~HasStatus(e, "completed"), Start(e, purpose, tenant),
         UNCHANGED <<events, cut>>
  PROVE  /\ running' \in Run
         /\ running'.event = e /\ running'.purpose = purpose /\ running' # None
         /\ runs' \in [Events -> 0..MaxRuns]
         /\ runs'[e] = runs[e] + 1
         /\ \A d \in Events : d # e => runs'[d] = runs[d]
         /\ \A d \in Events : Counted(d)'
<1> USE DEF CodeInvariant, CodeTypeOK, Start
<1>1. running' = [event |-> e, purpose |-> purpose, tenant |-> tenant]
  OBVIOUS
<1>2. running' \in Run
      /\ running'.event = e /\ running'.purpose = purpose
  BY <1>1 DEF Run
<1>3. running' # None
  BY <1>2, CodeAssumption
<1>4. /\ runs' \in [Events -> 0..MaxRuns]
      /\ runs'[e] = runs[e] + 1
      /\ \A d \in Events : d # e => runs'[d] = runs[d]
  BY CodeAssumption
<1>5. ASSUME NEW d \in Events PROVE Counted(d)'
  <2>1. Counted(d) /\ runs[d] \in Nat /\ cut[d] \in Nat
    OBVIOUS
  <2>2. CASE d = e
    BY <1>2, <1>3, <1>4, <2>1, <2>2 DEF Counted, IsRunning, HasStatus
  <2>3. CASE d # e
    BY <1>2, <1>3, <1>4, <2>1, <2>3 DEF Counted, IsRunning, HasStatus
  <2>4. QED
    BY <2>2, <2>3
<1>6. QED
  BY <1>2, <1>3, <1>4, <1>5

\* codemode_search
LEMMA SearchKeeps ==
  ASSUME CodeInvariant, NEW t \in Tokens, NEW e \in Events, Search(t, e)
  PROVE  CodeInvariant'
<1> USE DEF CodeInvariant
<1>1. TokensTypeOK /\ RulesTypeOK /\ TokensTypeOK' /\ RulesTypeOK'
  BY DEF CodeTypeOK, Search, TokensTypeOK, RulesTypeOK
<1>2. TokenTenant(t) \in Tenants
  BY <1>1, GateTypes DEF Search, Permitted, Authenticated
<1>3. /\ running' \in Run
      /\ running'.event = e /\ running'.purpose = "search" /\ running' # None
      /\ runs' \in [Events -> 0..MaxRuns]
      /\ runs'[e] = runs[e] + 1
      /\ \A d \in Events : d # e => runs'[d] = runs[d]
      /\ \A d \in Events : Counted(d)'
  BY <1>2, BeginKeepsCount DEF Search, Fresh, HasStatus, Purposes
<1>4. verdict[e] = None
  BY DEF Search, Fresh, Judged
<1>5. CodeTypeOK'
  BY <1>1, <1>3 DEF CodeTypeOK, Search
<1>6. RunningOpen'
  BY <1>3 DEF RunningOpen, Search, Fresh
<1>7. ASSUME NEW d \in Events PROVE Judged(d)' /\ Gated(d)'
  <2>1. Judged(d) /\ Gated(d) /\ (d = e => verdict[d] = None)
    BY <1>4
  <2>2. verdict' = verdict /\ events' = events /\ approved' = approved
    BY DEF Search
  <2>3. CASE d = e
    BY <1>4, <2>1, <2>2, <2>3 DEF Judged, Gated, HasStatus
  <2>4. CASE d # e
    BY <1>3, <2>1, <2>2, <2>4 DEF Judged, Gated, HasStatus
  <2>5. QED
    BY <2>3, <2>4
<1>8. QED
  BY <1>3, <1>5, <1>6, <1>7

\* codemode_execute: denied, parked or begun, each on the policy's answer.
LEMMA ExecuteKeeps ==
  ASSUME CodeInvariant, NEW t \in Tokens, NEW e \in Events, NEW s \in Servers, ExecuteCode(t, e, s)
  PROVE  CodeInvariant'
<1> DEFINE tenant == TokenTenant(t)
           q == [action |-> CodeExecute, resource |-> s, tenant |-> tenant]
           said == Evaluate(rules, q)
<1> USE DEF CodeInvariant
<1>1. TokensTypeOK /\ RulesTypeOK /\ TokensTypeOK' /\ RulesTypeOK'
  BY DEF CodeTypeOK, ExecuteCode, TokensTypeOK, RulesTypeOK
<1>2. said \in Evaluation /\ tenant \in Tenants
  BY <1>1, GateTypes DEF ExecuteCode, Permitted, Authenticated, MayExecuteCode
<1>3. /\ running = None /\ events[e] = None /\ runs[e] = 0
      /\ verdict' = [verdict EXCEPT ![e] = said]
      /\ approved' = approved /\ cut' = cut
      /\ \/ /\ said.decision = "deny"
            /\ Log(e, tenant, "execute", "deny", "denied")
            /\ running' = running /\ runs' = runs
         \/ /\ said.decision = "allow" /\ said.rule \in ApprovalNames
            /\ Log(e, tenant, "execute", "pending_approval", "pending_approval")
            /\ running' = running /\ runs' = runs
         \/ /\ said.decision = "allow" /\ said.rule \notin ApprovalNames
            /\ Start(e, "execute", tenant)
            /\ events' = events
  BY DEF ExecuteCode, Fresh, MayExecuteCode
<1> HIDE DEF said, tenant, q
<1>4. /\ verdict' \in [Events -> Evaluation \cup {None}]
      /\ verdict'[e] = said /\ said # None
      /\ \A d \in Events : d # e => verdict'[d] = verdict[d]
  BY <1>2, <1>3, CodeAssumption DEF CodeTypeOK
<1>5. CASE /\ said.decision = "allow" /\ said.rule \notin ApprovalNames
           /\ Start(e, "execute", tenant)
           /\ events' = events
  <2>1. /\ running' \in Run
        /\ running'.event = e /\ running'.purpose = "execute" /\ running' # None
        /\ runs' \in [Events -> 0..MaxRuns]
        /\ runs'[e] = runs[e] + 1
        /\ \A d \in Events : d # e => runs'[d] = runs[d]
        /\ \A d \in Events : Counted(d)'
    BY <1>2, <1>3, <1>5, BeginKeepsCount DEF HasStatus, Purposes
  <2>2. CodeTypeOK'
    BY <1>1, <1>3, <1>4, <1>5, <2>1 DEF CodeTypeOK
  <2>3. RunningOpen'
    BY <1>3, <1>5, <2>1 DEF RunningOpen
  <2>4. ASSUME NEW d \in Events PROVE Judged(d)' /\ Gated(d)'
    <3>1. Judged(d) /\ Gated(d)
      OBVIOUS
    <3>2. CASE d = e
      BY <1>3, <1>4, <1>5, <2>1, <3>2 DEF Judged, Gated, HasStatus
    <3>3. CASE d # e
      BY <1>3, <1>4, <1>5, <2>1, <3>1, <3>3 DEF Judged, Gated, HasStatus
    <3>4. QED
      BY <3>2, <3>3
  <2>5. QED
    BY <2>1, <2>2, <2>3, <2>4
<1>6. ASSUME NEW policy \in {"deny", "pending_approval"},
             NEW status \in {"denied", "pending_approval"},
             status = "pending_approval" => said.decision = "allow",
             Log(e, tenant, "execute", policy, status),
             running' = running, runs' = runs
      PROVE  CodeInvariant'
  <2> DEFINE row == [tenant |-> tenant, action |-> "execute", policy |-> policy, status |-> status]
  <2>1. row \in EventRow /\ row # None /\ row.status = status
    BY <1>2, CodeAssumption DEF EventRow
  <2>2. events' = [events EXCEPT ![e] = row]
    BY <1>6 DEF Log
  <2> HIDE DEF row
  <2>3. /\ events' \in [Events -> EventRow \cup {None}]
        /\ events'[e] = row
        /\ \A d \in Events : d # e => events'[d] = events[d]
    BY <2>1, <2>2 DEF CodeTypeOK
  <2>4. CodeTypeOK'
    BY <1>1, <1>3, <1>4, <1>6, <2>3 DEF CodeTypeOK
  <2>5. RunningOpen'
    BY <1>3, <1>6 DEF RunningOpen
  <2>6. ASSUME NEW d \in Events PROVE Judged(d)' /\ Gated(d)' /\ Counted(d)'
    <3>1. Judged(d) /\ Gated(d) /\ Counted(d) /\ runs[d] \in Nat /\ cut[d] \in Nat
      BY DEF CodeTypeOK
    <3>2. CASE d = e
      BY <1>3, <1>4, <1>6, <2>1, <2>3, <3>1, <3>2 DEF Judged, Gated, Counted, IsRunning, HasStatus
    <3>3. CASE d # e
      BY <1>3, <1>4, <1>6, <2>3, <3>1, <3>3 DEF Judged, Gated, Counted, IsRunning, HasStatus
    <3>4. QED
      BY <3>2, <3>3
  <2>7. QED
    BY <2>4, <2>5, <2>6
<1>7. QED
  BY <1>3, <1>5, <1>6

\* codemode_approve
LEMMA ApproveKeeps ==
  ASSUME CodeInvariant, NEW t \in Tokens, NEW e \in Events, Approve(t, e)
  PROVE  CodeInvariant'
<1> USE DEF CodeInvariant
<1>1. TokensTypeOK' /\ RulesTypeOK'
  BY DEF CodeTypeOK, Approve, TokensTypeOK, RulesTypeOK
<1>2. /\ running = None /\ HasStatus(e, "pending_approval")
      /\ Start(e, "approve", events[e].tenant)
      /\ approved' = approved \cup {e}
      /\ events' = events /\ verdict' = verdict /\ cut' = cut
  BY DEF Approve, HasStatus, MayApprove
<1>3. events[e].tenant \in Tenants
  BY <1>2 DEF HasStatus, CodeTypeOK, EventRow
<1>4. /\ running' \in Run
      /\ running'.event = e /\ running'.purpose = "approve" /\ running' # None
      /\ runs' \in [Events -> 0..MaxRuns]
      /\ runs'[e] = runs[e] + 1
      /\ \A d \in Events : d # e => runs'[d] = runs[d]
      /\ \A d \in Events : Counted(d)'
  BY <1>2, <1>3, BeginKeepsCount DEF HasStatus, Purposes
<1>5. CodeTypeOK'
  BY <1>1, <1>2, <1>4 DEF CodeTypeOK
<1>6. RunningOpen'
  BY <1>2, <1>4 DEF RunningOpen, HasStatus
<1>7. ASSUME NEW d \in Events PROVE Judged(d)' /\ Gated(d)'
  <2>1. Judged(d) /\ Gated(d)
    OBVIOUS
  <2>2. CASE d = e
    BY <1>2, <1>4, <2>1, <2>2 DEF Judged, Gated, HasStatus
  <2>3. CASE d # e
    BY <1>2, <1>4, <2>1, <2>3 DEF Judged, Gated, HasStatus
  <2>4. QED
    BY <2>2, <2>3
<1>8. QED
  BY <1>4, <1>5, <1>6, <1>7

\* The record of a run that ended is a completed one, over a fresh or a parked
\* submission.
LEMMA FinishKeeps ==
  ASSUME CodeInvariant, Finish
  PROVE  CodeInvariant'
<1> DEFINE e == running.event
<1> USE DEF CodeInvariant
<1>1. /\ TokensTypeOK' /\ RulesTypeOK'
      /\ running \in Run /\ running # None /\ running' = None /\ e \in Events
      /\ verdict' = verdict /\ approved' = approved /\ runs' = runs /\ cut' = cut
  BY DEF CodeTypeOK, Finish, logVars, TokensTypeOK, RulesTypeOK, Run, UpdateStatus
<1>2. /\ events' \in [Events -> EventRow \cup {None}]
      /\ events'[e] # None /\ events'[e].status = "completed"
      /\ \A d \in Events : d # e => events'[d] = events[d]
  <2>1. CASE running.purpose = "approve" /\ events' = [events EXCEPT ![e].status = "completed"]
    <3>1. events[e] \in EventRow
      BY <1>1, <2>1 DEF RunningOpen, HasStatus, CodeTypeOK
    <3> DEFINE row == [events[e] EXCEPT !.status = "completed"]
    <3>2. row \in EventRow /\ row.status = "completed" /\ row # None
      BY <3>1, CodeAssumption DEF EventRow
    <3>3. events' = [events EXCEPT ![e] = row]
      BY <2>1
    <3> HIDE DEF row
    <3>4. QED
      BY <1>1, <3>2, <3>3 DEF CodeTypeOK
  <2>2. CASE running.purpose # "approve"
             /\ Log(e, running.tenant, running.purpose, "allow", "completed")
    <3> DEFINE row == [tenant |-> running.tenant, action |-> running.purpose,
                       policy |-> "allow", status |-> "completed"]
    <3>1. row \in EventRow /\ row.status = "completed" /\ row # None
      BY <1>1, <2>2, CodeAssumption DEF EventRow, Run, Purposes
    <3>2. events' = [events EXCEPT ![e] = row]
      BY <2>2 DEF Log
    <3> HIDE DEF row
    <3>3. QED
      BY <1>1, <3>1, <3>2 DEF CodeTypeOK
  <2>3. QED
    BY <2>1, <2>2 DEF Finish, UpdateStatus
<1>3. CodeTypeOK'
  BY <1>1, <1>2 DEF CodeTypeOK
<1>4. RunningOpen'
  BY <1>1 DEF RunningOpen
<1>5. ASSUME NEW d \in Events PROVE Judged(d)' /\ Gated(d)' /\ Counted(d)'
  <2>1. Judged(d) /\ Gated(d) /\ Counted(d)
    OBVIOUS
  <2>2. CASE d = e
    BY <1>1, <1>2, <2>1, <2>2 DEF Judged, Gated, Counted, IsRunning, HasStatus
  <2>3. CASE d # e
    BY <1>1, <1>2, <2>1, <2>3 DEF Judged, Gated, Counted, IsRunning, HasStatus
  <2>4. QED
    BY <2>2, <2>3
<1>6. QED
  BY <1>3, <1>4, <1>5

\* A run that ends without its record, by an error or with the process.
LEMMA CutOffKeeps ==
  ASSUME CodeInvariant, running # None, running' = None,
         cut' = [cut EXCEPT ![running.event] = @ + 1],
         TokensTypeOK', RulesTypeOK', UNCHANGED <<events, verdict, approved, runs>>
  PROVE  CodeInvariant'
<1> DEFINE e == running.event
<1> USE DEF CodeInvariant
<1>1. e \in Events /\ IsRunning(e) /\ ~HasStatus(e, "completed")
  BY DEF CodeTypeOK, Run, IsRunning, RunningOpen, HasStatus
<1>2. runs[e] = 1 + cut[e] /\ runs[e] \in 0..MaxRuns /\ cut[e] \in 0..MaxRuns
  BY <1>1 DEF Counted, CodeTypeOK
<1>3. /\ cut' \in [Events -> 0..MaxRuns]
      /\ cut'[e] = cut[e] + 1
      /\ \A d \in Events : d # e => cut'[d] = cut[d]
  BY <1>1, <1>2, CodeAssumption DEF CodeTypeOK
<1>4. CodeTypeOK'
  BY <1>3 DEF CodeTypeOK
<1>5. RunningOpen'
  BY DEF RunningOpen
<1>6. ASSUME NEW d \in Events PROVE Judged(d)' /\ Gated(d)' /\ Counted(d)'
  <2>1. Judged(d) /\ Gated(d) /\ Counted(d)
    OBVIOUS
  <2>2. Judged(d)' /\ Gated(d)'
    BY <2>1 DEF Judged, Gated, HasStatus
  <2>3. CASE d = e
    BY <1>1, <1>2, <1>3, <2>2, <2>3 DEF Counted, IsRunning, HasStatus
  <2>4. CASE d # e
    BY <1>3, <2>1, <2>2, <2>4 DEF Counted, IsRunning, HasStatus
  <2>5. QED
    BY <2>3, <2>4
<1>7. QED
  BY <1>4, <1>5, <1>6

\* A step that touches the shared tables only.
LEMMA ManagementKeeps ==
  ASSUME CodeInvariant, TokensTypeOK', RulesTypeOK',
         UNCHANGED <<events, running, verdict, approved, runs, cut>>
  PROVE  CodeInvariant'
<1>1. CodeTypeOK' /\ RunningOpen'
  BY DEF CodeInvariant, CodeTypeOK, RunningOpen, HasStatus
<1>2. \A d \in Events : Judged(d)' /\ Gated(d)' /\ Counted(d)'
  BY DEF CodeInvariant, Judged, Gated, Counted, IsRunning, HasStatus
<1>3. QED
  BY <1>1, <1>2 DEF CodeInvariant

\* Every step of code mode keeps the invariant.
LEMMA CodeInvariantHolds == CodeSpec => []CodeInvariant
<1>1. CodeInit => CodeInvariant
  <2> SUFFICES ASSUME CodeInit PROVE CodeInvariant
    OBVIOUS
  <2>1. TokensTypeOK /\ RulesTypeOK
    BY BootstrapRowType, EmptySeq DEF CodeInit, AuthzInit, PolicyInit, TokensTypeOK, RulesTypeOK
  <2>2. CodeTypeOK /\ RunningOpen
    BY <2>1, CodeAssumption DEF CodeInit, CodeTypeOK, RunningOpen
  <2>3. \A d \in Events : Judged(d) /\ Gated(d) /\ Counted(d)
    BY DEF CodeInit, Judged, Gated, Counted, IsRunning, HasStatus
  <2>4. QED
    BY <2>2, <2>3 DEF CodeInvariant
<1>2. CodeInvariant /\ [CodeNext]_codeVars => CodeInvariant'
  <2> SUFFICES ASSUME CodeInvariant, [CodeNext]_codeVars PROVE CodeInvariant'
    OBVIOUS
  <2>1. TokensTypeOK' /\ RulesTypeOK'
    BY SharedTablesTyped
  <2>2. ASSUME NEW t \in Tokens, NEW e \in Events, Search(t, e) PROVE CodeInvariant'
    BY <2>2, SearchKeeps
  <2>3. ASSUME NEW t \in Tokens, NEW e \in Events, NEW s \in Servers, ExecuteCode(t, e, s)
        PROVE  CodeInvariant'
    BY <2>3, ExecuteKeeps
  <2>4. ASSUME NEW t \in Tokens, NEW e \in Events, Approve(t, e) PROVE CodeInvariant'
    BY <2>4, ApproveKeeps
  <2>5. CASE Finish
    BY <2>5, FinishKeeps
  <2>6. CASE FinishUnserialisable
    BY <2>1, <2>6, CutOffKeeps DEF FinishUnserialisable
  <2>7. CASE CodeCrash
    <3>1. CASE running = None
      BY <2>1, <2>7, <3>1, ManagementKeeps DEF CodeCrash
    <3>2. CASE running # None
      BY <2>1, <2>7, <3>2, CutOffKeeps DEF CodeCrash
    <3>3. QED
      BY <3>1, <3>2
  <2>8. CASE ManageTokens \/ ManageRules \/ UNCHANGED codeVars
    BY <2>1, <2>8, ManagementKeeps DEF ManageTokens, ManageRules, codeVars, logVars
  <2>9. QED
    BY <2>2, <2>3, <2>4, <2>5, <2>6, <2>7, <2>8 DEF CodeNext
<1>3. QED
  BY <1>1, <1>2, PTL DEF CodeSpec

-----------------------------------------------------------------------------
(* Theorems                                                                *)

\* handle_execute and approve_and_execute: code submitted for execution runs on
\* an allow only and, where the rule asks for it, after an admin took it up.
THEOREM CodeRunsBehindItsGate == CodeSpec => []GateHolds
<1>1. CodeInvariant => GateHolds
  BY DEF CodeInvariant, GateHolds, Gated
<1>2. QED
  BY <1>1, CodeInvariantHolds, PTL

\* Rows, submissions and counters keep their types: a record is completed, denied
\* or waiting for an approval, and never something in between.
THEOREM CodeTypeCorrect == CodeSpec => []CodeTypeOK
  BY CodeInvariantHolds, PTL DEF CodeInvariant

\* Code runs again only after a run that left no record.
THEOREM CodeRunsOncePerRecord == CodeSpec => []RunsOncePerRecord
<1>1. CodeInvariant => RunsOncePerRecord
  <2> SUFFICES ASSUME CodeInvariant, NEW e \in Events
               PROVE  /\ runs[e] <= 1 + cut[e]
                      /\ HasStatus(e, "completed") => runs[e] = 1 + cut[e]
    BY DEF RunsOncePerRecord, HasStatus
  <2>1. Counted(e) /\ runs[e] \in Nat /\ cut[e] \in Nat
    BY DEF CodeInvariant, CodeTypeOK
  <2>2. QED
    BY <2>1 DEF Counted
<1>2. QED
  BY <1>1, CodeInvariantHolds, PTL

\* AuditLogger.log and update_status never touch a record that says completed or
\* denied, and its code does not run.
THEOREM ClosedRecordsAreFinal == CodeSpec => ClosedEventsStayClosed
<1>1. CodeInvariant /\ [CodeNext]_codeVars
        => [\A e \in Events :
              events[e] # None /\ events[e].status # "pending_approval" =>
                events'[e] = events[e] /\ runs'[e] = runs[e]]_codeVars
  <2> SUFFICES ASSUME CodeInvariant, [CodeNext]_codeVars, NEW d \in Events,
                      events[d] # None, events[d].status # "pending_approval"
               PROVE  events'[d] = events[d] /\ runs'[d] = runs[d]
    OBVIOUS
  <2>1. events \in [Events -> EventRow \cup {None}] /\ runs \in [Events -> 0..MaxRuns]
    BY DEF CodeInvariant, CodeTypeOK
  <2>2. ASSUME NEW t \in Tokens, NEW e \in Events, Search(t, e)
        PROVE  events'[d] = events[d] /\ runs'[d] = runs[d]
    BY <2>1, <2>2 DEF Search, Fresh, Start
  <2>3. ASSUME NEW t \in Tokens, NEW e \in Events, NEW s \in Servers, ExecuteCode(t, e, s)
        PROVE  events'[d] = events[d] /\ runs'[d] = runs[d]
    BY <2>1, <2>3 DEF ExecuteCode, Fresh, Start, Log
  <2>4. ASSUME NEW t \in Tokens, NEW e \in Events, Approve(t, e)
        PROVE  events'[d] = events[d] /\ runs'[d] = runs[d]
    BY <2>1, <2>4 DEF Approve, Start
  <2>5. CASE Finish
    BY <2>1, <2>5 DEF Finish, logVars, Log, CodeInvariant, RunningOpen, HasStatus, UpdateStatus
  <2>6. CASE FinishUnserialisable \/ CodeCrash \/ ManageTokens \/ ManageRules
             \/ UNCHANGED codeVars
    BY <2>6 DEF FinishUnserialisable, CodeCrash, ManageTokens, ManageRules, codeVars, logVars
  <2>7. QED
    BY <2>2, <2>3, <2>4, <2>5, <2>6 DEF CodeNext
<1>2. QED
  BY <1>1, CodeInvariantHolds, PTL DEF CodeSpec, ClosedEventsStayClosed

-----------------------------------------------------------------------------
(***************************************************************************)
(* 4. Agent enrollment                                                     *)
(***************************************************************************)

HoldsToken(a) == tokens[a] # None

\* The row its registration wrote, as it is or revoked.
GrantedRow(a) == tokens[a] \in {AgentRow(a), RevokedRow(a)}

\* The registration that is half way was granted by this process and has its token.
EnrollingOK ==
  enrolling # None => HoldsToken(enrolling) /\ \E g \in grants : g.agent = enrolling /\ g.boot = boot

TablesInvariant ==
  /\ TokensTypeOK
  /\ enrolling \in Agents \cup {None}
  /\ agents \subseteq Agents
  /\ boot \in Nat
  /\ \A g \in grants : g.boot \in Nat
  /\ EnrollingOK
  /\ \A a \in agents : HoldsToken(a)
  /\ \A a \in Agents \ reposted : HoldsToken(a) => GrantedRow(a)
  /\ OrphansOnlyFromCrash

\* An agent's token row stays through every step on the table: a row may be
\* replaced, revoked or expire, and none is taken out.
LEMMA TokensStay ==
  ASSUME TokensTypeOK, NEW t \in Tokens, NEW a \in Agents, HoldsToken(a),
         \/ tokens' = tokens
         \/ RevokeToken(t)
         \/ ExpireToken(t)
         \/ \E row \in TokenRow : UpsertToken(t, row)
  PROVE  HoldsToken(a)'
<1>1. a \in Tokens /\ tokens[a] \in TokenRow /\ None \notin TokenRow
  BY EnrollmentAssumption DEF HoldsToken, TokensTypeOK
<1>2. CASE t # a \/ tokens' = tokens
  BY <1>1, <1>2 DEF RevokeToken, ExpireToken, UpsertToken, TokensTypeOK, HoldsToken
<1>3. CASE t = a /\ RevokeToken(t)
  <2> DEFINE row == [[tokens[a] EXCEPT !.enabled = FALSE] EXCEPT !.revoked = TRUE]
  <2>1. row \in TokenRow
    BY <1>1 DEF TokenRow
  <2>2. tokens' = [tokens EXCEPT ![a] = row]
    BY <1>3 DEF RevokeToken, TokensTypeOK
  <2> HIDE DEF row
  <2>3. QED
    BY <1>1, <2>1, <2>2 DEF TokensTypeOK, HoldsToken
<1>4. CASE t = a /\ ExpireToken(t)
  <2>1. [tokens[a] EXCEPT !.expiry = "passed"] \in TokenRow
    BY <1>1 DEF TokenRow, Expiries
  <2>2. tokens'[a] = [tokens[a] EXCEPT !.expiry = "passed"]
    BY <1>1, <1>4 DEF ExpireToken, TokensTypeOK
  <2>3. QED
    BY <1>1, <2>1, <2>2 DEF HoldsToken
<1>5. CASE t = a /\ \E row \in TokenRow : UpsertToken(t, row)
  BY <1>1, <1>5 DEF UpsertToken, TokensTypeOK, HoldsToken
<1>6. QED
  BY <1>2, <1>3, <1>4, <1>5

\* The row of a registration stays what it is until it is posted again: it can
\* be revoked, more than once, and never expires.
LEMMA GrantedRowsStay ==
  ASSUME TokensTypeOK, NEW t \in Tokens, NEW a \in Agents, GrantedRow(a),
         \/ tokens' = tokens
         \/ RevokeToken(t)
         \/ ExpireToken(t)
         \/ t # a /\ \E row \in TokenRow : UpsertToken(t, row)
  PROVE  GrantedRow(a)'
<1>1. a \in Tokens
  BY EnrollmentAssumption
<1>2. CASE t # a \/ tokens' = tokens
  BY <1>1, <1>2 DEF RevokeToken, ExpireToken, UpsertToken, TokensTypeOK, GrantedRow
<1>3. CASE t = a /\ RevokeToken(t)
  <2>1. tokens'[a] = [tokens[a] EXCEPT !.enabled = FALSE, !.revoked = TRUE]
    BY <1>1, <1>3 DEF RevokeToken, TokensTypeOK
  <2>2. tokens'[a] = RevokedRow(a)
    BY <2>1 DEF GrantedRow, RevokedRow, AgentRow
  <2>3. QED
    BY <2>2 DEF GrantedRow
<1>4. CASE t = a /\ ExpireToken(t)
  <2>1. AgentRow(a).expiry = "never"
    BY DEF AgentRow
  <2>2. RevokedRow(a).expiry = "never"
    BY DEF RevokedRow, AgentRow
  <2>3. tokens[a].expiry = "never"
    BY <2>1, <2>2 DEF GrantedRow
  <2>4. QED
    BY <1>4, <2>3 DEF ExpireToken
<1>5. QED
  BY <1>2, <1>3, <1>4

\* A row that does not change is granted still.
LEMMA GrantedRowSame ==
  ASSUME NEW a \in Agents, tokens'[a] = tokens[a], GrantedRow(a)
  PROVE  GrantedRow(a)'
BY DEF GrantedRow

\* A row appears in the token table only for the token that is upserted.
LEMMA NoNewRows ==
  ASSUME TokensTypeOK, NEW t \in Tokens, NEW a \in Agents, tokens[a] = None,
         \/ tokens' = tokens
         \/ RevokeToken(t)
         \/ ExpireToken(t)
         \/ t # a /\ \E row \in TokenRow : UpsertToken(t, row)
  PROVE  tokens'[a] = None
BY EnrollmentAssumption DEF RevokeToken, ExpireToken, UpsertToken, TokensTypeOK

\* The row that _register_agent_impl makes for an agent is a token row.
LEMMA AgentRowType ==
  ASSUME NEW a \in Agents
  PROVE  AgentRow(a) \in TokenRow /\ AgentRow(a) # None
<1>1. AgentRow(a) \in TokenRow
  <2>1. TenantOf[a] \in Tenants
    BY EnrollmentAssumption
  <2>2. {"gateway:read", "gateway:write", "gateway:plan", "gateway:execute"} \subseteq Scopes
    BY DEF Scopes
  <2>3. QED
    BY <2>1, <2>2 DEF AgentRow, TokenRow, Roles, Expiries
<1>2. QED
  BY <1>1, EnrollmentAssumption

\* Registration, crashes and an admin's calls keep the tables together.
LEMMA TablesInvariantHolds == EnrollmentSpec => []TablesInvariant
<1> USE EnrollmentAssumption
<1>1. EnrollmentInit => TablesInvariant
  <2> SUFFICES ASSUME EnrollmentInit PROVE TablesInvariant
    OBVIOUS
  <2>1. \A a \in Agents : tokens[a] = None
    BY VocabularyAssumption DEF EnrollmentInit, AuthzInit
  <2>2. TokensTypeOK
    BY BootstrapRowType DEF EnrollmentInit, AuthzInit, TokensTypeOK
  <2>3. QED
    BY <2>1, <2>2
       DEF EnrollmentInit, TablesInvariant, EnrollingOK, OrphansOnlyFromCrash, HoldsToken
<1>2. TablesInvariant /\ [EnrollmentNext]_enrollmentVars => TablesInvariant'
  <2> SUFFICES ASSUME TablesInvariant, [EnrollmentNext]_enrollmentVars PROVE TablesInvariant'
    OBVIOUS
  <2> USE DEF TablesInvariant
  <2>1. ASSUME NEW a \in Agents, NEW ip \in IPs, Enrol(a, ip) PROVE TablesInvariant'
    <3> DEFINE new == [agent |-> a, ip |-> ip, at |-> clock, boot |-> boot]
    <3>1. AgentRow(a) \in TokenRow /\ AgentRow(a) # None
      BY AgentRowType
    <3>2. /\ tokens' = [tokens EXCEPT ![a] = AgentRow(a)]
          /\ enrolling = None /\ enrolling' = a /\ a \in Tokens
          /\ agents' = agents /\ boot' = boot /\ grants' = grants \cup {new}
          /\ tokens[a] = None /\ reposted' = reposted
      BY <2>1 DEF Enrol, UpsertToken
    <3>3. /\ TokensTypeOK' /\ HoldsToken(a)' /\ tokens'[a] = AgentRow(a)
          /\ \A b \in Agents \ {a} : tokens'[b] = tokens[b]
      BY <3>1, <3>2 DEF TokensTypeOK, HoldsToken
    <3>4. new.agent = a /\ new.boot = boot /\ new \in grants'
      BY <3>2
    <3> HIDE DEF new
    <3>5. EnrollingOK'
      BY <3>2, <3>3, <3>4 DEF EnrollingOK
    <3>6. \A b \in agents' : HoldsToken(b)'
      BY <3>2, <3>3 DEF HoldsToken
    <3>7. \A b \in Agents \ reposted' : HoldsToken(b)' => GrantedRow(b)'
      <4> SUFFICES ASSUME NEW b \in Agents \ reposted', HoldsToken(b)' PROVE GrantedRow(b)'
        OBVIOUS
      <4>1. CASE b = a
        <5>1. tokens'[b] = AgentRow(b)
          BY <3>3, <4>1
        <5>2. QED
          BY <5>1 DEF GrantedRow
      <4>2. CASE b # a
        <5>1. tokens'[b] = tokens[b] /\ GrantedRow(b)
          BY <3>2, <3>3, <4>2 DEF HoldsToken
        <5>2. QED
          BY <5>1, GrantedRowSame
      <4>3. QED
        BY <4>1, <4>2
    <3>8. OrphansOnlyFromCrash'
      <4> SUFFICES ASSUME NEW b \in Agents, tokens'[b] # None, b \notin agents, b # a
                   PROVE  \E g \in grants : g.agent = b /\ g.boot < boot
        BY <3>2 DEF OrphansOnlyFromCrash
      <4>1. tokens[b] # None /\ b # None
        BY <3>3, VocabularyAssumption
      <4>2. QED
        BY <3>2, <4>1 DEF OrphansOnlyFromCrash
    <3>9. QED
      BY <3>2, <3>3, <3>4, <3>5, <3>6, <3>7, <3>8
  <2>2. CASE StoreAgent
    <3>1. \A a \in agents' : HoldsToken(a)'
      BY <2>2 DEF StoreAgent, EnrollingOK, HoldsToken
    <3>2. OrphansOnlyFromCrash'
      BY <2>2 DEF StoreAgent, OrphansOnlyFromCrash
    <3>3. \A b \in Agents \ reposted' : HoldsToken(b)' => GrantedRow(b)'
      BY <2>2, GrantedRowSame DEF StoreAgent, HoldsToken
    <3>4. QED
      BY <2>2, <3>1, <3>2, <3>3 DEF StoreAgent, EnrollingOK, TokensTypeOK
  <2>3. ASSUME NEW t \in Tokens, NEW row \in PostedRows, PostToken(t, row) PROVE TablesInvariant'
    <3>1. /\ enrolling = None /\ row \in TokenRow /\ UpsertToken(t, row)
          /\ UNCHANGED <<enrolling, agents, grants, boot>>
          /\ reposted' = reposted \cup ({t} \cap Agents)
          /\ t \in Agents => tokens[t] # None
      BY <2>3 DEF PostToken, AdminCalls
    <3>2. TokensTypeOK' /\ \A a \in Agents : HoldsToken(a) => HoldsToken(a)'
      BY <3>1, TokensStay, TokenStepTypes
    <3>3. \A a \in Agents : tokens[a] = None => tokens'[a] = None
      BY <3>1, NoNewRows
    <3>4. ASSUME NEW a \in Agents \ reposted', HoldsToken(a)' PROVE GrantedRow(a)'
      <4>1. t # a /\ a \notin reposted
        BY <3>1
      <4>2. HoldsToken(a)
        BY <3>3, <3>4 DEF HoldsToken
      <4>3. GrantedRow(a)
        BY <4>1, <4>2
      <4>4. QED
        BY <3>1, <4>1, <4>3, GrantedRowsStay
    <3>5. OrphansOnlyFromCrash'
      BY <3>1, <3>3 DEF OrphansOnlyFromCrash
    <3>6. QED
      BY <3>1, <3>2, <3>4, <3>5 DEF EnrollingOK
  <2>4. ASSUME NEW t \in Tokens, RevokeAccess(t) \/ AccessExpires(t) PROVE TablesInvariant'
    <3>1. /\ RevokeToken(t) \/ ExpireToken(t)
          /\ UNCHANGED <<enrolling, agents, grants, boot, reposted>>
      BY <2>4 DEF RevokeAccess, AccessExpires
    <3>2. TokensTypeOK' /\ \A a \in Agents : HoldsToken(a) => HoldsToken(a)'
      BY <3>1, TokensStay, TokenStepTypes
    <3>3. \A a \in Agents : tokens[a] = None => tokens'[a] = None
      BY <3>1, NoNewRows
    <3>4. ASSUME NEW a \in Agents \ reposted', HoldsToken(a)' PROVE GrantedRow(a)'
      <4>1. GrantedRow(a)
        BY <3>1, <3>3, <3>4 DEF HoldsToken
      <4>2. QED
        BY <3>1, <4>1, GrantedRowsStay
    <3>5. EnrollingOK' /\ OrphansOnlyFromCrash'
      BY <3>1, <3>2, <3>3 DEF EnrollingOK, OrphansOnlyFromCrash
    <3>6. QED
      BY <3>1, <3>2, <3>4, <3>5
  <2>5. CASE EnrollmentCrash
    <3>1. AdminToken \in Tokens /\ AdminToken \notin Agents
      BY VocabularyAssumption
    <3>2. TokensTypeOK'
      BY <2>5, <3>1, BootstrapRowType, TokenStepTypes DEF EnrollmentCrash
    <3>3. /\ \A b \in Agents : HoldsToken(b) => HoldsToken(b)'
          /\ \A b \in Agents : GrantedRow(b) => GrantedRow(b)'
          /\ \A b \in Agents : tokens[b] = None => tokens'[b] = None
      BY <2>5, <3>1, BootstrapRowType, TokensStay, GrantedRowsStay, NoNewRows DEF EnrollmentCrash
    <3>4. /\ enrolling' = None /\ agents' = agents /\ grants' = grants /\ boot' = boot + 1
          /\ reposted' = reposted
      BY <2>5 DEF EnrollmentCrash
    <3>5. (\A b \in agents' : HoldsToken(b)') /\ EnrollingOK'
      BY <3>3, <3>4 DEF EnrollingOK
    <3>6. \A b \in Agents \ reposted' : HoldsToken(b)' => GrantedRow(b)'
      BY <3>3, <3>4 DEF HoldsToken
    <3>7. OrphansOnlyFromCrash'
      <4> SUFFICES ASSUME NEW a \in Agents, tokens'[a] # None, a \notin agents
                   PROVE  \E g \in grants : g.agent = a /\ g.boot < boot + 1
        BY <3>4 DEF OrphansOnlyFromCrash
      <4>1. CASE enrolling = a
        BY <4>1, VocabularyAssumption DEF EnrollingOK
      <4>2. CASE enrolling # a
        BY <3>3, <4>2 DEF OrphansOnlyFromCrash
      <4>3. QED
        BY <4>1, <4>2
    <3>8. QED
      BY <3>2, <3>4, <3>5, <3>6, <3>7
  <2>6. ASSUME UNCHANGED <<tokens, boot, enrolling, agents, grants, reposted>>
        PROVE  TablesInvariant'
    <3>1. \A b \in Agents \ reposted' : HoldsToken(b)' => GrantedRow(b)'
      BY <2>6, GrantedRowSame DEF HoldsToken
    <3>2. QED
      BY <2>6, <3>1 DEF TokensTypeOK, EnrollingOK, OrphansOnlyFromCrash, HoldsToken
  <2>7. QED
    BY <2>1, <2>2, <2>3, <2>4, <2>5, <2>6 DEF EnrollmentNext, RefuseAgent, Tick, enrollmentVars
<1>3. QED
  BY <1>1, <1>2, PTL DEF EnrollmentSpec

-----------------------------------------------------------------------------
(* The registration window                                                 *)

\* An agent is granted once, and holds its token from then on; no grant is of a
\* process to come.
GrantsApart ==
  /\ \A g \in grants : HoldsToken(g.agent) /\ g.boot <= boot
  /\ \A g, h \in grants : g.agent = h.agent => g = h

\* The list of a client holds grants of this process only, and every one of
\* them that is within the window.
StampsMatch ==
  /\ \A ip \in IPs : \A t \in stamps[ip] :
       [agent |-> t.agent, ip |-> ip, at |-> t.at, boot |-> boot] \in grants
  /\ \A g \in grants :
       g.boot = boot /\ clock - g.at < Window => [agent |-> g.agent, at |-> g.at] \in stamps[g.ip]

WindowsBounded ==
  \A ip \in IPs : IsFiniteSet(stamps[ip]) /\ Cardinality(Recent(ip)) <= Limit

WindowInvariant ==
  /\ EnrollmentTypeOK
  /\ IsFiniteSet(grants)
  /\ GrantsApart
  /\ StampsMatch
  /\ WindowsBounded

\* No step takes a token away from an agent.
LEMMA TokensKept ==
  ASSUME TokensTypeOK, [EnrollmentNext]_enrollmentVars
  PROVE  TokensTypeOK' /\ \A b \in Agents : HoldsToken(b) => HoldsToken(b)'
<1>1. ASSUME NEW a \in Agents, NEW ip \in IPs, Enrol(a, ip)
      PROVE  TokensTypeOK' /\ \A b \in Agents : HoldsToken(b) => HoldsToken(b)'
  <2>1. a \in Tokens /\ tokens[a] = None /\ UpsertToken(a, AgentRow(a)) /\ AgentRow(a) \in TokenRow
    BY <1>1, AgentRowType, EnrollmentAssumption DEF Enrol
  <2>2. QED
    BY <2>1, TokenStepTypes, TokensStay DEF HoldsToken
<1>2. ASSUME NEW t \in Tokens,
             \/ \E row \in PostedRows : PostToken(t, row)
             \/ RevokeAccess(t)
             \/ AccessExpires(t)
      PROVE  TokensTypeOK' /\ \A b \in Agents : HoldsToken(b) => HoldsToken(b)'
  <2>1. \/ \E row \in TokenRow : UpsertToken(t, row)
        \/ RevokeToken(t)
        \/ ExpireToken(t)
    BY <1>2, EnrollmentAssumption DEF PostToken, RevokeAccess, AccessExpires
  <2>2. QED
    BY <2>1, TokenStepTypes, TokensStay
<1>3. CASE EnrollmentCrash
  <2>1. AdminToken \in Tokens \ Agents /\ UpsertToken(AdminToken, BootstrapRow)
    BY <1>3, VocabularyAssumption, EnrollmentAssumption DEF EnrollmentCrash
  <2>2. QED
    BY <2>1, BootstrapRowType, TokenStepTypes, TokensStay
<1>4. CASE UNCHANGED tokens
  BY <1>4 DEF TokensTypeOK, HoldsToken
<1>5. QED
  BY <1>1, <1>2, <1>3, <1>4
  DEF EnrollmentNext, StoreAgent, RefuseAgent, Tick, enrollmentVars

\* What is recent among some times is a part of them.
LEMMA RecentBounded ==
  ASSUME NEW S, IsFiniteSet(S), NEW T \in SUBSET S
  PROVE  IsFiniteSet(T) /\ Cardinality(T) \in Nat /\ Cardinality(T) <= Cardinality(S)
BY FS_Subset, FS_CardinalityType

\* A registration that is let through is the newest of its window.
LEMMA EnrolKeepsWindow ==
  ASSUME WindowInvariant, NEW a \in Agents, NEW ip \in IPs, Enrol(a, ip), TokensTypeOK',
         \A b \in Agents : HoldsToken(b) => HoldsToken(b)'
  PROVE  WindowInvariant'
<1> DEFINE grant == [agent |-> a, ip |-> ip, at |-> clock, boot |-> boot]
           stamp == [agent |-> a, at |-> clock]
<1>1. /\ tokens[a] = None /\ tokens' = [tokens EXCEPT ![a] = AgentRow(a)]
      /\ Cardinality(Recent(ip)) < Limit
      /\ stamps' = [stamps EXCEPT ![ip] = Recent(ip) \cup {stamp}]
      /\ grants' = grants \cup {grant}
      /\ enrolling' = a /\ UNCHANGED <<clock, boot, agents, reposted>>
  BY DEF Enrol, RateCheck, UpsertToken
<1>2. grant \in Grant /\ stamp \in Stamp
  BY DEF WindowInvariant, EnrollmentTypeOK, Grant, Stamp
<1>3. /\ grant.agent = a /\ grant.ip = ip /\ grant.at = clock /\ grant.boot = boot
      /\ stamp.agent = a /\ stamp.at = clock
  OBVIOUS
<1>4. /\ stamps'[ip] = Recent(ip) \cup {stamp} /\ Recent(ip) \subseteq stamps[ip]
      /\ \A i \in IPs \ {ip} : stamps'[i] = stamps[i]
  BY <1>1 DEF Recent, WindowInvariant, EnrollmentTypeOK
<1>5. EnrollmentTypeOK' /\ IsFiniteSet(grants')
  <2>1. IsFiniteSet(grants')
    BY <1>1, FS_AddElement DEF WindowInvariant
  <2> HIDE DEF grant, stamp
  <2>2. QED
    BY <1>1, <1>2, <1>4, <2>1 DEF WindowInvariant, EnrollmentTypeOK
<1>6. GrantsApart'
  <2>1. HoldsToken(a)'
    BY <1>1, AgentRowType, EnrollmentAssumption
    DEF HoldsToken, WindowInvariant, EnrollmentTypeOK, TokensTypeOK
  <2>2. \A g \in grants : g.agent # a /\ g.agent \in Agents
    BY <1>1 DEF WindowInvariant, EnrollmentTypeOK, GrantsApart, HoldsToken, Grant
  <2> HIDE DEF grant, stamp
  <2>3. \A g \in grants' : HoldsToken(g.agent)' /\ g.boot <= boot
    <3>1. boot <= boot
      BY DEF WindowInvariant, EnrollmentTypeOK
    <3>2. \A g \in grants : HoldsToken(g.agent)' /\ g.boot <= boot
      BY <2>2 DEF WindowInvariant, GrantsApart
    <3>3. QED
      BY <1>1, <1>3, <2>1, <3>1, <3>2
  <2>4. \A g, h \in grants' : g.agent = h.agent => g = h
    BY <1>1, <1>3, <2>2 DEF WindowInvariant, GrantsApart
  <2>5. QED
    BY <1>1, <2>3, <2>4 DEF GrantsApart
<1>7. StampsMatch'
  <2>1. ASSUME NEW i \in IPs, NEW t \in stamps'[i]
        PROVE  [agent |-> t.agent, ip |-> i, at |-> t.at, boot |-> boot'] \in grants'
    <3>1. CASE t \in stamps[i]
      BY <1>1, <3>1 DEF WindowInvariant, StampsMatch
    <3>2. CASE t \notin stamps[i]
      <4>1. i = ip /\ t = stamp
        BY <1>4, <2>1, <3>2
      <4>2. QED
        BY <1>1, <4>1
    <3>3. QED
      BY <3>1, <3>2
  <2>2. ASSUME NEW g \in grants', g.boot = boot', clock' - g.at < Window
        PROVE  [agent |-> g.agent, at |-> g.at] \in stamps'[g.ip]
    <3>1. CASE g = grant
      BY <1>4, <3>1
    <3>2. CASE g # grant
      <4>1. g \in grants /\ g.ip \in IPs /\ [agent |-> g.agent, at |-> g.at] \in stamps[g.ip]
        BY <1>1, <2>2, <3>2 DEF WindowInvariant, EnrollmentTypeOK, StampsMatch, Grant
      <4>2. g.ip = ip => [agent |-> g.agent, at |-> g.at] \in Recent(ip)
        BY <1>1, <2>2, <4>1 DEF Recent
      <4>3. QED
        BY <1>4, <4>1, <4>2
    <3>3. QED
      BY <3>1, <3>2
  <2>3. QED
    BY <2>1, <2>2 DEF StampsMatch
<1>8. WindowsBounded'
  <2> SUFFICES ASSUME NEW i \in IPs
               PROVE  IsFiniteSet(stamps'[i]) /\ Cardinality(Recent(i)') <= Limit
    BY DEF WindowsBounded
  <2>1. CASE i = ip
    <3>1. IsFiniteSet(Recent(ip)) /\ Cardinality(Recent(ip)) \in Nat /\ Limit \in Nat
      BY <1>4, RecentBounded, EnrollmentAssumption DEF WindowInvariant, WindowsBounded
    <3>2. /\ IsFiniteSet(Recent(ip) \cup {stamp})
          /\ Cardinality(Recent(ip) \cup {stamp}) <= Cardinality(Recent(ip)) + 1
      <4> HIDE DEF stamp
      <4>1. /\ IsFiniteSet(Recent(ip) \cup {stamp})
            /\ \/ Cardinality(Recent(ip) \cup {stamp}) = Cardinality(Recent(ip))
               \/ Cardinality(Recent(ip) \cup {stamp}) = Cardinality(Recent(ip)) + 1
        BY <3>1, FS_AddElement
      <4>2. QED
        BY <3>1, <4>1
    <3>3. Recent(ip)' \in SUBSET (Recent(ip) \cup {stamp})
      BY <1>4 DEF Recent
    <3>4. /\ Cardinality(Recent(ip)') \in Nat
          /\ Cardinality(Recent(ip)') <= Cardinality(Recent(ip) \cup {stamp})
          /\ Cardinality(Recent(ip) \cup {stamp}) \in Nat
      BY <3>2, <3>3, RecentBounded, FS_CardinalityType
    <3>5. QED
      BY <1>1, <1>4, <2>1, <3>1, <3>2, <3>4
  <2>2. CASE i # ip
    BY <1>1, <1>4, <2>2 DEF WindowInvariant, WindowsBounded, Recent
  <2>3. QED
    BY <2>1, <2>2
<1>9. QED
  BY <1>5, <1>6, <1>7, <1>8 DEF WindowInvariant

\* A refusal prunes the list of one client, and time prunes them all.
LEMMA PruningKeepsWindow ==
  ASSUME WindowInvariant, TokensTypeOK', \A b \in Agents : HoldsToken(b) => HoldsToken(b)',
         UNCHANGED <<boot, grants>>, enrolling' \in Agents \cup {None}, agents' \subseteq Agents,
         reposted' \subseteq Agents,
         clock' \in 0..MaxTime, clock <= clock',
         \/ stamps' = stamps
         \/ \E ip \in IPs : stamps' = [stamps EXCEPT ![ip] = Recent(ip)] /\ clock' = clock
  PROVE  WindowInvariant'
<1>1. /\ clock \in Int /\ clock' \in Int /\ Window \in Int
      /\ \A g \in grants : g.ip \in IPs /\ g.at \in Int /\ g.agent \in Agents
      /\ stamps \in [IPs -> SUBSET Stamp]
  BY EnrollmentAssumption DEF WindowInvariant, EnrollmentTypeOK, Grant
<1>2. \A i \in IPs : /\ stamps'[i] \subseteq stamps[i]
                     /\ \A t \in stamps[i] : clock' - t.at < Window => t \in stamps'[i]
  BY <1>1 DEF Recent, Stamp
<1>3. \A i \in IPs : Recent(i)' \subseteq Recent(i)
  BY <1>1, <1>2 DEF Recent, Stamp
<1>4. EnrollmentTypeOK'
  <2>1. stamps' \in [IPs -> SUBSET Stamp]
    BY <1>1 DEF Recent
  <2>2. QED
    BY <2>1 DEF WindowInvariant, EnrollmentTypeOK
<1>5. GrantsApart'
  BY <1>1 DEF WindowInvariant, GrantsApart
<1>6. StampsMatch'
  <2>1. ASSUME NEW i \in IPs, NEW t \in stamps'[i]
        PROVE  [agent |-> t.agent, ip |-> i, at |-> t.at, boot |-> boot'] \in grants'
    BY <1>2, <2>1 DEF WindowInvariant, StampsMatch
  <2>2. ASSUME NEW g \in grants', g.boot = boot', clock' - g.at < Window
        PROVE  [agent |-> g.agent, at |-> g.at] \in stamps'[g.ip]
    <3>1. clock - g.at < Window
      BY <1>1, <2>2
    <3>2. [agent |-> g.agent, at |-> g.at] \in stamps[g.ip]
      BY <2>2, <3>1 DEF WindowInvariant, StampsMatch
    <3>3. QED
      BY <1>1, <1>2, <2>2, <3>2
  <2>3. QED
    BY <2>1, <2>2 DEF StampsMatch
<1>7. WindowsBounded'
  <2> SUFFICES ASSUME NEW i \in IPs
               PROVE  IsFiniteSet(stamps'[i]) /\ Cardinality(Recent(i)') <= Limit
    BY DEF WindowsBounded
  <2>1. IsFiniteSet(stamps[i]) /\ Cardinality(Recent(i)) <= Limit /\ Recent(i) \in SUBSET stamps[i]
    BY DEF WindowInvariant, WindowsBounded, Recent
  <2>2. IsFiniteSet(stamps'[i]) /\ IsFiniteSet(Recent(i)) /\ Cardinality(Recent(i)) \in Nat
    BY <1>2, <2>1, RecentBounded
  <2>3. Cardinality(Recent(i)') \in Nat /\ Cardinality(Recent(i)') <= Cardinality(Recent(i))
    BY <1>3, <2>2, RecentBounded
  <2>4. QED
    BY <2>1, <2>2, <2>3, EnrollmentAssumption
<1>8. QED
  BY <1>4, <1>5, <1>6, <1>7 DEF WindowInvariant

\* A new process starts with empty lists, and none of the grants is its own.
LEMMA CrashKeepsWindow ==
  ASSUME WindowInvariant, EnrollmentCrash, TokensTypeOK',
         \A b \in Agents : HoldsToken(b) => HoldsToken(b)'
  PROVE  WindowInvariant'
<1>1. /\ boot < MaxBoots /\ boot' = boot + 1 /\ boot \in 0..MaxBoots
      /\ stamps' = [ip \in IPs |-> {}] /\ enrolling' = None
      /\ UNCHANGED <<clock, agents, grants, reposted>>
  BY DEF EnrollmentCrash, WindowInvariant, EnrollmentTypeOK
<1>2. EnrollmentTypeOK'
  BY <1>1, EnrollmentAssumption DEF WindowInvariant, EnrollmentTypeOK
<1>3. GrantsApart'
  BY <1>1 DEF WindowInvariant, EnrollmentTypeOK, Grant, GrantsApart
<1>4. StampsMatch'
  <2>1. \A g \in grants' : g.boot # boot'
    BY <1>1 DEF WindowInvariant, EnrollmentTypeOK, Grant, GrantsApart
  <2>2. \A ip \in IPs : stamps'[ip] = {}
    BY <1>1
  <2>3. \A ip \in IPs : \A t \in stamps'[ip] :
          [agent |-> t.agent, ip |-> ip, at |-> t.at, boot |-> boot'] \in grants'
    BY <2>2
  <2>4. QED
    BY <2>1, <2>3 DEF StampsMatch
<1>5. WindowsBounded'
  <2>1. \A ip \in IPs : stamps'[ip] = {} /\ Recent(ip)' = {}
    BY <1>1 DEF Recent
  <2>2. IsFiniteSet({}) /\ Cardinality({}) <= Limit
    BY FS_EmptySet, EnrollmentAssumption
  <2>3. QED
    BY <2>1, <2>2 DEF WindowsBounded
<1>6. QED
  BY <1>1, <1>2, <1>3, <1>4, <1>5 DEF WindowInvariant

LEMMA WindowInvariantHolds == EnrollmentSpec => []WindowInvariant
<1>1. EnrollmentInit => WindowInvariant
  <2> SUFFICES ASSUME EnrollmentInit PROVE WindowInvariant
    OBVIOUS
  <2>1. EnrollmentTypeOK
    BY BootstrapRowType, VocabularyAssumption, EnrollmentAssumption
    DEF EnrollmentInit, AuthzInit, EnrollmentTypeOK, TokensTypeOK
  <2>2. \A ip \in IPs : stamps[ip] = {} /\ Recent(ip) = {}
    BY DEF EnrollmentInit, Recent
  <2>3. IsFiniteSet(grants) /\ GrantsApart /\ StampsMatch /\ WindowsBounded
    BY <2>2, FS_EmptySet, EnrollmentAssumption
    DEF EnrollmentInit, GrantsApart, StampsMatch, WindowsBounded
  <2>4. QED
    BY <2>1, <2>3 DEF WindowInvariant
<1>2. WindowInvariant /\ [EnrollmentNext]_enrollmentVars => WindowInvariant'
  <2> SUFFICES ASSUME WindowInvariant, [EnrollmentNext]_enrollmentVars PROVE WindowInvariant'
    OBVIOUS
  <2>1. TokensTypeOK' /\ \A b \in Agents : HoldsToken(b) => HoldsToken(b)'
    BY TokensKept DEF WindowInvariant, EnrollmentTypeOK
  <2>2. /\ clock \in 0..MaxTime /\ MaxTime \in Nat
        /\ enrolling \in Agents \cup {None} /\ agents \subseteq Agents /\ reposted \subseteq Agents
    BY EnrollmentAssumption DEF WindowInvariant, EnrollmentTypeOK
  <2>3. CASE \E a \in Agents, ip \in IPs : Enrol(a, ip)
    BY <2>1, <2>3, EnrolKeepsWindow
  <2>4. CASE \E a \in Agents, ip \in IPs : RefuseAgent(a, ip)
    <3>1. PICK ip \in IPs : \E a \in Agents : RefuseAgent(a, ip)
      BY <2>4
    <3>2. /\ stamps' = [stamps EXCEPT ![ip] = Recent(ip)]
          /\ UNCHANGED <<clock, boot, enrolling, agents, grants, reposted>>
      BY <3>1 DEF RefuseAgent
    <3>3. clock <= clock' /\ clock' \in 0..MaxTime
      BY <2>2, <3>2
    <3>4. QED
      BY <2>1, <2>2, <3>2, <3>3, PruningKeepsWindow
  <2>5. CASE \E t \in Tokens : \/ \E row \in PostedRows : PostToken(t, row)
                               \/ RevokeAccess(t)
                               \/ AccessExpires(t)
    <3>1. /\ UNCHANGED <<clock, boot, stamps, enrolling, agents, grants>>
          /\ reposted' \subseteq Agents
      BY <2>2, <2>5 DEF PostToken, RevokeAccess, AccessExpires
    <3>2. QED
      BY <2>1, <2>2, <3>1, PruningKeepsWindow
  <2>6. CASE StoreAgent
    BY <2>1, <2>2, <2>6, PruningKeepsWindow DEF StoreAgent
  <2>7. CASE Tick
    BY <2>1, <2>2, <2>7, PruningKeepsWindow DEF Tick
  <2>8. CASE EnrollmentCrash
    BY <2>1, <2>8, CrashKeepsWindow
  <2>9. CASE UNCHANGED enrollmentVars
    BY <2>1, <2>2, <2>9, PruningKeepsWindow DEF enrollmentVars
  <2>10. QED
    BY <2>3, <2>4, <2>5, <2>6, <2>7, <2>8, <2>9 DEF EnrollmentNext
<1>3. QED
  BY <1>1, <1>2, PTL DEF EnrollmentSpec

-----------------------------------------------------------------------------
\* create_access_token, revoke_access_token, _register_agent_impl: whatever
\* crashed, was revoked, expired or was posted, every agent of the directory has
\* its token; unless an admin posted that token again its row is the one the
\* registration wrote, or that one revoked.
THEOREM EnrolledAgentsHoldTokens == EnrollmentSpec => []AgentsHoldTokens
<1>1. TablesInvariant => AgentsHoldTokens
  <2> SUFFICES ASSUME TablesInvariant, NEW a \in agents
               PROVE  tokens[a] # None /\ (a \in reposted \/ GrantedRow(a))
    BY DEF AgentsHoldTokens, GrantedRow
  <2>1. QED
    BY DEF TablesInvariant, HoldsToken
<1>2. QED
  BY <1>1, TablesInvariantHolds, PTL

\* A token without a directory row was left by an earlier life of the process.
THEOREM OrphansComeFromCrashes == EnrollmentSpec => []OrphansOnlyFromCrash
BY TablesInvariantHolds, PTL DEF TablesInvariant

\* The tables, the clock and the lists in memory keep their types through
\* registrations, refusals, revocations and restarts.
THEOREM EnrollmentTypeCorrect == EnrollmentSpec => []EnrollmentTypeOK
BY WindowInvariantHolds, PTL DEF WindowInvariant

\* _check_agent_register_rate: what is left of a client's list after pruning is,
\* one for one, the registrations that this process let through in the last
\* window, and never more than the limit.
THEOREM WindowCountsExactly == EnrollmentSpec => []WindowExact
<1>1. WindowInvariant => WindowExact
  <2> SUFFICES ASSUME WindowInvariant, NEW ip \in IPs
               PROVE  /\ Cardinality(Recent(ip)) =
                           Cardinality({g \in GrantsInWindow(ip) : g.boot = boot})
                      /\ Cardinality(Recent(ip)) <= Limit
    BY DEF WindowExact
  <2> DEFINE own == {g \in GrantsInWindow(ip) : g.boot = boot}
             stampOf == [g \in own |-> [agent |-> g.agent, at |-> g.at]]
  <2>1. IsFiniteSet(own)
    BY FS_Subset DEF WindowInvariant, GrantsInWindow
  <2>2. stampOf \in [own -> Recent(ip)]
    BY DEF WindowInvariant, StampsMatch, GrantsInWindow, Recent
  <2>3. \A g, h \in own : stampOf[g] = stampOf[h] => g = h
    BY DEF WindowInvariant, GrantsApart, GrantsInWindow
  <2>4. \A t \in Recent(ip) : \E g \in own : stampOf[g] = t
    <3> SUFFICES ASSUME NEW t \in Recent(ip) PROVE \E g \in own : stampOf[g] = t
      OBVIOUS
    <3> DEFINE g == [agent |-> t.agent, ip |-> ip, at |-> t.at, boot |-> boot]
    <3>1. g \in own
      BY DEF WindowInvariant, StampsMatch, GrantsInWindow, Recent
    <3>2. t = [agent |-> t.agent, at |-> t.at]
      BY DEF WindowInvariant, EnrollmentTypeOK, Stamp, Recent
    <3>3. QED
      BY <3>1, <3>2
  <2>5. ExistsBijection(own, Recent(ip))
    <3> HIDE DEF own, stampOf
    <3>1. stampOf \in Bijection(own, Recent(ip))
      BY <2>2, <2>3, <2>4, Fun_IsBij
    <3>2. QED
      BY <3>1, Fun_ExistsBij
  <2>6. QED
    BY <2>1, <2>5, FS_Bijection DEF WindowInvariant, WindowsBounded
<1>2. QED
  BY <1>1, WindowInvariantHolds, PTL
=============================================================================
