SPECIFICATION CodeSpec
CONSTANTS
  a = a
  op = op
  adm = adm
  ok = ok
  no = no
  ask = ask
  Tenants = {a, glob}
  Global = glob
  Servers <- MCServers
  Methods = {run, other}
  CodeExecute = run
  other = other
  run = run
  Tokens = {adm, op}
  AdminToken = adm
  RuleNames = {ok, no, ask}
  ApprovalNames = {ask}
  RulePayloads <- MCRules
  AdminPayloads <- MCTokenRows
  Star = Star
  None = None
  MaxRuns = 2
  Events = {e1, e2}
SYMMETRY Symmetry
INVARIANTS
  CodeTypeOK
  GateHolds
  RunsOncePerRecord
PROPERTIES
  NewRulesRankLast
