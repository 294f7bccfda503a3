SPECIFICATION Spec
CONSTANTS
  a = a
  b = b
  op = op
  m1 = m1
  r1 = r1
  r2 = r2
  cmd = cmd
  web = web
  sock = sock
  Tenants = {a, b}
  Methods = {m1}
  Tokens = {adm, op}
  AdminToken = adm
  RuleNames = {r1, r2}
  Endpoints = {cmd, web, sock}
  Scheme <- MCScheme
  Star = Star
  None = None
  Priorities = {1, 2}
  Servers <- OneId
  ServerPayloads <- OneIdRows
  RulePayloads <- MCRules
  Requests = {q1}
  TokenPayloads <- MCTokens
PROPERTIES
  RevocationIsPermanent
