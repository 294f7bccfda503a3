--------------------------- MODULE McpServiceProofs --------------------------
(***************************************************************************)
(* Theorems about the MCP service tree, for any contexts, tenants,         *)
(* configurations, calls and restarts.                                     *)
(*                                                                         *)
(* That cache and rows agree when nobody writes rests on how far they are  *)
(* apart at each place where a writer may be suspended, which is known     *)
(* only while a context has one writer.                                    *)
(***************************************************************************)
EXTENDS McpService, TLAPS

\* What the calls at each place have read.
CallsOK ==
  \A r \in Requests : call[r] # Idle =>
    /\ call[r].kind = "create" => call[r].at \in {"entry", "counting"} /\ call[r].row \in Row
    /\ call[r].at = "caching" => call[r].row \in Row
    /\ call[r].kind = "update" => call[r].config \in Configs

\* A row has an identifier that uuid4 gave.
RowsUsed == \A c \in Contexts : rows[c] # None => c \in used

\* A context that is not mixed has one writer, a call or its load.
OneWriter ==
  \A c \in Contexts \ mixed : \A r \in Requests : Writes(r, c) =>
    ~Loading(c) /\ \A q \in Requests : Writes(q, c) => q = r

Agree(c) == cache[c] # None /\ rows[c] # None => cache[c] = rows[c]

\* How far cache and row are apart where the one writer is suspended.
Apart(r) ==
  LET c == call[r].c IN
  /\ call[r].at \in {"read", "row", "counting"} => Agree(c)
  /\ call[r].at = "caching" \/ call[r].kind = "create" =>
       (rows[c] # None => rows[c] = call[r].row)
  /\ call[r].at = "entry" /\ call[r].kind = "update" =>
       (cache[c] # None /\ rows[c] # None =>
          rows[c] = [cache[c] EXCEPT !.config = call[r].config])

CallApart ==
  \A r \in Requests : call[r] # Idle /\ call[r].c \notin mixed => Apart(r)

LoadApart ==
  \A c \in Contexts \ mixed :
    /\ load[c] = "loading" => Agree(c)
    /\ load[c] = "saving" => (cache[c] # None /\ rows[c] # None =>
                                cache[c] = [rows[c] EXCEPT !.state = "ready"])
    /\ load[c] = "failing" => (cache[c] # None /\ rows[c] # None =>
                                 cache[c] = [rows[c] EXCEPT !.state = "error"])

Invariant ==
  /\ McpTypeOK /\ CallsOK /\ RowsUsed
  /\ OneWriter /\ CallApart /\ LoadApart /\ QuietContextsAgree

-----------------------------------------------------------------------------
(* Each action keeps the invariant                                         *)

LEMMA CreateRowKeeps ==
  ASSUME Invariant, NEW r \in Requests, NEW c \in Contexts, NEW t \in Tenants,
         NEW config \in Configs, CreateRow(r, c, t, config)
  PROVE  Invariant'
<1>1. McpTypeOK'
  BY DEF Invariant, CreateRow, McpTypeOK, Row, State, Call, tenantVars, Begin
<1>2. CallsOK'
  BY DEF Invariant, CreateRow, CallsOK, Row, State, Begin
<1>3. RowsUsed'
  BY DEF Invariant, CreateRow, RowsUsed
<1>4. OneWriter'
  BY DEF Invariant, CreateRow, OneWriter, Writes, Loading, Begin
<1>5. CallApart'
  BY DEF Invariant, CreateRow, CallApart, Apart, Agree, McpTypeOK, Writes, Begin
<1>6. LoadApart'
  BY DEF Invariant, CreateRow, LoadApart, Agree, Loading, Begin
<1>7. QuietContextsAgree'
  BY DEF Invariant, CreateRow, McpTypeOK, Writes, Loading, QuietContextsAgree, Quiet,
     Begin, Idle
<1>8. QED
  BY <1>1, <1>2, <1>3, <1>4, <1>5, <1>6, <1>7 DEF Invariant

LEMMA CreateEntryKeeps ==
  ASSUME Invariant, NEW r \in Requests, CreateEntry(r)
  PROVE  Invariant'
<1>1. McpTypeOK'
  BY DEF Invariant, CreateEntry, McpTypeOK, CallsOK, Call, tenantVars, At, Goto
<1>2. CallsOK'
  BY DEF Invariant, CreateEntry, CallsOK, At, Goto
<1>3. RowsUsed'
  BY DEF Invariant, CreateEntry, RowsUsed
<1>4. OneWriter'
  BY DEF Invariant, CreateEntry, OneWriter, McpTypeOK, Writes, Loading, At, Goto
<1>5. CallApart'
  <2> DEFINE x == call[r].c
  <2>1. /\ x \in Contexts /\ call[r] # Idle /\ call[r].kind = "create"
        /\ call[r].at = "entry" /\ call[r] \in Call
    BY DEF CreateEntry, At, Invariant, McpTypeOK, Call
  <2>2. /\ \A c \in Contexts : c # x => cache'[c] = cache[c]
        /\ cache'[x] = call[r].row
        /\ rows' = rows /\ mixed' = mixed
        /\ call'[r] = [call[r] EXCEPT !.at = "counting"]
        /\ \A q \in Requests : q # r => call'[q] = call[q]
    BY <2>1 DEF CreateEntry, Goto, Invariant, McpTypeOK
  <2>3. x \notin mixed => /\ rows[x] # None => rows[x] = call[r].row
                          /\ \A q \in Requests : Writes(q, x) => q = r
    BY <2>1 DEF Invariant, CallApart, Apart, OneWriter, Writes
  <2> SUFFICES ASSUME NEW q \in Requests, call'[q] # Idle, call'[q].c \notin mixed
               PROVE  Apart(q)'
    BY <2>2 DEF CallApart
  <2>4. CASE q = r
    <3>1. /\ call'[r].at = "counting" /\ call'[r].c = x /\ call'[r].kind = "create"
          /\ call'[r].row = call[r].row
      BY <2>1, <2>2 DEF Call
    <3>2. QED
      BY <2>2, <2>3, <2>4, <3>1 DEF Apart, Agree
  <2>5. CASE q # r
    <3>1. call[q] # Idle /\ call[q].c \in Contexts /\ call[q].c \notin mixed /\ call'[q] = call[q]
      BY <2>2, <2>5 DEF Invariant, McpTypeOK, Call
    <3>2. Apart(q) /\ call[q].c # x
      BY <2>3, <2>5, <3>1 DEF Invariant, CallApart, Writes
    <3>3. QED
      BY <2>2, <3>1, <3>2 DEF Apart, Agree
  <2>6. QED
    BY <2>4, <2>5
<1>6. LoadApart'
  BY DEF Invariant, CreateEntry, LoadApart, OneWriter, Agree, McpTypeOK, Call, Writes, Loading, At
<1>7. QuietContextsAgree'
  BY DEF Invariant, CreateEntry, McpTypeOK, Writes, Loading, QuietContextsAgree, Quiet,
     At, Goto, Idle
<1>8. QED
  BY <1>1, <1>2, <1>3, <1>4, <1>5, <1>6, <1>7 DEF Invariant

LEMMA CountCreatedKeeps ==
  ASSUME Invariant, NEW r \in Requests, CountCreated(r)
  PROVE  Invariant'
<1>1. McpTypeOK'
  BY DEF Invariant, CountCreated, McpTypeOK, Call, tenantVars, At, End
<1>2. CallsOK'
  BY DEF Invariant, CountCreated, CallsOK, End
<1>3. RowsUsed'
  BY DEF Invariant, CountCreated, RowsUsed
<1>4. OneWriter'
  BY DEF Invariant, CountCreated, OneWriter, McpTypeOK, Writes, Loading, At, End
<1>5. CallApart'
  BY DEF Invariant, CountCreated, CallApart, Apart, Agree, McpTypeOK, At, End
<1>6. LoadApart'
  BY DEF Invariant, CountCreated, LoadApart, CallApart, Apart, Agree, McpTypeOK, Call, At
<1>7. QuietContextsAgree'
  <2> SUFFICES ASSUME NEW c \in Contexts \ mixed, Quiet(c)' PROVE Agree(c)
    BY DEF QuietContextsAgree, Agree, CountCreated
  <2>1. Quiet(c) \/ Writes(r, c)
    BY DEF Quiet, Writes, Loading, CountCreated, End, Invariant, McpTypeOK
  <2>2. ASSUME Writes(r, c) PROVE Agree(c)
    BY <2>2 DEF Writes, CountCreated, At, Invariant, CallApart, Apart
  <2>3. QED
    BY <2>1, <2>2 DEF Invariant, QuietContextsAgree, Agree
<1>8. QED
  BY <1>1, <1>2, <1>3, <1>4, <1>5, <1>6, <1>7 DEF Invariant

LEMMA GetKeeps ==
  ASSUME Invariant, NEW r \in Requests, NEW c \in Contexts,
         NEW kind \in {"get","update","delete"}, NEW config \in Configs \cup {None},
         kind = "update" => config \in Configs, Get(r, c, kind, config)
  PROVE  Invariant'
<1>1. McpTypeOK'
  BY DEF Invariant, Get, McpTypeOK, Call, tenantVars, Begin
<1>2. CallsOK'
  BY DEF Invariant, Get, CallsOK, McpTypeOK, Begin
<1>3. RowsUsed'
  BY DEF Invariant, Get, RowsUsed
<1>4. OneWriter'
  BY DEF Invariant, Get, OneWriter, McpTypeOK, Writes, Loading, Begin
<1>5. CallApart'
  BY DEF Invariant, Get, CallApart, Apart, Agree, McpTypeOK, QuietContextsAgree, Quiet,
     Begin
<1>6. LoadApart'
  BY DEF Invariant, Get, LoadApart, Agree, Begin
<1>7. QuietContextsAgree'
  BY DEF Invariant, Get, McpTypeOK, Writes, Loading, QuietContextsAgree, Quiet, Begin
<1>8. QED
  BY <1>1, <1>2, <1>3, <1>4, <1>5, <1>6, <1>7 DEF Invariant

LEMMA ReadRowKeeps ==
  ASSUME Invariant, NEW r \in Requests, ReadRow(r)
  PROVE  Invariant'
<1>1. McpTypeOK'
  <2> DEFINE read == [call[r] EXCEPT !.at = "caching", !.row = rows[call[r].c]]
  <2>1. call[r] \in Call /\ call[r].c \in Contexts
    BY DEF ReadRow, At, Invariant, McpTypeOK, Call
  <2>2. rows[call[r].c] # None => read \in Call
    BY <2>1 DEF Invariant, McpTypeOK, Call
  <2>3. call' \in [Requests -> Call \cup {Idle}]
    BY <2>2 DEF ReadRow, Invariant, McpTypeOK
  <2>4. QED
    BY <2>3 DEF ReadRow, tenantVars, Invariant, McpTypeOK
<1>2. CallsOK'
  BY DEF Invariant, ReadRow, CallsOK, McpTypeOK, Call, At
<1>3. RowsUsed'
  BY DEF Invariant, ReadRow, RowsUsed
<1>4. OneWriter'
  BY DEF Invariant, ReadRow, OneWriter, Writes, Loading, At
<1>5. CallApart'
  BY DEF Invariant, ReadRow, CallApart, Apart, Agree, McpTypeOK
<1>6. LoadApart'
  BY DEF Invariant, ReadRow, LoadApart, Agree
<1>7. QuietContextsAgree'
  <2> SUFFICES ASSUME NEW c \in Contexts \ mixed, Quiet(c)' PROVE Agree(c)
    BY DEF QuietContextsAgree, Agree, ReadRow
  <2>1. Quiet(c) \/ Writes(r, c)
    BY DEF Quiet, Writes, Loading, ReadRow
  <2>2. ASSUME Writes(r, c) PROVE Agree(c)
    BY <2>2 DEF Writes, ReadRow, At, Invariant, CallApart, Apart
  <2>3. QED
    BY <2>1, <2>2 DEF Invariant, QuietContextsAgree, Agree
<1>8. QED
  BY <1>1, <1>2, <1>3, <1>4, <1>5, <1>6, <1>7 DEF Invariant

LEMMA CacheRowKeeps ==
  ASSUME Invariant, NEW r \in Requests, CacheRow(r)
  PROVE  Invariant'
<1>1. McpTypeOK'
  BY DEF Invariant, CacheRow, McpTypeOK, Row, Call, tenantVars, At, Goto, End
<1>2. CallsOK'
  BY DEF Invariant, CacheRow, CallsOK, McpTypeOK, Call, At, Goto, End
<1>3. RowsUsed'
  BY DEF Invariant, CacheRow, RowsUsed
<1>4. OneWriter'
  BY DEF Invariant, CacheRow, OneWriter, McpTypeOK, Call, Writes, Loading, At, Goto, End
<1>5. PICK x \in Contexts : x = call[r].c
  BY DEF CacheRow, At, Invariant, McpTypeOK, Call
<1>6. call[r] # Idle /\ call[r].row \in Row /\ call[r].at = "caching" /\ call[r].c = x
  BY <1>5 DEF CacheRow, At, Invariant, CallsOK
<1>7. \A q \in Requests : q # r => call'[q] = call[q]
  BY DEF CacheRow, End, Goto, Invariant, McpTypeOK
<1>8. /\ \A c \in Contexts : c # x => cache'[c] = cache[c]
      /\ cache'[x] = call[r].row
      /\ rows' = rows /\ load' = load /\ mixed' = mixed
  BY <1>5 DEF CacheRow, Invariant, McpTypeOK
<1>9. x \notin mixed => /\ Agree(x)' /\ ~Loading(x)
                        /\ \A q \in Requests : Writes(q, x) => q = r
  BY <1>6, <1>8 DEF Invariant, CallApart, Apart, OneWriter, Agree, Writes
<1>10. CallApart'
  <2> SUFFICES ASSUME NEW q \in Requests, call'[q] # Idle, call'[q].c \notin mixed'
               PROVE  Apart(q)'
    BY DEF CallApart
  <2>1. CASE q = r
    <3>1. call'[r].at = "row" /\ call'[r].c = x /\ call'[r].kind # "create"
      BY <2>1, <1>6 DEF CacheRow, At, Goto, End, Call, Invariant, McpTypeOK
    <3>2. QED
      BY <2>1, <3>1, <1>8, <1>9 DEF Apart
  <2>2. CASE q # r
    <3>1. /\ call[q] # Idle /\ call[q].c \in Contexts
          /\ call[q].c \notin mixed /\ call[q].c # x
      BY <2>2, <1>7, <1>9, <1>8 DEF Writes, Invariant, McpTypeOK, Call
    <3>2. Apart(q)
      BY <3>1 DEF Invariant, CallApart
    <3>3. QED
      BY <2>2, <3>1, <3>2, <1>7, <1>8 DEF Apart, Agree
  <2>3. QED
    BY <2>1, <2>2
<1>11. LoadApart'
  BY <1>8, <1>9 DEF Invariant, LoadApart, Agree, Loading
<1>12. QuietContextsAgree'
  <2> SUFFICES ASSUME NEW c \in Contexts \ mixed, Quiet(c)' PROVE Agree(c)'
    BY <1>8 DEF QuietContextsAgree, Agree
  <2>1. CASE c = x
    BY <1>9, <2>1
  <2>2. CASE c # x
    <3>1. Quiet(c)
      BY <2>2, <1>7, <1>8, <1>6 DEF Quiet, Writes, Loading
    <3>2. QED
      BY <3>1, <1>8, <2>2 DEF Invariant, QuietContextsAgree, Agree
  <2>3. QED
    BY <2>1, <2>2
<1>13. QED
  BY <1>1, <1>2, <1>3, <1>4, <1>10, <1>11, <1>12 DEF Invariant

LEMMA RaiseKeeps ==
  ASSUME Invariant, NEW r \in Requests, Raise(r)
  PROVE  Invariant'
<1>1. McpTypeOK'
  BY DEF Invariant, Raise, McpTypeOK, tenantVars, End
<1>2. CallsOK'
  BY DEF Invariant, Raise, CallsOK, End
<1>3. RowsUsed'
  BY DEF Invariant, Raise, RowsUsed
<1>4. OneWriter'
  BY DEF Invariant, Raise, OneWriter, Writes, Loading, End
<1>5. CallApart'
  BY DEF Invariant, Raise, CallApart, Apart, Agree, End
<1>6. LoadApart'
  BY DEF Invariant, Raise, LoadApart, Agree
<1>7. QuietContextsAgree'
  <2> SUFFICES ASSUME NEW c \in Contexts \ mixed, Quiet(c)' PROVE Agree(c)
    BY DEF QuietContextsAgree, Agree, Raise
  <2>1. Quiet(c) \/ Writes(r, c)
    BY DEF Quiet, Writes, Loading, Raise, End
  <2>2. ASSUME Writes(r, c) PROVE Agree(c)
    BY <2>2 DEF Writes, Raise, At, Invariant, CallApart, Apart
  <2>3. QED
    BY <2>1, <2>2 DEF Invariant, QuietContextsAgree, Agree
<1>8. QED
  BY <1>1, <1>2, <1>3, <1>4, <1>5, <1>6, <1>7 DEF Invariant

LEMMA UpdateRowKeeps ==
  ASSUME Invariant, NEW r \in Requests, UpdateRow(r)
  PROVE  Invariant'
<1>1. McpTypeOK'
  BY DEF Invariant, UpdateRow, McpTypeOK, Row, Call, CallsOK, tenantVars, At, Goto,
     SetRow
<1>2. CallsOK'
  BY DEF Invariant, UpdateRow, CallsOK, At, Goto
<1>3. RowsUsed'
  BY DEF Invariant, UpdateRow, RowsUsed, SetRow
<1>4. OneWriter'
  BY DEF Invariant, UpdateRow, OneWriter, Writes, Loading, At, Goto
<1>5. CallApart'
  BY DEF Invariant, UpdateRow, CallApart, Apart, OneWriter, Agree, McpTypeOK, Call,
     Writes, At, Goto, SetRow
<1>6. LoadApart'
  BY DEF Invariant, UpdateRow, LoadApart, OneWriter, Agree, McpTypeOK, Writes, Loading,
     At, SetRow
<1>7. QuietContextsAgree'
  BY DEF Invariant, UpdateRow, Writes, Loading, QuietContextsAgree, Quiet, At, Goto,
     SetRow, Idle
<1>8. QED
  BY <1>1, <1>2, <1>3, <1>4, <1>5, <1>6, <1>7 DEF Invariant

LEMMA UpdateEntryKeeps ==
  ASSUME Invariant, NEW r \in Requests, UpdateEntry(r)
  PROVE  Invariant'
<1>1. McpTypeOK'
  BY DEF Invariant, UpdateEntry, McpTypeOK, Row, Call, CallsOK, tenantVars, At, End,
     SetEntry
<1>2. CallsOK'
  BY DEF Invariant, UpdateEntry, CallsOK, McpTypeOK, Call, At, End
<1>3. RowsUsed'
  BY DEF Invariant, UpdateEntry, RowsUsed
<1>4. OneWriter'
  BY DEF Invariant, UpdateEntry, OneWriter, McpTypeOK, Call, Writes, Loading, At, End
<1>5. CallApart'
  BY DEF Invariant, UpdateEntry, CallApart, Apart, Agree, McpTypeOK, Call, At, End,
     SetEntry
<1>6. LoadApart'
  BY DEF Invariant, UpdateEntry, LoadApart, OneWriter, Agree, CallsOK, Writes, Loading,
     At, SetEntry
<1>7. QuietContextsAgree'
  BY DEF Invariant, UpdateEntry, CallApart, Apart, McpTypeOK, Writes, Loading,
     QuietContextsAgree, Quiet, At, End, SetEntry
<1>8. QED
  BY <1>1, <1>2, <1>3, <1>4, <1>5, <1>6, <1>7 DEF Invariant

LEMMA DeleteRowKeeps ==
  ASSUME Invariant, NEW r \in Requests, DeleteRow(r)
  PROVE  Invariant'
<1>1. McpTypeOK'
  BY DEF Invariant, DeleteRow, McpTypeOK, Row, State, Call, tenantVars, At, Goto, SetRow
<1>2. CallsOK'
  BY DEF Invariant, DeleteRow, CallsOK, At, Goto
<1>3. RowsUsed'
  BY DEF Invariant, DeleteRow, RowsUsed, SetRow
<1>4. OneWriter'
  BY DEF Invariant, DeleteRow, OneWriter, Writes, Loading, At, Goto
<1>5. CallApart'
  BY DEF Invariant, DeleteRow, CallApart, Apart, OneWriter, Agree, McpTypeOK, Writes,
     At, Goto, SetRow
<1>6. LoadApart'
  BY DEF Invariant, DeleteRow, LoadApart, OneWriter, Agree, McpTypeOK, Writes, Loading,
     At, SetRow
<1>7. QuietContextsAgree'
  BY DEF Invariant, DeleteRow, Writes, Loading, QuietContextsAgree, Quiet, At, Goto,
     SetRow, Idle
<1>8. QED
  BY <1>1, <1>2, <1>3, <1>4, <1>5, <1>6, <1>7 DEF Invariant

LEMMA DeleteEntryKeeps ==
  ASSUME Invariant, NEW r \in Requests, DeleteEntry(r)
  PROVE  Invariant'
<1>1. McpTypeOK'
  BY DEF Invariant, DeleteEntry, McpTypeOK, tenantVars, End
<1>2. CallsOK'
  BY DEF Invariant, DeleteEntry, CallsOK, End
<1>3. RowsUsed'
  BY DEF Invariant, DeleteEntry, RowsUsed
<1>4. OneWriter'
  BY DEF Invariant, DeleteEntry, OneWriter, Writes, Loading, End
<1>5. CallApart'
  BY DEF Invariant, DeleteEntry, CallApart, Apart, OneWriter, Agree, McpTypeOK, Writes,
     At, End
<1>6. LoadApart'
  BY DEF Invariant, DeleteEntry, LoadApart, Agree
<1>7. QuietContextsAgree'
  BY DEF Invariant, DeleteEntry, McpTypeOK, Writes, Loading, QuietContextsAgree, Quiet,
     End
<1>8. QED
  BY <1>1, <1>2, <1>3, <1>4, <1>5, <1>6, <1>7 DEF Invariant

LEMMA LoadEntryKeeps ==
  ASSUME Invariant, NEW c \in Contexts, LoadEntry(c)
  PROVE  Invariant'
<1>1. McpTypeOK'
  BY DEF Invariant, LoadEntry, McpTypeOK, Row, State, tenantVars, SetEntry
<1>2. CallsOK'
  BY DEF Invariant, LoadEntry, CallsOK
<1>3. RowsUsed'
  BY DEF Invariant, LoadEntry, RowsUsed
<1>4. OneWriter'
  BY DEF Invariant, LoadEntry, OneWriter, Writes, Loading
<1>5. CallApart'
  BY DEF Invariant, LoadEntry, CallApart, Apart, OneWriter, Agree, Writes, Loading,
     SetEntry
<1>6. LoadApart'
  BY DEF Invariant, LoadEntry, LoadApart, Agree, McpTypeOK, SetEntry
<1>7. QuietContextsAgree'
  BY DEF Invariant, LoadEntry, Writes, Loading, QuietContextsAgree, Quiet, SetEntry
<1>8. QED
  BY <1>1, <1>2, <1>3, <1>4, <1>5, <1>6, <1>7 DEF Invariant

LEMMA LoadRowKeeps ==
  ASSUME Invariant, NEW c \in Contexts, LoadRow(c)
  PROVE  Invariant'
<1>1. McpTypeOK'
  BY DEF Invariant, LoadRow, McpTypeOK, Row, State, tenantVars, SetRow
<1>2. CallsOK'
  BY DEF Invariant, LoadRow, CallsOK
<1>3. RowsUsed'
  BY DEF Invariant, LoadRow, RowsUsed, SetRow
<1>4. OneWriter'
  BY DEF Invariant, LoadRow, OneWriter, Writes, Loading
<1>5. CallApart'
  BY DEF Invariant, LoadRow, CallApart, Apart, OneWriter, Agree, Writes, Loading, SetRow
<1>6. LoadApart'
  BY DEF Invariant, LoadRow, LoadApart, Agree, McpTypeOK, SetRow
<1>7. QuietContextsAgree'
  BY DEF Invariant, LoadRow, LoadApart, McpTypeOK, Writes, Loading, QuietContextsAgree,
     Quiet, SetRow
<1>8. QED
  BY <1>1, <1>2, <1>3, <1>4, <1>5, <1>6, <1>7 DEF Invariant

LEMMA LoadFailsKeeps ==
  ASSUME Invariant, NEW c \in Contexts, LoadFails(c)
  PROVE  Invariant'
<1>1. McpTypeOK'
  BY DEF Invariant, LoadFails, McpTypeOK, Row, State, tenantVars, SetEntry
<1>2. CallsOK'
  BY DEF Invariant, LoadFails, CallsOK
<1>3. RowsUsed'
  BY DEF Invariant, LoadFails, RowsUsed
<1>4. OneWriter'
  BY DEF Invariant, LoadFails, OneWriter, Writes, Loading
<1>5. CallApart'
  BY DEF Invariant, LoadFails, CallApart, Apart, OneWriter, Agree, Writes, Loading,
     SetEntry
<1>6. LoadApart'
  BY DEF Invariant, LoadFails, LoadApart, Agree, McpTypeOK, SetEntry
<1>7. QuietContextsAgree'
  BY DEF Invariant, LoadFails, Writes, Loading, QuietContextsAgree, Quiet, SetEntry
<1>8. QED
  BY <1>1, <1>2, <1>3, <1>4, <1>5, <1>6, <1>7 DEF Invariant

LEMMA MarkRowKeeps ==
  ASSUME Invariant, NEW c \in Contexts, MarkRow(c)
  PROVE  Invariant'
<1>1. McpTypeOK'
  BY DEF Invariant, MarkRow, McpTypeOK, Row, State, tenantVars, SetRow
<1>2. CallsOK'
  BY DEF Invariant, MarkRow, CallsOK
<1>3. RowsUsed'
  BY DEF Invariant, MarkRow, RowsUsed, McpTypeOK, SetRow
<1>4. OneWriter'
  BY DEF Invariant, MarkRow, OneWriter, Writes, Loading
<1>5. CallApart'
  BY DEF Invariant, MarkRow, CallApart, Apart, OneWriter, Agree, McpTypeOK, Call,
     Writes, Loading, SetRow
<1>6. LoadApart'
  BY DEF Invariant, MarkRow, LoadApart, Agree, McpTypeOK, SetRow
<1>7. QuietContextsAgree'
  BY DEF Invariant, MarkRow, LoadApart, McpTypeOK, Writes, Loading, QuietContextsAgree,
     Quiet, SetRow
<1>8. QED
  BY <1>1, <1>2, <1>3, <1>4, <1>5, <1>6, <1>7 DEF Invariant

LEMMA RestartKeeps ==
  ASSUME Invariant, Restart
  PROVE  Invariant'
<1>1. McpTypeOK'
  BY McpAssumption DEF Invariant, Restart, McpTypeOK
<1>2. CallsOK'
  BY DEF Restart, CallsOK
<1>3. RowsUsed'
  BY DEF Invariant, Restart, RowsUsed
<1>4. OneWriter'
  BY DEF Restart, OneWriter, Writes
<1>5. CallApart'
  BY DEF Restart, CallApart
<1>6. LoadApart'
  BY DEF Restart, LoadApart
<1>7. QuietContextsAgree'
  BY DEF Restart, QuietContextsAgree
<1>8. QED
  BY <1>1, <1>2, <1>3, <1>4, <1>5, <1>6, <1>7 DEF Invariant

LEMMA DeleteTenantKeeps ==
  ASSUME Invariant, NEW t \in Tenants, DeleteTenant(t)
  PROVE  Invariant'
<1>1. McpTypeOK'
  BY DEF Invariant, DeleteTenant, McpTypeOK
<1>2. CallsOK'
  BY DEF Invariant, DeleteTenant, CallsOK
<1>3. RowsUsed'
  BY DEF Invariant, DeleteTenant, RowsUsed
<1>4. OneWriter'
  BY DEF Invariant, DeleteTenant, OneWriter, Writes, Loading
<1>5. CallApart'
  BY DEF Invariant, DeleteTenant, CallApart, Apart, Agree, McpTypeOK, Call
<1>6. LoadApart'
  BY DEF Invariant, DeleteTenant, LoadApart, Agree
<1>7. QuietContextsAgree'
  BY DEF Invariant, DeleteTenant, Writes, Loading, QuietContextsAgree, Quiet
<1>8. QED
  BY <1>1, <1>2, <1>3, <1>4, <1>5, <1>6, <1>7 DEF Invariant

LEMMA TenantsKeep ==
  ASSUME Invariant, NEW t \in Tenants,
         CreateTenant(t) \/ SetupQuotas(t) \/ UpdateTenant(t) \/ SetQuota(t)
  PROVE  Invariant'
<1>1. UNCHANGED <<rows, used, cache, load, call, boots, mixed>>
  BY DEF CreateTenant, SetupQuotas, UpdateTenant, SetQuota
<1>2. McpTypeOK'
  BY DEF CreateTenant, SetupQuotas, UpdateTenant, SetQuota, Invariant, McpTypeOK
<1>3. QED
  BY <1>1, <1>2 DEF Invariant, CallsOK, RowsUsed, OneWriter, CallApart, Apart,
     LoadApart, QuietContextsAgree, Agree, Quiet, Writes, Loading

LEMMA StutterKeeps ==
  ASSUME Invariant, UNCHANGED mcpVars
  PROVE  Invariant'
  BY DEF Invariant, mcpVars, tenantVars, McpTypeOK, CallsOK, RowsUsed, OneWriter,
     CallApart, Apart, LoadApart, QuietContextsAgree, Agree, Quiet, Writes, Loading

LEMMA InitInvariant == Init => Invariant
  BY McpAssumption DEF Init, Invariant, McpTypeOK, CallsOK, RowsUsed, OneWriter,
     CallApart, LoadApart, QuietContextsAgree, Writes

LEMMA NextInvariant == Invariant /\ [Next]_mcpVars => Invariant'
<1> SUFFICES ASSUME Invariant, [Next]_mcpVars PROVE Invariant'
  OBVIOUS
<1>1. ASSUME NEW t \in Tenants,
             \/ CreateTenant(t) \/ SetupQuotas(t) \/ UpdateTenant(t)
             \/ SetQuota(t) \/ DeleteTenant(t)
      PROVE  Invariant'
  BY <1>1, TenantsKeep, DeleteTenantKeeps
<1>2. ASSUME NEW r \in Requests,
             \/ CreateEntry(r) \/ CountCreated(r)
             \/ ReadRow(r) \/ CacheRow(r) \/ Raise(r)
             \/ UpdateRow(r) \/ UpdateEntry(r) \/ DeleteRow(r) \/ DeleteEntry(r)
      PROVE  Invariant'
  BY <1>2, CreateEntryKeeps, CountCreatedKeeps, ReadRowKeeps, CacheRowKeeps, RaiseKeeps, UpdateRowKeeps,
     UpdateEntryKeeps, DeleteRowKeeps, DeleteEntryKeeps
<1>3. ASSUME NEW r \in Requests, NEW c \in Contexts, NEW config \in Configs,
             NEW t \in Tenants, CreateRow(r, c, t, config)
      PROVE  Invariant'
  BY <1>3, CreateRowKeeps
<1>4. ASSUME NEW r \in Requests, NEW c \in Contexts, NEW config \in Configs,
             Get(r, c, "update", config)
      PROVE  Invariant'
  BY <1>4, GetKeeps
<1>5. ASSUME NEW r \in Requests, NEW c \in Contexts, NEW kind \in {"get", "delete"},
             Get(r, c, kind, None)
      PROVE  Invariant'
  BY <1>5, GetKeeps
<1>6. ASSUME NEW c \in Contexts, LoadEntry(c) \/ LoadRow(c) \/ LoadFails(c) \/ MarkRow(c)
      PROVE  Invariant'
  BY <1>6, LoadEntryKeeps, LoadRowKeeps, LoadFailsKeeps, MarkRowKeeps
<1>7. QED
  BY <1>1, <1>2, <1>3, <1>4, <1>5, <1>6, RestartKeeps, StutterKeeps DEF Next

-----------------------------------------------------------------------------
\* Who works on what is unfinished; it rests on the types, and on an identifier
\* being given once.
LEMMA UnfinishedKeeps ==
  ASSUME Invariant, UnfinishedHasWriter, [Next]_mcpVars
  PROVE  UnfinishedHasWriter'
<1>1. ASSUME NEW r \in Requests, NEW c \in Contexts, NEW t \in Tenants,
             NEW config \in Configs, CreateRow(r, c, t, config)
      PROVE  UnfinishedHasWriter'
  BY <1>1 DEF CreateRow, UnfinishedHasWriter, Invariant, McpTypeOK, Exists, Loading, BeingCreated, Writes,
     tenantVars, Begin, At, Idle
<1>2. ASSUME NEW r \in Requests, CreateEntry(r) PROVE UnfinishedHasWriter'
  <2>1. call[r] # Idle /\ call[r] \in Call /\ call'[r] = [call[r] EXCEPT !.at = "counting"]
    BY <1>2 DEF CreateEntry, At, Goto, Invariant, McpTypeOK
  <2>2. call'[r] # Idle /\ call'[r].c = call[r].c /\ call'[r].kind = call[r].kind
    BY <2>1 DEF Call, Idle
  <2>3. \A q \in Requests : q # r => call'[q] = call[q]
    BY <1>2 DEF CreateEntry, Goto, Invariant, McpTypeOK
  <2>4. \A c \in Contexts : BeingCreated(c) => BeingCreated(c)'
    BY <2>1, <2>2, <2>3 DEF BeingCreated, Writes
  <2>5. QED
    BY <1>2, <2>4 DEF CreateEntry, UnfinishedHasWriter, Exists, Loading, tenantVars
<1>3. ASSUME NEW r \in Requests, NEW c \in Contexts, NEW kind, NEW config,
             Get(r, c, kind, config)
      PROVE  UnfinishedHasWriter'
  BY <1>3 DEF Get, UnfinishedHasWriter, Invariant, McpTypeOK, Exists, Loading, BeingCreated, Writes,
     tenantVars, Begin, At
<1>4. ASSUME NEW r \in Requests, ReadRow(r) PROVE UnfinishedHasWriter'
  BY <1>4 DEF ReadRow, UnfinishedHasWriter, Exists, Loading, BeingCreated, Writes, tenantVars, At
<1>5. ASSUME NEW r \in Requests, CacheRow(r) PROVE UnfinishedHasWriter'
  BY <1>5 DEF CacheRow, UnfinishedHasWriter, Invariant, McpTypeOK, Exists, Loading, BeingCreated, Writes,
     tenantVars, At, Goto, End
<1>6. ASSUME NEW r \in Requests, Raise(r) PROVE UnfinishedHasWriter'
  BY <1>6 DEF Raise, UnfinishedHasWriter, Exists, Loading, BeingCreated, Writes, tenantVars, At, End
<1>7. ASSUME NEW r \in Requests, UpdateRow(r) PROVE UnfinishedHasWriter'
  BY <1>7 DEF UpdateRow, UnfinishedHasWriter, Exists, Loading, BeingCreated, Writes, tenantVars, At, Goto,
     SetRow
<1>8. ASSUME NEW r \in Requests, UpdateEntry(r) PROVE UnfinishedHasWriter'
  BY <1>8 DEF UpdateEntry, UnfinishedHasWriter, Invariant, McpTypeOK, RowsUsed, Exists,
     Loading, BeingCreated, Writes, tenantVars, At, End
<1>9. ASSUME NEW r \in Requests, DeleteRow(r) PROVE UnfinishedHasWriter'
  BY <1>9 DEF DeleteRow, UnfinishedHasWriter, Exists, Loading, BeingCreated, Writes, tenantVars, At, Goto,
     SetRow
<1>10. ASSUME NEW r \in Requests, DeleteEntry(r) PROVE UnfinishedHasWriter'
  BY <1>10 DEF DeleteEntry, UnfinishedHasWriter, Exists, Loading, BeingCreated, Writes, tenantVars, At, End
<1>11. ASSUME NEW c \in Contexts, LoadEntry(c) PROVE UnfinishedHasWriter'
  BY <1>11 DEF LoadEntry, UnfinishedHasWriter, Exists, Loading, BeingCreated, Writes, tenantVars, At
<1>12. ASSUME NEW c \in Contexts, LoadRow(c) PROVE UnfinishedHasWriter'
  BY <1>12 DEF LoadRow, UnfinishedHasWriter, Invariant, McpTypeOK, Exists, Loading, BeingCreated, Writes,
     tenantVars, At, SetRow
<1>13. ASSUME NEW c \in Contexts, LoadFails(c) PROVE UnfinishedHasWriter'
  BY <1>13 DEF LoadFails, UnfinishedHasWriter, Exists, Loading, BeingCreated, Writes, tenantVars, At
<1>14. ASSUME NEW c \in Contexts, MarkRow(c) PROVE UnfinishedHasWriter'
  BY <1>14 DEF MarkRow, UnfinishedHasWriter, Invariant, McpTypeOK, Row, Exists, Loading, BeingCreated, Writes,
     tenantVars, At, SetRow
<1>15. ASSUME Restart PROVE UnfinishedHasWriter'
  BY <1>15 DEF Restart, UnfinishedHasWriter, Exists
<1>16. ASSUME NEW t \in Tenants, CreateTenant(t) PROVE UnfinishedHasWriter'
  BY <1>16 DEF CreateTenant, UnfinishedHasWriter, Exists, Loading, BeingCreated, Writes, At
<1>17. ASSUME NEW t \in Tenants, SetupQuotas(t) PROVE UnfinishedHasWriter'
  BY <1>17 DEF SetupQuotas, UnfinishedHasWriter, Exists, Loading, BeingCreated, Writes, At
<1>18. ASSUME NEW t \in Tenants, UpdateTenant(t) PROVE UnfinishedHasWriter'
  BY <1>18 DEF UpdateTenant, UnfinishedHasWriter, Exists, Loading, BeingCreated, Writes, At
<1>19. ASSUME NEW t \in Tenants, SetQuota(t) PROVE UnfinishedHasWriter'
  BY <1>19 DEF SetQuota, UnfinishedHasWriter, Exists, Loading, BeingCreated, Writes, At
<1>20. ASSUME NEW t \in Tenants, DeleteTenant(t) PROVE UnfinishedHasWriter'
  BY <1>20 DEF DeleteTenant, UnfinishedHasWriter, Invariant, McpTypeOK, Exists, Loading, BeingCreated, Writes,
     At
<1>21. CASE UNCHANGED mcpVars
  BY <1>21 DEF UnfinishedHasWriter, Exists, Loading, BeingCreated, Writes, At, mcpVars, tenantVars
<1>22. ASSUME NEW r \in Requests, CountCreated(r) PROVE UnfinishedHasWriter'
  BY <1>22 DEF CountCreated, UnfinishedHasWriter, Invariant, McpTypeOK, Exists, Loading,
     BeingCreated, Writes, tenantVars, At, End
<1>23. QED
  BY <1>1, <1>2, <1>3, <1>4, <1>5, <1>6, <1>7, <1>8, <1>9, <1>10, <1>11, <1>12, <1>13,
     <1>14, <1>15, <1>16, <1>17, <1>18, <1>19, <1>20, <1>21, <1>22 DEF Next

\* What a step may do to the row of a context that is terminated.
Terminated(c) ==
  \/ rows'[c] = None
  \/ rows'[c].state = "terminated"
  \/ Loading(c) /\ load'[c] = "done" /\ boots' = boots

LEMMA ReviveStep ==
  ASSUME Invariant, [Next]_mcpVars,
         NEW c \in Contexts, rows[c] # None, rows[c].state = "terminated"
  PROVE  Terminated(c)
<1>1. ASSUME UNCHANGED rows
      PROVE  Terminated(c)
  BY <1>1 DEF Terminated
<1>2. ASSUME NEW r \in Requests, NEW d \in Contexts, NEW t \in Tenants,
             NEW config \in Configs, CreateRow(r, d, t, config)
      PROVE  Terminated(c)
  BY <1>2 DEF CreateRow, Invariant, RowsUsed, Terminated
<1>3. ASSUME NEW r \in Requests, NEW d \in Contexts, NEW kind, NEW config,
             Get(r, d, kind, config)
      PROVE  Terminated(c)
  BY <1>1, <1>3 DEF Get
<1>4. ASSUME NEW r \in Requests,
             \/ CreateEntry(r) \/ CountCreated(r) \/ ReadRow(r) \/ CacheRow(r) \/ Raise(r)
             \/ UpdateEntry(r) \/ DeleteEntry(r)
      PROVE  Terminated(c)
  BY <1>1, <1>4 DEF CreateEntry, CountCreated, ReadRow, CacheRow, Raise, UpdateEntry, DeleteEntry
<1>5. ASSUME NEW r \in Requests, UpdateRow(r) \/ DeleteRow(r)
      PROVE  Terminated(c)
  <2>1. PICK d \in Contexts : d = call[r].c
    BY <1>5 DEF UpdateRow, DeleteRow, At, Invariant, McpTypeOK, Call
  <2>2. PICK config : rows' = [rows EXCEPT ![d] =
          IF @ = None THEN None ELSE [rows[d] EXCEPT !.config = config]]
        \/ rows' = [rows EXCEPT ![d] =
             IF @ = None THEN None ELSE [rows[d] EXCEPT !.state = "terminated"]]
    BY <1>5, <2>1 DEF UpdateRow, DeleteRow, SetRow
  <2>3. rows'[c] = rows[c] \/ rows'[c].state = "terminated"
    BY <2>2 DEF Invariant, McpTypeOK, Row
  <2>4. QED
    BY <2>3 DEF Terminated
<1>6. ASSUME NEW d \in Contexts, LoadEntry(d) \/ LoadFails(d)
      PROVE  Terminated(c)
  BY <1>1, <1>6 DEF LoadEntry, LoadFails
<1>7. ASSUME NEW d \in Contexts, LoadRow(d) \/ MarkRow(d)
      PROVE  Terminated(c)
  BY <1>7 DEF LoadRow, MarkRow, Invariant, McpTypeOK, Loading, SetRow, Terminated
<1>8. ASSUME NEW t \in Tenants,
             CreateTenant(t) \/ SetupQuotas(t) \/ UpdateTenant(t) \/ SetQuota(t)
      PROVE  Terminated(c)
  BY <1>1, <1>8 DEF CreateTenant, SetupQuotas, UpdateTenant, SetQuota
<1>9. ASSUME NEW t \in Tenants, DeleteTenant(t)
      PROVE  Terminated(c)
  BY <1>9 DEF DeleteTenant, Terminated
<1>10. CASE Restart
  BY <1>1, <1>10 DEF Restart
<1>11. QED
  BY <1>1, <1>2, <1>3, <1>4, <1>5, <1>6, <1>7, <1>8, <1>9, <1>10 DEF Next, mcpVars

-----------------------------------------------------------------------------
LEMMA InvariantHolds == Spec => []Invariant
BY InitInvariant, NextInvariant, PTL DEF Spec

\* The tables of the service tree have their types after any calls, failed
\* commits and restarts.
THEOREM McpTypeCorrect == Spec => []McpTypeOK
<1>1. Invariant => McpTypeOK
  BY DEF Invariant
<1>2. QED
  BY <1>1, InvariantHolds, PTL

\* The cache and the database agree about a context that had no two writers at
\* once, whenever nobody writes it (context_manager.py).
THEOREM QuietContextsAlwaysAgree == Spec => []QuietContextsAgree
<1>1. Invariant => QuietContextsAgree
  BY DEF Invariant
<1>2. QED
  BY <1>1, InvariantHolds, PTL

\* What the database says is initializing is being created or loaded, and a
\* tenant without quotas is being created, unless a crash or an error ended that
\* (create_context, _initialize_context, create_tenant).
THEOREM UnfinishedAlwaysHasWriter == Spec => []UnfinishedHasWriter
<1>1. Init => UnfinishedHasWriter
  BY DEF Init, UnfinishedHasWriter, Exists
<1>2. QED
  BY <1>1, UnfinishedKeeps, InvariantHolds, PTL DEF Spec

\* Only its own load brings a terminated context back, and never after a restart
\* (_initialize_context, which writes the row that a deletion has terminated).
THEOREM OnlyLoadsEverRevive == Spec => OnlyLoadsRevive
<1>1. Invariant /\ [Next]_mcpVars =>
        [\A c \in Contexts :
           rows[c] # None /\ rows[c].state = "terminated" =>
             \/ rows'[c] = None
             \/ rows'[c].state = "terminated"
             \/ Loading(c) /\ load'[c] = "done" /\ boots' = boots]_mcpVars
  BY ReviveStep DEF Terminated
<1>2. QED
  BY <1>1, InvariantHolds, PTL DEF Spec, OnlyLoadsRevive
==============================================================================
