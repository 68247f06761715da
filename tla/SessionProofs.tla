---------------------------- MODULE SessionProofs ----------------------------
(***************************************************************************)
(* What TLAPS proves of sessions and accounts, for any users, tokens,      *)
(* requests, clocks and failures: types, that no two users are alike, that *)
(* a token that was logged out stays out, that a logout may be repeated,   *)
(* that a stale role ends with its token, and that the diffs in the log    *)
(* blame nobody wrongly and leave no value unexplained.                    *)
(***************************************************************************)
EXTENDS Sessions, TLAPS

Steps == Answers \cup
  {"new", "taken", "insert", "find", "update", "delete", "log",
   "lookup", "compare", "sign", "verify", "denylist", "roles", "revoke"}

Act(r) == SessionStep(r) \/ UserStep(r)

\* Functions of the requests, of which TypeOK says no more.
Shape ==
  /\ entry = [r \in Requests |-> entry[r]]
  /\ before = [r \in Requests |-> before[r]]

\* Where a request stands fits what it was asked.
Routed(r) ==
  /\ pc[r] # "new" => call[r] \in Calls
  /\ pc[r] = "new" => call[r] = Null
  /\ pc[r] \in {"taken", "insert"} => call[r].op = "register"
  /\ pc[r] \in {"lookup", "compare", "sign"} => call[r].op = "login"
  /\ pc[r] \in {"verify", "denylist"} => call[r].op \notin Public
  /\ pc[r] = "roles" => call[r].op = "act"
  /\ pc[r] = "revoke" => call[r].op = "logout"
  /\ pc[r] \in {"find", "update", "delete"} => call[r].op \in {"update", "remove"}
  /\ pc[r] = "update" => call[r].op = "update"
  /\ pc[r] = "delete" => call[r].op = "remove"
  /\ pc[r] = "log" => call[r].op \in {"register", "update", "remove"}
  /\ pc[r] # "new" /\ call[r].op \notin Public => call[r].token \in DOMAIN tokens

\* What a request has read and written so far.
Progress(r) ==
  /\ pc[r] \in {"new", "lookup"} => before[r] = Null
  /\ pc[r] = "sign" => before[r] # Null
  /\ pc[r] \in {"compare", "sign"} /\ before[r] # Null =>
       before[r].role \in Roles /\ subject[r] \in UserIds
  /\ pc[r] \notin Answers \cup {"log"} => entry[r] = Null
  /\ pc[r] = "log" => entry[r] # Null

Types ==
  /\ TypeOK /\ Shape
  /\ \A r \in Requests : Routed(r) /\ Progress(r)

-----------------------------------------------------------------------------
\* Null is no user's row, no call and no entry.
LEMMA NotNull ==
  /\ \A row : UserRow(row) => row # Null
  /\ \A a, x, y : [action |-> a, user |-> x, by |-> y] # Null
  /\ \A a, x, y, z : [action |-> a, user |-> x, by |-> y, diff |-> z] # Null
  /\ Null.op = "null"
  <1>1. \A row : UserRow(row) => row # Null
    <2> SUFFICES ASSUME NEW row, UserRow(row), row = Null PROVE FALSE
      OBVIOUS
    <2>1. "name" \in DOMAIN row
      BY DEF UserRow
    <2>2. DOMAIN Null = {"op"}
      BY DEF Null
    <2> QED
      BY <2>1, <2>2
  <1>2. \A a, x, y : [action |-> a, user |-> x, by |-> y] # Null
    BY DEF Null
  <1>3. \A a, x, y, z : [action |-> a, user |-> x, by |-> y, diff |-> z] # Null
    BY DEF Null
  <1> QED
    BY <1>1, <1>2, <1>3 DEF Null

LEMMA InitTypes == Init => Types
  <1> SUFFICES ASSUME Init PROVE Types
    OBVIOUS
  <1>1. AccountTypeOK
    BY AccountAssumption DEF Init, AccountInit, AccountTypeOK, UserIds
  <1>2. TypeOK
    BY <1>1, AccountAssumption, SessionAssumption
      DEF Init, AccountInit, TypeOK, Answers, Tokens, TokenIds
  <1>3. Shape
    BY DEF Init, AccountInit, Shape
  <1>4. ASSUME NEW r \in Requests PROVE Routed(r) /\ Progress(r)
    BY NotNull DEF Init, AccountInit, Routed, Progress, Answers
  <1> QED
    BY <1>2, <1>3, <1>4 DEF Types

\* A step of a request leaves what the others keep as it is.
LEMMA Frame ==
  ASSUME Types, NEW r \in Requests, Act(r)
  PROVE  /\ \A q \in Requests \ {r} :
              /\ pc'[q] = pc[q] /\ call'[q] = call[q] /\ before'[q] = before[q]
              /\ entry'[q] = entry[q] /\ subject'[q] = subject[q] /\ ended'[q] = ended[q]
         /\ pc[r] # "new" => call' = call /\ ended' = ended
         /\ UNCHANGED <<clock, dbClock>>
  <1> USE DEF Types, TypeOK, AccountTypeOK, Shape, goto, Done, sessionVars
  <1>1. CASE Receive(r) \/ Lookup(r) \/ Compare(r) \/ Sign(r)
    BY <1>1 DEF Receive, Lookup, Compare, Sign
  <1>2. CASE Verify(r) \/ Validate(r) \/ CheckRoles(r)
    BY <1>2 DEF Verify, Validate, CheckRoles
  <1>3. CASE Revoke(r)
    BY <1>3 DEF Revoke
  <1>4. CASE ChangeUser(r)
    BY <1>4 DEF ChangeUser, UpdateUser
  <1>5. CASE ForgetUser(r)
    BY <1>5 DEF ForgetUser, DeleteUser
  <1>6. CASE UserStep(r)
    BY <1>6 DEF UserStep, FindByName, InsertUser, FindUser, LogEntry, Abort
  <1> QED
    BY <1>1, <1>2, <1>3, <1>4, <1>5, <1>6 DEF Act, SessionStep

\* What has to be shown of a step of r, once the others are known to be left alone.
LEMMA StepTypes ==
  ASSUME Types, NEW r \in Requests, Act(r), TypeOK', Shape',
         Routed(r)', Progress(r)', DOMAIN tokens \subseteq DOMAIN tokens'
  PROVE  Types'
  <1>1. ASSUME NEW q \in Requests \ {r} PROVE Routed(q)' /\ Progress(q)'
    <2>1. Routed(q) /\ Progress(q)
      BY DEF Types
    <2>2. /\ pc'[q] = pc[q] /\ call'[q] = call[q] /\ before'[q] = before[q]
          /\ entry'[q] = entry[q] /\ subject'[q] = subject[q]
      BY Frame
    <2> QED
      BY <2>1, <2>2 DEF Routed, Progress
  <1> QED
    BY <1>1 DEF Types

LEMMA GuardTypes ==
  ASSUME Types, NEW r \in Requests,
         Receive(r) \/ Lookup(r) \/ Compare(r) \/ Verify(r) \/ Validate(r) \/ CheckRoles(r)
  PROVE  Types'
  <1> USE DEF Types
  <1>a. Act(r) /\ TypeOK /\ Shape /\ Routed(r) /\ Progress(r)
    BY DEF Act, SessionStep
  <1>1. CASE Receive(r)
    <2>1. PICK c \in Calls :
            /\ c.op \notin Public => c.token \in DOMAIN tokens
            /\ call' = [call EXCEPT ![r] = c]
            /\ pc' = [pc EXCEPT ![r] = CASE c.op = "register" -> "taken"
                                         [] c.op = "login"    -> "lookup"
                                         [] OTHER             -> "verify"]
      BY <1>1 DEF Receive, goto
    <2>2. pc[r] = "new" /\ ended' = [ended EXCEPT ![r] = LoggedOut]
          /\ UNCHANGED <<users, log, before, entry, overlap, faults,
                         tokens, subject, denylist, clock, dbClock, changed>>
      BY <1>1 DEF Receive
    <2>3. LoggedOut \subseteq TokenIds
      <3> SUFFICES ASSUME NEW q \in Requests, call[q].op = "logout", pc[q] = "200"
                   PROVE  call[q].token \in TokenIds
        BY DEF LoggedOut
      <3> QED
        BY <1>a DEF TypeOK, Routed, Public
    <2>4. TypeOK'
      BY <1>a, <2>1, <2>2, <2>3 DEF TypeOK, AccountTypeOK, Answers
    <2>5. Shape'
      BY <1>a, <2>2 DEF Shape
    <2>6. Routed(r)' /\ Progress(r)'
      BY <1>a, <2>1, <2>2 DEF Routed, Progress, TypeOK, AccountTypeOK, Public, Answers
    <2> QED
      BY <1>a, <2>2, <2>4, <2>5, <2>6, StepTypes
  <1>2. CASE Lookup(r)
    <2>0. /\ pc[r] = "lookup" /\ pc' = [pc EXCEPT ![r] = "compare"]
          /\ UNCHANGED <<users, log, call, entry, overlap, faults,
                         tokens, denylist, clock, dbClock, ended, changed>>
      BY <1>2 DEF Lookup, goto
    <2>1. \/ \E u \in DOMAIN users : /\ before' = [before EXCEPT ![r] = users[u]]
                                     /\ subject' = [subject EXCEPT ![r] = u]
          \/ UNCHANGED <<before, subject>>
      BY <1>2 DEF Lookup
    <2>2. TypeOK'
      <3>1. AccountTypeOK'
        BY <1>a, <2>0 DEF TypeOK, AccountTypeOK
      <3>2. subject' \in [Requests -> UserIds \cup {Null}]
        BY <1>a, <2>1 DEF TypeOK, AccountTypeOK
      <3>3. \A q \in Requests : UserRow(before'[q]) \/ before'[q] = Null
        BY <1>a, <2>1 DEF TypeOK, AccountTypeOK, Shape
      <3> QED
        BY <1>a, <2>0, <3>1, <3>2, <3>3 DEF TypeOK, Answers
    <2>3. Shape'
      BY <1>a, <2>0, <2>1 DEF Shape
    <2>4. Routed(r)'
      BY <1>a, <2>0 DEF Routed, TypeOK, Answers
    <2>5. Progress(r)'
      BY <1>a, <2>0, <2>1, NotNull DEF Progress, TypeOK, AccountTypeOK, Shape, Answers, UserRow
    <2> QED
      BY <1>a, <2>0, <2>2, <2>3, <2>4, <2>5, StepTypes
  <1>3. CASE Compare(r) \/ Verify(r) \/ Validate(r) \/ CheckRoles(r)
    <2>0. UNCHANGED <<users, log, call, before, entry, overlap, faults, sessionVars>>
      BY <1>3 DEF Compare, Verify, Validate, CheckRoles
    <2>1. \E s \in {"sign", "401", "denylist", "revoke", "roles", "400", "find", "200", "403"} :
            pc' = [pc EXCEPT ![r] = s]
      <3>1. CASE Validate(r)
        <4>1. call[r] \in Calls /\ call[r].op \in Ops \ Public
          BY <3>1, <1>a, SessionAssumption DEF Validate, Routed
        <4>2. Handler(call[r]) \in {"revoke", "roles", "400", "find"}
          BY <4>1 DEF Handler, Ops, Public
        <4> QED
          BY <3>1, <4>2 DEF Validate, goto
      <3> QED
        BY <3>1, <1>3 DEF Compare, Verify, CheckRoles, goto
    <2>2. TypeOK' /\ Shape'
      BY <1>a, <2>0, <2>1 DEF TypeOK, AccountTypeOK, Shape, Answers, sessionVars
    <2>3. Progress(r)' /\ Routed(r)'
      <3>1. CASE Compare(r)
        BY <3>1, <1>a, <2>0 DEF Compare, goto, Progress, Routed, TypeOK, sessionVars, Answers
      <3>2. CASE Verify(r)
        BY <3>2, <1>a, <2>0 DEF Verify, goto, Progress, Routed, TypeOK, sessionVars, Answers
      <3>3. CASE Validate(r)
        <4>1. call[r] \in Calls /\ call[r].op \in Ops \ Public
          BY <3>3, <1>a, SessionAssumption DEF Validate, Routed
        <4>2. \/ pc'[r] \in {"400", "401"}
              \/ pc'[r] = "revoke" /\ call[r].op = "logout"
              \/ pc'[r] = "roles" /\ call[r].op = "act"
              \/ pc'[r] = "find" /\ call[r].op \in {"update", "remove"}
          BY <3>3, <4>1, <1>a DEF Validate, goto, Handler, Ops, Public, TypeOK
        <4>3. pc[r] = "denylist"
          BY <3>3 DEF Validate
        <4> QED
          BY <1>a, <2>0, <4>1, <4>2, <4>3 DEF Progress, Routed, sessionVars, Answers
      <3>4. CASE CheckRoles(r)
        BY <3>4, <1>a, <2>0 DEF CheckRoles, goto, Progress, Routed, TypeOK, sessionVars, Answers
      <3> QED
        BY <1>3, <3>1, <3>2, <3>3, <3>4
    <2> QED
      BY <1>a, <2>0, <2>2, <2>3, StepTypes DEF sessionVars
  <1> QED
    BY <1>1, <1>2, <1>3

LEMMA TokenTypes ==
  ASSUME Types, NEW r \in Requests, Sign(r) \/ Revoke(r)
  PROVE  Types'
  <1> USE DEF Types
  <1>a. Act(r) /\ TypeOK /\ Shape /\ Routed(r) /\ Progress(r)
    BY DEF Act, SessionStep
  <1>1. CASE Sign(r)
    <2> DEFINE token == [user |-> subject[r], role |-> before[r].role, exp |-> clock + TTL]
    <2>0. /\ pc[r] = "sign" /\ pc' = [pc EXCEPT ![r] = "200"] /\ tokens' = Put(tokens, r, token)
          /\ UNCHANGED <<users, log, call, before, entry, overlap, faults,
                         subject, denylist, clock, dbClock, ended, changed>>
      BY <1>1 DEF Sign, goto
    <2>1. token \in Tokens
      BY <2>0, <1>a, SessionAssumption DEF Progress, TypeOK, Tokens
    <2>2. /\ DOMAIN tokens' = DOMAIN tokens \cup {r} /\ tokens' \in [DOMAIN tokens' -> Tokens]
      BY <2>0, <2>1, <1>a DEF Put, TypeOK
    <2>3. TypeOK' /\ Shape'
      BY <1>a, <2>0, <2>2 DEF TypeOK, AccountTypeOK, Shape, Answers, TokenIds
    <2>4. Progress(r)' /\ Routed(r)'
      BY <1>a, <2>0, <2>2 DEF Progress, Routed, TypeOK, Answers
    <2> QED
      BY <1>a, <2>2, <2>3, <2>4, StepTypes
  <1>2. CASE Revoke(r)
    <2>0. /\ pc[r] = "revoke"
          /\ UNCHANGED <<users, log, call, before, entry, overlap,
                         tokens, subject, clock, dbClock, ended, changed>>
      BY <1>2 DEF Revoke
    <2>1. /\ \E s \in {"200", "400", "500"} : pc' = [pc EXCEPT ![r] = s]
          /\ faults' \in 0..MaxFaults
      BY <1>2, <1>a, AccountAssumption DEF Revoke, goto, Done, Fails, Succeeds, TypeOK, AccountTypeOK
    <2>2. call[r].token \in DOMAIN tokens /\ Payload(r).exp \in Nat
      BY <2>0, <1>a DEF Routed, Payload, TypeOK, Tokens, Public
    <2>3. denylist' \in [DOMAIN denylist' -> Nat] /\ DOMAIN denylist' \subseteq DOMAIN tokens
      BY <1>2, <1>a, <2>2 DEF Revoke, Put, TypeOK
    <2>4. TypeOK' /\ Shape'
      BY <1>a, <2>0, <2>1, <2>3 DEF TypeOK, AccountTypeOK, Shape, Answers
    <2>5. Progress(r)' /\ Routed(r)'
      BY <1>a, <2>0, <2>1 DEF Progress, Routed, TypeOK, Answers
    <2> QED
      BY <1>a, <2>0, <2>4, <2>5, StepTypes
  <1> QED
    BY <1>1, <1>2

\* Only what was sent is written, and what is written is well-formed.
LEMMA SetRow ==
  ASSUME NEW row, UserRow(row), NEW c \in Updates
  PROVE  /\ UserRow(Set(row, c.sent))
         /\ Set(row, c.sent).name = row.name /\ Set(row, c.sent).email = row.email
  <1>1. DOMAIN c.sent \subseteq Fields /\ ("role" \in DOMAIN c.sent => c.sent.role \in Roles)
        /\ ("full" \in DOMAIN c.sent => c.sent.full # "null")
    BY AccountAssumption
  <1>2. DOMAIN Set(row, c.sent) = {"name", "email", "full", "role", "password"}
    BY DEF Set, UserRow
  <1> QED
    BY <1>1, <1>2 DEF Set, UserRow, Fields

LEMMA NoteChangeTypes ==
  ASSUME Types, NoteChange
  PROVE  changed' \in [UserIds -> [at : Nat, logins : SUBSET Requests]]
  <1>1. clock \in Nat /\ changed \in [UserIds -> [at : Nat, logins : SUBSET Requests]]
    BY SessionAssumption DEF Types, TypeOK
  <1> QED
    BY <1>1 DEF NoteChange

\* Registration, update and deletion, and their entries.
LEMMA ChangeTypes ==
  ASSUME Types, NEW r \in Requests, ChangeUser(r) \/ ForgetUser(r) \/ UserStep(r)
  PROVE  Types'
  <1> USE DEF Types
  <1>a. Act(r) /\ TypeOK /\ AccountTypeOK /\ Shape /\ Routed(r) /\ Progress(r)
    BY DEF Act, SessionStep, TypeOK
  <1>b. ASSUME faults' = faults \/ Fails PROVE faults' \in 0..MaxFaults
    BY <1>b, <1>a, AccountAssumption DEF Fails, AccountTypeOK
  <1>1. CASE ChangeUser(r)
    <2> DEFINE u == call[r].user
               diff == Diff(before[r], users'[u], Fields)
               new == [action |-> "UPDATE", user |-> u, by |-> r, diff |-> diff]
    <2>0. /\ pc[r] = "update" /\ NoteChange
          /\ UNCHANGED <<log, call, before, tokens, subject, denylist, clock, dbClock, ended>>
      BY <1>1 DEF ChangeUser, UpdateUser
    <2>1. \/ /\ pc' = [pc EXCEPT ![r] = "404"] /\ faults' = faults
             /\ UNCHANGED <<users, entry, overlap>>
          \/ /\ u \in DOMAIN users /\ users' = [users EXCEPT ![u] = Set(@, call[r].sent)]
             /\ \/ pc' = [pc EXCEPT ![r] = "log"] /\ faults' = faults
                \/ pc' = [pc EXCEPT ![r] = "500"] /\ Fails
             /\ entry' = [entry EXCEPT ![r] = new]
             /\ overlap' = [q \in Requests |->
                              IF q # r /\ pc[q] = "update" /\ call[q].user = u
                              THEN overlap[q] \cup {r} ELSE overlap[q]]
      BY <1>1 DEF ChangeUser, UpdateUser, Done, goto, Succeeds
    <2>2. DOMAIN users' = DOMAIN users /\ \A v \in DOMAIN users : UserRow(users'[v])
      <3>1. call[r] \in Updates
        BY <2>0, <1>a DEF Routed, Updates
      <3>2. u \in DOMAIN users => UserRow(Set(users[u], call[r].sent))
        BY <3>1, <1>a, SetRow DEF AccountTypeOK
      <3> QED
        BY <2>1, <3>2, <1>a DEF AccountTypeOK
    <2>3. overlap' \in [Requests -> SUBSET Requests]
      BY <2>1, <1>a DEF AccountTypeOK
    <2>4. faults' \in 0..MaxFaults /\ \E s \in {"404", "log", "500"} : pc' = [pc EXCEPT ![r] = s]
      BY <2>1, <1>b
    <2>5. changed' \in [UserIds -> [at : Nat, logins : SUBSET Requests]]
      BY <2>0, NoteChangeTypes
    <2>6. log \subseteq {entry'[q] : q \in Requests} \ {Null}
      BY <2>0, <2>1, <1>a DEF TypeOK, Progress, Shape, Answers
    <2>7. TypeOK' /\ Shape'
      BY <1>a, <2>0, <2>1, <2>2, <2>3, <2>4, <2>5, <2>6 DEF TypeOK, AccountTypeOK, Shape, Answers
    <2>8. Progress(r)' /\ Routed(r)'
      <3>1. new # Null
        BY NotNull
      <3>2. entry'[r] # Null \/ pc'[r] = "404"
        BY <2>1, <3>1, <1>a DEF TypeOK, Shape
      <3> QED
        BY <1>a, <2>0, <2>4, <3>2 DEF Progress, Routed, TypeOK, Answers
    <2> QED
      BY <1>a, <2>0, <2>7, <2>8, StepTypes
  <1>2. CASE ForgetUser(r)
    <2> DEFINE new == [action |-> "DELETE", user |-> call[r].user, by |-> r]
    <2>0. /\ pc[r] = "delete" /\ NoteChange
          /\ UNCHANGED <<log, call, before, overlap, tokens, subject, clock, dbClock, ended>>
          /\ DOMAIN denylist' \subseteq DOMAIN denylist
          /\ denylist' = [t \in DOMAIN denylist' |-> denylist[t]]
      BY <1>2 DEF ForgetUser, DeleteUser, Restrict
    <2>1. \/ /\ pc' = [pc EXCEPT ![r] = "404"] /\ faults' = faults
             /\ UNCHANGED <<users, entry>>
          \/ /\ users' = Restrict(users, DOMAIN users \ {call[r].user})
             /\ \/ pc' = [pc EXCEPT ![r] = "log"] /\ faults' = faults
                \/ pc' = [pc EXCEPT ![r] = "500"] /\ Fails
             /\ entry' = [entry EXCEPT ![r] = new]
      BY <1>2 DEF ForgetUser, DeleteUser, Done, goto, Succeeds
    <2>2. DOMAIN users' \subseteq DOMAIN users /\ \A v \in DOMAIN users' : users'[v] = users[v]
      BY <2>1 DEF Restrict
    <2>4. faults' \in 0..MaxFaults /\ \E s \in {"404", "log", "500"} : pc' = [pc EXCEPT ![r] = s]
      BY <2>1, <1>b
    <2>5. changed' \in [UserIds -> [at : Nat, logins : SUBSET Requests]]
      BY <2>0, NoteChangeTypes
    <2>6. log \subseteq {entry'[q] : q \in Requests} \ {Null}
      BY <2>0, <2>1, <1>a DEF TypeOK, Progress, Shape, Answers
    <2>7. denylist' \in [DOMAIN denylist' -> Nat] /\ DOMAIN denylist' \subseteq DOMAIN tokens
      BY <2>0, <1>a DEF TypeOK
    <2>8. TypeOK' /\ Shape'
      BY <1>a, <2>0, <2>1, <2>2, <2>4, <2>5, <2>6, <2>7 DEF TypeOK, AccountTypeOK, Shape, Answers
    <2>9. Progress(r)' /\ Routed(r)'
      <3>1. new # Null
        BY NotNull
      <3>2. entry'[r] # Null \/ pc'[r] = "404"
        BY <2>1, <3>1, <1>a DEF TypeOK, Shape
      <3> QED
        BY <1>a, <2>0, <2>4, <3>2 DEF Progress, Routed, TypeOK, Answers
    <2> QED
      BY <1>a, <2>0, <2>8, <2>9, StepTypes
  <1>3. CASE UserStep(r)
    <2>0. UNCHANGED sessionVars /\ UNCHANGED <<call, overlap>>
      BY <1>3 DEF UserStep, FindByName, InsertUser, FindUser, LogEntry, Abort
    <2>1. CASE InsertUser(r)
      <3> DEFINE new == [action |-> "CREATE", user |-> r, by |-> r]
      <3>0. /\ pc[r] = "insert" /\ UNCHANGED <<log, before>>
            /\ \/ /\ pc' = [pc EXCEPT ![r] = "409"] /\ faults' = faults /\ UNCHANGED <<users, entry>>
               \/ /\ users' = Put(users, r, call[r].row)
                  /\ \/ pc' = [pc EXCEPT ![r] = "log"] /\ faults' = faults
                     \/ pc' = [pc EXCEPT ![r] = "500"] /\ Fails
                  /\ entry' = [entry EXCEPT ![r] = new]
        BY <2>1 DEF InsertUser, Done, goto, Succeeds
      <3>1. UserRow(call[r].row)
        BY <3>0, <1>a, AccountAssumption DEF Routed, Registers
      <3>2. DOMAIN users' \subseteq UserIds /\ \A v \in DOMAIN users' : UserRow(users'[v])
        BY <3>0, <3>1, <1>a DEF Put, AccountTypeOK, UserIds
      <3>3. faults' \in 0..MaxFaults /\ \E s \in {"409", "log", "500"} : pc' = [pc EXCEPT ![r] = s]
        BY <3>0, <1>b
      <3>4. log \subseteq {entry'[q] : q \in Requests} \ {Null}
        BY <3>0, <1>a DEF TypeOK, Progress, Shape, Answers
      <3>5. TypeOK' /\ Shape'
        BY <1>a, <2>0, <3>0, <3>2, <3>3, <3>4 DEF TypeOK, AccountTypeOK, Shape, Answers, sessionVars
      <3>6. new # Null
        BY NotNull
      <3>7. entry'[r] # Null \/ pc'[r] = "409"
        BY <3>0, <3>6, <1>a DEF TypeOK, Shape
      <3>8. Progress(r)' /\ Routed(r)'
        BY <1>a, <2>0, <3>0, <3>3, <3>7 DEF Progress, Routed, TypeOK, Answers, sessionVars
      <3> QED
        BY <1>a, <2>0, <3>5, <3>8, StepTypes DEF sessionVars
    <2>2. CASE LogEntry(r)
      <3>0. /\ pc[r] = "log" /\ pc' = [pc EXCEPT ![r] = "200"] /\ UNCHANGED <<users, before, entry>>
            /\ log' = log \cup {entry[r]} \/ log' = log
            /\ faults' = faults \/ Fails
        BY <2>2 DEF LogEntry, goto, Succeeds
      <3>1. faults' \in 0..MaxFaults
        BY <3>0, <1>b
      <3>2. log' \subseteq {entry[q] : q \in Requests} \ {Null}
        BY <3>0, <1>a DEF TypeOK, Progress
      <3>3. TypeOK' /\ Shape'
        BY <1>a, <2>0, <3>0, <3>1, <3>2 DEF TypeOK, AccountTypeOK, Shape, Answers, sessionVars
      <3>4. Progress(r)' /\ Routed(r)'
        BY <1>a, <2>0, <3>0 DEF Progress, Routed, TypeOK, Answers, sessionVars
      <3> QED
        BY <1>a, <2>0, <3>3, <3>4, StepTypes DEF sessionVars
    <2>3. CASE FindByName(r) \/ FindUser(r) \/ Abort(r)
      <3>0. UNCHANGED <<users, log, entry>> /\ (faults' = faults \/ Fails)
        BY <2>3 DEF FindByName, FindUser, Abort
      <3>1. faults' \in 0..MaxFaults
        BY <3>0, <1>b
      <3>2. /\ \E s \in {"409", "insert", "update", "delete", "404", "500"} : pc' = [pc EXCEPT ![r] = s]
            /\ pc[r] \notin Answers \cup {"log", "new"}
        BY <2>3 DEF FindByName, FindUser, Abort, goto, InFlight, Catching, Answers
      <3>3. \/ before' = before
            \/ call[r].user \in DOMAIN users
               /\ before' = [before EXCEPT ![r] = users[call[r].user]]
        BY <2>3 DEF FindByName, FindUser, Abort
      <3>4. TypeOK' /\ Shape'
        BY <1>a, <2>0, <3>0, <3>1, <3>2, <3>3
          DEF TypeOK, AccountTypeOK, Shape, Answers, sessionVars
      <3>5. Progress(r)'
        BY <1>a, <2>0, <3>0, <3>2 DEF Progress, TypeOK, Answers, sessionVars
      <3>6. Routed(r)'
        BY <1>a, <2>0, <2>3, NotNull
          DEF FindByName, FindUser, Abort, goto, Catching, Routed, TypeOK, Answers, sessionVars,
            InFlight
      <3> QED
        BY <1>a, <2>0, <3>4, <3>5, <3>6, StepTypes DEF sessionVars
    <2> QED
      BY <1>3, <2>1, <2>2, <2>3 DEF UserStep
  <1> QED
    BY <1>1, <1>2, <1>3

LEMMA TickTypes ==
  ASSUME Types, Tick \/ UNCHANGED vars
  PROVE  Types'
  <1>1. UNCHANGED <<accountVars, tokens, subject, denylist, ended, changed>>
    BY DEF Tick, vars, sessionVars
  <1>2. TypeOK' /\ Shape'
    BY <1>1, SessionAssumption DEF Types, TypeOK, AccountTypeOK, Shape, accountVars, Tick, vars,
      sessionVars
  <1>3. \A r \in Requests : Routed(r)' /\ Progress(r)'
    BY <1>1 DEF Types, Routed, Progress, accountVars
  <1> QED
    BY <1>2, <1>3 DEF Types

LEMMA TypesStep == Types /\ [Next]_vars => Types'
  BY GuardTypes, TokenTypes, ChangeTypes, TickTypes DEF Next, SessionStep

\* The types of the tables, of the clocks and of what requests keep (users, tokens,
\* token_denylist, audit_logs).
THEOREM SessionTypes == Spec => []TypeOK
  <1>1. Types => TypeOK
    BY DEF Types
  <1> QED
    BY InitTypes, TypesStep, <1>1, PTL DEF Spec

-----------------------------------------------------------------------------
\* What a step of r can touch.
LEMMA Effects ==
  ASSUME Types, NEW r \in Requests, Act(r)
  PROVE  /\ pc[r] \notin Answers /\ pc'[r] # "new"
         /\ pc'[r] = "taken" => pc[r] = "new"
         /\ pc'[r] = "insert" => pc[r] = "taken"
         /\ pc'[r] = "compare" => Lookup(r)
         /\ pc'[r] = "sign" => Compare(r)
         /\ faults' = faults \/ faults' = faults + 1
         /\ tokens' = tokens \/ Sign(r)
         /\ denylist' = denylist \/ Revoke(r) \/ ForgetUser(r)
         /\ \/ users' = users
            \/ InsertUser(r)
            \/ ChangeUser(r)
            \/ ForgetUser(r)
         /\ changed' = changed \/ ChangeUser(r) \/ ForgetUser(r)
  <1> USE DEF Types, TypeOK, Answers, goto, Succeeds, Fails, Done, sessionVars
  <1>1. CASE Receive(r)
    BY <1>1 DEF Receive
  <1>2. CASE Lookup(r) \/ Compare(r) \/ Sign(r) \/ Verify(r)
    BY <1>2 DEF Lookup, Compare, Sign, Verify
  <1>3. CASE Validate(r)
    <2>1. call[r] \in Calls /\ call[r].op \in Ops \ Public
      BY <1>3, SessionAssumption DEF Validate, Routed
    <2>2. Handler(call[r]) \in {"revoke", "roles", "400", "find"}
      BY <2>1 DEF Handler, Ops, Public
    <2> QED
      BY <1>3, <2>2 DEF Validate
  <1>4. CASE CheckRoles(r) \/ Revoke(r)
    BY <1>4 DEF CheckRoles, Revoke
  <1>5. CASE ChangeUser(r)
    BY <1>5 DEF ChangeUser, UpdateUser
  <1>6. CASE ForgetUser(r)
    BY <1>6 DEF ForgetUser, DeleteUser
  <1>7. CASE UserStep(r)
    BY <1>7 DEF UserStep, FindByName, InsertUser, FindUser, LogEntry, Abort, InFlight
  <1> QED
    BY <1>1, <1>2, <1>3, <1>4, <1>5, <1>6, <1>7 DEF Act, SessionStep

\* What a step of r does to the users: one row more, one written, or one less.
LEMMA UserEffects ==
  ASSUME Types, NEW r \in Requests, Act(r)
  PROVE  \/ users' = users
         \/ /\ pc[r] = "insert" /\ pc'[r] \in {"log", "500"} /\ ~Clash(r)
            /\ users' = Put(users, r, call[r].row)
         \/ /\ DOMAIN users' = DOMAIN users
            /\ \A v \in DOMAIN users : /\ users'[v].name = users[v].name
                                       /\ users'[v].email = users[v].email
         \/ \E u \in DOMAIN users : users' = [v \in DOMAIN users \ {u} |-> users[v]]
  <1>1. CASE users' = users
    BY <1>1
  <1>2. CASE InsertUser(r)
    BY <1>2 DEF InsertUser, Done, goto, Types, TypeOK
  <1>3. CASE ChangeUser(r) /\ users' # users
    <2>1. /\ pc[r] = "update" /\ call[r].user \in DOMAIN users
          /\ users' = [users EXCEPT ![call[r].user] = Set(@, call[r].sent)]
      BY <1>3 DEF ChangeUser, UpdateUser
    <2>2. call[r] \in Updates
      BY <2>1 DEF Types, Routed, Updates
    <2>3. UserRow(users[call[r].user])
      BY <2>1 DEF Types, TypeOK, AccountTypeOK
    <2> QED
      BY <2>1, <2>2, <2>3, SetRow
  <1>4. CASE ForgetUser(r) /\ users' # users
    BY <1>4 DEF ForgetUser, DeleteUser, Restrict
  <1> QED
    BY <1>1, <1>2, <1>3, <1>4, Effects

-----------------------------------------------------------------------------
LEMMA AlikeStep ==
  ASSUME Types, NoTwoAlike, [Next]_vars
  PROVE  NoTwoAlike'
  <1>1. CASE Tick \/ UNCHANGED vars
    BY <1>1 DEF Tick, vars, accountVars, NoTwoAlike
  <1>2. ASSUME NEW r \in Requests, Act(r) PROVE NoTwoAlike'
    <2>1. CASE users' = users
      BY <2>1 DEF NoTwoAlike
    <2>2. CASE ~Clash(r) /\ users' = Put(users, r, call[r].row)
      BY <2>2 DEF NoTwoAlike, Clash, Put
    <2>3. CASE /\ DOMAIN users' = DOMAIN users
               /\ \A v \in DOMAIN users : /\ users'[v].name = users[v].name
                                          /\ users'[v].email = users[v].email
      BY <2>3 DEF NoTwoAlike
    <2>4. CASE \E u \in DOMAIN users : users' = [v \in DOMAIN users \ {u} |-> users[v]]
      BY <2>4 DEF NoTwoAlike
    <2> QED
      BY <1>2, <2>1, <2>2, <2>3, <2>4, UserEffects
  <1> QED
    BY <1>1, <1>2 DEF Next, Act

\* No two users have the same name or the same address, however registrations
\* overlap (create checks the name first, the unique indexes decide).
THEOREM UsersDiffer == Spec => []NoTwoAlike
  <1>1. Init => NoTwoAlike
    BY AccountAssumption DEF Init, AccountInit, NoTwoAlike
  <1> QED
    BY InitTypes, TypesStep, AlikeStep, <1>1, PTL DEF Spec

-----------------------------------------------------------------------------
\* The users whom a request may still register: they are not there yet, and nothing
\* refers to them.
Coming == {u \in Requests : pc[u] \in {"new", "taken", "insert"}}

Known ==
  /\ DOMAIN users \cap Coming = {}
  /\ \A t \in DOMAIN tokens : tokens[t].user \notin Coming
  /\ \A r \in Requests :
       pc[r] \in {"compare", "sign"} /\ before[r] # Null => subject[r] \notin Coming
  /\ \A t \in DOMAIN tokens \cap Requests : pc[t] = "200"

LEMMA InitKnown == Init => Known
  BY AccountAssumption, SessionAssumption
    DEF Init, AccountInit, Known, Coming, Tokens

LEMMA ComingShrinks ==
  ASSUME Types, NEW r \in Requests, Act(r)
  PROVE  Coming' \subseteq Coming
  BY Effects, Frame DEF Coming

\* Tokens stay as they were signed; only a login adds one, its own.
LEMMA TokenEffects ==
  ASSUME Types, Known, NEW r \in Requests, Act(r)
  PROVE  /\ \A t \in DOMAIN tokens : t \in DOMAIN tokens' /\ tokens'[t] = tokens[t]
         /\ \/ tokens' = tokens
            \/ /\ Sign(r) /\ DOMAIN tokens' = DOMAIN tokens \cup {r}
               /\ tokens'[r] = [user |-> subject[r], role |-> before[r].role,
                                exp |-> clock + TTL]
  BY Effects DEF Sign, Put, Known

LEMMA KnownStep ==
  ASSUME Types, Known, [Next]_vars
  PROVE  Known'
  <1>1. CASE Tick \/ UNCHANGED vars
    BY <1>1 DEF Tick, vars, accountVars, sessionVars, Known, Coming
  <1>2. ASSUME NEW r \in Requests, Act(r) PROVE Known'
    <2>1. ASSUME NEW u \in DOMAIN users' PROVE u \notin Coming'
      <3>1. CASE u \in DOMAIN users
        BY <1>2, <3>1, ComingShrinks DEF Known
      <3>2. CASE u \notin DOMAIN users
        <4>1. u = r /\ pc'[r] \in {"log", "500"}
          <5>1. CASE pc'[r] \in {"log", "500"} /\ users' = Put(users, r, call[r].row)
            BY <2>1, <3>2, <5>1 DEF Put
          <5> QED
            BY <1>2, <2>1, <3>2, <5>1, UserEffects
        <4> QED
          BY <4>1 DEF Coming
      <3> QED
        BY <3>1, <3>2
    <2>2. ASSUME NEW t \in DOMAIN tokens' PROVE tokens'[t].user \notin Coming'
      <3>1. CASE t \in DOMAIN tokens
        BY <1>2, <3>1, ComingShrinks, TokenEffects DEF Known
      <3>2. CASE t \notin DOMAIN tokens
        <4>1. Sign(r) /\ tokens'[t].user = subject[r]
          <5>1. /\ Sign(r) /\ DOMAIN tokens' = DOMAIN tokens \cup {r}
                /\ tokens'[r] = [user |-> subject[r], role |-> before[r].role,
                                 exp |-> clock + TTL]
            BY <1>2, <2>2, <3>2, TokenEffects
          <5> QED
            BY <2>2, <3>2, <5>1
        <4>2. pc[r] = "sign"
          BY <4>1 DEF Sign
        <4>3. subject[r] \notin Coming
          BY <4>2 DEF Known, Types, Progress
        <4> QED
          BY <1>2, <4>1, <4>3, ComingShrinks
      <3> QED
        BY <3>1, <3>2
    <2>3. ASSUME NEW q \in Requests, pc'[q] \in {"compare", "sign"}, before'[q] # Null
          PROVE  subject'[q] \notin Coming'
      <3>1. CASE q # r
        BY <1>2, <2>3, <3>1, Frame, ComingShrinks DEF Known
      <3>2. CASE q = r /\ Lookup(r)
        <4>1. before[r] = Null
          BY <3>2 DEF Lookup, Types, Progress
        <4>2. PICK u \in DOMAIN users : subject' = [subject EXCEPT ![r] = u]
          BY <2>3, <3>2, <4>1 DEF Lookup
        <4>3. subject'[r] = u
          BY <4>2 DEF Types, TypeOK
        <4> QED
          BY <1>2, <3>2, <4>2, <4>3, ComingShrinks DEF Known
      <3>3. CASE q = r /\ Compare(r)
        BY <1>2, <2>3, <3>3, ComingShrinks DEF Compare, Known, sessionVars
      <3> QED
        BY <1>2, <2>3, <3>1, <3>2, <3>3, Effects
    <2>4. ASSUME NEW t \in DOMAIN tokens' \cap Requests PROVE pc'[t] = "200"
      <3>1. CASE t \in DOMAIN tokens
        BY <1>2, <2>4, <3>1, Frame, Effects DEF Known, Answers
      <3>2. CASE t \notin DOMAIN tokens
        <4>1. Sign(r) /\ DOMAIN tokens' = DOMAIN tokens \cup {r}
          BY <1>2, <2>4, <3>2, TokenEffects
        <4> QED
          BY <2>4, <3>2, <4>1 DEF Sign, goto, Types, TypeOK
      <3> QED
        BY <3>1, <3>2
    <2> QED
      BY <2>1, <2>2, <2>3, <2>4 DEF Known
  <1> QED
    BY <1>1, <1>2 DEF Next, Act

\* A user whom a token names and who is gone does not come back.
LEMMA GoneStays ==
  ASSUME Types, NEW r \in Requests, Act(r)
  PROVE  DOMAIN users' \subseteq DOMAIN users \cup Coming
  <1>1. CASE pc[r] = "insert" /\ users' = Put(users, r, call[r].row)
    BY <1>1 DEF Put, Coming
  <1> QED
    BY <1>1, UserEffects

-----------------------------------------------------------------------------
\* What a denylist row stands for, and what an answered logout leaves behind.
Denied ==
  \A t \in DOMAIN denylist :
    /\ denylist[t] = tokens[t].exp
    /\ \E q \in Requests : call[q].op = "logout" /\ call[q].token = t /\ pc[q] \in {"200", "500"}

Ended ==
  /\ \A t \in LoggedOut : t \in DOMAIN denylist \/ tokens[t].user \notin DOMAIN users
  /\ \A r \in Requests : ended[r] \subseteq LoggedOut

LEMMA LoggedOutTokens ==
  ASSUME Types
  PROVE  LoggedOut \subseteq DOMAIN tokens
  BY DEF LoggedOut, Types, Routed, Public

\* How a logout goes on: the guards, then the denylist; and how any request is admitted.
LEMMA LogoutEffects ==
  ASSUME Types, NEW r \in Requests, Act(r)
  PROVE  /\ call'[r].op = "logout" =>
              \/ pc'[r] \in {"verify", "denylist", "revoke"}
              \/ pc'[r] = "401" /\ Verify(r)
              \/ pc'[r] = "401" /\ Validate(r) /\ Revoked(call[r].token)
              \/ pc'[r] = "500" /\ faults' = faults + 1
              \/ pc'[r] \in {"200", "400"} /\ Revoke(r)
         /\ Admitted(r)' =>
              \/ Admitted(r)
              \/ Validate(r) /\ ~Revoked(call[r].token)
         /\ ended' = ended \/ ended' = [ended EXCEPT ![r] = LoggedOut]
  <1> USE DEF Types, TypeOK, AccountTypeOK, Routed, goto, Succeeds, Fails, Done, sessionVars
  <1>1. CASE Receive(r)
    <2>1. PICK c \in Calls : /\ call' = [call EXCEPT ![r] = c]
                             /\ pc' = [pc EXCEPT ![r] = CASE c.op = "register" -> "taken"
                                                          [] c.op = "login"    -> "lookup"
                                                          [] OTHER             -> "verify"]
      BY <1>1 DEF Receive
    <2>2. ended' = [ended EXCEPT ![r] = LoggedOut]
      BY <1>1 DEF Receive
    <2> QED
      BY <2>1, <2>2 DEF Admitted
  <1>2. CASE Lookup(r) \/ Compare(r) \/ Sign(r)
    BY <1>2 DEF Lookup, Compare, Sign, Admitted
  <1>3. CASE Verify(r)
    BY <1>3 DEF Verify, Admitted
  <1>4. CASE Validate(r)
    <2>1. call[r] \in Calls /\ call[r].op \in Ops \ Public /\ call' = call
      BY <1>4, SessionAssumption DEF Validate
    <2> QED
      BY <1>4, <2>1 DEF Validate, Admitted, Handler, Ops, Public
  <1>5. CASE CheckRoles(r) \/ Revoke(r)
    BY <1>5 DEF CheckRoles, Revoke, Admitted
  <1>6. CASE ChangeUser(r)
    BY <1>6 DEF ChangeUser, UpdateUser, Admitted
  <1>7. CASE ForgetUser(r)
    BY <1>7 DEF ForgetUser, DeleteUser, Admitted
  <1>8. CASE UserStep(r)
    <2>1. CASE LogEntry(r)
      BY <1>8, <2>1 DEF UserStep, LogEntry, Admitted
    <2>2. CASE Abort(r)
      BY <1>8, <2>2 DEF UserStep, Abort, Admitted
    <2>3. CASE FindByName(r) \/ InsertUser(r) \/ FindUser(r)
      BY <1>8, <2>3 DEF UserStep, FindByName, InsertUser, FindUser, Admitted
    <2> QED
      BY <1>8, <2>1, <2>2, <2>3 DEF UserStep
  <1> QED
    BY <1>1, <1>2, <1>3, <1>4, <1>5, <1>6, <1>7, <1>8 DEF Act, SessionStep

LEMMA DenylistEffects ==
  ASSUME Types, NEW r \in Requests, Act(r)
  PROVE  \/ denylist' = denylist
         \/ /\ Revoke(r) /\ pc'[r] \in {"200", "500"} /\ call[r].token \notin DOMAIN denylist
            /\ denylist' = Put(denylist, call[r].token, Payload(r).exp)
         \/ denylist' = [t \in {t \in DOMAIN denylist : tokens[t].user \in DOMAIN users'}
                           |-> denylist[t]]
  <1>1. CASE Revoke(r)
    BY <1>1 DEF Revoke, Done, goto, Types, TypeOK
  <1>2. CASE ForgetUser(r)
    BY <1>2 DEF ForgetUser, Restrict
  <1> QED
    BY <1>1, <1>2, Effects

LEMMA DeniedStep ==
  ASSUME Types, Known, Denied, [Next]_vars
  PROVE  Denied'
  <1>1. CASE Tick \/ UNCHANGED vars
    BY <1>1 DEF Tick, vars, accountVars, sessionVars, Denied
  <1>2. ASSUME NEW r \in Requests, Act(r) PROVE Denied'
    <2> SUFFICES ASSUME NEW t \in DOMAIN denylist'
                 PROVE  /\ denylist'[t] = tokens'[t].exp
                        /\ \E q \in Requests : /\ call'[q].op = "logout" /\ call'[q].token = t
                                               /\ pc'[q] \in {"200", "500"}
      BY DEF Denied
    <2>1. CASE t \in DOMAIN denylist
      <3>1. denylist'[t] = denylist[t] /\ t \in DOMAIN tokens
        BY <1>2, <2>1, DenylistEffects DEF Put, Types, TypeOK
      <3>2. PICK q \in Requests : /\ call[q].op = "logout" /\ call[q].token = t
                                  /\ pc[q] \in {"200", "500"}
        BY <2>1 DEF Denied
      <3>3. q # r
        BY <1>2, <3>2, Effects DEF Answers
      <3> QED
        <4>1. denylist[t] = tokens[t].exp /\ tokens'[t] = tokens[t]
          BY <1>2, <2>1, <3>1, TokenEffects DEF Denied
        <4>2. call'[q] = call[q] /\ pc'[q] = pc[q]
          BY <1>2, <3>3, Frame
        <4> QED
          BY <3>1, <3>2, <4>1, <4>2
    <2>2. CASE t \notin DOMAIN denylist
      <3>1. /\ Revoke(r) /\ pc'[r] \in {"200", "500"} /\ t = call[r].token
            /\ denylist'[t] = Payload(r).exp
        BY <1>2, <2>2, DenylistEffects DEF Put
      <3>2. call[r].op = "logout" /\ call' = call /\ tokens' = tokens
        BY <3>1 DEF Revoke, Types, Routed
      <3> QED
        BY <3>1, <3>2 DEF Payload
    <2> QED
      BY <2>1, <2>2
  <1> QED
    BY <1>1, <1>2 DEF Next, Act

LEMMA EndedStep ==
  ASSUME Types, Known, Ended, [Next]_vars
  PROVE  Ended'
  <1>1. CASE Tick \/ UNCHANGED vars
    BY <1>1 DEF Tick, vars, accountVars, sessionVars, Ended, LoggedOut
  <1>2. ASSUME NEW r \in Requests, Act(r) PROVE Ended'
    <2>1. ASSUME NEW t \in LoggedOut PROVE t \in LoggedOut'
      <3>1. PICK q \in Requests : call[q].op = "logout" /\ pc[q] = "200" /\ call[q].token = t
        BY <2>1 DEF LoggedOut
      <3>2. q # r
        BY <1>2, <3>1, Effects DEF Answers
      <3> QED
        BY <1>2, <3>1, <3>2, Frame DEF LoggedOut
    <2>2. ASSUME NEW t \in LoggedOut'
          PROVE  t \in DOMAIN denylist' \/ tokens'[t].user \notin DOMAIN users'
      <3>1. CASE t \in LoggedOut
        <4>1. t \in DOMAIN tokens /\ tokens'[t] = tokens[t] /\ tokens[t].user \notin Coming
          BY <1>2, <3>1, LoggedOutTokens, TokenEffects DEF Known
        <4>2. CASE t \in DOMAIN denylist
          BY <1>2, <4>1, <4>2, DenylistEffects DEF Put
        <4>3. CASE tokens[t].user \notin DOMAIN users
          BY <1>2, <4>1, <4>3, GoneStays
        <4> QED
          BY <3>1, <4>2, <4>3 DEF Ended
      <3>2. CASE t \notin LoggedOut
        <4>1. PICK q \in Requests : call'[q].op = "logout" /\ pc'[q] = "200" /\ call'[q].token = t
          BY <2>2 DEF LoggedOut
        <4>2. q = r
          BY <1>2, <3>2, <4>1, Frame DEF LoggedOut
        <4>3. Revoke(r)
          BY <1>2, <4>1, <4>2, LogoutEffects
        <4> QED
          BY <4>1, <4>2, <4>3 DEF Revoke, Put, goto, Types, TypeOK
      <3> QED
        BY <3>1, <3>2
    <2>3. ASSUME NEW q \in Requests PROVE ended'[q] \subseteq LoggedOut'
      <3>1. ended'[q] = ended[q] \/ ended'[q] = LoggedOut
        BY <1>2, LogoutEffects DEF Types, TypeOK
      <3> QED
        BY <2>1, <3>1 DEF Ended
    <2> QED
      BY <2>2, <2>3 DEF Ended
  <1> QED
    BY <1>1, <1>2 DEF Next, Act

\* A request sent after its token's logout was answered is refused, unless the user
\* was deleted since or the database's clock is past the expiry (JwtStrategy.validate,
\* logout, isRevoked, ON DELETE CASCADE): only a validation admits a request, it finds
\* the denylist row that the logout left, and rows go with their users only.
LEMMA OutStep ==
  ASSUME Types, Known, Denied, Ended, RevokedStaysOut, [Next]_vars
  PROVE  RevokedStaysOut'
  <1>1. CASE Tick \/ UNCHANGED vars
    <2>1. UNCHANGED <<accountVars, tokens, subject, denylist, ended, changed>>
          /\ (dbClock' = dbClock \/ dbClock' = dbClock + 1)
      BY <1>1 DEF Tick, vars, sessionVars
    <2>2. ASSUME NEW r \in Requests, Admitted(r), call[r].token \in ended[r]
          PROVE  Payload(r).user \notin DOMAIN users \/ Payload(r).exp <= dbClock'
      <3>1. Payload(r).exp \in Nat /\ dbClock \in Nat
        BY <2>2, LoggedOutTokens, SessionAssumption DEF Ended, Payload, Types, TypeOK, Tokens
      <3> QED
        BY <2>1, <2>2, <3>1 DEF RevokedStaysOut
    <2> QED
      BY <2>1, <2>2 DEF RevokedStaysOut, Admitted, Payload, accountVars
  <1>2. ASSUME NEW r \in Requests, Act(r) PROVE RevokedStaysOut'
    <2> SUFFICES ASSUME NEW q \in Requests, Admitted(q)', (call[q].token \in ended[q])'
                 PROVE  (Payload(q).user \notin DOMAIN users \/ Payload(q).exp <= dbClock)'
      BY DEF RevokedStaysOut
    <2> DEFINE t == call[q].token
    <2>1. \/ Admitted(q)
          \/ q = r /\ Validate(r) /\ ~Revoked(t)
      BY <1>2, Frame, LogoutEffects DEF Admitted
    <2>2. call'[q] = call[q] /\ ended'[q] = ended[q]
      <3>1. CASE q = r
        <4>1. pc[r] # "new"
          BY <2>1, <3>1 DEF Admitted, Validate
        <4> QED
          BY <1>2, <3>1, <4>1, Frame
      <3> QED
        BY <1>2, <3>1, Frame
    <2>3. t \in ended[q] /\ t \in LoggedOut
      BY <2>2 DEF Ended
    <2>4. /\ t \in DOMAIN tokens /\ tokens'[t] = tokens[t] /\ dbClock' = dbClock
          /\ tokens[t].user \notin Coming
      BY <1>2, <2>3, LoggedOutTokens, TokenEffects, Frame DEF Known
    <2>5. tokens[t].user \notin DOMAIN users \/ tokens[t].exp <= dbClock
      <3>1. CASE Admitted(q)
        BY <2>3, <3>1 DEF RevokedStaysOut, Payload
      <3>2. CASE ~Revoked(t)
        <4>1. t \in DOMAIN denylist \/ tokens[t].user \notin DOMAIN users
          BY <2>3 DEF Ended
        <4>2. tokens[t].exp \in Nat /\ dbClock \in Nat
          BY <2>4, SessionAssumption DEF Types, TypeOK, Tokens
        <4> QED
          BY <3>2, <4>1, <4>2 DEF Revoked, Denied
      <3> QED
        BY <2>1, <3>1, <3>2
    <2>6. tokens[t].user \notin DOMAIN users => tokens[t].user \notin DOMAIN users'
      BY <1>2, <2>4, GoneStays
    <2> QED
      BY <2>2, <2>4, <2>5, <2>6 DEF Payload
  <1> QED
    BY <1>1, <1>2 DEF Next, Act

\* A logout ends as it may: see the comment of the property in Sessions.
LEMMA IdempotentStep ==
  ASSUME Types, Known, Denied, LogoutIsIdempotent, [Next]_vars
  PROVE  LogoutIsIdempotent'
  <1>1. CASE Tick \/ UNCHANGED vars
    <2>1. UNCHANGED <<accountVars, tokens, subject, denylist, ended, changed>>
          /\ (clock' = clock \/ clock' = clock + 1)
      BY <1>1 DEF Tick, vars, sessionVars
    <2>2. ASSUME NEW r \in Requests, call[r].op = "logout", pc[r] = "401",
                 Payload(r).exp <= clock
          PROVE  Payload(r).exp <= clock'
      <3>1. Payload(r).exp \in Nat /\ clock \in Nat
        BY SMTT(20), <2>2, SessionAssumption DEF Payload, Types, TypeOK, Tokens, Routed, Public
      <3> QED
        BY <2>1, <2>2, <3>1
    <2> QED
      BY <2>1, <2>2 DEF LogoutIsIdempotent, Payload, accountVars
  <1>2. ASSUME NEW r \in Requests, Act(r) PROVE LogoutIsIdempotent'
    <2> SUFFICES
          ASSUME NEW q \in Requests, call'[q].op = "logout", pc'[q] \in Answers
          PROVE  \/ pc'[q] = "200"
                 \/ pc'[q] = "500" /\ faults' > 0
                 \/ pc'[q] = "400" /\ tokens'[call'[q].token].user \notin DOMAIN users'
                 \/ pc'[q] = "401"
                    /\ \/ tokens'[call'[q].token].exp <= clock'
                       \/ \E p \in Requests \ {q} : /\ call'[p].op = "logout"
                                                    /\ call'[p].token = call'[q].token
                                                    /\ pc'[p] \in {"200", "500"}
      BY DEF LogoutIsIdempotent, Payload
    <2>0. faults \in Nat /\ faults' \in Nat /\ faults' >= faults /\ clock' = clock
      BY <1>2, Effects, Frame, AccountAssumption DEF Types, TypeOK, AccountTypeOK
    <2>1. CASE q # r
      <3>1. call'[q] = call[q] /\ pc'[q] = pc[q]
        BY <1>2, <2>1, Frame
      <3>2. /\ call[q].token \in DOMAIN tokens /\ tokens[call[q].token].user \notin Coming
            /\ tokens'[call[q].token] = tokens[call[q].token]
        BY <1>2, <3>1, TokenEffects DEF Types, Routed, Public, Known, Answers
      <3>3. tokens[call[q].token].user \notin DOMAIN users
              => tokens[call[q].token].user \notin DOMAIN users'
        BY <1>2, <3>2, GoneStays
      <3>4. \A p \in Requests : pc[p] \in {"200", "500"} => pc'[p] = pc[p] /\ call'[p] = call[p]
        BY <1>2, Effects, Frame DEF Answers
      <3>5. \/ pc[q] = "200"
            \/ pc[q] = "500" /\ faults > 0
            \/ pc[q] = "400" /\ tokens[call[q].token].user \notin DOMAIN users
            \/ pc[q] = "401" /\ \/ tokens[call[q].token].exp <= clock
                                \/ \E p \in Requests \ {q} : /\ call[p].op = "logout"
                                                             /\ call[p].token = call[q].token
                                                             /\ pc[p] \in {"200", "500"}
        BY <3>1 DEF LogoutIsIdempotent, Payload
      <3>6. CASE pc[q] = "401"
        <4>1. CASE tokens[call[q].token].exp <= clock
          BY <2>0, <3>1, <3>2, <3>6, <4>1
        <4>2. CASE \E p \in Requests \ {q} : /\ call[p].op = "logout"
                                             /\ call[p].token = call[q].token
                                             /\ pc[p] \in {"200", "500"}
          <5>1. PICK p \in Requests \ {q} : /\ call[p].op = "logout"
                                            /\ call[p].token = call[q].token
                                            /\ pc[p] \in {"200", "500"}
            BY <4>2
          <5>2. call'[p] = call[p] /\ pc'[p] = pc[p]
            BY <3>4, <5>1
          <5> QED
            BY <3>1, <3>6, <5>1, <5>2
        <4> QED
          BY <3>5, <3>6, <4>1, <4>2
      <3>7. CASE pc[q] = "400" /\ tokens[call[q].token].user \notin DOMAIN users
        BY <3>1, <3>2, <3>3, <3>7
      <3>8. CASE pc[q] = "200" \/ (pc[q] = "500" /\ faults > 0)
        BY <2>0, <3>1, <3>8
      <3> QED
        BY <3>5, <3>6, <3>7, <3>8
    <2>2. CASE q = r /\ pc'[r] = "401" /\ Verify(r)
      <3>1. /\ ~(clock < Payload(r).exp) /\ call' = call /\ tokens' = tokens
            /\ pc[r] = "verify"
        BY <2>2 DEF Verify, goto, Types, TypeOK, sessionVars
      <3>2. Payload(r).exp \in Nat /\ clock \in Nat
        BY <3>1, <2>2, SessionAssumption DEF Payload, Types, TypeOK, Tokens, Routed, Public
      <3> QED
        BY <2>0, <2>2, <3>1, <3>2 DEF Payload
    <2>3. CASE q = r /\ pc'[r] = "401" /\ Validate(r) /\ Revoked(call[r].token)
      <3>1. pc[r] = "denylist" /\ call' = call
        BY <2>3 DEF Validate
      <3>2. PICK p \in Requests : /\ call[p].op = "logout" /\ call[p].token = call[r].token
                                  /\ pc[p] \in {"200", "500"}
        BY <2>3 DEF Revoked, Denied
      <3>3. p # r /\ pc'[p] = pc[p]
        BY <1>2, <3>1, <3>2, Frame
      <3> QED
        BY <2>3, <3>1, <3>2, <3>3
    <2>4. CASE q = r /\ pc'[r] \in {"200", "400"} /\ Revoke(r)
      <3>1. /\ call' = call /\ tokens' = tokens /\ users' = users
            /\ pc'[r] = "400" => Payload(r).user \notin DOMAIN users
        BY <2>4 DEF Revoke, Done, goto, Types, TypeOK
      <3> QED
        BY <2>4, <3>1 DEF Payload
    <2>5. CASE q = r /\ pc'[r] = "500" /\ faults' = faults + 1
      BY <2>0, <2>5
    <2> QED
      BY <1>2, <2>1, <2>2, <2>3, <2>4, <2>5, LogoutEffects DEF Answers
  <1> QED
    BY <1>1, <1>2 DEF Next, Act

\* RevokedStaysOut: what a logout answered holds for every later request.
THEOREM RevokedOut == Spec => []RevokedStaysOut
  <1> DEFINE Inv == Types /\ Known /\ Denied /\ Ended /\ RevokedStaysOut
  <1>1. Init => Inv
    BY InitTypes, InitKnown, NotNull
      DEF Init, AccountInit, Denied, Ended, LoggedOut, RevokedStaysOut, Admitted
  <1>2. Inv /\ [Next]_vars => Inv'
    BY TypesStep, KnownStep, DeniedStep, EndedStep, OutStep
  <1> QED
    BY <1>1, <1>2, PTL DEF Spec

\* Logout may be sent twice (INSERT ... ON CONFLICT DO NOTHING): the second is done again,
\* or refused because the first was done; only the loss of its user makes it a bad request.
THEOREM LogoutRepeats == Spec => []LogoutIsIdempotent
  <1> DEFINE Inv == Types /\ Known /\ Denied /\ LogoutIsIdempotent
  <1>1. Init => Inv
    BY InitTypes, InitKnown, NotNull
      DEF Init, AccountInit, Denied, LogoutIsIdempotent, Answers
  <1>2. Inv /\ [Next]_vars => Inv'
    BY TypesStep, KnownStep, DeniedStep, IdempotentStep
  <1> QED
    BY <1>1, <1>2, PTL DEF Spec

-----------------------------------------------------------------------------
\* No token outlives its time, and a login under way whose role is out of date is one
\* that the change overtook.
Fresh ==
  /\ \A t \in DOMAIN tokens : tokens[t].exp <= clock + TTL
  /\ \A r \in Requests : pc[r] \in {"compare", "sign"} /\ before[r] # Null =>
       \/ subject[r] \in DOMAIN users /\ users[subject[r]].role = before[r].role
       \/ r \in changed[subject[r]].logins

\* A user whose role changes, or who goes, is noted at the time of it, with the logins
\* that have looked the user up.
LEMMA Noted ==
  ASSUME Types, Known, NEW r \in Requests, Act(r), NEW u \in UserIds
  PROVE  \/ /\ changed'[u] = changed[u]
            /\ u \in DOMAIN users =>
                 u \in DOMAIN users' /\ users'[u].role = users[u].role
         \/ /\ changed'[u].at = clock /\ changed[u].logins \subseteq changed'[u].logins
            /\ \A q \in Requests : pc[q] \in {"compare", "sign"} /\ subject[q] = u
                 => q \in changed'[u].logins
  <1>1. CASE ChangeUser(r) \/ ForgetUser(r)
    <2>1. NoteChange
      BY <1>1 DEF ChangeUser, ForgetUser
    <2>2. CASE u \in DOMAIN users /\ (u \in DOMAIN users' => users'[u].role # users[u].role)
      <3>1. changed'[u] =
              [at |-> clock, logins |-> changed[u].logins \cup
                {q \in Requests : pc[q] \in {"compare", "sign"} /\ subject[q] = u}]
        BY <2>1, <2>2 DEF NoteChange
      <3> QED
        BY <3>1
    <2>3. CASE ~(u \in DOMAIN users /\ (u \in DOMAIN users' => users'[u].role # users[u].role))
      <3>1. changed'[u] = changed[u]
        BY <2>1, <2>3 DEF NoteChange
      <3> QED
        BY <2>3, <3>1
    <2> QED
      BY <2>2, <2>3
  <1>2. CASE InsertUser(r) /\ changed' = changed
    <2>1. u # r => (u \in DOMAIN users => u \in DOMAIN users' /\ users'[u] = users[u])
      BY <1>2 DEF InsertUser, Put
    <2>2. r \notin DOMAIN users
      BY <1>2 DEF InsertUser, Known, Coming
    <2> QED
      BY <1>2, <2>1, <2>2
  <1>3. CASE users' = users /\ changed' = changed
    BY <1>3
  <1> QED
    BY <1>1, <1>2, <1>3, Effects

LEMMA FreshStep ==
  ASSUME Types, Known, Fresh, [Next]_vars
  PROVE  Fresh'
  <1>0. /\ clock \in Nat /\ TTL \in Nat
        /\ \A t \in DOMAIN tokens : tokens[t].exp \in Nat
    BY SessionAssumption DEF Types, TypeOK, Tokens
  <1>1. CASE Tick \/ UNCHANGED vars
    <2>1. UNCHANGED <<accountVars, tokens, subject, changed>>
          /\ (clock' = clock \/ clock' = clock + 1)
      BY <1>1 DEF Tick, vars, sessionVars
    <2> QED
      BY <1>0, <2>1 DEF Fresh, accountVars
  <1>2. ASSUME NEW r \in Requests, Act(r) PROVE Fresh'
    <2>0. clock' = clock
      BY <1>2, Frame
    <2>1. ASSUME NEW t \in DOMAIN tokens' PROVE tokens'[t].exp <= clock' + TTL
      <3>1. CASE t \in DOMAIN tokens
        BY <1>2, <2>0, <3>1, TokenEffects DEF Fresh
      <3>2. CASE t \notin DOMAIN tokens
        <4>1. t = r /\ tokens'[r] = [user |-> subject[r], role |-> before[r].role,
                                     exp |-> clock + TTL]
          BY <1>2, <2>1, <3>2, TokenEffects
        <4> QED
          BY <1>0, <2>0, <4>1
      <3> QED
        BY <3>1, <3>2
    <2>2. ASSUME NEW q \in Requests, pc'[q] \in {"compare", "sign"}, before'[q] # Null
          PROVE  \/ subject'[q] \in DOMAIN users' /\ users'[subject'[q]].role = before'[q].role
                 \/ q \in changed'[subject'[q]].logins
      <3>1. CASE pc[q] \in {"compare", "sign"} /\ before'[q] = before[q] /\ subject'[q] = subject[q]
        <4>1. subject[q] \in UserIds
          BY <2>2, <3>1 DEF Types, Progress
        <4> QED
          BY <1>2, <2>2, <3>1, <4>1, Noted DEF Fresh
      <3>2. CASE q = r /\ Lookup(r)
        <4>1. before[r] = Null /\ users' = users
          BY <3>2 DEF Lookup, Types, Progress
        <4>2. PICK u \in DOMAIN users : /\ before' = [before EXCEPT ![r] = users[u]]
                                        /\ subject' = [subject EXCEPT ![r] = u]
          BY <2>2, <3>2, <4>1 DEF Lookup
        <4>3. subject'[r] = u /\ before'[r] = users[u]
          BY <4>2 DEF Types, TypeOK, Shape
        <4> QED
          BY <3>2, <4>1, <4>3
      <3>3. CASE q = r /\ Compare(r)
        BY <3>1, <3>3 DEF Compare, sessionVars
      <3>4. CASE q # r
        BY <1>2, <2>2, <3>1, <3>4, Frame
      <3> QED
        BY <1>2, <2>2, <3>2, <3>3, <3>4, Effects
    <2> QED
      BY <2>1, <2>2 DEF Fresh
  <1> QED
    BY <1>1, <1>2 DEF Next, Act

LEMMA StaleStep ==
  ASSUME Types, Known, Fresh, StaleRoleExpires, [Next]_vars
  PROVE  StaleRoleExpires'
  <1>0. /\ clock \in Nat /\ TTL \in Nat
        /\ \A t \in DOMAIN tokens : tokens[t].exp \in Nat /\ tokens[t].user \in UserIds
    BY SessionAssumption DEF Types, TypeOK, Tokens
  <1>1. CASE Tick \/ UNCHANGED vars
    BY <1>1 DEF Tick, vars, accountVars, sessionVars, StaleRoleExpires
  <1>2. ASSUME NEW r \in Requests, Act(r) PROVE StaleRoleExpires'
    <2> SUFFICES
          ASSUME NEW t \in DOMAIN tokens',
                 tokens'[t].user \in DOMAIN users'
                   => users'[tokens'[t].user].role # tokens'[t].role
          PROVE  \/ tokens'[t].exp <= changed'[tokens'[t].user].at + TTL
                 \/ t \in changed'[tokens'[t].user].logins
      BY DEF StaleRoleExpires
    <2>1. CASE t \in DOMAIN tokens
      <3>1. tokens'[t] = tokens[t] /\ tokens[t].user \in UserIds
        BY <1>0, <1>2, <2>1, TokenEffects
      <3>2. CASE changed'[tokens[t].user].at = clock
        BY <2>1, <3>1, <3>2 DEF Fresh
      <3>3. CASE /\ changed'[tokens[t].user] = changed[tokens[t].user]
                 /\ tokens[t].user \in DOMAIN users =>
                      /\ tokens[t].user \in DOMAIN users'
                      /\ users'[tokens[t].user].role = users[tokens[t].user].role
        BY <2>1, <3>1, <3>3 DEF StaleRoleExpires
      <3> QED
        BY <1>2, <3>1, <3>2, <3>3, Noted
    <2>2. CASE t \notin DOMAIN tokens
      <3>1. t = r /\ Sign(r) /\ tokens'[r] = [user |-> subject[r], role |-> before[r].role,
                                              exp |-> clock + TTL]
        <4>1. /\ Sign(r) /\ DOMAIN tokens' = DOMAIN tokens \cup {r}
              /\ tokens'[r] = [user |-> subject[r], role |-> before[r].role,
                               exp |-> clock + TTL]
          BY <1>2, <2>2, TokenEffects
        <4> QED
          BY <2>2, <4>1
      <3>2. pc[r] = "sign" /\ users' = users /\ changed' = changed
        BY <3>1 DEF Sign
      <3>3. tokens'[r].user = subject[r] /\ tokens'[r].role = before[r].role
        BY <3>1
      <3>4. before[r] # Null
        BY <3>2 DEF Types, Progress
      <3> QED
        BY <3>1, <3>2, <3>3, <3>4 DEF Fresh
    <2> QED
      BY <2>1, <2>2
  <1> QED
    BY <1>1, <1>2 DEF Next, Act

\* The role in a token may be out of date, or its user gone, for as long as a token
\* lives and no longer, unless its login was under way when the user changed (login
\* reads the user once, JwtStrategy takes the role from the token).
THEOREM StaleRolesEnd == Spec => []StaleRoleExpires
  <1> DEFINE Inv == Types /\ Known /\ Fresh /\ StaleRoleExpires
  <1>1. Init => Inv
    BY InitTypes, InitKnown, SessionAssumption
      DEF Init, AccountInit, Fresh, StaleRoleExpires, Tokens
  <1>2. Inv /\ [Next]_vars => Inv'
    BY TypesStep, KnownStep, FreshStep, StaleStep
  <1> QED
    BY <1>1, <1>2, PTL DEF Spec

-----------------------------------------------------------------------------
\* The UPDATE of a user, its entry, and the requests it overtakes.
Rewrites(r) ==
  LET u == call[r].user
  IN  /\ pc[r] = "update" /\ u \in DOMAIN users /\ pc'[r] \in {"log", "500"}
      /\ users' = [users EXCEPT ![u] = Set(users[u], call[r].sent)]
      /\ entry' = [entry EXCEPT ![r] = [action |-> "UPDATE", user |-> u, by |-> r,
                                        diff |-> Diff(before[r], users'[u], Fields)]]
      /\ overlap' = [q \in Requests |->
                       IF q # r /\ pc[q] = "update" /\ call[q].user = u
                       THEN overlap[q] \cup {r} ELSE overlap[q]]

\* What a step of r writes down of what it does: entries are written once, and none but
\* an UPDATE notes an overlap.
LEMMA NoteEffects ==
  ASSUME Types, NEW r \in Requests, Act(r)
  PROVE  \/ Rewrites(r)
         \/ /\ overlap' = overlap
            /\ entry'[r] = entry[r] \/ (entry[r] = Null /\ entry'[r].action \in {"CREATE", "DELETE"})
            /\ pc'[r] = "update" => /\ pc[r] = "find" /\ call[r].user \in DOMAIN users
                                    /\ before'[r] = users[call[r].user] /\ users' = users
            /\ pc'[r] = "log" => pc[r] \in {"insert", "update", "delete"}
            /\ \A u \in DOMAIN users' : \/ u \in DOMAIN users /\ users'[u] = users[u]
                                        \/ u = r /\ pc[r] = "insert" /\ users'[r] = call[r].row
  <1> USE DEF Types, TypeOK, goto, Done, Shape
  <1>a. \A e : entry' = [entry EXCEPT ![r] = e] => entry'[r] = e
    OBVIOUS
  <1>1. CASE InsertUser(r)
    <2> DEFINE e == [action |-> "CREATE", user |-> r, by |-> r]
    <2>1. pc[r] = "insert" /\ overlap' = overlap /\ (entry' = entry \/ entry' = [entry EXCEPT ![r] = e])
          /\ pc'[r] \in {"409", "log", "500"}
          /\ (users' = users \/ users' = Put(users, r, call[r].row))
      BY <1>1 DEF InsertUser
    <2>2. e.action = "CREATE"
      OBVIOUS
    <2>3. entry[r] = Null
      BY <2>1 DEF Progress, Answers
    <2> HIDE DEF e
    <2>4. entry'[r] = entry[r] \/ (entry[r] = Null /\ entry'[r].action \in {"CREATE", "DELETE"})
      BY <1>a, <2>1, <2>2, <2>3
    <2> QED
      BY <2>1, <2>4 DEF Put
  <1>2. CASE ForgetUser(r)
    <2> DEFINE e == [action |-> "DELETE", user |-> call[r].user, by |-> r]
    <2>1. pc[r] = "delete" /\ overlap' = overlap /\ (entry' = entry \/ entry' = [entry EXCEPT ![r] = e])
          /\ pc'[r] \in {"400", "404", "log", "500"}
          /\ (users' = users \/ users' = Restrict(users, DOMAIN users \ {call[r].user}))
      BY <1>2 DEF ForgetUser, DeleteUser
    <2>2. e.action = "DELETE"
      OBVIOUS
    <2>3. entry[r] = Null
      BY <2>1 DEF Progress, Answers
    <2> HIDE DEF e
    <2>4. entry'[r] = entry[r] \/ (entry[r] = Null /\ entry'[r].action \in {"CREATE", "DELETE"})
      BY <1>a, <2>1, <2>2, <2>3
    <2> QED
      BY <2>1, <2>4 DEF Restrict
  <1>3. CASE ChangeUser(r)
    BY <1>3 DEF ChangeUser, UpdateUser, Rewrites
  <1>4. CASE UserStep(r) /\ ~InsertUser(r)
    BY <1>4 DEF UserStep, FindByName, FindUser, LogEntry, Abort
  <1>5. CASE Validate(r)
    <2>1. call[r] \in Calls /\ call[r].op \in Ops \ Public
      BY <1>5, SessionAssumption DEF Validate, Routed
    <2>2. Handler(call[r]) \in {"revoke", "roles", "400", "find"}
      BY <2>1 DEF Handler, Ops, Public
    <2> QED
      BY <1>5, <2>2 DEF Validate
  <1>6. CASE Receive(r) \/ Lookup(r) \/ Compare(r) \/ Sign(r) \/ Verify(r) \/ CheckRoles(r) \/ Revoke(r)
    BY <1>6 DEF Receive, Lookup, Compare, Sign, Verify, CheckRoles, Revoke
  <1> QED
    BY <1>1, <1>2, <1>3, <1>4, <1>5, <1>6 DEF Act, SessionStep

\* What an UPDATE writes, in the table and in the entry.
LEMMA RewriteFacts ==
  ASSUME Types, NEW r \in Requests, Act(r), Rewrites(r), NEW u, u = call[r].user
  PROVE  /\ entry[r] = Null /\ entry'[r] # Null
         /\ entry'[r].action = "UPDATE" /\ entry'[r].user = u /\ entry'[r].by = r
         /\ \A f \in DOMAIN entry'[r].diff :
              f \in Fields /\ before[r][f] # users'[u][f] /\ entry'[r].diff[f].to = users'[u][f]
         /\ \A f \in Fields : f \notin DOMAIN entry'[r].diff => before[r][f] = users'[u][f]
         /\ DOMAIN users' = DOMAIN users /\ \A v \in DOMAIN users : v # u => users'[v] = users[v]
         /\ \A f \in Fields :
              users'[u][f] = IF f \in DOMAIN call[r].sent THEN call[r].sent[f] ELSE users[u][f]
         /\ call' = call
  <1> DEFINE e == [action |-> "UPDATE", user |-> u, by |-> r,
                   diff |-> Diff(before[r], users'[u], Fields)]
  <1>1. /\ pc[r] = "update" /\ u \in DOMAIN users
        /\ users' = [users EXCEPT ![u] = Set(users[u], call[r].sent)]
        /\ entry' = [entry EXCEPT ![r] = e]
    BY DEF Rewrites
  <1>2. e.action = "UPDATE" /\ e.user = u /\ e.by = r /\ e.diff = Diff(before[r], users'[u], Fields)
    OBVIOUS
  <1>3. e # Null
    BY NotNull
  <1> HIDE DEF e
  <1>4. entry'[r] = e
    BY <1>1 DEF Types, Shape
  <1>5. entry[r] = Null /\ call' = call
    BY <1>1, Frame DEF Types, Progress, Answers
  <1>6. UserRow(users[u])
    BY <1>1 DEF Types, TypeOK, AccountTypeOK
  <1>7. \A f \in Fields :
          users'[u][f] = IF f \in DOMAIN call[r].sent THEN call[r].sent[f] ELSE users[u][f]
    BY <1>1, <1>6 DEF Set, UserRow, Fields
  <1>8. /\ \A f \in DOMAIN e.diff :
             f \in Fields /\ before[r][f] # users'[u][f] /\ e.diff[f].to = users'[u][f]
        /\ \A f \in Fields : f \notin DOMAIN e.diff => before[r][f] = users'[u][f]
    <2> DEFINE d == Diff(before[r], users'[u], Fields)
    <2>1. /\ DOMAIN d = {f \in Fields : before[r][f] # users'[u][f]}
          /\ \A f \in DOMAIN d : d[f].to = users'[u][f]
      BY DEF Diff
    <2> HIDE DEF d
    <2>2. e.diff = d
      BY <1>2 DEF d
    <2> QED
      BY <2>1, <2>2
  <1> QED
    BY <1>1, <1>2, <1>3, <1>4, <1>5, <1>7, <1>8

LEMMA LogGrows ==
  ASSUME Types, NEW r \in Requests, Act(r)
  PROVE  log \subseteq log'
  <1>1. CASE UserStep(r)
    BY <1>1 DEF UserStep, FindByName, InsertUser, FindUser, LogEntry, Abort
  <1>2. CASE SessionStep(r)
    BY <1>2 DEF SessionStep, Receive, Lookup, Compare, Sign, Verify, Validate, CheckRoles,
                Revoke, ChangeUser, UpdateUser, ForgetUser, DeleteUser
  <1> QED
    BY <1>1, <1>2 DEF Act

\* What one of the requests in rs sent for field f.
SentBy(rs, f, v) == \E q \in rs : f \in DOMAIN call[q].sent /\ call[q].sent[f] = v

\* Requests that stand between their read and their write.
Reading ==
  /\ \A r \in Requests : \A q \in overlap[r] : pc[q] # "new"
  /\ \A r \in Requests : pc[r] = "update" =>
       /\ call[r].user \notin Coming
       /\ call[r].user \in DOMAIN users => \A f \in Fields :
            users[call[r].user][f] = before[r][f] \/ SentBy(overlap[r], f, users[call[r].user][f])

\* Requests whose UPDATE is done.
Wrote(r) == entry[r] # Null /\ entry[r].action = "UPDATE"

Written ==
  \A r \in Requests : Wrote(r) =>
    /\ call[r].op = "update" /\ pc[r] \in {"log", "200", "500"}
    /\ entry[r].by = r /\ entry[r].user = call[r].user
    /\ \A f \in DOMAIN entry[r].diff :
         IF f \in DOMAIN call[r].sent THEN entry[r].diff[f].to = call[r].sent[f]
                                      ELSE SentBy(overlap[r], f, entry[r].diff[f].to)

\* What was sent stays known, and an overlap only grows.
LEMMA SentStays ==
  ASSUME Types, Reading, NEW r \in Requests, Act(r), NEW q \in Requests, NEW f, NEW v,
         SentBy(overlap[q], f, v)
  PROVE  SentBy(overlap[q], f, v)'
  <1>1. PICK p \in overlap[q] : f \in DOMAIN call[p].sent /\ call[p].sent[f] = v
    BY DEF SentBy
  <1>2. p \in Requests /\ pc[p] # "new"
    BY <1>1 DEF Reading, Types, TypeOK, AccountTypeOK
  <1>3. call'[p] = call[p]
    BY <1>2, Frame
  <1>4. p \in overlap'[q]
    BY <1>1, NoteEffects DEF Rewrites
  <1> QED
    BY <1>1, <1>3, <1>4 DEF SentBy

LEMMA ReadingStep ==
  ASSUME Types, Known, Reading, [Next]_vars
  PROVE  Reading'
  <1>1. CASE Tick \/ UNCHANGED vars
    BY <1>1 DEF Tick, vars, accountVars, Reading, SentBy, Coming
  <1>2. ASSUME NEW r \in Requests, Act(r) PROVE Reading'
    <2>0. overlap \in [Requests -> SUBSET Requests]
      BY DEF Types, TypeOK, AccountTypeOK
    <2>1. ASSUME NEW q \in Requests, NEW p \in overlap'[q] PROVE pc'[p] # "new"
      <3>1. p \in overlap[q] \/ (p = r /\ pc'[r] \in {"log", "500"})
        BY <1>2, <2>0, <2>1, NoteEffects DEF Rewrites
      <3>2. CASE p \in overlap[q]
        BY <1>2, <2>0, <3>2, Frame, Effects DEF Reading
      <3> QED
        BY <3>1, <3>2
    <2>2. ASSUME NEW q \in Requests, pc'[q] = "update",
                 NEW u, u = call'[q].user
          PROVE  u \notin Coming' /\ (u \in DOMAIN users' => \A f \in Fields :
                   users'[u][f] = before'[q][f] \/ SentBy(overlap[q], f, users[u][f])'
                   \/ (f \in DOMAIN call[r].sent /\ r \in overlap'[q]
                        /\ call[r].sent[f] = users'[u][f] /\ call'[r] = call[r]))
      <3>1. CASE q # r /\ Rewrites(r)
        <4>1. pc[q] = "update" /\ call[q].user = u /\ before'[q] = before[q]
          BY <1>2, <2>2, <3>1, Frame
        <4>2. CASE call[r].user = u
          <5>1. r \in overlap'[q]
            BY <3>1, <4>1, <4>2 DEF Rewrites
          <5>2. ASSUME NEW f \in Fields, f \notin DOMAIN call[r].sent, u \in DOMAIN users
                PROVE  users'[u][f] = before'[q][f] \/ SentBy(overlap[q], f, users[u][f])'
            <6>1. users'[u][f] = users[u][f]
              BY <1>2, <3>1, <4>2, <5>2, RewriteFacts
            <6>2. users[u][f] = before[q][f] \/ SentBy(overlap[q], f, users[u][f])
              BY <4>1, <5>2 DEF Reading
            <6> QED
              BY <1>2, <4>1, <6>1, <6>2, SentStays DEF SentBy
          <5> QED
            BY <1>2, <3>1, <4>1, <4>2, <5>1, <5>2, RewriteFacts, ComingShrinks DEF Reading
        <4>3. CASE call[r].user # u
          <5>1. u \in DOMAIN users' => u \in DOMAIN users /\ users'[u] = users[u]
            BY <1>2, <3>1, <4>3, RewriteFacts
          <5>2. ASSUME NEW f \in Fields, u \in DOMAIN users'
                PROVE  users'[u][f] = before'[q][f] \/ SentBy(overlap[q], f, users[u][f])'
            <6>2. users[u][f] = before[q][f] \/ SentBy(overlap[q], f, users[u][f])
              BY <4>1, <5>1, <5>2 DEF Reading
            <6> QED
              BY <1>2, <4>1, <5>1, <5>2, <6>2, SentStays DEF SentBy
          <5> QED
            BY <1>2, <4>1, <5>2, ComingShrinks DEF Reading
        <4> QED
          BY <4>2, <4>3
      <3>2. CASE q # r /\ ~Rewrites(r)
        <4>1. pc[q] = "update" /\ call[q].user = u /\ before'[q] = before[q] /\ u \notin Coming
          BY <1>2, <2>2, <3>2, Frame DEF Reading
        <4>2. u \in DOMAIN users' => u \in DOMAIN users /\ users'[u] = users[u]
          BY <1>2, <3>2, <4>1, NoteEffects DEF Coming
        <4>3. ASSUME NEW f \in Fields, u \in DOMAIN users'
              PROVE  users'[u][f] = before'[q][f] \/ SentBy(overlap[q], f, users[u][f])'
          <5>1. users[u][f] = before[q][f] \/ SentBy(overlap[q], f, users[u][f])
            BY <4>1, <4>2, <4>3 DEF Reading
          <5> QED
            BY <1>2, <4>1, <4>2, <4>3, <5>1, SentStays DEF SentBy
        <4> QED
          BY <1>2, <4>1, <4>3, ComingShrinks
      <3>3. CASE q = r
        <4>1. /\ pc[r] = "find" /\ call[r].user \in DOMAIN users
              /\ before'[r] = users[call[r].user] /\ users' = users
          BY <1>2, <2>2, <3>3, NoteEffects DEF Rewrites
        <4>2. call'[r] = call[r] /\ u \in DOMAIN users /\ u \notin Coming
          BY <1>2, <2>2, <3>3, <4>1, Frame DEF Known
        <4> QED
          BY <1>2, <2>2, <3>3, <4>1, <4>2, ComingShrinks
      <3> QED
        BY <3>1, <3>2, <3>3
    <2>3. ASSUME NEW q \in Requests, pc'[q] = "update"
          PROVE  /\ call'[q].user \notin Coming'
                 /\ call'[q].user \in DOMAIN users' => \A f \in Fields :
                      \/ users'[call'[q].user][f] = before'[q][f]
                      \/ SentBy(overlap[q], f, users[call[q].user][f])'
      BY <2>2, <2>3 DEF SentBy
    <2> QED
      BY <2>1, <2>3 DEF Reading
  <1> QED
    BY <1>1, <1>2 DEF Next, Act

LEMMA OnlyLogs ==
  ASSUME Types, NEW r \in Requests, Act(r), pc[r] = "log"
  PROVE  LogEntry(r)
  <1>1. ~SessionStep(r)
    BY DEF SessionStep, Receive, Lookup, Compare, Sign, Verify, Validate, CheckRoles,
           Revoke, ChangeUser, UpdateUser, ForgetUser, DeleteUser
  <1> QED
    BY <1>1 DEF Act, UserStep, FindByName, InsertUser, FindUser, Abort, Catching

LEMMA WrittenStep ==
  ASSUME Types, Known, Reading, Written, [Next]_vars
  PROVE  Written'
  <1>1. CASE Tick \/ UNCHANGED vars
    BY <1>1 DEF Tick, vars, accountVars, Written, Wrote, SentBy
  <1>2. ASSUME NEW r \in Requests, Act(r) PROVE Written'
    <2> SUFFICES ASSUME NEW q \in Requests, Wrote(q)'
                 PROVE  /\ call'[q].op = "update" /\ pc'[q] \in {"log", "200", "500"}
                        /\ entry'[q].by = q /\ entry'[q].user = call'[q].user
                        /\ \A f \in DOMAIN entry'[q].diff :
                             IF f \in DOMAIN call'[q].sent
                             THEN entry'[q].diff[f].to = call'[q].sent[f]
                             ELSE SentBy(overlap[q], f, entry[q].diff[f].to)'
      BY DEF Written
    <2>1. CASE q = r /\ Rewrites(r)
      <3>0. pc[r] = "update" /\ pc'[r] \in {"log", "500"} /\ call[r].op = "update"
            /\ call[r].user \in DOMAIN users
        BY <2>1 DEF Rewrites, Types, Routed
      <3>1. ASSUME NEW f \in DOMAIN entry'[r].diff
            PROVE  IF f \in DOMAIN call[r].sent
                   THEN entry'[r].diff[f].to = call[r].sent[f]
                   ELSE SentBy(overlap[r], f, entry[r].diff[f].to)'
        <4>1. /\ f \in Fields /\ before[r][f] # users'[call[r].user][f]
              /\ entry'[r].diff[f].to = users'[call[r].user][f]
              /\ users'[call[r].user][f] =
                   IF f \in DOMAIN call[r].sent THEN call[r].sent[f] ELSE users[call[r].user][f]
          BY <1>2, <2>1, <3>1, RewriteFacts
        <4>2. CASE f \notin DOMAIN call[r].sent
          <5>1. SentBy(overlap[r], f, users[call[r].user][f])
            BY <3>0, <4>1, <4>2 DEF Reading
          <5>2. ASSUME NEW v, v = users[call[r].user][f] PROVE SentBy(overlap[r], f, v)'
            BY <1>2, <5>1, <5>2, SentStays
          <5>3. entry'[r].diff[f].to = users[call[r].user][f]
            BY <4>1, <4>2
          <5> QED
            BY <4>2, <5>2, <5>3 DEF SentBy
        <4> QED
          BY <4>1, <4>2
      <3> QED
        BY <1>2, <2>1, <3>0, <3>1, RewriteFacts
    <2>2. CASE ~(q = r /\ Rewrites(r))
      <3>1. Wrote(q) /\ entry'[q] = entry[q]
        BY <1>2, <2>2, Frame, NoteEffects DEF Wrote
      <3>2. pc[q] \in {"log", "200", "500"}
        BY <3>1 DEF Written
      <3>3. call'[q] = call[q] /\ pc'[q] \in {"log", "200", "500"}
        <4>1. CASE q # r
          BY <1>2, <3>2, <4>1, Frame
        <4>2. CASE q = r
          <5>1. pc[r] = "log"
            BY <1>2, <3>2, <4>2, Effects DEF Answers
          <5>2. LogEntry(r)
            BY <1>2, <5>1, OnlyLogs
          <5> QED
            BY <3>2, <4>2, <5>2 DEF LogEntry, goto, Types, TypeOK
        <4> QED
          BY <4>1, <4>2
      <3>4. \A f \in DOMAIN entry[q].diff :
              f \notin DOMAIN call[q].sent => SentBy(overlap[q], f, entry[q].diff[f].to)'
        <4> SUFFICES ASSUME NEW f \in DOMAIN entry[q].diff, f \notin DOMAIN call[q].sent
                     PROVE  SentBy(overlap[q], f, entry[q].diff[f].to)'
          OBVIOUS
        <4>1. SentBy(overlap[q], f, entry[q].diff[f].to)
          BY <3>1 DEF Written
        <4> QED
          BY <1>2, <3>1, <4>1, SentStays DEF SentBy
      <3> QED
        BY <3>1, <3>3, <3>4 DEF Written
    <2> QED
      BY <2>1, <2>2
  <1> QED
    BY <1>1, <1>2 DEF Next, Act

\* DiffsBlameOverlaps: the diff of an update is against the row it read, a statement
\* before the one that writes (update, diffMetadata); what others changed in between is
\* all that it can show besides what was asked.
THEOREM DiffsAreHonest == Spec => []DiffsBlameOverlaps
  <1> DEFINE Inv == Types /\ Known /\ Reading /\ Written
  <1>1. Init => Inv
    BY InitTypes, InitKnown DEF Init, AccountInit, Reading, Written, Wrote
  <1>2. Inv /\ [Next]_vars => Inv'
    BY TypesStep, KnownStep, ReadingStep, WrittenStep
  <1>3. Inv => DiffsBlameOverlaps
    <2> SUFFICES ASSUME Inv, NEW e \in UpdateEntries, NEW f \in DOMAIN e.diff
                 PROVE  \/ f \in DOMAIN call[e.by].sent /\ e.diff[f].to = call[e.by].sent[f]
                        \/ SentBy(overlap[e.by], f, e.diff[f].to)
      BY DEF DiffsBlameOverlaps, SentBy
    <2>1. PICK r \in Requests : entry[r] = e /\ entry[r] # Null
      BY DEF UpdateEntries, Types, TypeOK
    <2> QED
      BY <2>1 DEF Written, Wrote, UpdateEntries
  <1> QED
    BY <1>1, <1>2, <1>3, PTL DEF Spec

-----------------------------------------------------------------------------
\* How v came to be in field f of u: it was there from the start, an entry of the log
\* shows it, or a request has it in an entry that is not written (yet).
Explained(u, f, v) ==
  \/ v = Original(u)[f]
  \/ \E e \in UpdateEntries : e.user = u /\ f \in DOMAIN e.diff /\ e.diff[f].to = v
  \/ \E r \in Requests : /\ Wrote(r) /\ call[r].user = u
                         /\ f \in DOMAIN entry[r].diff /\ f \in DOMAIN call[r].sent
                         /\ call[r].sent[f] = v

Accounted ==
  /\ \A u \in DOMAIN users : \A f \in Fields : Explained(u, f, users[u][f])
  /\ \A r \in Requests : pc[r] = "update" =>
       \A f \in Fields : Explained(call[r].user, f, before[r][f])

LEMMA ExplainedStays ==
  ASSUME Types, Written, NEW r \in Requests, Act(r), NEW u, u \notin Coming, NEW f, NEW v,
         Explained(u, f, v)
  PROVE  Explained(u, f, v)'
  <1>1. CASE v = Original(u)[f]
    <2>1. u \in Requests => call'[u] = call[u]
      BY Frame DEF Coming
    <2> QED
      BY <1>1, <2>1 DEF Explained, Original
  <1>2. CASE \E e \in UpdateEntries : e.user = u /\ f \in DOMAIN e.diff /\ e.diff[f].to = v
    BY <1>2, LogGrows DEF Explained, UpdateEntries
  <1>3. ASSUME NEW q \in Requests, Wrote(q), call[q].user = u, f \in DOMAIN entry[q].diff,
               f \in DOMAIN call[q].sent, call[q].sent[f] = v
        PROVE  Explained(u, f, v)'
    <2>1. entry'[q] = entry[q]
      BY <1>3, Frame, NoteEffects, RewriteFacts DEF Wrote
    <2>2. call'[q] = call[q]
      BY <1>3, Frame DEF Written
    <2> QED
      BY <1>3, <2>1, <2>2 DEF Explained, Wrote
  <1> QED
    BY <1>1, <1>2, <1>3 DEF Explained

LEMMA AccountedStep ==
  ASSUME Types, Known, Reading, Written, Accounted, [Next]_vars
  PROVE  Accounted'
  <1>1. CASE Tick \/ UNCHANGED vars
    BY <1>1 DEF Tick, vars, accountVars, Accounted, Explained, Original, UpdateEntries, Wrote
  <1>2. ASSUME NEW r \in Requests, Act(r) PROVE Accounted'
    <2>1. ASSUME NEW u \in DOMAIN users, NEW f \in Fields
          PROVE  Explained(u, f, users[u][f]) /\ u \notin Coming
      BY <2>1 DEF Accounted, Known
    <2>2. ASSUME NEW u \in DOMAIN users', NEW f \in Fields, NEW v, v = users'[u][f]
          PROVE  Explained(u, f, v)'
      <3>1. CASE Rewrites(r) /\ u = call[r].user
        <4>0. u \in DOMAIN users /\ pc[r] = "update" /\ u \notin Coming
          BY <3>1 DEF Rewrites, Known
        <4>1. /\ users'[u][f] = IF f \in DOMAIN call[r].sent THEN call[r].sent[f] ELSE users[u][f]
              /\ call' = call
          BY <1>2, <3>1, RewriteFacts
        <4>2. CASE f \notin DOMAIN entry'[r].diff
          <5>1. users'[u][f] = before[r][f]
            BY <1>2, <3>1, <4>2, RewriteFacts
          <5>2. Explained(u, f, v)
            BY <2>2, <3>1, <4>0, <5>1 DEF Accounted
          <5> QED
            BY <1>2, <4>0, <5>2, ExplainedStays
        <4>3. CASE f \in DOMAIN entry'[r].diff /\ f \in DOMAIN call[r].sent
          <5>1. Wrote(r)'
            BY <1>2, <3>1, RewriteFacts DEF Wrote
          <5> QED
            BY <2>2, <3>1, <4>1, <4>3, <5>1 DEF Explained
        <4>4. CASE f \notin DOMAIN call[r].sent
          <5>1. Explained(u, f, v)
            BY <2>1, <2>2, <4>0, <4>1, <4>4
          <5> QED
            BY <1>2, <4>0, <5>1, ExplainedStays
        <4> QED
          BY <4>2, <4>3, <4>4
      <3>2. CASE u \in DOMAIN users /\ users'[u] = users[u]
        <4>1. Explained(u, f, v) /\ u \notin Coming
          BY <2>1, <2>2, <3>2
        <4> QED
          BY <1>2, <4>1, ExplainedStays
      <3>3. CASE u = r /\ pc[r] = "insert" /\ users'[r] = call[r].row
        <4>1. call' = call
          BY <1>2, <3>3, Frame
        <4> QED
          BY <2>2, <3>3, <4>1 DEF Explained, Original
      <3> QED
        BY <1>2, <2>2, <3>1, <3>2, <3>3, NoteEffects, RewriteFacts
    <2>3. ASSUME NEW q \in Requests, pc'[q] = "update", NEW f \in Fields,
                 NEW u, u = call'[q].user, NEW v, v = before'[q][f]
          PROVE  Explained(u, f, v)'
      <3>1. CASE q # r
        <4>1. pc[q] = "update" /\ call'[q] = call[q] /\ before'[q] = before[q]
          BY <1>2, <2>3, <3>1, Frame
        <4>2. Explained(u, f, v) /\ u \notin Coming
          BY <2>3, <4>1 DEF Accounted, Reading
        <4> QED
          BY <1>2, <4>2, ExplainedStays
      <3>2. CASE q = r
        <4>1. /\ pc[r] = "find" /\ call[r].user \in DOMAIN users
              /\ before'[r] = users[call[r].user]
          BY <1>2, <2>3, <3>2, NoteEffects DEF Rewrites
        <4>2. call' = call
          BY <1>2, <4>1, Frame
        <4>3. Explained(u, f, v) /\ u \notin Coming
          BY <2>1, <2>3, <3>2, <4>1, <4>2
        <4> QED
          BY <1>2, <4>3, ExplainedStays
      <3> QED
        BY <3>1, <3>2
    <2> QED
      BY <2>2, <2>3 DEF Accounted
  <1> QED
    BY <1>1, <1>2 DEF Next, Act

\* ValuesExplained: however the updates of a user overlap, and whichever entries audit.log
\* fails to write, each value in the row can be traced.
THEOREM EveryValueIsTraced == Spec => []ValuesExplained
  <1> DEFINE Inv == Types /\ Known /\ Reading /\ Written /\ Accounted
  <1>1. Init => Inv
    BY InitTypes, InitKnown, AccountAssumption
      DEF Init, AccountInit, Reading, Written, Wrote, Accounted, Explained, Original
  <1>2. Inv /\ [Next]_vars => Inv'
    BY TypesStep, KnownStep, ReadingStep, WrittenStep, AccountedStep
  <1>3. Inv => ValuesExplained
    <2> SUFFICES ASSUME Inv, NEW u \in DOMAIN users, NEW f \in Fields,
                        users[u][f] # Original(u)[f],
                        ~ \E e \in UpdateEntries :
                            e.user = u /\ f \in DOMAIN e.diff /\ e.diff[f].to = users[u][f]
                 PROVE  \E r \in Requests :
                          /\ call[r].op = "update" /\ call[r].user = u
                          /\ pc[r] \in {"log", "200", "500"} /\ entry[r] \notin log
                          /\ f \in DOMAIN call[r].sent /\ call[r].sent[f] = users[u][f]
      BY DEF ValuesExplained
    <2>1. PICK r \in Requests : /\ Wrote(r) /\ call[r].user = u
                                /\ f \in DOMAIN entry[r].diff /\ f \in DOMAIN call[r].sent
                                /\ call[r].sent[f] = users[u][f]
      BY DEF Accounted, Explained
    <2>2. /\ call[r].op = "update" /\ pc[r] \in {"log", "200", "500"}
          /\ entry[r].user = u /\ entry[r].diff[f].to = users[u][f]
      BY <2>1 DEF Written
    <2>3. entry[r] \notin log
      BY <2>1, <2>2 DEF UpdateEntries, Wrote
    <2> QED
      BY <2>1, <2>2, <2>3
  <1> QED
    BY <1>1, <1>2, <1>3, PTL DEF Spec
=============================================================================
