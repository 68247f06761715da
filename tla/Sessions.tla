------------------------------- MODULE Sessions -------------------------------
(***************************************************************************)
(* AuthService, JwtStrategy, the denylist and the guards, with the users   *)
(* they are about: UsersService composed with the denylist that its        *)
(* deletions cascade to.  A token carries what its user was at the login;  *)
(* its expiry is read off the server's clock, that of a denylist row off   *)
(* the clock of the database.                                              *)
(***************************************************************************)
EXTENDS Accounts

CONSTANTS InitialTokens,  \* tokens issued before: jti -> [user, role, exp]
          TTL,            \* JWT_EXPIRES_IN
          MaxTime,        \* the clocks stop here
          MaxSkew         \* how far the two clocks may be apart

TokenIds == DOMAIN InitialTokens \cup Requests   \* a login's token is called by it
Tokens == [user : UserIds, role : Roles, exp : Nat]

Ops == {"register", "login", "logout", "act", "update", "remove"}

ASSUME SessionAssumption ==
  /\ DOMAIN InitialTokens \cap Requests = {}
  /\ InitialTokens \in [DOMAIN InitialTokens -> Tokens]
  /\ \A t \in DOMAIN InitialTokens :
       /\ InitialTokens[t].user \in DOMAIN InitialUsers
       /\ InitialTokens[t].role = InitialUsers[InitialTokens[t].user].role
       /\ InitialTokens[t].exp <= TTL
  /\ \A c \in Calls : c.op \in Ops
  /\ TTL \in Nat \ {0} /\ MaxTime \in Nat /\ MaxSkew \in Nat

VARIABLES tokens,     \* what has been signed: jti -> payload; clients keep them
          subject,    \* whom a login found
          denylist,   \* token_denylist: jti -> expires_at
          clock,      \* the server's clock
          dbClock,    \* NOW() of the database
          ended,      \* ghost: the tokens whose logout was answered before the request began
          changed     \* ghost: per user, when the role last changed, and the logins it overtook

sessionVars == <<tokens, subject, denylist, clock, dbClock, ended, changed>>
vars == <<accountVars, sessionVars>>

Public == {"register", "login"}     \* the routes with @Public()

Payload(r) == tokens[call[r].token]

LoggedOut == {call[r].token : r \in {q \in Requests : call[q].op = "logout" /\ pc[q] = "200"}}

-----------------------------------------------------------------------------
Receive(r) ==
  /\ pc[r] = "new"
  /\ \E c \in Calls :
       /\ c.op \notin Public => c.token \in DOMAIN tokens
       /\ call' = [call EXCEPT ![r] = c]
       /\ goto(r, CASE c.op = "register" -> "taken"
                    [] c.op = "login"    -> "lookup"
                    [] OTHER             -> "verify")
  /\ ended' = [ended EXCEPT ![r] = LoggedOut]
  /\ UNCHANGED <<users, log, before, entry, overlap, faults,
                 tokens, subject, denylist, clock, dbClock, changed>>

\* findRawByUsername.  A name nobody has is compared with a dummy hash.
Lookup(r) ==
  /\ pc[r] = "lookup" /\ goto(r, "compare")
  /\ \/ \E u \in DOMAIN users : /\ users[u].name = call[r].name
                                /\ before' = [before EXCEPT ![r] = users[u]]
                                /\ subject' = [subject EXCEPT ![r] = u]
     \/ /\ \A u \in DOMAIN users : users[u].name # call[r].name
        /\ UNCHANGED <<before, subject>>
  /\ UNCHANGED <<users, log, call, entry, overlap, faults,
                 tokens, denylist, clock, dbClock, ended, changed>>

\* bcrypt.compare.  A user without a password cannot log in.
Compare(r) ==
  /\ pc[r] = "compare"
  /\ goto(r, IF before[r] # Null /\ before[r].password \in {call[r].password} \ {"none"}
             THEN "sign" ELSE "401")
  /\ UNCHANGED <<users, log, call, before, entry, overlap, faults, sessionVars>>

\* Mutant: the time to live is counted twice.
SignTwice(r) ==
  /\ pc[r] = "sign" /\ goto(r, "200")
  /\ tokens' = Put(tokens, r, [user |-> subject[r], role |-> before[r].role,
                                exp |-> clock + 2 * TTL])
  /\ UNCHANGED <<users, log, call, before, entry, overlap, faults,
                 subject, denylist, clock, dbClock, ended, changed>>

\* signAsync: what was read at the lookup, and the expiry from the clock as it is now.
Sign(r) ==
  /\ pc[r] = "sign" /\ goto(r, "200")
  /\ tokens' = Put(tokens, r, [user |-> subject[r], role |-> before[r].role,
                                exp |-> clock + TTL])
  /\ UNCHANGED <<users, log, call, before, entry, overlap, faults,
                 subject, denylist, clock, dbClock, ended, changed>>

-----------------------------------------------------------------------------
\* JwtAuthGuard: passport checks the expiry (ignoreExpiration: false) ...
Verify(r) ==
  /\ pc[r] = "verify"
  /\ goto(r, IF clock < Payload(r).exp THEN "denylist" ELSE "401")
  /\ UNCHANGED <<users, log, call, before, entry, overlap, faults, sessionVars>>

Revoked(jti) == jti \in DOMAIN denylist /\ denylist[jti] > dbClock

\* Where the handler begins; an update must send something.
Handler(c) ==
  CASE c.op = "logout" -> "revoke"
    [] c.op = "act"    -> "roles"
    [] c.op = "update" -> IF DOMAIN c.sent = {} THEN "400" ELSE "find"
    [] c.op = "remove" -> "find"

\* Mutant: the denylist is not asked.
ValidateUnasked(r) ==
  /\ pc[r] = "denylist" /\ goto(r, Handler(call[r]))
  /\ UNCHANGED <<users, log, call, before, entry, overlap, faults, sessionVars>>

\* ... and JwtStrategy.validate asks whether the token was revoked.
Validate(r) ==
  /\ pc[r] = "denylist"
  /\ goto(r, IF Revoked(call[r].token) THEN "401" ELSE Handler(call[r]))
  /\ UNCHANGED <<users, log, call, before, entry, overlap, faults, sessionVars>>

\* RolesGuard, before a handler that this module does not look into.
CheckRoles(r) ==
  /\ pc[r] = "roles"
  /\ goto(r, IF Payload(r).role \in call[r].roles THEN "200" ELSE "403")
  /\ UNCHANGED <<users, log, call, before, entry, overlap, faults, sessionVars>>

\* Mutant: without ON CONFLICT DO NOTHING.
RevokeOnce(r) ==
  /\ pc[r] = "revoke"
  /\ LET jti == call[r].token
     IN  \/ /\ Payload(r).user \notin DOMAIN users
            /\ goto(r, "400") /\ Succeeds /\ UNCHANGED denylist
         \/ /\ jti \in DOMAIN denylist /\ goto(r, "409") /\ Succeeds /\ UNCHANGED denylist
         \/ /\ Payload(r).user \in DOMAIN users /\ jti \notin DOMAIN denylist
            /\ denylist' = Put(denylist, jti, Payload(r).exp) /\ Done(r, "200")
  /\ UNCHANGED <<users, log, call, before, entry, overlap,
                 tokens, subject, clock, dbClock, ended, changed>>

\* logout: INSERT ... ON CONFLICT DO NOTHING; the foreign key wants the user.
Revoke(r) ==
  /\ pc[r] = "revoke"
  /\ LET jti == call[r].token
     IN  \/ /\ Payload(r).user \notin DOMAIN users /\ jti \notin DOMAIN denylist
            /\ goto(r, "400") /\ Succeeds /\ UNCHANGED denylist
         \/ /\ Payload(r).user \in DOMAIN users \/ jti \in DOMAIN denylist
            /\ denylist' = IF jti \in DOMAIN denylist THEN denylist
                             ELSE Put(denylist, jti, Payload(r).exp)
            /\ Done(r, "200")
  /\ UNCHANGED <<users, log, call, before, entry, overlap,
                 tokens, subject, clock, dbClock, ended, changed>>

-----------------------------------------------------------------------------
\* Ghost: whose role changes, or who goes, now.
NoteChange ==
  changed' = [u \in UserIds |->
    IF u \in DOMAIN users /\ (u \in DOMAIN users' => users'[u].role # users[u].role)
    THEN [at |-> clock, logins |-> changed[u].logins \cup
            {q \in Requests : pc[q] \in {"compare", "sign"} /\ subject[q] = u}]
    ELSE changed[u]]

ChangeUser(r) ==
  /\ UpdateUser(r) /\ NoteChange
  /\ UNCHANGED <<tokens, subject, denylist, clock, dbClock, ended>>

\* The denylist rows go with their user: ON DELETE CASCADE.
ForgetUser(r) ==
  /\ DeleteUser(r, FALSE) /\ NoteChange
  /\ denylist' = Restrict(denylist, {t \in DOMAIN denylist : tokens[t].user \in DOMAIN users'})
  /\ UNCHANGED <<tokens, subject, clock, dbClock, ended>>

Tick ==
  /\ \/ clock < MaxTime /\ clock + 1 <= dbClock + MaxSkew
        /\ clock' = clock + 1 /\ UNCHANGED dbClock
     \/ dbClock < MaxTime /\ dbClock + 1 <= clock + MaxSkew
        /\ dbClock' = dbClock + 1 /\ UNCHANGED clock
  /\ UNCHANGED <<accountVars, tokens, subject, denylist, ended, changed>>

Init ==
  /\ AccountInit
  /\ tokens = InitialTokens /\ denylist = <<>> /\ clock = 0 /\ dbClock = 0
  /\ subject = [r \in Requests |-> Null] /\ ended = [r \in Requests |-> {}]
  /\ changed = [u \in UserIds |-> [at |-> 0, logins |-> {}]]

SessionStep(r) ==
  \/ Receive(r) \/ Lookup(r) \/ Compare(r) \/ Sign(r) \/ Verify(r) \/ Validate(r)
  \/ CheckRoles(r) \/ Revoke(r) \/ ChangeUser(r) \/ ForgetUser(r)

\* The steps of UsersService that concern no other table.
UserStep(r) ==
  /\ FindByName(r) \/ InsertUser(r) \/ FindUser(r) \/ LogEntry(r) \/ Abort(r)
  /\ UNCHANGED sessionVars

Next == Tick \/ \E r \in Requests : SessionStep(r) \/ UserStep(r)

Spec == Init /\ [][Next]_vars

-----------------------------------------------------------------------------
\* The types of the tables, of the clocks and of what requests keep.
TypeOK ==
  /\ AccountTypeOK
  /\ \A r \in Requests : UserRow(before[r]) \/ before[r] = Null
  /\ log \subseteq {entry[r] : r \in Requests} \ {Null}
  /\ pc \in [Requests -> Answers \cup
       {"new", "taken", "insert", "find", "update", "delete", "log",
        "lookup", "compare", "sign", "verify", "denylist", "roles", "revoke"}]
  /\ DOMAIN tokens \subseteq TokenIds /\ tokens \in [DOMAIN tokens -> Tokens]
  /\ subject \in [Requests -> UserIds \cup {Null}]
  /\ denylist \in [DOMAIN denylist -> Nat] /\ DOMAIN denylist \subseteq DOMAIN tokens
  /\ clock \in 0..MaxTime /\ dbClock \in 0..MaxTime
  /\ clock <= dbClock + MaxSkew /\ dbClock <= clock + MaxSkew
  /\ ended \in [Requests -> SUBSET TokenIds]
  /\ changed \in [UserIds -> [at : Nat, logins : SUBSET Requests]]

\* A request that the guards let through.
Admitted(r) ==
  /\ call[r].op \in {"logout", "act", "update", "remove"}
  /\ pc[r] \notin {"new", "verify", "denylist", "401", "500"}

\* A request sent after its token's logout was answered is refused, unless the user
\* was deleted since (the denylist row goes too) or the database's clock is past the
\* expiry already (isRevoked ignores such rows, the server's clock may be behind).
RevokedStaysOut ==
  \A r \in Requests :
    Admitted(r) /\ call[r].token \in ended[r]
      => Payload(r).user \notin DOMAIN users \/ Payload(r).exp <= dbClock

\* Logout may be sent twice: the second is done again, or is refused because the
\* first was done; nothing but the loss of the user makes it a bad request.
LogoutIsIdempotent ==
  \A r \in Requests : call[r].op = "logout" /\ pc[r] \in Answers =>
    \/ pc[r] = "200"
    \/ pc[r] = "500" /\ faults > 0
    \/ pc[r] = "400" /\ Payload(r).user \notin DOMAIN users
    \/ pc[r] = "401" /\ \/ Payload(r).exp <= clock
                        \/ \E q \in Requests \ {r} : /\ call[q].op = "logout"
                                                     /\ call[q].token = call[r].token
                                                     /\ pc[q] \in {"200", "500"}

\* The role in a token may be out of date, or its user gone, for as long as a token
\* lives and no longer: it expires TTL after the change at the latest, unless its
\* login had looked the user up before the change and was signed after it.
StaleRoleExpires ==
  \A t \in DOMAIN tokens :
    LET u == tokens[t].user
    IN  (u \in DOMAIN users => users[u].role # tokens[t].role)
          => tokens[t].exp <= changed[u].at + TTL \/ t \in changed[u].logins
=============================================================================
