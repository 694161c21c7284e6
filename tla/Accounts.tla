------------------------------ MODULE Accounts ------------------------------
(***************************************************************************)
(* Accounts and their access tokens: sign-in (api/auth_routes.py) and      *)
(* sign-in with an identity provider (services/oidc.py), the               *)
(* administrator's changes (api/users_crud.py) and the revocation that     *)
(* goes with them (auth.py).                                               *)
(*                                                                         *)
(* A token carries the account's token_version and the second it was       *)
(* issued in; the account keeps the current version and the instant of the *)
(* last revocation.  A request that changes an account loads its row,      *)
(* decides and flushes (from here on it holds the row lock), and commits.  *)
(* The new version is computed from the row as it was loaded.              *)
(***************************************************************************)
EXTENDS Integers, FiniteSets

CONSTANTS People, Handlers, \* accounts; requests served at the same time
          Tokens,           \* access tokens followed by the model
          TicksPerSecond,   \* resolution of last_revoked_at
          LastTick, MaxVersion \* bounds on time and on revocations

ASSUME AcctAssumption ==
  /\ "nobody" \notin People
  /\ TicksPerSecond \in Nat \ {0} /\ LastTick \in Nat /\ MaxVersion \in Nat

VARIABLES account,  \* person -> row of users
          token,    \* token -> claims
          change,   \* handler -> the account change it executes
          clock,
          void,     \* tokens issued before a completed revocation began
          crossed   \* people whose revocations overlapped

acctVars == <<account, token, change, clock, void, crossed>>

Nobody == "nobody"
Roles == {"Admin", "Analyst"}
Never == 0 - 1
NoAccount == [role |-> "none", status |-> "none", version |-> 0, revokedAt |-> Never]
Unissued == [owner |-> Nobody, version |-> 0, iat |-> Never]
NoChange == [phase |-> "idle", whom |-> Nobody, kind |-> "none", role |-> "none",
             status |-> "none", seen |-> [role |-> "none", status |-> "none", version |-> 0],
             at |-> Never, before |-> {}, met |-> FALSE]
Kinds == {"update", "toggle", "revoke", "claims"}
Instants == Never .. LastTick

Row == [role : Roles \cup {"none"}, status : {"none", "active", "inactive"},
        version : 0 .. MaxVersion, revokedAt : Instants]
Loaded == [role : Roles \cup {"none"}, status : {"none", "active", "inactive"},
           version : 0 .. MaxVersion]

AcctTypeOK ==
  /\ account \in [People -> Row]
  /\ token \in [Tokens -> [owner : People \cup {Nobody}, version : 0 .. MaxVersion,
                           iat : Instants]]
  /\ change \in [Handlers ->
       [phase : {"idle", "loaded", "flushed"}, whom : People \cup {Nobody},
        kind : Kinds \cup {"none"}, role : Roles \cup {"none"},
        status : {"none", "active", "inactive"}, seen : Loaded, at : Instants,
        before : SUBSET Tokens, met : BOOLEAN]]
  /\ clock \in 0 .. LastTick
  /\ void \subseteq Tokens /\ crossed \subseteq People

Active(p) == account[p].status = "active"
IsAdmin(p) == Active(p) /\ account[p].role = "Admin"
Admins == {p \in People : IsAdmin(p)}
Open(h) == change[h].phase # "idle"

-----------------------------------------------------------------------------
(* Sign-in *)

\* create_user: the first account is an Admin.
Register(p) ==
  /\ account[p] = NoAccount
  /\ account' = [account EXCEPT ![p] =
       [role |-> IF \A q \in People : account[q] = NoAccount THEN "Admin" ELSE "Analyst",
        status |-> "active", version |-> 1, revokedAt |-> Never]]
  /\ UNCHANGED <<token, change, clock, void, crossed>>

\* upsert_user_from_claims, for somebody who has no account yet: the claims give the role.
Provision(p, role) ==
  /\ account[p] = NoAccount
  /\ account' = [account EXCEPT ![p] =
       [role |-> role, status |-> "active", version |-> 1, revokedAt |-> Never]]
  /\ UNCHANGED <<token, change, clock, void, crossed>>

\* "iat" is a NumericDate: PyJWT drops the fraction of the second.
Second(t) == t - (t % TicksPerSecond)

\* create_user_admin, invite_user
CreateUser(p, role, status) ==
  /\ account[p] = NoAccount /\ Admins # {}
  /\ account' = [account EXCEPT ![p] =
       [role |-> role, status |-> status, version |-> 1, revokedAt |-> Never]]
  /\ UNCHANGED <<token, change, clock, void, crossed>>

\* generate_token, from login, mfa_verify, refresh, register or impersonate.
Issue(t, p) ==
  /\ token[t] = Unissued /\ Active(p)
  /\ token' = [token EXCEPT ![t] =
       [owner |-> p, version |-> account[p].version, iat |-> Second(clock)]]
  /\ UNCHANGED <<account, change, clock, void, crossed>>

\* authenticate_request
Accepted(t) ==
  LET p == token[t].owner IN
    /\ p # Nobody /\ Active(p)
    /\ token[t].version = account[p].version
    /\ token[t].iat > account[p].revokedAt

-----------------------------------------------------------------------------
(* Account changes *)

\* The row is loaded: the values to be written, and those found.
Load(h, p, kind, role, status) ==
  /\ ~Open(h) /\ account[p] # NoAccount
  /\ change' = [change EXCEPT ![h] =
       [phase |-> "loaded", whom |-> p, kind |-> kind, role |-> role, status |-> status,
        at |-> Never, before |-> {}, met |-> FALSE,
        seen |-> [role |-> IF kind = "revoke" THEN "none" ELSE account[p].role,
                  status |-> IF kind = "revoke" THEN "none" ELSE account[p].status,
                  version |-> account[p].version]]]
  /\ UNCHANGED <<account, token, clock, void, crossed>>

\* update_user; setting the values it finds only revokes.
UpdateUser(h, p, role, status) ==
  /\ Admins # {} /\ (role # account[p].role \/ status # account[p].status)
  /\ Load(h, p, "update", role, status)

ToggleActive(h, p) ==
  Admins # {} /\ Load(h, p, "toggle", account[p].role,
                      IF Active(p) THEN "inactive" ELSE "active")

\* reset_password of an Admin
ResetPassword(h, p) == Admins # {} /\ Load(h, p, "revoke", "none", "none")

\* logout_all, and reset_password with a link: of these columns they change none.
EndSessions(h, p) == Active(p) /\ Load(h, p, "revoke", "none", "none")

\* upsert_user_from_claims, for somebody who has an account: the claims give the role, and
\* the account is active; nothing is counted and nothing revoked.  create-admin of the
\* command line does the same with the role Admin (cli.py:35-55).
FollowClaims(h, p, role) == Load(h, p, "claims", role, "active")

\* Fault: the administrators are counted with the one that is being changed.
CountedWithSelf(c) == IF c.kind \in {"revoke", "claims"} THEN TRUE ELSE Admins # {}

\* The last active administrator may not be demoted or deactivated by an Admin;
\* toggle_active asks only when the row it loaded is an Admin's.
LeavesAnAdmin(c) ==
  \/ c.kind \in {"revoke", "claims"}
  \/ Admins \ {c.whom} # {}
  \/ c.kind = "update" /\ c.role = "Admin" /\ c.status = "active"
  \/ c.kind = "toggle" /\ (c.status = "active" \/ c.role # "Admin")

\* The change is checked, flushed and stamped; other changes of the same row wait.
Flush(h) ==
  /\ change[h].phase = "loaded"
  /\ \A g \in Handlers : change[g].phase = "flushed" => change[g].whom # change[h].whom
  /\ change' = [change EXCEPT ![h] =
       IF LeavesAnAdmin(change[h])
       THEN [change[h] EXCEPT !.phase = "flushed", !.at = clock,
                              !.before = IF change[h].kind = "claims" THEN {}
                                         ELSE {t \in Tokens : token[t].owner = change[h].whom}]
       ELSE NoChange]
  /\ UNCHANGED <<account, token, clock, void, crossed>>

\* Fault: the change is committed without revoke_tokens.
WrittenNotRevoked(now, c) ==
  [role |-> IF c.role = c.seen.role THEN now.role ELSE c.role,
   status |-> IF c.status = c.seen.status THEN now.status ELSE c.status,
   version |-> now.version, revokedAt |-> now.revokedAt]

\* Only columns that differ from the loaded row are written.
Written(now, c) ==
  [role |-> IF c.role = c.seen.role THEN now.role ELSE c.role,
   status |-> IF c.status = c.seen.status THEN now.status ELSE c.status,
   version |-> IF c.kind = "claims" THEN now.version ELSE c.seen.version + 1,
    revokedAt |-> IF c.kind = "claims" THEN now.revokedAt ELSE c.at]

\* Two revocations of one account.
Overlap(c, d) ==
  d.phase # "idle" /\ c.whom = d.whom /\ "claims" \notin {c.kind, d.kind}

\* A change of a role or of activity that commits is met by a request that has loaded the
\* same row, and one that takes an administrator by a request that has counted them.
Meets(c, d) ==
  /\ c.kind # "revoke" /\ d.phase # "idle"
  /\ c.whom = d.whom \/ (d.phase = "flushed" /\ Admins \ Admins' # {})

Commit(h) ==
  LET c == change[h] IN
  /\ c.phase = "flushed" /\ (c.kind # "claims" => c.seen.version < MaxVersion)
  /\ account' = [account EXCEPT ![c.whom] = Written(account[c.whom], c)]
  /\ void' = void \cup c.before
  /\ crossed' = IF \E g \in Handlers \ {h} : Overlap(c, change[g])
                THEN crossed \cup {c.whom} ELSE crossed
  /\ change' = [g \in Handlers |->
       IF g = h THEN NoChange
       ELSE [change[g] EXCEPT !.met = @ \/ Meets(c, change[g])]]
  /\ UNCHANGED <<token, clock>>

\* The request fails or its process dies: the transaction is rolled back.
Abandon(h) ==
  /\ Open(h)
  /\ change' = [change EXCEPT ![h] = NoChange]
  /\ UNCHANGED <<account, token, clock, void, crossed>>

Tick ==
  /\ clock < LastTick /\ clock' = clock + 1
  /\ UNCHANGED <<account, token, change, void, crossed>>

-----------------------------------------------------------------------------
AcctInit ==
  /\ account = [p \in People |-> NoAccount] /\ token = [t \in Tokens |-> Unissued]
  /\ change = [h \in Handlers |-> NoChange] /\ clock = 0 /\ void = {} /\ crossed = {}

AcctNext ==
  \/ \E p \in People : Register(p) \/ \E t \in Tokens : Issue(t, p)
  \/ \E p \in People, role \in Roles, status \in {"active", "inactive"} :
       CreateUser(p, role, status) \/ \E h \in Handlers : UpdateUser(h, p, role, status)
  \/ \E p \in People, role \in Roles :
       Provision(p, role) \/ \E h \in Handlers : FollowClaims(h, p, role)
  \/ \E h \in Handlers, p \in People :
       ToggleActive(h, p) \/ ResetPassword(h, p) \/ EndSessions(h, p)
  \/ \E h \in Handlers : Flush(h) \/ Commit(h) \/ Abandon(h)
  \/ Tick

AcctSpec == AcctInit /\ [][AcctNext]_acctVars

-----------------------------------------------------------------------------
(* What the accounts promise *)

\* Where there is an active Admin, one remains (users_crud.py:563, "would lock everyone out
\* of admin-only functions"), through any sequence of demotions and deactivations.  Two
\* requests take the last one: a sign-in whose claims give another role, and one that the
\* others overtook - its row had been changed since it was loaded, or another
\* administrator was lost since the others were counted.
AdminRemains ==
  [][Admins # {} /\ Admins' = {} =>
       \E h \in Handlers : /\ change[h].phase = "flushed" /\ ~Open(h)'
                          /\ (change[h].kind = "claims" \/ change[h].met)]_acctVars

\* A token issued before a revocation began is not accepted once that revocation
\* has committed, neither then nor after any later change or reactivation of the
\* account - whichever of the two checks catches it, and for accounts whose
\* revocations did not overlap.
RevokedStaysOut ==
  \A t \in void : Accepted(t) => token[t].owner \in crossed
=============================================================================
