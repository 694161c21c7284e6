------------------------------- MODULE Teams --------------------------------
(***************************************************************************)
(* Teams and their members (services/team_scope.py, api/teams.py).  Every  *)
(* process that boots makes sure that the Default team exists and that     *)
(* every user is in it; every new user is enrolled by the transaction that *)
(* inserts the row, if the team is there.  Processes boot while others     *)
(* already serve.                                                          *)
(*                                                                         *)
(* Transactions see what is committed at each of their statements.         *)
(***************************************************************************)
EXTENDS FiniteSets

CONSTANTS Users, Boots,  \* accounts; processes that boot
          MoreTeams      \* ids of the teams administrators make

ASSUME TeamAssumption == "default" \notin MoreTeams

VARIABLES user,     \* user -> "none", "inserted" (not committed) or "there"
          enrolled, \* users whose open transaction inserts a membership too
          team,     \* the teams that exist
          member,   \* pairs of user and team
          boot,     \* process -> how far ensure_default_team is
          early     \* users inserted before the Default team was there, until a
                    \* process has booted that was started after their commit

teamVars == <<user, enrolled, team, member, boot, early>>

AllTeams == {"default"} \cup MoreTeams
Down == [phase |-> "down", makes |-> FALSE, knew |-> {}, had |-> {}, adds |-> {}]

TeamTypeOK ==
  /\ user \in [Users -> {"none", "inserted", "there"}] /\ enrolled \subseteq Users
  /\ team \subseteq AllTeams /\ member \subseteq Users \X AllTeams
  /\ boot \in [Boots -> [phase : {"down", "found", "listed", "up"}, makes : BOOLEAN,
                         knew : SUBSET Users, had : SUBSET Users, adds : SUBSET Users]]
  /\ early \subseteq Users

Booting(b) == boot[b].phase \in {"found", "listed"}
There == {u \in Users : user[u] = "there"}
In(t) == {u \in Users : <<u, t>> \in member}

-----------------------------------------------------------------------------
(* ensure_default_team *)

\* The team is looked up, or inserted, and its members are read.  The slug is unique:
\* a second process that inserts it waits for the first, and fails if that commits.
Find(b) ==
  /\ boot[b].phase = "down"
  /\ "default" \in team \/ \A c \in Boots : ~(Booting(c) /\ boot[c].makes)
  /\ boot' = [boot EXCEPT ![b] =
       [phase |-> "found", makes |-> "default" \notin team, knew |-> There,
        had |-> In("default"), adds |-> {}]]
  /\ UNCHANGED <<user, enrolled, team, member, early>>

\* Fault: users are enrolled when the team is made, and not by later boots.
FirstBootOnly(b) ==
  IF boot[b].makes THEN There \ boot[b].had ELSE {}

\* User.query.all() without those that were members.
Missing(b) == There \ boot[b].had

List(b) ==
  /\ boot[b].phase = "found"
  /\ boot' = [boot EXCEPT ![b] = [@ EXCEPT !.phase = "listed", !.adds = Missing(b)]]
  /\ UNCHANGED <<user, enrolled, team, member, early>>

\* The commit, unless another transaction has enrolled one of them first.
Up(b) ==
  /\ boot[b].phase = "listed" /\ boot[b].adds \cap In("default") = {}
  /\ team' = team \cup {"default"}
  /\ member' = member \cup (boot[b].adds \X {"default"})
  /\ early' = early \ boot[b].knew
  /\ boot' = [boot EXCEPT ![b] = [Down EXCEPT !.phase = "up"]]
  /\ UNCHANGED <<user, enrolled>>

\* A constraint is violated or the process dies; it is started again.
BootFails(b) ==
  /\ boot[b].phase # "down" /\ boot' = [boot EXCEPT ![b] = Down]
  /\ UNCHANGED <<user, enrolled, team, member, early>>

-----------------------------------------------------------------------------
(* Users *)

\* _auto_enroll_new_user
Enrolling(u) == IF "default" \in team THEN {u} ELSE {}

\* register, create_user_admin, invite_user, oidc_callback.  Only a process that is up
\* serves them.
InsertUser(u) ==
  /\ user[u] = "none" /\ \E b \in Boots : boot[b].phase = "up"
  /\ user' = [user EXCEPT ![u] = "inserted"]
  /\ enrolled' = enrolled \cup Enrolling(u)
  /\ UNCHANGED <<team, member, boot, early>>

\* create_admin of the command line, which may run before any process is up.
CommandLineUser(u) ==
  /\ user[u] = "none" /\ \A b \in Boots : boot[b].phase # "up"
  /\ user' = [user EXCEPT ![u] = "inserted"]
  /\ enrolled' = enrolled \cup Enrolling(u)
  /\ early' = IF "default" \in team THEN early ELSE early \cup {u}
  /\ UNCHANGED <<team, member, boot>>

CommitUser(u) ==
  /\ user[u] = "inserted" /\ user' = [user EXCEPT ![u] = "there"]
  /\ member' = IF u \in enrolled THEN member \cup {<<u, "default">>} ELSE member
  /\ enrolled' = enrolled \ {u}
  /\ UNCHANGED <<team, boot, early>>

RollBackUser(u) ==
  /\ user[u] = "inserted" /\ user' = [user EXCEPT ![u] = "none"]
  /\ enrolled' = enrolled \ {u} /\ early' = early \ {u}
  /\ UNCHANGED <<team, member, boot>>

-----------------------------------------------------------------------------
(* Administration *)

CreateTeam(t) ==
  /\ t \notin team /\ team' = team \cup {t}
  /\ UNCHANGED <<user, enrolled, member, boot, early>>

\* Memberships go by cascade.
DeleteTeam(t) ==
  /\ t \in team \ {"default"} /\ team' = team \ {t}
  /\ member' = {m \in member : m[2] # t}
  /\ UNCHANGED <<user, enrolled, boot, early>>

AddMember(u, t) ==
  /\ user[u] = "there" /\ t \in team /\ member' = member \cup {<<u, t>>}
  /\ UNCHANGED <<user, enrolled, team, boot, early>>

Removable(t) == t \in team \ {"default"}

RemoveMember(u, t) ==
  /\ Removable(t) /\ member' = member \ {<<u, t>>}
  /\ UNCHANGED <<user, enrolled, team, boot, early>>

TeamInit ==
  /\ user = [u \in Users |-> "none"] /\ enrolled = {} /\ team = {} /\ member = {}
  /\ boot = [b \in Boots |-> Down] /\ early = {}

TeamNext ==
  \/ \E b \in Boots : Find(b) \/ List(b) \/ Up(b) \/ BootFails(b)
  \/ \E u \in Users : \/ InsertUser(u) \/ CommandLineUser(u) \/ CommitUser(u) \/ RollBackUser(u)
                      \/ \E t \in AllTeams : AddMember(u, t) \/ RemoveMember(u, t)
  \/ \E t \in MoreTeams : CreateTeam(t) \/ DeleteTeam(t)

TeamSpec == TeamInit /\ [][TeamNext]_teamVars

-----------------------------------------------------------------------------
(* What the teams promise *)

\* Every user is in the Default team, which is what makes the team's records visible to
\* them, except one that the command line inserted before the first boot had committed
\* the team: such a user waits for the next boot.  Boots of several processes, users
\* registered meanwhile and failed boots leave nobody else out.
EveryoneEnrolled ==
  \A u \in Users : user[u] = "there" => u \in In("default") \/ u \in early
=============================================================================
