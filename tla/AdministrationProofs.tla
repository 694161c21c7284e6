------------------------ MODULE AdministrationProofs ------------------------
(***************************************************************************)
(* Proofs about what administrators and owners set and the system keeps:   *)
(* everybody in the Default team, a plugin's secrets and its interval, the *)
(* default among saved items, the access tokens that are void and the last *)
(* administrator - for any number of users, processes, items, tokens and   *)
(* requests at the same time.                                              *)
(*                                                                         *)
(* Each invariant says that what a request or a process has read stays     *)
(* true until it commits, or that it knows of those it overlapped with.    *)
(***************************************************************************)
EXTENDS Teams, PluginSettings, SavedDefaults, PluginSchedule, Accounts,
        WellFoundedInduction, TLAPS

-----------------------------------------------------------------------------
(* Teams.  EveryoneEnrolled is not inductive: a boot takes users off       *)
(* `early` on the strength of what it read two steps before.  The          *)
(* invariant says that what it read stays true - users and members of the  *)
(* Default team never go - and that a user whose row is inserted while a   *)
(* process serves is enrolled with it, because a process that serves has   *)
(* seen the team committed.                                                *)

\* A process that serves has committed, or found, the Default team.
TeamStands == \A b \in Boots : boot[b].phase = "up" => "default" \in team

\* The team, once there, and its members stay; so do users.
ReadingsHold ==
  \A b \in Boots : Booting(b) =>
    /\ boot[b].knew \subseteq There
    /\ boot[b].had \subseteq In("default")
    /\ boot[b].makes \/ "default" \in team

\* A boot that is about to commit enrols everybody it knew and did not find enrolled.
ListComplete ==
  \A b \in Boots : boot[b].phase = "listed" =>
    boot[b].knew \subseteq boot[b].had \cup boot[b].adds

\* A user whose row is not committed yet is enrolled by the same commit, or waits for
\* the first boot.
NewcomersEnrolled ==
  \A u \in Users : user[u] = "inserted" => u \in enrolled \cup early

TInv ==
  /\ TeamTypeOK /\ TeamStands /\ ReadingsHold /\ ListComplete /\ NewcomersEnrolled
  /\ EveryoneEnrolled

-----------------------------------------------------------------------------
\* The initial state satisfies the invariant: nobody is there and nothing boots.
LEMMA TeamInitInv == TeamInit => TInv
  BY DEF TeamInit, TInv, TeamTypeOK, TeamStands, ReadingsHold, ListComplete,
         NewcomersEnrolled, EveryoneEnrolled, Booting, Down

\* What a step of a boot does to the state.
LEMMA BootTypes ==
  ASSUME TeamTypeOK, NEW b \in Boots, Find(b) \/ List(b) \/ Up(b) \/ BootFails(b)
  PROVE  TeamTypeOK'
<1>1. /\ There \subseteq Users /\ In("default") \subseteq Users
      /\ Missing(b) \subseteq Users
  BY DEF There, In, Missing
<1>2. CASE Find(b) BY <1>1, <1>2 DEF TeamTypeOK, Find
<1>3. CASE List(b)
  <2>1. [boot[b] EXCEPT !.phase = "listed", !.adds = Missing(b)] \in
          [phase : {"down", "found", "listed", "up"}, makes : BOOLEAN,
           knew : SUBSET Users, had : SUBSET Users, adds : SUBSET Users]
    BY <1>1 DEF TeamTypeOK
  <2>2. boot' = [boot EXCEPT ![b] = [boot[b] EXCEPT !.phase = "listed", !.adds = Missing(b)]]
    BY <1>3 DEF List
  <2> QED BY <1>3, <2>1, <2>2 DEF TeamTypeOK, List
<1>4. CASE Up(b) BY <1>4 DEF TeamTypeOK, Up, Down, AllTeams
<1>5. CASE BootFails(b) BY <1>5 DEF TeamTypeOK, BootFails, Down
<1> QED BY <1>2, <1>3, <1>4, <1>5

\* What a request about one user does to the state.
LEMMA UserTypes ==
  ASSUME TeamTypeOK, NEW u \in Users,
         InsertUser(u) \/ CommandLineUser(u) \/ CommitUser(u) \/ RollBackUser(u)
  PROVE  TeamTypeOK'
<1>1. CASE InsertUser(u) BY <1>1 DEF TeamTypeOK, InsertUser, Enrolling
<1>2. CASE CommandLineUser(u) BY <1>2 DEF TeamTypeOK, CommandLineUser, Enrolling
<1>3. CASE CommitUser(u) BY <1>3 DEF TeamTypeOK, CommitUser, AllTeams
<1>4. CASE RollBackUser(u) BY <1>4 DEF TeamTypeOK, RollBackUser
<1> QED BY <1>1, <1>2, <1>3, <1>4

\* What the administration of teams does to the state.
LEMMA AdministrationTypes ==
  ASSUME TeamTypeOK,
         \/ \E u \in Users, t \in AllTeams : AddMember(u, t) \/ RemoveMember(u, t)
         \/ \E t \in MoreTeams : CreateTeam(t) \/ DeleteTeam(t)
  PROVE  TeamTypeOK'
<1>1. CASE \E u \in Users, t \in AllTeams : AddMember(u, t)
  BY <1>1 DEF TeamTypeOK, AddMember
<1>2. CASE \E u \in Users, t \in AllTeams : RemoveMember(u, t)
  BY <1>2 DEF TeamTypeOK, RemoveMember
<1>3. CASE \E t \in MoreTeams : CreateTeam(t) BY <1>3 DEF TeamTypeOK, CreateTeam, AllTeams
<1>4. CASE \E t \in MoreTeams : DeleteTeam(t) BY <1>4 DEF TeamTypeOK, DeleteTeam
<1> QED BY <1>1, <1>2, <1>3, <1>4

-----------------------------------------------------------------------------
\* The team stands while processes boot, users come and teams are administered.
LEMMA BootStep ==
  ASSUME TInv, TeamTypeOK', NEW b \in Boots, Find(b) \/ List(b) \/ Up(b) \/ BootFails(b)
  PROVE  TInv'
<1>1. user' = user /\ enrolled' = enrolled /\ There' = There
  BY DEF Find, List, Up, BootFails, There
<1>2. team \subseteq team' /\ In("default") \subseteq In("default")'
  BY DEF Find, List, Up, BootFails, In
<1>3. \A c \in Boots \ {b} : boot'[c] = boot[c]
  BY DEF TInv, TeamTypeOK, Find, List, Up, BootFails
<1>4. TeamStands'
  <2> SUFFICES ASSUME NEW c \in Boots, boot'[c].phase = "up" PROVE "default" \in team'
    BY DEF TeamStands
  <2>1. CASE c # b BY <1>2, <1>3, <2>1 DEF TInv, TeamStands
  <2>2. CASE c = b
    <3>1. ~Find(b) BY <2>2 DEF TInv, TeamTypeOK, Find
    <3>2. ~List(b) BY <2>2 DEF TInv, TeamTypeOK, List
    <3>3. ~BootFails(b) BY <2>2 DEF TInv, TeamTypeOK, BootFails, Down
    <3> QED BY <3>1, <3>2, <3>3 DEF Up
  <2> QED BY <2>1, <2>2
<1>5. ReadingsHold'
  <2> SUFFICES ASSUME NEW c \in Boots, Booting(c)'
               PROVE  /\ boot'[c].knew \subseteq There' /\ boot'[c].had \subseteq In("default")'
                      /\ boot'[c].makes \/ "default" \in team'
    BY DEF ReadingsHold
  <2>1. CASE c # b BY <1>1, <1>2, <1>3, <2>1 DEF TInv, ReadingsHold, Booting
  <2>2. CASE c = b /\ Find(b)
    BY <1>1, <1>2, <2>2 DEF TInv, TeamTypeOK, Find
  <2>3. CASE c = b /\ List(b)
    BY <1>1, <1>2, <2>3 DEF TInv, TeamTypeOK, ReadingsHold, Booting, List
  <2>4. CASE c = b /\ (Up(b) \/ BootFails(b))
    BY <2>4 DEF TInv, TeamTypeOK, Up, BootFails, Booting, Down
  <2> QED BY <2>1, <2>2, <2>3, <2>4
<1>6. ListComplete'
  <2> SUFFICES ASSUME NEW c \in Boots, boot'[c].phase = "listed"
               PROVE  boot'[c].knew \subseteq boot'[c].had \cup boot'[c].adds
    BY DEF ListComplete
  <2>1. CASE c # b BY <1>3, <2>1 DEF TInv, ListComplete
  <2>2. CASE c = b
    <3>1. List(b) BY <2>2 DEF TInv, TeamTypeOK, Find, Up, BootFails, Down
    <3>2. boot[b].knew \subseteq There BY <3>1 DEF TInv, ReadingsHold, Booting, List
    <3> QED BY <2>2, <3>1, <3>2 DEF TInv, TeamTypeOK, List, Missing
  <2> QED BY <2>1, <2>2
<1>7. NewcomersEnrolled' /\ EveryoneEnrolled'
  <2>1. CASE Up(b)
    <3>1. boot[b].knew \subseteq There /\ boot[b].had \subseteq In("default")
      BY <2>1 DEF TInv, ReadingsHold, Booting, Up
    <3>2. boot[b].knew \subseteq boot[b].had \cup boot[b].adds
      BY <2>1 DEF TInv, ListComplete, Up
    <3>3. boot[b].knew \subseteq In("default")'
      BY <1>2, <3>1, <3>2, <2>1 DEF Up, In, There
    <3>4. early' = early \ boot[b].knew BY <2>1 DEF Up
    <3> QED BY <1>1, <1>2, <3>1, <3>3, <3>4
            DEF TInv, NewcomersEnrolled, EveryoneEnrolled, There
  <2>2. CASE Find(b) \/ List(b) \/ BootFails(b)
    <3>1. early' = early BY <2>2 DEF Find, List, BootFails
    <3> QED BY <1>1, <1>2, <3>1 DEF TInv, NewcomersEnrolled, EveryoneEnrolled
  <2> QED BY <2>1, <2>2
<1> QED BY <1>4, <1>5, <1>6, <1>7 DEF TInv

\* A user inserted by a process that serves is enrolled: the team is there.
LEMMA UserStep ==
  ASSUME TInv, TeamTypeOK', NEW u \in Users,
         InsertUser(u) \/ CommandLineUser(u) \/ CommitUser(u) \/ RollBackUser(u)
  PROVE  TInv'
<1>1. boot' = boot /\ team' = team
  BY DEF InsertUser, CommandLineUser, CommitUser, RollBackUser
<1>2. There \subseteq There' /\ In("default") \subseteq In("default")'
  BY DEF TInv, TeamTypeOK, There, In, InsertUser, CommandLineUser, CommitUser, RollBackUser
<1>3. TeamStands' /\ ReadingsHold' /\ ListComplete'
  BY <1>1, <1>2 DEF TInv, TeamStands, ReadingsHold, ListComplete, Booting
<1>4. \A v \in Users \ {u} :
        /\ user'[v] = user[v]
        /\ v \in enrolled => v \in enrolled'
        /\ v \in early => v \in early'
  BY DEF TInv, TeamTypeOK, InsertUser, CommandLineUser, CommitUser, RollBackUser
<1>5. user'[u] = "inserted" => u \in enrolled' \cup early'
  <2>1. CASE InsertUser(u)
    <3>1. "default" \in team BY <2>1 DEF InsertUser, TInv, TeamStands
    <3> QED BY <2>1, <3>1 DEF InsertUser, Enrolling
  <2>2. CASE CommandLineUser(u) BY <2>2 DEF CommandLineUser, Enrolling
  <2>3. CASE CommitUser(u) BY <2>3 DEF CommitUser, TInv, TeamTypeOK
  <2>4. CASE RollBackUser(u) BY <2>4 DEF RollBackUser, TInv, TeamTypeOK
  <2> QED BY <2>1, <2>2, <2>3, <2>4
<1>6. user'[u] = "there" => u \in In("default")' \cup early'
  <2>1. CASE CommitUser(u)
    <3>1. u \in enrolled \cup early BY <2>1 DEF CommitUser, TInv, NewcomersEnrolled
    <3>2. early' = early BY <2>1 DEF CommitUser
    <3>3. u \in enrolled => u \in In("default")' BY <2>1 DEF CommitUser, In
    <3> QED BY <3>1, <3>2, <3>3
  <2>2. CASE ~CommitUser(u)
    BY <2>2 DEF InsertUser, CommandLineUser, RollBackUser, TInv, TeamTypeOK
  <2> QED BY <2>1, <2>2
<1>7. NewcomersEnrolled' BY <1>4, <1>5 DEF TInv, NewcomersEnrolled
<1>8. EveryoneEnrolled' BY <1>2, <1>4, <1>6 DEF TInv, EveryoneEnrolled
<1> QED BY <1>3, <1>7, <1>8 DEF TInv

\* No administrator's request takes the Default team or its members away.
LEMMA AdministrationStep ==
  ASSUME TInv, TeamTypeOK',
         \/ \E u \in Users, t \in AllTeams : AddMember(u, t) \/ RemoveMember(u, t)
         \/ \E t \in MoreTeams : CreateTeam(t) \/ DeleteTeam(t)
  PROVE  TInv'
<1>1. boot' = boot /\ user' = user /\ enrolled' = enrolled /\ early' = early
  BY DEF AddMember, RemoveMember, CreateTeam, DeleteTeam
<1>2. "default" \in team => "default" \in team'
  BY DEF AddMember, RemoveMember, CreateTeam, DeleteTeam
<1>3. In("default") \subseteq In("default")'
  BY DEF AddMember, RemoveMember, CreateTeam, DeleteTeam, Removable, In
<1>4. There' = There BY <1>1 DEF There
<1> QED BY <1>1, <1>2, <1>3, <1>4
        DEF TInv, TeamStands, ReadingsHold, ListComplete, NewcomersEnrolled, EveryoneEnrolled,
            Booting

\* Every step keeps the invariant.
LEMMA TeamStep == TInv /\ [TeamNext]_teamVars => TInv'
<1> SUFFICES ASSUME TInv, [TeamNext]_teamVars PROVE TInv'
  OBVIOUS
<1>0. TeamTypeOK BY DEF TInv
<1>1. CASE \E b \in Boots : Find(b) \/ List(b) \/ Up(b) \/ BootFails(b)
  BY <1>0, <1>1, BootTypes, BootStep
<1>2. CASE \E u \in Users :
             InsertUser(u) \/ CommandLineUser(u) \/ CommitUser(u) \/ RollBackUser(u)
  BY <1>0, <1>2, UserTypes, UserStep
<1>3. CASE \/ \E u \in Users, t \in AllTeams : AddMember(u, t) \/ RemoveMember(u, t)
           \/ \E t \in MoreTeams : CreateTeam(t) \/ DeleteTeam(t)
  BY <1>0, <1>3, AdministrationTypes, AdministrationStep
<1>4. CASE UNCHANGED teamVars
  BY <1>4 DEF teamVars, TInv, TeamTypeOK, TeamStands, ReadingsHold, ListComplete,
              NewcomersEnrolled, EveryoneEnrolled, Booting, There, In
<1> QED BY <1>1, <1>2, <1>3, <1>4 DEF TeamNext

-----------------------------------------------------------------------------
\* Every user is in the Default team, except those that the command line inserted
\* before the first boot (ensure_default_team, _auto_enroll_new_user).
THEOREM NobodyLeftOut == TeamSpec => []EveryoneEnrolled
<1>1. TeamInit => TInv BY TeamInitInv
<1>2. TInv /\ [TeamNext]_teamVars => TInv' BY TeamStep
<1>3. TInv => EveryoneEnrolled BY DEF TInv
<1> QED BY <1>1, <1>2, <1>3, PTL DEF TeamSpec

\* The handlers of teams and users keep their types.
THEOREM TeamTypesKept == TeamSpec => []TeamTypeOK
<1>1. TeamInit => TInv BY TeamInitInv
<1>2. TInv /\ [TeamNext]_teamVars => TInv' BY TeamStep
<1>3. TInv => TeamTypeOK BY DEF TInv
<1> QED BY <1>1, <1>2, <1>3, PTL DEF TeamSpec
-----------------------------------------------------------------------------
(* PluginSettings *)

\* A save that has met no other is the only one there is.
SavesAlone ==
  \A u \in Clients : client[u].saving /\ ~client[u].met =>
    \A w \in Clients \ {u} : ~client[w].saving

\* A save leaves the fields it does not change as it has read them, and what it has
\* read is what is stored, but for fields that saves beside it have typed.
UntypedKept ==
  \A u \in Clients :
    /\ ~client[u].saving => client[u] = AtRest
    /\ client[u].saving => \A f \in Fields :
         /\ f \notin client[u].posted => client[u].merged[f] = client[u].seen[f]
         /\ f \in client[u].masks =>
              client[u].merged[f] = "mask" /\ f \in client[u].posted \ Required
         /\ f \notin overran \/ ~client[u].met => client[u].seen[f] = config[f]

SInv == SettingsTypeOK /\ SavesAlone /\ UntypedKept /\ SecretKept

\* The empty configuration, and nobody saving, satisfies the invariant.
LEMMA SettingsInitInv == SettingsInit => SInv
<1> SUFFICES ASSUME SettingsInit PROVE SInv
  OBVIOUS
<1>1. AtRest \in Saves
  BY DEF AtRest, Saves, Value
<1>2. AtRest.saving = FALSE
  BY DEF AtRest
<1>3. SettingsTypeOK
  BY <1>1 DEF SettingsInit, SettingsTypeOK, Value
<1> QED BY <1>2, <1>3 DEF SettingsInit, SInv, SavesAlone, UntypedKept, SecretKept

\* Loading the row keeps the invariant, whatever is typed.
LEMMA SaveInv ==
  ASSUME SInv, NEW u \in Clients, NEW posted \in SUBSET Fields, NEW masks \in SUBSET (posted \ Required),
         NEW merged \in [Fields -> Value], Save(u, posted, masks, merged),
         \A f \in Fields \ posted : merged[f] = config[f],
         \A f \in masks : merged[f] = "mask"
  PROVE  SInv'
<1> DEFINE beside == \E x \in Clients : client[x].saving
           started == [saving |-> TRUE, seen |-> config, merged |-> merged,
                       posted |-> posted, masks |-> masks, met |-> beside]
<1>a. SettingsTypeOK /\ SavesAlone /\ UntypedKept /\ SecretKept
  BY DEF SInv
<1>b. UNCHANGED <<config, last, masked, overran>>
  BY DEF Save
<1>1. client'[u] = started
  BY DEF Save
<1>2. \A w \in Clients \ {u} :
        client'[w] = IF client[w].saving THEN [client[w] EXCEPT !.met = TRUE] ELSE client[w]
  BY DEF Save
<1>3. client' = [w \in Clients |-> client'[w]]
  BY DEF Save
<1>4. \A w \in Clients \ {u} :
        /\ client'[w].saving = client[w].saving /\ client'[w].seen = client[w].seen
        /\ client'[w].merged = client[w].merged /\ client'[w].posted = client[w].posted
        /\ client'[w].masks = client[w].masks
        /\ client[w].saving => client'[w].met
        /\ ~client[w].saving => client'[w] = client[w]
  BY <1>a, <1>2 DEF SettingsTypeOK, Saves
<1>c. started \in Saves
  BY <1>a DEF SettingsTypeOK, Saves
<1>d. /\ started.saving /\ started.met = beside
      /\ started.seen = config /\ started.merged = merged /\ started.posted = posted /\ started.masks = masks
  OBVIOUS
<1> HIDE DEF started
<1>5. SettingsTypeOK'
  <2>1. \A w \in Clients : client'[w] \in
          Saves
    <3> SUFFICES ASSUME NEW w \in Clients
                 PROVE  client'[w] \in
                   Saves
      OBVIOUS
    <3>1. client[w] \in Saves
      BY <1>a DEF SettingsTypeOK
    <3>2. [client[w] EXCEPT !.met = TRUE] \in
            Saves
      BY <3>1 DEF Saves
    <3>3. CASE w = u
      BY <1>c, <1>1, <3>3
    <3>4. CASE w # u
      <4>1. client'[w] = client[w] \/ client'[w] = [client[w] EXCEPT !.met = TRUE]
        BY <1>2, <3>4
      <4> QED BY <3>1, <3>2, <4>1
    <3> QED BY <3>3, <3>4
  <2> QED BY <1>a, <1>b, <1>3, <2>1 DEF SettingsTypeOK
<1>6. SavesAlone'
  BY <1>1, <1>4, <1>d DEF SavesAlone
<1>7. UntypedKept'
  BY <1>a, <1>b, <1>1, <1>4, <1>d DEF UntypedKept
<1>8. SecretKept'
  BY <1>a, <1>b DEF SecretKept
<1> QED BY <1>5, <1>6, <1>7, <1>8 DEF SInv

\* Every step keeps the invariant: a request begins, commits or is rolled back.
LEMMA SettingsStepInv == SInv /\ [SettingsNext]_settingVars => SInv'
<1> SUFFICES ASSUME SInv, [SettingsNext]_settingVars PROVE SInv'
  OBVIOUS
<1>a. SettingsTypeOK /\ SavesAlone /\ UntypedKept /\ SecretKept
  BY DEF SInv
<1>b. AtRest \in Saves
      /\ AtRest.saving = FALSE /\ AtRest.posted = {} /\ AtRest.masks = {}
  BY DEF AtRest, Saves, Value
<1>0. CASE UNCHANGED settingVars
  BY <1>0, <1>a DEF settingVars, SInv, SettingsTypeOK, SavesAlone, UntypedKept, SecretKept
<1>1. ASSUME NEW u \in Clients, NEW form \in [Fields -> Posted], PostForm(u, form)
      PROVE  SInv'
  <2> DEFINE posted == {f \in Fields : form[f] \in Typed}
             merged == [f \in Fields |-> Merged(config[f], form[f])]
  <2>1. Save(u, posted, {}, merged)
    BY <1>1 DEF PostForm
  <2>2. \A f \in Fields : Merged(config[f], form[f]) \in Value
    BY <1>a DEF Merged, Posted, Value, SettingsTypeOK
  <2>3. \A f \in Fields \ posted : merged[f] = config[f]
    BY DEF Merged, Posted
  <2> HIDE DEF posted
  <2>4. merged \in [Fields -> Value]
    BY <2>2
  <2>5. posted \in SUBSET Fields
    BY DEF posted
  <2> HIDE DEF merged
  <2> QED BY <2>1, <2>3, <2>4, <2>5, SaveInv
<1>2. ASSUME NEW u \in Clients, NEW form \in [Fields -> Posted], RegisterPlugin(u, form)
      PROVE  SInv'
  <2> DEFINE merged == [f \in Fields |-> IF form[f] = "absent" THEN "none" ELSE form[f]]
             masks == {f \in Fields : form[f] = "mask"}
  <2>1. Save(u, Fields, masks, merged)
    BY <1>2 DEF RegisterPlugin
  <2>3. masks \in SUBSET (Fields \ Required) /\ \A f \in masks : merged[f] = "mask"
    BY <1>2, SettingsAssumption DEF RegisterPlugin
  <2>2. merged \in [Fields -> Value]
    BY DEF Posted, Value
  <2> HIDE DEF merged, masks
  <2> QED BY <2>1, <2>2, <2>3, SaveInv
<1>3. ASSUME NEW u \in Clients, SaveConfig(u) PROVE SInv'
  <2> DEFINE c == client[u]
  <2>1. /\ c.saving
        /\ config' = IF c.merged = c.seen THEN config ELSE c.merged
        /\ last' = [f \in Fields |-> IF f \in c.posted \ c.masks THEN c.merged[f] ELSE last[f]]
        /\ masked' = (masked \ c.posted) \cup c.masks
        /\ overran' = IF c.met
                      THEN overran \cup c.posted \cup
                             UNION {client[w].posted : w \in Clients \ {u}}
                      ELSE overran \ c.posted
        /\ client' = [client EXCEPT ![u] = AtRest]
    BY <1>3 DEF SaveConfig
  <2>2. c \in Saves
    BY <1>a DEF SettingsTypeOK
  <2>0. /\ c.posted \subseteq Fields /\ c.masks \subseteq Fields /\ c.merged \in [Fields -> Value]
    BY <2>2 DEF Saves
  <2>3. /\ ~c.met => \A w \in Clients \ {u} : ~client[w].saving
        /\ \A f \in Fields : /\ f \notin c.posted => c.merged[f] = c.seen[f]
                             /\ f \notin overran \/ ~c.met => c.seen[f] = config[f]
                             /\ f \in c.masks => c.merged[f] = "mask" /\ f \in c.posted \ Required
    BY <1>a, <2>1 DEF SavesAlone, UntypedKept
  <2>4. /\ \A w \in Clients \ {u} : client'[w] = client[w]
        /\ client'[u] = AtRest
    BY <1>a, <2>1 DEF SettingsTypeOK
  <2>5. \A w \in Clients : client[w].posted \subseteq Fields
    BY <1>a DEF SettingsTypeOK, Saves
  <2> HIDE DEF c
  <2>6. SettingsTypeOK'
    BY <1>a, <1>b, <2>0, <2>1, <2>5 DEF SettingsTypeOK
  <2>7. SavesAlone'
    BY <1>a, <1>b, <2>4 DEF SavesAlone
  <2>8. \A f \in Fields \ (overran \cup c.posted) : config'[f] = config[f]
    BY <2>1, <2>3
  <2>9. UntypedKept'
    <3> SUFFICES ASSUME NEW w \in Clients \ {u}, client[w].saving, NEW f \in Fields,
                        f \notin overran' \/ ~client[w].met
                 PROVE  client[w].seen[f] = config'[f]
      BY <1>a, <1>b, <2>4 DEF UntypedKept
    <3>1. c.met /\ client[w].met
      BY <1>a, <2>1, <2>3 DEF SavesAlone, c
    <3>2. f \notin overran /\ f \notin c.posted
      BY <2>1, <3>1
    <3> QED BY <1>a, <2>8, <3>2 DEF UntypedKept
  <2>10. SecretKept'
    <3>0. masked' \cap Required = {} BY <1>a, <2>0, <2>1, <2>3 DEF SecretKept
    <3> SUFFICES ASSUME NEW f \in Fields, f \notin overran'
                 PROVE  config'[f] = IF f \in masked' THEN "mask" ELSE last'[f]
      BY <3>0 DEF SecretKept
    <3>1. CASE f \in c.posted
      <4>1. /\ ~c.met /\ (f \in masked' <=> f \in c.masks)
            /\ f \notin c.masks => last'[f] = c.merged[f]
            /\ f \in c.masks => c.merged[f] = "mask"
        BY <2>1, <2>3, <3>1
      <4>2. config'[f] = c.merged[f] BY <2>1, <2>3, <4>1
      <4> QED BY <4>1, <4>2
    <3>2. CASE f \notin c.posted
      <4>1. f \notin overran /\ last'[f] = last[f] /\ (f \in masked' <=> f \in masked)
        BY <2>1, <2>3, <3>2
      <4> QED BY <1>a, <2>8, <3>2, <4>1 DEF SecretKept
    <3> QED BY <3>1, <3>2
  <2> QED BY <2>6, <2>7, <2>9, <2>10 DEF SInv
<1>4. ASSUME NEW u \in Clients, SaveLost(u) PROVE SInv'
  <2>1. /\ \A w \in Clients \ {u} : client'[w] = client[w]
        /\ client'[u] = AtRest
        /\ UNCHANGED <<config, last, masked, overran>>
    BY <1>4, <1>a DEF SaveLost, SettingsTypeOK
  <2>2. SettingsTypeOK'
    BY <1>4, <1>a, <1>b DEF SaveLost, SettingsTypeOK
  <2>3. SavesAlone' /\ UntypedKept' /\ SecretKept'
    BY <1>a, <1>b, <2>1 DEF SavesAlone, UntypedKept, SecretKept
  <2> QED BY <2>2, <2>3 DEF SInv
<1> QED BY <1>0, <1>1, <1>2, <1>3, <1>4 DEF SettingsNext

\* A stored secret is the one typed last, for any number of fields, forms and saves, but for
\* the optional ones in whose place a registration has put the mask.
THEOREM SecretsKept == SettingsSpec => []SecretKept
<1>1. SInv => SecretKept
  BY DEF SInv
<1> QED BY <1>1, SettingsInitInv, SettingsStepInv, PTL DEF SettingsSpec
-----------------------------------------------------------------------------
(* SavedDefaults *)

\* A request that has met no other is the only one, and its UPDATE has cleared every
\* flag that is set, or its own.
ChoicesAlone ==
  \A h \in Savers : saver[h] # NotSaving /\ ~saver[h].meets =>
    /\ \A g \in Savers \ {h} : saver[g] = NotSaving
    /\ IF saver[h].kind = "unset"
       THEN /\ saver[h].cleared \subseteq {saver[h].id}
            /\ isDefault \cap {saver[h].id} \subseteq saver[h].cleared
       ELSE isDefault \subseteq saver[h].cleared

\* A request has an item.
SavedIds == \A h \in Savers : saver[h] # NotSaving => saver[h].id \in Items

DInv == SavedTypeOK /\ SavedIds /\ ChoicesAlone /\ DefaultIsLastChoice

\* Nothing is saved and nothing is the default at first.
LEMMA SavedInitInv == SavedInit => DInv
<1> SUFFICES ASSUME SavedInit PROVE DInv
  OBVIOUS
<1>1. NotSaving \in [id : Items \cup {"none"}, kind : SavingKinds \cup {"free"},
                     cleared : SUBSET Items, meets : BOOLEAN]
  BY DEF NotSaving
<1> QED BY <1>1 DEF SavedInit, DInv, SavedTypeOK, SavedIds, ChoicesAlone, DefaultIsLastChoice

\* Every step keeps the invariant: an UPDATE, a commit, a rollback, a plain save, a
\* delete.
LEMMA SavedStepInv == DInv /\ [SavedNext]_savedVars => DInv'
<1> SUFFICES ASSUME DInv, [SavedNext]_savedVars PROVE DInv'
  OBVIOUS
<1> DEFINE Request == [id : Items \cup {"none"}, kind : SavingKinds \cup {"free"},
                       cleared : SUBSET Items, meets : BOOLEAN]
<1>a. SavedTypeOK /\ SavedIds /\ ChoicesAlone /\ DefaultIsLastChoice
  BY DEF DInv
<1>b. NotSaving \in Request
  BY DEF NotSaving
<1>c. saver \in [Savers -> Request] /\ isDefault \subseteq Items
  BY <1>a DEF SavedTypeOK
<1>0. CASE UNCHANGED savedVars
  BY <1>0, <1>a DEF savedVars, DInv, SavedTypeOK, SavedIds, ChoicesAlone, DefaultIsLastChoice
<1>1. ASSUME NEW h \in Savers, NEW x \in Items, NEW kind \in SavingKinds,
             StartSaving(h, x, kind)
      PROVE  DInv'
  <2> DEFINE beside == \E g \in Savers : saver[g] # NotSaving
             clears == IF kind = "unset" THEN isDefault \cap {x} ELSE isDefault
             new == [id |-> x, kind |-> kind, meets |-> beside, cleared |-> clears]
  <2>1. saver' = [g \in Savers |->
          IF g = h THEN new
          ELSE IF saver[g] = NotSaving THEN NotSaving ELSE [saver[g] EXCEPT !.meets = TRUE]]
    BY <1>1 DEF StartSaving, Cleared
  <2>2. UNCHANGED <<item, isDefault, chosen, contested>>
    BY <1>1 DEF StartSaving
  <2>3. /\ new \in Request /\ new.id = x /\ new.kind = kind
        /\ new.meets = beside /\ new.cleared = clears
    BY <1>c
  <2>4. /\ clears \subseteq isDefault
        /\ kind # "unset" => clears = isDefault
        /\ kind = "unset" => clears = isDefault \cap {x}
    OBVIOUS
  <2> HIDE DEF new, clears
  <2>5. /\ saver'[h] = new
        /\ \A g \in Savers \ {h} :
             /\ saver[g] = NotSaving => saver'[g] = NotSaving
             /\ saver[g] # NotSaving => saver'[g] = [saver[g] EXCEPT !.meets = TRUE]
    BY <2>1
  <2>6. ASSUME NEW g \in Savers \ {h}, saver[g] # NotSaving PROVE saver'[g].meets
    <3>1. saver[g] \in Request
      BY <1>c
    <3>2. [saver[g] EXCEPT !.meets = TRUE].meets
      BY <3>1
    <3>3. saver'[g] = [saver[g] EXCEPT !.meets = TRUE]
      BY <2>5, <2>6
    <3> HIDE DEF Request
    <3> QED BY <3>2, <3>3, Zenon
  <2>7. \A g \in Savers : saver'[g] \in Request
    <3> SUFFICES ASSUME NEW g \in Savers PROVE saver'[g] \in Request
      OBVIOUS
    <3>1. saver[g] \in Request /\ [saver[g] EXCEPT !.meets = TRUE] \in Request
      BY <1>c
    <3> HIDE DEF Request
    <3> QED BY <1>b, <2>3, <2>5, <3>1
  <2>8. SavedTypeOK'
    BY <1>a, <2>1, <2>2, <2>7 DEF SavedTypeOK
  <2>9. ChoicesAlone'
    <3> SUFFICES ASSUME NEW k \in Savers, saver'[k] # NotSaving, ~saver'[k].meets
                 PROVE  /\ \A g \in Savers \ {k} : saver'[g] = NotSaving
                        /\ IF saver'[k].kind = "unset"
                           THEN /\ saver'[k].cleared \subseteq {saver'[k].id}
                                /\ isDefault' \cap {saver'[k].id} \subseteq saver'[k].cleared
                           ELSE isDefault' \subseteq saver'[k].cleared
      BY DEF ChoicesAlone
    <3>1. k = h
      BY <2>5, <2>6
    <3>2. ~beside
      BY <2>3, <2>5, <3>1
    <3>3. \A g \in Savers \ {k} : saver'[g] = NotSaving
      BY <2>5, <3>1, <3>2
    <3> HIDE DEF beside
    <3>4. saver'[k].kind = kind /\ saver'[k].cleared = clears /\ saver'[k].id = x
      BY <2>3, <2>5, <3>1
    <3> QED BY <2>2, <2>4, <3>3, <3>4
  <2>10. DefaultIsLastChoice'
    BY <1>a, <2>2 DEF DefaultIsLastChoice
  <2>11. SavedIds'
    <3> SUFFICES ASSUME NEW g \in Savers, saver'[g] # NotSaving PROVE saver'[g].id \in Items
      BY DEF SavedIds
    <3>1. CASE g = h
      BY <2>3, <2>5, <3>1
    <3>2. CASE g # h
      BY <1>a, <1>c, <2>5, <3>2 DEF SavedIds
    <3> QED BY <3>1, <3>2
  <2> QED BY <2>8, <2>9, <2>10, <2>11 DEF DInv
<1>2. ASSUME NEW h \in Savers, EndSaving(h) PROVE DInv'
  <2> DEFINE s == saver[h]
             written == IF s.kind = "unset" THEN {} ELSE {s.id}
  <2>1. /\ s # NotSaving
        /\ s.kind = "create" \/ Saved(s.id)
        /\ item' = [item EXCEPT ![s.id] = "saved"]
        /\ isDefault' = (isDefault \ s.cleared) \cup written
        /\ chosen' = IF s.kind # "unset" THEN s.id ELSE IF chosen = s.id THEN "none" ELSE chosen
        /\ contested' = IF s.kind = "unset" THEN contested \/ s.meets ELSE s.meets
        /\ saver' = [saver EXCEPT ![h] = NotSaving]
    BY <1>2 DEF EndSaving
  <2>2. s \in Request
    BY <1>c
  <2>3. s.id \in Items
    BY <1>a, <1>2 DEF EndSaving, SavedIds
  <2>4. SavedTypeOK'
    BY <1>a, <1>b, <2>1, <2>2, <2>3 DEF SavedTypeOK
  <2>5. saver'[h] = NotSaving /\ \A g \in Savers \ {h} : saver'[g] = saver[g]
    BY <1>c, <2>1
  <2>6. ~s.meets =>
          /\ \A g \in Savers \ {h} : saver[g] = NotSaving
          /\ s.kind = "unset" => /\ s.cleared \subseteq {s.id}
                                 /\ isDefault \cap {s.id} \subseteq s.cleared
          /\ s.kind # "unset" => isDefault \subseteq s.cleared
    BY <1>a, <2>1 DEF ChoicesAlone
  <2>7. ChoicesAlone'
    BY <1>a, <2>1, <2>5 DEF ChoicesAlone
  <2>8. DefaultIsLastChoice'
    <3> SUFFICES ASSUME ~contested'
                 PROVE  isDefault' = IF chosen' = "none" THEN {} ELSE {chosen'}
      BY DEF DefaultIsLastChoice
    <3>1. ~s.meets
      BY <1>a, <2>1, <2>2 DEF SavedTypeOK
    <3>2. CASE s.kind # "unset"
      BY <2>1, <2>3, <2>6, <3>1, <3>2, SavedAssumption
    <3>3. CASE s.kind = "unset"
      <4>1. ~contested /\ isDefault = (IF chosen = "none" THEN {} ELSE {chosen})
        BY <1>a, <2>1, <3>1, <3>3 DEF DefaultIsLastChoice, SavedTypeOK
      <4>2. isDefault' = isDefault \ {s.id}
        BY <2>1, <2>6, <3>1, <3>3
      <4>3. chosen' = IF chosen = s.id THEN "none" ELSE chosen
        BY <2>1, <3>3
      <4> HIDE DEF s
      <4> QED BY <2>3, <4>1, <4>2, <4>3, SavedAssumption
    <3> QED BY <3>2, <3>3
  <2>9. SavedIds'
    BY <1>a, <2>5 DEF SavedIds
  <2> QED BY <2>4, <2>7, <2>8, <2>9 DEF DInv
<1>3. ASSUME NEW h \in Savers, StopSaving(h) PROVE DInv'
  <2>1. /\ saver'[h] = NotSaving /\ \A g \in Savers \ {h} : saver'[g] = saver[g]
        /\ UNCHANGED <<item, isDefault, chosen, contested>>
    BY <1>3, <1>c DEF StopSaving
  <2>2. SavedTypeOK'
    BY <1>3, <1>a, <1>b DEF StopSaving, SavedTypeOK
  <2>3. ChoicesAlone' /\ SavedIds'
    BY <1>a, <2>1 DEF ChoicesAlone, SavedIds
  <2> QED BY <1>a, <2>1, <2>2, <2>3 DEF DInv, DefaultIsLastChoice
<1>4. ASSUME NEW x \in Items, SavePlain(x) PROVE DInv'
  BY <1>4, <1>a DEF SavePlain, DInv, SavedTypeOK, SavedIds, ChoicesAlone, DefaultIsLastChoice
<1>5. ASSUME NEW x \in Items, DeleteSaved(x) PROVE DInv'
  <2>1. /\ isDefault' = isDefault \ {x} /\ UNCHANGED <<saver, contested>>
        /\ chosen' = IF chosen = x THEN "none" ELSE chosen
    BY <1>5 DEF DeleteSaved
  <2>2. SavedTypeOK'
    BY <1>5, <1>a DEF DeleteSaved, SavedTypeOK
  <2>3. ChoicesAlone' /\ SavedIds'
    BY <1>a, <2>1 DEF ChoicesAlone, SavedIds
  <2>4. DefaultIsLastChoice'
    BY <1>a, <2>1, SavedAssumption DEF DefaultIsLastChoice
  <2> QED BY <2>2, <2>3, <2>4 DEF DInv
<1> QED BY <1>0, <1>1, <1>2, <1>3, <1>4, <1>5 DEF SavedNext

\* The default is the item chosen last and no other, for any number of items and of
\* requests, unless choices overlapped.
THEOREM OneDefault == SavedSpec => []DefaultIsLastChoice
<1>1. DInv => DefaultIsLastChoice
  BY DEF DInv
<1> QED BY <1>1, SavedInitInv, SavedStepInv, PTL DEF SavedSpec

-----------------------------------------------------------------------------
(* PluginSchedule *)

\* Runs started in the past, and a scheduler that nobody has disturbed may start one:
\* the interval it checked has passed since every run.
StillDue ==
  /\ \A r \in runs : r.at <= hour
  /\ \A c \in Schedulers : checking[c].on /\ ~checking[c].met =>
       \A r \in runs : checking[c].every = 0 \/ hour >= r.at + checking[c].every

PInv == ScheduleTypeOK /\ StillDue /\ RunsSpaced

\* The latest run is the latest: what is due after it is due after every run.
LEMMA DueAfterAll ==
  ASSUME ScheduleTypeOK, Due, NEW r \in runs
  PROVE  every = 0 \/ hour >= r.at + every
<1> DEFINE ages == {LastHour - s.at : s \in runs}
<1>1. LastHour \in Nat /\ hour \in Int /\ every \in Nat
  BY ScheduleAssumption DEF ScheduleTypeOK, Hours
<1>2. \A s \in runs : s.at \in Hours
  BY DEF ScheduleTypeOK
<1>3. ages \subseteq Nat /\ ages # {}
  BY <1>1, <1>2 DEF Hours
<1>4. PICK a \in ages : \A b \in ages : ~(<<b, a>> \in OpToRel(<, Nat))
  BY <1>3, WFMin, NatLessThanWellFounded, Zenon
<1>5. PICK l \in runs : a = LastHour - l.at
  BY <1>4
<1>6. \A s \in runs : s.at <= l.at
  <2> SUFFICES ASSUME NEW s \in runs PROVE s.at <= l.at
    OBVIOUS
  <2>1. LastHour - s.at \in ages
    OBVIOUS
  <2>2. ~(LastHour - s.at < a)
    BY <1>3, <1>4, <2>1 DEF OpToRel
  <2> QED BY <1>1, <1>2, <1>5, <2>2 DEF Hours
<1>7. l \in Latest
  BY <1>6 DEF Latest
<1>8. every = 0 \/ hour >= l.at + every
  BY <1>7 DEF Due
<1> QED BY <1>1, <1>2, <1>6, <1>8 DEF Hours

\* Nothing has run at first.
LEMMA ScheduleInitInv == ScheduleInit => PInv
<1> SUFFICES ASSUME ScheduleInit PROVE PInv
  OBVIOUS
<1>1. NoCheck \in [on : BOOLEAN, every : Intervals \cup {0}, met : BOOLEAN] /\ ~NoCheck.on
  BY DEF NoCheck
<1> QED
  BY <1>1, ScheduleAssumption DEF ScheduleInit, PInv, ScheduleTypeOK, StillDue, RunsSpaced, Hours

\* Times and intervals are numbers.
LEMMA ScheduleNumbers ==
  ASSUME ScheduleTypeOK
  PROVE  /\ Intervals \cup {0} \subseteq Nat
         /\ hour \in Int /\ every \in Nat
         /\ \A r \in runs : r.at \in Int /\ r.every \in Nat
         /\ \A c \in Schedulers : checking[c].every \in Nat
<1>1. Intervals \cup {0} \subseteq Nat /\ Hours \subseteq Int
  BY ScheduleAssumption DEF Hours
<1>2. hour \in Hours /\ every \in Intervals \cup {0}
  BY DEF ScheduleTypeOK
<1>3. \A r \in runs : r.at \in Hours /\ r.every \in Intervals \cup {0}
  BY DEF ScheduleTypeOK
<1>4. \A c \in Schedulers : checking[c].every \in Intervals \cup {0}
  BY DEF ScheduleTypeOK
<1> QED BY <1>1, <1>2, <1>3, <1>4

\* Creating a run keeps the invariant, when it is due or nobody claims it is.
LEMMA CreatedInv ==
  ASSUME PInv, NEW how \in {"due", "met", "asked"}, NEW n \in Intervals \cup {0}, NEW by,
         Created(how, n, by),
         how = "due" => \A r \in runs : n = 0 \/ hour >= r.at + n
  PROVE  PInv'
<1> DEFINE new == [at |-> hour, how |-> how, every |-> n]
<1>a. ScheduleTypeOK /\ StillDue /\ RunsSpaced
  BY DEF PInv
<1>1. runs' = runs \cup {new} /\ UNCHANGED <<hour, every, enabled>>
  BY DEF Created
<1>2. checking' = [c \in Schedulers |->
        IF c = by THEN NoCheck
        ELSE IF checking[c].on THEN [checking[c] EXCEPT !.met = TRUE] ELSE checking[c]]
  BY DEF Created
<1>3. /\ new.at = hour /\ new.how = how /\ new.every = n
      /\ new \in [at : Hours, how : {"due", "met", "asked"}, every : Intervals \cup {0}]
  BY <1>a DEF ScheduleTypeOK
<1> HIDE DEF new
<1>4. NoCheck \in [on : BOOLEAN, every : Intervals \cup {0}, met : BOOLEAN] /\ ~NoCheck.on
  BY DEF NoCheck
<1>5. ScheduleTypeOK'
  BY <1>a, <1>1, <1>2, <1>3, <1>4 DEF ScheduleTypeOK
<1>6. \A c \in Schedulers : ~checking'[c].on \/ checking'[c].met
  BY <1>a, <1>2, <1>4 DEF ScheduleTypeOK
<1>7. hour \in Int /\ n \in Nat /\ \A r \in runs : r.at \in Int /\ r.every \in Nat
  BY <1>a, ScheduleNumbers
<1>8. StillDue'
  BY <1>a, <1>1, <1>3, <1>6, <1>7 DEF StillDue
<1>9. RunsSpaced'
  <2> SUFFICES ASSUME NEW r \in runs', NEW s \in runs', r.how = "due", s.at < r.at
               PROVE  r.at - s.at >= r.every
    BY DEF RunsSpaced
  <2>1. CASE r \in runs /\ s \in runs
    BY <1>a, <2>1 DEF RunsSpaced
  <2>2. CASE r \in runs /\ s = new
    BY <1>a, <1>3, <1>7, <2>2 DEF StillDue
  <2>3. CASE r = new /\ s \in runs
    BY <1>3, <1>7, <2>3
  <2>4. CASE r = new /\ s = new
    BY <1>3, <1>7, <2>4
  <2> QED BY <1>1, <2>1, <2>2, <2>3, <2>4
<1> QED BY <1>5, <1>8, <1>9 DEF PInv

\* Every step keeps the invariant.
LEMMA ScheduleStepInv == PInv /\ [ScheduleNext]_scheduleVars => PInv'
<1> SUFFICES ASSUME PInv, [ScheduleNext]_scheduleVars PROVE PInv'
  OBVIOUS
<1>a. ScheduleTypeOK /\ StillDue /\ RunsSpaced
  BY DEF PInv
<1>b. hour \in Int /\ every \in Nat /\ \A r \in runs : r.at \in Int /\ r.every \in Nat
  BY <1>a, ScheduleNumbers
<1>c. \A c \in Schedulers : checking[c].every \in Nat
  BY <1>a, ScheduleNumbers
<1>d. NoCheck \in [on : BOOLEAN, every : Intervals \cup {0}, met : BOOLEAN] /\ ~NoCheck.on
  BY DEF NoCheck
<1>0. CASE UNCHANGED scheduleVars
  BY <1>0, <1>a DEF scheduleVars, PInv, ScheduleTypeOK, StillDue, RunsSpaced
<1>1. ASSUME NEW n \in Intervals \cup {0}, NEW on \in BOOLEAN, SetInterval(n, on) PROVE PInv'
  BY <1>1, <1>a DEF SetInterval, PInv, ScheduleTypeOK, StillDue, RunsSpaced
<1>2. ASSUME NEW c \in Schedulers, CheckDue(c) PROVE PInv'
  <2>1. \A r \in runs : every = 0 \/ hour >= r.at + every
    BY <1>2, <1>a, DueAfterAll DEF CheckDue
  <2>2. /\ checking'[c] = [on |-> TRUE, every |-> every, met |-> FALSE]
        /\ \A d \in Schedulers \ {c} : checking'[d] = checking[d]
        /\ UNCHANGED <<hour, every, enabled, runs>>
    BY <1>2, <1>a DEF CheckDue, ScheduleTypeOK
  <2>3. ScheduleTypeOK'
    BY <1>2, <1>a DEF CheckDue, ScheduleTypeOK
  <2>4. StillDue'
    BY <1>a, <2>1, <2>2 DEF StillDue
  <2> QED BY <1>a, <2>2, <2>3, <2>4 DEF PInv, RunsSpaced
<1>3. ASSUME NEW c \in Schedulers, StartRun(c) PROVE PInv'
  <2> DEFINE how == IF checking[c].met THEN "met" ELSE "due"
  <2>1. checking[c].on /\ Created(how, checking[c].every, c)
    BY <1>3 DEF StartRun
  <2>2. checking[c].every \in Intervals \cup {0}
    BY <1>a DEF ScheduleTypeOK
  <2>3. how \in {"due", "met", "asked"}
    OBVIOUS
  <2>4. how = "due" =>
          \A r \in runs : checking[c].every = 0 \/ hour >= r.at + checking[c].every
    BY <1>a, <2>1 DEF StillDue
  <2> HIDE DEF how
  <2> QED BY <2>1, <2>2, <2>3, <2>4, CreatedInv
<1>4. ASSUME RunNow PROVE PInv'
  BY <1>4, CreatedInv DEF RunNow
<1>5. ASSUME NEW c \in Schedulers, CheckLost(c) PROVE PInv'
  <2>1. /\ checking'[c] = NoCheck
        /\ \A d \in Schedulers \ {c} : checking'[d] = checking[d]
        /\ UNCHANGED <<hour, every, enabled, runs>>
    BY <1>5, <1>a DEF CheckLost, ScheduleTypeOK
  <2>2. ScheduleTypeOK'
    BY <1>5, <1>a, <1>d DEF CheckLost, ScheduleTypeOK
  <2>3. StillDue'
    BY <1>a, <1>d, <2>1 DEF StillDue
  <2> QED BY <1>a, <2>1, <2>2, <2>3 DEF PInv, RunsSpaced
<1>6. ASSUME HourPasses PROVE PInv'
  <2>1. hour' = hour + 1 /\ hour < LastHour /\ UNCHANGED <<every, enabled, checking, runs>>
    BY <1>6 DEF HourPasses
  <2>2. ScheduleTypeOK'
    BY <1>a, <2>1, ScheduleAssumption DEF ScheduleTypeOK, Hours
  <2>3. StillDue'
    BY <1>a, <1>b, <1>c, <2>1 DEF StillDue
  <2> QED BY <1>a, <2>1, <2>2, <2>3 DEF PInv, RunsSpaced
<1> QED BY <1>0, <1>1, <1>2, <1>3, <1>4, <1>5, <1>6 DEF ScheduleNext

\* A scheduled run keeps its distance, for any intervals, schedulers and span of time.
THEOREM ScheduledRunsSpaced == ScheduleSpec => []RunsSpaced
<1>1. PInv => RunsSpaced
  BY DEF PInv
<1> QED BY <1>1, ScheduleInitInv, ScheduleStepInv, PTL DEF ScheduleSpec

-----------------------------------------------------------------------------
(* Accounts.  The argument is one of versions: a request that nobody      *)
(* overlapped has loaded the version the account still has, so its commit *)
(* is the successor of every version a token of the account carries.      *)

AnyLoaded == [role : Roles \cup {"none"}, status : {"none", "active", "inactive"}, version : Nat]
AnyChange ==
  [phase : {"idle", "loaded", "flushed"}, whom : People \cup {Nobody},
   kind : Kinds \cup {"none"}, role : Roles \cup {"none"},
   status : {"none", "active", "inactive"}, seen : AnyLoaded, at : Int,
   before : SUBSET Tokens, met : BOOLEAN]

\* The part of the types the proofs need; versions are not bounded here.
AcctTypes ==
  /\ DOMAIN account = People
  /\ \A p \in People : /\ account[p].role \in Roles \cup {"none"}
                       /\ account[p].status \in {"none", "active", "inactive"}
                       /\ account[p].version \in Nat
                       /\ account[p] # NoAccount => account[p].version # 0
  /\ DOMAIN token = Tokens
  /\ \A t \in Tokens : /\ token[t].owner \in People \cup {Nobody}
                       /\ token[t].version \in Nat
  /\ change \in [Handlers -> AnyChange]
  /\ clock \in Nat /\ void \subseteq Tokens /\ crossed \subseteq People

\* A request changes an account that exists; the tokens it voids are the account's.
ChangesSomebody ==
  \A h \in Handlers :
    /\ Open(h) => change[h].whom \in People /\ account[change[h].whom] # NoAccount
    /\ \A t \in change[h].before : change[h].whom \in People /\ token[t].owner = change[h].whom

\* Unless revocations overlapped, a request that revokes has loaded the version of the
\* account, no token is ahead of it, and a void token is behind it.
VersionsInOrder ==
  /\ \A h \in Handlers : Open(h) /\ change[h].kind # "claims" /\ change[h].whom \notin crossed =>
       change[h].seen.version = account[change[h].whom].version
  /\ \A t \in Tokens : token[t].owner \in People \ crossed =>
       token[t].version <= account[token[t].owner].version
  /\ \A t \in void : /\ token[t].owner \in People
                     /\ token[t].owner \notin crossed =>
                          token[t].version < account[token[t].owner].version

\* What a request goes on to write compares with what it loaded, and what it loaded is
\* what is there unless another change of the row overtook it.
KnowsRow(h) ==
  LET c == change[h] IN
  /\ c.kind \in Kinds
  /\ c.kind = "revoke" => c.role = c.seen.role /\ c.status = c.seen.status
  /\ c.kind = "toggle" => /\ c.role = c.seen.role
                          /\ c.status = IF c.seen.status = "active" THEN "inactive" ELSE "active"
  /\ c.kind = "claims" => c.before = {}
  /\ c.kind # "revoke" /\ ~c.met =>
       c.seen.role = account[c.whom].role /\ c.seen.status = account[c.whom].status

\* An answer to "is there another administrator" holds until the commit, unless one was
\* lost since.
AnswersStand ==
  \A h \in Handlers :
    /\ Open(h) => KnowsRow(h)
    /\ ~change[h].met /\ change[h].phase = "flushed" => LeavesAnAdmin(change[h])

AInv == AcctTypes /\ ChangesSomebody /\ VersionsInOrder /\ AnswersStand

\* A handler at rest holds nothing.
LEMMA NoChangeTyped ==
  /\ NoChange \in AnyChange /\ NoChange.phase = "idle" /\ NoChange.before = {}
<1>1. [role |-> "none", status |-> "none", version |-> 0] \in AnyLoaded
  BY DEF AnyLoaded
<1>2. Never \in Int BY DEF Never
<1> QED BY <1>1, <1>2 DEF NoChange, AnyChange

\* Nobody is registered at first.
LEMMA AcctInitInv == AcctInit => AInv
<1> SUFFICES ASSUME AcctInit PROVE AInv
  OBVIOUS
<1>1. AcctTypes BY NoChangeTyped DEF AcctInit, AcctTypes, NoAccount, Unissued
<1>2. ChangesSomebody BY NoChangeTyped DEF AcctInit, ChangesSomebody, Open
<1>3. Nobody \notin People BY AcctAssumption DEF Nobody
<1>4. VersionsInOrder BY <1>3, NoChangeTyped DEF AcctInit, VersionsInOrder, Open, Unissued
<1>5. AnswersStand BY NoChangeTyped DEF AcctInit, AnswersStand, Open
<1> QED BY <1>1, <1>2, <1>4, <1>5 DEF AInv

\* A void token is not accepted: its version is behind the account's.
LEMMA VoidIsBehind == AInv => RevokedStaysOut
<1> SUFFICES ASSUME AInv, NEW t \in void, Accepted(t) PROVE token[t].owner \in crossed
  BY DEF RevokedStaysOut
<1>1. /\ t \in Tokens /\ token[t].owner \in People /\ token[t].version \in Nat
      /\ token[t].version = account[token[t].owner].version
  BY DEF AInv, AcctTypes, VersionsInOrder, Accepted
<1> QED BY <1>1 DEF AInv, AcctTypes, VersionsInOrder

\* An account comes into being.
LEMMA AcctCreating ==
  ASSUME AInv, NEW p \in People,
         \/ Register(p) \/ \E role \in Roles : Provision(p, role)
         \/ \E role \in Roles, status \in {"active", "inactive"} : CreateUser(p, role, status)
  PROVE  AInv'
<1>1. /\ account[p] = NoAccount /\ token' = token /\ change' = change /\ clock' = clock
      /\ void' = void /\ crossed' = crossed
  BY DEF Register, Provision, CreateUser
<1>2. PICK role \in Roles, status \in {"active", "inactive"} :
        account' = [account EXCEPT ![p] =
             [role |-> role, status |-> status, version |-> 1, revokedAt |-> Never]]
  BY DEF Register, Provision, CreateUser, Roles
<1>3. /\ DOMAIN account' = People
      /\ account'[p].role = role /\ account'[p].status = status /\ account'[p].version = 1
      /\ account'[p] # NoAccount
      /\ \A q \in People \ {p} : account'[q] = account[q]
  BY <1>2 DEF AInv, AcctTypes, NoAccount
<1>4. AcctTypes' BY <1>1, <1>3 DEF AInv, AcctTypes
<1>5. ChangesSomebody' BY <1>1, <1>3 DEF AInv, ChangesSomebody, Open
<1>6. account[p].version = 0 BY <1>1 DEF NoAccount
<1>7. VersionsInOrder'
  <2>1. \A h \in Handlers : Open(h) => change[h].whom \in People \ {p}
    BY <1>1 DEF AInv, ChangesSomebody
  <2>2. ASSUME NEW t \in Tokens, token[t].owner \in People
        PROVE  account[token[t].owner].version <= account'[token[t].owner].version
    BY <1>3, <1>6, <2>2 DEF AInv, AcctTypes
  <2>3. \A h \in Handlers : Open(h)' /\ change'[h].kind # "claims" /\ change'[h].whom \notin crossed' =>
          change'[h].seen.version = account'[change'[h].whom].version
    BY <1>1, <1>3, <2>1 DEF AInv, VersionsInOrder, Open
  <2>4. \A t \in Tokens : token'[t].owner \in People \ crossed' =>
          token'[t].version <= account'[token'[t].owner].version
    BY <1>1, <1>4, <2>2 DEF AInv, AcctTypes, VersionsInOrder
  <2>5. \A t \in void' : /\ token'[t].owner \in People
                         /\ token'[t].owner \notin crossed' =>
                              token'[t].version < account'[token'[t].owner].version
    BY <1>1, <1>4, <2>2 DEF AInv, AcctTypes, VersionsInOrder
  <2> QED BY <2>3, <2>4, <2>5 DEF VersionsInOrder
<1>8. Admins \subseteq Admins'
  <2>1. p \notin Admins BY <1>1 DEF Admins, IsAdmin, NoAccount
  <2> QED BY <1>3, <2>1 DEF Admins, IsAdmin, Active
<1>9. AnswersStand'
  <2>1. \A h \in Handlers : Open(h) => change[h].whom \in People \ {p}
    BY <1>1 DEF AInv, ChangesSomebody
  <2>2. \A h \in Handlers : Open(h)' => KnowsRow(h)'
    BY <1>1, <1>3, <2>1 DEF AInv, AnswersStand, KnowsRow, Open
  <2>3. \A h \in Handlers : ~change'[h].met /\ change'[h].phase = "flushed" => LeavesAnAdmin(change[h])'
    BY <1>1, <1>8 DEF AInv, AnswersStand, LeavesAnAdmin
  <2> QED BY <2>2, <2>3 DEF AnswersStand
<1> QED BY <1>4, <1>5, <1>7, <1>9 DEF AInv

\* A token is issued with the version of its account.
LEMMA AcctIssuing ==
  ASSUME AInv, NEW t \in Tokens, NEW p \in People, Issue(t, p)
  PROVE  AInv'
<1>1. /\ token[t] = Unissued
      /\ token' = [token EXCEPT ![t] =
           [owner |-> p, version |-> account[p].version, iat |-> Second(clock)]]
      /\ account' = account /\ change' = change /\ clock' = clock /\ void' = void
      /\ crossed' = crossed
  BY DEF Issue
<1>2. token[t].owner \notin People BY <1>1, AcctAssumption DEF Unissued, Nobody
<1>3. /\ DOMAIN token' = Tokens
      /\ token'[t].owner = p /\ token'[t].version = account[p].version
      /\ \A u \in Tokens \ {t} : token'[u] = token[u]
  BY <1>1 DEF AInv, AcctTypes
<1>4. AcctTypes' BY <1>1, <1>3 DEF AInv, AcctTypes
<1>5. ChangesSomebody'
  <2>1. \A h \in Handlers : change[h].before \subseteq Tokens
    BY DEF AInv, AcctTypes, AnyChange
  <2>2. \A h \in Handlers : t \notin change[h].before BY <1>2 DEF AInv, ChangesSomebody
  <2> QED BY <1>1, <1>3, <2>1, <2>2 DEF AInv, ChangesSomebody, Open
<1>6. VersionsInOrder'
  <2>1. t \notin void BY <1>2 DEF AInv, VersionsInOrder
  <2>2. account[p].version <= account[p].version BY DEF AInv, AcctTypes
  <2>3. \A u \in Tokens : token'[u].owner \in People \ crossed =>
          token'[u].version <= account[token'[u].owner].version
    BY <1>3, <2>2 DEF AInv, VersionsInOrder
  <2> QED BY <1>1, <1>3, <2>1, <2>3 DEF AInv, AcctTypes, VersionsInOrder, Open
<1>7. AnswersStand'
  BY <1>1 DEF AInv, AnswersStand, KnowsRow, LeavesAnAdmin, Admins, IsAdmin, Active, Open
<1> QED BY <1>4, <1>5, <1>6, <1>7 DEF AInv

\* A request loads the row it is to change.
LEMMA AcctLoading ==
  ASSUME AInv, NEW h \in Handlers, NEW p \in People,
         \/ ToggleActive(h, p) \/ ResetPassword(h, p) \/ EndSessions(h, p)
         \/ \E role \in Roles : FollowClaims(h, p, role)
         \/ \E role \in Roles, status \in {"active", "inactive"} : UpdateUser(h, p, role, status)
  PROVE  AInv'
<1> DEFINE c == change'[h]
<1>1. /\ account[p] # NoAccount /\ account' = account /\ token' = token /\ clock' = clock
      /\ void' = void /\ crossed' = crossed
      /\ \E kind \in Kinds, role \in Roles \cup {"none"},
             status \in {"none", "active", "inactive"} :
           /\ Load(h, p, kind, role, status)
           /\ kind = "revoke" => role = "none" /\ status = "none"
           /\ kind = "toggle" => /\ role = account[p].role
                                 /\ status = IF Active(p) THEN "inactive" ELSE "active"
  <2>1. account[p].role \in Roles \cup {"none"} BY DEF AInv, AcctTypes
  <2> QED BY <2>1 DEF ToggleActive, ResetPassword, EndSessions, FollowClaims, UpdateUser, Load, Kinds
<1>2. PICK kind \in Kinds, role \in Roles \cup {"none"}, status \in {"none", "active", "inactive"} :
        /\ Load(h, p, kind, role, status)
        /\ kind = "revoke" => role = "none" /\ status = "none"
        /\ kind = "toggle" => /\ role = account[p].role
                              /\ status = IF Active(p) THEN "inactive" ELSE "active"
  BY <1>1
<1>3. /\ DOMAIN change' = Handlers /\ c \in AnyChange
      /\ c.phase = "loaded" /\ c.whom = p /\ c.kind = kind /\ c.role = role
      /\ c.status = status /\ c.before = {} /\ c.met = FALSE
      /\ c.seen.role = (IF kind = "revoke" THEN "none" ELSE account[p].role)
      /\ c.seen.status = (IF kind = "revoke" THEN "none" ELSE account[p].status)
      /\ c.seen.version = account[p].version
      /\ \A g \in Handlers \ {h} : change'[g] = change[g]
      /\ change' \in [Handlers -> AnyChange]
  <2> DEFINE seen == [role |-> IF kind = "revoke" THEN "none" ELSE account[p].role,
                      status |-> IF kind = "revoke" THEN "none" ELSE account[p].status,
                      version |-> account[p].version]
             loaded == [phase |-> "loaded", whom |-> p, kind |-> kind, role |-> role,
                        status |-> status, at |-> Never, before |-> {}, met |-> FALSE, seen |-> seen]
  <2>1. seen \in AnyLoaded BY DEF AInv, AcctTypes, AnyLoaded
  <2>2. Never \in Int BY DEF Never
  <2>3. change' = [change EXCEPT ![h] = loaded] BY <1>2 DEF Load
  <2>4. change \in [Handlers -> AnyChange] BY DEF AInv, AcctTypes
  <2> HIDE DEF seen
  <2>5. loaded \in AnyChange BY <2>1, <2>2 DEF AnyChange
  <2>6. c = loaded /\ \A g \in Handlers \ {h} : change'[g] = change[g] BY <2>3, <2>4
  <2>7. change' \in [Handlers -> AnyChange] BY <2>3, <2>4, <2>5
  <2> QED BY <2>5, <2>6, <2>7 DEF seen
<1>4. AcctTypes' BY <1>1, <1>3 DEF AInv, AcctTypes
<1>5. ChangesSomebody' BY <1>1, <1>3 DEF AInv, ChangesSomebody, Open
<1>6. VersionsInOrder' BY <1>1, <1>3 DEF AInv, VersionsInOrder, Open
<1>7. AnswersStand'
  <2>1. KnowsRow(h)' BY <1>1, <1>2, <1>3 DEF KnowsRow, Active
  <2>2. \A g \in Handlers \ {h} : Open(g)' => KnowsRow(g)'
    BY <1>1, <1>3 DEF AInv, AnswersStand, KnowsRow, Open
  <2>3. \A g \in Handlers : ~change'[g].met /\ change'[g].phase = "flushed" => LeavesAnAdmin(change[g])'
    BY <1>1, <1>3 DEF AInv, AnswersStand, LeavesAnAdmin, Admins, IsAdmin, Active
  <2> QED BY <2>1, <2>2, <2>3 DEF AnswersStand
<1> QED BY <1>4, <1>5, <1>6, <1>7 DEF AInv

\* The steps that change no account: a flush, the end of a request that failed, time.
LEMMA AcctQuiet ==
  ASSUME AInv, Tick \/ \E h \in Handlers : Flush(h) \/ Abandon(h)
  PROVE  AInv'
<1>1. /\ account' = account /\ token' = token /\ void' = void /\ crossed' = crossed
      /\ clock' \in Nat
  <2>1. clock \in Nat BY DEF AInv, AcctTypes
  <2>2. CASE Tick BY <2>1, <2>2 DEF Tick
  <2>3. CASE \E h \in Handlers : Flush(h) \/ Abandon(h) BY <2>1, <2>3 DEF Flush, Abandon
  <2> QED BY <2>2, <2>3
<1> DEFINE flushed(h) == [change[h] EXCEPT !.phase = "flushed", !.at = clock,
                           !.before = IF change[h].kind = "claims" THEN {}
                                      ELSE {t \in Tokens : token[t].owner = change[h].whom}]
           Flushed(h) == /\ change[h].phase = "loaded" /\ LeavesAnAdmin(change[h])
                         /\ change'[h] = flushed(h)
<1>2. /\ DOMAIN change' = Handlers
      /\ \A h \in Handlers : change'[h] = change[h] \/ change'[h] = NoChange \/ Flushed(h)
  <2>1. DOMAIN change = Handlers BY DEF AInv, AcctTypes
  <2> DEFINE Allowed == /\ DOMAIN change' = Handlers
                        /\ \A h \in Handlers : \/ change'[h] = change[h]
                                               \/ change'[h] = NoChange
                                               \/ Flushed(h)
  <2>3. ASSUME NEW h \in Handlers, NEW q, change' = [change EXCEPT ![h] = q],
               q = NoChange \/ (/\ change[h].phase = "loaded" /\ LeavesAnAdmin(change[h])
                                /\ q = flushed(h))
        PROVE  Allowed
    <3> HIDE DEF flushed
    <3>1. DOMAIN change' = DOMAIN change BY <2>3
    <3>2. change'[h] = q /\ \A g \in Handlers \ {h} : change'[g] = change[g] BY <2>1, <2>3
    <3>3. q = NoChange \/ Flushed(h) BY <2>3, <3>2
    <3> HIDE DEF Flushed
    <3> QED BY <2>1, <3>1, <3>2, <3>3
  <2>4. ASSUME NEW h \in Handlers, Abandon(h) PROVE Allowed
    <3>1. change' = [change EXCEPT ![h] = NoChange] BY <2>4 DEF Abandon
    <3> HIDE DEF Allowed
    <3> QED BY <2>3, <3>1, Zenon
  <2>5. ASSUME NEW h \in Handlers, Flush(h) PROVE Allowed
    <3>1. change[h].phase = "loaded" BY <2>5, Zenon DEF Flush
    <3>2. CASE LeavesAnAdmin(change[h])
      <4>1. change' = [change EXCEPT ![h] = flushed(h)] BY <2>5, <3>2, Zenon DEF Flush
      <4> HIDE DEF flushed, Allowed
      <4> QED BY <2>3, <3>1, <3>2, <4>1, Zenon
    <3>3. CASE ~LeavesAnAdmin(change[h])
      <4>1. change' = [change EXCEPT ![h] = NoChange] BY <2>5, <3>3, Zenon DEF Flush
      <4> HIDE DEF flushed, Allowed
      <4> QED BY <2>3, <4>1, Zenon
    <3> QED BY <3>2, <3>3, Zenon
  <2>6. ASSUME Tick PROVE Allowed BY <2>1, <2>6 DEF Tick
  <2> HIDE DEF Allowed
  <2>7. Allowed BY <2>4, <2>5, <2>6, Zenon
  <2> QED BY <2>7 DEF Allowed
<1>3. \A h \in Handlers : Flushed(h) =>
        /\ change'[h] \in AnyChange /\ change'[h].phase = "flushed"
        /\ change'[h].whom = change[h].whom /\ change'[h].kind = change[h].kind
        /\ change'[h].role = change[h].role /\ change'[h].status = change[h].status
        /\ change'[h].seen = change[h].seen
        /\ change[h].kind = "claims" => change'[h].before = {}
        /\ \A t \in change'[h].before : token[t].owner = change[h].whom
        /\ change'[h].met = change[h].met
        /\ Open(h) /\ LeavesAnAdmin(change[h])
  <2> TAKE h \in Handlers
  <2>1. change[h] \in AnyChange BY DEF AInv, AcctTypes
  <2>2. clock \in Int BY DEF AInv, AcctTypes
  <2>3. /\ flushed(h) \in AnyChange /\ flushed(h).phase = "flushed"
        /\ flushed(h).whom = change[h].whom /\ flushed(h).kind = change[h].kind
        /\ flushed(h).role = change[h].role /\ flushed(h).status = change[h].status
        /\ flushed(h).seen = change[h].seen
        /\ change[h].kind = "claims" => flushed(h).before = {}
        /\ \A t \in flushed(h).before : token[t].owner = change[h].whom
        /\ flushed(h).met = change[h].met
    BY <2>1, <2>2 DEF AnyChange
  <2>4. change[h].phase = "loaded" => Open(h) BY DEF Open
  <2> HIDE DEF flushed
  <2> QED BY <2>3, <2>4
<1> HIDE DEF Flushed
<1>4. AcctTypes'
  <2>1. \A h \in Handlers : change'[h] \in AnyChange
    BY <1>2, <1>3, NoChangeTyped DEF AInv, AcctTypes
  <2>2. change \in [Handlers -> AnyChange] BY DEF AInv, AcctTypes
  <2>3. CASE Tick BY <2>2, <2>3, <1>1 DEF AInv, AcctTypes, Tick
  <2>4. CASE \E h \in Handlers : Flush(h) \/ Abandon(h)
    <3> PICK h \in Handlers : Flush(h) \/ Abandon(h) BY <2>4
    <3>1. change' = [change EXCEPT ![h] = change'[h]] BY <2>2 DEF Flush, Abandon
    <3>2. change' \in [Handlers -> AnyChange] BY <2>1, <2>2, <3>1
    <3> QED BY <1>1, <3>2 DEF AInv, AcctTypes
  <2> QED BY <2>3, <2>4
<1>5. \A h \in Handlers : Open(h)' =>
        /\ Open(h) /\ change'[h].whom = change[h].whom /\ change'[h].kind = change[h].kind
        /\ change'[h].role = change[h].role /\ change'[h].status = change[h].status
        /\ change'[h].seen = change[h].seen /\ change'[h].met = change[h].met
        /\ change'[h].before = change[h].before \/ Flushed(h)
  BY <1>2, <1>3, NoChangeTyped DEF Open
<1>6. ChangesSomebody'
  <2>1. \A h \in Handlers : \A t \in change'[h].before :
          change'[h].whom \in People /\ token[t].owner = change'[h].whom
    <3> SUFFICES ASSUME NEW h \in Handlers, NEW t \in change'[h].before
                 PROVE  change'[h].whom \in People /\ token[t].owner = change'[h].whom
      OBVIOUS
    <3>1. CASE Flushed(h) BY <1>3, <3>1 DEF AInv, ChangesSomebody
    <3>2. CASE change'[h] = change[h] BY <3>2 DEF AInv, ChangesSomebody
    <3> QED BY <1>2, <3>1, <3>2, NoChangeTyped
  <2> QED BY <1>1, <1>5, <2>1 DEF AInv, ChangesSomebody
<1>7. VersionsInOrder' BY <1>1, <1>5 DEF AInv, VersionsInOrder
<1>8. AnswersStand'
  <2>1. ASSUME NEW h \in Handlers, Open(h)' PROVE KnowsRow(h)'
    <3>1. KnowsRow(h) BY <1>5, <2>1 DEF AInv, AnswersStand
    <3>2. change'[h].kind = "claims" => change'[h].before = {}
      BY <1>3, <1>5, <2>1, <3>1 DEF KnowsRow
    <3> QED BY <1>1, <1>5, <2>1, <3>1, <3>2 DEF KnowsRow
  <2>2. ASSUME NEW h \in Handlers, ~change'[h].met, change'[h].phase = "flushed"
        PROVE  LeavesAnAdmin(change[h])'
    <3>1. LeavesAnAdmin(change[h])
      BY <1>2, <1>3, <2>2, NoChangeTyped DEF AInv, AnswersStand
    <3> QED BY <1>1, <1>5, <2>2, <3>1 DEF LeavesAnAdmin, Admins, IsAdmin, Active, Open
  <2> QED BY <2>1, <2>2 DEF AnswersStand
<1> QED BY <1>4, <1>6, <1>7, <1>8 DEF AInv

\* What a commit writes: the role and the status asked for, or those that were there, and
\* the version after the one it loaded - unless it follows claims.
LEMMA AcctWriting ==
  ASSUME AInv, NEW h \in Handlers, Commit(h)
  PROVE  LET c == change[h]
             p == c.whom
         IN  /\ c \in AnyChange /\ c.phase = "flushed" /\ p \in People /\ account[p] # NoAccount
             /\ KnowsRow(h) /\ (~c.met => LeavesAnAdmin(c))
             /\ DOMAIN account' = People
             /\ \A q \in People \ {p} : account'[q] = account[q]
             /\ account'[p] # NoAccount /\ account'[p].version # 0 /\ account'[p].version \in Nat
             /\ account'[p].role \in Roles \cup {"none"}
             /\ account'[p].status \in {"none", "active", "inactive"}
             /\ account'[p].role = (IF c.role = c.seen.role THEN account[p].role ELSE c.role)
             /\ account'[p].status = (IF c.status = c.seen.status THEN account[p].status ELSE c.status)
             /\ c.kind # "claims" => account'[p].version = c.seen.version + 1 /\ c.seen.version \in Nat
             /\ c.kind = "claims" => account'[p].version = account[p].version
             /\ c.kind = "revoke" => Admins' = Admins
<1> DEFINE c == change[h]
           p == c.whom
           new == Written(account[p], c)
<1>1. c.phase = "flushed" /\ account' = [account EXCEPT ![p] = new]
  BY DEF Commit
<1>2. /\ c \in AnyChange /\ p \in People /\ account[p] # NoAccount /\ KnowsRow(h)
      /\ ~c.met => LeavesAnAdmin(c)
  BY <1>1 DEF AInv, AcctTypes, ChangesSomebody, AnswersStand, Open
<1>3. /\ c.kind # "claims" => new.version = c.seen.version + 1 /\ c.seen.version \in Nat
      /\ c.kind = "claims" => new.version = account[p].version
      /\ new.role = (IF c.role = c.seen.role THEN account[p].role ELSE c.role)
      /\ new.status = (IF c.status = c.seen.status THEN account[p].status ELSE c.status)
      /\ new.role \in Roles \cup {"none"} /\ new.status \in {"none", "active", "inactive"}
  <2>1. /\ c.seen \in AnyLoaded /\ c.role \in Roles \cup {"none"}
        /\ c.status \in {"none", "active", "inactive"}
    BY <1>2 DEF AnyChange
  <2>2. /\ account[p].role \in Roles \cup {"none"}
        /\ account[p].status \in {"none", "active", "inactive"}
    BY <1>2 DEF AInv, AcctTypes
  <2> QED BY <2>1, <2>2 DEF Written, AnyLoaded
<1>4. new # NoAccount /\ new.version # 0 /\ new.version \in Nat
  <2>1. account[p].version \in Nat /\ account[p].version # 0 BY <1>2 DEF AInv, AcctTypes
  <2>2. new.version # 0 /\ new.version \in Nat BY <1>3, <2>1
  <2> QED BY <2>2 DEF NoAccount
<1> HIDE DEF new
<1>5. /\ DOMAIN account' = People /\ account'[p] = new
      /\ \A q \in People \ {p} : account'[q] = account[q]
  BY <1>1, <1>2 DEF AInv, AcctTypes
<1>6. c.kind = "revoke" => Admins' = Admins
  BY <1>2, <1>3, <1>5 DEF KnowsRow, Admins, IsAdmin, Active
<1> QED BY <1>1, <1>2, <1>3, <1>4, <1>5, <1>6

\* A commit keeps the invariant: the version moves on from what every token of the account
\* carries, and whoever it disturbs has met it.
LEMMA AcctCommitting ==
  ASSUME AInv, NEW h \in Handlers, Commit(h)
  PROVE  AInv'
<1> DEFINE c == change[h]
           p == c.whom
<1>1. /\ token' = token /\ clock' = clock /\ void' = void \cup c.before
      /\ crossed' = IF \E g \in Handlers \ {h} : Overlap(c, change[g])
                    THEN crossed \cup {p} ELSE crossed
      /\ change' = [g \in Handlers |->
           IF g = h THEN NoChange
           ELSE [change[g] EXCEPT !.met = @ \/ Meets(c, change[g])]]
  BY DEF Commit
<1>2. /\ c \in AnyChange /\ c.phase = "flushed" /\ p \in People /\ account[p] # NoAccount
      /\ KnowsRow(h)
      /\ DOMAIN account' = People
      /\ \A q \in People \ {p} : account'[q] = account[q]
      /\ account'[p] # NoAccount /\ account'[p].version # 0 /\ account'[p].version \in Nat
      /\ account'[p].role \in Roles \cup {"none"}
      /\ account'[p].status \in {"none", "active", "inactive"}
      /\ account'[p].role = (IF c.role = c.seen.role THEN account[p].role ELSE c.role)
      /\ account'[p].status = (IF c.status = c.seen.status THEN account[p].status ELSE c.status)
      /\ c.kind # "claims" => account'[p].version = c.seen.version + 1 /\ c.seen.version \in Nat
      /\ c.kind = "claims" => account'[p].version = account[p].version
      /\ c.kind = "revoke" => Admins' = Admins
  BY AcctWriting
<1>3. crossed \subseteq crossed' /\ crossed' \subseteq People BY <1>1, <1>2 DEF AInv, AcctTypes
\* Everybody else goes on as before, and has met the commit or not.
<1>4. /\ change' \in [Handlers -> AnyChange] /\ change'[h] = NoChange
      /\ \A g \in Handlers \ {h} :
           /\ change'[g].phase = change[g].phase /\ change'[g].whom = change[g].whom
           /\ change'[g].kind = change[g].kind /\ change'[g].role = change[g].role
           /\ change'[g].status = change[g].status /\ change'[g].seen = change[g].seen
           /\ change'[g].before = change[g].before
           /\ change'[g].met <=> change[g].met \/ Meets(c, change[g])
  <2> DEFINE went(g) == [change[g] EXCEPT !.met = @ \/ Meets(c, change[g])]
  <2>1. ASSUME NEW g \in Handlers
        PROVE  /\ went(g) \in AnyChange
               /\ went(g).phase = change[g].phase /\ went(g).whom = change[g].whom
               /\ went(g).kind = change[g].kind /\ went(g).role = change[g].role
               /\ went(g).status = change[g].status /\ went(g).seen = change[g].seen
               /\ went(g).before = change[g].before
               /\ went(g).met <=> change[g].met \/ Meets(c, change[g])
    <3>1. change[g] \in AnyChange BY DEF AInv, AcctTypes
    <3>2. Meets(c, change[g]) \in BOOLEAN BY DEF Meets
    <3> HIDE DEF c
    <3> QED BY <3>1, <3>2 DEF AnyChange
  <2>2. change' = [g \in Handlers |-> IF g = h THEN NoChange ELSE went(g)] BY <1>1
  <2> HIDE DEF went
  <2> QED BY <2>1, <2>2, NoChangeTyped
<1> HIDE DEF c, p
<1>5. \A g \in Handlers : Open(g)' => g # h /\ Open(g) BY <1>4, NoChangeTyped DEF Open
<1>6. /\ c.before \subseteq Tokens
      /\ \A t \in c.before : token[t].owner = p
  BY DEF AInv, AcctTypes, AnyChange, ChangesSomebody, c, p
<1>7. AcctTypes' BY <1>1, <1>2, <1>3, <1>4, <1>6 DEF AInv, AcctTypes
<1>8. ChangesSomebody'
  <2>1. \A g \in Handlers : Open(g)' =>
          change'[g].whom \in People /\ account'[change'[g].whom] # NoAccount
    BY <1>2, <1>4, <1>5 DEF AInv, ChangesSomebody
  <2>2. \A g \in Handlers : \A t \in change'[g].before :
          change'[g].whom \in People /\ token'[t].owner = change'[g].whom
    BY <1>1, <1>4, NoChangeTyped DEF AInv, ChangesSomebody
  <2> QED BY <2>1, <2>2 DEF ChangesSomebody
\* Nobody else revokes what this commit revokes, or the overlap is noted.
<1>9. c.kind # "claims" =>
        \A g \in Handlers \ {h} :
          Open(g) /\ change[g].whom = p /\ change[g].kind # "claims" => p \in crossed'
  BY <1>1, <1>2 DEF Overlap, Open, c, p
<1>10. c.kind # "claims" /\ p \notin crossed' => account[p].version = c.seen.version
  BY <1>2, <1>3 DEF AInv, VersionsInOrder, Open, c, p
<1>11. p \notin crossed' => /\ account[p].version <= account'[p].version
                            /\ c.kind # "claims" => account[p].version < account'[p].version
  BY <1>2, <1>10 DEF AInv, AcctTypes
<1>12. VersionsInOrder'
  <2>1. ASSUME NEW g \in Handlers, Open(g)', change'[g].kind # "claims",
               change'[g].whom \notin crossed'
        PROVE  change'[g].seen.version = account'[change'[g].whom].version
    <3>1. /\ g # h /\ Open(g) /\ change'[g].whom = change[g].whom /\ change[g].kind # "claims"
          /\ change'[g].seen = change[g].seen /\ change[g].whom \in People
      BY <1>4, <1>5, <2>1 DEF AInv, ChangesSomebody
    <3>2. change[g].seen.version = account[change[g].whom].version
      BY <1>3, <2>1, <3>1 DEF AInv, VersionsInOrder
    <3>3. CASE change[g].whom = p BY <1>2, <1>9, <2>1, <3>1, <3>2, <3>3
    <3>4. CASE change[g].whom # p BY <1>2, <3>1, <3>2, <3>4
    <3> QED BY <3>3, <3>4
  <2>2. ASSUME NEW t \in Tokens, token[t].owner \in People \ crossed'
        PROVE  token[t].version <= account'[token[t].owner].version
    <3>1. /\ token[t].version \in Nat /\ account[token[t].owner].version \in Nat
          /\ token[t].version <= account[token[t].owner].version
      BY <1>3, <2>2 DEF AInv, AcctTypes, VersionsInOrder
    <3>2. CASE token[t].owner = p BY <1>2, <1>11, <2>2, <3>1, <3>2
    <3>3. CASE token[t].owner # p BY <1>2, <2>2, <3>1, <3>3
    <3> QED BY <3>2, <3>3
  <2>3. ASSUME NEW t \in void \cup c.before, token[t].owner \notin crossed'
        PROVE  token[t].version < account'[token[t].owner].version
    <3>1. /\ t \in Tokens /\ token[t].version \in Nat /\ token[t].owner \in People
          /\ account[token[t].owner].version \in Nat
          /\ token[t].version <= account[token[t].owner].version
          /\ t \in void => token[t].version < account[token[t].owner].version
      BY <1>2, <1>3, <1>6, <2>3 DEF AInv, AcctTypes, VersionsInOrder
    <3>2. CASE token[t].owner = p
      <4>1. t \in c.before => c.kind # "claims" BY <1>2 DEF KnowsRow, c
      <4> QED BY <1>2, <1>11, <2>3, <3>1, <3>2, <4>1
    <3>3. CASE token[t].owner # p
      <4>1. t \in void BY <1>6, <2>3, <3>3
      <4> QED BY <1>2, <3>1, <3>3, <4>1
    <3> QED BY <3>2, <3>3
  <2>4. \A t \in void \cup c.before : token[t].owner \in People
    BY <1>2, <1>6 DEF AInv, VersionsInOrder
  <2> QED BY <1>1, <2>1, <2>2, <2>3, <2>4 DEF VersionsInOrder
<1>13. AnswersStand'
  <2>1. ASSUME NEW g \in Handlers, Open(g)' PROVE KnowsRow(g)'
    <3>1. g # h /\ Open(g) /\ KnowsRow(g) /\ change[g].whom \in People
      BY <1>5, <2>1 DEF AInv, AnswersStand, ChangesSomebody
    <3>2. ~change'[g].met => /\ ~change[g].met
                             /\ account'[change[g].whom].role = account[change[g].whom].role
                             /\ account'[change[g].whom].status = account[change[g].whom].status
      <4>1. CASE change[g].whom = p
        <5>1. Meets(c, change[g]) \/ c.kind = "revoke" BY <3>1, <4>1 DEF Meets, Open, p
        <5> QED BY <1>2, <1>4, <3>1, <4>1, <5>1 DEF KnowsRow, c
      <4>2. CASE change[g].whom # p BY <1>2, <1>4, <3>1, <4>2
      <4> QED BY <4>1, <4>2
    <3> QED BY <1>4, <3>1, <3>2 DEF KnowsRow
  <2>2. ASSUME NEW g \in Handlers, ~change'[g].met, change'[g].phase = "flushed"
        PROVE  LeavesAnAdmin(change[g])'
    <3>1. /\ g # h /\ Open(g) /\ change[g].phase = "flushed" /\ ~change[g].met
          /\ ~Meets(c, change[g])
      BY <1>4, <2>2, NoChangeTyped DEF Open
    <3>2. LeavesAnAdmin(change[g]) BY <3>1 DEF AInv, AnswersStand
    <3>3. Admins \subseteq Admins' BY <1>2, <3>1 DEF Meets
    <3> QED BY <1>4, <3>1, <3>2, <3>3 DEF LeavesAnAdmin
  <2> QED BY <2>1, <2>2 DEF AnswersStand
<1> QED BY <1>7, <1>8, <1>12, <1>13 DEF AInv

\* The last administrator is taken by claims, or by a request that was overtaken.
LEMMA LastAdminTaken ==
  ASSUME AInv, NEW h \in Handlers, Commit(h), Admins # {}, Admins' = {}
  PROVE  change[h].kind = "claims" \/ change[h].met
<1> DEFINE c == change[h]
           p == c.whom
<1> SUFFICES ASSUME c.kind # "claims", ~c.met PROVE FALSE
  OBVIOUS
<1>1. /\ c \in AnyChange /\ p \in People /\ KnowsRow(h) /\ LeavesAnAdmin(c)
      /\ DOMAIN account' = People
      /\ \A q \in People \ {p} : account'[q] = account[q]
      /\ account'[p].role = (IF c.role = c.seen.role THEN account[p].role ELSE c.role)
      /\ account'[p].status = (IF c.status = c.seen.status THEN account[p].status ELSE c.status)
      /\ c.kind = "revoke" => Admins' = Admins
  BY AcctWriting
<1>2. \A q \in Admins \ {p} : q \in Admins' BY <1>1 DEF Admins, IsAdmin, Active
<1>3. p \in Admins /\ Admins \ {p} = {} /\ c.kind # "revoke" BY <1>1, <1>2
<1>4. account[p].role = "Admin" /\ account[p].status = "active" BY <1>3 DEF Admins, IsAdmin, Active
<1>5. c.seen.role = account[p].role /\ c.seen.status = account[p].status
  BY <1>1, <1>3 DEF KnowsRow
<1>6. p \notin Admins' OBVIOUS
<1>7. account'[p].role # "Admin" \/ account'[p].status # "active"
  BY <1>1, <1>6 DEF Admins, IsAdmin, Active
<1> HIDE DEF c, p
<1>8. CASE c.kind = "update" /\ c.role = "Admin" /\ c.status = "active" BY <1>1, <1>4, <1>7, <1>8
<1>9. CASE c.kind = "toggle" /\ (c.status = "active" \/ c.role # "Admin")
  BY <1>1, <1>4, <1>5, <1>9 DEF KnowsRow, c, p
<1> QED BY <1>1, <1>3, <1>8, <1>9 DEF LeavesAnAdmin, c, p

\* Every step of the accounts keeps the invariant.
LEMMA AcctStep == AInv /\ [AcctNext]_acctVars => AInv'
<1> SUFFICES ASSUME AInv, [AcctNext]_acctVars PROVE AInv'
  OBVIOUS
<1>1. CASE UNCHANGED acctVars
  BY <1>1 DEF acctVars, AInv, AcctTypes, ChangesSomebody, VersionsInOrder, AnswersStand, KnowsRow,
              LeavesAnAdmin, Admins, IsAdmin, Active, Open
<1>2. CASE \E p \in People :
             \/ Register(p) \/ \E role \in Roles : Provision(p, role)
             \/ \E role \in Roles, status \in {"active", "inactive"} : CreateUser(p, role, status)
  BY <1>2, AcctCreating
<1>3. CASE \E p \in People, t \in Tokens : Issue(t, p) BY <1>3, AcctIssuing
<1>4. CASE \E h \in Handlers, p \in People :
             \/ ToggleActive(h, p) \/ ResetPassword(h, p) \/ EndSessions(h, p)
             \/ \E role \in Roles : FollowClaims(h, p, role)
             \/ \E role \in Roles, status \in {"active", "inactive"} :
                  UpdateUser(h, p, role, status)
  BY <1>4, AcctLoading
<1>5. CASE Tick \/ \E h \in Handlers : Flush(h) \/ Abandon(h) BY <1>5, AcctQuiet
<1>6. CASE \E h \in Handlers : Commit(h) BY <1>6, AcctCommitting
<1> QED BY <1>1, <1>2, <1>3, <1>4, <1>5, <1>6 DEF AcctNext

\* What is known of accounts is known in every state.
LEMMA AcctAlways == AcctSpec => []AInv
<1> QED BY AcctInitInv, AcctStep, PTL DEF AcctSpec

\* A token issued before a revocation began is refused from its commit on, for any number
\* of people, tokens, revocations and requests, unless revocations of its owner overlapped.
THEOREM RevokedTokensRefused == AcctSpec => []RevokedStaysOut
<1> QED BY AcctAlways, VoidIsBehind, PTL

\* An active administrator remains through any sequence of changes by any number of
\* administrators, but for a sign-in whose claims take the role and for a request that was
\* overtaken by the change of its row or by the loss of another administrator.
THEOREM SomebodyAdministers == AcctSpec => AdminRemains
<1> DEFINE Kept == Admins # {} /\ Admins' = {} =>
             \E h \in Handlers : /\ change[h].phase = "flushed" /\ ~Open(h)'
                                /\ (change[h].kind = "claims" \/ change[h].met)
<1>1. ASSUME AInv, [AcctNext]_acctVars, Admins # {}, Admins' = {} PROVE Kept
  <2>1. ASSUME NEW h \in Handlers, Commit(h) PROVE Kept
    <3>1. change[h].phase = "flushed" BY <2>1 DEF Commit
    <3>2. ~Open(h)' BY <2>1, NoChangeTyped DEF Commit, Open
    <3>3. change[h].kind = "claims" \/ change[h].met BY <1>1, <2>1, LastAdminTaken
    <3> QED BY <3>1, <3>2, <3>3
  <2>2. ASSUME NEW p \in People, account[p] = NoAccount,
               \A q \in People \ {p} : account'[q] = account[q], DOMAIN account' = People
        PROVE  Admins \subseteq Admins'
    <3>1. p \notin Admins BY <2>2 DEF Admins, IsAdmin, NoAccount
    <3> QED BY <2>2, <3>1 DEF Admins, IsAdmin, Active
  <2>3. ASSUME NEW p \in People,
               \/ Register(p) \/ \E role \in Roles : Provision(p, role)
               \/ \E role \in Roles, status \in {"active", "inactive"} : CreateUser(p, role, status)
        PROVE  FALSE
    <3>1. /\ account[p] = NoAccount /\ \A q \in People \ {p} : account'[q] = account[q]
          /\ DOMAIN account' = People
      BY <1>1, <2>3 DEF AInv, AcctTypes, Register, Provision, CreateUser
    <3> QED BY <1>1, <2>2, <3>1
  <2>4. ASSUME account' = account PROVE FALSE
    BY <1>1, <2>4 DEF Admins, IsAdmin, Active
  <2> HIDE DEF Kept
  <2> QED BY <1>1, <2>1, <2>3, <2>4
      DEF AcctNext, acctVars, Issue, ToggleActive, ResetPassword, EndSessions, FollowClaims,
          UpdateUser, Load, Flush, Abandon, Tick
<1>2. AInv /\ [AcctNext]_acctVars => [Kept]_acctVars BY <1>1
<1> QED BY <1>2, AcctAlways, PTL DEF AcctSpec, AdminRemains
=============================================================================
