--------------------------- MODULE PluginSettings ---------------------------
(***************************************************************************)
(* The stored configuration of one plugin (api/plugins.py,                 *)
(* plugins/state.py, plugins/config.py).                                   *)
(*                                                                         *)
(* Secrets leave the server masked, and the form that shows the mask is    *)
(* posted back.  All values are one JSON column: a request loads the row,  *)
(* merges, and writes the column when it differs from the one it loaded.   *)
(***************************************************************************)
EXTENDS FiniteSets

CONSTANTS Fields, Required, \* secret fields; those the schema requires
          Typed,            \* values an administrator can type
          Clients           \* requests at the same time

ASSUME SettingsAssumption ==
  Required \subseteq Fields /\ Typed \cap {"none", "mask", "absent"} = {}

VARIABLES config,  \* the stored value of every field, "none" when it has none
          client,  \* client -> the request it executes
          last,    \* field -> the value typed for it last
          masked,  \* fields a registration has put the mask in, until typed again
          overran  \* fields posted in saves that overlapped, until posted again

settingVars == <<config, client, last, masked, overran>>

Value == Typed \cup {"none", "mask"}
Posted == Typed \cup {"mask", "absent"}
AtRest == [saving |-> FALSE, seen |-> [f \in Fields |-> "none"],
           merged |-> [f \in Fields |-> "none"], posted |-> {}, masks |-> {}, met |-> FALSE]
Saves == [saving : BOOLEAN, seen : [Fields -> Value], merged : [Fields -> Value],
          posted : SUBSET Fields, masks : SUBSET Fields, met : BOOLEAN]

SettingsTypeOK ==
  /\ config \in [Fields -> Value] /\ last \in [Fields -> Value]
  /\ masked \subseteq Fields /\ overran \subseteq Fields
  /\ client \in [Clients -> Saves]

\* The row is loaded; saves that are in progress at the same time meet.
Save(u, posted, masks, merged) ==
  /\ client[u] = AtRest
  /\ client' = [w \in Clients |->
       IF w = u THEN [saving |-> TRUE, seen |-> config, merged |-> merged,
                      posted |-> posted, masks |-> masks,
                      met |-> \E x \in Clients : client[x].saving]
       ELSE IF client[w].saving THEN [client[w] EXCEPT !.met = TRUE]
       ELSE client[w]]
  /\ UNCHANGED <<config, last, masked, overran>>

\* Fault: a value that is posted is stored, the mask too.
StoredAsPosted(old, posted) == IF posted = "absent" THEN old ELSE posted

\* _merge_plugin_config: the mask stands for the value that is stored.
Merged(old, posted) == IF posted \in {"absent", "mask"} THEN old ELSE posted

\* update_plugin_config.  The form may be of any age: it shows a mask, or nothing, for
\* what it does not change.
PostForm(u, form) ==
  Save(u, {f \in Fields : form[f] \in Typed}, {}, [f \in Fields |-> Merged(config[f], form[f])])

\* register_plugin_import replaces the configuration by the one that is posted.  Only where
\* a field is required does validate_required_config refuse the mask, or nothing.
RegisterPlugin(u, form) ==
  /\ \A f \in Required : form[f] \in Typed
  /\ Save(u, Fields, {f \in Fields : form[f] = "mask"},
          [f \in Fields |-> IF form[f] = "absent" THEN "none" ELSE form[f]])

\* upsert_plugin_config commits.
SaveConfig(u) ==
  LET c == client[u] IN
  /\ c.saving
  /\ config' = IF c.merged = c.seen THEN config ELSE c.merged
  /\ last' = [f \in Fields |-> IF f \in c.posted \ c.masks THEN c.merged[f] ELSE last[f]]
  /\ masked' = (masked \ c.posted) \cup c.masks
  /\ overran' = IF c.met
                THEN overran \cup c.posted \cup
                       UNION {client[w].posted : w \in Clients \ {u}}
                ELSE overran \ c.posted
  /\ client' = [client EXCEPT ![u] = AtRest]

\* The request fails and is rolled back.
SaveLost(u) ==
  /\ client[u].saving /\ client' = [client EXCEPT ![u] = AtRest]
  /\ UNCHANGED <<config, last, masked, overran>>

SettingsInit ==
  /\ config = [f \in Fields |-> "none"] /\ last = [f \in Fields |-> "none"]
  /\ masked = {} /\ overran = {} /\ client = [u \in Clients |-> AtRest]

SettingsNext ==
  \/ \E u \in Clients : SaveConfig(u) \/ SaveLost(u)
  \/ \E u \in Clients, form \in [Fields -> Posted] : PostForm(u, form) \/ RegisterPlugin(u, form)

SettingsSpec == SettingsInit /\ [][SettingsNext]_settingVars

-----------------------------------------------------------------------------
(* What the configuration promises *)

\* A stored secret is the one typed last, however many masked forms, of whatever age,
\* have been posted since.  A registration that posts the mask for an optional field puts
\* it in the place of the secret, for good; else only saves that overlap lose what one of
\* them typed.
SecretKept ==
  /\ \A f \in Fields \ overran : config[f] = IF f \in masked THEN "mask" ELSE last[f]
  /\ masked \cap Required = {}
=============================================================================
