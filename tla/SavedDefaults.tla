--------------------------- MODULE SavedDefaults ----------------------------
(***************************************************************************)
(* The default among the saved filters of one owner                        *)
(* (api/vulnerability_filters.py) or among the dashboard presets           *)
(* (api/dashboard_layout_presets.py): a flag on every row, no constraint   *)
(* between them.  Making an item the default is an UPDATE that clears the  *)
(* owner's flags and, at the commit, the write of this item's.             *)
(*                                                                         *)
(* The UPDATE clears the rows its statement sees; rows that are locked by  *)
(* another request it waits for, rows committed later it never sees.       *)
(***************************************************************************)
EXTENDS Naturals, FiniteSets

CONSTANTS Items,    \* ids of the owner's items, handed out once
          Savers    \* requests at the same time

ASSUME SavedAssumption == "none" \notin Items

VARIABLES item,       \* id -> "unsaved", "saved" or "deleted"
          isDefault,  \* the ids whose flag is set
          saver,      \* request -> what it does
          chosen,     \* the id a request made the default last, or "none"
          contested   \* that choice overlapped with another

savedVars == <<item, isDefault, saver, chosen, contested>>

NotSaving == [id |-> "none", kind |-> "free", cleared |-> {}, meets |-> FALSE]
SavingKinds == {"create", "choose", "unset"}

SavedTypeOK ==
  /\ item \in [Items -> {"unsaved", "saved", "deleted"}]
  /\ isDefault \subseteq Items
  /\ saver \in [Savers -> [id : Items \cup {"none"}, kind : SavingKinds \cup {"free"},
                           cleared : SUBSET Items, meets : BOOLEAN]]
  /\ chosen \in Items \cup {"none"} /\ contested \in BOOLEAN

Saved(x) == item[x] = "saved"
Fresh(x) == item[x] = "unsaved" /\ \A g \in Savers : saver[g].id # x

\* Fault: only a new item clears the flags of the others.
ClearedByCreate(kind) == IF kind = "create" THEN isDefault ELSE {}

\* query.filter_by(owner_id, is_default=True).update(...)
Cleared(kind) == isDefault

\* create or update up to the UPDATE, which "unset" leaves out: there the columns
\* the request loaded say whether the flag is to be written.
StartSaving(h, x, kind) ==
  LET meets == \E g \in Savers : saver[g] # NotSaving IN
  /\ saver[h] = NotSaving /\ (kind # "create" <=> Saved(x))
  /\ kind = "create" => Fresh(x)
  /\ saver' = [g \in Savers |->
       IF g = h THEN [id |-> x, kind |-> kind, meets |-> meets,
                      cleared |-> IF kind = "unset" THEN isDefault \cap {x} ELSE Cleared(kind)]
       ELSE IF saver[g] = NotSaving THEN NotSaving ELSE [saver[g] EXCEPT !.meets = TRUE]]
  /\ UNCHANGED <<item, isDefault, chosen, contested>>

\* The commit.  An item deleted meanwhile cannot be updated any more.
EndSaving(h) ==
  LET s == saver[h] IN
  /\ s # NotSaving /\ (s.kind = "create" \/ Saved(s.id))
  /\ item' = [item EXCEPT ![s.id] = "saved"]
  /\ isDefault' = (isDefault \ s.cleared) \cup (IF s.kind = "unset" THEN {} ELSE {s.id})
  /\ chosen' = IF s.kind # "unset" THEN s.id ELSE IF chosen = s.id THEN "none" ELSE chosen
  /\ contested' = IF s.kind = "unset" THEN contested \/ s.meets ELSE s.meets
  /\ saver' = [saver EXCEPT ![h] = NotSaving]

\* Rolled back.
StopSaving(h) ==
  /\ saver[h] # NotSaving /\ saver' = [saver EXCEPT ![h] = NotSaving]
  /\ UNCHANGED <<item, isDefault, chosen, contested>>

\* create, without the flag
SavePlain(x) ==
  /\ Fresh(x) /\ item' = [item EXCEPT ![x] = "saved"]
  /\ UNCHANGED <<isDefault, saver, chosen, contested>>

DeleteSaved(x) ==
  /\ Saved(x) /\ item' = [item EXCEPT ![x] = "deleted"] /\ isDefault' = isDefault \ {x}
  /\ chosen' = IF chosen = x THEN "none" ELSE chosen
  /\ UNCHANGED <<saver, contested>>

SavedInit ==
  /\ item = [x \in Items |-> "unsaved"] /\ isDefault = {} /\ chosen = "none"
  /\ saver = [h \in Savers |-> NotSaving] /\ contested = FALSE

SavedNext ==
  \/ \E h \in Savers : EndSaving(h) \/ StopSaving(h)
  \/ \E h \in Savers, x \in Items, kind \in SavingKinds : StartSaving(h, x, kind)
  \/ \E x \in Items : SavePlain(x) \/ DeleteSaved(x)

SavedSpec == SavedInit /\ [][SavedNext]_savedVars

-----------------------------------------------------------------------------
(* What a default promises *)

\* The default is the item chosen last and no other, unless it has been unset or
\* deleted.  Choices made at the same time may leave several; the next choice that is
\* made alone mends that.
DefaultIsLastChoice ==
  ~contested => isDefault = (IF chosen = "none" THEN {} ELSE {chosen})
=============================================================================
