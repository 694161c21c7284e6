--------------------------- MODULE OneTimeTokens ----------------------------
(***************************************************************************)
(* The single-use credentials of one account: refresh tokens, rotated at   *)
(* every use (auth.py, api/auth_routes.py), and the links sent by mail to  *)
(* reset a password or to verify an address (services/password_reset.py,   *)
(* services/email_verification.py).                                        *)
(*                                                                         *)
(* A request reads the row, and only later commits that it is spent; the   *)
(* requests of several tabs or of a double click run at the same time.     *)
(***************************************************************************)
EXTENDS Integers, FiniteSets

CONSTANTS RefreshTokens, Links, \* rows; each is handed out once
          OttHandlers           \* requests served at the same time

ASSUME OttAssumption == RefreshTokens \cap Links = {} /\ "none" \notin RefreshTokens \cup Links

VARIABLES slip,     \* row -> "unissued", "live" or "spent"
          parent,   \* refresh token -> the token it was rotated from, or "none"
          serving,  \* handler -> the request it executes
          uses,     \* row -> how often it was accepted
          entangled,\* rows whose uses or whose issue overlapped
          ended     \* refresh tokens issued when the update of a logout_all ran that committed

ottVars == <<slip, parent, serving, uses, entangled, ended>>

Slips == RefreshTokens \cup Links
OttRequest == [kind : {"free", "rotate", "follow", "ask", "logout_all"}, slip : Slips \cup {"none"},
               stale : SUBSET Slips, issued : SUBSET RefreshTokens]
Free == [kind |-> "free", slip |-> "none", stale |-> {}, issued |-> {}]
Live(s) == slip[s] = "live"

OttTypeOK ==
  /\ slip \in [Slips -> {"unissued", "live", "spent"}]
  /\ parent \in [RefreshTokens -> RefreshTokens \cup {"none"}]
  /\ serving \in [OttHandlers -> OttRequest]
  /\ uses \in [Slips -> 0 .. Cardinality(OttHandlers)]
  /\ entangled \subseteq Slips /\ ended \subseteq RefreshTokens

\* The rows another request is working on.
InHand(h) == UNION {{serving[g].slip} \cup serving[g].issued : g \in OttHandlers \ {h}}
Others(h, kind) == \E g \in OttHandlers \ {h} : serving[g].kind = kind

Serve(h, kind, s, stale) ==
  /\ serving[h] = Free
  /\ serving' = [serving EXCEPT ![h] = [Free EXCEPT !.kind = kind, !.slip = s, !.stale = stale]]
Done(h) == serving' = [serving EXCEPT ![h] = Free]

\* Spending what another request has read too entangles the row.
Spend(h, s) ==
  /\ uses' = [uses EXCEPT ![s] = @ + 1]
  /\ entangled' = IF s \in InHand(h) THEN entangled \cup {s} ELSE entangled

-----------------------------------------------------------------------------
(* Refresh tokens *)

\* create_refresh_token, when a login completes.
OpenSession(s) ==
  /\ s \in RefreshTokens /\ slip[s] = "unissued"
  /\ slip' = [slip EXCEPT ![s] = "live"]
  /\ UNCHANGED <<parent, serving, uses, entangled, ended>>

\* Fault: the old token is looked up, its revoked flag is not.
Presented(s) == slip[s] # "unissued"

\* find_refresh_token and the checks of rotate_refresh_token
Rotatable(s) == Live(s)

Rotate(h, s) ==
  /\ s \in RefreshTokens /\ Rotatable(s) /\ Serve(h, "rotate", s, {})
  /\ UNCHANGED <<slip, parent, uses, entangled, ended>>

\* The commit of refresh(): the old token is revoked, its successor inserted.  A logout_all
\* that has run its update by then does not see the successor.
Rotated(h, new) ==
  LET old == serving[h].slip IN
  /\ serving[h].kind = "rotate" /\ new \in RefreshTokens /\ slip[new] = "unissued"
  /\ slip' = [slip EXCEPT ![old] = "spent", ![new] = "live"]
  /\ parent' = [parent EXCEPT ![new] = old]
  /\ Spend(h, old) /\ Done(h)
  /\ UNCHANGED ended

\* logout: the token presented is revoked, and only that one.
Logout(s) ==
  /\ s \in RefreshTokens /\ Live(s)
  /\ slip' = [slip EXCEPT ![s] = "spent"]
  /\ UNCHANGED <<parent, serving, uses, entangled, ended>>

\* Fault: the tokens that came out of a rotation are overlooked.
FirstTokensOnly == {s \in RefreshTokens : Live(s) /\ parent[s] = "none"}

\* revoke_all_refresh_tokens
Revocable == {s \in RefreshTokens : Live(s)}

\* logout_all: its update finds every token that is live then, and the commit comes later.
\* A rotation in progress inserts the successor of its token between the two, or after.
LogoutAll(h) ==
  /\ serving[h] = Free
  /\ serving' = [serving EXCEPT ![h] =
       [Free EXCEPT !.kind = "logout_all", !.stale = Revocable,
                    !.issued = {s \in RefreshTokens : slip[s] # "unissued"}]]
  /\ UNCHANGED <<slip, parent, uses, entangled, ended>>

LoggedOut(h) ==
  /\ serving[h].kind = "logout_all"
  /\ slip' = [s \in Slips |-> IF s \in serving[h].stale THEN "spent" ELSE slip[s]]
  /\ ended' = ended \cup serving[h].issued
  /\ entangled' = entangled \cup {s \in serving[h].issued : \E g \in OttHandlers : serving[g].slip = s}
  /\ Done(h)
  /\ UNCHANGED <<parent, uses>>

-----------------------------------------------------------------------------
(* Links sent by mail *)

\* Fault: an earlier link stays valid when a new one is sent.
NothingOutstanding == {}

\* The unused links an update marks used before the new one is inserted.
Outstanding == {l \in Links : Live(l)}

\* create_reset_token / create_verification_token
AskLink(h) ==
  /\ Serve(h, "ask", "none", Outstanding)
  /\ UNCHANGED <<slip, parent, uses, entangled, ended>>

LinkSent(h, l) ==
  /\ serving[h].kind = "ask" /\ l \in Links /\ slip[l] = "unissued"
  /\ slip' = [s \in Slips |-> IF s = l THEN "live"
                              ELSE IF s \in serving[h].stale THEN "spent" ELSE slip[s]]
  /\ entangled' = IF Others(h, "ask") THEN entangled \cup {l} ELSE entangled
  /\ Done(h)
  /\ UNCHANGED <<parent, uses, ended>>

\* validate_reset_token / validate_verification_token
Follow(h, l) ==
  /\ l \in Links /\ Live(l) /\ Serve(h, "follow", l, {})
  /\ UNCHANGED <<slip, parent, uses, entangled, ended>>

\* consume_reset_token / consume_verification_token
Followed(h) ==
  LET l == serving[h].slip IN
  /\ serving[h].kind = "follow"
  /\ slip' = [slip EXCEPT ![l] = "spent"]
  /\ Spend(h, l) /\ Done(h)
  /\ UNCHANGED <<parent, ended>>

\* A request that fails is rolled back; a token may also pass its expiry date.
GiveUp(h) ==
  /\ serving[h] # Free /\ Done(h)
  /\ UNCHANGED <<slip, parent, uses, entangled, ended>>

Expire(s) ==
  /\ Live(s) /\ slip' = [slip EXCEPT ![s] = "spent"]
  /\ UNCHANGED <<parent, serving, uses, entangled, ended>>

-----------------------------------------------------------------------------
OttInit ==
  /\ slip = [s \in Slips |-> "unissued"] /\ parent = [s \in RefreshTokens |-> "none"]
  /\ serving = [h \in OttHandlers |-> Free] /\ uses = [s \in Slips |-> 0]
  /\ entangled = {} /\ ended = {}

OttNext ==
  \/ \E s \in Slips : OpenSession(s) \/ Logout(s) \/ Expire(s)
  \/ \E h \in OttHandlers :
       \/ LogoutAll(h) \/ LoggedOut(h) \/ AskLink(h) \/ Followed(h) \/ GiveUp(h)
       \/ \E s \in Slips : Rotate(h, s) \/ Rotated(h, s) \/ LinkSent(h, s) \/ Follow(h, s)

OttSpec == OttInit /\ [][OttNext]_ottVars

-----------------------------------------------------------------------------
(* What single use means *)

\* A refresh token is rotated once and a link followed once, however the requests
\* for other rows interleave; two requests that read the same row before either
\* commits are both served, and nothing else is.
UsedOnce == \A s \in Slips \ entangled : uses[s] <= 1

\* Only the link that was sent last works, unless two were asked for at once.
LastLinkOnly ==
  \A l, k \in Links : Live(l) /\ Live(k) /\ l # k => {l, k} \cap entangled # {}

\* logout_all ends a session for good: once it has committed no token issued before its
\* update is live again, nor is a successor of one, unless a rotation had read its token
\* by then.
LoggedOutEverywhere ==
  \A s \in RefreshTokens :
    s \in ended \/ parent[s] \in ended \ entangled => ~Live(s)
=============================================================================
