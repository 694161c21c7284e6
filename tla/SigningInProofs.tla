-------------------------- MODULE SigningInProofs ---------------------------
(***************************************************************************)
(* Proofs about what signs a user in, and what keeps others from it:       *)
(* tokens and links that are used once, the second factor, the lock after  *)
(* failed passwords and the rate limit, for any number of them and of      *)
(* requests at the same time.                                              *)
(*                                                                         *)
(* Each property says what holds unless requests overlapped.  None is      *)
(* inductive: its invariant says what a request that is alone knows of the *)
(* row it has loaded, or what the row accounts for.                        *)
(***************************************************************************)
EXTENDS OneTimeTokens, SecondFactor, Lockout, RateLimiter,
        FiniteSetTheorems, SequenceTheorems, TLAPS

-----------------------------------------------------------------------------
(* OneTimeTokens *)

\* The part of the types the proofs need.
OttTypes ==
  /\ slip \in [Slips -> {"unissued", "live", "spent"}]
  /\ parent \in [RefreshTokens -> RefreshTokens \cup {"none"}]
  /\ serving \in [OttHandlers -> OttRequest]
  /\ uses \in [Slips -> Nat]
  /\ entangled \subseteq Slips /\ ended \subseteq RefreshTokens

\* A request that spends a row has read it, and holds a row of its kind.
HeldRows ==
  \A h \in OttHandlers :
    /\ serving[h].kind = "rotate" => serving[h].slip \in RefreshTokens
    /\ serving[h].kind = "follow" => serving[h].slip \in Links
    /\ serving[h].kind = "ask" => serving[h].stale \subseteq Links
    /\ serving[h].slip \in Slips => slip[serving[h].slip] # "unissued"

\* A row that may still be spent has not been used, whether it is live or in the hands
\* of a request that read it live.
UnusedYet ==
  \A s \in Slips \ entangled :
    /\ slip[s] # "spent" => uses[s] = 0
    /\ (\E h \in OttHandlers : serving[h].slip = s) => uses[s] = 0

\* A request for a link knows every link that works, but those of requests beside it.
KnownLinks ==
  \A h \in OttHandlers : serving[h].kind = "ask" =>
    \A l \in Links : Live(l) => l \in serving[h].stale \cup entangled

\* What a logout ended stays spent, and a rotation that has read it is entangled.  A logout
\* under way will spend what is still live of the tokens it found and of their successors.
EndedStays ==
  /\ \A h \in OttHandlers : \A s \in RefreshTokens :
       /\ s \in serving[h].issued => slip[s] # "unissued"
       /\ Live(s) /\ (s \in serving[h].issued \/ parent[s] \in serving[h].issued \ entangled)
            => s \in serving[h].stale
  /\ \A s \in ended : slip[s] = "spent"
  /\ \A h \in OttHandlers :
       serving[h].kind = "rotate" /\ serving[h].slip \in ended => serving[h].slip \in entangled
  /\ \A s \in RefreshTokens : slip[s] = "unissued" => parent[s] = "none"

OInv ==
  /\ OttTypes /\ HeldRows /\ UnusedYet /\ KnownLinks /\ EndedStays
  /\ UsedOnce /\ LastLinkOnly /\ LoggedOutEverywhere

\* Nothing has been issued at first.
LEMMA OttInitInv == OttInit => OInv
<1> SUFFICES ASSUME OttInit PROVE OInv
  OBVIOUS
<1>1. Free \in OttRequest
  BY DEF Free, OttRequest
<1>2. OttTypes BY <1>1 DEF OttInit, OttTypes
<1>3. HeldRows /\ KnownLinks BY OttAssumption DEF OttInit, HeldRows, KnownLinks, Free, Slips
<1>4. UnusedYet /\ UsedOnce BY DEF OttInit, UnusedYet, UsedOnce
<1>5. EndedStays /\ LastLinkOnly /\ LoggedOutEverywhere
  BY OttAssumption
  DEF OttInit, EndedStays, LastLinkOnly, LoggedOutEverywhere, Live, Slips, Free
<1> QED BY <1>2, <1>3, <1>4, <1>5 DEF OInv

\* A request that ends leaves the others as they are.
LEMMA OttServed ==
  ASSUME OInv, NEW h \in OttHandlers, Done(h)
  PROVE  /\ serving' \in [OttHandlers -> OttRequest]
         /\ serving'[h] = Free /\ \A g \in OttHandlers \ {h} : serving'[g] = serving[g]
         /\ \A g \in OttHandlers : serving'[g] = serving[g] \/ serving'[g] = Free
<1>1. Free \in OttRequest
  BY DEF Free, OttRequest
<1> QED BY <1>1 DEF OInv, OttTypes, Done

\* The steps that only spend rows, and hand none to a request: a logout, an expiry,
\* a request that gives up.
LEMMA OttSpending ==
  ASSUME OInv,
         \/ \E s \in Slips : Logout(s) \/ Expire(s)
         \/ \E h \in OttHandlers : GiveUp(h)
  PROVE  OInv'
<1>1. parent' = parent /\ uses' = uses /\ entangled' = entangled /\ ended' = ended
  BY DEF Logout, Expire, GiveUp
<1>2. /\ slip' \in [Slips -> {"unissued", "live", "spent"}]
      /\ \A s \in Slips : slip'[s] = slip[s] \/ (slip[s] = "live" /\ slip'[s] = "spent")
  BY DEF OInv, OttTypes, Logout, Expire, GiveUp, Live
<1>3. /\ serving' \in [OttHandlers -> OttRequest]
      /\ \A h \in OttHandlers : serving'[h] = serving[h] \/ serving'[h] = Free
  <2>1. CASE serving' = serving BY <2>1 DEF OInv, OttTypes
  <2>2. CASE \E h \in OttHandlers : Done(h) BY <2>2, OttServed
  <2> QED BY <2>1, <2>2 DEF Logout, Expire, GiveUp
<1>4. Free.kind = "free" /\ Free.slip \notin Slips
  BY OttAssumption DEF Free, Slips
<1>5. OttTypes' BY <1>1, <1>2, <1>3 DEF OInv, OttTypes
<1>6. HeldRows' BY <1>2, <1>3, <1>4 DEF OInv, OttTypes, HeldRows, Slips, Free
<1>7. UnusedYet' BY <1>1, <1>2, <1>3, <1>4 DEF OInv, OttTypes, UnusedYet
<1>8. \A s \in Slips : Live(s)' => Live(s) BY <1>2 DEF Live
<1>9. KnownLinks' BY <1>1, <1>3, <1>4, <1>8 DEF OInv, KnownLinks, Slips
<1>10. EndedStays'
  <2>1. ASSUME NEW h \in OttHandlers, NEW s \in RefreshTokens,
               s \in serving'[h].issued \/ parent'[s] \in serving'[h].issued \ entangled'
        PROVE  serving'[h] = serving[h]
    BY <1>3, <2>1 DEF Free
  <2>2. \A h \in OttHandlers : \A s \in RefreshTokens :
          /\ s \in serving'[h].issued => slip'[s] # "unissued"
          /\ Live(s)' /\ (s \in serving'[h].issued \/ parent'[s] \in serving'[h].issued \ entangled')
               => s \in serving'[h].stale
    BY <1>1, <1>2, <1>8, <2>1 DEF OInv, EndedStays, Slips
  <2>3. /\ \A s \in ended' : slip'[s] = "spent"
        /\ \A h \in OttHandlers : serving'[h].kind = "rotate" /\ serving'[h].slip \in ended'
                                  => serving'[h].slip \in entangled'
        /\ \A s \in RefreshTokens : slip'[s] = "unissued" => parent'[s] = "none"
    BY <1>1, <1>2, <1>3, <1>4 DEF OInv, OttTypes, EndedStays, Slips
  <2> QED BY <2>2, <2>3 DEF EndedStays
<1>11. UsedOnce' /\ LastLinkOnly' /\ LoggedOutEverywhere'
  BY <1>1, <1>8 DEF OInv, UsedOnce, LastLinkOnly, LoggedOutEverywhere, Slips
<1> QED BY <1>5, <1>6, <1>7, <1>9, <1>10, <1>11 DEF OInv

\* A request reads what it will spend: a live row, the links that work, the live tokens.
LEMMA OttReading ==
  ASSUME OInv, NEW h \in OttHandlers,
         AskLink(h) \/ LogoutAll(h) \/ \E s \in Slips : Rotate(h, s) \/ Follow(h, s)
  PROVE  OInv'
<1>1. /\ slip' = slip /\ parent' = parent /\ uses' = uses /\ entangled' = entangled
      /\ ended' = ended
  BY DEF AskLink, LogoutAll, Rotate, Follow
<1> DEFINE Reads(r) ==
      \/ r.kind = "ask" /\ r.slip = "none" /\ r.stale = Outstanding /\ r.issued = {}
      \/ r.kind = "rotate" /\ r.slip \in RefreshTokens /\ Live(r.slip) /\ r.issued = {}
      \/ r.kind = "follow" /\ r.slip \in Links /\ Live(r.slip) /\ r.issued = {}
      \/ /\ r.kind = "logout_all" /\ r.slip = "none" /\ r.stale = Revocable
         /\ r.issued = {s \in RefreshTokens : slip[s] # "unissued"}
<1>2. PICK r \in OttRequest : serving' = [serving EXCEPT ![h] = r] /\ Reads(r)
  <2> DEFINE read(kind, s, stale) == [Free EXCEPT !.kind = kind, !.slip = s, !.stale = stale]
  <2>1. ASSUME NEW kind \in {"ask", "rotate", "follow"}, NEW s \in Slips \cup {"none"},
               NEW stale \in SUBSET Slips
        PROVE  /\ read(kind, s, stale) \in OttRequest
               /\ read(kind, s, stale).kind = kind /\ read(kind, s, stale).slip = s
               /\ read(kind, s, stale).stale = stale /\ read(kind, s, stale).issued = {}
    BY DEF Free, OttRequest
  <2>2. CASE AskLink(h)
    <3>1. Outstanding \in SUBSET Slips BY DEF Outstanding, Slips
    <3>2. read("ask", "none", Outstanding) \in OttRequest /\ Reads(read("ask", "none", Outstanding))
      BY <2>1, <3>1
    <3> QED BY <2>2, <3>2 DEF AskLink, Serve
  <2>3. CASE \E s \in Slips : Rotate(h, s)
    <3>1. PICK s \in RefreshTokens : Rotate(h, s) /\ s \in Slips BY <2>3 DEF Rotate
    <3>2. read("rotate", s, {}) \in OttRequest /\ Reads(read("rotate", s, {}))
      BY <2>1, <3>1 DEF Rotate, Rotatable
    <3> QED BY <3>1, <3>2 DEF Rotate, Serve
  <2>4. CASE \E s \in Slips : Follow(h, s)
    <3>1. PICK s \in Links : Follow(h, s) /\ s \in Slips BY <2>4 DEF Follow
    <3>2. read("follow", s, {}) \in OttRequest /\ Reads(read("follow", s, {}))
      BY <2>1, <3>1 DEF Follow
    <3> QED BY <3>1, <3>2 DEF Follow, Serve
  <2>5. CASE LogoutAll(h)
    <3> DEFINE q == [Free EXCEPT !.kind = "logout_all", !.stale = Revocable,
                                 !.issued = {s \in RefreshTokens : slip[s] # "unissued"}]
    <3>1. Revocable \in SUBSET Slips BY DEF Revocable, Slips
    <3>2. q \in OttRequest BY <3>1 DEF Free, OttRequest
    <3>3. Reads(q) BY DEF Free
    <3> QED BY <2>5, <3>2, <3>3 DEF LogoutAll
  <2> QED BY <2>2, <2>3, <2>4, <2>5
<1>3. serving'[h] = r /\ \A g \in OttHandlers \ {h} : serving'[g] = serving[g]
  BY <1>2 DEF OInv, OttTypes
<1>4. OttTypes' BY <1>1, <1>2 DEF OInv, OttTypes
<1>5. HeldRows'
  BY <1>1, <1>2, <1>3, OttAssumption DEF OInv, HeldRows, Slips, Live, Outstanding
<1>6. UnusedYet'
  <2> SUFFICES ASSUME NEW s \in Slips \ entangled, NEW g \in OttHandlers, serving'[g].slip = s
               PROVE  uses[s] = 0
    BY <1>1 DEF OInv, UnusedYet
  <2>1. CASE g # h BY <1>3, <2>1 DEF OInv, UnusedYet
  <2>2. CASE g = h BY <1>2, <1>3, <2>2, OttAssumption DEF OInv, UnusedYet, Live, Slips
  <2> QED BY <2>1, <2>2
<1>7. KnownLinks' BY <1>1, <1>2, <1>3 DEF OInv, KnownLinks, Outstanding, Live
<1>8. EndedStays'
  <2>1. ASSUME NEW s \in RefreshTokens
        PROVE  /\ s \in r.issued => slip[s] # "unissued"
               /\ Live(s) /\ (s \in r.issued \/ parent[s] \in r.issued) => s \in r.stale
    BY <1>2 DEF Revocable
  <2>2. r.kind = "rotate" /\ r.slip \in ended => r.slip \in entangled
    BY <1>2 DEF OInv, EndedStays, Live
  <2> QED BY <1>1, <1>3, <2>1, <2>2 DEF OInv, EndedStays, Live
<1>9. UsedOnce' /\ LastLinkOnly' /\ LoggedOutEverywhere'
  BY <1>1 DEF OInv, UsedOnce, LastLinkOnly, LoggedOutEverywhere, Live
<1> QED BY <1>4, <1>5, <1>6, <1>7, <1>8, <1>9 DEF OInv

\* A login hands out a fresh token.
LEMMA OttOpening ==
  ASSUME OInv, NEW s \in Slips, OpenSession(s)
  PROVE  OInv'
<1>1. /\ parent' = parent /\ serving' = serving /\ uses' = uses /\ entangled' = entangled
      /\ ended' = ended
  BY DEF OpenSession
<1>2. /\ s \in RefreshTokens /\ slip[s] = "unissued"
      /\ slip' = [slip EXCEPT ![s] = "live"]
  BY DEF OpenSession
<1>3. s \notin ended /\ parent[s] = "none" BY <1>2 DEF OInv, EndedStays
<1>4. OttTypes' BY <1>1, <1>2 DEF OInv, OttTypes
<1>5. HeldRows' BY <1>1, <1>2 DEF OInv, OttTypes, HeldRows
<1>6. UnusedYet' BY <1>1, <1>2 DEF OInv, OttTypes, UnusedYet
<1>7. \A l \in Links : Live(l)' <=> Live(l)
  BY <1>2, OttAssumption DEF OInv, OttTypes, Live, Slips
<1>8. KnownLinks' /\ LastLinkOnly' BY <1>1, <1>7 DEF OInv, KnownLinks, LastLinkOnly
<1>9. EndedStays'
  <2>1. \A h \in OttHandlers : s \notin serving[h].issued BY <1>2 DEF OInv, EndedStays
  <2>2. \A h \in OttHandlers : "none" \notin serving[h].issued
    BY OttAssumption DEF OInv, OttTypes, OttRequest
  <2> QED BY <1>1, <1>2, <1>3, <2>1, <2>2 DEF OInv, OttTypes, EndedStays, Live, Slips
<1>10. "none" \notin ended BY OttAssumption DEF OInv, OttTypes
<1>11. LoggedOutEverywhere'
  BY <1>1, <1>2, <1>3, <1>10 DEF OInv, OttTypes, LoggedOutEverywhere, Live, Slips
<1> QED BY <1>1, <1>4, <1>5, <1>6, <1>8, <1>9, <1>11 DEF OInv, UsedOnce

\* What a request that commits a use knows: its row was issued, and has not been used
\* unless requests overlapped; whoever else holds it now is entangled.
LEMMA OttUse ==
  ASSUME OInv, NEW h \in OttHandlers, serving[h].slip \in Slips,
         Spend(h, serving[h].slip), Done(h)
  PROVE  /\ uses' \in [Slips -> Nat] /\ entangled \subseteq entangled' /\ entangled' \subseteq Slips
         /\ \A s \in Slips \ entangled' :
              /\ s # serving[h].slip => uses'[s] = uses[s]
              /\ s = serving[h].slip => uses'[s] = 1
              /\ (\E g \in OttHandlers : serving'[g].slip = s) => uses'[s] = 0
<1> DEFINE old == serving[h].slip
<1>1. /\ uses' = [uses EXCEPT ![old] = uses[old] + 1]
      /\ entangled' = IF old \in InHand(h) THEN entangled \cup {old} ELSE entangled
  BY DEF Spend
<1>2. uses \in [Slips -> Nat] /\ entangled \subseteq Slips BY DEF OInv, OttTypes
<1>3. uses' \in [Slips -> Nat] /\ entangled \subseteq entangled' /\ entangled' \subseteq Slips
  BY <1>1, <1>2
<1>4. ASSUME NEW s \in Slips \ entangled'
      PROVE  /\ s # old => uses'[s] = uses[s]
             /\ s = old => uses'[s] = 1
  <2>1. s = old => uses[s] = 0 BY <1>3, <1>4 DEF OInv, UnusedYet
  <2> QED BY <1>1, <1>2, <1>4, <2>1
<1>5. ASSUME NEW s \in Slips \ entangled', NEW g \in OttHandlers, serving'[g].slip = s
      PROVE  uses'[s] = 0
  <2>1. Free.slip \notin Slips BY OttAssumption DEF Free, Slips
  <2>2. g # h /\ serving'[g] = serving[g] BY <1>5, <2>1, OttServed
  <2>3. s # old BY <1>1, <1>5, <2>2 DEF InHand
  <2>4. uses[s] = 0 BY <1>3, <1>5, <2>2 DEF OInv, UnusedYet
  <2> QED BY <1>4, <1>5, <2>3, <2>4
<1> QED BY <1>3, <1>4, <1>5

\* A rotation spends the token it read and hands out another.
LEMMA OttRotating ==
  ASSUME OInv, NEW h \in OttHandlers, NEW new \in Slips, Rotated(h, new)
  PROVE  OInv'
<1> DEFINE old == serving[h].slip
<1>1. /\ serving[h].kind = "rotate" /\ new \in RefreshTokens /\ slip[new] = "unissued"
      /\ slip' = [slip EXCEPT ![old] = "spent", ![new] = "live"]
      /\ parent' = [parent EXCEPT ![new] = old]
      /\ Spend(h, old) /\ Done(h) /\ ended' = ended
  BY DEF Rotated
<1>2. old \in RefreshTokens /\ old \in Slips /\ old # new /\ slip[old] # "unissued"
  BY <1>1 DEF OInv, HeldRows, Slips
<1>3. /\ uses' \in [Slips -> Nat] /\ entangled \subseteq entangled' /\ entangled' \subseteq Slips
      /\ \A s \in Slips \ entangled' :
           /\ s # old => uses'[s] = uses[s]
           /\ s = old => uses'[s] = 1
           /\ (\E g \in OttHandlers : serving'[g].slip = s) => uses'[s] = 0
  BY <1>1, <1>2, OttUse
<1>4. /\ slip' \in [Slips -> {"unissued", "live", "spent"}]
      /\ slip'[old] = "spent" /\ slip'[new] = "live"
      /\ \A s \in Slips \ {old, new} : slip'[s] = slip[s]
  BY <1>1, <1>2 DEF OInv, OttTypes
<1>5. /\ parent' \in [RefreshTokens -> RefreshTokens \cup {"none"}] /\ parent'[new] = old
      /\ \A s \in RefreshTokens \ {new} : parent'[s] = parent[s]
  BY <1>1, <1>2 DEF OInv, OttTypes
<1>6. /\ serving' \in [OttHandlers -> OttRequest]
      /\ \A g \in OttHandlers : serving'[g] = serving[g] \/ serving'[g] = Free
  BY <1>1, OttServed
<1>7. Free.kind = "free" /\ Free.slip \notin Slips BY OttAssumption DEF Free, Slips
<1>8. OttTypes' BY <1>1, <1>3, <1>4, <1>5, <1>6 DEF OInv, OttTypes
<1>9. \A s \in Slips : slip[s] # "unissued" => slip'[s] # "unissued" BY <1>2, <1>4
<1>10. HeldRows' BY <1>6, <1>7, <1>9 DEF OInv, HeldRows, Slips
<1>11. UnusedYet'
  <2> SUFFICES ASSUME NEW s \in Slips \ entangled', slip'[s] # "spent" PROVE uses'[s] = 0
    BY <1>3 DEF UnusedYet
  <2>1. s # old /\ slip[s] # "spent" BY <1>1, <1>4
  <2> QED BY <1>3, <2>1 DEF OInv, UnusedYet
<1>12. \A l \in Links : Live(l)' <=> Live(l)
  BY <1>1, <1>2, <1>4, OttAssumption DEF Live, Slips
<1>13. KnownLinks' BY <1>3, <1>6, <1>7, <1>12 DEF OInv, KnownLinks
<1>14. LastLinkOnly' BY <1>3, <1>12 DEF OInv, LastLinkOnly
<1>15. UsedOnce'
  <2> SUFFICES ASSUME NEW s \in Slips \ entangled' PROVE uses'[s] <= 1
    BY DEF UsedOnce
  <2>1. s # old => uses'[s] = uses[s] /\ uses[s] <= 1 BY <1>3 DEF OInv, UsedOnce
  <2> QED BY <1>3, <2>1
<1>16. new \notin ended BY <1>1 DEF OInv, EndedStays
<1>17. old \in ended => old \in entangled' BY <1>1, <1>3 DEF OInv, EndedStays
<1>18. EndedStays'
  <2>1. \A s \in ended' : slip'[s] = "spent"
    BY <1>1, <1>4, <1>16 DEF OInv, OttTypes, EndedStays, Slips
  <2>2. \A g \in OttHandlers : serving'[g].kind = "rotate" /\ serving'[g].slip \in ended'
                                => serving'[g].slip \in entangled'
    BY <1>1, <1>3, <1>6, <1>7 DEF OInv, EndedStays
  <2>3. \A s \in RefreshTokens : slip'[s] = "unissued" => parent'[s] = "none"
    BY <1>4, <1>5, <1>2 DEF OInv, EndedStays, Slips
  <2>4. ASSUME NEW g \in OttHandlers, NEW s \in RefreshTokens, s \in serving'[g].issued
        PROVE  slip'[s] # "unissued" /\ (Live(s)' => s \in serving'[g].stale)
    <3>1. serving'[g] = serving[g] /\ s # new BY <1>1, <1>6, <2>4 DEF OInv, EndedStays, Free
    <3> QED BY <1>4, <2>4, <3>1 DEF OInv, EndedStays, Live, Slips
  <2>5. ASSUME NEW g \in OttHandlers, NEW s \in RefreshTokens, Live(s)',
               parent'[s] \in serving'[g].issued \ entangled'
        PROVE  s \in serving'[g].stale
    <3>1. serving'[g] = serving[g] /\ g # h BY <1>1, <1>6, <2>5, OttServed DEF Free
    <3>2. s # new BY <1>1, <1>5, <2>5, <3>1 DEF Spend, InHand
    <3>3. Live(s) BY <1>4, <2>5, <3>2 DEF Live, Slips
    <3> QED BY <1>3, <1>5, <2>5, <3>1, <3>2, <3>3 DEF OInv, EndedStays
  <2> QED BY <2>1, <2>2, <2>3, <2>4, <2>5 DEF EndedStays
<1>19. LoggedOutEverywhere'
  <2> SUFFICES ASSUME NEW s \in RefreshTokens, s \in ended \/ parent'[s] \in ended \ entangled'
               PROVE  slip'[s] # "live"
    BY <1>1 DEF LoggedOutEverywhere, Live
  <2>1. s # new BY <1>5, <1>16, <1>17
  <2>2. s \in ended \/ parent[s] \in ended \ entangled BY <1>3, <1>5, <2>1
  <2>3. slip[s] # "live" BY <2>2 DEF OInv, LoggedOutEverywhere, Live
  <2> QED BY <1>4, <2>1, <2>3 DEF Slips
<1> QED BY <1>8, <1>10, <1>11, <1>13, <1>14, <1>15, <1>18, <1>19 DEF OInv

\* A link that is followed is spent.
LEMMA OttFollowing ==
  ASSUME OInv, NEW h \in OttHandlers, Followed(h)
  PROVE  OInv'
<1> DEFINE l == serving[h].slip
<1>1. /\ serving[h].kind = "follow" /\ slip' = [slip EXCEPT ![l] = "spent"]
      /\ Spend(h, l) /\ Done(h) /\ parent' = parent /\ ended' = ended
  BY DEF Followed
<1>2. l \in Links /\ l \in Slips BY <1>1 DEF OInv, HeldRows, Slips
<1>3. /\ uses' \in [Slips -> Nat] /\ entangled \subseteq entangled' /\ entangled' \subseteq Slips
      /\ \A s \in Slips \ entangled' :
           /\ s # l => uses'[s] = uses[s]
           /\ s = l => uses'[s] = 1
           /\ (\E g \in OttHandlers : serving'[g].slip = s) => uses'[s] = 0
  BY <1>1, <1>2, OttUse
<1>4. /\ slip' \in [Slips -> {"unissued", "live", "spent"}] /\ slip'[l] = "spent"
      /\ \A s \in Slips \ {l} : slip'[s] = slip[s]
  BY <1>1, <1>2 DEF OInv, OttTypes
<1>5. /\ serving' \in [OttHandlers -> OttRequest]
      /\ \A g \in OttHandlers : serving'[g] = serving[g] \/ serving'[g] = Free
  BY <1>1, OttServed
<1>6. Free.kind = "free" /\ Free.slip \notin Slips BY OttAssumption DEF Free, Slips
<1>7. OttTypes' BY <1>1, <1>3, <1>4, <1>5 DEF OInv, OttTypes
<1>8. \A s \in Slips : slip'[s] = slip[s] \/ slip'[s] = "spent" BY <1>4
<1>9. HeldRows' BY <1>5, <1>6, <1>8 DEF OInv, HeldRows, Slips
<1>10. UnusedYet'
  <2> SUFFICES ASSUME NEW s \in Slips \ entangled', slip'[s] # "spent" PROVE uses'[s] = 0
    BY <1>3 DEF UnusedYet
  <2>1. s # l /\ slip[s] # "spent" BY <1>4
  <2> QED BY <1>3, <2>1 DEF OInv, UnusedYet
<1>11. \A s \in Slips : Live(s)' => Live(s) BY <1>8 DEF Live
<1>12. KnownLinks' BY <1>3, <1>5, <1>6, <1>11 DEF OInv, KnownLinks, Slips
<1>13. EndedStays'
  <2>1. \A g \in OttHandlers : serving'[g].issued # {} => serving'[g] = serving[g]
    BY <1>5 DEF Free
  <2>2. \A g \in OttHandlers : \A s \in RefreshTokens :
          /\ s \in serving'[g].issued => slip'[s] # "unissued"
          /\ Live(s)' /\ (s \in serving'[g].issued \/ parent'[s] \in serving'[g].issued \ entangled')
               => s \in serving'[g].stale
    BY <1>1, <1>3, <1>8, <1>11, <2>1 DEF OInv, EndedStays, Slips
  <2>3. /\ \A s \in ended' : slip'[s] = "spent"
        /\ \A g \in OttHandlers : serving'[g].kind = "rotate" /\ serving'[g].slip \in ended'
                                  => serving'[g].slip \in entangled'
        /\ \A s \in RefreshTokens : slip'[s] = "unissued" => parent'[s] = "none"
    BY <1>1, <1>3, <1>5, <1>6, <1>8 DEF OInv, OttTypes, EndedStays, Slips
  <2> QED BY <2>2, <2>3 DEF EndedStays
<1>14. LastLinkOnly' BY <1>3, <1>11 DEF OInv, LastLinkOnly, Slips
<1>15. LoggedOutEverywhere' BY <1>1, <1>3, <1>11 DEF OInv, LoggedOutEverywhere, Slips
<1>16. UsedOnce'
  <2> SUFFICES ASSUME NEW s \in Slips \ entangled' PROVE uses'[s] <= 1
    BY DEF UsedOnce
  <2>1. s # l => uses'[s] = uses[s] /\ uses[s] <= 1 BY <1>3 DEF OInv, UsedOnce
  <2> QED BY <1>3, <2>1
<1> QED BY <1>7, <1>9, <1>10, <1>12, <1>13, <1>14, <1>15, <1>16 DEF OInv

\* A logout of all sessions spends the tokens it found live, and entangles those it found
\* that are being rotated.
LEMMA OttEnding ==
  ASSUME OInv, NEW h \in OttHandlers, LoggedOut(h)
  PROVE  OInv'
<1> DEFINE r == serving[h]
           held == {s \in r.issued : \E g \in OttHandlers : serving[g].slip = s}
<1>1. /\ r.kind = "logout_all" /\ parent' = parent /\ uses' = uses
      /\ slip' = [s \in Slips |-> IF s \in r.stale THEN "spent" ELSE slip[s]]
      /\ ended' = ended \cup r.issued /\ entangled' = entangled \cup held /\ Done(h)
  BY DEF LoggedOut
<1>2. r \in OttRequest /\ r.issued \subseteq RefreshTokens BY DEF OInv, OttTypes, OttRequest
<1>3. /\ slip' \in [Slips -> {"unissued", "live", "spent"}]
      /\ \A s \in Slips : slip'[s] = slip[s] \/ slip'[s] = "spent"
      /\ \A s \in Slips : s \in r.stale => slip'[s] = "spent"
  BY <1>1 DEF OInv, OttTypes
<1>4. entangled \subseteq entangled' /\ entangled' \subseteq Slips
  BY <1>1, <1>2 DEF OInv, OttTypes, Slips
<1>5. /\ serving' \in [OttHandlers -> OttRequest]
      /\ \A g \in OttHandlers : serving'[g] = serving[g] \/ serving'[g] = Free
  BY <1>1, OttServed
<1>6. Free.kind = "free" /\ Free.slip \notin Slips /\ Free.issued = {}
  BY OttAssumption DEF Free, Slips
<1>7. OttTypes' BY <1>1, <1>2, <1>3, <1>4, <1>5 DEF OInv, OttTypes
<1>8. HeldRows' BY <1>3, <1>5, <1>6 DEF OInv, HeldRows, Slips
<1>9. UnusedYet' /\ UsedOnce'
  BY <1>1, <1>3, <1>4, <1>5, <1>6 DEF OInv, UnusedYet, UsedOnce
<1>10. \A s \in Slips : Live(s)' => Live(s) /\ s \notin r.stale BY <1>3 DEF Live
<1>11. KnownLinks' /\ LastLinkOnly'
  BY <1>4, <1>5, <1>6, <1>10 DEF OInv, KnownLinks, LastLinkOnly, Slips
<1>12. ASSUME NEW s \in r.issued PROVE slip'[s] = "spent"
  <2>1. s \in Slips /\ slip[s] # "unissued" /\ (Live(s) => s \in r.stale)
    BY <1>2, <1>12 DEF OInv, EndedStays, Slips
  <2> QED BY <1>3, <2>1 DEF OInv, OttTypes, Live
<1>13. EndedStays'
  <2>1. \A s \in ended' : slip'[s] = "spent"
    BY <1>1, <1>3, <1>12 DEF OInv, OttTypes, EndedStays, Slips
  <2>2. ASSUME NEW g \in OttHandlers, serving'[g].kind = "rotate", serving'[g].slip \in ended'
        PROVE  serving'[g].slip \in entangled'
    <3>1. serving'[g] = serving[g] BY <1>5, <1>6, <2>2
    <3> QED BY <1>1, <1>4, <2>2, <3>1 DEF OInv, EndedStays
  <2>3. \A s \in RefreshTokens : slip'[s] = "unissued" => parent'[s] = "none"
    BY <1>1, <1>3 DEF OInv, EndedStays, Slips
  <2>4. \A g \in OttHandlers : serving'[g].issued # {} => serving'[g] = serving[g]
    BY <1>5, <1>6
  <2>5. \A g \in OttHandlers : \A s \in RefreshTokens :
          /\ s \in serving'[g].issued => slip'[s] # "unissued"
          /\ Live(s)' /\ (s \in serving'[g].issued \/ parent'[s] \in serving'[g].issued \ entangled')
               => s \in serving'[g].stale
    BY <1>1, <1>3, <1>4, <1>10, <2>4 DEF OInv, EndedStays, Slips
  <2> QED BY <2>1, <2>2, <2>3, <2>5 DEF EndedStays
<1>14. LoggedOutEverywhere'
  <2> SUFFICES ASSUME NEW s \in RefreshTokens, s \in ended' \/ parent[s] \in ended' \ entangled',
                      Live(s)'
               PROVE  FALSE
    BY <1>1 DEF LoggedOutEverywhere
  <2>1. Live(s) /\ s \notin r.stale BY <1>10 DEF Slips
  <2>2. s \in r.issued \/ parent[s] \in r.issued \ entangled
    BY <1>1, <1>4, <2>1 DEF OInv, LoggedOutEverywhere
  <2> QED BY <2>1, <2>2 DEF OInv, EndedStays
<1> QED BY <1>7, <1>8, <1>9, <1>11, <1>13, <1>14 DEF OInv

\* A link is sent, and the ones its request knew are spent.
LEMMA OttSending ==
  ASSUME OInv, NEW h \in OttHandlers, NEW l \in Slips, LinkSent(h, l)
  PROVE  OInv'
<1> DEFINE stale == serving[h].stale
<1>1. /\ serving[h].kind = "ask" /\ l \in Links /\ slip[l] = "unissued"
      /\ slip' = [s \in Slips |-> IF s = l THEN "live"
                                  ELSE IF s \in stale THEN "spent" ELSE slip[s]]
      /\ entangled' = IF Others(h, "ask") THEN entangled \cup {l} ELSE entangled
      /\ Done(h) /\ parent' = parent /\ uses' = uses /\ ended' = ended
  BY DEF LinkSent
<1>2. stale \subseteq Links BY <1>1 DEF OInv, HeldRows
<1>3. /\ slip' \in [Slips -> {"unissued", "live", "spent"}] /\ slip'[l] = "live"
      /\ \A s \in Slips \ {l} : slip'[s] = slip[s] \/ slip'[s] = "spent"
      /\ \A s \in stale \ {l} : slip'[s] = "spent"
      /\ \A s \in RefreshTokens : slip'[s] = slip[s]
  BY <1>1, <1>2, OttAssumption DEF OInv, OttTypes, Slips
<1>4. entangled \subseteq entangled' /\ entangled' \subseteq Slips
  BY <1>1 DEF OInv, OttTypes
<1>5. /\ serving' \in [OttHandlers -> OttRequest]
      /\ serving'[h] = Free /\ \A g \in OttHandlers \ {h} : serving'[g] = serving[g]
      /\ \A g \in OttHandlers : serving'[g] = serving[g] \/ serving'[g] = Free
  BY <1>1, OttServed
<1>6. Free.kind = "free" /\ Free.slip \notin Slips BY OttAssumption DEF Free, Slips
<1>7. OttTypes' BY <1>1, <1>3, <1>4, <1>5 DEF OInv, OttTypes
<1>8. HeldRows' BY <1>3, <1>5, <1>6 DEF OInv, HeldRows, Slips
<1>9. UnusedYet' /\ UsedOnce'
  BY <1>1, <1>3, <1>4, <1>5, <1>6 DEF OInv, UnusedYet, UsedOnce
<1>10. \A k \in Links \ {l} : Live(k)' => Live(k) BY <1>3 DEF Live, Slips
<1>11. KnownLinks'
  <2> SUFFICES ASSUME NEW g \in OttHandlers, serving'[g].kind = "ask", NEW k \in Links, Live(k)'
               PROVE  k \in serving'[g].stale \cup entangled'
    BY DEF KnownLinks
  <2>1. g # h /\ serving'[g] = serving[g] BY <1>5, <1>6
  <2>2. l \in entangled' BY <1>1, <2>1 DEF Others
  <2> QED BY <1>4, <1>10, <2>1, <2>2 DEF OInv, KnownLinks
<1>12. EndedStays'
  <2>1. \A g \in OttHandlers : serving'[g].issued # {} => serving'[g] = serving[g]
    BY <1>5 DEF Free
  <2>2. \A g \in OttHandlers : \A s \in RefreshTokens :
          /\ s \in serving'[g].issued => slip'[s] # "unissued"
          /\ Live(s)' /\ (s \in serving'[g].issued \/ parent'[s] \in serving'[g].issued \ entangled')
               => s \in serving'[g].stale
    BY <1>1, <1>3, <1>4, <2>1 DEF OInv, EndedStays, Live
  <2>3. /\ \A s \in ended' : slip'[s] = "spent"
        /\ \A g \in OttHandlers : serving'[g].kind = "rotate" /\ serving'[g].slip \in ended'
                                  => serving'[g].slip \in entangled'
        /\ \A s \in RefreshTokens : slip'[s] = "unissued" => parent'[s] = "none"
    BY <1>1, <1>3, <1>4, <1>5, <1>6 DEF OInv, OttTypes, EndedStays
  <2> QED BY <2>2, <2>3 DEF EndedStays
<1>13. LoggedOutEverywhere' BY <1>1, <1>3, <1>4 DEF OInv, LoggedOutEverywhere, Live
<1>14. LastLinkOnly'
  <2>1. \A k \in Links \ {l} : Live(k)' => k \in entangled'
    <3> SUFFICES ASSUME NEW k \in Links \ {l}, Live(k)' PROVE k \in entangled'
      OBVIOUS
    <3>1. Live(k) /\ k \notin stale BY <1>3, <1>10 DEF Live
    <3> QED BY <1>1, <1>4, <3>1 DEF OInv, KnownLinks
  <2> QED BY <2>1 DEF LastLinkOnly
<1> QED BY <1>7, <1>8, <1>9, <1>11, <1>12, <1>13, <1>14 DEF OInv

\* Every step of the credentials keeps the invariant.
LEMMA OttStep == OInv /\ [OttNext]_ottVars => OInv'
<1> SUFFICES ASSUME OInv, [OttNext]_ottVars PROVE OInv'
  OBVIOUS
<1>1. CASE UNCHANGED ottVars
  BY <1>1 DEF ottVars, OInv, OttTypes, HeldRows, UnusedYet, KnownLinks, EndedStays, UsedOnce,
              LastLinkOnly, LoggedOutEverywhere, Live
<1>2. CASE \E s \in Slips : OpenSession(s) BY <1>2, OttOpening
<1>3. CASE \/ \E s \in Slips : Logout(s) \/ Expire(s)
           \/ \E h \in OttHandlers : GiveUp(h)
  BY <1>3, OttSpending
<1>4. CASE \E h \in OttHandlers : LoggedOut(h) BY <1>4, OttEnding
<1>5. CASE \E h \in OttHandlers : AskLink(h) \/ LogoutAll(h) \/ \E s \in Slips : Rotate(h, s) \/ Follow(h, s)
  BY <1>5, OttReading
<1>6. CASE \E h \in OttHandlers : Followed(h) BY <1>6, OttFollowing
<1>7. CASE \E h \in OttHandlers, s \in Slips : Rotated(h, s) BY <1>7, OttRotating
<1>8. CASE \E h \in OttHandlers, s \in Slips : LinkSent(h, s) BY <1>8, OttSending
<1> QED BY <1>1, <1>2, <1>3, <1>4, <1>5, <1>6, <1>7, <1>8 DEF OttNext

\* What is known of tokens and links is known in every state.
LEMMA OttAlways == OttSpec => []OInv
<1> QED BY OttInitInv, OttStep, PTL DEF OttSpec

\* A refresh token is rotated once and a link followed once, for any number of tokens,
\* links and requests, unless two requests had read the row before either committed.
THEOREM TokensUsedOnce == OttSpec => []UsedOnce
<1>1. OInv => UsedOnce BY DEF OInv
<1> QED BY <1>1, OttAlways, PTL

\* However many links are asked for, only the last one sent works, unless two requests
\* for one overlapped.
THEOREM OldLinksDie == OttSpec => []LastLinkOnly
<1>1. OInv => LastLinkOnly BY DEF OInv
<1> QED BY <1>1, OttAlways, PTL

\* A logout of all sessions ends every token issued when its update ran, and the successors
\* of those that no rotation had in its hands at its commit, or committed before it.
THEOREM LogoutIsFinal == OttSpec => []LoggedOutEverywhere
<1>1. OInv => LoggedOutEverywhere BY DEF OInv
<1> QED BY <1>1, OttAlways, PTL

-----------------------------------------------------------------------------
(* SecondFactor *)

Columns == [enabled : BOOLEAN, secret : Secrets \cup {"none"}, codes : SUBSET Codes,
            version : 1 .. MaxLogouts + 1]
Requests == [kind : {"free", "enroll", "confirm", "disable", "recover"}, row : Columns,
             code : Codes \cup {"none"}]

\* Codes are made before they are stored, loaded or accepted.
CodesMade ==
  /\ mfa.codes \subseteq made /\ spentCodes \subseteq made
  /\ \A h \in MfaHandlers : step[h].row.codes \subseteq made
  /\ \A h \in MfaHandlers : step[h].kind = "recover" => step[h].code \in step[h].row.codes

\* A request that no other request has overlapped knows the columns as they are.
RowIsCurrent ==
  ~tangled => \A h \in MfaHandlers :
    /\ step[h].kind \in {"enroll", "confirm"} => ~mfa.enabled
    /\ step[h].kind = "confirm" => step[h].row.secret = mfa.secret /\ mfa.secret # "none"
    /\ step[h].kind = "disable" => /\ step[h].row.enabled = mfa.enabled
                                   /\ step[h].row.codes = mfa.codes
    /\ step[h].kind = "recover" => step[h].row.codes = mfa.codes

FInv == MfaTypeOK /\ CodesMade /\ RowIsCurrent /\ NotLockedOut /\ CodesUsedOnce

\* The type invariant, with the two sets of records named.
LEMMA MfaTyped ==
  MfaTypeOK <=> /\ mfa \in Columns
                /\ made \subseteq Secrets \cup Codes /\ proved \subseteq Secrets
                /\ spentCodes \subseteq Codes /\ challenge \in 0 .. MaxLogouts + 1
                /\ step \in [MfaHandlers -> Requests] /\ tangled \in BOOLEAN
<1> QED BY DEF MfaTypeOK, Columns, Requests

\* A request at rest holds nothing.
LEMMA RestingRow ==
  /\ NoColumns \in Columns /\ Resting \in Requests
  /\ Resting.kind = "free" /\ Resting.row.codes = {} /\ NoColumns.codes = {}
<1>1. NoColumns \in Columns /\ NoColumns.codes = {}
  BY MfaAssumption DEF NoColumns, Columns
<1> QED BY <1>1 DEF Resting, Requests

\* The second factor is off at first.
LEMMA MfaInitInv == MfaInit => FInv
<1> SUFFICES ASSUME MfaInit PROVE FInv
  OBVIOUS
<1>1. MfaTypeOK
  <2>1. 0 \in 0 .. MaxLogouts + 1 BY MfaAssumption
  <2>2. step \in [MfaHandlers -> Requests] BY RestingRow DEF MfaInit
  <2>3. mfa \in Columns BY RestingRow DEF MfaInit
  <2> QED BY <2>1, <2>2, <2>3, MfaTyped DEF MfaInit
<1>2. CodesMade /\ RowIsCurrent BY RestingRow DEF MfaInit, CodesMade, RowIsCurrent
<1>3. NotLockedOut /\ CodesUsedOnce
  BY DEF MfaInit, NotLockedOut, CodesUsedOnce, NoColumns
<1> QED BY <1>1, <1>2, <1>3 DEF FInv

\* A request loads what it goes on to use.
LEMMA MfaBeginning ==
  ASSUME FInv, NEW h \in MfaHandlers,
         \/ BeginEnrollment(h) \/ BeginConfirm(h) \/ BeginDisable(h)
         \/ \E code \in Codes : BeginRecover(h, code)
  PROVE  FInv'
<1>1. /\ mfa' = mfa /\ made' = made /\ proved' = proved /\ spentCodes' = spentCodes
      /\ challenge' = challenge /\ tangled' = tangled
  BY DEF BeginEnrollment, BeginConfirm, BeginDisable, BeginRecover, Begin
<1>2. mfa \in Columns /\ step \in [MfaHandlers -> Requests] BY MfaTyped DEF FInv
<1> DEFINE Loads(kind, code, row) ==
      /\ step' = [step EXCEPT ![h] = [kind |-> kind, row |-> row, code |-> code]]
      /\ row.codes \subseteq mfa.codes
      /\ kind \in {"enroll", "confirm"} => ~mfa.enabled
      /\ kind = "confirm" => row.secret = mfa.secret /\ mfa.secret # "none"
      /\ kind = "disable" => row.enabled = mfa.enabled /\ row.codes = mfa.codes
      /\ kind = "recover" => row.codes = mfa.codes /\ code \in mfa.codes
<1>3. PICK kind \in {"enroll", "confirm", "disable", "recover"}, code \in Codes \cup {"none"},
           row \in Columns : Loads(kind, code, row)
  <2>1. CASE BeginEnrollment(h)
    <3>1. Loads("enroll", "none", NoColumns)
      BY <2>1, RestingRow DEF BeginEnrollment, Begin
    <3> QED BY <3>1, RestingRow
  <2>2. CASE BeginConfirm(h)
    <3> DEFINE row == [NoColumns EXCEPT !.secret = mfa.secret]
    <3>1. row \in Columns /\ row.secret = mfa.secret /\ row.codes = {}
      BY <1>2, RestingRow DEF Columns
    <3>2. Loads("confirm", "none", row) BY <2>2, <3>1 DEF BeginConfirm, Begin
    <3> QED BY <3>1, <3>2
  <2>3. CASE BeginDisable(h)
    <3> DEFINE row == [mfa EXCEPT !.version = 1]
    <3>1. row \in Columns /\ row.enabled = mfa.enabled /\ row.codes = mfa.codes
      BY <1>2, MfaAssumption DEF Columns
    <3>2. Loads("disable", "none", row) BY <2>3, <3>1 DEF BeginDisable, Begin
    <3> QED BY <3>1, <3>2
  <2>4. CASE \E code \in Codes : BeginRecover(h, code)
    <3> PICK code \in Codes : BeginRecover(h, code) BY <2>4
    <3> DEFINE row == [NoColumns EXCEPT !.codes = mfa.codes]
    <3>1. row \in Columns /\ row.codes = mfa.codes BY <1>2, RestingRow DEF Columns
    <3>2. Loads("recover", code, row) BY <3>1 DEF BeginRecover, Begin
    <3> QED BY <3>1, <3>2
  <2> QED BY <2>1, <2>2, <2>3, <2>4
<1>4. /\ step'[h] = [kind |-> kind, row |-> row, code |-> code]
      /\ step'[h] \in Requests
      /\ \A g \in MfaHandlers \ {h} : step'[g] = step[g]
  BY <1>2, <1>3 DEF Requests
<1>5. MfaTypeOK'
  <2>1. step' \in [MfaHandlers -> Requests] BY <1>2, <1>3, <1>4
  <2> QED BY <1>1, <2>1, MfaTyped DEF FInv, MfaTypeOK, Requests, Columns
<1>6. CodesMade' BY <1>1, <1>3, <1>4 DEF FInv, CodesMade
<1>7. RowIsCurrent' BY <1>1, <1>3, <1>4 DEF FInv, RowIsCurrent
<1> QED BY <1>1, <1>5, <1>6, <1>7 DEF FInv, NotLockedOut, CodesUsedOnce

\* A request that ends without having been overlapped leaves every handler at rest.
LEMMA MfaEnded ==
  ASSUME FInv, NEW h \in MfaHandlers, End(h)
  PROVE  /\ step' \in [MfaHandlers -> Requests] /\ tangled' \in BOOLEAN
         /\ \A g \in MfaHandlers : step'[g] = step[g] \/ step'[g] = Resting
         /\ ~tangled' => ~tangled
         /\ RowIsCurrent'
<1>1. step \in [MfaHandlers -> Requests] /\ tangled \in BOOLEAN BY MfaTyped DEF FInv
<1>2. /\ step' = [step EXCEPT ![h] = Resting]
      /\ tangled' = (tangled \/ \E g \in MfaHandlers \ {h} : step[g] # Resting)
  BY DEF End
<1>3. ~tangled' => \A g \in MfaHandlers : step'[g] = Resting BY <1>1, <1>2
<1>4. RowIsCurrent' BY <1>3, RestingRow DEF RowIsCurrent
<1> QED BY <1>1, <1>2, <1>4, RestingRow

\* A secret is stored while the second factor is off.
LEMMA MfaEnrolling ==
  ASSUME FInv, NEW h \in MfaHandlers, NEW secret \in Secrets, Enrolled(h, secret)
  PROVE  FInv'
<1>1. /\ step[h].kind = "enroll" /\ mfa' = [mfa EXCEPT !.secret = secret]
      /\ made' = made \cup {secret} /\ End(h)
      /\ proved' = proved /\ spentCodes' = spentCodes /\ challenge' = challenge
  BY DEF Enrolled
<1>2. mfa \in Columns BY MfaTyped DEF FInv
<1>3. /\ mfa' \in Columns /\ mfa'.enabled = mfa.enabled /\ mfa'.codes = mfa.codes
  BY <1>1, <1>2 DEF Columns
<1>4. /\ step' \in [MfaHandlers -> Requests] /\ tangled' \in BOOLEAN
      /\ \A g \in MfaHandlers : step'[g] = step[g] \/ step'[g] = Resting
      /\ ~tangled' => ~tangled
      /\ RowIsCurrent'
  BY <1>1, MfaEnded
<1>5. MfaTypeOK' BY <1>1, <1>3, <1>4, MfaTyped DEF FInv, MfaTypeOK, Columns, Requests
<1>6. CodesMade' BY <1>1, <1>3, <1>4, RestingRow DEF FInv, CodesMade
<1>7. NotLockedOut' BY <1>1, <1>3, <1>4 DEF FInv, RowIsCurrent, NotLockedOut
<1>8. CodesUsedOnce' BY <1>1, <1>3, <1>4 DEF FInv, CodesUsedOnce
<1> QED BY <1>4, <1>5, <1>6, <1>7, <1>8 DEF FInv

\* A confirmation turns the second factor on, with the secret its code was checked against
\* and codes nobody has had before.
LEMMA MfaConfirming ==
  ASSUME FInv, NEW h \in MfaHandlers, NEW batch \in SUBSET Codes, Confirmed(h, batch)
  PROVE  FInv'
<1> DEFINE secret == step[h].row.secret
<1>1. /\ step[h].kind = "confirm" /\ batch \subseteq Codes \ made
      /\ mfa' = [mfa EXCEPT !.enabled = TRUE, !.codes = batch]
      /\ proved' = IF secret # "none" THEN proved \cup {secret} ELSE proved
      /\ made' = made \cup batch /\ End(h)
      /\ spentCodes' = spentCodes /\ challenge' = challenge
  BY DEF Confirmed, CodeValid
<1>2. mfa \in Columns /\ secret \in Secrets \cup {"none"}
  BY MfaTyped DEF FInv, Requests, Columns
<1>3. /\ mfa' \in Columns /\ mfa'.secret = mfa.secret /\ mfa'.codes = batch
  BY <1>1, <1>2 DEF Columns
<1>4. /\ step' \in [MfaHandlers -> Requests] /\ tangled' \in BOOLEAN
      /\ \A g \in MfaHandlers : step'[g] = step[g] \/ step'[g] = Resting
      /\ ~tangled' => ~tangled
      /\ RowIsCurrent'
  BY <1>1, MfaEnded
<1>5. MfaTypeOK'
  <2>1. made' \subseteq Secrets \cup Codes /\ proved' \subseteq Secrets
    BY <1>1, <1>2, MfaTyped DEF FInv
  <2> QED BY <1>1, <1>3, <1>4, <2>1, MfaTyped DEF FInv, MfaTypeOK, Columns, Requests
<1>6. CodesMade' BY <1>1, <1>3, <1>4, RestingRow DEF FInv, CodesMade
<1>7. NotLockedOut'
  <2> SUFFICES ASSUME ~tangled' PROVE mfa'.secret \in proved'
    BY DEF NotLockedOut
  <2>1. secret = mfa.secret /\ secret # "none" BY <1>1, <1>4 DEF FInv, RowIsCurrent
  <2> QED BY <1>1, <1>3, <2>1
<1>8. CodesUsedOnce' BY <1>1, <1>3 DEF FInv, CodesMade, CodesUsedOnce
<1> QED BY <1>4, <1>5, <1>6, <1>7, <1>8 DEF FInv

\* The second factor is turned off: nothing is left to be locked out by.
LEMMA MfaDisabling ==
  ASSUME FInv, NEW h \in MfaHandlers, EndDisable(h)
  PROVE  FInv'
<1> DEFINE seen == step[h].row
<1>1. /\ step[h].kind = "disable" /\ mfa' = DisabledColumns(mfa, seen) /\ End(h)
      /\ made' = made /\ proved' = proved /\ spentCodes' = spentCodes
      /\ challenge' = challenge
  BY DEF EndDisable
<1>2. mfa \in Columns /\ seen \in Columns BY MfaTyped DEF FInv, Requests
<1>3. Disabled(seen).enabled = FALSE /\ Disabled(seen).secret = "none" /\ Disabled(seen).codes = {}
  BY <1>2 DEF Disabled, Columns
<1>4. /\ mfa'.enabled = IF seen.enabled = FALSE THEN mfa.enabled ELSE FALSE
      /\ mfa'.secret = IF seen.secret = "none" THEN mfa.secret ELSE "none"
      /\ mfa'.codes = IF seen.codes = {} THEN mfa.codes ELSE {}
      /\ mfa'.version = mfa.version
      /\ mfa' = [enabled |-> mfa'.enabled, secret |-> mfa'.secret, codes |-> mfa'.codes,
                 version |-> mfa'.version]
  BY <1>1, <1>3 DEF DisabledColumns
<1>5. mfa' \in Columns
  <2>1. mfa'.enabled \in BOOLEAN BY <1>2, <1>4 DEF Columns
  <2>2. mfa'.secret \in Secrets \cup {"none"} BY <1>2, <1>4 DEF Columns
  <2>3. mfa'.codes \in SUBSET Codes BY <1>2, <1>4 DEF Columns
  <2>4. mfa'.version \in 1 .. MaxLogouts + 1 BY <1>2, <1>4 DEF Columns
  <2> QED BY <1>4, <2>1, <2>2, <2>3, <2>4 DEF Columns
<1>6. /\ step' \in [MfaHandlers -> Requests] /\ tangled' \in BOOLEAN
      /\ \A g \in MfaHandlers : step'[g] = step[g] \/ step'[g] = Resting
      /\ ~tangled' => ~tangled
      /\ RowIsCurrent'
  BY <1>1, MfaEnded
<1>7. MfaTypeOK' BY <1>1, <1>5, <1>6, MfaTyped DEF FInv, MfaTypeOK, Columns, Requests
<1>8. mfa'.codes \subseteq mfa.codes BY <1>4
<1>9. CodesMade' BY <1>1, <1>6, <1>8, RestingRow DEF FInv, CodesMade
<1>10. NotLockedOut'
  <2> SUFFICES ASSUME ~tangled' PROVE ~mfa'.enabled
    BY DEF NotLockedOut
  <2>1. seen.enabled = mfa.enabled BY <1>1, <1>6 DEF FInv, RowIsCurrent
  <2>2. mfa.enabled \in BOOLEAN BY <1>2 DEF Columns
  <2> QED BY <1>4, <2>1, <2>2
<1>11. CodesUsedOnce' BY <1>1, <1>6, <1>8 DEF FInv, CodesUsedOnce
<1> QED BY <1>6, <1>7, <1>9, <1>10, <1>11 DEF FInv

\* A recovery code is taken off the list the request loaded.
LEMMA MfaRecovering ==
  ASSUME FInv, NEW h \in MfaHandlers, Recovered(h)
  PROVE  FInv'
<1> DEFINE code == step[h].code
           left == step[h].row.codes \ {code}
<1>1. /\ step[h].kind = "recover" /\ mfa' = [mfa EXCEPT !.codes = left]
      /\ spentCodes' = spentCodes \cup {code} /\ End(h)
      /\ made' = made /\ proved' = proved /\ challenge' = challenge
  BY DEF Recovered, RemainingCodes
<1>2. /\ mfa \in Columns /\ left \subseteq Codes /\ code \in Codes
      /\ left \subseteq made /\ code \in made
  <2>1. step[h].row.codes \subseteq Codes BY MfaTyped DEF FInv, Requests, Columns
  <2>2. code \in step[h].row.codes /\ step[h].row.codes \subseteq made
    BY <1>1 DEF FInv, CodesMade
  <2> QED BY <2>1, <2>2, MfaTyped DEF FInv
<1>3. /\ mfa' \in Columns /\ mfa'.secret = mfa.secret /\ mfa'.enabled = mfa.enabled
      /\ mfa'.codes = left
  BY <1>1, <1>2 DEF Columns
<1>4. /\ step' \in [MfaHandlers -> Requests] /\ tangled' \in BOOLEAN
      /\ \A g \in MfaHandlers : step'[g] = step[g] \/ step'[g] = Resting
      /\ ~tangled' => ~tangled
      /\ RowIsCurrent'
  BY <1>1, MfaEnded
<1>5. MfaTypeOK' BY <1>1, <1>2, <1>3, <1>4, MfaTyped DEF FInv, MfaTypeOK, Columns, Requests
<1>6. CodesMade' BY <1>1, <1>2, <1>3, <1>4, RestingRow DEF FInv, CodesMade
<1>7. NotLockedOut' BY <1>1, <1>3, <1>4 DEF FInv, NotLockedOut
<1>8. CodesUsedOnce'
  <2> SUFFICES ASSUME ~tangled' PROVE left \cap (spentCodes \cup {code}) = {}
    BY <1>1, <1>3 DEF CodesUsedOnce
  <2>1. step[h].row.codes = mfa.codes BY <1>1, <1>4 DEF FInv, RowIsCurrent
  <2>2. mfa.codes \cap spentCodes = {} BY <1>4 DEF FInv, CodesUsedOnce
  <2> QED BY <2>1, <2>2
<1> QED BY <1>4, <1>5, <1>6, <1>7, <1>8 DEF FInv

\* Signing in, revocations and failed requests change none of the columns.
LEMMA MfaElse ==
  ASSUME FInv,
         \/ Challenge \/ SignInByApp \/ RevokeSessions
         \/ \E h \in MfaHandlers : Dropped(h)
  PROVE  FInv'
<1>1. mfa \in Columns /\ step \in [MfaHandlers -> Requests] BY MfaTyped DEF FInv
<1>2. /\ made' = made /\ proved' = proved /\ spentCodes' = spentCodes /\ tangled' = tangled
  BY DEF Challenge, SignInByApp, RevokeSessions, Dropped
<1>3. /\ mfa' \in Columns /\ mfa'.enabled = mfa.enabled /\ mfa'.secret = mfa.secret
      /\ mfa'.codes = mfa.codes
  <2>1. CASE mfa' = mfa BY <1>1, <2>1
  <2>2. CASE RevokeSessions
    <3>1. mfa.version \in 1 .. MaxLogouts + 1 /\ mfa.version <= MaxLogouts
      BY <1>1, <2>2 DEF RevokeSessions, Columns
    <3>2. mfa.version + 1 \in 1 .. MaxLogouts + 1 BY <3>1, MfaAssumption
    <3>3. mfa' = [mfa EXCEPT !.version = mfa.version + 1] BY <2>2 DEF RevokeSessions
    <3> QED BY <1>1, <3>2, <3>3 DEF Columns
  <2> QED BY <2>1, <2>2 DEF Challenge, SignInByApp, Dropped
<1>4. /\ step' \in [MfaHandlers -> Requests]
      /\ \A g \in MfaHandlers : step'[g] = step[g] \/ step'[g] = Resting
  <2>1. CASE step' = step BY <1>1, <2>1
  <2>2. CASE \E h \in MfaHandlers : Dropped(h) BY <1>1, <2>2, RestingRow DEF Dropped
  <2> QED BY <2>1, <2>2 DEF Challenge, SignInByApp, RevokeSessions
<1>5. challenge' \in 0 .. MaxLogouts + 1
  <2>1. mfa.version \in 1 .. MaxLogouts + 1 /\ challenge \in 0 .. MaxLogouts + 1
    BY <1>1, MfaTyped DEF FInv, Columns
  <2>2. challenge' \in {challenge, 0, mfa.version}
    BY DEF Challenge, SignInByApp, RevokeSessions, Dropped
  <2> QED BY <2>1, <2>2, MfaAssumption
<1>6. MfaTypeOK' BY <1>2, <1>3, <1>4, <1>5, MfaTyped DEF FInv, MfaTypeOK, Columns, Requests
<1>7. CodesMade' BY <1>2, <1>3, <1>4, RestingRow DEF FInv, CodesMade
<1>8. RowIsCurrent' BY <1>2, <1>3, <1>4, RestingRow DEF FInv, RowIsCurrent
<1>9. NotLockedOut' /\ CodesUsedOnce' BY <1>2, <1>3 DEF FInv, NotLockedOut, CodesUsedOnce
<1> QED BY <1>6, <1>7, <1>8, <1>9 DEF FInv

\* Every step of the second factor keeps the invariant.
LEMMA MfaStep == FInv /\ [MfaNext]_mfaVars => FInv'
<1> SUFFICES ASSUME FInv, [MfaNext]_mfaVars PROVE FInv'
  OBVIOUS
<1>1. CASE UNCHANGED mfaVars
  BY <1>1 DEF mfaVars, FInv, MfaTypeOK, CodesMade, RowIsCurrent, NotLockedOut, CodesUsedOnce
<1>2. CASE \E h \in MfaHandlers : \/ BeginEnrollment(h) \/ BeginConfirm(h) \/ BeginDisable(h)
                                 \/ \E code \in Codes : BeginRecover(h, code)
  BY <1>2, MfaBeginning
<1>3. CASE \E h \in MfaHandlers, secret \in Secrets : Enrolled(h, secret)
  BY <1>3, MfaEnrolling
<1>4. CASE \E h \in MfaHandlers, batch \in SUBSET Codes : Confirmed(h, batch)
  BY <1>4, MfaConfirming
<1>5. CASE \E h \in MfaHandlers : EndDisable(h) BY <1>5, MfaDisabling
<1>6. CASE \E h \in MfaHandlers : Recovered(h) BY <1>6, MfaRecovering
<1>7. CASE \/ Challenge \/ SignInByApp \/ RevokeSessions
           \/ \E h \in MfaHandlers : Dropped(h)
  BY <1>7, MfaElse
<1> QED BY <1>1, <1>2, <1>3, <1>4, <1>5, <1>6, <1>7 DEF MfaNext

\* What is known of the second factor is known in every state.
LEMMA MfaAlways == MfaSpec => []FInv
<1> QED BY MfaInitInv, MfaStep, PTL DEF MfaSpec

\* While the second factor is on, its secret is one whose code the user has shown, for
\* any number of secrets, codes and requests, unless two requests overlapped.
THEOREM NobodyLockedOut == MfaSpec => []NotLockedOut
<1>1. FInv => NotLockedOut BY DEF FInv
<1> QED BY <1>1, MfaAlways, PTL

\* A recovery code that was accepted is not on the list again, unless two requests
\* overlapped.
THEOREM RecoveryCodesSpent == MfaSpec => []CodesUsedOnce
<1>1. FInv => CodesUsedOnce BY DEF FInv
<1> QED BY <1>1, MfaAlways, PTL

-----------------------------------------------------------------------------
(* Lockout *)

\* The comparisons that can share a stretch of time with one made now.
Fresh == {m \in 1 .. Len(compared) : compared[m] >= moment - LockTime + TicksInSecond}

\* What was compared lies in the past.
ComparedBefore == \A m \in 1 .. Len(compared) : compared[m] <= moment

\* A sign-in that overlapped no other one has seen the columns as they are.
AloneSeesAll ==
  \A h \in SignIns : attempt[h].on /\ attempt[h].alone =>
    attempt[h].seen = counter /\ \A g \in SignIns \ {h} : ~attempt[g].on

\* The columns account for the comparisons: the last failure is at least as young as they
\* are, the count at least as high, and a lock at least as long as the last one demands.
Covers(c) ==
  /\ c.lastFailed # NoTime => \A m \in 1 .. Len(compared) : compared[m] <= c.lastFailed
  /\ Cardinality(Fresh) <= c.failures
  /\ c.failures >= MaxFailed /\ LockTime >= TicksInSecond
       => \A m \in 1 .. Len(compared) : compared[m] + LockTime <= c.lockedUntil

\* One more comparison is in order, and nothing loaded was locked.
Room(c) ==
  /\ Cardinality(Fresh) < MaxFailed
  /\ c.lockedUntil # NoTime => c.lockedUntil - moment < TicksInSecond

\* What a sign-in has loaded accounts for the comparisons as well, and had room for one more.
LoadedCovers ==
  \A h \in SignIns : attempt[h].on => Covers(attempt[h].seen) /\ Room(attempt[h].seen)

\* The inductive invariant.
LInv ==
  LockTypeOK /\ ComparedBefore /\ AloneSeesAll /\ Covers(counter) /\ LoadedCovers /\ AttemptsBounded

\* What a sign-in holds.
Attempts == [on : BOOLEAN, seen : Counters, alone : BOOLEAN]

\* What the proofs count is finite, and the numbers are numbers.
LEMMA LiveCounted ==
    ASSUME LockTypeOK
    PROVE  /\ IsFiniteSet(Fresh) /\ Cardinality(Fresh) \in Nat
           /\ \A S \in SUBSET Fresh : Cardinality(S) <= Cardinality(Fresh) /\ Cardinality(S) \in Nat
           /\ DOMAIN compared = 1 .. Len(compared) /\ Len(compared) \in Nat
           /\ \A m \in 1 .. Len(compared) : compared[m] \in Moment /\ compared[m] \in Nat
           /\ moment \in Nat /\ counter.failures \in Nat
<1>1. compared \in Seq(Moment) /\ moment \in Moment /\ counter \in Counters
  BY DEF LockTypeOK
<1>2. DOMAIN compared = 1 .. Len(compared) /\ Len(compared) \in Nat
  BY <1>1
<1>3. \A x \in Moment : x \in Nat
  BY LockAssumption DEF Moment
<1>4. IsFiniteSet(1 .. Len(compared))
  BY <1>2, FS_Interval
<1>5. Fresh \in SUBSET (1 .. Len(compared))
  BY DEF Fresh
<1>6. IsFiniteSet(Fresh)
  BY <1>4, <1>5, FS_Subset
<1>7. \A S \in SUBSET Fresh : IsFiniteSet(S) /\ Cardinality(S) <= Cardinality(Fresh)
  BY <1>6, FS_Subset
<1>8. \A S \in SUBSET Fresh : Cardinality(S) \in Nat
  BY <1>7, FS_CardinalityType
<1>9. counter.failures \in Nat
  BY <1>1 DEF Counters
<1> QED BY <1>1, <1>2, <1>3, <1>6, <1>7, <1>8, <1>9, FS_CardinalityType

\* At first nothing has been compared.
LEMMA LockStart == LockInit => LInv
<1> SUFFICES ASSUME LockInit PROVE LInv
  OBVIOUS
<1>1. compared = <<>> /\ Len(compared) = 0 /\ 1 .. Len(compared) = {}
  BY DEF LockInit
<1>2. Clear \in Counters /\ Clear.failures = 0 /\ Clear.lockedUntil = NoTime
  BY DEF Clear, Counters
<1>3. NoAttempt \in Attempts /\ NoAttempt.on = FALSE
  BY <1>2 DEF NoAttempt, Attempts
<1>4. attempt = [h \in SignIns |-> NoAttempt] /\ \A h \in SignIns : ~attempt[h].on
  BY <1>3 DEF LockInit
<1>5. LockTypeOK
  <2>1. attempt \in [SignIns -> Attempts]
    BY <1>3, <1>4
  <2>2. moment \in Moment
    BY LockAssumption DEF LockInit, Moment
  <2>3. counter \in Counters /\ compared \in Seq(Moment)
    BY <1>2 DEF LockInit
  <2> QED BY <2>1, <2>2, <2>3 DEF LockTypeOK, Attempts
<1>6. Fresh = {}
  BY <1>1 DEF Fresh
<1>7. Covers(counter)
  BY <1>1, <1>2, <1>6, FS_EmptySet DEF Covers, LockInit
<1> QED BY <1>1, <1>4, <1>5, <1>7 DEF LInv, ComparedBefore, AloneSeesAll, LoadedCovers, AttemptsBounded

\* As time goes by less is live, and what covers the comparisons goes on covering them.
LEMMA ElapseKeeps == ASSUME LInv, Elapse PROVE LInv'
<1> USE DEF LInv
<1>1. moment' = moment + 1 /\ moment < LastMoment /\ UNCHANGED <<counter, attempt, compared>>
  BY DEF Elapse
<1>2. moment \in Nat /\ Cardinality(Fresh) \in Nat /\ counter.failures \in Nat
      /\ \A m \in 1 .. Len(compared) : compared[m] \in Nat
  BY LiveCounted
<1>3. LockTypeOK'
  <2>1. moment' \in Moment
    BY <1>1, <1>2, LockAssumption DEF Moment
  <2> QED BY <1>1, <2>1 DEF LockTypeOK
<1>4. Fresh' \in SUBSET Fresh
  BY <1>1, <1>2, LockAssumption DEF Fresh
<1>5. Cardinality(Fresh') <= Cardinality(Fresh) /\ Cardinality(Fresh') \in Nat
  BY <1>4, LiveCounted
<1>6. \A c \in Counters : Covers(c) => Covers(c)'
  <2> SUFFICES ASSUME NEW c \in Counters, Covers(c) PROVE Covers(c)'
    OBVIOUS
  <2>1. c.failures \in Nat
    BY DEF Counters
  <2> QED BY <1>1, <1>2, <1>5, <2>1 DEF Covers
<1>7. \A c \in Counters : Room(c) => Room(c)'
  <2> SUFFICES ASSUME NEW c \in Counters, Room(c) PROVE Room(c)'
    OBVIOUS
  <2>1. c.lockedUntil # NoTime => c.lockedUntil \in Nat
    BY DEF Counters
  <2> QED BY <1>1, <1>2, <1>5, <2>1, LockAssumption DEF Room
<1>8. counter \in Counters /\ \A h \in SignIns : attempt[h].seen \in Counters
  BY DEF LockTypeOK
<1>9. Covers(counter)' /\ LoadedCovers'
  BY <1>1, <1>6, <1>7, <1>8 DEF LoadedCovers
<1>10. ComparedBefore' /\ AloneSeesAll' /\ AttemptsBounded'
  <2>1. ComparedBefore'
    BY <1>1, <1>2 DEF ComparedBefore
  <2>2. AloneSeesAll' /\ AttemptsBounded'
    BY <1>1 DEF AloneSeesAll, AttemptsBounded
  <2> QED BY <2>1, <2>2
<1> QED BY <1>3, <1>9, <1>10

\* A sign-in is let in to the comparison only where there is room.
LEMMA SignInKeeps == ASSUME LInv, NEW h \in SignIns, SignIn(h) PROVE LInv'
<1> USE DEF LInv
<1> DEFINE meets == \E g \in SignIns : attempt[g].on
           mine == [on |-> TRUE, seen |-> counter, alone |-> ~meets]
<1>1. /\ ~attempt[h].on /\ ~Locked(counter)
      /\ attempt' = [g \in SignIns |-> IF g = h THEN mine
            ELSE IF attempt[g].on THEN [attempt[g] EXCEPT !.alone = FALSE] ELSE attempt[g]]
      /\ UNCHANGED <<moment, counter, compared>>
  BY DEF SignIn
<1>2. counter \in Counters /\ attempt \in [SignIns -> Attempts]
  BY DEF LockTypeOK, Attempts
<1>3. mine \in Attempts /\ mine.on /\ mine.seen = counter /\ (mine.alone <=> ~meets)
  <2> DEFINE a == ~meets
  <2>1. a \in BOOLEAN
    OBVIOUS
  <2> HIDE DEF a
  <2>2. [on |-> TRUE, seen |-> counter, alone |-> a] \in Attempts
    BY <1>2, <2>1 DEF Attempts
  <2>3. mine = [on |-> TRUE, seen |-> counter, alone |-> a]
    BY DEF a
  <2> QED BY <2>2, <2>3 DEF a
<1> HIDE DEF mine
<1>4. ASSUME NEW g \in SignIns, g # h, attempt[g].on
      PROVE  /\ attempt'[g] = [attempt[g] EXCEPT !.alone = FALSE] /\ attempt'[g] \in Attempts
             /\ attempt'[g].on /\ attempt'[g].seen = attempt[g].seen /\ ~attempt'[g].alone
  <2>1. attempt'[g] = [attempt[g] EXCEPT !.alone = FALSE] /\ attempt[g] \in Attempts
    BY <1>1, <1>2, <1>4
  <2> QED BY <2>1, <1>4 DEF Attempts
<1>5. ASSUME NEW g \in SignIns, g # h, ~attempt[g].on
      PROVE  attempt'[g] = attempt[g] /\ attempt'[g] \in Attempts
  BY <1>1, <1>2, <1>5
<1>6. attempt'[h] = mine
  BY <1>1
<1>7. LockTypeOK'
  <2>1. \A g \in SignIns : attempt'[g] \in Attempts
    BY <1>3, <1>4, <1>5, <1>6
  <2>2. attempt' \in [SignIns -> Attempts]
    BY <1>1, <2>1
  <2> QED BY <1>1, <2>2 DEF LockTypeOK, Attempts
<1>8. Fresh' = Fresh /\ \A c : (Covers(c)' <=> Covers(c)) /\ (Room(c)' <=> Room(c))
  BY <1>1 DEF Fresh, Covers, Room
<1>9. Room(counter)
  <2>1. /\ moment \in Nat /\ counter.failures \in Nat /\ Cardinality(Fresh) \in Nat
        /\ \A m \in 1 .. Len(compared) : compared[m] \in Nat /\ compared[m] <= moment
    BY LiveCounted DEF ComparedBefore
  <2>2. counter.lockedUntil # NoTime
          => counter.lockedUntil \in Nat /\ counter.lockedUntil - moment < TicksInSecond
    BY <1>1, <1>2, <2>1, LockAssumption DEF Locked, Counters
  <2>3. CASE counter.failures < MaxFailed
    BY <2>1, <2>2, <2>3, LockAssumption DEF Room, Covers
  <2>4. CASE counter.failures >= MaxFailed
    <3>1. ASSUME NEW m \in Fresh PROVE FALSE
      <4>1. /\ m \in 1 .. Len(compared) /\ compared[m] >= moment - LockTime + TicksInSecond
            /\ compared[m] \in Nat /\ compared[m] <= moment
        BY <2>1 DEF Fresh
      <4>2. CASE LockTime < TicksInSecond
        BY <2>1, <4>1, <4>2, LockAssumption
      <4>3. CASE LockTime >= TicksInSecond
        <5>1. compared[m] + LockTime <= counter.lockedUntil
          BY <2>4, <4>1, <4>3 DEF Covers
        <5>2. counter.lockedUntil # NoTime
          BY <4>1, <5>1, LockAssumption DEF NoTime
        <5> QED BY <2>1, <2>2, <4>1, <5>1, <5>2, LockAssumption
      <4> QED BY <4>2, <4>3, LockAssumption
    <3>2. Cardinality(Fresh) = 0
      BY <3>1, FS_EmptySet
    <3> QED BY <2>2, <3>2, LockAssumption DEF Room
  <2> QED BY <2>1, <2>3, <2>4, LockAssumption
<1>10. LoadedCovers'
  <2> SUFFICES ASSUME NEW g \in SignIns, attempt'[g].on
               PROVE  Covers(attempt'[g].seen) /\ Room(attempt'[g].seen)
    BY <1>8 DEF LoadedCovers
  <2> QED BY <1>3, <1>4, <1>5, <1>6, <1>9 DEF LoadedCovers
<1>11. AloneSeesAll'
  <2> SUFFICES ASSUME NEW g \in SignIns, attempt'[g].on, attempt'[g].alone
               PROVE  attempt'[g].seen = counter /\ \A k \in SignIns \ {g} : ~attempt'[k].on
    BY <1>1 DEF AloneSeesAll
  <2>1. g = h
    BY <1>4, <1>5
  <2>2. ~meets
    BY <1>3, <1>6, <2>1
  <2> QED BY <1>3, <1>5, <1>6, <2>1, <2>2
<1>12. Covers(counter)' /\ ComparedBefore' /\ AttemptsBounded'
  BY <1>1, <1>8 DEF ComparedBefore, AttemptsBounded, Covers
<1> QED BY <1>7, <1>10, <1>11, <1>12

\* The columns that a failed sign-in computes, and what of them is written.
LEMMA FailedTyped ==
    ASSUME LockTypeOK, NEW s \in Counters
    PROVE  /\ Failed(s).failures = (IF Stale(s) THEN 0 ELSE s.failures) + 1
           /\ Failed(s).failures \in Nat /\ Failed(s).lastFailed = moment
           /\ Failed(s).lockedUntil = IF Failed(s).failures >= MaxFailed THEN moment + LockTime
                                     ELSE s.lockedUntil
           /\ Failed(s) \in Counters
           /\ moment \in Nat /\ s.failures \in Nat
<1> DEFINE count == (IF Stale(s) THEN 0 ELSE s.failures) + 1
           until == IF count >= MaxFailed THEN moment + LockTime ELSE s.lockedUntil
<1>1. moment \in Moment /\ moment \in Nat
  BY LockAssumption DEF LockTypeOK, Moment
<1>2. s.failures \in Nat /\ s.lockedUntil \in Nat \cup {NoTime}
  BY DEF Counters
<1>3. count \in Nat
  BY <1>2
<1>4. Failed(s) = [failures |-> count, lastFailed |-> moment, lockedUntil |-> until]
  BY DEF Failed
<1> HIDE DEF count
<1>5. until \in Nat \cup {NoTime}
  BY <1>1, <1>2, LockAssumption
<1> HIDE DEF until
<1>6. Failed(s) \in Counters
  BY <1>1, <1>3, <1>4, <1>5 DEF Counters
<1> QED BY <1>1, <1>2, <1>3, <1>4, <1>6 DEF count, until

\* A commit writes the columns that it changed, and those only.
LEMMA OverwrittenFields ==
    ASSUME NEW now \in Counters, NEW s \in Counters, NEW c \in Counters
    PROVE  /\ Overwritten(now, s, c) \in Counters
           /\ Overwritten(now, s, c).failures = IF c.failures = s.failures THEN now.failures ELSE c.failures
           /\ Overwritten(now, s, c).lastFailed
                = IF c.lastFailed = s.lastFailed THEN now.lastFailed ELSE c.lastFailed
           /\ Overwritten(now, s, c).lockedUntil
                = IF c.lockedUntil = s.lockedUntil THEN now.lockedUntil ELSE c.lockedUntil
<1> DEFINE f == IF c.failures = s.failures THEN now.failures ELSE c.failures
           l == IF c.lastFailed = s.lastFailed THEN now.lastFailed ELSE c.lastFailed
           u == IF c.lockedUntil = s.lockedUntil THEN now.lockedUntil ELSE c.lockedUntil
<1>1. Overwritten(now, s, c) = [failures |-> f, lastFailed |-> l, lockedUntil |-> u]
  BY DEF Overwritten
<1>2. f \in Nat /\ l \in Moment \cup {NoTime} /\ u \in Nat \cup {NoTime}
  BY DEF Counters
<1> HIDE DEF f, l, u
<1>3. Overwritten(now, s, c) \in Counters
  BY <1>1, <1>2 DEF Counters
<1>4. Overwritten(now, s, c).failures = f /\ Overwritten(now, s, c).lastFailed = l
      /\ Overwritten(now, s, c).lockedUntil = u
  BY <1>1
<1> QED BY <1>3, <1>4 DEF f, l, u

\* An old count that starts again starts when nothing is fresh.
LEMMA StaleFrees ==
    ASSUME LockTypeOK, ComparedBefore, NEW s \in Counters, Covers(s), Stale(s)
    PROVE  Fresh = {} /\ Cardinality(Fresh) = 0
<1>1. /\ moment \in Nat /\ \A m \in 1 .. Len(compared) : compared[m] \in Nat
  BY LiveCounted
<1>2. s.lastFailed # NoTime /\ moment - s.lastFailed > LockTime /\ s.lastFailed \in Int
  BY LockAssumption DEF Stale, Counters, Moment
<1>3. \A m \in 1 .. Len(compared) : compared[m] <= s.lastFailed
  BY <1>2 DEF Covers
<1>4. Fresh = {}
  BY <1>1, <1>2, <1>3, LockAssumption DEF Fresh
<1> QED BY <1>4, FS_EmptySet

\* Other sign-ins go on with what they have loaded.
LEMMA AttemptEnds ==
    ASSUME LockTypeOK, NEW h \in SignIns, attempt' = [attempt EXCEPT ![h] = NoAttempt]
    PROVE  /\ attempt' \in [SignIns -> Attempts]
           /\ \A g \in SignIns : attempt'[g].on => g # h /\ attempt'[g] = attempt[g]
<1>1. Clear \in Counters
  BY DEF Clear, Counters
<1>2. NoAttempt \in Attempts /\ NoAttempt.on = FALSE
  BY <1>1 DEF NoAttempt, Attempts
<1>3. attempt \in [SignIns -> Attempts]
  BY DEF LockTypeOK, Attempts
<1> QED BY <1>2, <1>3

\* The right password clears the columns and what they account for.
LEMMA RightKeeps == ASSUME LInv, NEW h \in SignIns, RightPassword(h) PROVE LInv'
<1> USE DEF LInv
<1> DEFINE s == attempt[h].seen
<1>1. /\ attempt[h].on /\ counter' = Overwritten(counter, s, Clear) /\ compared' = <<>>
      /\ attempt' = [attempt EXCEPT ![h] = NoAttempt] /\ moment' = moment
  BY DEF RightPassword
<1>2. /\ attempt' \in [SignIns -> Attempts]
      /\ \A g \in SignIns : attempt'[g].on => g # h /\ attempt'[g] = attempt[g]
  BY <1>1, AttemptEnds
<1>3. counter \in Counters /\ s \in Counters /\ Clear \in Counters
  BY DEF LockTypeOK, Clear, Counters
<1>4. counter' \in Counters
  BY <1>1, <1>3, OverwrittenFields
<1>5. LockTypeOK'
  BY <1>1, <1>2, <1>4 DEF LockTypeOK, Attempts
<1>6. 1 .. Len(compared') = {}
  BY <1>1
<1>7. Cardinality(Fresh') = 0
  <2>1. Fresh' = {}
    BY <1>6 DEF Fresh
  <2> QED BY <2>1, FS_EmptySet
<1>8. \A c \in Counters : Covers(c)'
  <2> SUFFICES ASSUME NEW c \in Counters PROVE Covers(c)'
    OBVIOUS
  <2>1. c.failures \in Nat
    BY DEF Counters
  <2> QED BY <1>6, <1>7, <2>1 DEF Covers
<1>9. LoadedCovers'
  <2> SUFFICES ASSUME NEW g \in SignIns, attempt'[g].on
               PROVE  Covers(attempt[g].seen)' /\ Room(attempt[g].seen)'
    BY DEF LoadedCovers
  <2>1. attempt'[g] = attempt[g] /\ attempt[g].on /\ attempt'[g] \in Attempts
    BY <1>2
  <2>2. attempt'[g].seen \in Counters
    BY <2>1 DEF Attempts
  <2>3. Room(attempt[g].seen)
    BY <2>1 DEF LoadedCovers
  <2>4. Room(attempt[g].seen)'
    BY <1>1, <1>7, <2>1, <2>3, LockAssumption DEF Room
  <2>5. Covers(attempt[g].seen)'
    BY <1>8, <2>2
  <2> QED BY <2>4, <2>5
<1>10. ComparedBefore' /\ AttemptsBounded'
  BY <1>6 DEF ComparedBefore, AttemptsBounded
<1>11. AloneSeesAll'
  <2> SUFFICES ASSUME NEW g \in SignIns, attempt'[g].on, attempt'[g].alone PROVE FALSE
    BY DEF AloneSeesAll
  <2>1. attempt[g].on /\ attempt[g].alone /\ g # h
    BY <1>2
  <2>2. ~attempt[h].on
    BY <2>1 DEF AloneSeesAll
  <2> QED BY <1>1, <2>2
<1> QED BY <1>4, <1>5, <1>8, <1>9, <1>10, <1>11

\* The columns that a failed sign-in leaves cover what was compared before it.
LEMMA FailureCovers ==
    ASSUME LInv, NEW h \in SignIns, attempt[h].on, NEW c,
           c = Overwritten(counter, attempt[h].seen, Failed(attempt[h].seen))
    PROVE  c \in Counters /\ Covers(c)
<1> USE DEF LInv
<1> DEFINE s == attempt[h].seen
           f == Failed(s)
<1>1. s \in Counters /\ counter \in Counters
  BY DEF LockTypeOK
<1>2. Covers(s) /\ Room(s) /\ Covers(counter)
  BY DEF LoadedCovers
<1>3. /\ f.failures = (IF Stale(s) THEN 0 ELSE s.failures) + 1
      /\ f.failures \in Nat /\ f.lastFailed = moment
      /\ f.lockedUntil = IF f.failures >= MaxFailed THEN moment + LockTime ELSE s.lockedUntil
      /\ f \in Counters /\ moment \in Nat /\ s.failures \in Nat
  BY <1>1, FailedTyped
<1> HIDE DEF s, f
<1>4. /\ c \in Counters
      /\ c.failures = IF f.failures = s.failures THEN counter.failures ELSE f.failures
      /\ c.lastFailed = IF f.lastFailed = s.lastFailed THEN counter.lastFailed ELSE f.lastFailed
      /\ c.lockedUntil = IF f.lockedUntil = s.lockedUntil THEN counter.lockedUntil ELSE f.lockedUntil
  BY <1>1, <1>3, OverwrittenFields DEF s, f
<1>5. /\ Cardinality(Fresh) \in Nat /\ counter.failures \in Nat
      /\ \A m \in 1 .. Len(compared) : compared[m] \in Nat /\ compared[m] <= moment
  BY LiveCounted DEF ComparedBefore
<1>6. c.lastFailed # NoTime => \A m \in 1 .. Len(compared) : compared[m] <= c.lastFailed
  BY <1>2, <1>3, <1>4, <1>5 DEF Covers
<1>7. Cardinality(Fresh) <= c.failures
  <2>1. CASE Stale(s)
    <3>1. Cardinality(Fresh) = 0
      BY <1>1, <1>2, <2>1, StaleFrees
    <3>2. c.failures \in Nat
      BY <1>4 DEF Counters
    <3> QED BY <3>1, <3>2
  <2>2. CASE ~Stale(s)
    <3>1. Cardinality(Fresh) <= s.failures
      BY <1>2 DEF Covers
    <3> QED BY <1>3, <1>4, <1>5, <2>2, <3>1
  <2> QED BY <2>1, <2>2
<1>8. ASSUME c.failures >= MaxFailed, LockTime >= TicksInSecond, NEW m \in 1 .. Len(compared)
      PROVE  compared[m] + LockTime <= c.lockedUntil
  <2>1. CASE f.failures >= MaxFailed
    <3>1. f.lockedUntil = moment + LockTime /\ moment + LockTime \in Nat
      BY <1>3, <2>1, LockAssumption
    <3>2. s.lockedUntil # NoTime => s.lockedUntil - moment < TicksInSecond
      BY <1>2 DEF Room
    <3>3. s.lockedUntil \in Nat \cup {NoTime}
      BY <1>1 DEF Counters
    <3>4. moment + LockTime # s.lockedUntil
      BY <1>3, <1>8, <3>1, <3>2, <3>3, LockAssumption DEF NoTime
    <3>5. c.lockedUntil = moment + LockTime
      BY <1>4, <3>1, <3>4
    <3> QED BY <1>3, <1>5, <3>5, LockAssumption
  <2>2. CASE f.failures < MaxFailed
    <3>1. f.lockedUntil = s.lockedUntil /\ c.lockedUntil = counter.lockedUntil
      BY <1>3, <1>4, <2>2, LockAssumption
    <3>2. counter.failures >= MaxFailed
      BY <1>3, <1>4, <1>8, <2>2, LockAssumption
    <3> QED BY <1>2, <1>8, <3>1, <3>2 DEF Covers
  <2> QED BY <1>3, <2>1, <2>2, LockAssumption
<1> QED BY <1>4, <1>6, <1>7, <1>8 DEF Covers

\* A failure alone is counted on the columns as they are.
LEMMA WrongKeeps == ASSUME LInv, NEW h \in SignIns, WrongPassword(h) PROVE LInv'
<1> USE DEF LInv
<1> DEFINE s == attempt[h].seen
<1>1. /\ attempt[h].on /\ counter' = Overwritten(counter, s, Failed(s))
      /\ compared' = IF attempt[h].alone THEN Append(compared, moment) ELSE compared
      /\ attempt' = [attempt EXCEPT ![h] = NoAttempt] /\ moment' = moment
  BY DEF WrongPassword
<1>2. /\ attempt' \in [SignIns -> Attempts]
      /\ \A g \in SignIns : attempt'[g].on => g # h /\ attempt'[g] = attempt[g]
  BY <1>1, AttemptEnds
<1>3. counter' \in Counters /\ Covers(counter')
  BY <1>1, FailureCovers
<1>4. moment \in Moment /\ compared \in Seq(Moment) /\ s \in Counters
  BY DEF LockTypeOK
<1>5. LockTypeOK'
  BY <1>1, <1>2, <1>3, <1>4 DEF LockTypeOK, Attempts
<1>6. AloneSeesAll'
  <2> SUFFICES ASSUME NEW g \in SignIns, attempt'[g].on, attempt'[g].alone PROVE FALSE
    BY DEF AloneSeesAll
  <2>1. attempt[g].on /\ attempt[g].alone /\ g # h
    BY <1>2
  <2>2. ~attempt[h].on
    BY <2>1 DEF AloneSeesAll
  <2> QED BY <1>1, <2>2
<1>7. CASE ~attempt[h].alone
  <2>1. compared' = compared /\ moment' = moment /\ Fresh' = Fresh
    BY <1>1, <1>7 DEF Fresh
  <2>2. \A c : (Covers(c) => Covers(c)') /\ (Room(c) => Room(c)')
    BY <2>1 DEF Covers, Room
  <2>3. Covers(counter)'
    BY <1>3, <2>1 DEF Covers
  <2>4. LoadedCovers'
    BY <1>2, <2>2 DEF LoadedCovers
  <2>5. ComparedBefore' /\ AttemptsBounded'
    BY <2>1 DEF ComparedBefore, AttemptsBounded
  <2> QED BY <1>5, <1>6, <2>3, <2>4, <2>5
<1>8. CASE attempt[h].alone
  <2> DEFINE n == Len(compared) + 1
  <2>1. compared' = Append(compared, moment) /\ s = counter /\ \A g \in SignIns : ~attempt'[g].on
    BY <1>1, <1>2, <1>8 DEF AloneSeesAll
  <2>2. Covers(s) /\ Room(s)
    BY <1>1 DEF LoadedCovers
  <2>3. /\ Len(compared) \in Nat /\ moment \in Nat /\ IsFiniteSet(Fresh) /\ Cardinality(Fresh) \in Nat
        /\ \A m \in 1 .. Len(compared) : compared[m] \in Nat /\ compared[m] <= moment
    BY LiveCounted DEF ComparedBefore
  <2>4. /\ Len(compared') = n /\ compared'[n] = moment
        /\ \A m \in 1 .. Len(compared) : compared'[m] = compared[m]
    BY <1>4, <2>1
  <2>5. /\ counter'.failures = Failed(s).failures /\ counter'.lastFailed = moment
        /\ counter'.lockedUntil = Failed(s).lockedUntil
        /\ Failed(s).failures = (IF Stale(s) THEN 0 ELSE s.failures) + 1
        /\ Failed(s).failures >= MaxFailed => Failed(s).lockedUntil = moment + LockTime
        /\ s.failures \in Nat
    <3>1. /\ Failed(s).failures = (IF Stale(s) THEN 0 ELSE s.failures) + 1
          /\ Failed(s).lastFailed = moment
          /\ Failed(s).lockedUntil = IF Failed(s).failures >= MaxFailed THEN moment + LockTime
                                     ELSE s.lockedUntil
          /\ Failed(s) \in Counters /\ s.failures \in Nat
      BY <1>4, FailedTyped
    <3> DEFINE f == Failed(s)
    <3> HIDE DEF f, s
    <3>2. /\ counter'.failures = IF f.failures = s.failures THEN counter.failures ELSE f.failures
          /\ counter'.lastFailed = IF f.lastFailed = s.lastFailed THEN counter.lastFailed ELSE f.lastFailed
          /\ counter'.lockedUntil = IF f.lockedUntil = s.lockedUntil THEN counter.lockedUntil ELSE f.lockedUntil
      BY <1>1, <1>4, <2>1, <3>1, OverwrittenFields DEF f
    <3>3. /\ counter'.failures = f.failures /\ counter'.lastFailed = f.lastFailed
          /\ counter'.lockedUntil = f.lockedUntil
      BY <2>1, <3>2
    <3> QED BY <3>1, <3>3 DEF f
  <2>6. Fresh' \in SUBSET (Fresh \cup {n})
    BY <1>1, <2>3, <2>4 DEF Fresh
  <2>7. Cardinality(Fresh \cup {n}) = Cardinality(Fresh) + 1 /\ IsFiniteSet(Fresh \cup {n})
    <3>1. n \notin Fresh
      BY <2>3 DEF Fresh
    <3> QED BY <2>3, <3>1, FS_AddElement
  <2>8. /\ IsFiniteSet(Fresh') /\ Cardinality(Fresh') \in Nat
        /\ Cardinality(Fresh') <= Cardinality(Fresh) + 1
    BY <2>6, <2>7, FS_Subset, FS_CardinalityType
  <2>9. Covers(counter)'
    <3>1. Cardinality(Fresh') <= counter'.failures
      <4>1. CASE Stale(s)
        <5>1. Cardinality(Fresh) = 0
          BY <1>4, <2>2, <4>1, StaleFrees
        <5> QED BY <2>5, <2>8, <4>1, <5>1
      <4>2. CASE ~Stale(s)
        <5>1. Cardinality(Fresh) <= s.failures
          BY <2>2 DEF Covers
        <5> QED BY <2>3, <2>5, <2>8, <4>2, <5>1
      <4> QED BY <4>1, <4>2
    <3>2. \A m \in 1 .. Len(compared') : compared'[m] \in Nat /\ compared'[m] <= moment
      BY <2>3, <2>4
    <3>3. counter'.failures >= MaxFailed => counter'.lockedUntil = moment + LockTime
      BY <2>5
    <3> QED BY <2>3, <2>5, <3>1, <3>2, <3>3, LockAssumption DEF Covers
  <2>10. ComparedBefore'
    BY <1>1, <2>3, <2>4 DEF ComparedBefore
  <2>11. LoadedCovers'
    BY <2>1 DEF LoadedCovers
  <2>12. AttemptsBounded'
    <3> DEFINE near(e) == {m \in 1 .. Len(compared) :
                            compared[m] \in e - LockTime + TicksInSecond .. e}
               nearer(e) == {m \in 1 .. Len(compared') :
                              compared'[m] \in e - LockTime + TicksInSecond .. e}
    <3> SUFFICES ASSUME NEW k \in 1 .. n PROVE Cardinality(nearer(compared'[k])) <= MaxFailed
      BY <2>4 DEF AttemptsBounded
    <3>1. CASE compared'[k] = moment
      <4>1. nearer(moment) \in SUBSET Fresh'
        BY <1>1, <2>3, <2>4, LockAssumption DEF Fresh
      <4> HIDE DEF nearer
      <4>2. Cardinality(nearer(moment)) <= Cardinality(Fresh') /\ Cardinality(nearer(moment)) \in Nat
        BY <2>8, <4>1, FS_Subset, FS_CardinalityType
      <4>3. Cardinality(Fresh) < MaxFailed
        BY <2>2 DEF Room
      <4> QED BY <2>3, <2>8, <3>1, <4>2, <4>3, LockAssumption
    <3>2. CASE compared'[k] # moment
      <4>1. k \in 1 .. Len(compared) /\ compared'[k] = compared[k] /\ compared[k] < moment
        BY <2>3, <2>4, <3>2
      <4>2. nearer(compared[k]) = near(compared[k])
        <5>1. moment \notin compared[k] - LockTime + TicksInSecond .. compared[k]
          BY <2>3, <4>1, LockAssumption
        <5>2. 1 .. Len(compared') = (1 .. Len(compared)) \cup {n}
          BY <2>3, <2>4
        <5> QED BY <2>4, <5>1, <5>2
      <4>3. Cardinality(near(compared[k])) <= MaxFailed
        BY <4>1 DEF AttemptsBounded
      <4> QED BY <4>1, <4>2, <4>3
    <3> QED BY <3>1, <3>2
  <2> QED BY <1>5, <1>6, <2>9, <2>10, <2>11, <2>12
<1> QED BY <1>7, <1>8

\* Every step keeps the invariant.
LEMMA LockKeeps == LInv /\ [LockNext]_lockVars => LInv'
<1> SUFFICES ASSUME LInv, [LockNext]_lockVars PROVE LInv'
  OBVIOUS
<1>1. CASE Elapse
  BY <1>1, ElapseKeeps
<1>2. ASSUME NEW h \in SignIns, SignIn(h) PROVE LInv'
  BY <1>2, SignInKeeps
<1>3. ASSUME NEW h \in SignIns, WrongPassword(h) PROVE LInv'
  BY <1>3, WrongKeeps
<1>4. ASSUME NEW h \in SignIns, RightPassword(h) PROVE LInv'
  BY <1>4, RightKeeps
<1>5. CASE UNCHANGED lockVars
  <2>1. LockTypeOK' /\ Covers(counter)'
    BY <1>5 DEF lockVars, LInv, LockTypeOK, Covers, Fresh
  <2>2. ComparedBefore' /\ AloneSeesAll' /\ LoadedCovers' /\ AttemptsBounded'
    BY <1>5 DEF lockVars, LInv, ComparedBefore, AloneSeesAll, LoadedCovers, Covers, Room, Fresh,
                AttemptsBounded
  <2> QED BY <2>1, <2>2 DEF LInv
<1> QED BY <1>1, <1>2, <1>3, <1>4, <1>5 DEF LockNext

\* For any number of sign-ins, any limit and any lockout time.
THEOREM AttemptsStayBounded == LockSpec => []AttemptsBounded
<1>1. LInv => AttemptsBounded
  BY DEF LInv
<1> QED BY <1>1, LockStart, LockKeeps, PTL DEF LockSpec

-----------------------------------------------------------------------------
(* RateLimiter *)

\* The places of the hits of a store that are younger than t, and of the allowed hits.
Young(s, t) == {n \in 1 .. Len(s) : s[n] > t}
Recent(t) == {m \in 1 .. Len(allowed) : ~allowed[m].late /\ allowed[m].at > t}
Inside(end) ==
  {m \in 1 .. Len(allowed) : ~allowed[m].late /\ allowed[m].at \in end - Window + 1 .. end}

\* Of the window that ends now, or later, every hit in order is in the store.
RecentStored ==
  \A t \in Int :
    (\A m \in 1 .. Len(allowed) : allowed[m].at <= t + Window)
      => Cardinality(Recent(t)) <= Cardinality(Young(hits, t))

\* Wherever a window ends.
EveryWindow == \A end \in Int : Cardinality(Inside(end)) <= Limit

\* The oldest hit is forgotten at the time that a refused client was told.
OldestForgotten == told # NotRead => Len(hits) = 0 \/ hits[1] + Window <= told

\* The inductive invariant.
RInv == RateTypeOK /\ Len(hits) <= Limit /\ RecentStored /\ EveryWindow /\ OldestForgotten

\* Natural numbers have a least one.
LEMMA LeastOf ==
    ASSUME NEW S \in SUBSET Nat, S # {}
    PROVE  \E d \in S : \A e \in S : d <= e
<1>1. \E d \in S : \A e \in S : ~(<<e, d>> \in OpToRel(<, Nat))
  BY WFMin, NatLessThanWellFounded, Zenon
<1>2. PICK d \in S : \A e \in S : ~(<<e, d>> \in OpToRel(<, Nat))
  BY <1>1
<1>3. ASSUME NEW e \in S PROVE d <= e
  <2>1. ~(e < d)
    BY <1>2 DEF OpToRel
  <2> QED BY <2>1
<1> QED BY <1>3

\* What a client is told is no shorter than what it has to wait.
LEMMA RoundsUp ==
    ASSUME NEW ticks \in Int
    PROVE  RoundedUp(ticks) \in Nat /\ ticks <= RoundedUp(ticks)
<1> DEFINE q == (ticks + TickPerSecond - 1) \div TickPerSecond
<1>1. TickPerSecond \in Nat /\ TickPerSecond > 0
  BY RateAssumption
<1>2. q \in Int
  BY <1>1
<1>3. ticks + TickPerSecond - 1 < (q + 1) * TickPerSecond
  BY <1>1
<1>4. (q + 1) * TickPerSecond = q * TickPerSecond + TickPerSecond
  <2> HIDE DEF q
  <2> QED BY <1>1, <1>2
<1>5. q * TickPerSecond \in Int
  <2> HIDE DEF q
  <2> QED BY <1>1, <1>2
<1>6. RoundedUp(ticks) = IF q * TickPerSecond < TickPerSecond THEN TickPerSecond ELSE q * TickPerSecond
  BY DEF RoundedUp
<1> DEFINE up == q * TickPerSecond
<1> HIDE DEF q
<1>7. up \in Int /\ ticks - 1 < up
  BY <1>1, <1>3, <1>4, <1>5
<1>8. RoundedUp(ticks) = IF up < TickPerSecond THEN TickPerSecond ELSE up
  BY <1>6
<1> HIDE DEF up
<1> QED BY <1>1, <1>7, <1>8

\* Forgetting removes from the front, and nothing that is young enough.
LEMMA KeptHits ==
    ASSUME hits \in Seq(Instant), NEW now \in Instant
    PROVE  \E k \in 0 .. Len(hits) :
             /\ Kept(now) \in Seq(Instant) /\ Len(Kept(now)) = Len(hits) - k
             /\ \A n \in 1 .. Len(hits) - k : Kept(now)[n] = hits[n + k]
             /\ \A n \in 1 .. k : Forgotten(hits[n], now)
             /\ k < Len(hits) => ~Forgotten(hits[k + 1], now)
<1> DEFINE young == {n \in 1 .. Len(hits) : ~Forgotten(hits[n], now)}
           first == IF young = {} THEN Len(hits) + 1
                    ELSE CHOOSE n \in young : \A m \in young : n <= m
<1>1. Len(hits) \in Nat /\ \A n \in 1 .. Len(hits) : hits[n] \in Instant
  OBVIOUS
<1>2. Kept(now) = SubSeq(hits, first, Len(hits))
  BY DEF Kept
<1>3. /\ first \in 1 .. Len(hits) + 1
      /\ \A n \in 1 .. first - 1 : Forgotten(hits[n], now)
      /\ first <= Len(hits) => ~Forgotten(hits[first], now)
  <2>1. CASE young = {}
    BY <1>1, <2>1
  <2>2. CASE young # {}
    <3>1. young \in SUBSET Nat
      BY <1>1
    <3>2. \E n \in young : \A m \in young : n <= m
      <4> HIDE DEF young
      <4> QED BY <2>2, <3>1, LeastOf
    <3>3. first \in young /\ \A m \in young : first <= m
      <4>1. first = CHOOSE n \in young : \A m \in young : n <= m
        BY <2>2
      <4> HIDE DEF young, first
      <4> QED BY <3>2, <4>1
    <3> HIDE DEF first
    <3>4. \A n \in 1 .. first - 1 : n \notin young
      BY <1>1, <3>1, <3>3
    <3>5. first \in 1 .. Len(hits) /\ ~Forgotten(hits[first], now)
      BY <3>3
    <3> QED BY <1>1, <3>4, <3>5
  <2> QED BY <2>1, <2>2
<1> HIDE DEF first
<1> DEFINE k == first - 1
<1>4. k \in 0 .. Len(hits) /\ first = k + 1
  BY <1>1, <1>3
<1>5. \A n \in first .. Len(hits) : hits[n] \in Instant
  BY <1>1, <1>3
<1>6. /\ Kept(now) \in Seq(Instant)
      /\ Len(Kept(now)) = IF first <= Len(hits) THEN Len(hits) - first + 1 ELSE 0
      /\ \A n \in 1 .. Len(hits) - first + 1 : Kept(now)[n] = hits[first + n - 1]
  BY <1>1, <1>2, <1>3, <1>5, SubSeqProperties
<1> HIDE DEF k
<1>7. Len(Kept(now)) = Len(hits) - k
  BY <1>1, <1>4, <1>6
<1>8. \A n \in 1 .. Len(hits) - k : Kept(now)[n] = hits[n + k]
  <2> SUFFICES ASSUME NEW n \in 1 .. Len(hits) - k PROVE Kept(now)[n] = hits[n + k]
    OBVIOUS
  <2>1. n \in 1 .. Len(hits) - first + 1 /\ first + n - 1 = n + k
    BY <1>1, <1>4
  <2>2. Kept(now)[n] = hits[first + n - 1]
    BY <1>6, <2>1
  <2> QED BY <2>1, <2>2
<1>9. \A n \in 1 .. k : Forgotten(hits[n], now)
  BY <1>1, <1>3, <1>4
<1>10. k < Len(hits) => ~Forgotten(hits[k + 1], now)
  BY <1>1, <1>3, <1>4
<1> QED BY <1>4, <1>6, <1>7, <1>8, <1>9, <1>10

\* There are n places in a sequence of n.
LEMMA PlacesCounted ==
    ASSUME NEW n \in Nat
    PROVE  IsFiniteSet(1 .. n) /\ Cardinality(1 .. n) = n
BY FS_Interval

\* Young hits are no more than hits.
LEMMA YoungCounted ==
    ASSUME NEW s \in Seq(Instant), NEW t \in Int
    PROVE  /\ IsFiniteSet(Young(s, t)) /\ Cardinality(Young(s, t)) \in Nat
           /\ Cardinality(Young(s, t)) <= Len(s)
<1>1. Len(s) \in Nat
  OBVIOUS
<1>2. IsFiniteSet(1 .. Len(s)) /\ Cardinality(1 .. Len(s)) = Len(s)
  BY <1>1, PlacesCounted
<1>3. Young(s, t) \in SUBSET (1 .. Len(s))
  BY DEF Young
<1> QED BY <1>2, <1>3, FS_Subset, FS_CardinalityType

\* ... so that as many young hits are left as there were.
LEMMA YoungKept ==
    ASSUME hits \in Seq(Instant), NEW now \in Instant, NEW t \in Int, now - Window <= t
    PROVE  Cardinality(Young(hits, t)) <= Cardinality(Young(Kept(now), t))
<1>1. PICK k \in 0 .. Len(hits) :
             /\ Kept(now) \in Seq(Instant) /\ Len(Kept(now)) = Len(hits) - k
             /\ \A n \in 1 .. Len(hits) - k : Kept(now)[n] = hits[n + k]
             /\ \A n \in 1 .. k : Forgotten(hits[n], now)
  BY KeptHits
<1>2. Len(hits) \in Nat /\ \A n \in 1 .. Len(hits) : hits[n] \in Int
  BY RateAssumption DEF Instant
<1>3. now \in Int /\ Window \in Int
  BY RateAssumption DEF Instant
<1> DEFINE moved == [n \in Young(hits, t) |-> n - k]
<1>4. \A n \in Young(hits, t) : n - k \in Young(Kept(now), t) /\ n \in Nat
  <2> SUFFICES ASSUME NEW n \in Young(hits, t) PROVE n - k \in Young(Kept(now), t) /\ n \in Nat
    OBVIOUS
  <2>1. n \in 1 .. Len(hits) /\ hits[n] > t
    BY DEF Young
  <2>2. n \notin 1 .. k
    BY <1>1, <1>2, <1>3, <2>1 DEF Forgotten
  <2>3. n - k \in 1 .. Len(hits) - k /\ (n - k) + k = n
    BY <1>2, <2>1, <2>2
  <2>4. Kept(now)[n - k] = hits[n]
    BY <1>1, <2>3
  <2> QED BY <1>1, <1>2, <2>1, <2>3, <2>4 DEF Young
<1>5. moved \in Injection(Young(hits, t), Young(Kept(now), t))
  <2>1. moved \in [Young(hits, t) -> Young(Kept(now), t)]
    BY <1>4
  <2>2. \A m, n \in Young(hits, t) : moved[m] = moved[n] => m = n
    BY <1>4
  <2> QED BY <2>1, <2>2 DEF Injection, IsInjective
<1>6. IsFiniteSet(Young(Kept(now), t))
  BY <1>1, YoungCounted
<1> HIDE DEF moved
<1> QED BY <1>5, <1>6, FS_Injection

\* A hit added is one more young hit, and keeps the others.
LEMMA AddedHits ==
    ASSUME NEW kept \in Seq(Instant), NEW now \in Instant
    PROVE  /\ Added(kept, now) \in Seq(Instant) /\ Len(Added(kept, now)) = Len(kept) + 1
           /\ \A t \in Int :
                /\ Cardinality(Young(kept, t)) <= Cardinality(Young(Added(kept, now), t))
                /\ now > t => Cardinality(Young(kept, t)) + 1 <= Cardinality(Young(Added(kept, now), t))
<1> DEFINE all == 1 .. Len(kept)
           before == IF backend = "redis" THEN Cardinality({n \in all : kept[n] <= now}) ELSE Len(kept)
           a == Added(kept, now)
<1>1. Len(kept) \in Nat /\ \A n \in all : kept[n] \in Instant /\ kept[n] \in Int
  BY RateAssumption DEF Instant
<1>2. before \in 0 .. Len(kept)
  <2> DEFINE le == {n \in all : kept[n] <= now}
  <2>0. le \in SUBSET all
    OBVIOUS
  <2>1. IsFiniteSet(all) /\ Cardinality(all) = Len(kept)
    BY <1>1, PlacesCounted
  <2> HIDE DEF le, all
  <2>2. Cardinality(le) \in Nat /\ Cardinality(le) <= Len(kept)
    BY <2>0, <2>1, FS_Subset, FS_CardinalityType
  <2> QED BY <1>1, <2>2 DEF le
<1>3. a = [n \in 1 .. Len(kept) + 1 |->
             IF n <= before THEN kept[n] ELSE IF n = before + 1 THEN now ELSE kept[n - 1]]
  BY DEF Added
<1> HIDE DEF before, a
<1>4. \A n \in 1 .. Len(kept) + 1 : a[n] \in Instant
  BY <1>1, <1>2, <1>3
<1>5. a \in Seq(Instant) /\ Len(a) = Len(kept) + 1
  <2>1. Len(kept) + 1 \in Nat
    BY <1>1
  <2>2. a \in [1 .. Len(kept) + 1 -> Instant]
    BY <1>3, <1>4
  <2> QED BY <2>1, <2>2
<1>6. ASSUME NEW t \in Int
      PROVE  /\ Cardinality(Young(kept, t)) <= Cardinality(Young(a, t))
             /\ now > t => Cardinality(Young(kept, t)) + 1 <= Cardinality(Young(a, t))
  <2> DEFINE moved == [n \in Young(kept, t) |-> IF n <= before THEN n ELSE n + 1]
             others == Young(a, t) \ {before + 1}
  <2>1. \A n \in Young(kept, t) : moved[n] \in others /\ n \in Nat
    <3> SUFFICES ASSUME NEW n \in Young(kept, t) PROVE moved[n] \in others /\ n \in Nat
      OBVIOUS
    <3>1. n \in 1 .. Len(kept) /\ kept[n] > t
      BY DEF Young
    <3>2. moved[n] \in 1 .. Len(kept) + 1 /\ moved[n] # before + 1 /\ a[moved[n]] = kept[n]
      BY <1>1, <1>2, <1>3, <3>1
    <3> HIDE DEF moved
    <3> QED BY <1>1, <1>5, <3>1, <3>2 DEF Young
  <2>2. \A m, n \in Young(kept, t) : moved[m] = moved[n] => m = n
    BY <1>2, <2>1
  <2>3. moved \in [Young(kept, t) -> others]
    BY <2>1
  <2>4. moved \in Injection(Young(kept, t), others)
    BY <2>2, <2>3 DEF Injection, IsInjective
  <2>5. /\ IsFiniteSet(Young(a, t)) /\ Cardinality(Young(a, t)) \in Nat
        /\ Cardinality(Young(kept, t)) \in Nat
    BY <1>5, YoungCounted
  <2>6. /\ IsFiniteSet(others) /\ Cardinality(others) \in Nat
        /\ Cardinality(others) = IF before + 1 \in Young(a, t) THEN Cardinality(Young(a, t)) - 1
                                 ELSE Cardinality(Young(a, t))
    BY <2>5, FS_RemoveElement, FS_CardinalityType
  <2> HIDE DEF moved, others
  <2>7. Cardinality(Young(kept, t)) <= Cardinality(others)
    BY <2>4, <2>6, FS_Injection
  <2>8. now > t => before + 1 \in Young(a, t)
    <3>1. before + 1 \in 1 .. Len(kept) + 1 /\ a[before + 1] = now
      BY <1>1, <1>2, <1>3
    <3> QED BY <1>5, <3>1 DEF Young
  <2> QED BY <2>5, <2>6, <2>7, <2>8
<1> QED BY <1>5, <1>6 DEF a

\* At first there are no hits.
LEMMA RateStart == RateInit => RInv
<1> SUFFICES ASSUME RateInit PROVE RInv
  OBVIOUS
<1>1. hits = <<>> /\ allowed = <<>> /\ told = NotRead /\ 1 .. Len(allowed) = {} /\ Len(hits) = 0
  BY DEF RateInit
<1>2. RateTypeOK
  BY RateAssumption DEF RateInit, RateTypeOK, Instant
<1>3. RecentStored
  <2> SUFFICES ASSUME NEW t \in Int PROVE Cardinality(Recent(t)) <= Cardinality(Young(hits, t))
    BY DEF RecentStored
  <2>1. Recent(t) = {}
    BY <1>1 DEF Recent
  <2>2. Cardinality(Young(hits, t)) \in Nat
    BY <1>2, YoungCounted DEF RateTypeOK
  <2> QED BY <2>1, <2>2, FS_EmptySet
<1>4. EveryWindow
  <2> SUFFICES ASSUME NEW end \in Int PROVE Cardinality(Inside(end)) <= Limit
    BY DEF EveryWindow
  <2>1. Inside(end) = {}
    BY <1>1 DEF Inside
  <2> QED BY <2>1, FS_EmptySet, RateAssumption
<1> QED BY <1>1, <1>2, <1>3, <1>4, RateAssumption DEF RInv, OldestForgotten

\* What a request finds when it has the lock.
LEMMA Consumed ==
    ASSUME RInv, NEW i \in Threads, reading[i] # NotRead
    PROVE  /\ reading[i] \in Instant /\ reading[i] \in Nat
           /\ Kept(reading[i]) \in Seq(Instant) /\ Len(Kept(reading[i])) \in Nat
           /\ Len(hits) \in Nat /\ Len(Kept(reading[i])) <= Len(hits)
           /\ Len(Kept(reading[i])) = Len(hits) => Kept(reading[i]) = hits
           /\ Len(hits) > 0 /\ Forgotten(hits[1], reading[i]) => Len(Kept(reading[i])) < Len(hits)
<1> DEFINE now == reading[i]
<1>1. now \in Instant /\ now \in Nat /\ hits \in Seq(Instant)
  BY RateAssumption DEF RInv, RateTypeOK, Instant
<1> HIDE DEF now
<1>2. PICK k \in 0 .. Len(hits) :
             /\ Kept(now) \in Seq(Instant) /\ Len(Kept(now)) = Len(hits) - k
             /\ \A n \in 1 .. Len(hits) - k : Kept(now)[n] = hits[n + k]
             /\ k < Len(hits) => ~Forgotten(hits[k + 1], now)
  BY <1>1, KeptHits
<1>3. Len(hits) \in Nat /\ Len(Kept(now)) \in Nat /\ Len(Kept(now)) <= Len(hits)
  BY <1>1, <1>2
<1>4. ASSUME Len(Kept(now)) = Len(hits) PROVE Kept(now) = hits
  <2>1. k = 0
    BY <1>2, <1>3, <1>4
  <2>2. \A n \in 1 .. Len(hits) : Kept(now)[n] = hits[n]
    BY <1>2, <1>3, <2>1
  <2> QED BY <1>1, <1>2, <1>4, <2>2, SeqEqual
<1>5. Len(hits) > 0 /\ Forgotten(hits[1], now) => Len(Kept(now)) < Len(hits)
  BY <1>2, <1>3
<1> QED BY <1>1, <1>2, <1>3, <1>4, <1>5 DEF now

\* A refused request waits until the oldest hit is forgotten.
LEMMA RefuseKeeps == ASSUME RInv, NEW i \in Threads, Refuse(i) PROVE RInv'
<1> USE DEF RInv
<1> DEFINE now == reading[i]
           wait == RoundedUp(Window - (now - Kept(now)[1]))
<1>1. /\ now # NotRead /\ Len(Kept(now)) >= Limit /\ hits' = Kept(now) /\ told' = now + wait
      /\ reading' = [reading EXCEPT ![i] = NotRead] /\ UNCHANGED <<instant, backend, allowed>>
  BY DEF Refuse
<1>2. now \in Instant /\ now \in Nat /\ hits' = hits /\ Kept(now) = hits /\ Len(hits) > 0
  BY <1>1, Consumed, RateAssumption
<1>3. hits[1] \in Int /\ Window \in Int
  BY <1>2, RateAssumption DEF RateTypeOK, Instant
<1>4. wait \in Nat /\ Window - (now - hits[1]) <= wait
  <2>1. wait = RoundedUp(Window - (now - hits[1]))
    BY <1>2
  <2>2. Window - (now - hits[1]) \in Int
    BY <1>2, <1>3
  <2> HIDE DEF wait, now
  <2> QED BY <2>1, <2>2, RoundsUp
<1> HIDE DEF wait, now
<1>5. told' \in Nat /\ hits[1] + Window <= told'
  BY <1>1, <1>2, <1>3, <1>4
<1>6. RateTypeOK'
  BY <1>1, <1>2, <1>5 DEF RateTypeOK
<1>7. RecentStored' /\ EveryWindow'
  BY <1>1, <1>2 DEF RecentStored, EveryWindow, Recent, Inside
<1>8. OldestForgotten'
  BY <1>2, <1>5 DEF OldestForgotten
<1> QED BY <1>2, <1>6, <1>7, <1>8

\* An allowed request is one more hit, and the store had room for it.
LEMMA AllowKeeps == ASSUME RInv, NEW i \in Threads, Allow(i) PROVE RInv'
<1> USE DEF RInv
<1> DEFINE now == reading[i]
           late == \E n \in 1 .. Len(allowed) : allowed[n].at > now
           kept == Kept(now)
           hit == [at |-> now, late |-> late]
           n == Len(allowed) + 1
<1>1. /\ now # NotRead /\ Len(kept) < Limit /\ hits' = Added(kept, now)
      /\ allowed' = Append(allowed, hit) /\ told' = NotRead
      /\ reading' = [reading EXCEPT ![i] = NotRead] /\ UNCHANGED <<instant, backend>>
  BY DEF Allow
<1>2. /\ now \in Instant /\ now \in Nat /\ kept \in Seq(Instant) /\ Len(kept) \in Nat
      /\ hits \in Seq(Instant)
  BY <1>1, Consumed DEF RateTypeOK
<1> HIDE DEF now, kept
<1>3. hit \in [at : Instant, late : BOOLEAN] /\ hit.at = now /\ (hit.late <=> late)
  <2>1. late \in BOOLEAN
    OBVIOUS
  <2> HIDE DEF late
  <2> QED BY <1>2, <2>1
<1> HIDE DEF hit
<1>4. /\ allowed \in Seq([at : Instant, late : BOOLEAN]) /\ Len(allowed) \in Nat
      /\ \A m \in 1 .. Len(allowed) : allowed[m].at \in Nat
  <2>1. allowed \in Seq([at : Instant, late : BOOLEAN]) /\ Len(allowed) \in Nat
    BY DEF RateTypeOK
  <2>2. \A m \in 1 .. Len(allowed) : allowed[m] \in [at : Instant, late : BOOLEAN]
    BY <2>1, ElementOfSeq
  <2>3. \A x \in Instant : x \in Nat
    BY RateAssumption DEF Instant
  <2> QED BY <2>1, <2>2, <2>3
<1>5. /\ allowed' \in Seq([at : Instant, late : BOOLEAN]) /\ Len(allowed') = n
      /\ 1 .. Len(allowed') = (1 .. Len(allowed)) \cup {n} /\ n \notin 1 .. Len(allowed)
      /\ allowed'[n] = hit /\ \A m \in 1 .. Len(allowed) : allowed'[m] = allowed[m]
  BY <1>1, <1>3, <1>4
<1>6. /\ hits' \in Seq(Instant) /\ Len(hits') = Len(kept) + 1
      /\ \A t \in Int :
           /\ Cardinality(Young(kept, t)) <= Cardinality(Young(hits', t))
           /\ now > t => Cardinality(Young(kept, t)) + 1 <= Cardinality(Young(hits', t))
  BY <1>1, <1>2, AddedHits
<1>7. RateTypeOK'
  BY <1>1, <1>5, <1>6 DEF RateTypeOK
<1>8. ASSUME NEW t \in Int PROVE IsFiniteSet(Recent(t)) /\ Cardinality(Recent(t)) \in Nat
  <2>1. Recent(t) \in SUBSET (1 .. Len(allowed)) /\ IsFiniteSet(1 .. Len(allowed))
    BY <1>4, PlacesCounted DEF Recent
  <2> QED BY <2>1, FS_Subset, FS_CardinalityType
<1>9. ASSUME NEW t \in Int
      PROVE  /\ Cardinality(Young(hits, t)) \in Nat /\ Cardinality(Young(kept, t)) \in Nat
             /\ Cardinality(Young(hits', t)) \in Nat
             /\ Cardinality(Young(kept, t)) <= Len(kept)
             /\ now - Window <= t => Cardinality(Young(hits, t)) <= Cardinality(Young(kept, t))
  BY <1>2, <1>6, YoungCounted, YoungKept DEF kept
<1>10. RecentStored'
  <2> SUFFICES ASSUME NEW t \in Int, \A m \in 1 .. Len(allowed') : allowed'[m].at <= t + Window
               PROVE  Cardinality(Recent(t)') <= Cardinality(Young(hits', t))
    BY DEF RecentStored
  <2>1. now <= t + Window /\ \A m \in 1 .. Len(allowed) : allowed[m].at <= t + Window
    BY <1>3, <1>5
  <2>2. now - Window <= t
    BY <1>2, <2>1, RateAssumption
  <2>0. /\ Cardinality(Recent(t)) \in Nat /\ Cardinality(Young(hits, t)) \in Nat
        /\ Cardinality(Young(kept, t)) \in Nat /\ Cardinality(Young(hits', t)) \in Nat
    BY <1>8, <1>9
  <2>3. Cardinality(Recent(t)) <= Cardinality(Young(kept, t))
    <3>1. Cardinality(Recent(t)) <= Cardinality(Young(hits, t))
      BY <2>1 DEF RecentStored
    <3>2. Cardinality(Young(hits, t)) <= Cardinality(Young(kept, t))
      BY <1>9, <2>2
    <3> QED BY <2>0, <3>1, <3>2
  <2>4. CASE n \in Recent(t)'
    <3>1. Recent(t)' = Recent(t) \cup {n} /\ n \notin Recent(t) /\ now > t
      BY <1>3, <1>5, <2>4 DEF Recent
    <3>2. Cardinality(Recent(t)') = Cardinality(Recent(t)) + 1
      BY <1>8, <3>1, FS_AddElement
    <3>3. Cardinality(Young(kept, t)) + 1 <= Cardinality(Young(hits', t))
      BY <1>6, <3>1
    <3> QED BY <2>0, <2>3, <3>2, <3>3
  <2>5. CASE n \notin Recent(t)'
    <3>1. Recent(t)' = Recent(t)
      BY <1>5, <2>5 DEF Recent
    <3>2. Cardinality(Young(kept, t)) <= Cardinality(Young(hits', t))
      BY <1>6
    <3> QED BY <2>0, <2>3, <3>1, <3>2
  <2> QED BY <2>4, <2>5
<1>11. EveryWindow'
  <2> SUFFICES ASSUME NEW end \in Int PROVE Cardinality(Inside(end)') <= Limit
    BY DEF EveryWindow
  <2>1. CASE n \notin Inside(end)'
    <3>1. Inside(end)' = Inside(end)
      BY <1>5, <2>1 DEF Inside
    <3> QED BY <3>1 DEF EveryWindow
  <2>2. CASE n \in Inside(end)'
    <3> DEFINE t == now - Window
    <3>1. ~late /\ now <= end /\ now > end - Window
      BY <1>2, <1>3, <1>5, <2>2, RateAssumption DEF Inside
    <3>2. t \in Int /\ t + Window = now
      BY <1>2, RateAssumption
    <3>3. \A m \in 1 .. Len(allowed) : allowed[m].at <= now
      BY <1>2, <1>4, <3>1
    <3>4. Inside(end)' \subseteq Recent(t) \cup {n}
      BY <1>2, <1>4, <1>5, <3>1, RateAssumption DEF Inside, Recent
    <3> HIDE DEF t
    <3>0. /\ Cardinality(Recent(t)) \in Nat /\ Cardinality(Young(hits, t)) \in Nat
          /\ Cardinality(Young(kept, t)) \in Nat /\ IsFiniteSet(Recent(t))
      BY <1>8, <1>9, <3>2
    <3>5. IsFiniteSet(Recent(t) \cup {n}) /\ Cardinality(Recent(t) \cup {n}) <= Cardinality(Recent(t)) + 1
          /\ Cardinality(Recent(t) \cup {n}) \in Nat
      <4>1. n \notin Recent(t)
        BY <1>5 DEF Recent
      <4>2. IsFiniteSet(Recent(t) \cup {n}) /\ Cardinality(Recent(t) \cup {n}) = Cardinality(Recent(t)) + 1
        BY <3>0, <4>1, FS_AddElement
      <4> QED BY <3>0, <4>2
    <3>6. Cardinality(Inside(end)') <= Cardinality(Recent(t) \cup {n}) /\ Cardinality(Inside(end)') \in Nat
      BY <3>4, <3>5, FS_Subset, FS_CardinalityType
    <3>7. Cardinality(Recent(t)) <= Cardinality(Young(hits, t))
      BY <3>2, <3>3 DEF RecentStored
    <3>8. Cardinality(Young(hits, t)) <= Cardinality(Young(kept, t))
      BY <1>9, <3>2 DEF t
    <3>9. Cardinality(Young(kept, t)) <= Len(kept)
      BY <1>9, <3>2
    <3> QED BY <1>1, <1>2, <3>0, <3>5, <3>6, <3>7, <3>8, <3>9, RateAssumption
  <2> QED BY <2>1, <2>2
<1>12. Len(hits') <= Limit /\ OldestForgotten'
  BY <1>1, <1>2, <1>6, RateAssumption DEF OldestForgotten
<1> QED BY <1>7, <1>10, <1>11, <1>12

\* Every step keeps the invariant.
LEMMA RateKeeps == RInv /\ [RateNext]_rateVars => RInv'
<1> SUFFICES ASSUME RInv, [RateNext]_rateVars PROVE RInv'
  OBVIOUS
<1> USE DEF RInv
<1>1. ASSUME NEW i \in Threads, Refuse(i) PROVE RInv'
  BY <1>1, RefuseKeeps
<1>2. ASSUME NEW i \in Threads, Allow(i) PROVE RInv'
  BY <1>2, AllowKeeps
<1>3. ASSUME UNCHANGED <<hits, allowed, told, backend>>, instant' \in Instant,
             reading' \in [Threads -> Instant \cup {NotRead}]
      PROVE  RInv'
  <2>1. RateTypeOK' /\ Len(hits') <= Limit /\ OldestForgotten'
    BY <1>3 DEF RateTypeOK, OldestForgotten
  <2>2. RecentStored' /\ EveryWindow'
    BY <1>3 DEF RecentStored, EveryWindow, Recent, Inside
  <2> QED BY <2>1, <2>2
<1>4. ASSUME NEW i \in Threads, ReadClock(i) PROVE RInv'
  BY <1>3, <1>4 DEF ReadClock, RateTypeOK
<1>5. CASE Passes
  <2>1. instant' \in Instant
    BY <1>5, RateAssumption DEF Passes, RateTypeOK, Instant
  <2> QED BY <1>3, <1>5, <2>1 DEF Passes, RateTypeOK
<1>6. CASE UNCHANGED rateVars
  BY <1>3, <1>6 DEF rateVars, RateTypeOK
<1> QED BY <1>1, <1>2, <1>4, <1>5, <1>6 DEF RateNext

\* For any number of threads, any limit and window, either store.
THEOREM LimitStaysKept == RateSpec => []LimitKept
<1>1. ASSUME RInv PROVE LimitKept
  <2>1. WindowBound
    <3> SUFFICES ASSUME NEW n \in 1 .. Len(allowed) PROVE Cardinality(Inside(allowed[n].at)) <= Limit
      BY DEF WindowBound, Inside
    <3>1. allowed[n].at \in Int
      <4>1. allowed \in Seq([at : Instant, late : BOOLEAN])
        BY <1>1 DEF RInv, RateTypeOK
      <4>2. allowed[n] \in [at : Instant, late : BOOLEAN]
        BY <4>1, ElementOfSeq
      <4>3. \A x \in Instant : x \in Int
        BY RateAssumption DEF Instant
      <4> QED BY <4>2, <4>3
    <3> QED BY <1>1, <3>1 DEF RInv, EveryWindow
  <2>2. RetryAfterHonest
    <3> SUFFICES ASSUME NEW i \in Threads, told # NotRead, reading[i] >= told
                 PROVE  Len(Kept(reading[i])) < Limit
      BY DEF RetryAfterHonest
    <3>1. reading[i] # NotRead /\ told \in Nat
      BY <1>1 DEF RInv, RateTypeOK, NotRead
    <3>2. /\ reading[i] \in Nat /\ Len(Kept(reading[i])) \in Nat /\ Len(hits) \in Nat
          /\ Len(Kept(reading[i])) <= Len(hits)
          /\ Len(hits) > 0 /\ Forgotten(hits[1], reading[i]) => Len(Kept(reading[i])) < Len(hits)
      BY <1>1, <3>1, Consumed
    <3>3. Len(hits) = 0 \/ hits[1] + Window <= told
      BY <1>1 DEF RInv, OldestForgotten
    <3>4. Len(hits) > 0 => hits[1] \in Int
      BY <1>1, <3>2, RateAssumption DEF RInv, RateTypeOK, Instant
    <3>5. Len(hits) > 0 => Forgotten(hits[1], reading[i])
      BY <3>1, <3>2, <3>3, <3>4, RateAssumption DEF Forgotten
    <3> QED BY <1>1, <3>2, <3>5, RateAssumption DEF RInv
  <2> QED BY <2>1, <2>2 DEF LimitKept
<1> QED BY <1>1, RateStart, RateKeeps, PTL DEF RateSpec
=============================================================================
