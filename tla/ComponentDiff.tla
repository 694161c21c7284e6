--------------------------- MODULE ComponentDiff ---------------------------
(***************************************************************************)
(* The comparison of the components of two product versions                *)
(* (services/component_diff.py): components are grouped by ecosystem and   *)
(* name, each group is sorted by the text of the version, and the groups   *)
(* of the two sides are paired place by place.                             *)
(*                                                                         *)
(* A listing is a set of components [ref, name, version], a dependency a   *)
(* pair of components of one listing.  Package URL, CPE and type, which    *)
(* are compared and sorted like the reference, are left out.               *)
(***************************************************************************)
EXTENDS Naturals, FiniteSets, Sequences

CONSTANTS GroupOf,   \* name -> ecosystem and name in lower case
          Text,      \* version -> its place in the order of strings
          Lowered,   \* version -> the same, stripped and in lower case
          Parsed,    \* version -> its place in the order of versions, if it is one
          RefText    \* reference -> its place in the order of strings

\* A place in the order of strings tells a string from every other one.
ASSUME DiffAssumption ==
  /\ \A f \in {Text, RefText} :
       \A x, y \in DOMAIN f : f[x] \in Nat /\ (f[x] = f[y] => x = y)
  /\ \A v \in DOMAIN Parsed : Parsed[v] \in Nat
  /\ DOMAIN Lowered = DOMAIN Text /\ \A v \in DOMAIN Text : Lowered[v] \in Nat

Groups == {GroupOf[name] : name \in DOMAIN GroupOf}

\* _component_sort_key
Before(a, b) ==
  \/ Text[a.version] < Text[b.version]
  \/ a.version = b.version /\ RefText[a.ref] < RefText[b.ref]

\* The components of a group, and how many of them a component comes after.
InGroup(listing, g) == {c \in listing : GroupOf[c.name] = g}
Rank(S, c) == Cardinality({e \in S : Before(e, c)})

Sorted(listing, g) ==
  LET S == InGroup(listing, g)
  IN [i \in 1..Cardinality(S) |-> CHOOSE c \in S : Rank(S, c) = i - 1]

Pairs(from, to) ==
  UNION {LET a == Sorted(from, g)
             b == Sorted(to, g)
         IN {<<a[i], b[i]>> : i \in DOMAIN a \cap DOMAIN b} : g \in Groups}

\* Fault: zip in place of zip_longest.
NothingUnpaired(listing, other) == {}

\* Those of a listing that the other has no partner for.
Unpaired(listing, other) ==
  UNION {LET a == Sorted(listing, g)
         IN {a[i] : i \in DOMAIN a \ DOMAIN Sorted(other, g)} : g \in Groups}

AddedComponents(from, to) == Unpaired(to, from)
RemovedComponents(from, to) == Unpaired(from, to)

\* _component_change
ChangedComponents(from, to) ==
  {p \in Pairs(from, to) : p[1].version # p[2].version \/ p[1].ref # p[2].ref}

\* _compare_versions is negative: by version when both are one, otherwise as text in
\* which case and outer blanks do not count.
Older(v, w) ==
  IF {v, w} \subseteq DOMAIN Parsed THEN Parsed[v] < Parsed[w] ELSE Lowered[v] < Lowered[w]

\* _component_version_delta
Moved(from, to) == {p \in Pairs(from, to) : p[1].version # p[2].version}
Upgrades(from, to) == {p \in Moved(from, to) : Older(p[1].version, p[2].version)}
Downgrades(from, to) == Moved(from, to) \ Upgrades(from, to)

-----------------------------------------------------------------------------
(* What a comparison promises *)

\* A component as the comparison looks at it.
Visible(cs) == {[group |-> GroupOf[c.name], ref |-> c.ref, version |-> c.version] : c \in cs}
Olds(pairs) == {p[1] : p \in pairs}
News(pairs) == {p[2] : p \in pairs}
Flipped(pairs) == {<<p[2], p[1]>> : p \in pairs}

\* The report is complete and says nothing twice: what it adds, removes and changes
\* turns one listing into the other.
Transforms(from, to) ==
  LET changed == ChangedComponents(from, to)
      added == AddedComponents(from, to)
      removed == RemovedComponents(from, to)
  IN
  /\ Visible(to) = (Visible(from) \ Visible(removed \cup Olds(changed)))
                     \cup Visible(added \cup News(changed))
  /\ Cardinality(to) + Cardinality(removed) = Cardinality(from) + Cardinality(added)
  /\ removed \cap Olds(Pairs(from, to)) = {} /\ added \cap News(Pairs(from, to)) = {}

\* An upgrade one way is a downgrade the other way.  (The converse fails for versions
\* that are written differently and rank the same: they are downgrades both ways.)
Mirrored(from, to) ==
  /\ Flipped(Upgrades(from, to)) \subseteq Downgrades(to, from)
  /\ \A p \in Flipped(Downgrades(from, to)) \ Upgrades(to, from) :
       ~Older(p[1].version, p[2].version) /\ ~Older(p[2].version, p[1].version)
=============================================================================
