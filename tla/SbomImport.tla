----------------------------- MODULE SbomImport -----------------------------
(***************************************************************************)
(* The import of software bills of materials into product versions         *)
(* (services/sbom_ingest.py): components are inserted or updated by their  *)
(* reference and never deleted, the version's dependencies are deleted     *)
(* and inserted anew, and vulnerabilities are linked to the components     *)
(* that name their CVE.                                                    *)
(*                                                                         *)
(* An import reads the rows it is going to update, flushes the updates     *)
(* and the DELETE, and inserts the dependencies at its commit: only other  *)
(* imports of the same version can come between.  Dependencies are given   *)
(* with their ends only: _compute_depths starts at the parent, so that     *)
(* each of them has depth 1 and is direct.                                 *)
(***************************************************************************)
EXTENDS ComponentDiff

CONSTANTS Releases,    \* product versions
          Refs, Names, Versions,
          Documents,   \* the documents that are imported
          KnownCves,   \* CVE ids of the records
          Importers    \* requests at the same time

VARIABLES component,   \* release -> reference -> row or NoRow
          edge,        \* release -> pairs of references
          link,        \* release -> links of records to components
          importer,    \* request -> the import it executes
          latest,      \* release -> the document imported last, if any
          met          \* releases whose last import met another one

sbomVars == <<component, edge, link, importer, latest, met>>

Formats == {"cyclonedx", "spdx"}

\* The entries of a document and its statements about dependencies; entries may lack a
\* name, and statements may name references that no entry has.
ASSUME SbomAssumption ==
  /\ Documents \subseteq
       [fmt : Formats,
        entries : Seq([ref : Refs, name : Names \cup {""}, version : Versions,
                       cves : SUBSET KnownCves]),
        depends : Seq([of : Refs, on : Seq(Refs)])]
  /\ Names \subseteq DOMAIN GroupOf /\ "" \notin Names
  /\ Versions \subseteq DOMAIN Text /\ Refs \subseteq DOMAIN RefText

Paths == {<<>>} \cup (Refs \X Refs)
Columns == [name : Names, version : Versions, cves : SUBSET KnownCves, path : Paths]
NoRow == [name |-> "none"]
NoDocument == [fmt |-> "none"]
NoImport == [phase |-> "idle"]

ImportOf(phase) ==
  [phase : {phase}, release : Releases, doc : Documents, met : BOOLEAN,
   seen : [Refs -> Columns \cup {NoRow}], gone : SUBSET (Refs \X Refs)]

SbomTypeOK ==
  /\ component \in [Releases -> [Refs -> Columns \cup {NoRow}]]
  /\ edge \in [Releases -> SUBSET (Refs \X Refs)]
  /\ link \in [Releases -> SUBSET [cve : KnownCves, ref : Refs, fmt : Formats, path : Paths]]
  /\ importer \in [Importers -> {NoImport} \cup ImportOf("read") \cup ImportOf("flushed")]
  /\ latest \in [Releases -> Documents \cup {NoDocument}] /\ met \subseteq Releases

-----------------------------------------------------------------------------
(* Reading a document *)

\* _parse_cyclonedx, _parse_spdx: entries without a name are skipped.
Named(d) == {n \in DOMAIN d.entries : d.entries[n].name # ""}
Listed(d) == {d.entries[n].ref : n \in Named(d)}

\* Of two entries with the same reference the second updates the row of the first.
Entry(d, r) ==
  LET same == {n \in Named(d) : d.entries[n].ref = r}
  IN d.entries[CHOOSE n \in same : \A m \in same : m <= n]

\* The statements that count for a parent: in CycloneDX the last one about it, in SPDX
\* all of them together.
Counting(d, r) ==
  LET said == {n \in DOMAIN d.depends : d.depends[n].of = r}
  IN {n \in said : d.fmt = "cyclonedx" => \A m \in said : m <= n}

\* The places at which a parent's children are named, and the child at one of them.
Places(d, r) == UNION {{n} \X DOMAIN d.depends[n].on : n \in Counting(d, r)}
ChildAt(d, p) == d.depends[p[1]].on[p[2]]
Children(d, r) == {ChildAt(d, p) : p \in Places(d, r)}

Edges(d) == {e \in Listed(d) \X Listed(d) : e[2] \in Children(d, e[1])}

\* A child named twice violates the unique constraint on edges.
Repeats(d) ==
  \E r \in Listed(d) : \E p, q \in Places(d, r) :
    p # q /\ ChildAt(d, p) = ChildAt(d, q) /\ ChildAt(d, p) \in Listed(d)

\* The first parent that names a component.
NamedBy(d, r) ==
  {n \in DOMAIN d.depends : <<d.depends[n].of, r>> \in Edges(d)}
FirstParent(d, r) ==
  d.depends[CHOOSE n \in NamedBy(d, r) : \A m \in NamedBy(d, r) : n <= m].of

\* Fault: the path a component had is kept.
PathKept(d, r, seen) ==
  IF seen[r] # NoRow /\ seen[r].path # <<>> THEN seen[r].path
  ELSE IF NamedBy(d, r) = {} THEN <<>> ELSE <<FirstParent(d, r), r>>

\* setdefault("dependency_path") on the new metadata: the first parent that names it.
Path(d, r, seen) ==
  IF NamedBy(d, r) = {} THEN <<>> ELSE <<FirstParent(d, r), r>>

\* The row that the import of a document leaves for a component it lists.
Imported(d, r, seen) ==
  [name |-> Entry(d, r).name, version |-> Entry(d, r).version,
   cves |-> IF d.fmt = "cyclonedx" THEN Entry(d, r).cves ELSE {},
   path |-> Path(d, r, seen)]

-----------------------------------------------------------------------------
(* Importing it *)

Importing(h) == importer[h].phase # "idle"
OtherImports(h, v) == {g \in Importers \ {h} : Importing(g) /\ importer[g].release = v}

Read(h, v, d) ==
  /\ ~Importing(h)
  /\ importer' = [g \in Importers |->
       IF g = h THEN [phase |-> "read", release |-> v, doc |-> d, met |-> OtherImports(h, v) # {},
                      seen |-> component[v], gone |-> {}]
       ELSE IF g \in OtherImports(h, v) THEN [importer[g] EXCEPT !.met = TRUE]
       ELSE importer[g]]
  /\ UNCHANGED <<component, edge, link, latest, met>>

\* Rows that a flush inserts or updates, and thereby locks.  The metadata are written
\* whenever there was a path in them.
Touched(i) ==
  {r \in Listed(i.doc) : \/ i.seen[r] = NoRow
                         \/ i.seen[r] # Imported(i.doc, r, i.seen)
                         \/ i.seen[r].path # <<>>}

\* The DELETE sees what is committed.
Gone(v) == edge[v]

\* _upsert_components and the DELETE of _upsert_dependencies; rows that another import
\* has written it waits for.
FlushRows(h) ==
  LET i == importer[h] IN
  /\ i.phase = "read"
  /\ \A g \in OtherImports(h, i.release) :
       importer[g].phase = "flushed" => Touched(importer[g]) \cap Touched(i) = {}
  /\ \A r \in Listed(i.doc) : i.seen[r] = NoRow => component[i.release][r] = NoRow
  /\ importer' = [importer EXCEPT ![h] = [i EXCEPT !.phase = "flushed", !.gone = Gone(i.release)]]
  /\ UNCHANGED <<component, edge, link, latest, met>>

\* Only columns that differ from the row as it was read are written; the metadata
\* hold CVEs and path in one column.
Overlaid(now, seen, new) ==
  IF seen = NoRow THEN new
  ELSE LET meta == seen.cves # new.cves \/ seen.path # new.path \/ seen.path # <<>> IN
       [name |-> IF seen.name = new.name THEN now.name ELSE new.name,
        version |-> IF seen.version = new.version THEN now.version ELSE new.version,
        cves |-> IF meta THEN new.cves ELSE now.cves,
        path |-> IF meta THEN new.path ELSE now.path]

\* correlate_vulnerability_to_components with all components of the version; links of
\* earlier imports are updated and never deleted.
Correlated(links, rows, fmt) ==
  LET named == {p \in KnownCves \X Refs : rows[p[2]] # NoRow /\ p[1] \in rows[p[2]].cves}
      found == {[cve |-> p[1], ref |-> p[2], fmt |-> fmt, path |-> rows[p[2]].path] :
                  p \in named}
  IN found \cup {l \in links : \A f \in found :
                   <<f.cve, f.ref, f.fmt>> # <<l.cve, l.ref, l.fmt>>}

CommitImport(h) ==
  LET i == importer[h]
      v == i.release
      rows == [r \in Refs |->
                 IF r \in Listed(i.doc)
                 THEN Overlaid(component[v][r], i.seen[r], Imported(i.doc, r, i.seen))
                 ELSE component[v][r]]
  IN
  /\ i.phase = "flushed" /\ ~Repeats(i.doc)
  /\ Edges(i.doc) \cap (edge[v] \ i.gone) = {}
  /\ component' = [component EXCEPT ![v] = rows]
  /\ edge' = [edge EXCEPT ![v] = (@ \ i.gone) \cup Edges(i.doc)]
  /\ link' = [link EXCEPT ![v] = Correlated(@, rows, i.doc.fmt)]
  /\ latest' = [latest EXCEPT ![v] = i.doc]
  /\ met' = IF i.met THEN met \cup {v} ELSE met \ {v}
  /\ importer' = [importer EXCEPT ![h] = NoImport]

\* A constraint is violated, or the request fails otherwise: all is rolled back.
GiveUpImport(h) ==
  /\ Importing(h) /\ importer' = [importer EXCEPT ![h] = NoImport]
  /\ UNCHANGED <<component, edge, link, latest, met>>

SbomInit ==
  /\ component = [v \in Releases |-> [r \in Refs |-> NoRow]]
  /\ edge = [v \in Releases |-> {}] /\ link = [v \in Releases |-> {}]
  /\ importer = [h \in Importers |-> NoImport]
  /\ latest = [v \in Releases |-> NoDocument] /\ met = {}

SbomNext ==
  \E h \in Importers :
    \/ FlushRows(h) \/ CommitImport(h) \/ GiveUpImport(h)
    \/ \E v \in Releases, d \in Documents : Read(h, v, d)

SbomSpec == SbomInit /\ [][SbomNext]_sbomVars

-----------------------------------------------------------------------------
(* What an import promises *)

\* After an import that met no other one of its version - whatever the earlier
\* imports, contested or not, have left - the dependencies are those of the document
\* and no others, the components it lists are as it says, each under a path that is
\* one of the dependencies, and the records are linked to them along that path.
\* Components that it does not list any more stay, with path and links.
ImportTakesEffect ==
  \A v \in Releases : latest[v] # NoDocument /\ v \notin met =>
    LET d == latest[v] IN
    /\ edge[v] = Edges(d)
    /\ \A r \in Listed(d) :
         LET row == component[v][r] IN
         /\ row # NoRow /\ row.name = Entry(d, r).name /\ row.version = Entry(d, r).version
         /\ IF row.path = <<>> THEN \A e \in edge[v] : e[2] # r ELSE row.path \in edge[v]
         /\ \A c \in row.cves :
              [cve |-> c, ref |-> r, fmt |-> d.fmt, path |-> row.path] \in link[v]

Listing(v) ==
  {[ref |-> r, name |-> component[v][r].name, version |-> component[v][r].version] :
     r \in {s \in Refs : component[v][s] # NoRow}}

\* The components of a version into which one document was imported and nothing else.
ListingOf(d) ==
  {[ref |-> r, name |-> Entry(d, r).name, version |-> Entry(d, r).version] : r \in Listed(d)}

\* Whatever the imports have left of a version, its comparison with another one accounts
\* for every component, once, and turns around when the two are exchanged; compared with
\* itself it has no changes.
ComparisonAccounts ==
  \A v \in Releases : latest[v] # NoDocument /\ (\A h \in Importers : ~Importing(h)) =>
    LET from == Listing(v) IN
    /\ ChangedComponents(from, from) = {}
    /\ \A to \in {Listing(w) : w \in Releases} \cup {ListingOf(d) : d \in Documents} :
         Transforms(from, to) /\ Transforms(to, from) /\ Mirrored(from, to)
=============================================================================
