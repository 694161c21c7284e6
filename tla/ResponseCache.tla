--------------------------- MODULE ResponseCache ----------------------------
(***************************************************************************)
(* The response cache (cache.py) in front of the product list              *)
(* (api/products.py, services/product_service.py), whose writers           *)
(* invalidate it, and of the dashboard summary (api/report_exports.py),    *)
(* which only grows out of date.                                           *)
(*                                                                         *)
(* A reader that misses queries the database and stores the answer later.  *)
(* A writer commits and then scans the keys of the prefix and deletes what *)
(* it finds; whatever Redis answers, the request goes on.                  *)
(***************************************************************************)
EXTENDS Integers, FiniteSets

CONSTANTS ListPages,      \* keys of products_list: one per page and page size
          SummaryPages,   \* keys of dashboard_summary
          Readers,        \* requests that read at the same time
          MaxWrites       \* bound on the writes

ASSUME CacheAssumption == ListPages \cap SummaryPages = {} /\ MaxWrites \in Nat

VARIABLES written, \* number of committed writes: the version of the data
          entry,   \* key -> the answer stored, [version, ttl, swept]
          reader,  \* reader -> the answer it has computed and not stored yet
          sweep,   \* write -> keys its invalidation has still to come to
          gaveUp   \* writes whose invalidation failed on the way

cacheVars == <<written, entry, reader, sweep, gaveUp>>

Pages == ListPages \cup SummaryPages
Writes == 1 .. MaxWrites
NoEntry == [version |-> 0 - 1, ttl |-> FALSE, swept |-> {}]
NotReading == [page |-> "none", version |-> 0]

CacheTypeOK ==
  /\ written \in 0 .. MaxWrites
  /\ entry \in [Pages -> [version : -1 .. MaxWrites, ttl : BOOLEAN, swept : SUBSET Writes]]
  /\ reader \in [Readers -> [page : Pages \cup {"none"}, version : 0 .. MaxWrites]]
  /\ sweep \in [Writes -> SUBSET Pages] /\ gaveUp \subseteq Writes

\* create_product, update_product, delete_product: the commit.
Write ==
  /\ written < MaxWrites /\ written' = written + 1
  /\ sweep' = [sweep EXCEPT ![written + 1] = ListPages]
  /\ UNCHANGED <<entry, reader, gaveUp>>

\* Fault: the key is looked at and not deleted when it was filled only lately.
OldEntriesOnly(w, p) == IF entry[p].version + 1 < w THEN NoEntry ELSE entry[p]

Swept(w, p) == NoEntry

\* cache_invalidate comes to one key; an entry stored later is not found again.
Invalidate(w, p) ==
  /\ p \in sweep[w] /\ sweep' = [sweep EXCEPT ![w] = @ \ {p}]
  /\ entry' = [entry EXCEPT ![p] = Swept(w, p)]
  /\ UNCHANGED <<written, reader, gaveUp>>

\* Redis fails, the exception is swallowed; or the worker dies.
InvalidateFails(w) ==
  /\ sweep[w] # {} /\ sweep' = [sweep EXCEPT ![w] = {}] /\ gaveUp' = gaveUp \cup {w}
  /\ UNCHANGED <<written, entry, reader>>

\* list_products, dashboard_summary: a miss, or cache_get failed.
Compute(r, p) ==
  /\ reader[r] = NotReading
  /\ reader' = [reader EXCEPT ![r] = [page |-> p, version |-> written]]
  /\ UNCHANGED <<written, entry, sweep, gaveUp>>

\* Fault: the entry is stored without a time to live.
ForEver(v) == [version |-> v, ttl |-> FALSE]

Lasting(v) == [version |-> v, ttl |-> TRUE]

\* cache_set
Store(r) ==
  LET p == reader[r].page
      e == Lasting(reader[r].version)
  IN
  /\ reader[r] # NotReading /\ reader' = [reader EXCEPT ![r] = NotReading]
  /\ entry' = [entry EXCEPT ![p] =
       [version |-> e.version, ttl |-> e.ttl,
        swept |-> {w \in 1 .. written : p \in ListPages /\ p \notin sweep[w]}]]
  /\ UNCHANGED <<written, sweep, gaveUp>>

StoreFails(r) ==
  /\ reader[r] # NotReading /\ reader' = [reader EXCEPT ![r] = NotReading]
  /\ UNCHANGED <<written, entry, sweep, gaveUp>>

\* setex: the entry has lived its time.
Lapse(p) ==
  /\ entry[p].ttl /\ entry' = [entry EXCEPT ![p] = NoEntry]
  /\ UNCHANGED <<written, reader, sweep, gaveUp>>

CacheInit ==
  /\ written = 0 /\ entry = [p \in Pages |-> NoEntry] /\ gaveUp = {}
  /\ reader = [r \in Readers |-> NotReading] /\ sweep = [w \in Writes |-> {}]

CacheNext ==
  \/ Write
  \/ \E w \in Writes : InvalidateFails(w) \/ \E p \in Pages : Invalidate(w, p)
  \/ \E r \in Readers : Store(r) \/ StoreFails(r) \/ \E p \in Pages : Compute(r, p)
  \/ \E p \in Pages : Lapse(p)

CacheSpec == CacheInit /\ [][CacheNext]_cacheVars

\* Time passes, and a request that is served goes on to its end.
CacheFairness ==
  /\ \A p \in Pages : WF_cacheVars(Lapse(p))
  /\ \A r \in Readers : WF_cacheVars(Store(r) \/ StoreFails(r))

-----------------------------------------------------------------------------
(* What the cache promises *)

Stale(p) == entry[p] # NoEntry /\ entry[p].version < written

\* An out-of-date product page is explained, write by write: the writer is still at
\* work, its invalidation failed, or the page was stored after the invalidation had
\* passed its key, by a reader that had queried before the write.
StaleExplained ==
  \A p \in ListPages : Stale(p) =>
    \A w \in entry[p].version + 1 .. written :
      p \in sweep[w] \/ w \in gaveUp \/ w \in entry[p].swept

\* Every out-of-date entry goes, those that no invalidation reaches as well: the time
\* to live bounds what failures, races and the summary's lack of any do.
StaleEnds == \A p \in Pages : Stale(p) ~> ~Stale(p)
=============================================================================
