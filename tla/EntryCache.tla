----------------------------- MODULE EntryCache -----------------------------
(***************************************************************************)
(* What the proxies expect of a cache.Store: a key has the whole result of  *)
(* one write or nothing; a write replaces it at once, and collection takes  *)
(* it away.  Files, locks, temporary names and crashes are out of sight.    *)
(***************************************************************************)
CONSTANTS
  Keys,      \* cache keys
  Writes,    \* what a write leaves under a key
  NoEntry    \* Lookup finds nothing

VARIABLE entry   \* what Lookup finds under each key

CacheInit == entry \in [Keys -> Writes \cup {NoEntry}]

Put(k, write) ==
  /\ write \in Writes
  /\ entry' = [entry EXCEPT ![k] = write]

Drop(k) ==
  /\ entry[k] # NoEntry
  /\ entry' = [entry EXCEPT ![k] = NoEntry]

CacheNext == \E k \in Keys : Drop(k) \/ \E write \in Writes : Put(k, write)

CacheSpec == CacheInit /\ [][CacheNext]_entry
=============================================================================
