------------------------------ MODULE Storage ------------------------------
(***************************************************************************)
(* The key-value store behind both databases (storage.Interface, realised  *)
(* by BlobStore over badger).  A database is a function whose domain is    *)
(* the set of keys present; each operation below is one badger             *)
(* transaction, hence one atomic step of whoever calls it.  Loading an     *)
(* absent key is the ErrKeyNotFound case of the callers.                   *)
(***************************************************************************)

Empty == [k \in {} |-> k]

\* BlobStore.Store: create the key or replace its value.
Put(db, k, v) == [x \in DOMAIN db \cup {k} |-> IF x = k THEN v ELSE db[x]]

\* BlobStore.Delete; deleting an absent key changes nothing.
Drop(db, k) == [x \in DOMAIN db \ {k} |-> db[x]]

\* BlobStore.Scan: the keys a listing that starts now will visit.  badger
\* lists inside one read transaction, so later stores are not seen by it.
Listing(db) == DOMAIN db

\* db maps some of the keys K to values in V.
IsMap(db, K, V) == DOMAIN db \subseteq K /\ db \in [DOMAIN db -> V]
=============================================================================
