----------------------------- MODULE CacheAside -----------------------------
(***************************************************************************)
(* The Redis cache-aside helper (shared/shared/cache.py) and the way the   *)
(* GET routes of the services use it: look the key up, on a miss query the *)
(* database, then fill the cache.  These are three awaits, so a write and  *)
(* its invalidation can fall between them.  A service's module extends     *)
(* this one, supplies the value its database holds, and invalidates keys   *)
(* after its commits.                                                      *)
(*                                                                         *)
(* A hit answers without changing anything and is not an action.           *)
(***************************************************************************)
EXTENDS Integers, Sequences

CONSTANTS
  Keys,        \* what the service caches
  Readers,     \* concurrent GET requests
  CacheFails   \* whether a Redis command may fail

ASSUME CacheAssumption == CacheFails \in BOOLEAN

VARIABLES
  entry,     \* entry[k]: {} or {the cached value}
  request    \* request[r]: <<>> idle, <<k>> missed k, <<k, v>> read v from the database

cacheVars == <<entry, request>>

CacheInit ==
  /\ entry = [k \in Keys |-> {}]
  /\ request = [r \in Readers |-> <<>>]

(* get_json finds nothing, or fails and is treated as a miss.              *)
Miss(r, k) ==
  /\ request[r] = <<>>
  /\ entry[k] = {} \/ CacheFails
  /\ request' = [request EXCEPT ![r] = <<k>>]
  /\ UNCHANGED entry

(* The route's database query finds value v.                               *)
Load(r, k, v) ==
  /\ request[r] = <<k>>
  /\ request' = [request EXCEPT ![r] = <<k, v>>]
  /\ UNCHANGED entry

(* The database has no such row: the route answers 404.                    *)
NotFound(r, k) ==
  /\ request[r] = <<k>>
  /\ request' = [request EXCEPT ![r] = <<>>]
  /\ UNCHANGED entry

(* set_json, whose failure is swallowed; the route answers.                *)
Fill(r) ==
  /\ Len(request[r]) = 2
  /\ \/ entry' = [entry EXCEPT ![request[r][1]] = {request[r][2]}]
     \/ CacheFails /\ entry' = entry
  /\ request' = [request EXCEPT ![r] = <<>>]

(* invalidate, whose failure is swallowed: a conjunct of a service's step. *)
Invalidated(k) ==
  \/ entry' = [entry EXCEPT ![k] = {}]
  \/ CacheFails /\ entry' = entry

\* Mutant of Expire: set_json sets no time to live.
NoTtl(k) == FALSE

(* Every entry is set with a time to live.                                 *)
Expire(k) ==
  /\ entry[k] # {}
  /\ entry' = [entry EXCEPT ![k] = {}]
  /\ UNCHANGED request
=============================================================================
