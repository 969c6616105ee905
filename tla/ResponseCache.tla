--------------------------- MODULE ResponseCache ---------------------------
(***************************************************************************)
(* The in-process response cache (package internal/cache, not part of      *)
(* src/; modelled from spec.md 4.7): a bounded LRU keyed by the request    *)
(* fingerprint.  Get returns the entry and makes it the most recently      *)
(* used; Set admits an entry if it fits within the cap after evicting the  *)
(* least recently used entries.  Get and Set are atomic (one mutex).       *)
(* Endpoint composes these operators with the handlers; as the cache's    *)
(* code is not under src/, no property is stated of the cache alone.      *)
(*                                                                         *)
(* An entry is the pair of parts a handler stores: <<metadata, data>>.     *)
(***************************************************************************)
EXTENDS Naturals, Sequences, SequencesExt, FiniteSets

CONSTANTS
    Keys,       \* request fingerprints
    Size(_),    \* Size(k): bytes of the entry of request k
    Cap,        \* cache size in bytes
    Entries,    \* the entries a client may store
    NoEntry     \* what store holds for a key never set (a model value)

VARIABLES
    lru,        \* the cached keys, least recently used first
    store       \* store[k]: the entry cached under k (meaningful if k \in lru)

cacheVars == <<lru, store>>

Used(order) == FoldLeft(LAMBDA acc, k : acc + Size(k), 0, order)

RECURSIVE Evict(_, _)

\* Drop least recently used keys until need more bytes fit.
Evict(order, need) ==
    IF order # <<>> /\ Used(order) + need > Cap
    THEN Evict(Tail(order), need)
    ELSE order

\* lru without k.
Without(order, k) == SelectSeq(order, LAMBDA x : x # k)

Hit(k) == k \in ToSet(lru)

\* Cache.Get(k) on a hit: bump k to most recently used.
Get(k) ==
    /\ Hit(k)
    /\ lru' = Append(Without(lru, k), k)
    /\ UNCHANGED store

\* Cache.Set(k, e): admit e if it can fit at all, evicting LRU entries.
Set(k, e) ==
    IF Size(k) <= Cap
    THEN /\ lru' = Append(Evict(Without(lru, k), Size(k)), k)
         /\ store' = [store EXCEPT ![k] = e]
    ELSE UNCHANGED cacheVars

Init == lru = <<>> /\ store = [k \in Keys |-> NoEntry]

---------------------------------------------------------------------------

\* The shape of the cache state, part of Endpoint's type invariant.
TypeOK ==
    /\ IsInjective(lru) /\ ToSet(lru) \subseteq Keys
    /\ store \in [Keys -> Entries \cup {NoEntry}]

=============================================================================
