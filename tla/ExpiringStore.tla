---------------------------- MODULE ExpiringStore ----------------------------
(***************************************************************************)
(* The key-value store of the gateway (gateway/crypto-store.ts): entries   *)
(* with a time to live, an atomic take, and a compare-and-swap on what was *)
(* read.  Encryption is left out but for one effect: every write has a new *)
(* initialisation vector, so that a version never comes back.              *)
(*                                                                         *)
(* A store is a function from keys to entries [value, version, until].     *)
(***************************************************************************)
EXTENDS Integers

None == [version |-> 0]
Empty == <<>>

Without(store, key) == [k \in DOMAIN store \ {key} |-> store[k]]

\* What get, take and compareAndSwap find: an entry whose time is up is gone.
Entry(store, key, now) ==
  IF key \in DOMAIN store /\ store[key].until > now THEN store[key] ELSE None

Has(store, key, now) == Entry(store, key, now) # None

LastVersion(store, key) == IF key \in DOMAIN store THEN store[key].version ELSE 0

\* put and the writing half of compareAndSwap.
Put(store, key, value, until) ==
  [k \in DOMAIN store \union {key} |->
     IF k = key THEN [value |-> value, version |-> LastVersion(store, key) + 1, until |-> until]
     ELSE store[k]]

\* Whether a compareAndSwap on a version that was read, or on None, is done.
Unchanged(store, key, version, now) == Entry(store, key, now).version = version

=============================================================================
