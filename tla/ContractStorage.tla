-------------------------- MODULE ContractStorage ---------------------------
(***************************************************************************)
(* Key-value stores: the host's storage as the contracts use it, where the *)
(* entries under one DataKey variant are a function on the keys present,   *)
(* and the Map behind the token database.                                  *)
(***************************************************************************)
EXTENDS Functions

NoEntries == [k \in {} |-> {}]

\* env.storage().instance().set(&Variant(key), &value); Map.set(key, value)
Put(entries, key, value) ==
  [k \in DOMAIN entries \cup {key} |-> IF k = key THEN value ELSE entries[k]]

\* env.storage().instance().remove(&Variant(key)); Map.delete(key)
Remove(entries, key) == Restrict(entries, DOMAIN entries \ {key})
=============================================================================
