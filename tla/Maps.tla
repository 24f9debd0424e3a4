-------------------------------- MODULE Maps --------------------------------
(***************************************************************************)
(* Finite maps, the model of the std::unordered_map and RocksDB key spaces *)
(* that the components keep: a map is a function whose domain is the set   *)
(* of keys present.                                                        *)
(***************************************************************************)

EmptyMap == [k \in {} |-> 0]

\* map[k] = v
Put(map, k, v) ==
    [x \in DOMAIN map \cup {k} |-> IF x = k THEN v ELSE map[x]]

\* map.erase(k); a no-op when k is absent
Del(map, k) == [x \in DOMAIN map \ {k} |-> map[x]]

=============================================================================
