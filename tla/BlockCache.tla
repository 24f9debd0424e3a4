----------------------------- MODULE BlockCache -----------------------------
(***************************************************************************)
(* What a block store promises to a single caller at a time: a cache of    *)
(* byte strings.  A block appears filled with zeros, changes only when it  *)
(* is written and only within its length, and may disappear at any moment  *)
(* (removal, eviction, crash); moving it between tiers shows nothing.      *)
(***************************************************************************)
EXTENDS Naturals, Sequences

CONSTANTS Blocks, Vals, Zero, Spans, Absent

VARIABLE content   \* block id -> its bytes, or Absent

Init == content = [id \in Blocks |-> Absent]

Create(id, size) ==
    /\ content[id] = Absent
    /\ content' = [content EXCEPT ![id] = [i \in 1..size |-> Zero]]

Write(id, span, v) ==
    /\ content[id] # Absent
    /\ content' = [content EXCEPT ![id] =
                     [i \in DOMAIN @ |->
                        IF span[1] < i /\ i <= span[1] + span[2] THEN v ELSE @[i]]]

\* Any blocks may be lost at once: a crash loses them all.
Lose(ids) == content' = [id \in Blocks |-> IF id \in ids THEN Absent ELSE content[id]]

Next == \/ \E id \in Blocks, span \in Spans : Create(id, span[2])
        \/ \E id \in Blocks, span \in Spans, v \in Vals : Write(id, span, v)
        \/ \E ids \in SUBSET Blocks : Lose(ids)

Spec == Init /\ [][Next]_content

=============================================================================
