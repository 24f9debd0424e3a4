------------------------------ MODULE FileTree ------------------------------
(***************************************************************************)
(* What the master's namespace promises: a tree of files and directories,  *)
(* named by paths, whose operations take effect at once or not at all and  *)
(* are never undone by a crash.                                            *)
(***************************************************************************)
EXTENDS Seqs

CONSTANT Sizes

VARIABLE tree   \* path -> [isdir, size, done], for the paths that exist

Directory == [isdir |-> TRUE, size |-> 0, done |-> TRUE]
NewFile == [isdir |-> FALSE, size |-> 0, done |-> FALSE]

Below(p) == {q \in DOMAIN tree : IsPrefix(p, q)}
Free(p) == p # <<>> /\ p \notin DOMAIN tree /\ Front(p) \in DOMAIN tree /\ tree[Front(p)].isdir

Init == tree = [p \in {<<>>} |-> Directory]

Create(p, attr) ==
    /\ Free(p)
    /\ tree' = [q \in DOMAIN tree \cup {p} |-> IF q = p THEN attr ELSE tree[q]]

Unlink(p) ==
    /\ p # <<>> /\ p \in DOMAIN tree
    /\ tree' = [q \in DOMAIN tree \ Below(p) |-> tree[q]]

\* Everything below p is afterwards below q, and nothing else changes.
Move(p, q) ==
    /\ p # <<>> /\ p \in DOMAIN tree /\ Free(q) /\ ~IsPrefix(p, q)
    /\ LET to(r) == q \o SubSeq(r, Len(p) + 1, Len(r))
           from(r) == p \o SubSeq(r, Len(q) + 1, Len(r))
       IN tree' = [r \in (DOMAIN tree \ Below(p)) \cup {to(r) : r \in Below(p)} |->
                     IF r \in DOMAIN tree \ Below(p) THEN tree[r] ELSE tree[from(r)]]

\* A file gets a new size; it may be completed with it, never reopened.
Resize(p, size, done) ==
    /\ p \in DOMAIN tree /\ ~tree[p].isdir
    /\ tree[p].done => done
    /\ tree' = [tree EXCEPT ![p] = [@ EXCEPT !.size = size, !.done = done]]

Next ==
    \/ \E p \in DOMAIN tree', attr \in {Directory, NewFile} : Create(p, attr)
    \/ \E p \in DOMAIN tree : Unlink(p)
    \/ \E p \in DOMAIN tree, q \in DOMAIN tree' : Move(p, q)
    \/ \E p \in DOMAIN tree, size \in Sizes, done \in BOOLEAN : Resize(p, size, done)

Spec == Init /\ [][Next]_tree

=============================================================================
