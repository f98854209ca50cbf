--------------------------- MODULE MCInboxReplicas ---------------------------
(* Small instances of InboxReplicas.                                        *)
EXTENDS InboxReplicas

CONSTANTS alice, bob, none, p1, p2

Entry1(k, p, h, g, serial) ==
  [key |-> k, prefix |-> p, height |-> h, ghostkey |-> g, serial |-> serial, valid |-> TRUE]

\* alice's own request, one by her watch key, one of bob's whose key shares a
\* prefix with hers at another height, and one whose signature does not check.
Own    == Entry1(1, 101, 1, alice, none)
Watch  == Entry1(3, 103, 2, alice, 1)
Bobs   == Entry1(5, 101, 2, bob, none)
Forged == [Entry1(6, 105, 1, bob, none) EXCEPT !.valid = FALSE]

\* Two of alice's own requests, and one under each of two delegations: the
\* newer delegation's is dated lower.
High   == Entry1(1, 101, 2, alice, none)
Low    == Entry1(2, 102, 1, alice, none)
Newer  == Entry1(3, 103, 1, alice, 1)
Older  == Entry1(4, 104, 2, alice, 0)

\* Entries in two buckets, all removal batches in a third.
MCBucketOf(r) == IF "key" \in DOMAIN r THEN r.key % 2 ELSE 2

MCPrefix == {101, 102, 103, 104, 105}

EntriesMixed == {Own, Watch, Bobs, Forged}
EntriesOneKey == {High, Low, Newer, Older}

LinkPair == {<<p1, p2>>, <<p2, p1>>}
=============================================================================
