---------------------------- MODULE MCInboxBridge ----------------------------
(* Small instances of InboxBridge.                                          *)
EXTENDS InboxBridge

CONSTANTS p1, p2, alice, bob, none

Entry1(k, p, h, g, serial) ==
  [key |-> k, prefix |-> p, height |-> h, ghostkey |-> g, serial |-> serial, valid |-> TRUE]

\* alice's own request and one by her watch key, at one height.
Own    == Entry1(1, 101, 1, alice, none)
Watch  == Entry1(3, 103, 1, alice, 1)

MCBucketOf(r) == IF "key" \in DOMAIN r THEN r.key % 2 ELSE 2

MCPrefix == {101, 103}

EntriesTwo == {Own, Watch}

LinkDown == {<<p2, p1>>}
=============================================================================
