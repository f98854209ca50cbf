------------------------------ MODULE MCPeers ------------------------------
(***************************************************************************)
(* A small instance of what peers hold for a bridge: an address contract   *)
(* (ClaimPeers), a tip contract (TipPeers), and the evidence the bridge    *)
(* puts together for the first (Evidence).  No two of them share state, so *)
(* each is explored while the other two have not begun.                    *)
(*                                                                         *)
(* Bridge 1 confirms a payment, deepens it, retracts it after a reorg at   *)
(* height 4 and confirms it again where it was mined anew.  Bridge 2       *)
(* contradicts it at height 4, where a larger claim makes the caps choose  *)
(* between the two.  Bridge 3 is not trusted.                              *)
(***************************************************************************)
EXTENDS Peers, Evidence

CONSTANTS p1, p2, o1, o2

tipVars == <<blocks, heard>>

At(height, hash) == [height |-> height, hash |-> hash]

Story == <<
  ConfirmedClaim(1, o1, 5, At(2, 0), At(2, 0), 0),
  RetractedClaim(1, o1, At(4, 1)),
  ConfirmedClaim(1, o1, 5, At(2, 0), At(3, 0), 1),
  ConfirmedClaim(2, o1, 4, At(2, 0), At(4, 0), 0),
  ConfirmedClaim(1, o1, 5, At(4, 1), At(5, 1), 0),
  ConfirmedClaim(1, o2, 7, At(3, 0), At(5, 1), 1),
  MempoolClaim(3, o2, 6, At(5, 1)) >>

\* A digest is as good as random; a claim with a deeper proof is larger.
MCKeyOf(c) == 10 * c.sats + c.as_of.height
MCCostOf(c) == IF c.kind = "Confirmed" THEN 2 + c.proof ELSE 1
MCBucketOf(c) == MCKeyOf(c) % 2

AllClaims == {Story[i] : i \in {1, 2, 4, 5, 6, 7}}

\* Bridge 1 signs two watermarks at height 4, where a reorg replaced the block it
\* had scanned to.
Marks == {<<1, At(3, 0)>>, <<1, At(4, 0)>>, <<1, At(4, 1)>>}

-----------------------------------------------------------------------------
(* Evidence: the node has a chain of blocks with one to nine transactions,  *)
(* each of which pays, or one of a family that part at some height.         *)

MCParams == [bridges |-> {1, 2}, network |-> "signet", script |-> "s"]

\* The fourth transaction of a block is larger than a contract takes.
Tx(h, i) == [id |-> <<h, i>>, size |-> IF i = 4 THEN MaxRawTx + 1 ELSE MaxRawTx,
             witness |-> i % 2 = 1,
             outputs |-> <<[script |-> "t", sats |-> 1], [script |-> "s", sats |-> i]>>]

BlockOver(prev, salt, h, n) ==
  LET txs == [i \in 1..n |-> Tx(h, i)]
  IN  [txs |-> txs,
       header |-> [prev |-> prev, root |-> MerkleRoot(Txids([txs |-> txs])), salt |-> salt,
                   target |-> PowFloor, work |-> PowFloor]]

\* n transactions in each block; from height fork + 1 on, blocks of branch salt.
ChainOf(n, length, fork, salt) ==
  LET block[h \in 1..length] ==
        BlockOver(IF h = 1 THEN HashOf([genesis |-> TRUE]) ELSE HashOf(block[h - 1].header),
                  IF h > fork THEN salt ELSE 0, h, n)
  IN  <<block[1]>> \o [h \in 1..(length - 1) |-> block[h + 1]]

MCChain ==
  {ChainOf(n, 2, 2, 0) : n \in {1, 3, 5, 6, 7, 9}}
  \cup {ChainOf(2, 4, 4, 0)} \cup {ChainOf(2, 5, fork, 1) : fork \in 1..3}

MCBlock == UNION {Range(chain) : chain \in MCChain}
MCId == (1..5) \X (1..9)

-----------------------------------------------------------------------------
(* The tip: two blocks to a state, a fork at height 3, two bridges' entries *)
(* for one block at height 4, and an entry no trusted bridge signed.        *)

SummaryOf(height, hash, digest) ==
  [height |-> height, hash |-> hash, digest |-> digest, valid |-> TRUE]

Summaries ==
  {SummaryOf(1, 5, 1), SummaryOf(2, 4, 2), SummaryOf(3, 8, 3), SummaryOf(3, 2, 4),
   SummaryOf(4, 3, 5), SummaryOf(4, 3, 6), [SummaryOf(5, 9, 7) EXCEPT !.valid = FALSE]}

MCSummaryBucketOf(e) == e.digest % 2

-----------------------------------------------------------------------------

Plain == CHOOSE chain \in MCChain : TRUE

ClaimsAtRest == held = [p \in Peer |-> EmptyState]
TipAtRest == heard = [p \in Peer |-> {}]
EvidenceAtRest == assembly = Idle /\ had = {Plain}

MCInit == Init /\ EvidenceInit /\ Tip!Init

MCNext ==
  \/ EvidenceAtRest /\ TipAtRest /\ Next /\ UNCHANGED <<evidenceVars, tipVars>>
  \/ ClaimsAtRest /\ EvidenceAtRest /\ Tip!Next /\ UNCHANGED <<evidenceVars, held>>
  \/ ClaimsAtRest /\ TipAtRest /\ EvidenceNext /\ UNCHANGED <<held, tipVars>>

MCSpec ==
  /\ MCInit /\ [][MCNext]_<<held, evidenceVars, tipVars>>
  /\ PeersTalk /\ Tip!PeersTalk
=============================================================================
