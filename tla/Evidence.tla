------------------------------ MODULE Evidence ------------------------------
(***************************************************************************)
(* The evidence a confirmation carries: how the bridge puts it together    *)
(* from its node (bridge/src/chain.rs, deep_claims in bridge/src/          *)
(* observer.rs), and how contracts and readers check it again              *)
(* (common/src/spv.rs, SignedClaim::verify in common/src/signing.rs,       *)
(* webapp/src/verify.rs).                                                  *)
(*                                                                         *)
(* A hash is the term it is the hash of: a transaction's is <<raw>>, a     *)
(* Merkle node's <<l, r>>, a block's its header.  Each read of the node is *)
(* a call of its own, and its chain may change between two.                *)
(*                                                                         *)
(* Abstracted: byte layouts and their parsing, signatures; a target is a   *)
(* number.                                                                 *)
(***************************************************************************)
EXTENDS Integers, Sequences, FiniteSetsExt, Functions

CONSTANTS
  PowFloor,            \* default_pow_floor: the easiest target allowed
  MaxRawTx,            \* MAX_RAW_TX
  MaxMerkleDepth,      \* MAX_MERKLE_DEPTH
  MaxFollowingHeaders, \* MAX_FOLLOWING_HEADERS
  Params,              \* the parameters of an address contract
  Id, Script,          \* what transactions differ in, and pay to
  Block,               \* the blocks there may be
  Chain,               \* bound: the chains the node may have
  MaxMoves,            \* bound: how often it changes from one to another
  MaxRung              \* bound: the deepest rung, deep_confirmations

VARIABLES
  node,      \* the node's chain
  had,       \* history: the chains the node has had
  assembly   \* the evidence being put together, in memory

evidenceVars == <<node, had, assembly>>

ASSUME EvidenceAssumption ==
  {PowFloor, MaxRawTx, MaxMerkleDepth, MaxFollowingHeaders, MaxMoves, MaxRung} \subseteq Nat

-----------------------------------------------------------------------------
(* Merkle trees *)

Node(l, r) == <<l, r>>

\* Bitcoin pairs the last of an odd number of nodes with itself.
Padded(level) == IF Len(level) % 2 = 1 THEN Append(level, level[Len(level)]) ELSE level

NextLevel(level) ==
  LET padded == Padded(level)
  IN  [i \in 1..(Len(padded) \div 2) |-> Node(padded[2*i - 1], padded[2*i])]

\* The levels of the tree from the leaves up, and the place in each that is over
\* the leaf at index: what the loop has come to after d rounds.
Climb(leaves, index) ==
  LET at[d \in Nat] ==
        IF d = 0 THEN [level |-> leaves, index |-> index]
        ELSE LET below == at[d - 1]
             IN  [level |-> NextLevel(below.level), index |-> below.index \div 2]
  IN  at

\* The loop ends at the first level of one node.
Depth(leaves) == Min({d \in 0..Len(leaves) : Len(Climb(leaves, 0)[d].level) = 1})

MerkleRoot(leaves) == Climb(leaves, 0)[Depth(leaves)].level[1]

Sibling(index) == IF index % 2 = 0 THEN index + 1 ELSE index - 1

\* The sibling of the node over the leaf at index, level by level.
MerkleBranch(leaves, index) ==
  [d \in 1..Depth(leaves) |->
     LET below == Climb(leaves, index)[d - 1]
     IN  Padded(below.level)[Sibling(below.index) + 1]]

\* A branch folded over an id; the index's bits choose the side.
Folded(txid, branch, index) ==
  LET at[d \in Nat] ==
        IF d = 0 THEN [hash |-> txid, index |-> index]
        ELSE LET below == at[d - 1]
             IN  [hash  |-> IF below.index % 2 = 0 THEN Node(below.hash, branch[d])
                            ELSE Node(branch[d], below.hash),
                  index |-> below.index \div 2]
  IN  at

\* The root a branch leads to.
MerkleRootFromBranch(txid, branch, index) ==
  Folded(txid, branch, index)[Len(branch)].hash

-----------------------------------------------------------------------------
(* Verifying *)

Hash(raw) == <<raw>>

\* A transaction without its witnesses, and the id it has with or without them.
Stripped(tx) == [tx EXCEPT !.witness = FALSE]
Txid(tx) == Hash(Stripped(tx))

\* parse_tx_outputs refuses what is too large or has witnesses.
Parses(raw) == raw.size <= MaxRawTx /\ ~raw.witness

HashOf(header) == [header |-> header]

\* The floor, and the header's own target, which its hash must not exceed.
HeaderHolds(header) == header.target <= PowFloor /\ header.work <= header.target

\* verify_spv_proof, of a proof and what the claim says it proves.
SpvHolds(proof, said, script) ==
  LET outputs == proof.raw.outputs
      run     == <<proof.header>> \o proof.following
  IN  /\ Parses(proof.raw)
      /\ Len(proof.following) <= MaxFollowingHeaders
      /\ Hash(proof.raw) = said.txid
      /\ said.vout < Len(outputs)
      /\ outputs[said.vout + 1] = [script |-> script, sats |-> said.sats]
      /\ HashOf(proof.header) = said.anchor.hash
      /\ Len(proof.branch) <= MaxMerkleDepth
      /\ MerkleRootFromBranch(Hash(proof.raw), proof.branch, proof.index) = proof.header.root
      /\ \A i \in DOMAIN run : HeaderHolds(run[i])
      /\ \A i \in 1..(Len(run) - 1) : run[i + 1].prev = HashOf(run[i])

\* SignedClaim::verify, for the instance with these parameters.
ClaimHolds(claim, params) ==
  /\ claim.bridge \in params.bridges
  /\ claim.network = params.network /\ claim.script = params.script
  /\ SpvHolds(claim.proof, claim.says, params.script)

\* verify_claim: the length of the run the page shows as checked.
ProvenDepth(claim, params) ==
  IF SpvHolds(claim.proof, claim.says, params.script)
  THEN 1 + Len(claim.proof.following) ELSE 0

-----------------------------------------------------------------------------
(* What a block pays *)

Txids(block) == [i \in DOMAIN block.txs |-> Txid(block.txs[i])]

\* scan_block: the outputs that pay the script, each with its way up the tree.
FoundOutputs(block, script) ==
  UNION {{[raw |-> Stripped(block.txs[i]), vout |-> v - 1, sats |-> block.txs[i].outputs[v].sats,
           branch |-> MerkleBranch(Txids(block), i - 1), index |-> i - 1] :
            v \in {w \in DOMAIN block.txs[i].outputs :
                    block.txs[i].outputs[w].script = script}} :
         i \in DOMAIN block.txs}

-----------------------------------------------------------------------------
(* The node's blocks *)

Output == [script : Script, sats : Nat]
Transaction == [id : Id, size : Nat, witness : BOOLEAN, outputs : Seq(Output)]

\* A node takes a block whose transactions its header commits to and whose header
\* has work; default_pow_floor is chosen so that it never rejects a genuine one,
\* and MAX_MERKLE_DEPTH far beyond any.  A header commits to one block.
ASSUME BlockAssumption ==
  \A block \in Block :
    /\ block.txs \in Seq(Transaction) /\ block.txs # <<>>
    /\ block.header.root = MerkleRoot(Txids(block))
    /\ Depth(Txids(block)) <= MaxMerkleDepth
    /\ HeaderHolds(block.header)
    /\ \A other \in Block : other.header = block.header => other = block

\* The blocks of a chain follow each other.
ASSUME ChainAssumption ==
  \A chain \in Chain :
    /\ chain \in Seq(Block)
    /\ \A h \in 2..Len(chain) : chain[h].header.prev = HashOf(chain[h - 1].header)

-----------------------------------------------------------------------------
(* Putting evidence together *)

Proof(found, header, following) ==
  [raw |-> found.raw, branch |-> found.branch, index |-> found.index,
   header |-> header, following |-> following]

Bug_HeaderDepth(rung) == Min({rung, MaxFollowingHeaders + 2})

\* A deeper rung carries the longest run a verifier takes.
HeaderDepth(rung) == Min({rung, MaxFollowingHeaders + 1})

\* A confirmation of an output found in a block, as SignedClaim::sign makes it.
Signed(params, bridge, found, block, proof) ==
  [bridge |-> bridge, network |-> params.network, script |-> params.script,
   says |-> [txid |-> Hash(found.raw), vout |-> found.vout, sats |-> found.sats,
             anchor |-> [hash |-> HashOf(block.header)]],
   proof |-> proof]

\* The claim made when the output is first seen, with the block's own header.
FirstClaim(bridge, found, block) ==
  Signed(Params, bridge, found, block, Proof(found, block.header, <<>>))

Idle == [step |-> "idle"]

EvidenceInit ==
  /\ node \in Chain
  /\ had = {node}
  /\ assembly = Idle

\* The node extends its chain, or goes over to another.
Move(chain) ==
  /\ Cardinality(had) <= MaxMoves
  /\ chain # node /\ chain[1] = node[1]
  /\ node' = chain
  /\ had' = had \cup {chain}
  /\ UNCHANGED assembly

\* A round reads the tip, with the genesis block checked.
ReadTip ==
  /\ assembly = Idle
  /\ assembly' = [step |-> "tip", tip |-> Len(node)]
  /\ UNCHANGED <<node, had>>

\* The block at an output's height is read again and the output found in it;
\* too near the tip there is no such run of headers.
ReadBlock(height, rung) ==
  /\ assembly.step = "tip"
  /\ height \in DOMAIN node
  /\ assembly.tip >= height + HeaderDepth(rung) - 1
  /\ \E found \in FoundOutputs(node[height], Params.script) :
       assembly' = [step |-> "headers", tip |-> assembly.tip, height |-> height,
                    block |-> node[height], found |-> found,
                    depth |-> HeaderDepth(rung), rung |-> rung, run |-> <<>>]
  /\ UNCHANGED <<node, had>>

\* build_spv_proof: the block's header and those over it, asked for by height.
ReadHeader ==
  LET h == assembly.height + Len(assembly.run)
  IN  /\ assembly.step = "headers" /\ Len(assembly.run) < assembly.depth
      /\ assembly' = IF h \in DOMAIN node
                     THEN [assembly EXCEPT !.run = Append(@, node[h].header)] ELSE Idle
      /\ UNCHANGED <<node, had>>

Whole == assembly.step = "headers" /\ Len(assembly.run) = assembly.depth

DeepClaim(bridge) ==
  Signed(Params, bridge, assembly.found, assembly.block,
         Proof(assembly.found, Head(assembly.run), Tail(assembly.run)))

\* The claim is signed and the next output turned to.
SignDeep ==
  /\ Whole
  /\ assembly' = Idle
  /\ UNCHANGED <<node, had>>

EvidenceNext ==
  \/ \E chain \in Chain : Move(chain)
  \/ ReadTip
  \/ \E height \in 1..Len(node), rung \in 2..MaxRung : ReadBlock(height, rung)
  \/ ReadHeader
  \/ SignDeep

EvidenceSpec == EvidenceInit /\ [][EvidenceNext]_evidenceVars

-----------------------------------------------------------------------------
(* Properties *)

\* The headers read are of one chain the node has had, with the block on it.
OfOneChain ==
  \E chain \in had :
    /\ assembly.height \in DOMAIN chain /\ chain[assembly.height] = assembly.block
    /\ \A i \in DOMAIN assembly.run :
         LET h == assembly.height + i - 1
         IN  h \in DOMAIN chain /\ chain[h].header = assembly.run[i]

\* A contract takes no transaction larger than it may be.
Fits == assembly.found.raw.size <= MaxRawTx

\* Whatever the block's size and the payment's place in it, and wherever the
\* node's chain changed while the bridge read it, the evidence the bridge signs
\* is accepted, at the depth of its rung, when it is of one chain, and refused
\* when it was torn (merkle_branch against merkle_root_from_branch, deep_claims
\* and build_spv_proof against verify_spv_proof).  The first claim's holds.  For
\* a transaction over MAX_RAW_TX the bridge signs what every contract refuses.
EvidenceIsJudged ==
  \A bridge \in Params.bridges :
    /\ assembly.step = "headers" =>
         (ClaimHolds(FirstClaim(bridge, assembly.found, assembly.block), Params) <=> Fits)
    /\ Whole =>
         /\ ClaimHolds(DeepClaim(bridge), Params) <=> Fits /\ OfOneChain
         /\ ProvenDepth(DeepClaim(bridge), Params) =
              IF Fits /\ OfOneChain
              THEN Min({assembly.rung, MaxFollowingHeaders + 1}) ELSE 0
=============================================================================
