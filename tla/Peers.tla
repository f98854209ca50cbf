------------------------------- MODULE Peers -------------------------------
(***************************************************************************)
(* What peers hold for one bridge: an address contract (ClaimPeers) and a  *)
(* tip contract (TipPeers).  They share the peers and nothing else.        *)
(***************************************************************************)
EXTENDS ClaimPeers

CONSTANTS
  TipRetain,            \* blocks a tip state keeps
  Summary,              \* the tip entries bridges sign
  SummaryBucketOf(_),   \* the bucket of a summary an entry falls into
  MaxSummaries          \* bound: entries published at once

VARIABLES
  blocks,    \* blocks[p]: the tip state peer p holds
  heard      \* heard[p]: every tip entry peer p was sent and did not refuse

Tip == INSTANCE TipPeers WITH held <- blocks, Entry <- Summary,
                              BucketOf <- SummaryBucketOf,
                              MaxPublished <- MaxSummaries

ASSUME TipInstance == Tip!EntryAssumption

\* What a peer holds of the tip is what it heard (TipPeers).
HeldIsWhatWasHeard == Tip!HeldIsWhatWasHeard

\* Peers that keep talking come to hold one tip (TipPeers).
TipPeersSettle == Tip!PeersSettle
=============================================================================
