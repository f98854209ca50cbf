-------------------------------- MODULE Page --------------------------------
(***************************************************************************)
(* The web page (webapp/src): how it finds out which generations to read   *)
(* (generation.rs), asks for contracts and routes what arrives (app.rs,    *)
(* state.rs), after the bridge has published the pointers it reads.        *)
(*                                                                         *)
(* A reply names a contract; an error may not.  Contracts other than       *)
(* pointers are subscribed to, so word of one asked for may come at any    *)
(* time.  Both networks have one bridge, so their pointers are the same.   *)
(*                                                                         *)
(* Abstracted: how long the timers run; what the page says of a request    *)
(* under way or failed (pending, error, unreadable) and of why nothing     *)
(* confirms a generation; a claim's evidence.  The page is connected.      *)
(***************************************************************************)
EXTENDS Pointers, FiniteSets

CONSTANTS
  Network,       \* the networks with a trusted bridge
  Home,          \* default_network
  Address, Tip,  \* the artifacts
  Ask,           \* addresses a visitor may look up
  Demo(_),       \* the addresses shown on a network unasked
  Embedded,      \* the generation this build was made with
  MaxHeight,     \* bound: blocks
  MaxSwitches    \* bound: changes of network

VARIABLES
  open,          \* whether a visitor has the page open
  page,          \* everything the page knows
  switches       \* bound

vars == <<pointerVars, open, page, switches>>

ASSUME PageAssumption ==
  /\ Artifact = {Address, Tip} /\ Address # Tip
  /\ Home \in Network /\ Embedded \in Generation
  /\ {MaxHeight, MaxSwitches} \subseteq Nat

TipAt(n, g) == <<"tip", n, g>>
AddressAt(n, g, x) == <<"address", n, g, x>>
GenerationOf(id) == id[3]
NetworkOf(id) == id[2]

\* source: why the generation is read; a record names it, or none could be had.
Slot(phase, names, source) == [phase |-> phase, names |-> names, source |-> source]

\* A page that has just come to a network: nothing shown, no pointer asked for.
\* flying: pointers asked for and not answered.  patience: how many
\* TIP_PATIENCE timers run, those of networks left included.  asked: contracts
\* asked for, on any network.
Fresh(n, flying, patience, asked) ==
  [network |-> n,
   slots |-> [a \in Artifact |-> Slot("unasked", Embedded, "none")],
   flying |-> flying, patience |-> patience, asked |-> asked,
   tip |-> None, silent |-> FALSE,
   lookups |-> {}, queued |-> {}, views |-> {}]

-----------------------------------------------------------------------------
(* Finding the generations *)

Unsettled(p) == {a \in Artifact : p.slots[a].phase # "settled"}
Settled(p) == Unsettled(p) = {}
InFlight(p) == {a \in Artifact : p.slots[a].phase = "asked"}
Usable(p, a) == p.slots[a].source # "withdrawn"

\* What the visitor is told of a generation: notices.
Severity(p, a) ==
  LET slot == p.slots[a]
  IN  CASE slot.phase # "settled" \/ (slot.source = "record" /\ slot.names = Embedded) -> "none"
        [] slot.source = "record"    -> "stale"
        [] slot.source = "withdrawn" -> "broken"
        [] OTHER                     -> "unconfirmed"

\* The derivation: this build's own generation until both are known.
Reads(p, a) == IF Settled(p) THEN p.slots[a].names ELSE Embedded

\* One at a time, the address contract's first.
NextPointers(p) ==
  IF InFlight(p) # {} \/ Settled(p) THEN {}
  ELSE IF Address \in Unsettled(p) THEN {Address} ELSE {Tip}

TipHeight(p) == IF p.tip = None THEN 0 ELSE p.tip.height

\* issue_lookup, once the generations are settled.
Issued(p, xs) ==
  LET ids == {AddressAt(p.network, Reads(p, Address), x) : x \in xs}
  IN  IF ~Usable(p, Address) THEN p
      ELSE [p EXCEPT !.lookups = @ \cup ids, !.asked = @ \cup ids]

Bug_StartReading(p) ==
  Issued([p EXCEPT !.queued = {}, !.asked = @ \cup {TipAt(p.network, Reads(p, Tip))}],
         Demo(p.network) \cup p.queued)

\* on_generations_settled: the tip is asked for, the lookups that waited issued.
StartReading(p) ==
  LET q == IF Usable(p, Tip)
           THEN [p EXCEPT !.asked = @ \cup {TipAt(p.network, Reads(p, Tip))},
                          !.patience = @ + 1]
           ELSE p
  IN  Issued([q EXCEPT !.queued = {}], Demo(p.network) \cup p.queued)

\* advance_generations.
Advance(p) ==
  IF Settled(p) THEN StartReading(p)
  ELSE [p EXCEPT !.slots = [a \in Artifact |->
                              IF a \in NextPointers(p)
                              THEN Slot("asked", Embedded, "none") ELSE p.slots[a]],
                 !.flying = @ \cup NextPointers(p)]

\* What settles a pointer: interpret.
Unnamed(source) == Slot("settled", Embedded, source)

Deliver(p, a, settled) ==
  IF a \in InFlight(p) THEN Advance([p EXCEPT !.slots[a] = settled]) ELSE p

Landed(p, a) == [p EXCEPT !.flying = @ \ {a}]

Visiting == open /\ UNCHANGED <<pointerVars, open>>

\* A record comes, the standing one or, from a peer behind, one it superseded.
PointerState(a) ==
  /\ Visiting /\ a \in page.flying
  /\ \E v \in DOMAIN stands[a] :
       page' = Deliver(Landed(page, a), a, Slot("settled", stands[a][v], "record"))
  /\ UNCHANGED switches

\* The bridge's key signed that it no longer serves the contract, or what comes
\* is refused.
PointerOdd(a, says) ==
  /\ Visiting /\ a \in page.flying
  /\ page' = Deliver(Landed(page, a), a, Unnamed(says))
  /\ UNCHANGED switches

\* handle_failure: an error that names no contract is taken to be about the
\* pointer in flight.
AboutPointer(p, missing) ==
  IF InFlight(p) = {} THEN p
  ELSE Deliver(p, CHOOSE a \in InFlight(p) : TRUE,
               Unnamed(IF missing THEN "never published" ELSE "unconfirmed"))

PointerFails(a, named, missing) ==
  /\ Visiting /\ a \in page.flying
  /\ page' = IF named /\ a \notin InFlight(page) THEN Landed(page, a)
             ELSE AboutPointer(Landed(page, a), missing)
  /\ UNCHANGED switches

\* A lookup of another contract fails, with an error that names none.
ContractFails(missing) ==
  /\ Visiting /\ page.asked # {}
  /\ page' = AboutPointer(page, missing)
  /\ UNCHANGED switches

\* A current node's answer that it found nothing: the page does not hear it.
PointerMissing(a) ==
  /\ Visiting /\ a \in page.flying
  /\ page' = Landed(page, a)
  /\ UNCHANGED switches

Bug_Watchdog(p, a) == Deliver(p, a, Unnamed("never published"))

\* Silence is never absence.
Watchdog(p, a) == Deliver(p, a, Unnamed("unconfirmed"))

TimeOut(a) ==
  /\ Visiting /\ a \in InFlight(page)
  /\ page' = Watchdog(page, a)
  /\ UNCHANGED switches

-----------------------------------------------------------------------------
(* Showing what arrives *)

View(p, id) == [of |-> id, at |-> TipHeight(p)]

\* Confirmations are measured against the tip: every view is derived again.
ApplyTip(p, id, height) ==
  LET q == [p EXCEPT !.tip = [of |-> id, height |-> height]]
  IN  [q EXCEPT !.views = {View(q, v.of) : v \in @}]

ApplyAddress(p, id) == [p EXCEPT !.views = {v \in @ : v.of # id} \cup {View(p, id)}]

Bug_Wanted(p, id) == IF id[1] = "tip" THEN "tip" ELSE "address"

\* on_contract_state: which part of the page waits for this contract.
Wanted(p, id) ==
  IF id = TipAt(p.network, Reads(p, Tip)) THEN "tip"
  ELSE IF id \in p.lookups THEN "address" ELSE "nothing"

\* A contract comes, from any peer, as far as it was written there.
ContractState(id, height) ==
  /\ Visiting /\ id \in page.asked
  /\ page' = CASE Wanted(page, id) = "tip" /\ height > 0 -> ApplyTip(page, id, height)
               [] Wanted(page, id) = "address" -> ApplyAddress(page, id)
               [] OTHER -> page
  /\ UNCHANGED switches

PatienceEnds ==
  /\ Visiting /\ page.patience > 0
  /\ page' = [page EXCEPT !.patience = @ - 1, !.silent = @ \/ page.tip = None]
  /\ UNCHANGED switches

-----------------------------------------------------------------------------
(* The visitor *)

\* A visit is short beside the half hour between two publications: the bridge
\* publishes nothing during one.  The bound: a page is opened last.
Open ==
  /\ build = Builds /\ mishaps = 0
  /\ \A a \in Artifact : recorded[a] # None /\ recorded[a].names = build
  /\ ~open /\ open' = TRUE
  /\ page' = Advance(page)
  /\ UNCHANGED <<pointerVars, switches>>

\* start_lookup: before the generations are known there is nothing to derive.
LookUp(x) ==
  /\ Visiting
  /\ page' = IF Settled(page) THEN Issued(page, {x}) ELSE [page EXCEPT !.queued = @ \cup {x}]
  /\ UNCHANGED switches

\* switch_network: what is shown is dropped; requests and timers go on.
Switched(p, n) == Fresh(n, p.flying, p.patience, p.asked)

SwitchNetwork(n) ==
  /\ Visiting /\ n # page.network /\ switches > 0
  /\ page' = Advance(Switched(page, n))
  /\ switches' = switches - 1

Init ==
  /\ PointersInit
  /\ open = FALSE
  /\ page = Fresh(Home, {}, 0, {})
  /\ switches = MaxSwitches

Visit ==
  \/ \E a \in Artifact :
       \/ PointerState(a) \/ PointerMissing(a) \/ TimeOut(a)
       \/ \E says \in {"withdrawn", "unconfirmed"} : PointerOdd(a, says)
       \/ \E named, missing \in BOOLEAN : PointerFails(a, named, missing)
  \/ \E missing \in BOOLEAN : ContractFails(missing)
  \/ \E id \in page.asked, height \in 0..MaxHeight : ContractState(id, height)
  \/ PatienceEnds
  \/ \E x \in Ask : LookUp(x)
  \/ \E n \in Network : SwitchNetwork(n)

Away == ~open /\ UNCHANGED <<open, page, switches>>

Next ==
  \/ Away /\ PointersNext
  \/ Open
  \/ Visit

\* Timers end, and the bridge publishes its pointers again every half hour.
Spec ==
  /\ Init /\ [][Next]_vars
  /\ \A a \in Artifact : WF_vars(TimeOut(a)) /\ WF_vars(Away /\ PublishWell(a))
  /\ WF_vars(PatienceEnds)

-----------------------------------------------------------------------------
(* Properties *)

\* A pointer is taken for one never published (on_pointer_absent) only when
\* the node has just answered for it: never for silence, and while another
\* request is out an error may be that one's.
AbsenceIsAnswered ==
  [][\A a \in Artifact :
       /\ page'.slots[a].source = "never published"
       /\ page.slots[a].source # "never published"
       => \/ a \in page.flying /\ a \notin page'.flying
          \/ page.flying # {a} \/ page.asked # {}]_vars

\* What is shown (on_contract_state, switch_network, recompute_addresses) is of
\* this network and of the generations settled on, though requests of another
\* network are answered late; the tip of another generation only after a change
\* of network.  Every address is shown as the tip on display has it, in whatever
\* order they came.
ShownBelongs ==
  /\ \A v \in page.views :
       /\ NetworkOf(v.of) = page.network
       /\ Settled(page) /\ GenerationOf(v.of) = page.slots[Address].names
       /\ v.at = TipHeight(page)
  /\ page.tip # None =>
       /\ NetworkOf(page.tip.of) = page.network
       /\ \/ Settled(page) /\ GenerationOf(page.tip.of) = page.slots[Tip].names
          \/ switches < MaxSwitches

\* An open page comes to know its generations, and to show a tip or to say that
\* none comes or that the contract was withdrawn, whatever the node answers,
\* late, or never; and no lookup goes on waiting (advance_generations,
\* on_generations_settled).
PageSpeaks ==
  <>[](open =>
         /\ Settled(page) /\ page.queued = {}
         /\ page.tip # None \/ page.silent \/ Severity(page, Tip) = "broken")
=============================================================================
