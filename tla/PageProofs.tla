------------------------------ MODULE PageProofs -----------------------------
(***************************************************************************)
(* What the page shows belongs where it is shown, and a pointer is taken   *)
(* for one never published only on the node's word, for any networks,      *)
(* addresses and generations, however late or wrong what arrives.          *)
(*                                                                         *)
(* Nothing is looked up before the generations are settled, and they       *)
(* settle once (Belongs): so what is looked up is of the generations in    *)
(* force, and a view is of something looked up.  A tip alone can be shown  *)
(* earlier, when one asked for on the network before is answered late.     *)
(***************************************************************************)
EXTENDS Page, SequenceTheorems, TLAPS

(* The page's parts *)

\* How far the page is with a pointer, and what it goes by.
Phases == {"unasked", "asked", "settled"}
Sources == {"none", "record", "withdrawn", "unconfirmed", "never published"}

Slots == [phase : Phases, names : Generation, source : Sources]

\* A page has its parts.
Whole(p) ==
  /\ p = [network |-> p.network, slots |-> p.slots, flying |-> p.flying,
          patience |-> p.patience, asked |-> p.asked, tip |-> p.tip,
          silent |-> p.silent, lookups |-> p.lookups, queued |-> p.queued,
          views |-> p.views]
  /\ p.slots \in [Artifact -> Slots]

\* Two pages that differ in what is asked for and looked up alone.
SameButAsked(p, q) ==
  /\ q.network = p.network /\ q.slots = p.slots /\ q.flying = p.flying
  /\ q.tip = p.tip /\ q.silent = p.silent /\ q.views = p.views

\* Pointers name generations.
PointersNameSome == build \in Generation /\ stands \in [Artifact -> Seq(Generation)]

\* What the page is told of its artifacts and networks.
LEMMA Constants ==
  /\ Artifact = {Address, Tip} /\ Address # Tip /\ Home \in Network
  /\ Embedded \in Generation /\ Builds \in Nat \ {0}
BY PageAssumption, PointersAssumption

-----------------------------------------------------------------------------
(* What is asked for *)

\* Lookups are of the page's network and the generation it reads.
LEMMA IssuedIs ==
  ASSUME NEW p, Whole(p), NEW xs
  PROVE  /\ Whole(Issued(p, xs)) /\ SameButAsked(p, Issued(p, xs))
         /\ p.lookups \subseteq Issued(p, xs).lookups
         /\ \A id \in Issued(p, xs).lookups :
              id \in p.lookups \/ \E x \in xs : id = AddressAt(p.network, Reads(p, Address), x)
<1> DEFINE ids == {AddressAt(p.network, Reads(p, Address), x) : x \in xs}
<1>1. Issued(p, xs) = IF ~Usable(p, Address) THEN p
                      ELSE [p EXCEPT !.lookups = @ \cup ids, !.asked = @ \cup ids]
  BY DEF Issued
<1>2. \A id \in ids : \E x \in xs : id = AddressAt(p.network, Reads(p, Address), x)
  OBVIOUS
<1> HIDE DEF ids
<1>3. CASE ~Usable(p, Address)
  BY <1>1, <1>3 DEF SameButAsked
<1>4. CASE Usable(p, Address)
  <2>1. PICK q : q = [p EXCEPT !.lookups = @ \cup ids, !.asked = @ \cup ids]
    OBVIOUS
  <2>2. /\ Whole(q) /\ SameButAsked(p, q) /\ q.lookups = p.lookups \cup ids
        /\ q.asked = p.asked \cup ids
    BY <2>1 DEF Whole, SameButAsked
  <2> QED BY <1>1, <1>2, <1>4, <2>1, <2>2
<1> QED BY <1>3, <1>4

\* A page whose generations are settled asks for its tip and what waited.
LEMMA StartReadingIs ==
  ASSUME NEW p, Whole(p)
  PROVE  /\ Whole(StartReading(p)) /\ SameButAsked(p, StartReading(p))
         /\ p.lookups \subseteq StartReading(p).lookups
         /\ \A id \in StartReading(p).lookups :
              \/ id \in p.lookups
              \/ \E x : id = AddressAt(p.network, Reads(p, Address), x)
<1>1. PICK q : q = IF Usable(p, Tip)
                   THEN [p EXCEPT !.asked = @ \cup {TipAt(p.network, Reads(p, Tip))},
                                  !.patience = @ + 1]
                   ELSE p
  OBVIOUS
<1>2. Whole(q) /\ SameButAsked(p, q) /\ q.lookups = p.lookups
  BY <1>1 DEF Whole, SameButAsked
<1>3. PICK r : r = [q EXCEPT !.queued = {}]
  OBVIOUS
<1>4. Whole(r) /\ SameButAsked(p, r) /\ r.lookups = p.lookups
  BY <1>2, <1>3 DEF Whole, SameButAsked
<1>5. StartReading(p) = Issued(r, Demo(p.network) \cup p.queued)
  BY <1>1, <1>3 DEF StartReading
<1>6. Reads(r, Address) = Reads(p, Address) /\ r.network = p.network
  BY <1>4 DEF SameButAsked, Reads, Settled, Unsettled
<1>7. /\ Whole(StartReading(p)) /\ SameButAsked(r, StartReading(p))
      /\ r.lookups \subseteq StartReading(p).lookups
      /\ \A id \in StartReading(p).lookups :
           \/ id \in r.lookups
           \/ \E x \in Demo(p.network) \cup p.queued :
                id = AddressAt(r.network, Reads(r, Address), x)
  BY <1>4, <1>5, IssuedIs
<1>8. SameButAsked(p, StartReading(p))
  BY <1>4, <1>7 DEF SameButAsked
<1> QED BY <1>4, <1>6, <1>7, <1>8

\* A page whose generations are not settled asks for a pointer and nothing else.
LEMMA AskingIs ==
  ASSUME NEW p, Whole(p), ~Settled(p)
  PROVE  LET q == Advance(p)
         IN  /\ Whole(q) /\ ~Settled(q)
             /\ q.network = p.network /\ q.tip = p.tip /\ q.views = p.views
             /\ q.lookups = p.lookups /\ q.asked = p.asked
             /\ \A a \in Artifact :
                  \/ q.slots[a] = p.slots[a] /\ (a \in q.flying => a \in p.flying)
                  \/ q.slots[a].source = "none" /\ p.slots[a].phase # "settled"
<1> DEFINE N == NextPointers(p)
           slots == [a \in Artifact |-> IF a \in N THEN Slot("asked", Embedded, "none")
                                                   ELSE p.slots[a]]
<1>1. PICK q : q = [p EXCEPT !.slots = slots, !.flying = @ \cup N]
  OBVIOUS
<1>2. Advance(p) = q
  BY <1>1 DEF Advance
<1>3. Slot("asked", Embedded, "none") \in Slots
  BY Constants DEF Slot, Slots, Phases, Sources
<1>4. N \subseteq Unsettled(p)
  BY Constants DEF NextPointers, Settled, Unsettled
<1>5. slots \in [Artifact -> Slots]
  BY <1>3 DEF Whole
<1>6. /\ \A a \in N : slots[a] = Slot("asked", Embedded, "none")
      /\ \A a \in Artifact \ N : slots[a] = p.slots[a]
  BY <1>4 DEF Unsettled
<1> HIDE DEF N, slots
<1>7. /\ Whole(q) /\ q.slots = slots /\ q.flying = p.flying \cup N
      /\ q.network = p.network /\ q.tip = p.tip /\ q.views = p.views
      /\ q.lookups = p.lookups /\ q.asked = p.asked
  BY <1>1, <1>5 DEF Whole
<1>8. /\ Slot("asked", Embedded, "none").phase = "asked"
      /\ Slot("asked", Embedded, "none").source = "none"
  BY DEF Slot
<1>9. ~Settled(q)
  <2>1. PICK a \in Artifact : p.slots[a].phase # "settled"
    BY DEF Settled, Unsettled
  <2>2. q.slots[a].phase # "settled"
    BY <1>6, <1>7, <1>8, <2>1
  <2> QED BY <2>1, <2>2 DEF Settled, Unsettled
<1>10. ASSUME NEW a \in Artifact
       PROVE  \/ q.slots[a] = p.slots[a] /\ (a \in q.flying => a \in p.flying)
              \/ q.slots[a].source = "none" /\ p.slots[a].phase # "settled"
  BY <1>4, <1>6, <1>7, <1>8 DEF Unsettled
<1> QED BY <1>2, <1>7, <1>9, <1>10

-----------------------------------------------------------------------------
(* What belongs *)

\* later: whether the network was changed before.
Belongs(p, later) ==
  /\ p.lookups # {} => Settled(p)
  /\ \A id \in p.lookups :
       NetworkOf(id) = p.network /\ GenerationOf(id) = p.slots[Address].names
  /\ \A v \in p.views : v.of \in p.lookups /\ v.at = TipHeight(p)
  /\ p.asked # {} => Settled(p) \/ later
  /\ p.tip # None =>
       /\ NetworkOf(p.tip.of) = p.network
       /\ \/ Settled(p) /\ GenerationOf(p.tip.of) = p.slots[Tip].names
          \/ later

\* Where the generations are settled, more lookups of them belong.
LEMMA MoreLookups ==
  ASSUME NEW p, NEW q, NEW later, Belongs(p, later), Settled(p), SameButAsked(p, q),
         p.lookups \subseteq q.lookups,
         \A id \in q.lookups :
           id \in p.lookups \/ \E x : id = AddressAt(p.network, Reads(p, Address), x)
  PROVE  Belongs(q, later)
<1>1. Settled(q) /\ TipHeight(q) = TipHeight(p)
  BY DEF SameButAsked, Settled, Unsettled, TipHeight
<1>2. Reads(p, Address) = p.slots[Address].names
  BY DEF Reads
<1>3. \A x : /\ NetworkOf(AddressAt(p.network, Reads(p, Address), x)) = p.network
             /\ GenerationOf(AddressAt(p.network, Reads(p, Address), x)) = Reads(p, Address)
  BY DEF NetworkOf, GenerationOf, AddressAt
<1>4. \A id \in q.lookups : NetworkOf(id) = p.network /\ GenerationOf(id) = p.slots[Address].names
  BY <1>2, <1>3 DEF Belongs
<1> QED BY <1>1, <1>4 DEF Belongs, SameButAsked

\* What belongs goes on belonging when the page asks for what is next.
LEMMA AdvanceBelongs ==
  ASSUME NEW p, NEW later, Whole(p), Belongs(p, later)
  PROVE  Whole(Advance(p)) /\ Belongs(Advance(p), later)
<1>1. CASE Settled(p)
  <2>1. Advance(p) = StartReading(p)
    BY <1>1 DEF Advance
  <2> QED BY <1>1, <2>1, StartReadingIs, MoreLookups
<1>2. CASE ~Settled(p)
  <2>1. PICK q : q = Advance(p)
    OBVIOUS
  <2>2. /\ Whole(q) /\ ~Settled(q)
        /\ q.network = p.network /\ q.tip = p.tip /\ q.views = p.views
        /\ q.lookups = p.lookups /\ q.asked = p.asked
    BY <1>2, <2>1, AskingIs
  <2>3. p.lookups = {} /\ p.views = {}
    BY <1>2 DEF Belongs
  <2>4. Belongs(q, later)
    BY <1>2, <2>2, <2>3 DEF Belongs
  <2> QED BY <2>1, <2>2, <2>4
<1> QED BY <1>1, <1>2

\* What the page believes of a pointer stays, or is forgotten.
SameWord(p, q, a) ==
  q.slots[a] = p.slots[a] \/ q.slots[a].source = "none"

\* Only a pointer that was not settled is asked for.
LEMMA AdvanceSays ==
  ASSUME NEW p, Whole(p), NEW a \in Artifact
  PROVE  /\ SameWord(p, Advance(p), a)
         /\ p.slots[a].phase = "settled" => (a \in Advance(p).flying => a \in p.flying)
<1>1. CASE Settled(p)
  <2>1. Advance(p) = StartReading(p)
    BY <1>1 DEF Advance
  <2> QED BY <2>1, StartReadingIs DEF SameButAsked, SameWord
<1>2. CASE ~Settled(p)
  BY <1>2, AskingIs DEF SameWord
<1> QED BY <1>1, <1>2

\* What settles a pointer.
Settling == {s \in Slots : s.phase = "settled"}

\* Each way a pointer settles leaves a slot that is settled.
LEMMA SettlingSlots ==
  /\ \A source \in Sources : Unnamed(source) \in Settling /\ Unnamed(source).source = source
  /\ \A g \in Generation : /\ Slot("settled", g, "record") \in Settling
                           /\ Slot("settled", g, "record").source = "record"
BY Constants DEF Unnamed, Slot, Slots, Settling, Phases, Sources

\* A pointer is settled if it was asked for, and nothing else is said.
LEMMA DeliverIs ==
  ASSUME NEW p, NEW later, Whole(p), Belongs(p, later),
         NEW a \in Artifact, NEW s \in Settling
  PROVE  /\ Whole(Deliver(p, a, s)) /\ Belongs(Deliver(p, a, s), later)
         /\ \A b \in Artifact :
              \/ SameWord(p, Deliver(p, a, s), b)
              \/ /\ b = a /\ a \in InFlight(p) /\ Deliver(p, a, s).slots[b] = s
                 /\ b \in Deliver(p, a, s).flying => b \in p.flying
<1>1. CASE a \notin InFlight(p)
  BY <1>1 DEF Deliver, SameWord
<1>2. CASE a \in InFlight(p)
  <2>1. PICK q : q = [p EXCEPT !.slots[a] = s]
    OBVIOUS
  <2>2. /\ Whole(q) /\ q.network = p.network /\ q.tip = p.tip /\ q.views = p.views
        /\ q.lookups = p.lookups /\ q.asked = p.asked /\ q.flying = p.flying
        /\ q.slots[a] = s /\ \A b \in Artifact \ {a} : q.slots[b] = p.slots[b]
    BY <2>1 DEF Whole, Settling
  <2>3. ~Settled(p)
    BY <1>2 DEF InFlight, Settled, Unsettled
  <2>4. p.lookups = {} /\ p.views = {}
    BY <2>3 DEF Belongs
  <2>5. Belongs(q, later)
    BY <2>2, <2>3, <2>4 DEF Belongs
  <2>6. Deliver(p, a, s) = Advance(q)
    BY <1>2, <2>1 DEF Deliver
  <2>7. ASSUME NEW b \in Artifact
        PROVE  \/ SameWord(p, Advance(q), b)
               \/ /\ b = a /\ Advance(q).slots[b] = s
                  /\ b \in Advance(q).flying => b \in p.flying
    <3>1. SameWord(q, Advance(q), b)
      BY <2>2, AdvanceSays
    <3>2. q.slots[b].phase = "settled" => (b \in Advance(q).flying => b \in q.flying)
      BY <2>2, AdvanceSays
    <3>3. s.phase = "settled"
      BY DEF Settling
    <3> QED BY <2>2, <3>1, <3>2, <3>3 DEF SameWord
  <2> QED BY <1>2, <2>2, <2>5, <2>6, <2>7, AdvanceBelongs
<1> QED BY <1>1, <1>2

\* A request that was answered.
LEMMA LandedIs ==
  ASSUME NEW p, NEW later, Whole(p), Belongs(p, later), NEW a
  PROVE  /\ Whole(Landed(p, a)) /\ Belongs(Landed(p, a), later)
         /\ Landed(p, a).slots = p.slots /\ Landed(p, a).flying = p.flying \ {a}
         /\ InFlight(Landed(p, a)) = InFlight(p)
<1>1. PICK q : q = [p EXCEPT !.flying = @ \ {a}]
  OBVIOUS
<1>2. /\ Whole(q) /\ q.slots = p.slots /\ q.flying = p.flying \ {a}
      /\ q.network = p.network /\ q.tip = p.tip /\ q.views = p.views
      /\ q.lookups = p.lookups /\ q.asked = p.asked
  BY <1>1 DEF Whole
<1>3. Belongs(q, later) /\ InFlight(q) = InFlight(p)
  BY <1>2 DEF Belongs, Settled, Unsettled, TipHeight, InFlight
<1> QED BY <1>1, <1>2, <1>3 DEF Landed

\* An error about whichever pointer is in flight.
LEMMA AboutPointerIs ==
  ASSUME NEW p, NEW later, Whole(p), Belongs(p, later), NEW missing \in BOOLEAN
  PROVE  /\ Whole(AboutPointer(p, missing)) /\ Belongs(AboutPointer(p, missing), later)
         /\ \A b \in Artifact :
              \/ SameWord(p, AboutPointer(p, missing), b)
              \/ b \in AboutPointer(p, missing).flying => b \in p.flying
<1>1. CASE InFlight(p) = {}
  BY <1>1 DEF AboutPointer, SameWord
<1>2. CASE InFlight(p) # {}
  <2>1. PICK a \in InFlight(p) : a = CHOOSE b \in InFlight(p) : TRUE
    BY <1>2
  <2>2. a \in Artifact
    BY DEF InFlight
  <2>3. PICK s : s = Unnamed(IF missing THEN "never published" ELSE "unconfirmed")
    OBVIOUS
  <2>4. s \in Settling
    BY <2>3, SettlingSlots DEF Sources
  <2>5. AboutPointer(p, missing) = Deliver(p, a, s)
    BY <1>2, <2>1, <2>3 DEF AboutPointer
  <2> QED BY <2>2, <2>4, <2>5, DeliverIs
<1> QED BY <1>1, <1>2

-----------------------------------------------------------------------------
(* Every step *)

\* The page has its parts and shows what belongs.
PInv ==
  /\ PointersNameSome
  /\ switches \in Nat /\ switches <= MaxSwitches
  /\ Whole(page) /\ Belongs(page, switches < MaxSwitches)

\* A step that takes no pointer for one never published, but on the node's word.
OnWord(p, q) ==
  \A a \in Artifact :
    \/ SameWord(p, q, a) \/ q.slots[a].source # "never published"
    \/ a \in p.flying /\ a \notin q.flying
    \/ p.flying # {a} \/ p.asked # {}

\* What a step of a visit has to show.
Good(q) == Whole(q) /\ Belongs(q, switches < MaxSwitches) /\ OnWord(page, q)

\* A record settles its pointer, whatever it names.
LEMMA PointerStateGood ==
  ASSUME PInv, NEW a \in Artifact, PointerState(a)
  PROVE  Good(page')
<1>1. PICK v \in DOMAIN stands[a] :
        page' = Deliver(Landed(page, a), a, Slot("settled", stands[a][v], "record"))
  BY DEF PointerState
<1>2. stands[a][v] \in Generation
  <2>1. stands[a] \in Seq(Generation)
    BY DEF PInv, PointersNameSome
  <2> QED BY <2>1, ElementOfSeq, LenProperties
<1>3. PICK s : s = Slot("settled", stands[a][v], "record")
  OBVIOUS
<1>4. s \in Settling /\ s.source = "record"
  BY <1>2, <1>3, SettlingSlots
<1>5. PICK p : p = Landed(page, a)
  OBVIOUS
<1>6. PICK q : q = Deliver(p, a, s)
  OBVIOUS
<1>7. /\ Whole(p) /\ Belongs(p, switches < MaxSwitches) /\ p.slots = page.slots
      /\ p.flying = page.flying \ {a}
  BY <1>5, LandedIs DEF PInv
<1>8. /\ Whole(q) /\ Belongs(q, switches < MaxSwitches)
      /\ \A b \in Artifact : SameWord(p, q, b) \/ q.slots[b] = s
  BY <1>4, <1>6, <1>7, DeliverIs
<1>9. OnWord(page, q)
  BY <1>4, <1>7, <1>8 DEF OnWord, SameWord
<1> QED BY <1>1, <1>3, <1>5, <1>6, <1>8, <1>9 DEF Good

\* So does an answer that names nothing.
LEMMA PointerOddGood ==
  ASSUME PInv, NEW a \in Artifact, NEW says \in {"withdrawn", "unconfirmed"},
         PointerOdd(a, says)
  PROVE  Good(page')
<1>1. PICK s : s = Unnamed(says)
  OBVIOUS
<1>0. s \in Settling
  BY <1>1, SettlingSlots DEF Sources
<1>2. s.source # "never published"
  BY <1>1, SettlingSlots DEF Sources
<1>3. PICK p : p = Landed(page, a)
  OBVIOUS
<1>4. PICK q : q = Deliver(p, a, s)
  OBVIOUS
<1>5. /\ Whole(p) /\ Belongs(p, switches < MaxSwitches) /\ p.slots = page.slots
  BY <1>3, LandedIs DEF PInv
<1>6. /\ Whole(q) /\ Belongs(q, switches < MaxSwitches)
      /\ \A b \in Artifact : SameWord(p, q, b) \/ q.slots[b] = s
  BY <1>0, <1>4, <1>5, DeliverIs
<1>7. OnWord(page, q)
  BY <1>2, <1>5, <1>6 DEF OnWord, SameWord
<1> QED BY <1>1, <1>3, <1>4, <1>6, <1>7 DEF Good, PointerOdd

\* A failure that names no contract is put down to a pointer in flight.
LEMMA PointerFailsGood ==
  ASSUME PInv, NEW a \in Artifact, NEW named \in BOOLEAN, NEW missing \in BOOLEAN,
         PointerFails(a, named, missing)
  PROVE  Good(page')
<1>1. PICK p : p = Landed(page, a)
  OBVIOUS
<1>2. /\ Whole(p) /\ Belongs(p, switches < MaxSwitches) /\ p.slots = page.slots
      /\ p.flying = page.flying \ {a} /\ a \in page.flying
  BY <1>1, LandedIs DEF PInv, PointerFails
<1>3. CASE named /\ a \notin InFlight(page)
  <2>1. OnWord(page, p)
    BY <1>2 DEF OnWord, SameWord
  <2> QED BY <1>1, <1>2, <1>3, <2>1 DEF PointerFails, Good
<1>4. CASE ~(named /\ a \notin InFlight(page))
  <2>1. PICK q : q = AboutPointer(p, missing)
    OBVIOUS
  <2>2. /\ Whole(q) /\ Belongs(q, switches < MaxSwitches)
        /\ \A b \in Artifact : SameWord(p, q, b) \/ (b \in q.flying => b \in p.flying)
    BY <1>2, <2>1, AboutPointerIs
  <2>3. \A b \in Artifact :
          \/ SameWord(page, q, b)
          \/ b \in page.flying /\ b \notin q.flying
          \/ page.flying # {b}
    BY <1>2, <2>2 DEF SameWord
  <2>4. OnWord(page, q)
    BY <2>3 DEF OnWord
  <2> QED BY <1>1, <1>4, <2>1, <2>2, <2>4 DEF PointerFails, Good
<1> QED BY <1>3, <1>4

\* So is that of another contract.
LEMMA ContractFailsGood ==
  ASSUME PInv, NEW missing \in BOOLEAN, ContractFails(missing)
  PROVE  Good(page')
<1>1. PICK q : q = AboutPointer(page, missing)
  OBVIOUS
<1>2. Whole(q) /\ Belongs(q, switches < MaxSwitches)
  BY <1>1, AboutPointerIs DEF PInv
<1>3. OnWord(page, q)
  BY DEF OnWord, ContractFails
<1> QED BY <1>1, <1>2, <1>3 DEF Good, ContractFails

\* A page that does not hear an answer believes what it believed.
LEMMA PointerMissingGood ==
  ASSUME PInv, NEW a \in Artifact, PointerMissing(a)
  PROVE  Good(page')
<1>1. PICK p : p = Landed(page, a)
  OBVIOUS
<1>2. Whole(p) /\ Belongs(p, switches < MaxSwitches) /\ p.slots = page.slots
  BY <1>1, LandedIs DEF PInv
<1>3. OnWord(page, p)
  BY <1>2 DEF OnWord, SameWord
<1> QED BY <1>1, <1>2, <1>3 DEF Good, PointerMissing

\* Silence is no word.
LEMMA TimeOutGood ==
  ASSUME PInv, NEW a \in Artifact, TimeOut(a)
  PROVE  Good(page')
<1>1. PICK s : s = Unnamed("unconfirmed")
  OBVIOUS
<1>0. s \in Settling
  BY <1>1, SettlingSlots DEF Sources
<1>2. s.source # "never published"
  BY <1>1, SettlingSlots DEF Sources
<1>3. PICK q : q = Deliver(page, a, s)
  OBVIOUS
<1>4. /\ Whole(q) /\ Belongs(q, switches < MaxSwitches)
      /\ \A b \in Artifact : SameWord(page, q, b) \/ q.slots[b] = s
  BY <1>0, <1>3, DeliverIs DEF PInv
<1>5. OnWord(page, q)
  BY <1>2, <1>4 DEF OnWord
<1> QED BY <1>1, <1>3, <1>4, <1>5 DEF Good, TimeOut, Watchdog

\* A contract is shown where it was asked for.
LEMMA ContractStateGood ==
  ASSUME PInv, NEW id, NEW height, ContractState(id, height)
  PROVE  Good(page')
<1>1. Whole(page) /\ Belongs(page, switches < MaxSwitches) /\ id \in page.asked
  BY DEF PInv, ContractState
<1>2. PICK w : w = Wanted(page, id)
  OBVIOUS
<1>3. \/ w = "tip" /\ id = TipAt(page.network, Reads(page, Tip))
      \/ w = "address" /\ id \in page.lookups
      \/ w = "nothing"
  BY <1>2 DEF Wanted
<1>4. CASE w = "tip" /\ height > 0
  <2>1. PICK q : q = [page EXCEPT !.tip = [of |-> id, height |-> height]]
    OBVIOUS
  <2>2. PICK r : r = [q EXCEPT !.views = {View(q, v.of) : v \in @}]
    OBVIOUS
  <2>3. /\ q.network = page.network /\ q.slots = page.slots /\ q.flying = page.flying
        /\ q.asked = page.asked /\ q.lookups = page.lookups /\ q.views = page.views
        /\ Whole(q) /\ q.tip = [of |-> id, height |-> height]
    BY <1>1, <2>1 DEF Whole
  <2>4. /\ r.network = page.network /\ r.slots = page.slots /\ r.flying = page.flying
        /\ r.asked = page.asked /\ r.lookups = page.lookups /\ Whole(r)
        /\ r.tip = [of |-> id, height |-> height]
        /\ r.views = {View(q, v.of) : v \in page.views}
    BY <2>2, <2>3 DEF Whole
  <2>5. page' = r
    BY <1>2, <1>4, <2>1, <2>2 DEF ContractState, ApplyTip
  <2>6. TipHeight(q) = TipHeight(r) /\ (Settled(r) <=> Settled(page))
    BY <2>3, <2>4 DEF TipHeight, Settled, Unsettled
  <2>7. \A v \in r.views : v.of \in r.lookups /\ v.at = TipHeight(r)
    BY <1>1, <2>4, <2>6 DEF View, Belongs
  <2>8. /\ NetworkOf(id) = page.network
        /\ Settled(page) => GenerationOf(id) = page.slots[Tip].names
    BY <1>3, <1>4 DEF TipAt, NetworkOf, GenerationOf, Reads
  <2>9. r.tip.of = id
    BY <2>4
  <2>10. Settled(page) \/ switches < MaxSwitches
    BY <1>1 DEF Belongs
  <2>11. Belongs(r, switches < MaxSwitches)
    BY <1>1, <2>4, <2>6, <2>7, <2>8, <2>9, <2>10 DEF Belongs
  <2>12. OnWord(page, r)
    BY <2>4 DEF OnWord, SameWord
  <2> QED BY <2>4, <2>5, <2>11, <2>12 DEF Good
<1>5. CASE w = "address"
  <2>1. PICK r : r = [page EXCEPT !.views = {v \in @ : v.of # id} \cup {View(page, id)}]
    OBVIOUS
  <2>2. /\ r.network = page.network /\ r.slots = page.slots /\ r.flying = page.flying
        /\ r.asked = page.asked /\ r.lookups = page.lookups /\ Whole(r)
        /\ r.tip = page.tip
        /\ r.views = {v \in page.views : v.of # id} \cup {View(page, id)}
    BY <1>1, <2>1 DEF Whole
  <2>3. page' = r
    BY <1>2, <1>5, <2>1 DEF ContractState, ApplyAddress
  <2>4. TipHeight(page) = TipHeight(r) /\ (Settled(r) <=> Settled(page))
    BY <2>2 DEF TipHeight, Settled, Unsettled
  <2>5. \A v \in r.views : v.of \in r.lookups /\ v.at = TipHeight(r)
    BY <1>1, <1>3, <1>5, <2>2, <2>4 DEF View, Belongs
  <2>6. Belongs(r, switches < MaxSwitches)
    BY <1>1, <2>2, <2>4, <2>5 DEF Belongs
  <2>7. OnWord(page, r)
    BY <2>2 DEF OnWord, SameWord
  <2> QED BY <2>2, <2>3, <2>6, <2>7 DEF Good
<1>6. CASE ~(w = "tip" /\ height > 0) /\ w # "address"
  <2>1. page' = page
    BY <1>2, <1>6 DEF ContractState
  <2>2. OnWord(page, page)
    BY DEF OnWord, SameWord
  <2> QED BY <1>1, <2>1, <2>2 DEF Good
<1> QED BY <1>4, <1>5, <1>6

\* Patience is about the tip and no pointer.
LEMMA PatienceEndsGood ==
  ASSUME PInv, PatienceEnds
  PROVE  Good(page')
<1>1. PICK q : q = [page EXCEPT !.patience = @ - 1, !.silent = @ \/ page.tip = None]
  OBVIOUS
<1>2. Whole(page) /\ Belongs(page, switches < MaxSwitches)
  BY DEF PInv
<1>3. /\ q.network = page.network /\ q.slots = page.slots /\ q.flying = page.flying
      /\ q.asked = page.asked /\ q.lookups = page.lookups /\ Whole(q)
      /\ q.tip = page.tip /\ q.views = page.views
  BY <1>1, <1>2 DEF Whole
<1>4. Belongs(q, switches < MaxSwitches)
  BY <1>2, <1>3 DEF Belongs, TipHeight, Settled, Unsettled
<1>5. OnWord(page, q)
  BY <1>3 DEF OnWord, SameWord
<1> QED BY <1>1, <1>3, <1>4, <1>5 DEF Good, PatienceEnds

\* A lookup waits until the generations are settled.
LEMMA LookUpGood ==
  ASSUME PInv, NEW x, LookUp(x)
  PROVE  Good(page')
<1>1. Whole(page) /\ Belongs(page, switches < MaxSwitches)
  BY DEF PInv
<1>2. CASE Settled(page)
  <2>1. PICK q : q = Issued(page, {x})
    OBVIOUS
  <2>2. /\ Whole(q) /\ SameButAsked(page, q) /\ page.lookups \subseteq q.lookups
        /\ \A id \in q.lookups :
             id \in page.lookups
               \/ \E y \in {x} : id = AddressAt(page.network, Reads(page, Address), y)
    BY <1>1, <2>1, IssuedIs
  <2>3. Belongs(q, switches < MaxSwitches)
    BY <1>1, <1>2, <2>2, MoreLookups
  <2>4. OnWord(page, q)
    BY <2>2 DEF OnWord, SameWord, SameButAsked
  <2> QED BY <1>2, <2>1, <2>2, <2>3, <2>4 DEF Good, LookUp
<1>3. CASE ~Settled(page)
  <2>1. PICK q : q = [page EXCEPT !.queued = @ \cup {x}]
    OBVIOUS
  <2>2. /\ q.network = page.network /\ q.slots = page.slots /\ q.flying = page.flying
        /\ q.asked = page.asked /\ q.lookups = page.lookups /\ Whole(q)
        /\ q.tip = page.tip /\ q.views = page.views
    BY <1>1, <2>1 DEF Whole
  <2>3. Belongs(q, switches < MaxSwitches)
    BY <1>1, <2>2 DEF Belongs, TipHeight, Settled, Unsettled
  <2>4. OnWord(page, q)
    BY <2>2 DEF OnWord, SameWord
  <2> QED BY <1>3, <2>1, <2>2, <2>3, <2>4 DEF Good, LookUp
<1> QED BY <1>2, <1>3

\* A page that has come to a network shows nothing and believes nothing.
LEMMA FreshIs ==
  ASSUME NEW p, NEW n, NEW flying, NEW patience, NEW asked,
         p = Fresh(n, flying, patience, asked)
  PROVE  /\ Whole(p) /\ p.asked = asked /\ p.tip = None
         /\ p.lookups = {} /\ p.views = {}
         /\ \A a \in Artifact : p.slots[a].source = "none"
<1>1. Slot("unasked", Embedded, "none") \in Slots
  BY Constants DEF Slot, Slots, Phases, Sources
<1>2. Slot("unasked", Embedded, "none").source = "none"
  BY DEF Slot
<1>3. /\ p.slots = [a \in Artifact |-> Slot("unasked", Embedded, "none")]
      /\ p.asked = asked /\ p.tip = None /\ p.lookups = {} /\ p.views = {}
  BY DEF Fresh
<1>4. p.slots \in [Artifact -> Slots] /\ \A a \in Artifact : p.slots[a].source = "none"
  BY <1>1, <1>2, <1>3
<1>5. Whole(p)
  BY <1>4 DEF Fresh, Whole
<1> QED BY <1>3, <1>4, <1>5

\* A page that begins to ask goes on believing nothing.
LEMMA BeginsToAsk ==
  ASSUME NEW p, NEW later, Whole(p), Belongs(p, later),
         \A a \in Artifact : p.slots[a].source = "none"
  PROVE  /\ Whole(Advance(p)) /\ Belongs(Advance(p), later)
         /\ \A q : OnWord(q, Advance(p))
<1>1. \A a \in Artifact : Advance(p).slots[a].source = "none"
  BY AdvanceSays DEF SameWord
<1>2. ASSUME NEW q PROVE OnWord(q, Advance(p))
  BY <1>1 DEF OnWord, SameWord
<1> QED BY <1>2, AdvanceBelongs

\* A change of network starts afresh.
LEMMA SwitchNetworkIs ==
  ASSUME PInv, NEW n \in Network, SwitchNetwork(n)
  PROVE  /\ Whole(page') /\ Belongs(page', TRUE) /\ OnWord(page, page')
         /\ switches' \in Nat /\ switches' < MaxSwitches
<1>1. PICK p : p = Switched(page, n)
  OBVIOUS
<1>2. Whole(p) /\ Belongs(p, TRUE) /\ \A a \in Artifact : p.slots[a].source = "none"
  <2>1. p = Fresh(n, page.flying, page.patience, page.asked)
    BY <1>1 DEF Switched
  <2>2. /\ Whole(p) /\ p.tip = None /\ p.lookups = {} /\ p.views = {}
        /\ \A a \in Artifact : p.slots[a].source = "none"
    BY <2>1, FreshIs
  <2>3. Belongs(p, TRUE)
    BY <2>2 DEF Belongs
  <2> QED BY <2>2, <2>3
<1>3. page' = Advance(p)
  BY <1>1 DEF SwitchNetwork
<1>4. switches' \in Nat /\ switches' < MaxSwitches
  BY PageAssumption DEF SwitchNetwork, PInv
<1> QED BY <1>2, <1>3, <1>4, BeginsToAsk

\* Every step of a visit.
LEMMA VisitGood ==
  ASSUME PInv, Visit
  PROVE  /\ OnWord(page, page') /\ UNCHANGED pointerVars
         /\ Whole(page') /\ switches' \in Nat /\ switches' <= MaxSwitches
         /\ Belongs(page', switches' < MaxSwitches)
<1>1. CASE Good(page') /\ UNCHANGED <<pointerVars, switches>>
  BY <1>1 DEF Good, PInv
<1>2. ASSUME NEW n \in Network, SwitchNetwork(n)
      PROVE  /\ OnWord(page, page') /\ UNCHANGED pointerVars
             /\ Whole(page') /\ switches' \in Nat /\ switches' <= MaxSwitches
             /\ Belongs(page', switches' < MaxSwitches)
  <2>1. UNCHANGED pointerVars
    BY <1>2 DEF SwitchNetwork, Visiting
  <2>2. /\ Whole(page') /\ Belongs(page', TRUE) /\ OnWord(page, page')
        /\ switches' \in Nat /\ switches' < MaxSwitches
    BY <1>2, SwitchNetworkIs
  <2>3. switches' <= MaxSwitches /\ (switches' < MaxSwitches) = TRUE
    BY <2>2, PageAssumption
  <2> QED BY <2>1, <2>2, <2>3
<1>3. ASSUME NEW a \in Artifact, \/ PointerState(a) \/ PointerMissing(a) \/ TimeOut(a)
      PROVE  Good(page') /\ UNCHANGED <<pointerVars, switches>>
  <2>1. Good(page')
    BY <1>3, PointerStateGood, PointerMissingGood, TimeOutGood
  <2>2. UNCHANGED <<pointerVars, switches>>
    BY <1>3 DEF PointerState, PointerMissing, TimeOut, Visiting
  <2> QED BY <2>1, <2>2
<1>4. ASSUME NEW a \in Artifact, NEW says \in {"withdrawn", "unconfirmed"},
             PointerOdd(a, says)
      PROVE  Good(page') /\ UNCHANGED <<pointerVars, switches>>
  BY <1>4, PointerOddGood DEF PointerOdd, Visiting
<1>5. ASSUME NEW a \in Artifact, NEW named \in BOOLEAN, NEW missing \in BOOLEAN,
             PointerFails(a, named, missing)
      PROVE  Good(page') /\ UNCHANGED <<pointerVars, switches>>
  BY <1>5, PointerFailsGood DEF PointerFails, Visiting
<1>6. ASSUME NEW missing \in BOOLEAN, ContractFails(missing)
      PROVE  Good(page') /\ UNCHANGED <<pointerVars, switches>>
  BY <1>6, ContractFailsGood DEF ContractFails, Visiting
<1>7. ASSUME NEW id, NEW height, ContractState(id, height)
      PROVE  Good(page') /\ UNCHANGED <<pointerVars, switches>>
  BY <1>7, ContractStateGood DEF ContractState, Visiting
<1>8. ASSUME PatienceEnds
      PROVE  Good(page') /\ UNCHANGED <<pointerVars, switches>>
  BY <1>8, PatienceEndsGood DEF PatienceEnds, Visiting
<1>9. ASSUME NEW x, LookUp(x)
      PROVE  Good(page') /\ UNCHANGED <<pointerVars, switches>>
  <2>1. Good(page')
    BY <1>9, LookUpGood
  <2>2. UNCHANGED <<pointerVars, switches>>
    BY <1>9 DEF LookUp, Visiting
  <2> QED BY <2>1, <2>2
<1> QED BY <1>1, <1>2, <1>3, <1>4, <1>5, <1>6, <1>7, <1>8, <1>9 DEF Visit

\* Pointers go on naming generations.
LEMMA PointersStep ==
  ASSUME PointersNameSome, [PointersNext]_pointerVars
  PROVE  PointersNameSome'
<1>1. ASSUME NEW a \in Artifact, NEW reads \in BOOLEAN, NEW reaches \in BOOLEAN,
             NEW founds \in BOOLEAN, NEW saves \in BOOLEAN,
             PublishOne(a, reads, reaches, founds, saves)
      PROVE  PointersNameSome'
  <2>1. \/ stands' = [stands EXCEPT ![a] = Append(@, build)]
        \/ stands' = stands
    BY <1>1 DEF PublishOne
  <2>2. stands[a] \in Seq(Generation) /\ build \in Generation
    BY DEF PointersNameSome
  <2>3. Append(stands[a], build) \in Seq(Generation)
    BY <2>2, AppendProperties
  <2>4. stands' \in [Artifact -> Seq(Generation)]
    BY <2>1, <2>3 DEF PointersNameSome
  <2>5. build' = build
    BY <1>1 DEF PublishOne
  <2> QED BY <2>2, <2>4, <2>5 DEF PointersNameSome, Generation
<1>2. CASE Rebuild
  BY <1>2, Constants DEF Rebuild, PointersNameSome, Generation
<1>3. CASE LoseDatabase
  BY <1>3 DEF LoseDatabase, PointersNameSome, Generation
<1>4. CASE UNCHANGED pointerVars
  BY <1>4 DEF pointerVars, PointersNameSome, Generation
<1> QED BY <1>1, <1>2, <1>3, <1>4 DEF PointersNext

\* Every step keeps what belongs, and takes the node at its word.
LEMMA NextKeeps ==
  ASSUME PInv, [Next]_vars
  PROVE  PInv' /\ OnWord(page, page')
<1>1. ASSUME UNCHANGED <<page, switches>>, [PointersNext]_pointerVars
      PROVE  PInv' /\ OnWord(page, page')
  <2>1. PointersNameSome'
    BY <1>1, PointersStep DEF PInv
  <2>2. OnWord(page, page')
    BY <1>1 DEF OnWord, SameWord
  <2> QED BY <1>1, <2>1, <2>2 DEF PInv
<1>2. CASE Open
  <2>1. Whole(page) /\ Belongs(page, switches < MaxSwitches) /\ page' = Advance(page)
    BY <1>2 DEF Open, PInv
  <2>2. Whole(page') /\ Belongs(page', switches < MaxSwitches)
    BY <2>1, AdvanceBelongs
  <2>3. \A a \in Artifact : SameWord(page, page', a)
    BY <2>1, AdvanceSays
  <2>4. UNCHANGED pointerVars /\ UNCHANGED switches
    BY <1>2 DEF Open
  <2>5. PointersNameSome'
    BY <2>4, PointersStep DEF PInv
  <2> QED BY <2>2, <2>3, <2>4, <2>5 DEF PInv, OnWord
<1>3. CASE Visit
  <2>1. PointersNameSome'
    BY <1>3, VisitGood, PointersStep DEF PInv
  <2> QED BY <1>3, <2>1, VisitGood DEF PInv
<1>4. CASE Away /\ PointersNext
  BY <1>1, <1>4 DEF Away
<1>5. CASE UNCHANGED vars
  BY <1>1, <1>5 DEF vars
<1> QED BY <1>2, <1>3, <1>4, <1>5 DEF Next

\* Nothing is shown at first.
LEMMA InitKeeps == Init => PInv
<1> SUFFICES ASSUME Init PROVE PInv
  OBVIOUS
<1>1. build \in Generation
  BY Constants DEF Init, PointersInit, Generation
<1>2. stands \in [Artifact -> Seq(Generation)]
  BY EmptySeq DEF Init, PointersInit
<1>3. switches \in Nat /\ switches <= MaxSwitches
  BY PageAssumption DEF Init
<1>4. Whole(page) /\ Belongs(page, switches < MaxSwitches)
  <2>1. PICK patience : patience = 0
    OBVIOUS
  <2>2. page = Fresh(Home, {}, patience, {})
    BY <2>1 DEF Init
  <2>3. /\ Whole(page) /\ page.asked = {} /\ page.tip = None
        /\ page.lookups = {} /\ page.views = {}
    BY <2>2, FreshIs
  <2> QED BY <2>3 DEF Belongs
<1> QED BY <1>1, <1>2, <1>3, <1>4 DEF PInv, PointersNameSome

\* It holds in every run.
LEMMA Invariant == Spec => []PInv
BY InitKeeps, NextKeeps, PTL DEF Spec

\* What is shown is of the network the visitor is on and of the generations in
\* force, and measured against the tip on display (on_contract_state,
\* switch_network, recompute_addresses).
THEOREM WhatIsShownBelongs == Spec => []ShownBelongs
<1>1. PInv => ShownBelongs
  BY DEF PInv, Belongs, ShownBelongs
<1> QED BY <1>1, Invariant, PTL

\* A pointer is taken for one never published only when the node has answered
\* for it, or an error may be another request's (handle_failure, watchdogs).
THEOREM SilenceIsNotAbsence == Spec => AbsenceIsAnswered
<1>1. ASSUME PInv, [Next]_vars
      PROVE  [\A a \in Artifact :
                /\ page'.slots[a].source = "never published"
                /\ page.slots[a].source # "never published"
                => \/ a \in page.flying /\ a \notin page'.flying
                   \/ page.flying # {a} \/ page.asked # {}]_vars
  <2>1. OnWord(page, page')
    BY <1>1, NextKeeps
  <2> QED BY <2>1 DEF OnWord, SameWord
<1> QED BY <1>1, Invariant, PTL DEF Spec, AbsenceIsAnswered
=============================================================================
