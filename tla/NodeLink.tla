------------------------------ MODULE NodeLink ------------------------------
(***************************************************************************)
(* The bridge's one connection to its Freenet node (bridge/src/freenet.rs, *)
(* Link) and what it makes of a reply.  A reply carries no request id: it  *)
(* is taken for the answer to the oldest request not answered, so what is  *)
(* left over on a connection answers the next request.  A request that is  *)
(* not answered, and a reply that does not fit, cost the connection.       *)
(*                                                                         *)
(* Abstracted: how long the waits between dials are (they double, to a     *)
(* cap): a wait is on or it is over.                                       *)
(***************************************************************************)
EXTENDS Sequences, Integers

\* The contracts a reply may name: the current one, what else the bridge
\* writes to, and 1, 2.. for the predecessors.  An error names Nobody.
Nobody == -2
Other  == -1
Now    == 0

Reply(says, about) == [says |-> says, about |-> about]

\* What may come of a request besides a reply.
DialFails == Reply("dial fails", Nobody)   \* the connection cannot be opened
Unsent    == Reply("unsent", Nobody)       \* it cannot be handed over
Silence   == Reply("silence", Nobody)      \* no reply in time
NoReply   == Reply("none", Nobody)         \* the caller gets no reply

OldMissing == Reply("error missing", Nobody)   \* an older node's NotFound
Errors == {OldMissing,
           Reply("error", Nobody),        \* about the request
           Reply("error node", Nobody)}   \* not joined, no peers, stopping

\* open: whether a connection is kept.  waiting: none is dialled yet, after a
\* failure.  queue: the replies on it that nobody has read.
Closed  == [open |-> FALSE, waiting |-> FALSE, queue |-> <<>>]
Backoff == [open |-> FALSE, waiting |-> TRUE, queue |-> <<>>]

Usable(link) == link.open \/ ~link.waiting

Discard(link) == [link EXCEPT !.open = FALSE, !.queue = <<>>]

\* The link after a request and the reply its caller is given, when the node
\* does what answer says.
Request(link, answer) ==
  LET replies == Append(link.queue, answer)
      reply   == Head(replies)
  IN  IF ~Usable(link)              THEN [link |-> link, reply |-> NoReply]
      ELSE IF answer = DialFails    THEN [link |-> Backoff, reply |-> NoReply]
      ELSE IF answer = Unsent \/ reply = Silence
                                    THEN [link |-> Closed, reply |-> NoReply]
      ELSE IF reply.says = "error node"
                                    THEN [link |-> Backoff, reply |-> NoReply]
      ELSE IF reply \in Errors      THEN [link |-> Closed, reply |-> reply]
      ELSE [link  |-> [open |-> TRUE, waiting |-> FALSE,
                       queue |-> Tail(IF answer = Silence THEN link.queue ELSE replies)],
            reply |-> reply]

\* Which answers can come: a connection kept is not dialled again.
Possible(link, answer) ==
  /\ answer = DialFails => ~link.open
  /\ ~Usable(link) => answer = NoReply
  /\ Usable(link) => answer # NoReply

Bug_UpdateSays(c, reply) == IF reply.says = "updated" THEN "updated" ELSE "unmatched"

UpdateSays(c, reply) ==
  IF reply.about # c THEN "unmatched"
  ELSE IF reply.says \in {"updated", "missing"} THEN reply.says ELSE "unmatched"

PutAnswered(c, reply) == reply = Reply("put", c)

GetSays(c, reply) ==
  IF reply = OldMissing THEN "missing"
  ELSE IF reply.about = c /\ reply.says \in {"state", "missing"} THEN reply.says
  ELSE "unmatched"

\* A reply that is no answer costs the connection.
AfterReply(link, said) == IF said = "unmatched" THEN Discard(link) ELSE link
=============================================================================
