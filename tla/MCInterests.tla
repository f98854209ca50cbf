----------------------------- MODULE MCInterests -----------------------------
(* A small instance of Interests.                                           *)
EXTENDS Interests

CONSTANTS alice, s1, s2, k1

Ask(s, watch, at) ==
  [key |-> alice, script |-> s, watch |-> watch, made_at |-> at, until |-> None,
   serial |-> None, signer |-> k1, expires |-> None, revoke |-> None,
   observed |-> TRUE, sent |-> at]

\* alice watches through a height, stops, and watches again, read in any order.
First == [Ask(s1, TRUE, 0) EXCEPT !.until = 0, !.revoke = 0]
Stop  == Ask(s1, FALSE, 1)
Again == [Ask(s1, TRUE, 2) EXCEPT !.made_at = 3]

\* Her first request revokes the key that meanwhile asks in her name, dated
\* ahead, for the other script, which was watched before.
Stolen == [Ask(s2, TRUE, 0) EXCEPT !.made_at = 3, !.serial = 0]

Requests == {First, Stop, Again, Stolen}

NoneOrZero == {None, 0}
=============================================================================
