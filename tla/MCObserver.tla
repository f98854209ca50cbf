----------------------------- MODULE MCObserver -----------------------------
(***************************************************************************)
(* Small instances of Observer: one bridge, one or two scripts and the     *)
(* payments to them.                                                       *)
(***************************************************************************)
EXTENDS Observer

CONSTANTS o1, o2, s1, s2

PayBoth(o) == s1
PayEach(o) == IF o = o1 THEN s1 ELSE s2
=============================================================================
