---------------------------- MODULE MCAiReviews ----------------------------
(* A team of two with one allowance, and somebody with an allowance of their own. *)
EXTENDS AiReviews

Asker == <<"ann", "bob", "cy">>
Board == <<1, 2, 2>>
Allowances == [team |-> 1, cy |-> 1]
=============================================================================
