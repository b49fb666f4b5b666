----------------------------- MODULE MCAdmission -----------------------------
(***************************************************************************)
(* Two members a and b, a name u nobody registers, and an expression of    *)
(* each shape: conjunction, disjunction, negation, a member called twice,  *)
(* an unknown name that true answers skip.                                 *)
(***************************************************************************)
EXTENDS Admission

CONSTANTS a, b, u

MCExpressions ==
  { <<Node(a, 2, Deny), Node(b, Allow, Deny)>>,                     \* a() && b()
    <<Node(a, Allow, 2), Node(b, Allow, Deny)>>,                    \* a() || b()
    <<Node(a, Allow, 2), Node(b, Deny, Allow)>>,                    \* a() || !b()
    <<Node(a, 2, Deny), Node(b, 3, Deny), Node(a, Allow, Deny)>>,   \* a() && b() && a()
    <<Node(a, 2, Deny), Node(u, Allow, Deny)>>,                     \* a() && u()
    <<Node(a, Allow, 2), Node(u, Allow, Deny)>> }                   \* a() || u()
=============================================================================
