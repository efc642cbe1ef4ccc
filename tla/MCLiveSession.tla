---------------------------- MODULE MCLiveSession ----------------------------
(***************************************************************************)
(* LiveSession on two points; the second depends on the first and offers   *)
(* two proposals.                                                          *)
(***************************************************************************)
EXTENDS LiveSession, TLC

CONSTANTS p, q, x, y, u, v

MCPoints == {p, q}
MCRequires == (p :> {}) @@ (q :> {p})
MCOffered == (p :> <<x>>) @@ (q :> <<x, y>>)
MCOwn == {u, v}
MCOthers == {"reject"}

=============================================================================
