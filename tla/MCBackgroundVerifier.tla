------------------------ MODULE MCBackgroundVerifier ------------------------
(***************************************************************************)
(* A named bundle whose name may not resolve, one that claims the name     *)
(* under another key, and a nameless one whose wallet may or may not hold  *)
(* the asset yet.                                                          *)
(***************************************************************************)
EXTENDS BackgroundVerifier

CONSTANTS named, late, forged, name

const_claims == [b \in Bundle |-> IF b = late THEN {} ELSE {name}]
const_gateAnswers ==
  [b \in Bundle |-> CASE b = named -> {"pass", "reject"}
                      [] b = late -> {"notYet", "pass"}
                      [] b = forged -> {"pass"}]
const_nameAnswers == [n \in Name |-> {"key", "missing"}]
=============================================================================
