---------------------------- MODULE MCAdmission ----------------------------
(***************************************************************************)
(* One wallet votes for x (voteX) and changes to y with a named community  *)
(* (voteY); a second wallet's bundles fail the gate (refused) or carry too *)
(* many votes (overCap).  The runs choose among these bundles and among    *)
(* the ways they can arrive.                                               *)
(***************************************************************************)
EXTENDS Admission, TLC

CONSTANTS voteX, voteY, refused, overCap, w1, w2, x, y

const_Wallet == {w1, w2}
const_address == [b \in Bundle |-> IF b \in {refused, overCap} THEN w2 ELSE w1]
const_blockNumber ==
  [b \in Bundle |-> IF b = voteX THEN 0 ELSE 2]
const_cidRank ==
  [b \in Bundle |-> IF b = voteX THEN 1 ELSE IF b = voteY THEN 2 ELSE IF b = refused THEN 3
                   ELSE 4]
const_choice == [b \in Bundle |-> IF b = voteY THEN y ELSE x]
const_carriesName == {voteY} \cap Bundle
const_gateAnswers ==
  [b \in Bundle |-> IF b = refused THEN {"reject"}
                    ELSE IF b = voteY THEN {"pass", "notYet"} ELSE {"pass"}]
const_nameAnswers == [b \in Bundle |-> {"ok", "bad"}]
=============================================================================
