------------------------------- MODULE MCGate -------------------------------
(***************************************************************************)
(* Gates over three rules, up to three levels deep, with a rule named      *)
(* twice among them.  A branch and its parent are of different kinds.      *)
(***************************************************************************)
EXTENDS Gate

CONSTANTS soulbound, pinned, constant

Kinds == {<<"all", "any">>, <<"any", "all">>}

const_Gates ==
  {<<Leaf(soulbound)>>}
  \cup {<<Leaf(soulbound), Leaf(pinned), Branch(k[1], <<1, 2>>), Leaf(constant), Branch(k[2], order)>> :
          k \in Kinds, order \in {<<3, 4>>, <<4, 3>>}}
  \* one rule beside a branch that names it
  \cup {<<Leaf(soulbound), Leaf(pinned), Branch(k[1], <<1, 2>>), Leaf(constant), Leaf(soulbound),
          Branch(k[2], <<3, 4, 5>>)>> : k \in Kinds}
  \cup {<<Leaf(soulbound), Leaf(pinned), Branch(k[1], <<1, 2>>), Leaf(constant), Branch(k[2], <<3, 4>>),
          Leaf(pinned), Branch(k[1], <<5, 6>>)>> : k \in Kinds}
  \* any two of the three
  \cup {<<Leaf(soulbound), Leaf(pinned), Branch("all", <<1, 2>>),
          Leaf(pinned), Leaf(constant), Branch("all", <<4, 5>>),
          Leaf(soulbound), Leaf(constant), Branch("all", <<7, 8>>), Branch("any", <<3, 6, 9>>)>>,
        <<Leaf(soulbound), Leaf(pinned), Branch("any", <<1, 2>>),
          Leaf(soulbound), Leaf(constant), Branch("any", <<4, 5>>), Branch("all", <<3, 6>>)>>}
=============================================================================
