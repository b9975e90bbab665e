-------------------------- MODULE MCExpertPlacement --------------------------
(***************************************************************************)
(* A TLC instance of ExpertPlacement: three ranks of three experts, and a  *)
(* dense layer between two with experts.                                   *)
(***************************************************************************)
EXTENDS ExpertPlacement

FromSeq(s)   == [e \in Slots |-> s[e + 1]]
\* The same loads, the experts numbered from another one on.
Turned(s, k) == [e \in Slots |-> s[((e + k) % Len(s)) + 1]]

\* Contiguous ownership gives each rank 9, the greedy plan gives one of them 11.
Worst  == <<5, 4, 0,  5, 4, 0,  3, 3, 3>>
\* 25 where 22 is possible, and 13 where 12 is.
Uneasy == <<13, 12, 10, 9, 8, 7, 6, 1, 0>>
Even   == <<8, 7, 6, 5, 4, 3, 2, 1, 0>>
\* One expert outweighs the others, so that its rank is filled last, with the lightest.
Hot    == <<2, 7, 1, 5, 90, 3, 6, 0, 4>>
Pairs  == <<6, 1, 4, 3, 6, 0, 1, 4, 2>>
Skewed == <<9, 8, 1, 2, 3, 4, 5, 6, 7>>   \* the first rank owns both hot experts

Measured ==
    {Turned(s, k) : s \in {Uneasy, Even, Hot}, k \in 0 .. 8}
        \cup {Turned(s, k) : s \in {Worst, Pairs}, k \in 0 .. 2} \cup {FromSeq(Skewed)}
MCLoadsOf == [l \in Layers |-> IF l = 0 THEN Measured ELSE {FromSeq(Skewed)}]

Doubled     == [Identity EXCEPT ![8] = 0]
OtherModel  == [slot \in 0 .. 11 |-> slot]
Swapped     == [Identity EXCEPT ![0] = 1, ![1] = 0]
Reversed    == [slot \in Slots |-> 8 - slot]
Shuffled    == FromSeq(<<0, 1, 3,  2, 4, 6,  5, 7, 8>>)

\* A later layer that is no permutation, behind one that moves experts; one that is
\* missing; a file of a larger model; permutations that do not ascend within a rank; and
\* a file that moves nothing.
MCForeign ==
    {<<Shuffled, Identity, Doubled>>, <<Identity>>, <<OtherModel, OtherModel, OtherModel>>,
     <<Swapped, Identity, Reversed>>, <<Identity, Identity, Identity>>}

Everywhere(setting) == [r \in Ranks |-> setting]
MCConfigs ==
    {Everywhere("apply"), Everywhere("none"), Everywhere("mismatch"),
     [Everywhere("apply") EXCEPT ![1] = "none"],
     [Everywhere("apply") EXCEPT ![2] = "mismatch"]}
=============================================================================
