-------------------------- MODULE MCProfileRotation --------------------------
(* Instances of ProfileRotation, and of RotationPage, for TLC. *)
EXTENDS RotationPage, TLC

\* All lists that name no profile twice, and some that name one twice.
RotationLists ==
    {list \in SeqOf(Profile, 3) : IsInjective(list)} \cup {<<p, p, Default>> : p \in Profile}

\* Every profile but "Default", which the code names, can stand for any other.
OtherProfiles == Permutations(Profile \ {Default})
=============================================================================
