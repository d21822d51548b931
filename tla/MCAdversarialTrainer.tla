------------------------- MODULE MCAdversarialTrainer -------------------------
(* The generators and the lists of attacks TLC examines. *)
EXTENDS AdversarialTrainer

Own == [own |-> TRUE, targeted |-> FALSE]
Transferred == [own |-> FALSE, targeted |-> FALSE]
Targeted == [own |-> TRUE, targeted |-> TRUE]

MCAttacks == {<<Own, Transferred>>, <<Transferred, Own>>, <<Own, Own, Own>>, <<Transferred, Targeted>>}

MCGenerators ==
    {g \in GeneratorType :
        /\ g.source # "numpy" => ~g.drop
        /\ g.source # "loader" => ~g.shuffle}
=============================================================================
