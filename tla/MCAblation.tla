---------------------------- MODULE MCAblation ----------------------------
EXTENDS Ablation

Torch(algorithm, mode, type, op, kth, height, width, k, m, answers) ==
    [lib |-> "pytorch", algorithm |-> algorithm, mode |-> mode, type |-> type, op |-> op,
     kth |-> kth, logits |-> FALSE, height |-> height, width |-> width, k |-> k, m |-> m,
     answers |-> answers]

Tensor(type, height, width, k, m, answers) ==
    [lib |-> "tensorflow", algorithm |-> "levine2020", mode |-> "CNN", type |-> type,
     op |-> "eval", kth |-> "lowest", logits |-> TRUE, height |-> height, width |-> width,
     k |-> k, m |-> m, answers |-> answers]

One == {{0}, {1}, {2}}
Many == {{}, {0}, {2}, {0, 1}, {1, 2}}
Two == {{0}, {1}}
TwoOrNone == {{}, {1}, {0, 1}}

(* Columns with and without wrap-around, square rows, blocks, all three modes of PyTorch. *)
MCSetups ==
    {Torch("salman2021", mode, "column", "eval", "any", 1, 5, 2, 1, One) : mode \in {"ViT", "CNN"}}
        \cup {Torch("levine2020", "CNN", "column", "eval", "lowest", 1, 4, 1, 1, Many),
              Torch("levine2020", "CNN", "row", "eval", "lowest", 4, 4, 2, 1, TwoOrNone),
              Torch("levine2020", "CNN", "block", "eval", "lowest", 2, 2, 1, 1, Many),
              Torch("levine2020", "CNN", "column", "predict", "any", 2, 4, 2, 2, TwoOrNone),
              Tensor("row", 4, 1, 1, 1, Many),
              Tensor("block", 3, 3, 2, 1, Two)}

=============================================================================
