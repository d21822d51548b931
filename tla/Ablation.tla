------------------------------ MODULE Ablation ------------------------------
(***************************************************************************)
(* Derandomized smoothing, the certificate against patches of              *)
(* src/art/estimators/certification/derandomized_smoothing.  An image is    *)
(* ablated to one column, row or block at every position, the classifier    *)
(* votes on each ablated image, and the lead of the first class over the    *)
(* second decides whether a patch could have changed the outcome.           *)
(*                                                                          *)
(* One image is followed together with the same image under a patch.  The   *)
(* classifier is open, but it is a function: whatever it answers to an      *)
(* ablated image it answers whenever it sees that image again, so the two   *)
(* sweeps agree on every ablated image the patch is cut from.               *)
(***************************************************************************)
EXTENDS Integers, FiniteSets

CONSTANTS
    NbClasses,  \* classes are the numbers below
    Setups      \* the configurations examined, see SetupType

Classes == 0 .. NbClasses - 1

(* lib        the framework; mode is that of the PyTorch estimator            *)
(* op         predict returns the votes, eval_and_certify goes on to certify  *)
(* kth        which index kthvalue picks among equal counts: PyTorch leaves    *)
(*            it open ("any"), what a build does may be "lowest"              *)
(* logits     whether the votes are booleans when predict adds them up (698)  *)
(* k, m       ablation size and size of the patch                             *)
(* answers    the sets of classes one vote may go to                          *)
SetupType ==
    [lib : {"pytorch", "tensorflow"}, algorithm : {"salman2021", "levine2020"},
     mode : {"ViT", "CNN"}, type : {"column", "row", "block"},
     op : {"predict", "eval"}, kth : {"lowest", "any"}, logits : BOOLEAN,
     height : Nat \ {0}, width : Nat \ {0}, k : Nat \ {0}, m : Nat \ {0},
     answers : SUBSET SUBSET Classes]

(* An ablation and a patch fit into the image. *)
Fits(s) ==
    /\ s.m <= s.height /\ s.m <= s.width
    /\ s.type \in {"column", "block"} => s.k <= s.width
    /\ s.type \in {"row", "block"} => s.k <= s.height

ASSUME SetupAssumption ==
    /\ NbClasses \in Nat \ {0, 1}
    /\ Setups \subseteq SetupType
    /\ \A s \in Setups : Fits(s)

VARIABLES
    setup,    \* the configuration
    patch,    \* the corner of the patch, <<row, column>>
    done,     \* the positions swept so far
    buffer,   \* the cells of i_batch not yet overwritten by zeros
    replies,  \* what the classifier answered, per set of cells it was shown
    counts,   \* pred_counts: the votes for the image
    hurt,     \* the votes for the image under the patch
    phase,    \* "sweep", then "done"
    verdict   \* what certify and the accuracy make of counts

vars == <<setup, patch, done, buffer, replies, counts, hurt, phase, verdict>>

Cells == (0 .. setup.height - 1) \X (0 .. setup.width - 1)
PatchCells == (patch[1] .. patch[1] + setup.m - 1) \X (patch[2] .. patch[2] + setup.m - 1)

-----------------------------------------------------------------------------
(* The ablator. *)

(* A slip: the wrap-around forgotten: behind the last column nothing is kept. *)
KeptNoWrap(pos, k, n) == (0 .. n - 1) \cap (pos .. pos + k - 1)

(* A slip: the wrapped slice starts one column late. *)
KeptTooMuch(pos, k, n) ==
    IF pos + k > n THEN (0 .. n - 1) \ (((pos + k) % n) + 1 .. pos - 1) ELSE pos .. pos + k - 1

(* What is left of n columns when the retained column starts at pos: with wrap-around *)
(* the slice from (pos + k) % n to pos is zeroed, else what is before and behind it.   *)
Kept(pos, k, n) ==
    IF pos + k > n
    THEN (0 .. n - 1) \ ((pos + k) % n .. pos - 1)
    ELSE pos .. pos + k - 1

KeptColumns(p) == (0 .. setup.height - 1) \X Kept(p[2], setup.k, setup.width)
KeptRows(p) == Kept(p[1], setup.k, setup.height) \X (0 .. setup.width - 1)

(* The cells the ablation at position p leaves. *)
Retained(p) ==
    CASE setup.type = "column" -> KeptColumns(p)
      [] setup.type = "row" -> KeptRows(p)
      [] OTHER -> KeptRows(p) \cap KeptColumns(p)

(* Appending a mask or the inverted channels copies the batch before it is zeroed; *)
(* TensorFlow always appends, and predict copies the input itself.                  *)
Copies ==
    \/ setup.lib = "tensorflow"
    \/ setup.op = "predict"
    \/ setup.algorithm = "levine2020"
    \/ setup.mode = "ViT"

-----------------------------------------------------------------------------
(* The sweep. *)

(* predict: columns by columns, rows by rows. *)
PredictPositions ==
    CASE setup.type = "column" -> {0} \X (0 .. setup.width - 1)
      [] setup.type = "row" -> (0 .. setup.height - 1) \X {0}
      [] OTHER -> Cells

(* eval_and_certify of PyTorch: rows are swept over i_batch.shape[-1], the columns. *)
EvalPositions ==
    CASE setup.type = "column" -> {0} \X (0 .. setup.width - 1)
      [] setup.type = "row" -> (0 .. setup.width - 1) \X {0}
      [] OTHER -> Cells

(* eval_and_certify of TensorFlow calls predict. *)
Positions ==
    IF setup.lib = "pytorch" /\ setup.op = "eval" THEN EvalPositions ELSE PredictPositions

(* eval_and_certify takes the columns one by one and the rows inside; predict has the loops *)
(* the other way round, but works on copies, so that its order makes no difference.        *)
Before(p, q) == p[2] < q[2] \/ (p[2] = q[2] /\ p[1] <= q[1])

(* The image the classifier is given, as the cells that still show. *)
Shown(p) == IF Copies THEN Retained(p) ELSE buffer \cap Retained(p)

(* predict of PyTorch adds arrays of booleans when the model returns probabilities: *)
(* the sum of truth values is their disjunction.                                     *)
Booleans == setup.lib = "pytorch" /\ setup.op = "predict" /\ ~setup.logits

Added(votes, answer) ==
    [c \in Classes |-> IF c \notin answer THEN votes[c]
                       ELSE IF Booleans THEN 1 ELSE votes[c] + 1]

(* The position whose turn it is. *)
Due(p) ==
    /\ phase = "sweep"
    /\ p \in Positions \ done
    /\ \A q \in Positions \ done : Before(p, q)

(* One round of the loop: ablate at p, ask the classifier, add its votes. *)
Vote(p, reply) ==
    /\ Due(p)
    /\ Shown(p) \in DOMAIN replies => reply = replies[Shown(p)]
    /\ Shown(p) \cap PatchCells = {} => reply[1] = reply[2]
    /\ replies' = [v \in DOMAIN replies \cup {Shown(p)} |->
                      IF v \in DOMAIN replies THEN replies[v] ELSE reply]
    /\ buffer' = Shown(p) \cup (IF Copies THEN buffer ELSE {})
    /\ counts' = Added(counts, reply[1])
    /\ hurt' = Added(hurt, reply[2])
    /\ done' = done \cup {p}
    /\ UNCHANGED <<setup, patch, phase, verdict>>

-----------------------------------------------------------------------------
(* The certificate. *)

Leaders(votes) == {c \in Classes : \A d \in Classes : votes[d] <= votes[c]}

(* argmax, and top_k of TensorFlow: the first of the classes with most votes. *)
Argmax(votes) == CHOOSE c \in Leaders(votes) : \A d \in Leaders(votes) : c <= d

(* The classes that take the second place once c has the first. *)
Followers(c) ==
    {d \in Classes \ {c} : \A e \in Classes \ {c} : counts[e] <= counts[d]}

(* A slip: the distance between the first and the last vote taken for their number. *)
ReachShort ==
    LET side == setup.m + setup.k - 2
    IN  IF setup.type = "block" THEN side * side ELSE side

(* The votes a patch reaches: m + k - 1 positions, squared for blocks. *)
Reach ==
    LET side == setup.m + setup.k - 1
    IN  IF setup.type = "block" THEN side * side ELSE side

(* Whether equal indices are resolved towards the lowest. *)
LowestFirst == setup.lib = "tensorflow" \/ setup.kth = "lowest"

Least(S, c) == \A d \in S : c <= d

Lead(first, second) == counts[first] - counts[second]

(* A slip: the tie-break in favour of the class with the larger index. *)
TieBreakSwapped(first, second) ==
    /\ setup.lib = "tensorflow" \/ setup.algorithm = "levine2020"
    /\ Lead(first, second) = 2 * Reach
    /\ first > second

(* The tie-break of levine2020; the ablators of TensorFlow know no other algorithm. *)
TieBreak(first, second) ==
    /\ setup.lib = "tensorflow" \/ setup.algorithm = "levine2020"
    /\ Lead(first, second) = 2 * Reach
    /\ first < second

Certified(first, second) ==
    Lead(first, second) > 2 * Reach \/ TieBreak(first, second)

(* A slip: the conjunct cert dropped from cert_and_correct. *)
CorrectAlone(first, second) == TRUE

(* For blocks PyTorch computes cert_and_correct before the tie-break. *)
CertifiedForLabel(first, second) ==
    \/ Lead(first, second) > 2 * Reach
    \/ /\ ~(setup.lib = "pytorch" /\ setup.type = "block")
       /\ TieBreak(first, second)

(* certify, given the class first and the class second in the counts. *)
Certify(first, second, label) ==
    /\ phase = "sweep" /\ done = Positions
    /\ setup.op = "eval"
    /\ first \in Leaders(counts)
    /\ second \in Followers(first)
    /\ LowestFirst => Least(Leaders(counts), first) /\ Least(Followers(first), second)
    /\ verdict' = [cert |-> Certified(first, second),
                   correct |-> CertifiedForLabel(first, second) /\ label = first,
                   top |-> Argmax(counts), label |-> label]
    /\ phase' = "done"
    /\ UNCHANGED <<setup, patch, done, buffer, replies, counts, hurt>>

(* predict hands the votes back. *)
Predict ==
    /\ phase = "sweep" /\ done = Positions
    /\ setup.op = "predict"
    /\ phase' = "done"
    /\ UNCHANGED <<setup, patch, done, buffer, replies, counts, hurt, verdict>>

-----------------------------------------------------------------------------
(* A patch lies inside the image. *)
Patches(s) == (0 .. s.height - s.m) \X (0 .. s.width - s.m)

(* salman2021 votes for the argmax of the outputs, levine2020 for all above the threshold. *)
Answers(s) ==
    IF s.lib = "pytorch" /\ s.algorithm = "salman2021"
    THEN {{c} : c \in Classes} \cap s.answers
    ELSE s.answers

NoVerdict == [cert |-> FALSE, correct |-> FALSE, top |-> 0, label |-> 0]

Init ==
    /\ setup \in Setups
    /\ patch \in Patches(setup)
    /\ done = {}
    /\ buffer = Cells
    /\ replies = [v \in {} |-> <<{}, {}>>]
    /\ counts = [c \in Classes |-> 0]
    /\ hurt = [c \in Classes |-> 0]
    /\ phase = "sweep"
    /\ verdict = NoVerdict

VoteSome ==
    \E p \in Positions :
        Due(p) /\ \E clean, attacked \in Answers(setup) : Vote(p, <<clean, attacked>>)

CertifySome == \E first, second, label \in Classes : Certify(first, second, label)

Returned == phase = "done" /\ UNCHANGED vars

Next == VoteSome \/ CertifySome \/ Predict \/ Returned

Spec == Init /\ [][Next]_vars

-----------------------------------------------------------------------------
(* Properties. *)

(* The state has its types. *)
TypeOK ==
    /\ setup \in Setups
    /\ patch \in Patches(setup)
    /\ done \subseteq Positions
    /\ buffer \subseteq Cells
    /\ counts \in [Classes -> Nat]
    /\ hurt \in [Classes -> Nat]
    /\ phase \in {"sweep", "done"}
    /\ verdict \in [cert : BOOLEAN, correct : BOOLEAN, top : Classes, label : Classes]

(* What certify is for: when an image is certified for a patch size, no patch of that *)
(* size changes the class the votes elect.                                            *)
CertifiedIsStable == phase = "done" /\ verdict.cert => Argmax(hurt) = verdict.top

(* No class gains or loses more votes to a patch than the certificate allows for, *)
(* wherever the patch lies, at the borders and across the wrap-around too.         *)
FewVotesTouched ==
    \A c \in Classes : counts[c] - hurt[c] <= Reach /\ hurt[c] - counts[c] <= Reach

(* The certified accuracy never exceeds the accuracy: what certify counts as certified  *)
(* and correct by kthvalue, eval_and_certify counts as correct by argmax, however ties  *)
(* are resolved.                                                                        *)
CertifiedIsCounted == phase = "done" /\ verdict.correct => verdict.top = verdict.label

(* Every cell of the image is shown to the classifier in the same number of votes: a     *)
(* sweep neither leaves a column out nor shows one twice as often.  (The positions depend *)
(* on the setup alone, so they are looked at before the first vote.)                     *)
SeenAlike ==
    done = {} /\ Copies =>
        \A a, b \in Cells :
            Cardinality({p \in Positions : a \in Retained(p)})
                = Cardinality({p \in Positions : b \in Retained(p)})
=============================================================================
