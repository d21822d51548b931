--------------------------- MODULE AblationProofs ---------------------------
(***************************************************************************)
(* Ablation for images, ablations and patches of every size, any number of *)
(* classes and every classifier: a patch reaches no more votes than the    *)
(* certificate allows for, and no patch changes a certified class.         *)
(***************************************************************************)
EXTENDS Ablation, FiniteSetTheorems, WellFoundedInduction, TLAPS

(* The setups the certificate is right about.  In PyTorch the rows of an image wider  *)
(* than high are swept too often, and the tie-break of levine2020 asks for the first   *)
(* of equal classes, which kthvalue does not promise.                                 *)
Sound(s) ==
    s.lib = "pytorch" =>
        /\ s.op = "eval" /\ s.type = "row" => s.width <= s.height
        /\ s.algorithm = "levine2020" => s.kth = "lowest"

SoundSetups == \A s \in Setups : Sound(s)

-----------------------------------------------------------------------------
(* One direction.  A patch of m columns from a on meets the windows that start up to    *)
(* k - 1 before it; those that start beyond the left border have wrapped around.  Slot   *)
(* numbers these windows in their order on the ring.                                    *)
Slot(i, a, m, k, n) == IF i < a + m THEN i - (a - k + 1) ELSE i - n - (a - k + 1)

(* The remainder of a number between n and 2 n. *)
LEMMA WrapsOnce ==
    \A n \in Nat \ {0}, x \in Nat : n <= x /\ x < 2 * n => x % n = x - n
OBVIOUS

(* What a window that has wrapped around keeps. *)
LEMMA KeptCells ==
    ASSUME NEW n \in Nat \ {0}, NEW k \in Nat \ {0}, k <= n, NEW i \in 0 .. n - 1,
           NEW j \in Kept(i, k, n)
    PROVE  /\ j \in 0 .. n - 1
           /\ (i <= j /\ j < i + k) \/ (i + k > n /\ j < i + k - n)
<1>1. CASE i + k <= n
  BY <1>1 DEF Kept
<1>2. CASE i + k > n
  <2>1. (i + k) % n = i + k - n
    <3>1. PICK x \in Nat : x = i + k
      OBVIOUS
    <3>2. x % n = x - n
      <4>1. n <= x /\ x < 2 * n
        BY <1>2, <3>1
      <4> QED
        BY <4>1, WrapsOnce
    <3> QED
      BY <3>1, <3>2
  <2>2. j \in (0 .. n - 1) \ (i + k - n .. i - 1)
    BY <1>2, <2>1 DEF Kept
  <2> QED
    BY <1>2, <2>2
<1> QED
  BY <1>1, <1>2

(* A window that meets the patch has a slot below m + k - 1, *)
LEMMA SlotInReach ==
    ASSUME NEW n \in Nat \ {0}, NEW k \in Nat \ {0}, k <= n,
           NEW m \in Nat \ {0}, NEW a \in Nat, a + m <= n,
           NEW i \in 0 .. n - 1, NEW j \in Kept(i, k, n), j \in a .. a + m - 1
    PROVE  Slot(i, a, m, k, n) \in 0 .. m + k - 2
<1>1. (i <= j /\ j < i + k) \/ (i + k > n /\ j < i + k - n)
  BY KeptCells
<1>2. CASE i < a + m
  BY <1>1, <1>2 DEF Slot
<1>3. CASE i >= a + m
  BY <1>1, <1>3 DEF Slot
<1> QED
  BY <1>2, <1>3

(* and a slot of its own. *)
LEMMA SlotsDiffer ==
    ASSUME NEW n \in Nat \ {0}, NEW k \in Nat \ {0}, NEW m \in Nat \ {0}, NEW a \in Nat,
           NEW i \in 0 .. n - 1, NEW j \in 0 .. n - 1,
           Slot(i, a, m, k, n) = Slot(j, a, m, k, n)
    PROVE  i = j
BY DEF Slot

-----------------------------------------------------------------------------
(* The image. *)

Side == setup.m + setup.k - 1

(* The positions whose ablation shows something of the patch. *)
Touching == {p \in Positions : Retained(p) \cap PatchCells # {}}

RowSlot(p) == Slot(p[1], patch[1], setup.m, setup.k, setup.height)
ColumnSlot(p) == Slot(p[2], patch[2], setup.m, setup.k, setup.width)

Placed == setup \in Setups /\ patch \in Patches(setup)

LEMMA SetupTypes ==
    ASSUME Placed
    PROVE  /\ setup.height \in Nat \ {0} /\ setup.width \in Nat \ {0}
           /\ setup.k \in Nat \ {0} /\ setup.m \in Nat \ {0}
           /\ setup.type \in {"column", "row", "block"}
           /\ setup.lib \in {"pytorch", "tensorflow"} /\ setup.op \in {"predict", "eval"}
           /\ setup.type \in {"column", "block"} => setup.k <= setup.width
           /\ setup.type \in {"row", "block"} => setup.k <= setup.height
           /\ patch[1] \in Nat /\ patch[2] \in Nat
           /\ patch[1] + setup.m <= setup.height /\ patch[2] + setup.m <= setup.width
           /\ Side \in Nat
<1>1. setup \in SetupType /\ Fits(setup)
  BY SetupAssumption DEF Placed
<1>2. /\ setup.height \in Nat \ {0} /\ setup.width \in Nat \ {0}
      /\ setup.k \in Nat \ {0} /\ setup.m \in Nat \ {0}
      /\ setup.type \in {"column", "row", "block"}
      /\ setup.lib \in {"pytorch", "tensorflow"} /\ setup.op \in {"predict", "eval"}
  BY <1>1 DEF SetupType
<1>3. /\ patch[1] \in 0 .. setup.height - setup.m
      /\ patch[2] \in 0 .. setup.width - setup.m
  BY DEF Placed, Patches
<1> QED
  BY <1>1, <1>2, <1>3 DEF Fits, Side

(* A position is a row and a column of the image; a sweep of rows has column 0 only. *)
LEMMA PositionsInImage ==
    ASSUME Placed, Sound(setup), NEW p \in Positions
    PROVE  /\ p[1] \in 0 .. setup.height - 1 /\ p[2] \in 0 .. setup.width - 1
           /\ p = <<p[1], p[2]>>
           /\ setup.type = "column" => p[1] = 0
           /\ setup.type = "row" => p[2] = 0
<1> USE SetupTypes
<1>1. CASE setup.type = "column"
  BY <1>1 DEF Positions, EvalPositions, PredictPositions
<1>2. CASE setup.type = "row"
  <2>1. CASE setup.lib = "pytorch" /\ setup.op = "eval"
    BY <1>2, <2>1 DEF Positions, EvalPositions, Sound
  <2>2. CASE ~(setup.lib = "pytorch" /\ setup.op = "eval")
    BY <1>2, <2>2 DEF Positions, PredictPositions
  <2> QED
    BY <2>1, <2>2
<1>3. CASE setup.type = "block"
  BY <1>3 DEF Positions, EvalPositions, PredictPositions, Cells
<1> QED
  BY <1>1, <1>2, <1>3

LEMMA PositionsFinite ==
    ASSUME Placed
    PROVE  IsFiniteSet(Positions)
<1> USE SetupTypes
<1>1. IsFiniteSet({0})
  BY FS_Singleton
<1>2. IsFiniteSet(0 .. setup.height - 1) /\ IsFiniteSet(0 .. setup.width - 1)
  <2>1. 0 \in Int /\ setup.height - 1 \in Int /\ setup.width - 1 \in Int
    OBVIOUS
  <2> QED
    BY <2>1, FS_Interval
<1>3. /\ IsFiniteSet({0} \X (0 .. setup.width - 1))
      /\ IsFiniteSet((0 .. setup.height - 1) \X {0})
      /\ IsFiniteSet((0 .. setup.width - 1) \X {0})
      /\ IsFiniteSet(Cells)
  BY <1>1, <1>2, FS_Product DEF Cells
<1> QED
  BY <1>3 DEF Positions, EvalPositions, PredictPositions

(* What a touching position keeps of the patch lies in its window, *)
LEMMA RowInReach ==
    ASSUME Placed, Sound(setup), setup.type # "column", NEW p \in Touching
    PROVE  RowSlot(p) \in 0 .. Side - 1
<1>1. p \in Positions /\ p[1] \in 0 .. setup.height - 1
  BY PositionsInImage DEF Touching
<1>2. PICK q \in Retained(p) : q \in PatchCells
  BY DEF Touching
<1>3. q[1] \in Kept(p[1], setup.k, setup.height)
  BY <1>2, SetupTypes DEF Retained, KeptRows
<1>4. q[1] \in patch[1] .. patch[1] + setup.m - 1
  BY <1>2 DEF PatchCells
<1>5. setup.k <= setup.height
  BY SetupTypes
<1>6. RowSlot(p) \in 0 .. setup.m + setup.k - 2
  BY <1>1, <1>3, <1>4, <1>5, SetupTypes, SlotInReach DEF RowSlot
<1> QED
  BY <1>6, SetupTypes DEF Side

LEMMA ColumnInReach ==
    ASSUME Placed, Sound(setup), setup.type # "row", NEW p \in Touching
    PROVE  ColumnSlot(p) \in 0 .. Side - 1
<1>1. p \in Positions /\ p[2] \in 0 .. setup.width - 1
  BY PositionsInImage DEF Touching
<1>2. PICK q \in Retained(p) : q \in PatchCells
  BY DEF Touching
<1>3. q[2] \in Kept(p[2], setup.k, setup.width)
  BY <1>2, SetupTypes DEF Retained, KeptColumns
<1>4. q[2] \in patch[2] .. patch[2] + setup.m - 1
  BY <1>2 DEF PatchCells
<1>5. setup.k <= setup.width
  BY SetupTypes
<1>6. ColumnSlot(p) \in 0 .. setup.m + setup.k - 2
  BY <1>1, <1>3, <1>4, <1>5, SetupTypes, SlotInReach DEF ColumnSlot
<1> QED
  BY <1>6, SetupTypes DEF Side

(* so that the touching positions are no more than there are slots: m + k - 1 of them in *)
(* one direction, the square of it in two.                                               *)
LEMMA ReachIsEnough ==
    ASSUME Placed, Sound(setup)
    PROVE  IsFiniteSet(Touching) /\ Cardinality(Touching) <= Reach
<1> USE SetupTypes
<1>1. IsFiniteSet(0 .. Side - 1) /\ Cardinality(0 .. Side - 1) = Side
  <2>1. 0 \in Int /\ Side - 1 \in Int /\ Side >= 1
    BY DEF Side
  <2> QED
    BY <2>1, FS_Interval
<1>2. CASE setup.type = "column"
  <2> DEFINE f == [p \in Touching |-> ColumnSlot(p)]
  <2>1. f \in [Touching -> 0 .. Side - 1]
    BY <1>2, ColumnInReach
  <2>2. ASSUME NEW p \in Touching, NEW q \in Touching, f[p] = f[q] PROVE p = q
    <3>1. p[2] = q[2]
      BY <2>2, PositionsInImage, SlotsDiffer DEF ColumnSlot, Touching
    <3> QED
      BY <1>2, <3>1, PositionsInImage DEF Touching
  <2>3. f \in Injection(Touching, 0 .. Side - 1)
    BY <2>1, <2>2 DEF Injection, IsInjective
  <2> QED
    BY <1>1, <1>2, <2>3, FS_Injection DEF Reach, Side
<1>3. CASE setup.type = "row"
  <2> DEFINE f == [p \in Touching |-> RowSlot(p)]
  <2>1. f \in [Touching -> 0 .. Side - 1]
    BY <1>3, RowInReach
  <2>2. ASSUME NEW p \in Touching, NEW q \in Touching, f[p] = f[q] PROVE p = q
    <3>1. p[1] = q[1]
      BY <2>2, PositionsInImage, SlotsDiffer DEF RowSlot, Touching
    <3> QED
      BY <1>3, <3>1, PositionsInImage DEF Touching
  <2>3. f \in Injection(Touching, 0 .. Side - 1)
    BY <2>1, <2>2 DEF Injection, IsInjective
  <2> QED
    BY <1>1, <1>3, <2>3, FS_Injection DEF Reach, Side
<1>4. CASE setup.type = "block"
  <2> DEFINE S == (0 .. Side - 1) \X (0 .. Side - 1)
             f == [p \in Touching |-> <<RowSlot(p), ColumnSlot(p)>>]
  <2>1. f \in [Touching -> S]
    BY <1>4, RowInReach, ColumnInReach
  <2>2. ASSUME NEW p \in Touching, NEW q \in Touching, f[p] = f[q] PROVE p = q
    <3>1. RowSlot(p) = RowSlot(q) /\ ColumnSlot(p) = ColumnSlot(q)
      BY <2>2
    <3>2. p[1] = q[1] /\ p[2] = q[2]
      BY <3>1, PositionsInImage, SlotsDiffer DEF RowSlot, ColumnSlot, Touching
    <3> QED
      BY <3>2, PositionsInImage DEF Touching
  <2>3. f \in Injection(Touching, S)
    BY <2>1, <2>2 DEF Injection, IsInjective
  <2>4. IsFiniteSet(S) /\ Cardinality(S) = Side * Side
    BY <1>1, FS_Product
  <2> QED
    BY <1>4, <2>3, <2>4, FS_Injection DEF Reach, Side
<1> QED
  BY <1>2, <1>3, <1>4

-----------------------------------------------------------------------------
(* The sweep. *)

Touched == Cardinality(Touching \cap done)

(* So far no class has been given or taken more votes than positions were touched. *)
TouchedBounds ==
    \A c \in Classes : counts[c] - hurt[c] <= Touched /\ hurt[c] - counts[c] <= Touched

(* Truth values are 0 or 1. *)
BooleansSmall == Booleans => \A c \in Classes : counts[c] <= 1 /\ hurt[c] <= 1

IInv ==
    /\ TypeOK
    /\ Sound(setup)
    /\ TouchedBounds
    /\ BooleansSmall
    /\ phase = "sweep" => verdict = NoVerdict
    /\ CertifiedIsStable
    /\ CertifiedIsCounted

LEMMA PlacedByType == ASSUME TypeOK PROVE Placed
BY DEF TypeOK, Placed

LEMMA TouchedIsNat ==
    ASSUME TypeOK, Sound(setup)
    PROVE  Touched \in Nat /\ Touched <= Reach /\ Reach \in Nat
<1>1. IsFiniteSet(Touching) /\ Cardinality(Touching) <= Reach
  BY PlacedByType, ReachIsEnough
<1>2. Touching \cap done \in SUBSET Touching
  OBVIOUS
<1>3. IsFiniteSet(Touching \cap done) /\ Touched <= Cardinality(Touching)
  BY <1>1, <1>2, FS_Subset DEF Touched
<1>4. Touched \in Nat /\ Cardinality(Touching) \in Nat
  BY <1>1, <1>3, FS_CardinalityType DEF Touched
<1>5. Reach \in Nat
  BY PlacedByType, SetupTypes DEF Reach
<1> QED
  BY <1>1, <1>3, <1>4, <1>5

(* A vote at a position the patch does not touch is the same for both images; one at a  *)
(* touched position is counted.                                                         *)
LEMMA VoteCounted ==
    ASSUME TypeOK, Sound(setup), NEW p \in Positions, NEW reply, Vote(p, reply)
    PROVE  /\ Touched' \in Nat
           /\ p \in Touching => Touched' = Touched + 1
           /\ p \notin Touching => Touched' = Touched /\ reply[1] = reply[2]
<1>1. Touching' = Touching /\ done' = done \cup {p} /\ p \notin done
  BY DEF Vote, Due, Touching, Positions, EvalPositions, PredictPositions, Cells, Retained,
         KeptRows, KeptColumns, PatchCells
<1>2. IsFiniteSet(Touching \cap done) /\ Touched \in Nat
  <2>1. IsFiniteSet(Touching)
    BY PlacedByType, ReachIsEnough
  <2> QED
    BY <2>1, TouchedIsNat, FS_Intersection
<1>3. CASE p \in Touching
  <2>1. Touching' \cap done' = (Touching \cap done) \cup {p}
    BY <1>1, <1>3
  <2>2. Touched' = Touched + 1
    BY <1>1, <1>2, <2>1, FS_AddElement DEF Touched
  <2> QED
    BY <1>2, <1>3, <2>2
<1>4. CASE p \notin Touching
  <2>1. Touching' \cap done' = Touching \cap done
    BY <1>1, <1>4
  <2>2. Shown(p) \subseteq Retained(p)
    BY DEF Shown
  <2>3. reply[1] = reply[2]
    BY <1>4, <2>2 DEF Vote, Touching
  <2> QED
    BY <1>2, <1>4, <2>1, <2>3 DEF Touched
<1> QED
  BY <1>3, <1>4

LEMMA AddedType ==
    ASSUME NEW votes \in [Classes -> Nat], NEW answer
    PROVE  Added(votes, answer) \in [Classes -> Nat]
BY DEF Added

LEMMA VoteBounds ==
    ASSUME IInv, NEW p \in Positions, NEW reply, Vote(p, reply)
    PROVE  TouchedBounds' /\ BooleansSmall'
<1>1. counts \in [Classes -> Nat] /\ hurt \in [Classes -> Nat] /\ Touched \in Nat
  BY TouchedIsNat DEF IInv, TypeOK
<1>2. counts' = Added(counts, reply[1]) /\ hurt' = Added(hurt, reply[2]) /\ Booleans' = Booleans
  BY DEF Vote, Booleans
<1>3. /\ Touched' \in Nat
      /\ p \in Touching => Touched' = Touched + 1
      /\ p \notin Touching => Touched' = Touched /\ reply[1] = reply[2]
  BY VoteCounted DEF IInv
<1>4. ASSUME NEW c \in Classes
      PROVE  /\ counts'[c] - hurt'[c] <= Touched' /\ hurt'[c] - counts'[c] <= Touched'
             /\ Booleans => counts'[c] <= 1 /\ hurt'[c] <= 1
  <2>1. /\ counts[c] \in Nat /\ hurt[c] \in Nat
        /\ counts[c] - hurt[c] <= Touched /\ hurt[c] - counts[c] <= Touched
        /\ Booleans => counts[c] <= 1 /\ hurt[c] <= 1
    BY <1>1 DEF IInv, TouchedBounds, BooleansSmall
  <2>2. counts'[c] = IF c \notin reply[1] THEN counts[c]
                     ELSE IF Booleans THEN 1 ELSE counts[c] + 1
    BY <1>2 DEF Added
  <2>3. hurt'[c] = IF c \notin reply[2] THEN hurt[c]
                   ELSE IF Booleans THEN 1 ELSE hurt[c] + 1
    BY <1>2 DEF Added
  <2>4. CASE p \in Touching
    BY <1>1, <1>3, <2>1, <2>2, <2>3, <2>4
  <2>5. CASE p \notin Touching
    BY <1>1, <1>3, <2>1, <2>2, <2>3, <2>5
  <2> QED
    BY <2>4, <2>5
<1> QED
  BY <1>2, <1>4 DEF TouchedBounds, BooleansSmall

-----------------------------------------------------------------------------
(* The certificate. *)

LEMMA ArgmaxIs ==
    ASSUME NEW votes \in [Classes -> Nat], NEW c \in Classes,
           \A d \in Classes : votes[d] <= votes[c],
           \A d \in Classes : d < c => votes[d] < votes[c]
    PROVE  Argmax(votes) = c
<1>1. c \in Leaders(votes)
  BY DEF Leaders
<1>2. ASSUME NEW d \in Leaders(votes) PROVE c <= d
  <2>1. d \in Classes /\ votes[c] <= votes[d] /\ votes[c] \in Nat /\ votes[d] \in Nat
    BY <1>2 DEF Leaders
  <2>2. c \in Nat /\ d \in Nat
    BY <2>1, SetupAssumption DEF Classes
  <2> QED
    BY <2>1, <2>2
<1>3. ASSUME NEW e \in Leaders(votes), \A d \in Leaders(votes) : e <= d PROVE e = c
  <2>1. c \in Nat /\ e \in Nat
    BY SetupAssumption DEF Classes, Leaders
  <2> QED
    BY <1>1, <1>2, <1>3, <2>1
<1> QED
  BY <1>1, <1>2, <1>3 DEF Argmax

(* A set of natural numbers that is not empty has a least element. *)
LEMMA LeastExists ==
    ASSUME NEW S, S \subseteq Nat, S # {}
    PROVE  \E c \in S : \A d \in S : c <= d
<1>1. PICK c \in S : \A d \in S : <<d, c>> \notin OpToRel(<, Nat)
  BY NatLessThanWellFounded, WFMin
<1>2. ASSUME NEW d \in S PROVE c <= d
  <2>1. c \in Nat /\ d \in Nat /\ <<d, c>> \notin OpToRel(<, Nat)
    BY <1>1
  <2> QED
    BY <2>1 DEF OpToRel
<1> QED
  BY <1>2

(* The lead of a certified class over every other one, and over those with a smaller index. *)
LEMMA LeadOfCertified ==
    ASSUME TypeOK, Sound(setup), NEW first \in Classes, NEW second \in Classes,
           first \in Leaders(counts), second \in Followers(first),
           LowestFirst => Least(Followers(first), second),
           Certified(first, second), NEW c \in Classes, c # first
    PROVE  /\ counts[first] - counts[c] >= 2 * Reach
           /\ c < first => counts[first] - counts[c] > 2 * Reach
<1>1. /\ counts \in [Classes -> Nat] /\ Reach \in Nat
      /\ first \in Nat /\ second \in Nat /\ c \in Nat
  BY TouchedIsNat, SetupAssumption DEF TypeOK, Classes
<1>2. counts[c] <= counts[second]
  BY DEF Followers
<1>3. CASE Lead(first, second) > 2 * Reach
  BY <1>1, <1>2, <1>3 DEF Lead
<1>4. CASE TieBreak(first, second)
  <2>1. counts[first] - counts[second] = 2 * Reach /\ first < second
    BY <1>4 DEF TieBreak, Lead
  <2>2. LowestFirst
    <3>1. CASE setup.lib = "tensorflow"
      BY <3>1 DEF LowestFirst
    <3>2. CASE setup.lib # "tensorflow"
      <4>1. setup.algorithm = "levine2020" /\ setup.lib = "pytorch"
        BY <1>4, <3>2, PlacedByType, SetupTypes DEF TieBreak
      <4> QED
        BY <4>1 DEF Sound, LowestFirst
    <3> QED
      BY <3>1, <3>2
  <2>3. c < first => counts[c] < counts[second]
    <3>1. SUFFICES ASSUME c < first, counts[c] >= counts[second] PROVE FALSE
      BY <1>1
    <3>2. counts[c] = counts[second]
      BY <1>1, <1>2, <3>1
    <3>3. c \in Followers(first)
      BY <3>2 DEF Followers
    <3>4. second <= c
      BY <2>2, <3>3 DEF Least
    <3> QED
      BY <1>1, <2>1, <3>1, <3>4
  <2> QED
    BY <1>1, <1>2, <2>1, <2>3
<1> QED
  BY <1>3, <1>4 DEF Certified

LEMMA ReachPositive ==
    ASSUME TypeOK
    PROVE  Reach \in Nat /\ Reach >= 1
<1>1. Side \in Nat /\ Side >= 1
  <2>1. setup.m \in Nat \ {0} /\ setup.k \in Nat \ {0}
    BY PlacedByType, SetupTypes
  <2> QED
    BY <2>1 DEF Side
<1>2. Side * Side >= 1 /\ Side * Side \in Nat
  BY <1>1
<1> QED
  BY <1>1, <1>2 DEF Reach, Side

LEMMA CertifyIsRight ==
    ASSUME IInv, NEW first \in Classes, NEW second \in Classes,
           first \in Leaders(counts), second \in Followers(first),
           LowestFirst => Least(Followers(first), second),
           Certified(first, second)
    PROVE  Argmax(counts) = first /\ Argmax(hurt) = first
<1>1. /\ counts \in [Classes -> Nat] /\ hurt \in [Classes -> Nat]
      /\ Touched \in Nat /\ Reach \in Nat /\ Touched <= Reach /\ Reach >= 1
  BY TouchedIsNat, ReachPositive DEF IInv, TypeOK
<1>2. ASSUME NEW c \in Classes, c # first
      PROVE  /\ counts[first] > counts[c]
             /\ hurt[first] >= hurt[c]
             /\ c < first => hurt[first] > hurt[c]
  <2>1. /\ counts[first] - counts[c] >= 2 * Reach
        /\ c < first => counts[first] - counts[c] > 2 * Reach
    BY <1>2, LeadOfCertified DEF IInv
  <2>2. counts[first] - hurt[first] <= Touched /\ hurt[c] - counts[c] <= Touched
    BY DEF IInv, TouchedBounds
  <2>3. /\ counts[first] \in Nat /\ counts[c] \in Nat
        /\ hurt[first] \in Nat /\ hurt[c] \in Nat
    BY <1>1
  <2> QED
    BY <1>1, <2>1, <2>2, <2>3
<1>3. /\ \A d \in Classes : counts[d] <= counts[first] /\ hurt[d] <= hurt[first]
      /\ \A d \in Classes : d < first => counts[d] < counts[first] /\ hurt[d] < hurt[first]
  <2>1. first \in Nat /\ \A d \in Classes : d \in Nat
    BY SetupAssumption DEF Classes
  <2>2. \A d \in Classes : counts[d] \in Nat /\ hurt[d] \in Nat
    BY <1>1
  <2> QED
    BY <1>2, <2>1, <2>2
<1> QED
  BY <1>1, <1>3, ArgmaxIs

-----------------------------------------------------------------------------
(* The invariant. *)

LEMMA InitInvariant ==
    ASSUME SoundSetups, Init
    PROVE  IInv
<1>1. 0 \in Classes
  BY SetupAssumption DEF Classes
<1>2. TypeOK
  BY <1>1 DEF Init, TypeOK, NoVerdict
<1>3. Sound(setup)
  BY DEF Init, SoundSetups
<1>4. TouchedBounds /\ BooleansSmall
  BY <1>2, <1>3, TouchedIsNat DEF Init, TouchedBounds, BooleansSmall
<1>5. CertifiedIsStable /\ CertifiedIsCounted
  BY DEF Init, CertifiedIsStable, CertifiedIsCounted
<1>6. verdict = NoVerdict
  BY DEF Init
<1> QED
  BY <1>2, <1>3, <1>4, <1>5, <1>6 DEF IInv

LEMMA VoteInvariant ==
    ASSUME IInv, NEW p \in Positions, NEW reply, Vote(p, reply)
    PROVE  IInv'
<1>1. /\ setup' = setup /\ patch' = patch /\ phase' = phase /\ phase = "sweep"
      /\ verdict' = verdict /\ done' = done \cup {p}
  BY DEF Vote, Due
<1>2. TypeOK'
  <2>1. counts' \in [Classes -> Nat] /\ hurt' \in [Classes -> Nat]
    BY AddedType DEF IInv, TypeOK, Vote
  <2>2. Retained(p) \subseteq Cells
    <3>1. p[1] \in 0 .. setup.height - 1 /\ p[2] \in 0 .. setup.width - 1
      BY PlacedByType, PositionsInImage DEF IInv
    <3>2. ASSUME setup.type # "row" PROVE KeptColumns(p) \subseteq Cells
      <4>1. Kept(p[2], setup.k, setup.width) \subseteq 0 .. setup.width - 1
        BY <3>1, <3>2, PlacedByType, SetupTypes, KeptCells DEF IInv
      <4> QED
        BY <4>1 DEF KeptColumns, Cells
    <3>3. ASSUME setup.type # "column" PROVE KeptRows(p) \subseteq Cells
      <4>1. Kept(p[1], setup.k, setup.height) \subseteq 0 .. setup.height - 1
        BY <3>1, <3>3, PlacedByType, SetupTypes, KeptCells DEF IInv
      <4> QED
        BY <4>1 DEF KeptRows, Cells
    <3> QED
      BY <3>2, <3>3 DEF Retained
  <2>3. buffer' \subseteq Cells
    BY <2>2 DEF IInv, TypeOK, Vote, Shown
  <2>4. Positions' = Positions /\ Cells' = Cells
    BY <1>1 DEF Positions, EvalPositions, PredictPositions, Cells
  <2> QED
    BY <1>1, <2>1, <2>3, <2>4 DEF IInv, TypeOK
<1>3. TouchedBounds' /\ BooleansSmall'
  BY VoteBounds
<1>4. Sound(setup)' /\ CertifiedIsStable' /\ CertifiedIsCounted'
  BY <1>1 DEF IInv, Sound, CertifiedIsStable, CertifiedIsCounted
<1>5. (phase = "sweep" => verdict = NoVerdict)'
  BY <1>1 DEF IInv, NoVerdict
<1> QED
  BY <1>2, <1>3, <1>4, <1>5 DEF IInv

(* Steps that leave the votes alone. *)
LEMMA VotesStay ==
    ASSUME IInv, UNCHANGED <<setup, patch, done, counts, hurt>>
    PROVE  /\ Sound(setup)' /\ TouchedBounds' /\ BooleansSmall'
           /\ Positions' = Positions /\ Cells' = Cells
<1>1. Positions' = Positions /\ Cells' = Cells
  BY DEF Positions, EvalPositions, PredictPositions, Cells
<1>2. Touched' = Touched /\ Booleans' = Booleans
  BY <1>1 DEF Touched, Touching, Retained, KeptRows, KeptColumns, PatchCells, Booleans
<1> QED
  BY <1>1, <1>2 DEF IInv, Sound, TouchedBounds, BooleansSmall

LEMMA CertifyInvariant ==
    ASSUME IInv, NEW first \in Classes, NEW second \in Classes, NEW label \in Classes,
           Certify(first, second, label)
    PROVE  IInv'
<1>1. /\ Sound(setup)' /\ TouchedBounds' /\ BooleansSmall'
      /\ Positions' = Positions /\ Cells' = Cells
  BY VotesStay DEF Certify
<1>2. Certified(first, second) => Argmax(counts) = first /\ Argmax(hurt) = first
  BY CertifyIsRight DEF Certify
<1>3. CertifiedForLabel(first, second) => Certified(first, second)
  BY DEF CertifiedForLabel, Certified
<1>4. verdict' = [cert |-> Certified(first, second),
                  correct |-> CertifiedForLabel(first, second) /\ label = first,
                  top |-> Argmax(counts), label |-> label]
  BY DEF Certify
<1>5. Argmax(counts) \in Classes
  <2>1. first \in Leaders(counts)
    BY DEF Certify
  <2>2. \A d \in Leaders(counts) : d \in Nat
    BY SetupAssumption DEF Leaders, Classes
  <2>3. \E c \in Leaders(counts) : \A d \in Leaders(counts) : c <= d
    <3>1. Leaders(counts) \in SUBSET Nat /\ Leaders(counts) # {}
      BY <2>1, <2>2
    <3> QED
      BY <3>1, LeastExists
  <2> QED
    BY <2>3 DEF Argmax, Leaders
<1>6. TypeOK'
  <2>1. Certified(first, second) \in BOOLEAN /\ CertifiedForLabel(first, second) \in BOOLEAN
    BY DEF Certified, CertifiedForLabel, TieBreak
  <2> QED
    BY <1>1, <1>4, <1>5, <2>1 DEF IInv, TypeOK, Certify
<1>7. CertifiedIsStable' /\ CertifiedIsCounted'
  <2>1. Argmax(hurt)' = Argmax(hurt)
    BY DEF Certify, Argmax, Leaders
  <2> QED
    BY <1>2, <1>3, <1>4, <2>1 DEF CertifiedIsStable, CertifiedIsCounted
<1>8. phase' = "done"
  BY DEF Certify
<1> QED
  BY <1>1, <1>6, <1>7, <1>8 DEF IInv

LEMMA NextInvariant ==
    ASSUME IInv, [Next]_vars
    PROVE  IInv'
<1>1. ASSUME VoteSome PROVE IInv'
  BY <1>1, VoteInvariant DEF VoteSome
<1>2. ASSUME CertifySome PROVE IInv'
  BY <1>2, CertifyInvariant DEF CertifySome
<1>3. ASSUME Predict PROVE IInv'
  <2>1. /\ Sound(setup)' /\ TouchedBounds' /\ BooleansSmall'
        /\ Positions' = Positions /\ Cells' = Cells
    BY <1>3, VotesStay DEF Predict
  <2>2. TypeOK'
    BY <1>3, <2>1 DEF IInv, TypeOK, Predict
  <2>3. verdict' = verdict /\ verdict = NoVerdict /\ phase' = "done"
    BY <1>3 DEF Predict, IInv
  <2>4. CertifiedIsStable' /\ CertifiedIsCounted'
    BY <2>3 DEF CertifiedIsStable, CertifiedIsCounted, NoVerdict
  <2> QED
    BY <2>1, <2>2, <2>3, <2>4 DEF IInv
<1>4. ASSUME UNCHANGED vars PROVE IInv'
  <2>1. /\ Sound(setup)' /\ TouchedBounds' /\ BooleansSmall'
        /\ Positions' = Positions /\ Cells' = Cells
    BY <1>4, VotesStay DEF vars
  <2>2. Argmax(hurt)' = Argmax(hurt)
    BY <1>4 DEF vars, Argmax, Leaders
  <2>3. TypeOK' /\ CertifiedIsStable' /\ CertifiedIsCounted'
    BY <1>4, <2>1, <2>2 DEF vars, IInv, TypeOK, CertifiedIsStable, CertifiedIsCounted
  <2>4. (phase = "sweep" => verdict = NoVerdict)'
    BY <1>4 DEF vars, IInv, NoVerdict
  <2> QED
    BY <2>1, <2>3, <2>4 DEF IInv
<1> QED
  BY <1>1, <1>2, <1>3, <1>4 DEF Next, Returned

(***************************************************************************)
(* The theorems.  They hold for every classifier, image, patch and size,   *)
(* in every sound setup.                                                    *)
(***************************************************************************)

THEOREM Invariance == ASSUME SoundSetups PROVE Spec => []IInv
<1>1. Init => IInv
  BY InitInvariant
<1>2. IInv /\ [Next]_vars => IInv'
  BY NextInvariant
<1> QED
  BY <1>1, <1>2, PTL DEF Spec

(* The state keeps its types. *)
THEOREM TypeCorrect == ASSUME SoundSetups PROVE Spec => []TypeOK
<1>1. IInv => TypeOK
  BY DEF IInv
<1> QED
  BY <1>1, Invariance, PTL

(* A certified class cannot be changed by any patch of the size it was certified for. *)
THEOREM CertifiedIsStableAlways == ASSUME SoundSetups PROVE Spec => []CertifiedIsStable
<1>1. IInv => CertifiedIsStable
  BY DEF IInv
<1> QED
  BY <1>1, Invariance, PTL

(* Certified samples are counted as correct only where the accuracy counts them too. *)
THEOREM CertifiedIsCountedAlways == ASSUME SoundSetups PROVE Spec => []CertifiedIsCounted
<1>1. IInv => CertifiedIsCounted
  BY DEF IInv
<1> QED
  BY <1>1, Invariance, PTL

(* A patch reaches no more votes than the certificate allows for. *)
THEOREM FewVotesTouchedAlways == ASSUME SoundSetups PROVE Spec => []FewVotesTouched
<1>1. IInv => FewVotesTouched
  <2> SUFFICES ASSUME IInv, NEW c \in Classes
               PROVE  counts[c] - hurt[c] <= Reach /\ hurt[c] - counts[c] <= Reach
    BY DEF FewVotesTouched
  <2>1. /\ Touched \in Nat /\ Reach \in Nat /\ Touched <= Reach
        /\ counts[c] \in Nat /\ hurt[c] \in Nat
    BY TouchedIsNat DEF IInv, TypeOK
  <2>2. counts[c] - hurt[c] <= Touched /\ hurt[c] - counts[c] <= Touched
    BY DEF IInv, TouchedBounds
  <2> QED
    BY <2>1, <2>2
<1> QED
  BY <1>1, Invariance, PTL

-----------------------------------------------------------------------------
(* The sweep covers the image evenly. *)

(* In PyTorch the rows are swept over the width of the image (see EvalPositions), which *)
(* is a sweep of the image only where it is as wide as high.                            *)
SquareRows(s) ==
    s.lib = "pytorch" /\ s.op = "eval" /\ s.type = "row" => s.width = s.height

(* The windows of one direction that show a cell, and how far into a window the cell is. *)
Windows(j, k, n) == {i \in 0 .. n - 1 : j \in Kept(i, k, n)}
Ahead(i, j, n) == IF i <= j THEN j - i ELSE j - i + n

(* A window keeps the k cells from its start on, around the border. *)
LEMMA KeptAhead ==
    ASSUME NEW n \in Nat \ {0}, NEW k \in Nat \ {0}, k <= n, NEW i \in 0 .. n - 1,
           NEW j \in 0 .. n - 1
    PROVE  j \in Kept(i, k, n) <=> Ahead(i, j, n) < k
<1>1. CASE i + k <= n
  BY <1>1 DEF Kept, Ahead
<1>2. CASE i + k > n
  <2>1. PICK x \in Nat : x = i + k
    OBVIOUS
  <2>2. x % n = x - n
    <3>1. n <= x /\ x < 2 * n
      BY <1>2, <2>1
    <3> QED
      BY <3>1, WrapsOnce
  <2>3. (i + k) % n = i + k - n
    BY <2>1, <2>2
  <2>4. Kept(i, k, n) = (0 .. n - 1) \ (i + k - n .. i - 1)
    BY <1>2, <2>3 DEF Kept
  <2> QED
    BY <1>2, <2>4 DEF Ahead
<1> QED
  BY <1>1, <1>2

(* So there are k windows that show it, one for each place in a window. *)
LEMMA WindowsAreK ==
    ASSUME NEW n \in Nat \ {0}, NEW k \in Nat \ {0}, k <= n, NEW j \in 0 .. n - 1
    PROVE  IsFiniteSet(Windows(j, k, n)) /\ Cardinality(Windows(j, k, n)) = k
<1> DEFINE W == Windows(j, k, n)
           f == [i \in W |-> Ahead(i, j, n)]
<1>1. \A i \in W : i \in 0 .. n - 1 /\ Ahead(i, j, n) < k
  BY KeptAhead DEF Windows
<1>2. f \in [W -> 0 .. k - 1]
  <2>1. \A i \in W : Ahead(i, j, n) \in 0 .. k - 1
    BY <1>1 DEF Ahead
  <2> QED
    BY <2>1
<1>3. ASSUME NEW a \in W, NEW b \in W, f[a] = f[b] PROVE a = b
  BY <1>1, <1>3 DEF Ahead
<1>4. ASSUME NEW d \in 0 .. k - 1 PROVE \E i \in W : f[i] = d
  <2> DEFINE i == IF d <= j THEN j - d ELSE j - d + n
  <2>1. i \in 0 .. n - 1 /\ Ahead(i, j, n) = d /\ d < k
    BY DEF Ahead
  <2>2. i \in W
    BY <2>1, KeptAhead DEF Windows
  <2> QED
    BY <2>1, <2>2
<1>5. f \in Bijection(W, 0 .. k - 1)
  BY <1>2, <1>3, <1>4 DEF Bijection, Injection, IsInjective, Surjection
<1>6. IsFiniteSet(W)
  <2>1. 0 \in Int /\ n - 1 \in Int
    OBVIOUS
  <2>2. IsFiniteSet(0 .. n - 1)
    BY <2>1, FS_Interval
  <2> QED
    BY <2>2, FS_Subset DEF Windows
<1>7. Cardinality(0 .. k - 1) = Cardinality(W)
  BY <1>5, <1>6, FS_Bijection DEF ExistsBijection
<1>8. Cardinality(0 .. k - 1) = k
  <2>1. 0 \in Int /\ k - 1 \in Int /\ 0 <= k - 1 + 1
    OBVIOUS
  <2>2. Cardinality(0 .. k - 1) = IF 0 > k - 1 THEN 0 ELSE (k - 1) - 0 + 1
    BY <2>1, FS_Interval
  <2> QED
    BY <2>2
<1> QED
  BY <1>6, <1>7, <1>8

LEMMA PlacedAlways == Spec => []Placed
<1>1. Init => Placed
  BY DEF Init, Placed
<1>2. Placed /\ [Next]_vars => Placed'
  BY DEF Placed, Next, VoteSome, Vote, CertifySome, Certify, Predict, Returned, vars
<1> QED
  BY <1>1, <1>2, PTL DEF Spec

(* Every cell is shown k times, or k * k times by blocks. *)
LEMMA ShownTimes ==
    ASSUME Placed, SquareRows(setup), NEW a \in Cells
    PROVE  Cardinality({p \in Positions : a \in Retained(p)})
               = IF setup.type = "block" THEN setup.k * setup.k ELSE setup.k
<1> DEFINE Showing == {p \in Positions : a \in Retained(p)}
           R == Windows(a[1], setup.k, setup.height)
           C == Windows(a[2], setup.k, setup.width)
<1> USE SetupTypes
<1>1. a[1] \in 0 .. setup.height - 1 /\ a[2] \in 0 .. setup.width - 1 /\ a = <<a[1], a[2]>>
  BY DEF Cells
<1>2. Positions = PredictPositions
  BY DEF Positions, PredictPositions, EvalPositions, SquareRows
<1>3. IsFiniteSet({0}) /\ Cardinality({0}) = 1
  BY FS_Singleton
<1>4. CASE setup.type = "column"
  <2>1. IsFiniteSet(C) /\ Cardinality(C) = setup.k
    BY <1>1, <1>4, WindowsAreK
  <2>2. Positions = {0} \X (0 .. setup.width - 1)
    BY <1>2, <1>4 DEF PredictPositions
  <2>3. \A p \in Positions : a \in Retained(p) <=> a[2] \in Kept(p[2], setup.k, setup.width)
    BY <1>1, <1>4 DEF Retained, KeptColumns
  <2>4. Showing = {0} \X C
    BY <2>2, <2>3 DEF Windows
  <2> QED
    BY <1>3, <1>4, <2>1, <2>4, FS_Product
<1>5. CASE setup.type = "row"
  <2>1. IsFiniteSet(R) /\ Cardinality(R) = setup.k
    BY <1>1, <1>5, WindowsAreK
  <2>2. Positions = (0 .. setup.height - 1) \X {0}
    BY <1>2, <1>5 DEF PredictPositions
  <2>3. \A p \in Positions : a \in Retained(p) <=> a[1] \in Kept(p[1], setup.k, setup.height)
    BY <1>1, <1>5 DEF Retained, KeptRows
  <2>4. Showing = R \X {0}
    BY <2>2, <2>3 DEF Windows
  <2> QED
    BY <1>3, <1>5, <2>1, <2>4, FS_Product
<1>6. CASE setup.type = "block"
  <2>1. IsFiniteSet(C) /\ Cardinality(C) = setup.k
    BY <1>1, <1>6, WindowsAreK
  <2>2. IsFiniteSet(R) /\ Cardinality(R) = setup.k
    BY <1>1, <1>6, WindowsAreK
  <2>3. Positions = (0 .. setup.height - 1) \X (0 .. setup.width - 1)
    BY <1>2, <1>6 DEF PredictPositions, Cells
  <2>4. \A p \in Positions :
          a \in Retained(p) <=> /\ a[1] \in Kept(p[1], setup.k, setup.height)
                                /\ a[2] \in Kept(p[2], setup.k, setup.width)
    BY <1>1, <1>6 DEF Retained, KeptRows, KeptColumns
  <2>5. Showing = R \X C
    BY <2>3, <2>4 DEF Windows
  <2> QED
    BY <1>6, <2>1, <2>2, <2>5, FS_Product
<1> QED
  BY <1>4, <1>5, <1>6

(* A sweep shows every cell of an image equally often, at the borders too. *)
THEOREM SeenAlikeAlways == ASSUME \A s \in Setups : SquareRows(s) PROVE Spec => []SeenAlike
<1>1. ASSUME Placed PROVE SeenAlike
  <2>1. SquareRows(setup)
    BY <1>1 DEF Placed
  <2> QED
    BY <1>1, <2>1, ShownTimes DEF SeenAlike
<1> QED
  BY <1>1, PlacedAlways, PTL
=============================================================================
