------------------------ MODULE TreeVerificationProofs ------------------------
(***************************************************************************)
(* The search for eps of TreeVerification, for every classifier, batch and *)
(* number of steps: first the bounds and the error it returns, whatever    *)
(* the verdicts are, then that a verdict of robustness is right.           *)
(***************************************************************************)
EXTENDS TreeVerification, FiniteSetTheorems, FunctionTheorems, NaturalsInduction,
        WellFoundedInduction, TLAPS

Limit == Larger(One, eps_init)

(***************************************************************************)
(* Where the next eps lies with respect to the ones that were tried.       *)
(***************************************************************************)
Between ==
  /\ i_robust = FALSE => eps_robust = 0
  /\ i_not_robust = FALSE => eps_not_robust = 0
  /\ i_robust = TRUE => eps_robust <= eps
  /\ i_not_robust = TRUE => eps <= eps_not_robust

(***************************************************************************)
(* A sample counts as an initial success at most once.                     *)
(***************************************************************************)
CountedOnce ==
  /\ num_initial_successes <= i_sample
  /\ phase = "search" /\ i_step = 0 => num_initial_successes < i_sample

IInv == TypeOK /\ Between /\ BoundSeparates /\ CountedOnce

(***************************************************************************)
(* What TypeOK says of the numbers.                                        *)
(***************************************************************************)
LEMMA Numbers ==
  ASSUME TypeOK
  PROVE  /\ One \in Nat /\ eps_init \in Nat /\ Limit \in Nat /\ One <= Limit /\ eps_init <= Limit
         /\ eps \in Nat /\ eps <= Limit
         /\ eps_robust \in Nat /\ eps_robust <= Limit
         /\ eps_not_robust \in Nat /\ eps_not_robust <= Limit
         /\ i_sample \in Nat /\ i_step \in Nat /\ NSamples \in Nat /\ NSearchSteps \in Nat
         /\ average_bound \in Nat /\ num_initial_successes \in Nat
<1>1. One \in Nat /\ NSamples \in Nat /\ NSearchSteps \in Nat /\ EpsInits \subseteq Nat
  BY SearchAssumption
<1>2. eps_init \in EpsInits
  BY DEF TypeOK
<1>3. eps_init \in Nat
  BY <1>1, <1>2
<1>4. Limit \in Nat /\ One <= Limit /\ eps_init <= Limit
  BY <1>1, <1>3 DEF Limit, Larger
<1> QED
  BY <1>1, <1>3, <1>4 DEF TypeOK, Limit

(***************************************************************************)
(* The middle of two numbers lies between them.                            *)
(***************************************************************************)
LEMMA Middle ==
  ASSUME NEW a \in Nat, NEW b \in Nat, a <= b
  PROVE  (a + b) \div 2 \in Nat /\ a <= (a + b) \div 2 /\ (a + b) \div 2 <= b
BY Z3

\* The search begins in order.
LEMMA InitInvariant == Init => IInv
<1> SUFFICES ASSUME Init PROVE IInv
  OBVIOUS
<1>1. EpsInits \subseteq Nat /\ One \in Nat /\ NSamples \in Nat \ {0} /\ NSearchSteps \in Nat
  BY SearchAssumption
<1>2. eps_init \in Nat /\ eps = eps_init
  BY <1>1 DEF Init
<1>3. Larger(One, eps_init) \in Nat /\ eps_init <= Larger(One, eps_init)
  BY <1>1, <1>2 DEF Larger
<1>4. \E join \in Joins : max_clique = join[1] /\ max_level = join[2]
  BY DEF Init
<1>5. /\ eps \in 0 .. Larger(One, eps_init) /\ 0 \in 0 .. Larger(One, eps_init)
      /\ 1 \in 1 .. NSamples /\ 0 \in 0 .. NSearchSteps /\ 0 \in 0 .. NSamples
  BY <1>1, <1>2, <1>3
<1>6. /\ model \in Models /\ x \in Inputs /\ y \in Labels
      /\ eps_init \in EpsInits /\ norm \in Norms
  BY DEF Init
<1>7. /\ phase = "search" /\ i_sample = 1 /\ i_step = 0
      /\ i_robust = FALSE /\ i_not_robust = FALSE
      /\ eps_robust = 0 /\ eps_not_robust = 0
      /\ average_bound = 0 /\ num_initial_successes = 0
      /\ passed = {} /\ failed = {}
  BY DEF Init
<1>8. TypeOK
  BY <1>4, <1>5, <1>6, <1>7 DEF TypeOK
<1> QED
  BY <1>1, <1>2, <1>7, <1>8 DEF IInv, Between, BoundSeparates, CountedOnce

(***************************************************************************)
(* The arguments stay, so their part of TypeOK does.                       *)
(***************************************************************************)
ArgumentsOK ==
  /\ model \in Models /\ x \in Inputs /\ y \in Labels
  /\ eps_init \in EpsInits /\ norm \in Norms
  /\ \E join \in Joins : max_clique = join[1] /\ max_level = join[2]

\* What a step that leaves the call alone leaves alone.
LEMMA ArgumentsKept ==
  ASSUME TypeOK, UNCHANGED call
  PROVE  ArgumentsOK' /\ Limit' = Limit /\ eps_init' = eps_init
BY DEF TypeOK, ArgumentsOK, call, Limit

(***************************************************************************)
(* Finding the sample robust keeps the order of what was tried.            *)
(***************************************************************************)
LEMMA RobustKeepsOrder ==
  ASSUME TypeOK, Between, BoundSeparates, FoundRobust
  PROVE  /\ BoundSeparates'
         /\ i_robust' = TRUE /\ eps_robust' = eps
         /\ i_not_robust' = i_not_robust /\ eps_not_robust' = eps_not_robust
         /\ passed' \subseteq Nat /\ failed' \subseteq Nat
<1>1. /\ i_robust' = TRUE /\ eps_robust' = eps /\ passed' = passed \cup {eps}
      /\ i_not_robust' = i_not_robust /\ eps_not_robust' = eps_not_robust /\ failed' = failed
  BY DEF FoundRobust
<1>2. passed \subseteq Nat /\ failed \subseteq Nat /\ i_not_robust \in BOOLEAN
  BY DEF TypeOK
<1>3. eps \in Nat /\ eps_robust \in Nat /\ eps_not_robust \in Nat
  BY Numbers
<1>4. ASSUME NEW e \in passed' PROVE e <= eps_robust'
  <2>1. CASE e = eps
    BY <1>1, <1>3, <2>1
  <2>2. CASE e \in passed
    <3>1. i_robust = TRUE /\ e <= eps_robust /\ e \in Nat
      BY <1>2, <2>2 DEF BoundSeparates, TypeOK
    <3>2. eps_robust <= eps
      BY <3>1 DEF Between
    <3> QED
      BY <1>1, <1>3, <3>1, <3>2
  <2> QED
    BY <1>1, <1>4, <2>1, <2>2
<1>5. ASSUME NEW e \in failed'
      PROVE  i_not_robust' /\ eps_robust' <= e /\ eps_not_robust' <= e
  <2>1. e \in failed /\ e \in Nat
    BY <1>1, <1>2, <1>5
  <2>2. i_not_robust = TRUE /\ eps_not_robust <= e
    BY <1>2, <2>1 DEF BoundSeparates
  <2>3. eps <= eps_not_robust
    BY <2>2 DEF Between
  <2> QED
    BY <1>1, <1>3, <2>1, <2>2, <2>3
<1>6. BoundSeparates'
  BY <1>1, <1>4, <1>5 DEF BoundSeparates
<1> QED
  BY <1>1, <1>2, <1>3, <1>6

(***************************************************************************)
(* So does finding it not robust.                                          *)
(***************************************************************************)
LEMMA NotRobustKeepsOrder ==
  ASSUME TypeOK, Between, BoundSeparates, FoundNotRobust
  PROVE  /\ BoundSeparates'
         /\ i_robust' = i_robust /\ eps_robust' = eps_robust
         /\ i_not_robust' = TRUE /\ eps_not_robust' = eps
         /\ passed' \subseteq Nat /\ failed' \subseteq Nat
         /\ num_initial_successes' = num_initial_successes
         /\ eps_robust <= eps
<1>1. /\ i_not_robust' = TRUE /\ eps_not_robust' = eps /\ failed' = failed \cup {eps}
      /\ i_robust' = i_robust /\ eps_robust' = eps_robust /\ passed' = passed
      /\ num_initial_successes' = num_initial_successes
  BY DEF FoundNotRobust
<1>2. passed \subseteq Nat /\ failed \subseteq Nat
      /\ i_robust \in BOOLEAN /\ i_not_robust \in BOOLEAN
  BY DEF TypeOK
<1>3. eps \in Nat /\ eps_robust \in Nat /\ eps_not_robust \in Nat
  BY Numbers
<1>4. eps_robust <= eps
  BY <1>2, <1>3 DEF Between
<1>5. ASSUME NEW e \in failed'
      PROVE  eps_robust' <= e /\ eps_not_robust' <= e
  <2>1. CASE e = eps
    BY <1>1, <1>3, <1>4, <2>1
  <2>2. CASE e \in failed
    <3>1. e \in Nat /\ i_not_robust = TRUE /\ eps_not_robust <= e /\ eps_robust <= e
      BY <1>2, <2>2 DEF BoundSeparates
    <3>2. eps <= eps_not_robust
      BY <3>1 DEF Between
    <3> QED
      BY <1>1, <1>3, <3>1, <3>2
  <2> QED
    BY <1>1, <1>5, <2>1, <2>2
<1>6. BoundSeparates'
  BY <1>1, <1>5 DEF BoundSeparates
<1> QED
  BY <1>1, <1>2, <1>3, <1>4, <1>6

(***************************************************************************)
(* The next eps stays within the limit and between the bounds.             *)
(***************************************************************************)
LEMMA NextEpsBetween ==
  ASSUME TypeOK, i_step < NSearchSteps, NextEps,
         i_robust' \in BOOLEAN, i_not_robust' \in BOOLEAN,
         eps_robust' \in Nat, eps_not_robust' \in Nat,
         eps_robust' <= Limit, eps_not_robust' <= Limit,
         i_robust' = TRUE \/ i_not_robust' = TRUE,
         i_robust' = TRUE /\ i_not_robust' = FALSE => eps_robust' = eps,
         i_robust' = TRUE /\ i_not_robust' = TRUE => eps_robust' <= eps_not_robust',
         i_robust' = FALSE => eps_robust' = 0 /\ eps_not_robust' = eps,
         i_not_robust' = FALSE => eps_not_robust' = 0
  PROVE  /\ Between'
         /\ eps' \in Nat /\ eps' <= Limit
         /\ i_step' \in 1 .. NSearchSteps
<1>1. /\ eps \in Nat /\ eps <= Limit /\ One \in Nat /\ One <= Limit /\ Limit \in Nat
      /\ i_step \in Nat /\ NSearchSteps \in Nat
  BY Numbers
<1>2. CASE ~i_robust' /\ eps' = eps \div 2 /\ i_step' = i_step + 1
  <2>1. eps' \in Nat /\ eps' <= eps
    BY <1>1, <1>2, Z3
  <2> QED
    BY <1>1, <1>2, <2>1 DEF Between
<1>3. CASE i_robust' /\ i_not_robust' /\ eps' = Bisected /\ i_step' = i_step + 1
  <2>1. i_robust' = TRUE /\ i_not_robust' = TRUE /\ eps_robust' <= eps_not_robust'
    BY <1>3
  <2>2. eps' = (eps_robust' + eps_not_robust') \div 2
    BY <1>3 DEF Bisected
  <2>3. eps' \in Nat /\ eps_robust' <= eps' /\ eps' <= eps_not_robust'
    BY <2>1, <2>2, Middle
  <2> QED
    BY <1>1, <1>3, <2>1, <2>3 DEF Between
<1>4. CASE i_robust' /\ ~i_not_robust' /\ eps < One /\ eps' = Doubled /\ i_step' = i_step + 1
  <2>1. i_robust' = TRUE /\ i_not_robust' = FALSE /\ eps_robust' = eps
    BY <1>4
  <2>2. eps' \in Nat /\ eps <= eps' /\ eps' <= One
    BY <1>1, <1>4 DEF Doubled, Smaller
  <2> QED
    BY <1>1, <1>4, <2>1, <2>2 DEF Between
<1>5. CASE i_robust' /\ ~i_not_robust' /\ eps >= One /\ eps' = eps /\ i_step' = NSearchSteps
  <2>1. i_robust' = TRUE /\ i_not_robust' = FALSE /\ eps_robust' = eps
    BY <1>5
  <2> QED
    BY <1>1, <1>5, <2>1 DEF Between
<1> QED
  BY <1>2, <1>3, <1>4, <1>5 DEF NextEps

\* Every step keeps the order of what was tried: the cases are the actions,
\* and in a search step the two verdicts.
LEMMA StepInvariant == IInv /\ [Next]_vars => IInv'
<1> SUFFICES ASSUME IInv, [Next]_vars PROVE IInv'
  OBVIOUS
<1>t. TypeOK /\ Between /\ BoundSeparates /\ CountedOnce
  BY DEF IInv
<1>n. /\ One \in Nat /\ eps_init \in Nat /\ Limit \in Nat /\ One <= Limit /\ eps_init <= Limit
      /\ eps \in Nat /\ eps <= Limit
      /\ eps_robust \in Nat /\ eps_robust <= Limit
      /\ eps_not_robust \in Nat /\ eps_not_robust <= Limit
      /\ i_sample \in Nat /\ i_step \in Nat /\ NSamples \in Nat /\ NSearchSteps \in Nat
      /\ average_bound \in Nat /\ num_initial_successes \in Nat
  BY <1>t, Numbers
<1>b. /\ i_robust \in BOOLEAN /\ i_not_robust \in BOOLEAN
      /\ phase \in {"search", "done", "raised"}
      /\ i_sample \in 1 .. NSamples
      /\ num_initial_successes \in 0 .. NSamples
      /\ passed \subseteq Nat /\ failed \subseteq Nat
  BY <1>t DEF TypeOK
<1>1. CASE Raise
  <2>1. /\ phase' = "raised"
        /\ UNCHANGED <<call, i_sample, i_step, eps, found, totals, verdicts>>
    BY <1>1 DEF Raise
  <2>2. ArgumentsOK' /\ eps_init' = eps_init
    BY <1>t, <2>1, ArgumentsKept
  <2>3. TypeOK'
    BY <1>t, <2>1, <2>2 DEF TypeOK, ArgumentsOK, found, totals, verdicts
  <2> QED
    BY <1>t, <2>1, <2>3
       DEF IInv, Between, BoundSeparates, CountedOnce, found, totals, verdicts
<1>2. CASE SearchStep
  <2>1. /\ phase = "search" /\ i_step < NSearchSteps /\ NextEps
        /\ FoundRobust \/ FoundNotRobust
        /\ UNCHANGED <<call, phase, i_sample, average_bound, bounds>>
    BY <1>2 DEF SearchStep
  <2>2. ArgumentsOK' /\ Limit' = Limit /\ eps_init' = eps_init
    BY <1>t, <2>1, ArgumentsKept
  <2>3. /\ BoundSeparates' /\ passed' \subseteq Nat /\ failed' \subseteq Nat
        /\ i_robust' \in BOOLEAN /\ i_not_robust' \in BOOLEAN
        /\ eps_robust' \in Nat /\ eps_not_robust' \in Nat
        /\ eps_robust' <= Limit /\ eps_not_robust' <= Limit
        /\ Between'
        /\ eps' \in Nat /\ eps' <= Limit
        /\ i_step' \in 1 .. NSearchSteps
    <3>1. CASE FoundRobust
      <4>1. /\ BoundSeparates'
            /\ i_robust' = TRUE /\ eps_robust' = eps
            /\ i_not_robust' = i_not_robust /\ eps_not_robust' = eps_not_robust
            /\ passed' \subseteq Nat /\ failed' \subseteq Nat
        BY <1>t, <3>1, RobustKeepsOrder
      <4>2. i_not_robust = TRUE => eps <= eps_not_robust
        BY <1>t DEF Between
      <4>3. i_not_robust = FALSE => eps_not_robust = 0
        BY <1>t DEF Between
      <4>4. /\ Between' /\ eps' \in Nat /\ eps' <= Limit /\ i_step' \in 1 .. NSearchSteps
        BY <1>t, <1>n, <1>b, <2>1, <4>1, <4>2, <4>3, NextEpsBetween
      <4> QED
        BY <1>n, <1>b, <4>1, <4>4
    <3>2. CASE FoundNotRobust
      <4>1. /\ BoundSeparates'
            /\ i_robust' = i_robust /\ eps_robust' = eps_robust
            /\ i_not_robust' = TRUE /\ eps_not_robust' = eps
            /\ passed' \subseteq Nat /\ failed' \subseteq Nat
            /\ eps_robust <= eps
        BY <1>t, <3>2, NotRobustKeepsOrder
      <4>2. i_robust = FALSE => eps_robust = 0
        BY <1>t DEF Between
      <4>3. /\ Between' /\ eps' \in Nat /\ eps' <= Limit /\ i_step' \in 1 .. NSearchSteps
        BY <1>t, <1>n, <1>b, <2>1, <4>1, <4>2, NextEpsBetween
      <4> QED
        BY <1>n, <1>b, <4>1, <4>3
    <3> QED
      BY <2>1, <3>1, <3>2
  <2>4. /\ num_initial_successes' \in 0 .. NSamples
        /\ num_initial_successes' <= i_sample
    <3>1. num_initial_successes' = num_initial_successes
          \/ (i_step = 0 /\ num_initial_successes' = num_initial_successes + 1)
      BY <2>1 DEF FoundRobust, FoundNotRobust, Counts
    <3>2. num_initial_successes <= i_sample
          /\ (i_step = 0 => num_initial_successes < i_sample)
      BY <1>t, <2>1 DEF CountedOnce
    <3> QED
      BY <1>n, <1>b, <3>1, <3>2
  <2>5. phase' = phase /\ i_sample' = i_sample /\ average_bound' = average_bound
    BY <2>1
  <2>6. eps' \in 0 .. Larger(One, eps_init')
        /\ eps_robust' \in 0 .. Larger(One, eps_init')
        /\ eps_not_robust' \in 0 .. Larger(One, eps_init')
        /\ i_step' \in 0 .. NSearchSteps /\ i_step' # 0
    BY <1>n, <2>2, <2>3 DEF Limit
  <2>7. TypeOK'
    BY <1>n, <1>b, <2>2, <2>3, <2>4, <2>5, <2>6 DEF TypeOK, ArgumentsOK
  <2>8. CountedOnce'
    BY <2>4, <2>5, <2>6 DEF CountedOnce
  <2> QED
    BY <2>3, <2>7, <2>8 DEF IInv
<1>3. CASE SampleEnd
  <2>1. /\ phase = "search"
        /\ average_bound' = IF i_robust THEN average_bound + eps_robust ELSE average_bound
        /\ phase' = IF i_sample < NSamples THEN "search" ELSE "done"
        /\ i_sample' = IF i_sample < NSamples THEN i_sample + 1 ELSE i_sample
        /\ i_step' = 0 /\ eps' = eps_init
        /\ i_robust' = FALSE /\ i_not_robust' = FALSE
        /\ eps_robust' = 0 /\ eps_not_robust' = 0
        /\ passed' = {} /\ failed' = {}
        /\ UNCHANGED <<call, num_initial_successes>>
    BY <1>3 DEF SampleEnd, Fresh
  <2>2. ArgumentsOK' /\ Limit' = Limit /\ eps_init' = eps_init
    BY <1>t, <2>1, ArgumentsKept
  <2>3. average_bound' \in Nat
    BY <1>n, <1>b, <2>1
  <2>4. /\ i_sample' \in 1 .. NSamples
        /\ phase' \in {"search", "done", "raised"}
        /\ num_initial_successes <= i_sample'
        /\ phase' = "search" => num_initial_successes < i_sample'
    <3>1. num_initial_successes <= i_sample
      BY <1>t DEF CountedOnce
    <3> QED
      BY <1>n, <1>b, <2>1, <3>1
  <2>5. eps' \in 0 .. Larger(One, eps_init') /\ 0 \in 0 .. Larger(One, eps_init')
        /\ 0 \in 0 .. NSearchSteps
    BY <1>n, <2>1, <2>2 DEF Limit
  <2>6. TypeOK'
    BY <1>n, <1>b, <2>1, <2>2, <2>3, <2>4, <2>5 DEF TypeOK, ArgumentsOK
  <2>7. Between' /\ BoundSeparates' /\ CountedOnce'
    BY <2>1, <2>4 DEF Between, BoundSeparates, CountedOnce
  <2> QED
    BY <2>6, <2>7 DEF IInv
<1>4. CASE UNCHANGED vars
  <2>1. UNCHANGED <<call, phase, i_sample, i_step, eps, found, totals, verdicts>>
    BY <1>4 DEF vars
  <2>2. ArgumentsOK' /\ eps_init' = eps_init
    BY <1>t, <2>1, ArgumentsKept
  <2>3. TypeOK'
    BY <1>t, <2>1, <2>2 DEF TypeOK, ArgumentsOK, found, totals, verdicts
  <2> QED
    BY <1>t, <2>1, <2>3
       DEF IInv, Between, BoundSeparates, CountedOnce, found, totals, verdicts
<1> QED
  BY <1>1, <1>2, <1>3, <1>4 DEF Next, Over

(***************************************************************************)
(* The invariant holds of every behaviour.                                 *)
(***************************************************************************)
THEOREM Invariant == Spec => []IInv
BY InitInvariant, StepInvariant, PTL DEF Spec

(***************************************************************************)
(* The variables of the search keep their ranges.                          *)
(***************************************************************************)
THEOREM TypeCorrect == Spec => []TypeOK
<1>1. IInv => TypeOK
  BY DEF IInv
<1> QED
  BY Invariant, <1>1, PTL

(***************************************************************************)
(* The bound separates the eps found robust from the others.               *)
(***************************************************************************)
THEOREM BoundSeparatesAlways == Spec => []BoundSeparates
<1>1. IInv => BoundSeparates
  BY DEF IInv
<1> QED
  BY Invariant, <1>1, PTL

-----------------------------------------------------------------------------
(* What the verdicts are used for.                                         *)

(***************************************************************************)
(* Every bound that is added up had a verdict for it, and so has every eps *)
(* that may still become one.                                              *)
(***************************************************************************)
BoundsVerified ==
  \A s \in DOMAIN bounds : bounds[s] > 0 => IsRobust(arguments, s, bounds[s])

PassedVerified ==
  /\ \A e \in passed : IsRobust(arguments, i_sample, e)
  /\ i_robust = TRUE => eps_robust \in passed
  /\ bounds \in Seq(Nat)
  /\ Len(bounds) = IF phase = "done" THEN NSamples ELSE i_sample - 1

(***************************************************************************)
(* A sample is an initial success only by a verdict at eps_init, with      *)
(* which its search begins.                                                *)
(***************************************************************************)
Begun(s) == s < i_sample \/ (s = i_sample /\ (i_step > 0 \/ phase = "done"))
Successes == {s \in 1 .. NSamples : Begun(s) /\ IsRobust(arguments, s, eps_init)}

SuccessesVerified ==
  /\ i_step = 0 => eps = eps_init
  /\ num_initial_successes <= Cardinality(Successes)

VInv == IInv /\ BoundsVerified /\ PassedVerified /\ SuccessesVerified

\* Sets of samples are finite and can be counted.
LEMMA SuccessesFinite ==
  ASSUME NEW S \in SUBSET (1 .. NSamples)
  PROVE  /\ IsFiniteSet(S) /\ Cardinality(S) \in Nat
         /\ \A T \in SUBSET S : Cardinality(T) <= Cardinality(S)
         /\ \A s \in S : Cardinality(S \ {s}) = Cardinality(S) - 1
<1>1. IsFiniteSet(1 .. NSamples)
  <2>1. 1 \in Int /\ NSamples \in Int
    BY SearchAssumption
  <2> QED
    BY <2>1, FS_Interval
<1>2. IsFiniteSet(S)
  BY <1>1, FS_Subset
<1> QED
  BY <1>2, FS_Subset, FS_CardinalityType, FS_RemoveElement

\* Nothing is verified to begin with.
LEMMA VInit == Init => VInv
<1> SUFFICES ASSUME Init PROVE VInv
  OBVIOUS
<1>1. /\ phase = "search" /\ i_sample = 1 /\ i_step = 0 /\ eps = eps_init
      /\ i_robust = FALSE /\ num_initial_successes = 0 /\ bounds = << >> /\ passed = {}
  BY DEF Init
<1>2. IInv
  BY InitInvariant
<1>3. BoundsVerified /\ PassedVerified
  BY <1>1 DEF BoundsVerified, PassedVerified
<1>4. SuccessesVerified
  <2>1. Successes \subseteq 1 .. NSamples
    BY DEF Successes
  <2> QED
    BY <1>1, <2>1, SuccessesFinite DEF SuccessesVerified
<1> QED
  BY <1>2, <1>3, <1>4 DEF VInv

\* Every step adds a bound, or counts a sample, only by a verdict.
LEMMA VStep == VInv /\ [Next]_vars => VInv'
<1> SUFFICES ASSUME VInv, [Next]_vars PROVE VInv'
  OBVIOUS
<1>i. IInv /\ IInv' /\ TypeOK
  BY StepInvariant DEF VInv, IInv
<1>v. BoundsVerified /\ PassedVerified /\ SuccessesVerified
  BY DEF VInv
<1>n. /\ eps_init \in Nat /\ eps \in Nat /\ eps_robust \in Nat
      /\ i_sample \in 1 .. NSamples /\ i_step \in Nat /\ NSamples \in Nat /\ NSearchSteps \in Nat
      /\ num_initial_successes \in Nat /\ i_robust \in BOOLEAN
  BY <1>i, Numbers DEF TypeOK
<1>a. UNCHANGED call => arguments' = arguments /\ eps_init' = eps_init
  BY DEF call, arguments
<1>s. Successes \subseteq 1 .. NSamples
  BY DEF Successes
<1>1. CASE Raise
  <2>1. /\ phase = "search" /\ phase' = "raised"
        /\ UNCHANGED <<i_sample, i_step, eps, i_robust, eps_robust, num_initial_successes,
                       bounds, passed>>
        /\ arguments' = arguments /\ eps_init' = eps_init
    BY <1>1, <1>a DEF Raise, found, totals, verdicts
  <2>2. BoundsVerified' /\ PassedVerified'
    BY <1>v, <2>1 DEF BoundsVerified, PassedVerified
  <2>3. Successes' = Successes
    BY <2>1 DEF Successes, Begun
  <2>4. SuccessesVerified'
    BY <1>v, <2>1, <2>3 DEF SuccessesVerified
  <2> QED
    BY <1>i, <2>2, <2>4 DEF VInv
<1>2. CASE SearchStep
  <2>1. /\ phase = "search" /\ i_step < NSearchSteps /\ NextEps
        /\ IF IsRobust(arguments, i_sample, eps) THEN FoundRobust ELSE FoundNotRobust
        /\ UNCHANGED <<phase, i_sample, bounds>>
        /\ arguments' = arguments /\ eps_init' = eps_init
    BY <1>2, <1>a DEF SearchStep
  <2>2. BoundsVerified'
    BY <1>v, <2>1 DEF BoundsVerified
  <2>3. PassedVerified'
    <3>1. CASE IsRobust(arguments, i_sample, eps)
      <4>1. passed' = passed \cup {eps} /\ eps_robust' = eps
        BY <2>1, <3>1 DEF FoundRobust
      <4> QED
        BY <1>v, <2>1, <3>1, <4>1 DEF PassedVerified
    <3>2. CASE ~IsRobust(arguments, i_sample, eps)
      <4>1. passed' = passed /\ eps_robust' = eps_robust /\ i_robust' = i_robust
        BY <2>1, <3>2 DEF FoundNotRobust
      <4> QED
        BY <1>v, <2>1, <4>1 DEF PassedVerified
    <3> QED
      BY <3>1, <3>2
  <2>4. i_step' > 0
    BY <1>n, <2>1 DEF NextEps
  <2>5. SuccessesVerified'
    <3>1. Successes \subseteq Successes' /\ Successes' \subseteq 1 .. NSamples
      BY <2>1, <2>4 DEF Successes, Begun
    <3>2. Cardinality(Successes) \in Nat /\ Cardinality(Successes') \in Nat
          /\ Cardinality(Successes) <= Cardinality(Successes')
      BY <1>s, <3>1, SuccessesFinite
    <3>3. CASE i_step = 0 /\ IsRobust(arguments, i_sample, eps)
      <4>1. num_initial_successes' = num_initial_successes + 1 /\ eps = eps_init
        BY <1>v, <2>1, <3>3 DEF FoundRobust, Counts, SuccessesVerified
      <4>2. i_sample \in Successes' /\ i_sample \notin Successes
        BY <1>n, <2>1, <2>4, <3>3, <4>1 DEF Successes, Begun
      <4>3. Cardinality(Successes' \ {i_sample}) = Cardinality(Successes') - 1
        BY <3>1, <4>2, SuccessesFinite
      <4>4. Successes \subseteq Successes' \ {i_sample} /\ Successes' \ {i_sample} \subseteq 1 .. NSamples
        BY <3>1, <4>2
      <4>5. Cardinality(Successes) <= Cardinality(Successes' \ {i_sample})
        BY <4>4, SuccessesFinite
      <4> QED
        BY <1>n, <1>v, <2>4, <3>2, <4>1, <4>3, <4>5 DEF SuccessesVerified
    <3>4. CASE ~(i_step = 0 /\ IsRobust(arguments, i_sample, eps))
      <4>1. num_initial_successes' = num_initial_successes
        BY <2>1, <3>4 DEF FoundRobust, FoundNotRobust, Counts
      <4> QED
        BY <1>n, <1>v, <2>4, <3>2, <4>1 DEF SuccessesVerified
    <3> QED
      BY <3>3, <3>4
  <2> QED
    BY <1>i, <2>2, <2>3, <2>5 DEF VInv
<1>3. CASE SampleEnd
  <2>1. /\ phase = "search"
        /\ bounds' = Append(bounds, IF i_robust THEN eps_robust ELSE 0)
        /\ phase' = IF i_sample < NSamples THEN "search" ELSE "done"
        /\ i_sample' = IF i_sample < NSamples THEN i_sample + 1 ELSE i_sample
        /\ i_step' = 0 /\ eps' = eps_init /\ i_robust' = FALSE /\ passed' = {}
        /\ num_initial_successes' = num_initial_successes
        /\ arguments' = arguments /\ eps_init' = eps_init
    BY <1>3, <1>a DEF SampleEnd
  <2> DEFINE bound == IF i_robust THEN eps_robust ELSE 0
  <2>2. bound \in Nat /\ (bound > 0 => IsRobust(arguments, i_sample, bound))
    BY <1>n, <1>v DEF PassedVerified
  <2>3. bounds \in Seq(Nat) /\ Len(bounds) = i_sample - 1
    BY <1>v, <2>1 DEF PassedVerified
  <2>4. bounds' = Append(bounds, bound)
    BY <2>1
  <2> HIDE DEF bound
  <2>5. /\ bounds' \in Seq(Nat) /\ Len(bounds') = i_sample
        /\ DOMAIN bounds' = 1 .. i_sample /\ bounds'[i_sample] = bound
        /\ \A s \in 1 .. i_sample - 1 : s \in DOMAIN bounds /\ bounds'[s] = bounds[s]
    BY <1>n, <2>2, <2>3, <2>4
  <2>6. BoundsVerified'
    BY <1>n, <1>v, <2>1, <2>2, <2>5 DEF BoundsVerified
  <2>7. PassedVerified'
    BY <1>n, <2>1, <2>5 DEF PassedVerified
  <2>8. SuccessesVerified'
    <3>1. Successes \subseteq Successes' /\ Successes' \subseteq 1 .. NSamples
      BY <1>n, <2>1 DEF Successes, Begun
    <3>2. Cardinality(Successes) \in Nat /\ Cardinality(Successes') \in Nat
          /\ Cardinality(Successes) <= Cardinality(Successes')
      BY <1>s, <3>1, SuccessesFinite
    <3> QED
      BY <1>n, <1>v, <2>1, <3>2 DEF SuccessesVerified
  <2> QED
    BY <1>i, <2>6, <2>7, <2>8 DEF VInv
<1>4. CASE UNCHANGED vars
  <2>1. /\ UNCHANGED <<phase, i_sample, i_step, eps, i_robust, eps_robust, num_initial_successes,
                       bounds, passed>>
        /\ arguments' = arguments /\ eps_init' = eps_init
    BY <1>4, <1>a DEF vars, found, totals, verdicts
  <2>2. BoundsVerified' /\ PassedVerified'
    BY <1>v, <2>1 DEF BoundsVerified, PassedVerified
  <2>3. Successes' = Successes
    BY <2>1 DEF Successes, Begun
  <2>4. SuccessesVerified'
    BY <1>v, <2>1, <2>3 DEF SuccessesVerified
  <2> QED
    BY <1>i, <2>2, <2>4 DEF VInv
<1> QED
  BY <1>1, <1>2, <1>3, <1>4 DEF Next, Over

(***************************************************************************)
(* Whatever the verdicts are, the bound of a sample is 0 or an eps with a  *)
(* verdict for it, and the samples counted as verified at eps_init are no  *)
(* more than have a verdict for them there.                                *)
(***************************************************************************)
THEOREM BoundsVerifiedAlways == Spec => []BoundsVerified
<1>1. VInv => BoundsVerified
  BY DEF VInv
<1> QED
  BY <1>1, VInit, VStep, PTL DEF Spec

(***************************************************************************)
(* Induction: a set of numbers with 0 and all successors is all of them.   *)
(***************************************************************************)
LEMMA Induct ==
  ASSUME NEW G, 0 \in G, \A n \in Nat : n \in G => n + 1 \in G
  PROVE  Nat \subseteq G
<1> SUFFICES ASSUME Nat \ G # {} PROVE FALSE
  OBVIOUS
<1>1. PICK m \in Nat \ G : \A k \in Nat \ G : ~(<<k, m>> \in OpToRel(<, Nat))
  BY NatLessThanWellFounded, WFMin
<1>2. m # 0
  OBVIOUS
<1>3. m - 1 \in Nat /\ m - 1 < m
  BY <1>2
<1>4. <<m - 1, m>> \in OpToRel(<, Nat)
  BY <1>3 DEF OpToRel
<1>5. m - 1 \in G
  BY <1>1, <1>3, <1>4
<1> QED
  BY <1>3, <1>5

(***************************************************************************)
(* Induction over the subsets of a finite set.                             *)
(***************************************************************************)
LEMMA InductFinite ==
  ASSUME NEW S, IsFiniteSet(S), NEW C, {} \in C,
         \A T \in SUBSET S : T # {} /\ (\A v \in T : T \ {v} \in C) => T \in C
  PROVE  SUBSET S \subseteq C
<1> DEFINE UpTo(n) == \A T \in SUBSET S : Cardinality(T) <= n => T \in C
           G == {n \in Nat : UpTo(n)}
<1>1. /\ \A T \in SUBSET S : IsFiniteSet(T) /\ Cardinality(T) \in Nat
      /\ \A T \in SUBSET S, v \in S : v \in T => /\ T \ {v} \in SUBSET S
                                                 /\ Cardinality(T \ {v}) = Cardinality(T) - 1
  BY FS_Subset, FS_CardinalityType, FS_RemoveElement
<1>2. UpTo(0)
  <2> SUFFICES ASSUME NEW T \in SUBSET S, Cardinality(T) <= 0 PROVE T \in C
    OBVIOUS
  <2>1. T = {}
    BY <1>1, FS_EmptySet
  <2> QED
    BY <2>1
<1>3. ASSUME NEW n \in Nat, UpTo(n) PROVE UpTo(n + 1)
  <2> SUFFICES ASSUME NEW T \in SUBSET S, Cardinality(T) <= n + 1, T # {}
               PROVE  T \in C
    OBVIOUS
  <2>1. ASSUME NEW v \in T PROVE T \ {v} \in C
    <3>1. T \ {v} \in SUBSET S /\ Cardinality(T \ {v}) = Cardinality(T) - 1 /\ Cardinality(T) \in Nat
      BY <1>1
    <3> QED
      BY <1>3, <3>1
  <2> QED
    BY <2>1
<1>4. 0 \in G /\ \A n \in Nat : n \in G => n + 1 \in G
  <2> HIDE DEF UpTo
  <2> QED
    BY <1>2, <1>3
<1>5. Nat \subseteq G
  <2> HIDE DEF G
  <2> QED
    BY <1>4, Induct
<1>6. ASSUME NEW T \in SUBSET S PROVE T \in C
  BY <1>1, <1>5
<1> QED
  BY <1>6

(***************************************************************************)
(* A finite set of numbers has a largest and a least element.              *)
(***************************************************************************)
LEMMA Extremes ==
  ASSUME NEW S, IsFiniteSet(S), S # {}, S \subseteq Int
  PROVE  /\ Max(S) \in S /\ \A v \in S : v <= Max(S)
         /\ Min(S) \in S /\ \A v \in S : Min(S) <= v
<1> DEFINE Bounded(T) == \E lo, hi \in T : \A v \in T : lo <= v /\ v <= hi
           C == {T \in SUBSET S : T = {} \/ Bounded(T)}
<1>1. ASSUME NEW T \in SUBSET S, T # {}, \A v \in T : T \ {v} \in C
      PROVE  Bounded(T)
  <2>1. PICK u \in T : TRUE
    BY <1>1
  <2>2. CASE T \ {u} = {}
    <3>1. T = {u} /\ u \in Int
      BY <2>1, <2>2
    <3> QED
      BY <3>1
  <2>3. CASE Bounded(T \ {u})
    <3>1. PICK lo \in T \ {u}, hi \in T \ {u} : \A v \in T \ {u} : lo <= v /\ v <= hi
      BY <2>3
    <3>2. u \in Int /\ lo \in Int /\ hi \in Int /\ \A v \in T : v \in Int
      BY <2>1, <3>1
    <3>3. \E low \in T : \A v \in T : low <= v
      BY <2>1, <3>1, <3>2
    <3>4. \E high \in T : \A v \in T : v <= high
      BY <2>1, <3>1, <3>2
    <3> QED
      BY <3>3, <3>4
  <2> QED
    BY <1>1, <2>1, <2>2, <2>3
<1>2. {} \in C /\ \A T \in SUBSET S : T # {} /\ (\A v \in T : T \ {v} \in C) => T \in C
  <2> HIDE DEF Bounded
  <2> QED
    BY <1>1
<1>3. SUBSET S \subseteq C
  <2> HIDE DEF C
  <2> QED
    BY <1>2, InductFinite
<1>4. \E lo, hi \in S : \A v \in S : lo <= v /\ v <= hi
  BY <1>3
<1>5. Max(S) \in S /\ \A v \in S : Max(S) >= v
  BY <1>4 DEF Max
<1>6. Min(S) \in S /\ \A v \in S : Min(S) <= v
  BY <1>4 DEF Min
<1> QED
  BY <1>5, <1>6

(***************************************************************************)
(* Sums: the value of one element comes out of a sum.                      *)
(***************************************************************************)
pick(T) == CHOOSE u \in T : TRUE
Sums(fun, S) ==
  LET iter[T \in SUBSET S] == IF T = {} THEN 0 ELSE fun[pick(T)] + iter[T \ {pick(T)}] IN iter

\* The sum over S, by the iteration that the library module defines it with.
LEMMA SumIsIter ==
  ASSUME NEW fun, NEW S
  PROVE  SumFunctionOnSet(fun, S) = Sums(fun, S)[S]
BY DEF SumFunctionOnSet, FoldFunctionOnSet, MapThenFoldSet, Sums, pick

\* The iteration has a solution, so that its equation holds.
LEMMA SumsDefined ==
  ASSUME NEW fun, NEW S, IsFiniteSet(S)
  PROVE  \A T \in SUBSET S :
           Sums(fun, S)[T] = IF T = {} THEN 0 ELSE fun[pick(T)] + Sums(fun, S)[T \ {pick(T)}]
<1> DEFINE Body(g, T) == IF T = {} THEN 0 ELSE fun[pick(T)] + g[T \ {pick(T)}]
           Solves(g, n) == /\ g = [T \in SUBSET S |-> g[T]]
                           /\ \A T \in SUBSET S : Cardinality(T) <= n => g[T] = Body(g, T)
           G == {n \in Nat : \E g : Solves(g, n)}
<1>1. \A T \in SUBSET S : IsFiniteSet(T) /\ Cardinality(T) \in Nat
  BY FS_Subset, FS_CardinalityType
<1>2. \A T \in SUBSET S : T # {} => /\ T \ {pick(T)} \in SUBSET S
                                    /\ Cardinality(T \ {pick(T)}) = Cardinality(T) - 1
  BY <1>1, FS_RemoveElement DEF pick
<1>3. 0 \in G
  <2> DEFINE g == [T \in SUBSET S |-> 0]
  <2>1. \A T \in SUBSET S : Cardinality(T) <= 0 => T = {}
    BY <1>1, FS_EmptySet
  <2>2. Solves(g, 0)
    BY <2>1
  <2> QED
    BY <2>2
<1>4. ASSUME NEW n \in Nat, n \in G PROVE n + 1 \in G
  <2>1. PICK g : Solves(g, n)
    BY <1>4
  <2> DEFINE h == [T \in SUBSET S |-> Body(g, T)]
  <2>2. h = [T \in SUBSET S |-> h[T]] /\ \A T \in SUBSET S : h[T] = Body(g, T)
    OBVIOUS
  <2> HIDE DEF h
  <2>3. ASSUME NEW T \in SUBSET S, Cardinality(T) <= n + 1, T # {}
        PROVE  h[T \ {pick(T)}] = g[T \ {pick(T)}]
    <3>1. T \ {pick(T)} \in SUBSET S /\ Cardinality(T \ {pick(T)}) = Cardinality(T) - 1
      BY <1>2, <2>3
    <3>2. Cardinality(T) \in Nat /\ Cardinality(T \ {pick(T)}) <= n
      BY <1>1, <2>3, <3>1
        <3> QED
      BY <2>1, <2>2, <3>1, <3>2
  <2>4. ASSUME NEW T \in SUBSET S, Cardinality(T) <= n + 1
        PROVE  h[T] = Body(h, T)
    <3>1. h[T] = Body(g, T) /\ (T # {} => h[T \ {pick(T)}] = g[T \ {pick(T)}])
      BY <2>2, <2>3, <2>4
        <3> QED
      BY <3>1
  <2>5. Solves(h, n + 1)
    BY <2>2, <2>4
  <2> HIDE DEF Solves
  <2> QED
    BY <2>5
<1>5. Nat \subseteq G
  <2> HIDE DEF G
  <2> QED
    BY <1>3, <1>4, Induct
<1>6. Cardinality(S) \in Nat
  BY FS_CardinalityType
<1>7. PICK g : Solves(g, Cardinality(S))
  <2> HIDE DEF Solves
  <2> QED
    BY <1>5, <1>6
<1>8. \A T \in SUBSET S : Cardinality(T) <= Cardinality(S)
  BY FS_Subset
<1>9. g = [T \in SUBSET S |-> Body(g, T)]
  BY <1>7, <1>8
<1>10. Sums(fun, S) = [T \in SUBSET S |-> Body(Sums(fun, S), T)]
  BY <1>9 DEF Sums
<1> QED
  BY <1>10

\* The sum over a part of S is the same taken by itself.
LEMMA SumsAgree ==
  ASSUME NEW fun, NEW S, IsFiniteSet(S), NEW R \in SUBSET S
  PROVE  Sums(fun, S)[R] = SumFunctionOnSet(fun, R)
<1> DEFINE Agree(T) == Sums(fun, R)[T] = Sums(fun, S)[T]
           C == {T \in SUBSET R : Agree(T)}
<1>1. IsFiniteSet(R)
  BY FS_Subset
<1>2. \A T \in SUBSET R :
        /\ T = {} => Sums(fun, R)[T] = 0 /\ Sums(fun, S)[T] = 0
        /\ T # {} => /\ Sums(fun, R)[T] = fun[pick(T)] + Sums(fun, R)[T \ {pick(T)}]
                     /\ Sums(fun, S)[T] = fun[pick(T)] + Sums(fun, S)[T \ {pick(T)}]
  <2>1. \A T \in SUBSET R :
          Sums(fun, R)[T] = IF T = {} THEN 0 ELSE fun[pick(T)] + Sums(fun, R)[T \ {pick(T)}]
    BY <1>1, SumsDefined
  <2>2. \A T \in SUBSET S :
          Sums(fun, S)[T] = IF T = {} THEN 0 ELSE fun[pick(T)] + Sums(fun, S)[T \ {pick(T)}]
    BY <1>1, SumsDefined
  <2> QED
    BY <1>1, <2>1, <2>2
<1>3. Agree({})
  BY <1>2
<1>4. ASSUME NEW T \in SUBSET R, T # {}, \A v \in T : Agree(T \ {v})
      PROVE  Agree(T)
  <2>1. pick(T) \in T
    BY <1>4 DEF pick
  <2> QED
    BY <1>2, <1>4, <2>1
<1>5. {} \in C /\ \A T \in SUBSET R : T # {} /\ (\A v \in T : T \ {v} \in C) => T \in C
  <2> HIDE DEF Agree
  <2> QED
    BY <1>3, <1>4
<1>6. SUBSET R \subseteq C
  <2> HIDE DEF C
  <2> QED
    BY <1>1, <1>5, InductFinite
<1>7. Agree(R)
  <2> HIDE DEF Agree
  <2> QED
    BY <1>6
<1> QED
  BY <1>7, SumIsIter

\* A sum is one of its terms and the sum of the others...
LEMMA SumPicks ==
  ASSUME NEW fun, NEW S, IsFiniteSet(S)
  PROVE  /\ S = {} => SumFunctionOnSet(fun, S) = 0
         /\ S # {} => SumFunctionOnSet(fun, S) = fun[pick(S)] + SumFunctionOnSet(fun, S \ {pick(S)})
<1> DEFINE b == Sums(fun, S)
<1>1. \A T \in SUBSET S : b[T] = IF T = {} THEN 0 ELSE fun[pick(T)] + b[T \ {pick(T)}]
  BY SumsDefined
<1>2. b[S] = SumFunctionOnSet(fun, S) /\ b[S \ {pick(S)}] = SumFunctionOnSet(fun, S \ {pick(S)})
  BY SumsAgree
<1> HIDE DEF b
<1>3. b[S] = IF S = {} THEN 0 ELSE fun[pick(S)] + b[S \ {pick(S)}]
  BY <1>1
<1> QED
  BY <1>2, <1>3

(***************************************************************************)
(* A sum of numbers is one, and any element may be taken out of it.        *)
(***************************************************************************)
LEMMA SumIsNumber ==
  ASSUME NEW fun, NEW S, IsFiniteSet(S), \A v \in S : fun[v] \in Int
  PROVE  /\ SumFunctionOnSet(fun, {}) = 0
         /\ \A T \in SUBSET S : SumFunctionOnSet(fun, T) \in Int
<1> DEFINE sum == [T \in SUBSET S |-> SumFunctionOnSet(fun, T)]
           C == {T \in SUBSET S : sum[T] \in Int}
<1>1. \A T \in SUBSET S : sum[T] = SumFunctionOnSet(fun, T)
  OBVIOUS
<1> HIDE DEF sum
<1>2. ASSUME NEW T \in SUBSET S, T # {}, \A v \in T : T \ {v} \in C
      PROVE  sum[T] \in Int
  <2> DEFINE p == pick(T)
  <2>1. p \in T
    BY <1>2 DEF pick
  <2>2. SumFunctionOnSet(fun, T) = fun[p] + SumFunctionOnSet(fun, T \ {p})
    BY <1>2, FS_Subset, SumPicks
  <2> HIDE DEF p
  <2>3. fun[p] \in Int /\ sum[T \ {p}] \in Int /\ T \ {p} \in SUBSET S
    BY <1>2, <2>1
  <2> QED
    BY <1>1, <2>2, <2>3
<1>3. SumFunctionOnSet(fun, {}) = 0
  BY FS_EmptySet, SumPicks
<1>4. {} \in C
  BY <1>1, <1>3
<1>5. SUBSET S \subseteq C
  <2>1. \A T \in SUBSET S : T # {} /\ (\A v \in T : T \ {v} \in C) => T \in C
    BY <1>2
  <2> HIDE DEF C
  <2> QED
    BY <1>4, <2>1, InductFinite
<1> QED
  BY <1>1, <1>3, <1>5

\* ...and that for every term, not just for the one picked first.
LEMMA SumRemoves ==
  ASSUME NEW fun, NEW S, IsFiniteSet(S), \A v \in S : fun[v] \in Int
  PROVE  \A v \in S : SumFunctionOnSet(fun, S) = fun[v] + SumFunctionOnSet(fun, S \ {v})
<1> DEFINE sum == [T \in SUBSET S |-> SumFunctionOnSet(fun, T)]
           Removes(T) == \A v \in T : sum[T] = fun[v] + sum[T \ {v}]
           C == {T \in SUBSET S : Removes(T)}
<1>1. \A T \in SUBSET S : sum[T] = SumFunctionOnSet(fun, T) /\ sum[T] \in Int
  BY SumIsNumber
<1>2. ASSUME NEW T \in SUBSET S, T # {}
      PROVE  pick(T) \in T /\ sum[T] = fun[pick(T)] + sum[T \ {pick(T)}]
  <2>1. pick(T) \in T
    BY <1>2 DEF pick
  <2>2. SumFunctionOnSet(fun, T) = fun[pick(T)] + SumFunctionOnSet(fun, T \ {pick(T)})
    BY <1>2, FS_Subset, SumPicks
  <2> QED
    BY <2>1, <2>2
<1> HIDE DEF sum
<1>3. ASSUME NEW T \in SUBSET S, T # {}, \A v \in T : Removes(T \ {v})
      PROVE  Removes(T)
  <2> DEFINE p == pick(T)
  <2>1. p \in T /\ sum[T] = fun[p] + sum[T \ {p}]
    BY <1>2, <1>3
  <2> HIDE DEF p
  <2>2. ASSUME NEW v \in T, v # p PROVE sum[T] = fun[v] + sum[T \ {v}]
    <3>1. sum[T \ {p}] = fun[v] + sum[(T \ {p}) \ {v}]
      BY <1>3, <2>1, <2>2
    <3>2. sum[T \ {v}] = fun[p] + sum[(T \ {v}) \ {p}]
      BY <1>3, <2>1, <2>2
    <3>3. sum[(T \ {p}) \ {v}] = sum[(T \ {v}) \ {p}]
      <4>1. (T \ {p}) \ {v} = (T \ {v}) \ {p}
        OBVIOUS
      <4> QED
        BY <4>1
    <3>4. (T \ {v}) \ {p} \in SUBSET S
      OBVIOUS
    <3>5. fun[p] \in Int /\ fun[v] \in Int /\ sum[(T \ {v}) \ {p}] \in Int
      BY <1>1, <2>1, <3>4
    <3> QED
      BY <2>1, <3>1, <3>2, <3>3, <3>5
  <2> QED
    BY <2>1, <2>2
<1>4. {} \in C /\ \A T \in SUBSET S : T # {} /\ (\A v \in T : T \ {v} \in C) => T \in C
  <2>1. Removes({})
    OBVIOUS
  <2> HIDE DEF Removes
  <2> QED
    BY <1>3, <2>1
<1>5. SUBSET S \subseteq C
  <2> HIDE DEF C
  <2> QED
    BY <1>4, InductFinite
<1>6. Removes(S)
  <2> HIDE DEF Removes
  <2> QED
    BY <1>5
<1> QED
  BY <1>1, <1>6

(***************************************************************************)
(* A sum of lesser numbers is less, and so is one of fewer numbers, unless *)
(* they are negative; a sum of differences is the difference of the sums.  *)
(***************************************************************************)
LEMMA SumsCompare ==
  ASSUME NEW f, NEW g, NEW S, IsFiniteSet(S),
         \A v \in S : f[v] \in Int /\ g[v] \in Int /\ f[v] <= g[v]
  PROVE  SumFunctionOnSet(f, S) <= SumFunctionOnSet(g, S)
<1> DEFINE a == [T \in SUBSET S |-> SumFunctionOnSet(f, T)]
           b == [T \in SUBSET S |-> SumFunctionOnSet(g, T)]
           C == {T \in SUBSET S : a[T] <= b[T]}
<1>1. \A T \in SUBSET S : a[T] \in Int /\ b[T] \in Int
  BY SumIsNumber
<1>2. a[{}] = 0 /\ b[{}] = 0
  BY SumIsNumber
<1>3. ASSUME NEW T \in SUBSET S, NEW v \in T
      PROVE  a[T] = f[v] + a[T \ {v}] /\ b[T] = g[v] + b[T \ {v}]
  BY FS_Subset, SumRemoves
<1>4. a[S] = SumFunctionOnSet(f, S) /\ b[S] = SumFunctionOnSet(g, S)
  OBVIOUS
<1> HIDE DEF a, b
<1>5. ASSUME NEW T \in SUBSET S, T # {}, \A v \in T : T \ {v} \in C
      PROVE  T \in C
  <2>1. PICK v \in T : TRUE
    BY <1>5
  <2>2. T \ {v} \in SUBSET S /\ a[T \ {v}] <= b[T \ {v}]
    BY <1>5
  <2>3. a[T] <= b[T]
    BY <1>1, <1>3, <2>2
  <2> QED
    BY <2>3
<1>6. {} \in C
  BY <1>2
<1>7. SUBSET S \subseteq C
  <2> HIDE DEF C
  <2> QED
    BY <1>5, <1>6, InductFinite
<1> QED
  BY <1>4, <1>7

\* The sum of the differences is the difference of the sums.
LEMMA SumsSubtract ==
  ASSUME NEW f, NEW g, NEW h, NEW S, IsFiniteSet(S),
         \A v \in S : f[v] \in Int /\ g[v] \in Int /\ h[v] = f[v] - g[v]
  PROVE  SumFunctionOnSet(h, S) = SumFunctionOnSet(f, S) - SumFunctionOnSet(g, S)
<1> DEFINE a == [T \in SUBSET S |-> SumFunctionOnSet(f, T)]
           b == [T \in SUBSET S |-> SumFunctionOnSet(g, T)]
           c == [T \in SUBSET S |-> SumFunctionOnSet(h, T)]
           C == {T \in SUBSET S : c[T] = a[T] - b[T]}
<1>0. \A v \in S : h[v] \in Int
  OBVIOUS
<1>1. \A T \in SUBSET S : a[T] \in Int /\ b[T] \in Int /\ c[T] \in Int
  BY <1>0, SumIsNumber
<1>2. a[{}] = 0 /\ b[{}] = 0 /\ c[{}] = 0
  BY <1>0, SumIsNumber
<1>3. ASSUME NEW T \in SUBSET S, NEW v \in T
      PROVE  /\ a[T] = f[v] + a[T \ {v}] /\ b[T] = g[v] + b[T \ {v}]
             /\ c[T] = h[v] + c[T \ {v}]
  BY <1>0, FS_Subset, SumRemoves
<1>4. /\ a[S] = SumFunctionOnSet(f, S) /\ b[S] = SumFunctionOnSet(g, S)
      /\ c[S] = SumFunctionOnSet(h, S)
  OBVIOUS
<1> HIDE DEF a, b, c
<1>5. ASSUME NEW T \in SUBSET S, T # {}, \A v \in T : T \ {v} \in C
      PROVE  T \in C
  <2>1. PICK v \in T : TRUE
    BY <1>5
  <2>2. T \ {v} \in SUBSET S /\ c[T \ {v}] = a[T \ {v}] - b[T \ {v}]
    BY <1>5
  <2>3. c[T] = a[T] - b[T]
    BY <1>1, <1>3, <2>2
  <2> QED
    BY <2>3
<1>6. {} \in C
  BY <1>2
<1>7. SUBSET S \subseteq C
  <2> HIDE DEF C
  <2> QED
    BY <1>5, <1>6, InductFinite
<1> QED
  BY <1>4, <1>7

LEMMA SumOfFewer ==
  ASSUME NEW f, NEW S, IsFiniteSet(S), \A v \in S : f[v] \in Nat, NEW R \in SUBSET S
  PROVE  SumFunctionOnSet(f, R) <= SumFunctionOnSet(f, S)
<1> DEFINE a == [T \in SUBSET S |-> SumFunctionOnSet(f, T)]
           C == {T \in SUBSET S : R \subseteq T => a[R] <= a[T]}
<1>0. \A v \in S : f[v] \in Int
  OBVIOUS
<1>1. \A T \in SUBSET S : a[T] \in Int
  BY <1>0, SumIsNumber
<1>2. ASSUME NEW T \in SUBSET S, NEW v \in T
      PROVE  a[T] = f[v] + a[T \ {v}]
  BY <1>0, FS_Subset, SumRemoves
<1>3. a[S] = SumFunctionOnSet(f, S) /\ a[R] = SumFunctionOnSet(f, R)
  OBVIOUS
<1> HIDE DEF a
<1>4. ASSUME NEW T \in SUBSET S, T # {}, \A v \in T : T \ {v} \in C
      PROVE  T \in C
  <2> SUFFICES ASSUME R \subseteq T, R # T PROVE a[R] <= a[T]
    BY <1>1
  <2>1. PICK v \in T \ R : TRUE
    OBVIOUS
  <2>2. T \ {v} \in SUBSET S /\ a[R] <= a[T \ {v}]
    BY <1>4, <2>1
  <2>3. f[v] \in Nat /\ a[T] = f[v] + a[T \ {v}]
    BY <1>2, <2>1
  <2> QED
    BY <1>1, <2>2, <2>3
<1>5. {} \in C
  BY <1>1
<1>6. SUBSET S \subseteq C
  <2> HIDE DEF C
  <2> QED
    BY <1>4, <1>5, InductFinite
<1> QED
  BY <1>3, <1>6

(***************************************************************************)
(* The sum of a sequence of numbers, one after the other.                  *)
(***************************************************************************)
SumTo(f, n) == SumFunctionOnSet(f, 1 .. n)

\* A sum of numbered terms grows by the last one.
LEMMA SumAppends ==
  ASSUME NEW f, NEW n \in Nat, \A i \in 1 .. n + 1 : f[i] \in Int
  PROVE  /\ SumTo(f, 0) = 0
         /\ SumTo(f, n) \in Int
         /\ SumTo(f, n + 1) = SumTo(f, n) + f[n + 1]
<1>1. IsFiniteSet(1 .. n + 1) /\ IsFiniteSet(1 .. n)
  BY FS_Interval
<1>2. (1 .. n + 1) \ {n + 1} = 1 .. n /\ n + 1 \in 1 .. n + 1 /\ 1 .. 0 = {}
  OBVIOUS
<1>3. SumFunctionOnSet(f, 1 .. n + 1) = f[n + 1] + SumFunctionOnSet(f, (1 .. n + 1) \ {n + 1})
  BY <1>1, <1>2, SumRemoves
<1>4. SumTo(f, n) \in Int /\ SumTo(f, 0) = 0
  BY <1>1, <1>2, SumIsNumber DEF SumTo
<1>5. f[n + 1] \in Int
  BY <1>2
<1>6. SumTo(f, n + 1) = f[n + 1] + SumTo(f, n)
  BY <1>2, <1>3 DEF SumTo
<1> QED
  BY <1>4, <1>5, <1>6

\* No terms, no sum.
LEMMA SumToNone ==
  ASSUME NEW f
  PROVE  SumTo(f, 0) = 0
  BY FS_EmptySet, SumIsNumber DEF SumTo

IsBox(b, F) ==
  DOMAIN b \subseteq F /\ \A f \in DOMAIN b : b[f].lower \in Int /\ b[f].upper \in Int

\* A threshold belongs to the right side of a split, in a forest to the left.
Inside(kind, p, b) ==
  \A f \in DOMAIN b :
    IF kind = "forest" THEN b[f].lower < p[f] /\ p[f] <= b[f].upper
                       ELSE b[f].lower <= p[f] /\ p[f] < b[f].upper

(***************************************************************************)
(* The intersection of two boxes holds the points of both, and is a box    *)
(* with intervals if there are any and one of the boxes has some.          *)
(***************************************************************************)
LEMMA IntersectionIsBox ==
  ASSUME NEW F, NEW a, NEW b, IsBox(a, F), IsBox(b, F)
  PROVE  IsBox(Intersection(a, b), F)
<1>1. CASE Intersection(a, b) = EmptyBox
  BY <1>1 DEF IsBox, EmptyBox
<1>2. CASE Intersection(a, b) # EmptyBox
  <2> DEFINE c == Intersection(a, b)
  <2>1. c = [f \in DOMAIN a \cup DOMAIN b |->
              CASE f \in DOMAIN a \cap DOMAIN b ->
                     [lower |-> Larger(a[f].lower, b[f].lower), upper |-> Smaller(a[f].upper, b[f].upper)]
                [] f \in DOMAIN a \ (DOMAIN a \cap DOMAIN b) -> a[f]
                [] f \in DOMAIN b \ (DOMAIN a \cap DOMAIN b) -> b[f]]
    BY <1>2 DEF Intersection
  <2> HIDE DEF c
  <2>2. DOMAIN c = DOMAIN a \cup DOMAIN b
    BY <2>1
  <2>3. ASSUME NEW f \in DOMAIN c PROVE c[f].lower \in Int /\ c[f].upper \in Int
    <3>1. CASE f \in DOMAIN a \cap DOMAIN b
      <4>1. c[f] = [lower |-> Larger(a[f].lower, b[f].lower), upper |-> Smaller(a[f].upper, b[f].upper)]
        BY <2>1, <3>1
      <4> QED
        BY <3>1, <4>1 DEF IsBox, Larger, Smaller
    <3>2. CASE f \in DOMAIN a \ DOMAIN b
      <4>1. c[f] = a[f]
        BY <2>1, <3>2
      <4> QED
        BY <3>2, <4>1 DEF IsBox
    <3>3. CASE f \in DOMAIN b \ DOMAIN a
      <4>1. c[f] = b[f]
        BY <2>1, <3>3
      <4> QED
        BY <3>3, <4>1 DEF IsBox
    <3> QED
      BY <2>2, <2>3, <3>1, <3>2, <3>3
  <2> QED
    BY <2>2, <2>3 DEF IsBox, c
<1> QED
  BY <1>1, <1>2

\* The points that are inside of two boxes keep the boxes from being disjoint.
LEMMA CommonPoints ==
  ASSUME NEW F, NEW a, NEW b, IsBox(a, F), IsBox(b, F),
         NEW kind, NEW p, \A f \in F : p[f] \in Int, Inside(kind, p, a), Inside(kind, p, b)
  PROVE  /\ DOMAIN Intersection(a, b) = DOMAIN a \cup DOMAIN b
         /\ Inside(kind, p, Intersection(a, b))
<1> DEFINE c == Intersection(a, b)
<1>1. \A f \in DOMAIN a \cap DOMAIN b :
        /\ a[f].lower \in Int /\ a[f].upper \in Int /\ b[f].lower \in Int /\ b[f].upper \in Int
        /\ p[f] \in Int
  BY DEF IsBox
<1>2. ASSUME NEW f \in DOMAIN a \cap DOMAIN b
      PROVE  ~Disjoint(Larger(a[f].lower, b[f].lower), Smaller(a[f].upper, b[f].upper))
  BY <1>1 DEF Inside, Disjoint, Larger, Smaller
<1>3. c = [f \in DOMAIN a \cup DOMAIN b |->
            CASE f \in DOMAIN a \cap DOMAIN b ->
                   [lower |-> Larger(a[f].lower, b[f].lower), upper |-> Smaller(a[f].upper, b[f].upper)]
              [] f \in DOMAIN a \ (DOMAIN a \cap DOMAIN b) -> a[f]
              [] f \in DOMAIN b \ (DOMAIN a \cap DOMAIN b) -> b[f]]
  BY <1>2 DEF Intersection
<1> HIDE DEF c
<1>4. DOMAIN c = DOMAIN a \cup DOMAIN b
  BY <1>3
<1>5. ASSUME NEW f \in DOMAIN c
      PROVE  IF kind = "forest" THEN c[f].lower < p[f] /\ p[f] <= c[f].upper
                                ELSE c[f].lower <= p[f] /\ p[f] < c[f].upper
  <2>1. CASE f \in DOMAIN a \cap DOMAIN b
    <3>1. c[f] = [lower |-> Larger(a[f].lower, b[f].lower), upper |-> Smaller(a[f].upper, b[f].upper)]
      BY <1>3, <2>1
    <3> QED
      BY <1>1, <2>1, <3>1 DEF Inside, Larger, Smaller
  <2>2. CASE f \in DOMAIN a \ DOMAIN b
    <3>1. c[f] = a[f]
      BY <1>3, <2>2
    <3> QED
      BY <2>2, <3>1 DEF Inside
  <2>3. CASE f \in DOMAIN b \ DOMAIN a
    <3>1. c[f] = b[f]
      BY <1>3, <2>3
    <3> QED
      BY <2>3, <3>1 DEF Inside
  <2> QED
    BY <1>4, <1>5, <2>1, <2>2, <2>3
<1> QED
  BY <1>4, <1>5 DEF Inside, c

\* The points of an intersection that is not empty are those of both boxes.
LEMMA PointsOfBoth ==
  ASSUME NEW F, NEW a, NEW b, IsBox(a, F), IsBox(b, F),
         NEW kind, NEW p, \A f \in F : p[f] \in Int,
         DOMAIN Intersection(a, b) # {}, Inside(kind, p, Intersection(a, b))
  PROVE  Inside(kind, p, a) /\ Inside(kind, p, b)
<1> DEFINE c == Intersection(a, b)
<1>1. c = [f \in DOMAIN a \cup DOMAIN b |->
            CASE f \in DOMAIN a \cap DOMAIN b ->
                   [lower |-> Larger(a[f].lower, b[f].lower), upper |-> Smaller(a[f].upper, b[f].upper)]
              [] f \in DOMAIN a \ (DOMAIN a \cap DOMAIN b) -> a[f]
              [] f \in DOMAIN b \ (DOMAIN a \cap DOMAIN b) -> b[f]]
  BY DEF Intersection, EmptyBox
<1>2. IsBox(c, F) /\ Inside(kind, p, c)
  BY IntersectionIsBox
<1> HIDE DEF c
<1>3. DOMAIN c = DOMAIN a \cup DOMAIN b
  BY <1>1
<1>4. \A f \in DOMAIN a \cap DOMAIN b :
        c[f] = [lower |-> Larger(a[f].lower, b[f].lower), upper |-> Smaller(a[f].upper, b[f].upper)]
  BY <1>1
<1>5. /\ \A f \in DOMAIN a \ DOMAIN b : c[f] = a[f]
      /\ \A f \in DOMAIN b \ DOMAIN a : c[f] = b[f]
  BY <1>1
<1>6. ASSUME NEW f \in DOMAIN a \cap DOMAIN b
      PROVE  /\ IF kind = "forest" THEN a[f].lower < p[f] /\ p[f] <= a[f].upper
                                   ELSE a[f].lower <= p[f] /\ p[f] < a[f].upper
             /\ IF kind = "forest" THEN b[f].lower < p[f] /\ p[f] <= b[f].upper
                                   ELSE b[f].lower <= p[f] /\ p[f] < b[f].upper
  <2>1. /\ a[f].lower \in Int /\ a[f].upper \in Int /\ b[f].lower \in Int /\ b[f].upper \in Int
        /\ p[f] \in Int
    BY DEF IsBox
  <2>2. IF kind = "forest" THEN c[f].lower < p[f] /\ p[f] <= c[f].upper
                           ELSE c[f].lower <= p[f] /\ p[f] < c[f].upper
    BY <1>2, <1>3 DEF Inside
  <2>3. /\ c[f].lower \in Int /\ c[f].upper \in Int
        /\ a[f].lower <= c[f].lower /\ b[f].lower <= c[f].lower
        /\ c[f].upper <= a[f].upper /\ c[f].upper <= b[f].upper
    <3>1. /\ c[f].lower = Larger(a[f].lower, b[f].lower)
          /\ c[f].upper = Smaller(a[f].upper, b[f].upper)
      <4>1. c[f] = [lower |-> Larger(a[f].lower, b[f].lower), upper |-> Smaller(a[f].upper, b[f].upper)]
        BY <1>4
      <4> QED
        BY <4>1
    <3>2. ASSUME NEW u \in Int, NEW w \in Int
          PROVE  /\ Larger(u, w) \in Int /\ u <= Larger(u, w) /\ w <= Larger(u, w)
                 /\ Smaller(u, w) \in Int /\ Smaller(u, w) <= u /\ Smaller(u, w) <= w
      BY DEF Larger, Smaller
    <3> QED
      <4>1. /\ Larger(a[f].lower, b[f].lower) \in Int /\ Smaller(a[f].upper, b[f].upper) \in Int
            /\ a[f].lower <= Larger(a[f].lower, b[f].lower) /\ b[f].lower <= Larger(a[f].lower, b[f].lower)
            /\ Smaller(a[f].upper, b[f].upper) <= a[f].upper
            /\ Smaller(a[f].upper, b[f].upper) <= b[f].upper
        BY <2>1, <3>2
      <4> QED
        BY <3>1, <4>1
  <2>4. CASE kind = "forest"
    BY <2>1, <2>2, <2>3, <2>4
  <2>5. CASE kind # "forest"
    BY <2>1, <2>2, <2>3, <2>5
  <2> QED
    BY <2>4, <2>5
<1> QED
  BY <1>2, <1>3, <1>5, <1>6 DEF Inside

\* Boxes with room for an input in [0, 1] in every interval, none of which is more
\* than e away from a sample.
Roomy(b) == \A f \in DOMAIN b : b[f].lower < b[f].upper /\ b[f].lower < One /\ 0 < b[f].upper
Near(b, v, e) == \A f \in DOMAIN b : b[f].lower <= v[f] + e /\ v[f] - e <= b[f].upper

\* Intervals on a line that meet two by two have a point in common, so that neither
\* is lost in an intersection.
LEMMA IntersectionRoomy ==
  ASSUME NEW F, NEW a, NEW b, IsBox(a, F), IsBox(b, F), Roomy(a), Roomy(b)
  PROVE  /\ Roomy(Intersection(a, b))
         /\ \A v, e : Near(a, v, e) /\ Near(b, v, e) => Near(Intersection(a, b), v, e)
<1>1. CASE Intersection(a, b) = EmptyBox
  BY <1>1 DEF Roomy, Near, EmptyBox
<1>2. CASE Intersection(a, b) # EmptyBox
  <2> DEFINE c == Intersection(a, b)
  <2>1. /\ c = [f \in DOMAIN a \cup DOMAIN b |->
                 CASE f \in DOMAIN a \cap DOMAIN b ->
                        [lower |-> Larger(a[f].lower, b[f].lower), upper |-> Smaller(a[f].upper, b[f].upper)]
                   [] f \in DOMAIN a \ (DOMAIN a \cap DOMAIN b) -> a[f]
                   [] f \in DOMAIN b \ (DOMAIN a \cap DOMAIN b) -> b[f]]
        /\ \A f \in DOMAIN a \cap DOMAIN b :
             ~Disjoint(Larger(a[f].lower, b[f].lower), Smaller(a[f].upper, b[f].upper))
    BY <1>2 DEF Intersection
  <2> HIDE DEF c
  <2>2. DOMAIN c = DOMAIN a \cup DOMAIN b
    BY <2>1
  <2>3. ASSUME NEW f \in DOMAIN a \cap DOMAIN b
        PROVE  /\ c[f].lower = Larger(a[f].lower, b[f].lower)
               /\ c[f].upper = Smaller(a[f].upper, b[f].upper)
               /\ c[f].lower \in Int /\ c[f].upper \in Int /\ c[f].lower < c[f].upper
    <3>1. c[f] = [lower |-> Larger(a[f].lower, b[f].lower), upper |-> Smaller(a[f].upper, b[f].upper)]
      BY <2>1
    <3>2. a[f].lower \in Int /\ a[f].upper \in Int /\ b[f].lower \in Int /\ b[f].upper \in Int
      BY DEF IsBox
    <3> QED
      BY <2>1, <3>1, <3>2 DEF Disjoint, Larger, Smaller
  <2>4. /\ \A f \in DOMAIN a \ DOMAIN b : c[f] = a[f]
        /\ \A f \in DOMAIN b \ DOMAIN a : c[f] = b[f]
    BY <2>1
  <2>5. \A f \in DOMAIN a \cap DOMAIN b :
          /\ c[f].lower = a[f].lower \/ c[f].lower = b[f].lower
          /\ c[f].upper = a[f].upper \/ c[f].upper = b[f].upper
    BY <2>3 DEF Larger, Smaller
  <2>6. Roomy(c)
    BY <2>2, <2>3, <2>4, <2>5 DEF Roomy
  <2>7. \A v, e : Near(a, v, e) /\ Near(b, v, e) => Near(c, v, e)
    BY <2>2, <2>4, <2>5 DEF Near
  <2> QED
    BY <2>6, <2>7 DEF c
<1> QED
  BY <1>1, <1>2

(***************************************************************************)
(* The boxes of a tree from the root down.                                 *)
(***************************************************************************)
BoxStep(tree, box, n) ==
  IF n = 1 THEN EmptyBox
  ELSE IF DOMAIN box[n \div 2] = {} THEN HalfSpace(tree, n)
  ELSE Intersection(box[n \div 2], HalfSpace(tree, n))

\* The parent of a node and its children in the numbering of a heap.
LEMMA Halves ==
  ASSUME NEW n \in Nat \ {0}
  PROVE  /\ n # 1 => n \div 2 \in Nat \ {0} /\ n \div 2 < n
         /\ (2 * n) \div 2 = n /\ (2 * n) % 2 = 0 /\ 2 * n # 1 /\ n < 2 * n
         /\ (2 * n + 1) \div 2 = n /\ (2 * n + 1) % 2 = 1 /\ 2 * n + 1 # 1 /\ n < 2 * n + 1
  BY Z3

\* Some node has the largest number.
LEMMA LastNode ==
  ASSUME NEW tree, NEW F, IsTree(tree, F)
  PROVE  \E last \in Nat : \A n \in Nodes(tree) : n <= last
<1>1. /\ IsFiniteSet(Nodes(tree)) /\ Nodes(tree) \subseteq Int /\ Nodes(tree) # {}
      /\ Nodes(tree) \subseteq Nat
  BY DEF IsTree, Nodes
<1> QED
  BY <1>1, Extremes

\* The boxes of the nodes follow from those of their parents.
LEMMA BoxesDefined ==
  ASSUME NEW tree, NEW F, IsTree(tree, F)
  PROVE  \A n \in Nodes(tree) : BoxOf(tree)[n] = BoxStep(tree, BoxOf(tree), n)
<1> DEFINE Solves(g, k) == /\ g = [n \in Nodes(tree) |-> g[n]]
                           /\ \A n \in Nodes(tree) : n <= k => g[n] = BoxStep(tree, g, n)
           G == {k \in Nat : \E g : Solves(g, k)}
<1>1. \A n \in Nodes(tree) : /\ n \in Nat \ {0}
                             /\ n # 1 => n \div 2 \in Nodes(tree) /\ n \div 2 \in Nat /\ n \div 2 < n
  BY Halves DEF IsTree, Nodes
<1>2. Solves([n \in Nodes(tree) |-> 0], 0)
  BY <1>1
<1>3. ASSUME NEW k \in Nat, NEW g, Solves(g, k)
      PROVE  \E h : Solves(h, k + 1)
  <2> DEFINE h == [n \in Nodes(tree) |-> BoxStep(tree, g, n)]
  <2>1. h = [n \in Nodes(tree) |-> h[n]] /\ \A n \in Nodes(tree) : h[n] = BoxStep(tree, g, n)
    OBVIOUS
  <2> HIDE DEF h
  <2>2. ASSUME NEW n \in Nodes(tree), n <= k + 1
        PROVE  h[n] = BoxStep(tree, h, n)
    <3>1. n # 1 => h[n \div 2] = g[n \div 2]
      <4>1. n # 1 => n \div 2 \in Nodes(tree) /\ n \div 2 <= k
        BY <1>1, <2>2
      <4> QED
        BY <1>3, <2>1, <4>1
    <3> QED
      BY <2>1, <3>1 DEF BoxStep
  <2>3. Solves(h, k + 1)
    BY <2>1, <2>2
  <2> HIDE DEF Solves
  <2> QED
    BY <2>3
<1>4. Nat \subseteq G
  <2> HIDE DEF Solves
  <2>1. 0 \in G /\ \A k \in Nat : k \in G => k + 1 \in G
    BY <1>2, <1>3
  <2> HIDE DEF G
  <2> QED
    BY <2>1, Induct
<1>5. PICK last \in Nat : \A n \in Nodes(tree) : n <= last
  BY LastNode
<1>6. PICK g : Solves(g, last)
  <2> HIDE DEF Solves
  <2> QED
    BY <1>4
<1>7. g = [n \in Nodes(tree) |-> BoxStep(tree, g, n)]
  BY <1>5, <1>6
<1>8. BoxOf(tree) = [n \in Nodes(tree) |-> BoxStep(tree, BoxOf(tree), n)]
  BY <1>7 DEF BoxOf, BoxStep, Nodes
<1> HIDE DEF G
<1> QED
  BY <1>8

(***************************************************************************)
(* The way of a point from a node down to a leaf.                          *)
(***************************************************************************)
Left(m, i, point, n) ==
  LET split == m.trees[i].splits[n]
  IN \/ point[split.feature] < split.threshold
     \/ m.kind = "forest" /\ point[split.feature] = split.threshold

Descent(m, i, point) ==
  LET tree == m.trees[i]
      leaf[n \in DOMAIN tree.splits \cup DOMAIN tree.values] ==
        IF n \in DOMAIN tree.values THEN tree.values[n]
        ELSE IF Left(m, i, point, n) THEN leaf[2 * n] ELSE leaf[2 * n + 1]
  IN leaf

DescentStep(m, i, point, leaf, n) ==
  IF n \in DOMAIN m.trees[i].values THEN m.trees[i].values[n]
  ELSE IF Left(m, i, point, n) THEN leaf[2 * n] ELSE leaf[2 * n + 1]

\* Where the libraries take a point, from the root.
LEMMA ReachedIsDescent ==
  ASSUME NEW m, NEW i, NEW point
  PROVE  Reached(m, i, point) = Descent(m, i, point)[1]
  BY DEF Reached, Descent, Left

\* And from any other node: the recursion towards larger numbers has a solution.
LEMMA DescentDefined ==
  ASSUME NEW F, NEW m, IsModel(m, F), NEW i \in DOMAIN m.trees, NEW point,
         NEW node \in Nodes(m.trees[i])
  PROVE  Descent(m, i, point)[node] = DescentStep(m, i, point, Descent(m, i, point), node)
<1> DEFINE tree == m.trees[i]
           Step(g, n) == DescentStep(m, i, point, g, n)
<1>0. IsTree(tree, F)
  BY DEF IsModel
<1>5. PICK last \in Nat : \A n \in Nodes(tree) : n <= last
  BY <1>0, LastNode
<1> DEFINE Solves(g, k) == /\ g = [n \in Nodes(tree) |-> g[n]]
                           /\ \A n \in Nodes(tree) : last < n + k => g[n] = Step(g, n)
           G == {k \in Nat : \E g : Solves(g, k)}
<1>1. \A n \in Nodes(tree) :
        /\ n \in Nat
        /\ n \notin DOMAIN tree.values => /\ 2 * n \in Nodes(tree) /\ n < 2 * n
                                          /\ 2 * n + 1 \in Nodes(tree) /\ n < 2 * n + 1
  BY <1>0, Halves DEF IsTree, Nodes
<1>2. Solves([n \in Nodes(tree) |-> 0], 0)
  <2>1. \A n \in Nodes(tree) : ~(last < n + 0)
    BY <1>1, <1>5
  <2> QED
    BY <2>1
<1>3. ASSUME NEW k \in Nat, NEW g, Solves(g, k)
      PROVE  \E h : Solves(h, k + 1)
  <2> DEFINE h == [n \in Nodes(tree) |-> Step(g, n)]
  <2>1. h = [n \in Nodes(tree) |-> h[n]] /\ \A n \in Nodes(tree) : h[n] = Step(g, n)
    OBVIOUS
  <2> HIDE DEF h
  <2>2. ASSUME NEW n \in Nodes(tree), last < n + (k + 1)
        PROVE  h[n] = Step(h, n)
    <3>1. n \notin DOMAIN tree.values => h[2 * n] = g[2 * n] /\ h[2 * n + 1] = g[2 * n + 1]
      <4>1. n \notin DOMAIN tree.values => last < (2 * n) + k /\ last < (2 * n + 1) + k
        BY <1>1, <2>2
      <4> QED
        BY <1>1, <1>3, <2>1, <4>1
    <3> QED
      BY <2>1, <3>1 DEF DescentStep
  <2>3. Solves(h, k + 1)
    BY <2>1, <2>2
  <2> HIDE DEF Solves
  <2> QED
    BY <2>3
<1>4. Nat \subseteq G
  <2> HIDE DEF Solves
  <2>1. 0 \in G /\ \A k \in Nat : k \in G => k + 1 \in G
    BY <1>2, <1>3
  <2> HIDE DEF G
  <2> QED
    BY <2>1, Induct
<1>6. PICK g : Solves(g, last)
  <2> HIDE DEF Solves
  <2> QED
    BY <1>4
<1>7. g = [n \in Nodes(tree) |-> Step(g, n)]
  <2>1. \A n \in Nodes(tree) : n # 0 /\ n \in Nat /\ last < n + last
    BY <1>0, <1>5 DEF IsTree
  <2> QED
    BY <1>6, <2>1
<1>8. Descent(m, i, point) = [n \in Nodes(tree) |-> Step(Descent(m, i, point), n)]
  BY <1>7 DEF Descent, DescentStep, Nodes
<1> HIDE DEF G
<1> QED
  BY <1>8

(***************************************************************************)
(* The leaf a point reaches has a box with the point inside.               *)
(***************************************************************************)
LEMMA HalfSpaceHolds ==
  ASSUME NEW F, NEW m, IsModel(m, F), NEW i \in DOMAIN m.trees,
         NEW n \in DOMAIN m.trees[i].splits,
         NEW p, \A f \in F : p[f] \in 0 .. One
  PROVE  /\ IsBox(HalfSpace(m.trees[i], 2 * n), F)
         /\ DOMAIN HalfSpace(m.trees[i], 2 * n) # {}
         /\ IsBox(HalfSpace(m.trees[i], 2 * n + 1), F)
         /\ DOMAIN HalfSpace(m.trees[i], 2 * n + 1) # {}
         /\ IF Left(m, i, p, n) THEN Inside(m.kind, p, HalfSpace(m.trees[i], 2 * n))
                                    ELSE Inside(m.kind, p, HalfSpace(m.trees[i], 2 * n + 1))
<1> DEFINE tree == m.trees[i]
           split == tree.splits[n]
           low == [lower |-> -Infinity, upper |-> split.threshold]
           high == [lower |-> split.threshold, upper |-> Infinity]
<1>1. IsTree(tree, F) /\ m.kind \in {"booster", "forest"}
  BY DEF IsModel
<1>2. n \in Nat \ {0} /\ split.feature \in F /\ split.threshold \in Int
  BY <1>1 DEF IsTree, Nodes
<1>3. /\ HalfSpace(tree, 2 * n) = [f \in {split.feature} |-> low]
      /\ HalfSpace(tree, 2 * n + 1) = [f \in {split.feature} |-> high]
  BY <1>2, Halves DEF HalfSpace
<1>4. One \in Nat /\ Infinity \in Nat /\ One < Infinity /\ -Infinity \in Int
  BY SearchAssumption, DataAssumption
<1>5. /\ IsBox(HalfSpace(tree, 2 * n), F) /\ DOMAIN HalfSpace(tree, 2 * n) # {}
      /\ IsBox(HalfSpace(tree, 2 * n + 1), F) /\ DOMAIN HalfSpace(tree, 2 * n + 1) # {}
  BY <1>2, <1>3, <1>4 DEF IsBox
<1>6. CASE Left(m, i, p, n)
  <2>1. p[split.feature] \in 0 .. One /\ -Infinity < p[split.feature]
    BY <1>2, <1>4
  <2>2. Inside(m.kind, p, HalfSpace(tree, 2 * n))
    BY <1>1, <1>2, <1>3, <1>4, <1>6, <2>1 DEF Left, Inside
  <2> QED
    BY <1>5, <1>6, <2>2
<1>7. CASE ~Left(m, i, p, n)
  <2>1. p[split.feature] \in 0 .. One /\ p[split.feature] < Infinity
    BY <1>2, <1>4
  <2>2. Inside(m.kind, p, HalfSpace(tree, 2 * n + 1))
    BY <1>1, <1>2, <1>3, <1>4, <1>7, <2>1 DEF Left, Inside
  <2> QED
    BY <1>5, <1>7, <2>2
<1> QED
  BY <1>6, <1>7

\* From a node with the point inside of its box the point goes on to a child with
\* the point inside, down to a leaf.
LEMMA LeafReached ==
  ASSUME NEW F, NEW m, IsModel(m, F), NEW i \in DOMAIN m.trees,
         NEW p, \A f \in F : p[f] \in 0 .. One
  PROVE  \E l \in DOMAIN m.trees[i].values :
           /\ Reached(m, i, p) = m.trees[i].values[l]
           /\ IsBox(BoxOf(m.trees[i])[l], F) /\ DOMAIN BoxOf(m.trees[i])[l] # {}
           /\ Inside(m.kind, p, BoxOf(m.trees[i])[l])
<1> DEFINE tree == m.trees[i]
           box == BoxOf(tree)
           leaf == Descent(m, i, p)
           Holds(n) == IsBox(box[n], F) /\ DOMAIN box[n] # {} /\ Inside(m.kind, p, box[n])
           Ends(n) == \E l \in DOMAIN tree.values : leaf[n] = tree.values[l] /\ Holds(l)
<1>1. IsTree(tree, F)
  BY DEF IsModel
<1>2. PICK last \in Nat : \A n \in Nodes(tree) : n <= last
  BY <1>1, LastNode
<1>3. /\ \A n \in Nodes(tree) : n \in Nat \ {0}
      /\ 1 \in DOMAIN tree.splits
      /\ \A n \in DOMAIN tree.splits :
           n \notin DOMAIN tree.values /\ 2 * n \in Nodes(tree) /\ 2 * n + 1 \in Nodes(tree)
      /\ \A f \in F : p[f] \in Int
  BY <1>1, SearchAssumption DEF IsTree
<1>4. ASSUME NEW n \in DOMAIN tree.splits, n = 1 \/ Holds(n)
      PROVE  IF Left(m, i, p, n) THEN Holds(2 * n) ELSE Holds(2 * n + 1)
  <2> DEFINE half == IF Left(m, i, p, n) THEN 2 * n ELSE 2 * n + 1
  <2>1. half \in Nodes(tree) /\ half # 1 /\ half \div 2 = n
    BY <1>3, Halves DEF Nodes
  <2>2. /\ IsBox(HalfSpace(tree, half), F) /\ DOMAIN HalfSpace(tree, half) # {}
        /\ Inside(m.kind, p, HalfSpace(tree, half))
    BY HalfSpaceHolds
  <2>3. box[half] = IF DOMAIN box[n] = {} THEN HalfSpace(tree, half)
                                          ELSE Intersection(box[n], HalfSpace(tree, half))
    BY <1>1, <2>1, BoxesDefined DEF BoxStep
  <2> HIDE DEF half, box
  <2>4. Holds(half)
    <3>1. CASE DOMAIN box[n] = {}
      BY <2>2, <2>3, <3>1
    <3>2. CASE DOMAIN box[n] # {}
      <4>1. Holds(n)
        <5>1. box[1] = EmptyBox
          BY <1>1, <1>3, BoxesDefined DEF BoxStep, Nodes, box
        <5> QED
          BY <1>4, <3>2, <5>1 DEF EmptyBox
      <4>2. box[half] = Intersection(box[n], HalfSpace(tree, half))
        BY <2>3, <3>2
      <4>3. IsBox(box[half], F)
        BY <2>2, <4>1, <4>2, IntersectionIsBox
      <4>4. /\ DOMAIN box[half] = DOMAIN box[n] \cup DOMAIN HalfSpace(tree, half)
            /\ Inside(m.kind, p, box[half])
        <5>1. IsBox(box[n], F) /\ Inside(m.kind, p, box[n])
          BY <4>1
        <5> DEFINE b == HalfSpace(tree, half)
                   kind == m.kind
        <5>2. IsBox(b, F) /\ Inside(kind, p, b) /\ Inside(kind, p, box[n])
          BY <2>2, <5>1
        <5> HIDE DEF b, kind
        <5>3. /\ DOMAIN Intersection(box[n], b) = DOMAIN box[n] \cup DOMAIN b
              /\ Inside(kind, p, Intersection(box[n], b))
          BY <1>3, <5>1, <5>2, CommonPoints
        <5> QED
          BY <4>2, <5>3 DEF b, kind
      <4> QED
        BY <3>2, <4>3, <4>4
    <3> QED
      BY <3>1, <3>2
  <2> HIDE DEF Holds
  <2> QED
    BY <2>4 DEF half
<1>5. IsTree(m.trees[i], F)
  BY <1>1
<1>6. /\ Reached(m, i, p) = leaf[1]
      /\ \A n \in Nodes(tree) : leaf[n] = DescentStep(m, i, p, leaf, n)
  <2>1. Reached(m, i, p) = Descent(m, i, p)[1]
    BY ReachedIsDescent
  <2>2. ASSUME NEW n \in Nodes(m.trees[i])
        PROVE  Descent(m, i, p)[n] = DescentStep(m, i, p, Descent(m, i, p), n)
    <3> HIDE DEF Ends, Holds, leaf, tree
    <3> QED
      BY <1>5, <2>2, DescentDefined
  <2> QED
    BY <2>1, <2>2
<1> DEFINE From(k) == \A n \in Nodes(tree) : last < n + k /\ (n = 1 \/ Holds(n)) => Ends(n)
           G == {k \in Nat : From(k)}
<1> HIDE DEF Holds, leaf
<1>7. From(0)
  BY <1>2, <1>3
<1>8. ASSUME NEW k \in Nat, From(k) PROVE From(k + 1)
  <2> SUFFICES ASSUME NEW n \in Nodes(tree), last < n + (k + 1), n = 1 \/ Holds(n)
               PROVE  Ends(n)
    OBVIOUS
  <2>1. CASE n \in DOMAIN tree.values
    <3>1. leaf[n] = tree.values[n] /\ n # 1
      BY <1>3, <1>6, <2>1 DEF DescentStep
    <3> QED
      BY <2>1, <3>1
  <2>2. CASE n \notin DOMAIN tree.values
    <3>1. n \in DOMAIN tree.splits
      BY <2>2 DEF Nodes
    <3> DEFINE half == IF Left(m, i, p, n) THEN 2 * n ELSE 2 * n + 1
    <3>2. half \in Nodes(tree) /\ half \in Nat /\ n \in Nat /\ n + 1 <= half
      BY <1>3, <3>1
    <3>3. leaf[n] = leaf[half]
      BY <1>6, <2>2 DEF DescentStep
    <3>4. Holds(half)
      BY <1>4, <3>1
    <3>5. last < half + k
      BY <1>2, <3>2
    <3> HIDE DEF half
    <3>6. Ends(half)
      BY <1>8, <3>2, <3>4, <3>5
    <3> QED
      BY <3>3, <3>6
  <2> QED
    BY <2>1, <2>2
<1>9. From(last)
  <2> HIDE DEF From
  <2>1. 0 \in G /\ \A k \in Nat : k \in G => k + 1 \in G
    BY <1>7, <1>8
  <2>2. Nat \subseteq G
    <3> HIDE DEF G
    <3> QED
      BY <2>1, Induct
  <2> QED
    BY <1>2, <2>2
<1>10. Ends(1)
  <2>1. 1 \in Nodes(tree) /\ last < 1 + last
    BY <1>2, <1>3 DEF Nodes
  <2> HIDE DEF Ends
  <2> QED
    BY <1>9, <2>1
<1> QED
  BY <1>6, <1>10 DEF Holds

(***************************************************************************)
(* Trees as they are grown from inputs in [0, 1]: a split lies between two *)
(* of them, and every node has some that reach it.                         *)
(***************************************************************************)
Grown(m) ==
  \A i \in DOMAIN m.trees :
    /\ \A n \in DOMAIN m.trees[i].splits : m.trees[i].splits[n].threshold \in 1 .. One - 1
    /\ \A n \in Nodes(m.trees[i]) \ {1} : DOMAIN BoxOf(m.trees[i])[n] # {}

\* The sides of a split have room, and hold the points that go there only.
LEMMA HalfSpaceSplits ==
  ASSUME NEW F, NEW m, IsModel(m, F), Grown(m), NEW i \in DOMAIN m.trees,
         NEW n \in Nodes(m.trees[i]) \ {1}
  PROVE  /\ n \div 2 \in DOMAIN m.trees[i].splits /\ n \in {2 * (n \div 2), 2 * (n \div 2) + 1}
         /\ IsBox(HalfSpace(m.trees[i], n), F) /\ Roomy(HalfSpace(m.trees[i], n))
         /\ \A p : (\A f \in F : p[f] \in 0 .. One) /\ Inside(m.kind, p, HalfSpace(m.trees[i], n)) =>
                   n = IF Left(m, i, p, n \div 2) THEN 2 * (n \div 2) ELSE 2 * (n \div 2) + 1
<1> DEFINE tree == m.trees[i]
           half == n \div 2
           split == tree.splits[half]
           low == [lower |-> -Infinity, upper |-> split.threshold]
           high == [lower |-> split.threshold, upper |-> Infinity]
<1>1. IsTree(tree, F) /\ m.kind \in {"booster", "forest"}
  BY DEF IsModel
<1>2. n \in Nat \ {0, 1} /\ half \in DOMAIN tree.splits /\ half \in Nat \ {0}
  BY <1>1 DEF IsTree, Nodes
<1>3. n % 2 \in {0, 1} /\ n = 2 * half + (n % 2)
  BY <1>2, Z3
<1>4. split.feature \in F /\ split.threshold \in 1 .. One - 1
  BY <1>1, <1>2 DEF IsTree, Grown
<1>5. One \in Nat /\ Infinity \in Nat /\ One < Infinity /\ -Infinity \in Int
  BY SearchAssumption, DataAssumption
<1>6. HalfSpace(tree, n) = [f \in {split.feature} |-> IF n % 2 = 0 THEN low ELSE high]
  BY DEF HalfSpace
<1> HIDE DEF half, split
<1>7. IsBox(HalfSpace(tree, n), F) /\ Roomy(HalfSpace(tree, n))
  BY <1>4, <1>5, <1>6 DEF IsBox, Roomy
<1>8. ASSUME NEW p, \A f \in F : p[f] \in 0 .. One, Inside(m.kind, p, HalfSpace(tree, n))
      PROVE  n = IF Left(m, i, p, half) THEN 2 * half ELSE 2 * half + 1
  <2>1. p[split.feature] \in Int
    BY <1>4, <1>5, <1>8
  <2>2. LET v == p[split.feature]
            t == split.threshold
        IN  /\ n % 2 = 0 => v < t \/ (m.kind = "forest" /\ v = t)
            /\ n % 2 = 1 => ~(v < t \/ (m.kind = "forest" /\ v = t))
    BY <1>1, <1>4, <1>6, <1>8, <2>1 DEF Inside
  <2>3. Left(m, i, p, half) <=>
          p[split.feature] < split.threshold
          \/ (m.kind = "forest" /\ p[split.feature] = split.threshold)
    BY DEF Left, split
  <2> QED
    BY <1>2, <1>3, <2>2, <2>3
<1> QED
  BY <1>2, <1>3, <1>7, <1>8 DEF half

\* So has every node, and the points inside of a node's box come down to it.
LEMMA NodeHolds ==
  ASSUME NEW F, NEW m, IsModel(m, F), Grown(m), NEW i \in DOMAIN m.trees,
         NEW n \in Nodes(m.trees[i]) \ {1}
  PROVE  /\ IsBox(BoxOf(m.trees[i])[n], F) /\ Roomy(BoxOf(m.trees[i])[n])
         /\ \A p : (\A f \in F : p[f] \in 0 .. One) /\ Inside(m.kind, p, BoxOf(m.trees[i])[n]) =>
                   Reached(m, i, p) = Descent(m, i, p)[n]
<1> DEFINE tree == m.trees[i]
           box == BoxOf(tree)
           Point(p) == \A f \in F : p[f] \in 0 .. One
           Down(k, p) == Reached(m, i, p) = Descent(m, i, p)[k]
           Fine(k) == /\ IsBox(box[k], F) /\ Roomy(box[k])
                      /\ \A p : Point(p) /\ Inside(m.kind, p, box[k]) => Down(k, p)
           Below(k) == \A j \in Nodes(tree) \ {1} : j <= k => Fine(j)
           G == {k \in Nat : Below(k)}
<1>1. IsTree(tree, F) /\ 1 \in DOMAIN tree.splits /\ DOMAIN tree.splits \cap DOMAIN tree.values = {}
  BY DEF IsModel, IsTree
<1>2. \A k \in Nodes(tree) : k \in Nat \ {0}
  BY <1>1 DEF IsTree
<1>3. \A p : Point(p) => \A f \in F : p[f] \in Int
  BY SearchAssumption
<1>4. ASSUME NEW k \in Nodes(tree) \ {1}, k \div 2 = 1 \/ Fine(k \div 2)
      PROVE  Fine(k)
  <2> DEFINE half == k \div 2
             side == HalfSpace(tree, k)
  <2>1. /\ half \in DOMAIN tree.splits /\ k \in {2 * half, 2 * half + 1}
        /\ IsBox(side, F) /\ Roomy(side)
        /\ \A p : Point(p) /\ Inside(m.kind, p, side) =>
                  k = IF Left(m, i, p, half) THEN 2 * half ELSE 2 * half + 1
    BY HalfSpaceSplits
  <2>2. box[k] = IF DOMAIN box[half] = {} THEN side ELSE Intersection(box[half], side)
    BY <1>1, BoxesDefined DEF BoxStep
  <2>3. box[1] = EmptyBox /\ DOMAIN EmptyBox = {}
    BY <1>1, BoxesDefined DEF BoxStep, Nodes, EmptyBox
  <2>4. DOMAIN box[k] # {} /\ (half # 1 => DOMAIN box[half] # {})
    BY <2>1 DEF Grown, Nodes
  <2>5. ASSUME NEW p, Point(p), half = 1 \/ Down(half, p), Inside(m.kind, p, side)
        PROVE  Down(k, p)
    <3>1. Reached(m, i, p) = Descent(m, i, p)[half]
      BY <2>5, ReachedIsDescent
    <3>2. Descent(m, i, p)[half] = DescentStep(m, i, p, Descent(m, i, p), half)
      BY <2>1, DescentDefined DEF Nodes
    <3>3. half \notin DOMAIN tree.values
      BY <1>1, <2>1
    <3>4. k = IF Left(m, i, p, half) THEN 2 * half ELSE 2 * half + 1
      BY <2>1, <2>5
    <3> QED
      BY <3>1, <3>2, <3>3, <3>4 DEF DescentStep
  <2> HIDE DEF box, side, half, Down
  <2>6. CASE half = 1
    BY <2>1, <2>2, <2>3, <2>5, <2>6
  <2>7. CASE half # 1
    <3>1. Fine(half) /\ box[k] = Intersection(box[half], side)
      BY <1>4, <2>2, <2>4, <2>7 DEF half
    <3> DEFINE b == box[half]
               kind == m.kind
    <3>2. /\ IsBox(b, F) /\ Roomy(b) /\ IsBox(side, F) /\ Roomy(side)
          /\ DOMAIN Intersection(b, side) # {}
      BY <2>1, <2>4, <3>1
    <3> HIDE DEF b, kind
    <3>3. IsBox(Intersection(b, side), F) /\ Roomy(Intersection(b, side))
      BY <3>2, IntersectionIsBox, IntersectionRoomy
    <3>4. \A p : Point(p) /\ Inside(kind, p, Intersection(b, side)) =>
                Inside(kind, p, b) /\ Inside(kind, p, side)
      BY <1>3, <3>2, PointsOfBoth
    <3> QED
      BY <2>5, <3>1, <3>3, <3>4 DEF b, kind
  <2> QED
    BY <2>6, <2>7
<1> HIDE DEF Fine
<1>5. Below(0)
  BY <1>2
<1>6. ASSUME NEW k \in Nat, Below(k) PROVE Below(k + 1)
  <2> SUFFICES ASSUME NEW j \in Nodes(tree) \ {1}, j <= k + 1 PROVE Fine(j)
    OBVIOUS
  <2>1. j \div 2 \in DOMAIN tree.splits
    BY HalfSpaceSplits
  <2>2. j \div 2 \in Nodes(tree) /\ j \div 2 <= k
    <3>1. j \in Nat \ {0} /\ j # 1
      BY <1>2
    <3>2. j \div 2 \in Nat /\ j \div 2 < j
      BY <3>1, Halves
    <3> QED
      BY <2>1, <3>1, <3>2 DEF Nodes
  <2> QED
    BY <1>4, <1>6, <2>2
<1>7. Nat \subseteq G
  <2> HIDE DEF Below
  <2>1. 0 \in G /\ \A k \in Nat : k \in G => k + 1 \in G
    BY <1>5, <1>6
  <2> HIDE DEF G
  <2> QED
    BY <2>1, Induct
<1>8. Fine(n)
  <2>1. n \in Nat /\ n <= n
    BY <1>2
  <2> QED
    BY <1>7, <2>1
<1> QED
  BY <1>8 DEF Fine

(***************************************************************************)
(* No point of a box is nearer to the sample than the box is.              *)
(***************************************************************************)
Awayness(p, v) == [f \in DOMAIN v |-> Away(p[f], v[f])]

\* What a function makes of a finite set is finite.
LEMMA FiniteImage ==
  ASSUME NEW f, NEW S, IsFiniteSet(S)
  PROVE  IsFiniteSet({f[v] : v \in S})
<1> DEFINE T == {f[v] : v \in S}
           g == [v \in S |-> f[v]]
<1>1. g \in Surjection(S, T)
  BY DEF Surjection
<1> QED
  BY <1>1, FS_Surjection

\* The distances by feature are numbers.
LEMMA AwayIsNumber ==
  ASSUME NEW v, NEW p \in [DOMAIN v -> 0 .. One], v \in [DOMAIN v -> 0 .. One]
  PROVE  /\ \A f \in DOMAIN v : v[f] \in Int /\ p[f] \in Int
         /\ \A f \in DOMAIN v : Awayness(p, v)[f] = Away(p[f], v[f]) /\ Awayness(p, v)[f] \in Nat
         /\ DOMAIN Awayness(p, v) = DOMAIN v
<1>1. One \in Nat
  BY SearchAssumption
<1>2. \A f \in DOMAIN v : v[f] \in Int /\ p[f] \in Int
  BY <1>1
<1> QED
  BY <1>2 DEF Awayness, Away

\* The two norms, one by one.
LEMMA BallDistance ==
  ASSUME NEW v, NEW e \in Nat, NEW p \in [DOMAIN v -> 0 .. One], norm \in {1, Infinity}
  PROVE  p \in Ball(v, e) <=>
           IF norm = Infinity THEN Max({Away(p[f], v[f]) : f \in DOMAIN v}) <= e
                              ELSE SumFunctionOnSet(Awayness(p, v), DOMAIN v) <= e
<1>1. Infinity # 1
  BY SearchAssumption, DataAssumption
<1>2. DOMAIN Awayness(p, v) = DOMAIN v
  BY DEF Awayness
<1>3. SumFunction(Awayness(p, v)) = SumFunctionOnSet(Awayness(p, v), DOMAIN v)
  BY <1>2 DEF SumFunction
<1> DEFINE largest == Max({Away(p[f], v[f]) : f \in DOMAIN v})
           sum == SumFunction(Awayness(p, v))
           changed == One * Cardinality({f \in DOMAIN v : p[f] # v[f]})
           distance == CASE norm = Infinity -> largest [] norm = 1 -> sum [] norm = 0 -> changed
<1>4. p \in Ball(v, e) <=> distance <= e
  BY DEF Ball, Awayness
<1> HIDE DEF largest, sum, changed
<1>5. (norm = Infinity => distance = largest) /\ (norm = 1 => distance = sum)
  <2>1. Infinity # 0
    BY SearchAssumption
  <2> QED
    BY <1>1, <2>1
<1> QED
  BY <1>1, <1>3, <1>4, <1>5 DEF largest, sum

\* An interval is no farther away than a value in it.
LEMMA FeatureNear ==
  ASSUME NEW a, a.norm # 0, NEW v \in Int, NEW q \in Int, NEW i,
         i.lower \in Int, i.upper \in Int, i.lower <= q, q <= i.upper
  PROVE  FeatureDistance(a, v, i) \in Int /\ FeatureDistance(a, v, i) <= Away(q, v)
  BY DEF FeatureDistance, Difference, Larger, Away

\* So a box with a point within e inside is within e.
LEMMA BoxNear ==
  ASSUME NEW a, a.norm = norm, norm \in {1, Infinity},
         NEW v, IsFiniteSet(DOMAIN v), v \in [DOMAIN v -> 0 .. One],
         NEW e \in Nat, NEW p \in [DOMAIN v -> 0 .. One], p \in Ball(v, e),
         NEW b, IsBox(b, DOMAIN v), NEW kind, Inside(kind, p, b)
  PROVE  Distance(a, b, v) <= e
<1> DEFINE fd == [f \in DOMAIN b |-> FeatureDistance(a, v[f], b[f])]
           away == Awayness(p, v)
<1>1. /\ DOMAIN b \subseteq DOMAIN v
      /\ \A f \in DOMAIN b : b[f].lower \in Int /\ b[f].upper \in Int
      /\ \A f \in DOMAIN v : v[f] \in Int /\ p[f] \in Int
      /\ \A f \in DOMAIN v : away[f] = Away(p[f], v[f]) /\ away[f] \in Nat
  BY AwayIsNumber DEF IsBox
<1>2. a.norm # 0
  BY SearchAssumption
<1>3. \A f \in DOMAIN b : b[f].lower <= p[f] /\ p[f] <= b[f].upper
  BY <1>1 DEF Inside
<1>4. \A f \in DOMAIN b : fd[f] \in Int /\ fd[f] <= Away(p[f], v[f])
  BY <1>1, <1>2, <1>3, FeatureNear
<1>5. IsFiniteSet(DOMAIN b)
  BY <1>1, FS_Subset
<1>6. CASE norm = Infinity
  <2> DEFINE S == {Away(p[f], v[f]) : f \in DOMAIN v}
             D == {0} \cup {FeatureDistance(a, v[f], b[f]) : f \in DOMAIN b}
  <2>1. IsFiniteSet(S) /\ IsFiniteSet(D)
    <3>1. IsFiniteSet({fd[f] : f \in DOMAIN b}) /\ IsFiniteSet({away[f] : f \in DOMAIN v})
      BY <1>5, FiniteImage
    <3>2. S = {away[f] : f \in DOMAIN v} /\ D = {fd[f] : f \in DOMAIN b} \cup {0}
      BY <1>1
    <3> HIDE DEF S, D, fd, away
    <3> QED
      BY <3>1, <3>2, FS_AddElement
  <2>2. S \subseteq Nat /\ D \subseteq Int /\ D # {}
    BY <1>1, <1>4
  <2>3. Distance(a, b, v) = Max(D) /\ Max(S) <= e
    BY <1>6, BallDistance DEF Distance
  <2>4. \A f \in DOMAIN v : away[f] \in S
    BY <1>1
  <2>5. \A n \in D : n = 0 \/ \E f \in DOMAIN b : n = fd[f]
    OBVIOUS
  <2> HIDE DEF S, D, fd, away
  <2>6. \A n \in S : n <= e
    <3>1. S # {} => Max(S) \in S /\ \A n \in S : n <= Max(S)
      BY <2>1, <2>2, Extremes
    <3> QED
      BY <2>2, <2>3, <3>1
  <2>7. Max(D) \in D
    BY <2>1, <2>2, Extremes
  <2>8. \A n \in D : n <= e
    BY <1>1, <1>4, <2>2, <2>4, <2>5, <2>6
  <2> QED
    BY <2>3, <2>7, <2>8
<1>7. CASE norm # Infinity
  <2>1. Distance(a, b, v) = SumFunctionOnSet(fd, DOMAIN b)
    BY <1>7 DEF Distance, SumFunction
  <2>2. SumFunctionOnSet(away, DOMAIN v) <= e
    BY <1>7, BallDistance
  <2> HIDE DEF fd, away
  <2>3. SumFunctionOnSet(fd, DOMAIN b) <= SumFunctionOnSet(away, DOMAIN b)
    BY <1>1, <1>4, <1>5, SumsCompare
  <2>4. SumFunctionOnSet(away, DOMAIN b) <= SumFunctionOnSet(away, DOMAIN v)
    BY <1>1, SumOfFewer
  <2>5. /\ SumFunctionOnSet(fd, DOMAIN b) \in Int
        /\ SumFunctionOnSet(away, DOMAIN b) \in Int /\ SumFunctionOnSet(away, DOMAIN v) \in Int
    BY <1>1, <1>4, <1>5, SumIsNumber
  <2> QED
    BY <2>1, <2>2, <2>3, <2>4, <2>5
<1> QED
  BY <1>6, <1>7

\* A sample is within any distance of itself.
LEMMA SelfNear ==
  ASSUME norm \in {1, Infinity}, NEW e \in Nat,
         NEW v, IsFiniteSet(DOMAIN v), DOMAIN v # {}, v \in [DOMAIN v -> 0 .. One]
  PROVE  v \in Ball(v, e)
<1>1. \A f \in DOMAIN v : Away(v[f], v[f]) = 0
  BY AwayIsNumber DEF Away
<1>2. {Away(v[f], v[f]) : f \in DOMAIN v} = {0}
  BY <1>1
<1>3. Max({0}) = 0
  <2>0. IsFiniteSet({} \cup {0})
    BY FS_EmptySet, FS_AddElement
  <2>1. IsFiniteSet({0}) /\ {0} # {} /\ {0} \subseteq Int
    BY <2>0
  <2>2. Max({0}) \in {0}
    BY <2>1, Extremes
  <2> QED
    BY <2>2
<1> DEFINE away == Awayness(v, v)
<1>4. \A f \in DOMAIN v : away[f] = 0
  BY <1>1 DEF Awayness
<1> HIDE DEF away
<1>5. SumFunctionOnSet(away, DOMAIN v) \in Int
  BY <1>4, SumIsNumber
<1>6. \A f \in DOMAIN v : away[f] \in Int /\ away[f] = away[f] - away[f]
  BY <1>4
<1>7. SumFunctionOnSet(away, DOMAIN v) = SumFunctionOnSet(away, DOMAIN v) - SumFunctionOnSet(away, DOMAIN v)
  BY <1>6, SumsSubtract
<1>8. SumFunctionOnSet(away, DOMAIN v) = 0
  BY <1>5, <1>7
<1> QED
  BY <1>2, <1>3, <1>8, BallDistance DEF away

(***************************************************************************)
(* Joining the leaves of a group of trees keeps a clique with the point,   *)
(* and, where the trees are grown, only cliques that say of the points     *)
(* inside what the trees say of them.                                      *)
(***************************************************************************)
Valued(C) == IsFiniteSet(C) /\ \A c \in C : c.value \in Int

Around(c, F, kind, p) ==
  IsBox(c.box, F) /\ DOMAIN c.box # {} /\ Inside(kind, p, c.box)

\* Some clique of C has the point inside and this value.
Meets(C, F, kind, p, v) ==
  Valued(C) /\ \E c \in C : Around(c, F, kind, p) /\ c.value = v

\* Every clique of C that has the point inside has this value.
Tells(C, F, kind, p, v) ==
  /\ Valued(C)
  /\ \A c \in C : /\ IsBox(c.box, F) /\ Roomy(c.box)
                  /\ Inside(kind, p, c.box) => c.value = v

\* A point with the sample x and the distance e, seen by some clique or by all.
Stands(at, C, v) ==
  IF at.all
  THEN Tells(C, at.F, at.kind, at.p, v) /\ \A c \in C : Near(c.box, at.x, at.e)
  ELSE Meets(C, at.F, at.kind, at.p, v)

\* Of two cliques with the point inside the join has their intersection, with
\* the sum of their values; and a point inside of that is inside of both.
LEMMA JoinStands ==
  ASSUME NEW at, \A f \in at.F : at.p[f] \in Int,
         NEW A, NEW B, NEW u \in Int, NEW v \in Int, Stands(at, A, u), Stands(at, B, v)
  PROVE  Stands(at, Join(A, B), u + v)
<1> DEFINE F == at.F
           kind == at.kind
           p == at.p
           Pairs == {q \in A \X B : DOMAIN Intersection(q[1].box, q[2].box) # {}}
           Joined(q) == [box |-> Intersection(q[1].box, q[2].box), value |-> q[1].value + q[2].value]
           joined == [q \in Pairs |-> Joined(q)]
<1>0. Valued(A) /\ Valued(B) /\ \A f \in F : p[f] \in Int
  BY DEF Stands, Meets, Tells
<1>1. Join(A, B) = {joined[q] : q \in Pairs}
  BY DEF Join
<1>2. IsFiniteSet(Pairs)
  <2>1. IsFiniteSet(A \X B)
    BY <1>0, FS_Product DEF Valued
  <2>2. Pairs \subseteq A \X B
    OBVIOUS
  <2> HIDE DEF Pairs
  <2> QED
    BY <2>1, <2>2, FS_Subset
<1>3. Valued(Join(A, B))
  <2>1. \A q \in Pairs : joined[q].value \in Int
    BY <1>0 DEF Valued
  <2> HIDE DEF Pairs, joined
  <2>2. IsFiniteSet({joined[q] : q \in Pairs})
    BY <1>2, FiniteImage
  <2> QED
    BY <1>1, <2>1, <2>2 DEF Valued
<1>4. CASE ~at.all
  <2>0. Meets(A, F, kind, p, u) /\ Meets(B, F, kind, p, v)
    BY <1>4 DEF Stands
  <2>1. PICK a \in A : Around(a, F, kind, p) /\ a.value = u
    BY <2>0 DEF Meets
  <2>2. PICK b \in B : Around(b, F, kind, p) /\ b.value = v
    BY <2>0 DEF Meets
  <2> DEFINE ab == a.box
             bb == b.box
             c == [box |-> Intersection(ab, bb), value |-> a.value + b.value]
  <2>3. /\ IsBox(ab, F) /\ Inside(kind, p, ab) /\ IsBox(bb, F) /\ Inside(kind, p, bb)
        /\ DOMAIN ab # {}
    BY <2>1, <2>2 DEF Around
  <2> HIDE DEF ab, bb, F, kind, p
  <2>4. /\ IsBox(Intersection(ab, bb), F)
        /\ DOMAIN Intersection(ab, bb) = DOMAIN ab \cup DOMAIN bb
        /\ Inside(kind, p, Intersection(ab, bb))
    <3>1. IsBox(Intersection(ab, bb), F)
      BY <2>3, IntersectionIsBox
    <3>2. /\ DOMAIN Intersection(ab, bb) = DOMAIN ab \cup DOMAIN bb
          /\ Inside(kind, p, Intersection(ab, bb))
      BY <1>0, <2>3, CommonPoints
    <3> QED
      BY <3>1, <3>2
  <2>5. Around(c, F, kind, p) /\ c.value = u + v
    BY <2>1, <2>2, <2>3, <2>4 DEF Around
  <2>6. c \in Join(A, B)
    <3>1. <<a, b>> \in Pairs
      BY <2>3, <2>4 DEF ab, bb
    <3>2. c = joined[<<a, b>>]
      BY <3>1 DEF ab, bb
    <3> HIDE DEF Pairs, joined, c
    <3> QED
      BY <1>1, <3>1, <3>2
  <2> HIDE DEF c
  <2>7. Meets(Join(A, B), F, kind, p, u + v)
    BY <1>3, <2>5, <2>6 DEF Meets
  <2> QED
    BY <1>4, <2>7 DEF Stands, F, kind, p
<1>5. CASE at.all
  <2> DEFINE Fits(b) == IsBox(b, F) /\ Roomy(b) /\ Near(b, at.x, at.e)
  <2>1. /\ \A a \in A : Fits(a.box) /\ (Inside(kind, p, a.box) => a.value = u)
        /\ \A b \in B : Fits(b.box) /\ (Inside(kind, p, b.box) => b.value = v)
    BY <1>5 DEF Stands, Tells
  <2>2. ASSUME NEW q \in Pairs
        PROVE  Fits(joined[q].box) /\ (Inside(kind, p, joined[q].box) => joined[q].value = u + v)
    <3> DEFINE ab == q[1].box
               bb == q[2].box
    <3>1. /\ q[1] \in A /\ q[2] \in B /\ DOMAIN Intersection(ab, bb) # {}
          /\ joined[q].box = Intersection(ab, bb) /\ joined[q].value = q[1].value + q[2].value
      OBVIOUS
    <3>2. Fits(ab) /\ Fits(bb)
      BY <2>1, <3>1
    <3> HIDE DEF joined, Pairs, F, kind, p
    <3>3. /\ Inside(kind, p, ab) => q[1].value = u
          /\ Inside(kind, p, bb) => q[2].value = v
      BY <2>1, <3>1
    <3> HIDE DEF ab, bb
    <3>4. Fits(Intersection(ab, bb))
      BY <3>2, IntersectionIsBox, IntersectionRoomy
    <3>5. Inside(kind, p, Intersection(ab, bb)) => Inside(kind, p, ab) /\ Inside(kind, p, bb)
      BY <1>0, <3>1, <3>2, PointsOfBoth
    <3> QED
      BY <3>1, <3>3, <3>4, <3>5
  <2> HIDE DEF joined, Pairs, F, kind, p
  <2>3. \A c \in Join(A, B) : Fits(c.box) /\ (Inside(kind, p, c.box) => c.value = u + v)
    BY <1>1, <2>2
  <2> QED
    BY <1>3, <1>5, <2>3 DEF Stands, Tells, F, kind, p
<1> QED
  BY <1>4, <1>5

\* The cliques of the first i trees of a group.
CliquesUpTo(group) ==
  LET cliques[i \in 1 .. Len(group)] ==
        IF i = 1 THEN group[1] ELSE Join(cliques[i - 1], group[i])
  IN cliques

\* The cliques of a group follow from those of one tree less.
LEMMA CliquesDefined ==
  ASSUME NEW group, Len(group) \in Nat \ {0}
  PROVE  /\ Cliques(group) = CliquesUpTo(group)[Len(group)]
         /\ CliquesUpTo(group)[1] = group[1]
         /\ \A i \in 1 .. Len(group) :
              i # 1 => CliquesUpTo(group)[i] = Join(CliquesUpTo(group)[i - 1], group[i])
<1> DEFINE n == Len(group)
           Step(g, i) == IF i = 1 THEN group[1] ELSE Join(g[i - 1], group[i])
           Solves(g, k) == g = [i \in 1 .. n |-> g[i]] /\ \A i \in 1 .. n : i <= k => g[i] = Step(g, i)
           G == {k \in Nat : \E g : Solves(g, k)}
<1>1. Solves([i \in 1 .. n |-> 0], 0)
  OBVIOUS
<1>2. ASSUME NEW k \in Nat, NEW g, Solves(g, k)
      PROVE  \E h : Solves(h, k + 1)
  <2> DEFINE h == [i \in 1 .. n |-> Step(g, i)]
  <2>1. h = [i \in 1 .. n |-> h[i]] /\ \A i \in 1 .. n : h[i] = Step(g, i)
    OBVIOUS
  <2> HIDE DEF h
  <2>2. ASSUME NEW i \in 1 .. n, i <= k + 1
        PROVE  h[i] = Step(h, i)
    <3>1. i # 1 => h[i - 1] = g[i - 1]
      <4>1. i # 1 => i - 1 \in 1 .. n /\ i - 1 <= k
        BY <2>2
      <4> QED
        BY <1>2, <2>1, <4>1
    <3> QED
      BY <2>1, <3>1
  <2>3. Solves(h, k + 1)
    BY <2>1, <2>2
  <2> HIDE DEF Solves
  <2> QED
    BY <2>3
<1>3. Nat \subseteq G
  <2> HIDE DEF Solves
  <2>1. 0 \in G /\ \A k \in Nat : k \in G => k + 1 \in G
    BY <1>1, <1>2
  <2> HIDE DEF G
  <2> QED
    BY <2>1, Induct
<1>4. PICK g : Solves(g, n)
  <2> HIDE DEF Solves
  <2> QED
    BY <1>3
<1>5. g = [i \in 1 .. n |-> Step(g, i)]
  BY <1>4
<1>6. CliquesUpTo(group) = [i \in 1 .. n |-> Step(CliquesUpTo(group), i)]
  BY <1>5 DEF CliquesUpTo
<1> HIDE DEF G
<1>7. Cliques(group) = CliquesUpTo(group)[n]
  BY DEF Cliques, CliquesUpTo
<1> QED
  BY <1>6, <1>7

\* So a group of trees stands for the sum of its values.
LEMMA CliquesStand ==
  ASSUME NEW at, \A f \in at.F : at.p[f] \in Int,
         NEW group, Len(group) \in Nat \ {0}, NEW w,
         \A i \in 1 .. Len(group) : w[i] \in Int /\ Stands(at, group[i], w[i])
  PROVE  /\ SumTo(w, Len(group)) \in Int
         /\ Stands(at, Cliques(group), SumTo(w, Len(group)))
<1> DEFINE n == Len(group)
           Holds(k) == k <= n => /\ SumTo(w, k) \in Int
                                 /\ k > 0 => Stands(at, CliquesUpTo(group)[k], SumTo(w, k))
           G == {k \in Nat : Holds(k)}
<1>0. ASSUME NEW k \in Nat, k + 1 <= n
      PROVE  SumTo(w, 0) = 0 /\ SumTo(w, k) \in Int /\ SumTo(w, k + 1) = SumTo(w, k) + w[k + 1]
  <2>1. \A i \in 1 .. k + 1 : w[i] \in Int
    BY <1>0
  <2> QED
    BY <2>1, SumAppends
<1>1. Holds(0)
  BY <1>0
<1>2. ASSUME NEW k \in Nat, Holds(k) PROVE Holds(k + 1)
  <2> SUFFICES ASSUME k + 1 <= n
               PROVE  /\ SumTo(w, k + 1) \in Int
                      /\ Stands(at, CliquesUpTo(group)[k + 1], SumTo(w, k + 1))
    OBVIOUS
  <2>1. /\ k + 1 \in 1 .. n /\ w[k + 1] \in Int /\ Stands(at, group[k + 1], w[k + 1])
        /\ SumTo(w, k) \in Int /\ SumTo(w, k + 1) = SumTo(w, k) + w[k + 1]
    BY <1>0
  <2>2. CASE k = 0
    <3>1. SumTo(w, k + 1) = w[1] /\ CliquesUpTo(group)[1] = group[1]
      BY <1>0, <2>1, <2>2, CliquesDefined
    <3> QED
      BY <2>1, <2>2, <3>1
  <2>3. CASE k # 0
    <3>1. Stands(at, CliquesUpTo(group)[k], SumTo(w, k))
      BY <1>2, <2>3
    <3>2. CliquesUpTo(group)[k + 1] = Join(CliquesUpTo(group)[k], group[k + 1])
      BY <2>1, <2>3, CliquesDefined
    <3>3. Stands(at, Join(CliquesUpTo(group)[k], group[k + 1]), SumTo(w, k) + w[k + 1])
      BY <2>1, <3>1, JoinStands
    <3> QED
      BY <2>1, <3>2, <3>3
  <2> QED
    BY <2>2, <2>3
<1>3. n \in G
  <2> HIDE DEF Holds
  <2>1. 0 \in G /\ \A k \in Nat : k \in G => k + 1 \in G
    BY <1>1, <1>2
  <2>2. Nat \subseteq G
    <3> HIDE DEF G
    <3> QED
      BY <2>1, Induct
  <2> HIDE DEF G
  <2> QED
    BY <2>2
<1> QED
  BY <1>3, CliquesDefined

\* Multiples are numbers, one more is k more, and more are no less.
LEMMA Product ==
  ASSUME NEW a \in Nat, NEW b \in Nat, NEW k \in Nat
  PROVE  /\ a * k \in Nat /\ (a + 1) * k = a * k + k
         /\ a <= b => a * k <= b * k
<1>1. a * k \in Nat /\ (a + 1) * k = a * k + k
  BY Z3
<1>2. ASSUME a <= b PROVE a * k <= b * k
  <2>1. PICK d \in Nat : b = a + d
    <3>1. b - a \in Nat /\ b = a + (b - a)
      BY <1>2
    <3> QED
      BY <3>1
  <2>2. (a + d) * k = a * k + d * k /\ d * k \in Nat
    BY Z3
  <2> QED
    BY <1>1, <2>1, <2>2
<1> QED
  BY <1>1, <1>2

\* Division with remainder.
LEMMA Quotient ==
  ASSUME NEW a \in Nat, NEW k \in Nat \ {0}
  PROVE  /\ a \div k \in Nat /\ a % k \in 0 .. k - 1
         /\ a = (a \div k) * k + (a % k)
  BY Z3

\* Division finds quotient and remainder again.
LEMMA QuotientUnique ==
  ASSUME NEW k \in Nat \ {0}, NEW q \in Nat, NEW r \in 0 .. k - 1
  PROVE  /\ q * k + r \in Nat
         /\ (q * k + r) \div k = q /\ (q * k + r) % k = r
<1>1. q * k \in Nat
  BY Product
<1> DEFINE a == q * k + r
           q1 == a \div k
           r1 == a % k
<1>2. a \in Nat
  BY <1>1
<1>3. q1 \in Nat /\ r1 \in 0 .. k - 1 /\ a = q1 * k + r1
  BY <1>2, Quotient
<1> HIDE DEF q1, r1
<1>4. /\ q1 * k \in Nat /\ (q1 + 1) * k = q1 * k + k /\ (q + 1) * k = q * k + k
      /\ (q1 + 1 <= q => (q1 + 1) * k <= q * k) /\ (q + 1 <= q1 => (q + 1) * k <= q1 * k)
  BY <1>3, Product
<1>5. ~(q1 + 1 <= q) /\ ~(q + 1 <= q1)
  BY <1>1, <1>3, <1>4
<1>6. q1 = q
  BY <1>3, <1>5
<1>7. r1 = r
  BY <1>1, <1>3, <1>6
<1> QED
  BY <1>2, <1>6, <1>7 DEF q1, r1

\* The trees that the groups 1 .. g have between them.
Upto(L, k, g) == Smaller(L, g * k)
NbGroups(L, k) == (L + k - 1) \div k

\* The groups follow each other without a gap, none is empty, and the last one ends
\* with the last tree.
LEMMA GroupBounds ==
  ASSUME NEW L \in Nat, NEW k \in Nat \ {0}
  PROVE  /\ NbGroups(L, k) \in Nat
         /\ Upto(L, k, 0) = 0 /\ Upto(L, k, NbGroups(L, k)) = L
         /\ \A g \in 1 .. NbGroups(L, k) :
              /\ Upto(L, k, g - 1) = (g - 1) * k
              /\ Upto(L, k, g - 1) \in Nat /\ Upto(L, k, g) \in Nat
              /\ Upto(L, k, g - 1) < Upto(L, k, g) /\ Upto(L, k, g) <= L
<1> DEFINE n == NbGroups(L, k)
<1>1. /\ n \in Nat /\ n * k \in Nat /\ n * k <= L + k - 1 /\ L <= n * k
  <2>1. L + k - 1 \in Nat
    OBVIOUS
  <2> DEFINE r == (L + k - 1) % k
  <2>2. n \in Nat /\ r \in 0 .. k - 1 /\ L + k - 1 = n * k + r
    BY <2>1, Quotient DEF NbGroups
  <2> HIDE DEF r, n
  <2>3. n * k \in Nat
    BY <2>2, Product
  <2> QED
    BY <2>2, <2>3
<1> HIDE DEF n
<1>3. Upto(L, k, 0) = 0
  <2>1. 0 * k = 0
    BY Z3
  <2> QED
    BY <2>1 DEF Upto, Smaller
<1>4. Upto(L, k, n) = L
  BY <1>1 DEF Upto, Smaller
<1>5. ASSUME NEW g \in 1 .. n
      PROVE  /\ Upto(L, k, g - 1) = (g - 1) * k
             /\ Upto(L, k, g - 1) \in Nat /\ Upto(L, k, g) \in Nat
             /\ Upto(L, k, g - 1) < Upto(L, k, g) /\ Upto(L, k, g) <= L
  <2> DEFINE before == (g - 1) * k
             after == g * k
  <2>1. g - 1 \in Nat /\ g \in Nat /\ g <= n
    BY <1>1
  <2>2. before \in Nat /\ after = before + k /\ after <= n * k
    <3>1. before \in Nat /\ ((g - 1) + 1) * k = before + k
      BY <2>1, Product
    <3>2. (g - 1) + 1 = g
      BY <2>1
    <3>3. after <= n * k
      BY <1>1, <2>1, Product
    <3> QED
      BY <3>1, <3>2, <3>3
  <2> HIDE DEF before, after
  <2>3. before < L
    BY <1>1, <2>2
  <2>4. Upto(L, k, g - 1) = before /\ Upto(L, k, g) = Smaller(L, after)
    BY <2>2, <2>3 DEF Upto, Smaller, before, after
  <2> QED
    BY <2>2, <2>3, <2>4 DEF Smaller, before
<1> QED
  BY <1>1, <1>3, <1>4, <1>5 DEF n

(***************************************************************************)
(* A part of a sum, and the sum of the parts.                              *)
(***************************************************************************)
LEMMA SumOfPart ==
  ASSUME NEW w, NEW low \in Nat, NEW high \in Nat, low <= high,
         \A i \in 1 .. high : w[i] \in Int,
         NEW v, \A i \in 1 .. high - low : v[i] = w[low + i]
  PROVE  SumTo(v, high - low) = SumTo(w, high) - SumTo(w, low)
<1> DEFINE n == high - low
           Holds(k) == k <= n => SumTo(v, k) = SumTo(w, low + k) - SumTo(w, low)
           G == {k \in Nat : Holds(k)}
<1>0. \A k \in Nat : k <= high => SumTo(w, k) \in Int /\ (k > 0 => SumTo(w, k) = SumTo(w, k - 1) + w[k])
  <2> SUFFICES ASSUME NEW k \in Nat, k <= high
               PROVE  SumTo(w, k) \in Int /\ (k > 0 => SumTo(w, k) = SumTo(w, k - 1) + w[k])
    OBVIOUS
  <2>1. CASE k = 0
    <3>1. SumTo(w, 0) = 0
      BY FS_EmptySet, SumIsNumber DEF SumTo
    <3> QED
      BY <2>1, <3>1
  <2>2. CASE k # 0
    <3>1. k - 1 \in Nat /\ (k - 1) + 1 = k /\ \A i \in 1 .. (k - 1) + 1 : w[i] \in Int
      BY <2>2
    <3>2. SumTo(w, k - 1) \in Int /\ SumTo(w, (k - 1) + 1) = SumTo(w, k - 1) + w[(k - 1) + 1]
      BY <3>1, SumAppends
    <3>3. w[k] \in Int
      BY <2>2
    <3> QED
      BY <3>1, <3>2, <3>3
  <2> QED
    BY <2>1, <2>2
<1>1. Holds(0)
  <2>1. SumTo(v, 0) = 0
    BY FS_EmptySet, SumIsNumber DEF SumTo
  <2>2. SumTo(w, low) \in Int
    BY <1>0
  <2> QED
    BY <2>1, <2>2
<1>2. ASSUME NEW k \in Nat, Holds(k) PROVE Holds(k + 1)
  <2> SUFFICES ASSUME k + 1 <= n PROVE SumTo(v, k + 1) = SumTo(w, low + (k + 1)) - SumTo(w, low)
    OBVIOUS
  <2>1. \A i \in 1 .. k + 1 : v[i] \in Int
    <3>1. \A i \in 1 .. k + 1 : i \in 1 .. high - low /\ low + i \in 1 .. high
      OBVIOUS
    <3> QED
      BY <3>1
  <2>2. SumTo(v, k + 1) = SumTo(v, k) + v[k + 1] /\ v[k + 1] = w[low + (k + 1)]
    BY <2>1, SumAppends
  <2>3. /\ SumTo(w, low) \in Int /\ SumTo(w, low + k) \in Int
        /\ SumTo(w, low + (k + 1)) = SumTo(w, low + k) + w[low + (k + 1)]
        /\ w[low + (k + 1)] \in Int
    <3>1. /\ low + (k + 1) \in 1 .. high /\ low + (k + 1) \in Nat /\ low + (k + 1) > 0
          /\ low + (k + 1) - 1 = low + k /\ low + k \in Nat /\ low + k <= high /\ low + (k + 1) <= high
      OBVIOUS
    <3> QED
      BY <1>0, <3>1
  <2> QED
    BY <1>2, <2>2, <2>3
<1>3. n \in G
  <2> HIDE DEF Holds
  <2>1. 0 \in G /\ \A k \in Nat : k \in G => k + 1 \in G
    BY <1>1, <1>2
  <2>2. Nat \subseteq G
    <3> HIDE DEF G
    <3> QED
      BY <2>1, Induct
  <2>3. n \in Nat
    OBVIOUS
  <2> HIDE DEF G
  <2> QED
    BY <2>2, <2>3
<1> QED
  BY <1>3

(***************************************************************************)
(* One level: the point stays in a clique of each group, the sum of their  *)
(* values stays, and the score of the level is on the safe side of it.     *)
(***************************************************************************)
Covers(at, nodes, w) ==
  /\ Len(nodes) \in Nat
  /\ \A i \in 1 .. Len(nodes) : w[i] \in Int /\ Stands(at, nodes[i], w[i])

Counted(at, nodes, total) ==
  \E w : Covers(at, nodes, w) /\ SumTo(w, Len(nodes)) = total

\* A level that has joined all trees has the score of its worst clique.
Settled(a, level, label) ==
  /\ Len(level.nodes) = 0 => level.score = 0
  /\ Len(level.nodes) = 1 => level.score = Worst(a, level.nodes[1], label)

FromAbove(a, label) == label = 0 /\ a.model.nb_classes <= 2
OnSide(a, label, score, total) ==
  /\ score \in Int
  /\ IF FromAbove(a, label) THEN total <= score ELSE score <= total

\* The score of the worst clique is that of some clique.
LEMMA WorstIsSome ==
  ASSUME NEW a, NEW label, NEW C, Valued(C)
  PROVE  /\ Worst(a, C, label) \in Int
         /\ C # {} => \E c \in C : c.value = Worst(a, C, label)
         /\ \A c \in C : OnSide(a, label, Worst(a, C, label), c.value)
<1> DEFINE values == {c.value : c \in C}
           value == [c \in C |-> c.value]
<1>1. CASE C = {}
  BY <1>1 DEF Worst
<1>2. CASE C # {}
  <2>1. values = {value[c] : c \in C}
    OBVIOUS
  <2>2. IsFiniteSet(values)
    <3> HIDE DEF value, values
    <3> QED
      BY <2>1, FiniteImage DEF Valued
  <2>3. values \subseteq Int /\ values # {}
    BY <1>2 DEF Valued
  <2>4. Worst(a, C, label) = IF FromAbove(a, label) THEN Max(values) ELSE Min(values)
    BY <1>2 DEF Worst, FromAbove
  <2>5. \A c \in C : c.value \in values
    OBVIOUS
  <2>6. \A v \in values : \E c \in C : c.value = v
    OBVIOUS
  <2> HIDE DEF values
  <2>7. /\ Max(values) \in values /\ \A v \in values : v <= Max(values)
        /\ Min(values) \in values /\ \A v \in values : Min(values) <= v
    BY <2>2, <2>3, Extremes
  <2> QED
    BY <2>3, <2>4, <2>5, <2>6, <2>7 DEF OnSide
<1> QED
  BY <1>1, <1>2

\* What SubSeq makes of the trees between low and high.
LEMMA PartOf ==
  ASSUME NEW s, NEW low \in Nat, NEW high \in Nat, low < high, high <= Len(s), Len(s) \in Nat
  PROVE  /\ Len(SubSeq(s, low + 1, high)) = high - low
         /\ \A i \in 1 .. high - low : SubSeq(s, low + 1, high)[i] = s[low + i]
<1>1. SubSeq(s, low + 1, high) = [i \in 1 .. 1 + high - (low + 1) |-> s[i + (low + 1) - 1]]
  OBVIOUS
<1>2. 1 + high - (low + 1) = high - low /\ \A i \in 1 .. high - low : i + (low + 1) - 1 = low + i
  OBVIOUS
<1> QED
  BY <1>1, <1>2

\* So is the sum of the worst cliques of the groups.
LEMMA LevelOnSide ==
  ASSUME NEW at, \A f \in at.F : at.p[f] \in Int,
         NEW a, a.max_clique \in Nat \ {0}, NEW nodes, NEW total, NEW label,
         Counted(at, nodes, total)
  PROVE  LET level == Level(a, nodes, label)
         IN  /\ Counted(at, level.nodes, total) /\ Settled(a, level, label)
             /\ ~at.all => OnSide(a, label, level.score, total)
<1> DEFINE L == Len(nodes)
           k == a.max_clique
           n == NbGroups(L, k)
           upto(g) == Upto(L, k, g)
           groups == Groups(a, nodes)
           joined == [g \in DOMAIN groups |-> Cliques(groups[g])]
<1>1. PICK w : Covers(at, nodes, w) /\ SumTo(w, Len(nodes)) = total
  BY DEF Counted
<1>2. L \in Nat /\ k \in Nat \ {0}
  BY <1>1 DEF Covers
<1>3. \A i \in 1 .. L : w[i] \in Int /\ Stands(at, nodes[i], w[i])
  BY <1>1 DEF Covers
<1>4. /\ n \in Nat /\ upto(0) = 0 /\ upto(n) = L
      /\ \A g \in 1 .. n : /\ upto(g - 1) = (g - 1) * k
                           /\ upto(g - 1) \in Nat /\ upto(g) \in Nat
                           /\ upto(g - 1) < upto(g) /\ upto(g) <= L
  BY <1>2, GroupBounds
<1> DEFINE W == [g \in 1 .. n |-> SumTo(w, upto(g)) - SumTo(w, upto(g - 1))]
<1>5. groups = [g \in 1 .. n |-> SubSeq(nodes, (g - 1) * k + 1, upto(g))]
  BY DEF Groups, NbGroups, Upto
<1>6. DOMAIN groups = 1 .. n /\ joined = [g \in 1 .. n |-> Cliques(groups[g])]
  BY <1>5
<1>7. ASSUME NEW g \in 1 .. n
      PROVE  W[g] \in Int /\ Stands(at, joined[g], W[g])
  <2> DEFINE low == upto(g - 1)
             high == upto(g)
             group == groups[g]
             v == [i \in 1 .. high - low |-> w[low + i]]
  <2>1. low \in Nat /\ high \in Nat /\ low < high /\ high <= L /\ low = (g - 1) * k
    BY <1>4
  <2>2. group = SubSeq(nodes, low + 1, high)
    BY <1>5, <2>1
  <2> HIDE DEF low, high, groups
  <2>3. Len(group) = high - low /\ \A i \in 1 .. high - low : group[i] = nodes[low + i]
    <3>1. low \in Nat /\ high \in Nat /\ low < high /\ high <= Len(nodes) /\ Len(nodes) \in Nat
      BY <1>2, <2>1
    <3>2. /\ Len(SubSeq(nodes, low + 1, high)) = high - low
          /\ \A i \in 1 .. high - low : SubSeq(nodes, low + 1, high)[i] = nodes[low + i]
      <4> HIDE DEF L
      <4> QED
        BY <3>1, PartOf
    <3> HIDE DEF group
    <3> QED
      BY <2>2, <3>2
  <2>4. \A i \in 1 .. high - low : v[i] = w[low + i] /\ low + i \in 1 .. L
    BY <1>2, <2>1
  <2>5. \A i \in 1 .. high : w[i] \in Int
    BY <1>2, <1>3, <2>1
  <2> HIDE DEF v, group
  <2>6. SumTo(v, high - low) = SumTo(w, high) - SumTo(w, low)
    <3>1. low <= high /\ \A i \in 1 .. high - low : v[i] = w[low + i]
      BY <2>1, <2>4
    <3> HIDE DEF L, k
    <3> QED
      BY <2>1, <2>5, <3>1, SumOfPart
  <2>7. Len(group) \in Nat \ {0}
    BY <2>1, <2>3
  <2>8. \A i \in 1 .. Len(group) : v[i] \in Int /\ Stands(at, group[i], v[i])
    BY <1>3, <2>3, <2>4
  <2>9. SumTo(v, Len(group)) \in Int /\ Stands(at, Cliques(group), SumTo(v, Len(group)))
    BY <2>7, <2>8, CliquesStand
  <2>10. W[g] = SumTo(w, high) - SumTo(w, low)
    BY DEF low, high
  <2>11. joined[g] = Cliques(group)
    BY <1>6 DEF group
  <2> QED
    BY <2>3, <2>6, <2>9, <2>10, <2>11
<1>8. Len(joined) = n /\ DOMAIN joined = 1 .. n
  BY <1>4, <1>6
<1> HIDE DEF joined, groups, W, n, upto
<1>9. SumTo(W, n) = total
  <2> DEFINE Holds(g) == g <= n => SumTo(W, g) = SumTo(w, upto(g))
             G == {g \in Nat : Holds(g)}
  <2>0. SumTo(W, 0) = 0 /\ SumTo(w, 0) = 0
    BY FS_EmptySet, SumIsNumber DEF SumTo
  <2>1. Holds(0)
    BY <1>4, <2>0
  <2>2. ASSUME NEW g \in Nat, Holds(g) PROVE Holds(g + 1)
    <3> SUFFICES ASSUME g + 1 <= n PROVE SumTo(W, g + 1) = SumTo(w, upto(g + 1))
      OBVIOUS
    <3>1. \A h \in 1 .. g + 1 : W[h] \in Int
      BY <1>4, <1>7
    <3>2. SumTo(W, g + 1) = SumTo(W, g) + W[g + 1]
      BY <3>1, SumAppends
    <3>3. g + 1 \in 1 .. n /\ (g + 1) - 1 = g
      BY <1>4
    <3>4. W[g + 1] = SumTo(w, upto(g + 1)) - SumTo(w, upto(g))
      BY <3>3 DEF W
    <3>5. \A i \in Nat : i <= L => SumTo(w, i) \in Int
      <4> SUFFICES ASSUME NEW i \in Nat, i <= L PROVE SumTo(w, i) \in Int
        OBVIOUS
      <4>1. CASE i = 0
        BY <2>0, <4>1
      <4>2. CASE i # 0
        <5>1. \A j \in 1 .. i : w[j] \in Int
          BY <1>2, <1>3
        <5>2. IsFiniteSet(1 .. i) /\ 1 .. i \in SUBSET (1 .. i)
          BY FS_Interval
        <5> QED
          BY <5>1, <5>2, SumIsNumber DEF SumTo
      <4> QED
        BY <4>1, <4>2
    <3>6. /\ upto(g + 1) \in Nat /\ upto(g) \in Nat
          /\ upto(g + 1) <= L /\ upto(g) <= L
      <4>1. upto(g) = upto((g + 1) - 1)
        BY <3>3
      <4>2. upto((g + 1) - 1) \in Nat /\ upto(g + 1) \in Nat
            /\ upto((g + 1) - 1) < upto(g + 1) /\ upto(g + 1) <= L
        BY <1>4, <3>3
      <4> QED
        BY <1>2, <4>1, <4>2
    <3>7. SumTo(W, g) = SumTo(w, upto(g))
      BY <1>4, <2>2
    <3>8. SumTo(w, upto(g)) \in Int /\ SumTo(w, upto(g + 1)) \in Int
      BY <3>5, <3>6
    <3> QED
      BY <3>2, <3>4, <3>7, <3>8
  <2>3. n \in G
    <3> HIDE DEF Holds
    <3>1. 0 \in G /\ \A g \in Nat : g \in G => g + 1 \in G
      BY <2>1, <2>2
    <3>2. Nat \subseteq G
      <4> HIDE DEF G
      <4> QED
        BY <3>1, Induct
    <3> HIDE DEF G
    <3> QED
      BY <1>4, <3>2
  <2> QED
    BY <1>1, <1>4, <2>3
<1>10. Counted(at, joined, total)
  BY <1>4, <1>7, <1>8, <1>9 DEF Counted, Covers
<1> DEFINE score == [g \in DOMAIN joined |-> Worst(a, joined[g], label)]
<1>11. Level(a, nodes, label).nodes = joined /\ Level(a, nodes, label).score = SumFunction(score)
  BY DEF Level, joined, groups
<1>12. ASSUME NEW g \in 1 .. n
       PROVE  score[g] \in Int /\ (~at.all => OnSide(a, label, score[g], W[g]))
  <2>1. Valued(joined[g]) /\ (~at.all => \E c \in joined[g] : c.value = W[g])
    BY <1>7 DEF Stands, Tells, Meets
  <2>2. score[g] = Worst(a, joined[g], label)
    BY <1>8
  <2> QED
    BY <2>1, <2>2, WorstIsSome
<1>13. SumFunction(score) = SumFunctionOnSet(score, 1 .. n)
  BY <1>8 DEF SumFunction
<1> HIDE DEF score
<1>14. ~at.all => OnSide(a, label, SumFunction(score), total)
  <2> SUFFICES ASSUME ~at.all PROVE OnSide(a, label, SumFunction(score), total)
    OBVIOUS
  <2>1. IsFiniteSet(1 .. n) /\ 1 .. n \in SUBSET (1 .. n)
    BY <1>4, FS_Interval
  <2>2. \A g \in 1 .. n : W[g] \in Int /\ score[g] \in Int
    BY <1>7, <1>12
  <2>c. \A g \in 1 .. n : OnSide(a, label, score[g], W[g])
    BY <1>12
  <2>3. SumFunctionOnSet(W, 1 .. n) \in Int /\ SumFunctionOnSet(score, 1 .. n) \in Int
    BY <2>1, <2>2, SumIsNumber
  <2>4. CASE FromAbove(a, label)
    <3>1. \A g \in 1 .. n : W[g] <= score[g]
      BY <2>c, <2>4 DEF OnSide
    <3>2. SumFunctionOnSet(W, 1 .. n) <= SumFunctionOnSet(score, 1 .. n)
      BY <2>1, <2>2, <3>1, SumsCompare
    <3> QED
      BY <1>9, <1>13, <2>3, <2>4, <3>2 DEF OnSide, SumTo
  <2>5. CASE ~FromAbove(a, label)
    <3>1. \A g \in 1 .. n : score[g] <= W[g]
      BY <2>c, <2>5 DEF OnSide
    <3>2. SumFunctionOnSet(score, 1 .. n) <= SumFunctionOnSet(W, 1 .. n)
      BY <2>1, <2>2, <3>1, SumsCompare
    <3> QED
      BY <1>9, <1>13, <2>3, <2>5, <3>2 DEF OnSide, SumTo
  <2> QED
    BY <2>4, <2>5
<1>15. /\ n = 0 => SumFunction(score) = 0
       /\ n = 1 => SumFunction(score) = score[1]
  <2>1. CASE n = 0
    BY <1>13, <2>1, FS_EmptySet, SumIsNumber
  <2>2. CASE n = 1
    <3>1. score[1] \in Int
      <4>1. 1 \in 1 .. n
        BY <2>2
      <4> QED
        BY <1>12, <4>1
    <3>2. \A i \in 1 .. 0 + 1 : score[i] \in Int
      BY <3>1
    <3>3. SumTo(score, 0) = 0 /\ SumTo(score, 0 + 1) = SumTo(score, 0) + score[0 + 1]
      BY <3>2, SumToNone, SumAppends
    <3> QED
      BY <1>13, <2>2, <3>1, <3>3 DEF SumTo
  <2> QED
    BY <2>1, <2>2
<1>16. Settled(a, Level(a, nodes, label), label)
  <2>1. n = 1 => score[1] = Worst(a, joined[1], label)
    BY <1>8 DEF score
  <2> QED
    BY <1>8, <1>11, <1>15, <2>1 DEF Settled
<1> QED
  BY <1>10, <1>11, <1>14, <1>16

Levels(a, s, e, target) ==
  LET best[level \in 0 .. a.max_level] ==
        IF level = 0 THEN [score |-> 0, nodes |-> AccessibleLeaves(a, s, e, target)]
        ELSE LET last == best[level - 1]
             IN IF level > 1 /\ Len(last.nodes) <= 1 THEN last ELSE Level(a, last.nodes, a.y[s])
  IN best

LevelStep(a, s, e, target, best, level) ==
  IF level = 0 THEN [score |-> 0, nodes |-> AccessibleLeaves(a, s, e, target)]
  ELSE IF level > 1 /\ Len(best[level - 1].nodes) <= 1 THEN best[level - 1]
       ELSE Level(a, best[level - 1].nodes, a.y[s])

\* The levels follow from the ones before.
LEMMA LevelsDefined ==
  ASSUME NEW a, a.max_level \in Nat, NEW s, NEW e, NEW target
  PROVE  /\ LastLevel(a, s, e, target) = Levels(a, s, e, target)[a.max_level]
         /\ \A level \in 0 .. a.max_level :
              Levels(a, s, e, target)[level] =
                LevelStep(a, s, e, target, Levels(a, s, e, target), level)
<1> DEFINE n == a.max_level
           best == Levels(a, s, e, target)
           Step(g, i) == LevelStep(a, s, e, target, g, i)
           Solves(g, k) == g = [i \in 0 .. n |-> g[i]] /\ \A i \in 0 .. n : i < k => g[i] = Step(g, i)
           G == {k \in Nat : \E g : Solves(g, k)}
<1>1. Solves([i \in 0 .. n |-> 0], 0)
  OBVIOUS
<1>2. ASSUME NEW k \in Nat, NEW g, Solves(g, k)
      PROVE  \E h : Solves(h, k + 1)
  <2> DEFINE h == [i \in 0 .. n |-> Step(g, i)]
  <2>1. h = [i \in 0 .. n |-> h[i]] /\ \A i \in 0 .. n : h[i] = Step(g, i)
    OBVIOUS
  <2> HIDE DEF h
  <2>2. ASSUME NEW i \in 0 .. n, i < k + 1
        PROVE  h[i] = Step(h, i)
    <3>1. i # 0 => h[i - 1] = g[i - 1]
      <4>1. i # 0 => i - 1 \in 0 .. n /\ i - 1 < k
        BY <2>2
      <4> QED
        BY <1>2, <2>1, <4>1
    <3> QED
      BY <2>1, <3>1 DEF LevelStep
  <2>3. Solves(h, k + 1)
    BY <2>1, <2>2
  <2> HIDE DEF Solves
  <2> QED
    BY <2>3
<1>3. Nat \subseteq G
  <2> HIDE DEF Solves
  <2>1. 0 \in G /\ \A k \in Nat : k \in G => k + 1 \in G
    BY <1>1, <1>2
  <2> HIDE DEF G
  <2> QED
    BY <2>1, Induct
<1>4. PICK g : Solves(g, n + 1)
  <2> HIDE DEF Solves
  <2>1. n + 1 \in Nat
    OBVIOUS
  <2> QED
    BY <1>3, <2>1
<1>5. g = [i \in 0 .. n |-> Step(g, i)]
  BY <1>4
<1>6. best = [i \in 0 .. n |-> Step(best, i)]
  BY <1>5 DEF Levels, LevelStep
<1> HIDE DEF G
<1>7. LastLevel(a, s, e, target) = best[n]
  BY DEF LastLevel, Levels
<1> QED
  BY <1>6, <1>7

\* And so it is on the last level, however many trees are joined at a time
\* and however many levels there are.
LEMMA BestOnSide ==
  ASSUME NEW at, \A f \in at.F : at.p[f] \in Int,
         NEW a, a.max_clique \in Nat \ {0}, a.max_level \in Nat \ {0},
         NEW s, NEW e, NEW target, NEW total,
         Counted(at, AccessibleLeaves(a, s, e, target), total)
  PROVE  LET last == LastLevel(a, s, e, target)
         IN  /\ Counted(at, last.nodes, total) /\ Settled(a, last, a.y[s])
             /\ ~at.all => OnSide(a, a.y[s], last.score, total)
<1> DEFINE n == a.max_level
           best == Levels(a, s, e, target)
           label == a.y[s]
           Fine(level) == Settled(a, level, label) /\ (~at.all => OnSide(a, label, level.score, total))
           Holds(k) == k <= n => /\ Counted(at, best[k].nodes, total)
                                 /\ k > 0 => Fine(best[k])
           G == {k \in Nat : Holds(k)}
<1>1. \A k \in 0 .. n : best[k] = LevelStep(a, s, e, target, best, k)
  BY LevelsDefined
<1>2. Holds(0)
  BY <1>1 DEF LevelStep
<1>3. ASSUME NEW k \in Nat, Holds(k) PROVE Holds(k + 1)
  <2> DEFINE nodes == best[k].nodes
  <2> SUFFICES ASSUME k + 1 <= n
               PROVE  Counted(at, best[k + 1].nodes, total) /\ Fine(best[k + 1])
    OBVIOUS
  <2>1. Counted(at, nodes, total) /\ (k > 0 => Fine(best[k]))
    BY <1>3
  <2>2. best[k + 1] = IF k > 0 /\ Len(nodes) <= 1 THEN best[k] ELSE Level(a, nodes, label)
    <3>1. k + 1 \in 0 .. n /\ k + 1 # 0 /\ (k + 1) - 1 = k /\ (k + 1 > 1 <=> k > 0)
      OBVIOUS
    <3> HIDE DEF best
    <3> QED
      BY <1>1, <3>1 DEF LevelStep
  <2> HIDE DEF nodes, label, best
  <2>3. Counted(at, Level(a, nodes, label).nodes, total) /\ Fine(Level(a, nodes, label))
    BY <2>1, LevelOnSide
  <2> QED
    BY <2>1, <2>2, <2>3 DEF nodes
<1>4. n \in G
  <2> HIDE DEF Holds
  <2>1. 0 \in G /\ \A k \in Nat : k \in G => k + 1 \in G
    BY <1>2, <1>3
  <2>2. Nat \subseteq G
    <3> HIDE DEF G
    <3> QED
      BY <2>1, Induct
  <2> HIDE DEF G
  <2> QED
    BY <2>2
<1> QED
  BY <1>4, LevelsDefined

(***************************************************************************)
(* The values of the leaves of a forest.  A leaf is pure when its weights  *)
(* are all of one class, as they are where the trees were grown to the     *)
(* end.                                                                    *)
(***************************************************************************)
PureLeaves(m) ==
  \A i \in DOMAIN m.trees : \A n \in DOMAIN m.trees[i].values :
    \E c \in 0 .. m.nb_classes - 1 :
      \A d \in (0 .. m.nb_classes - 1) \ {c} : m.trees[i].values[n][d] = 0

(***************************************************************************)
(* The ensembles whose verification adds up what their prediction does: of *)
(* the forests, those of more classes than two with pure leaves.  The      *)
(* verification divides the weights of a leaf by their norm, the           *)
(* prediction by their sum; it is the same for a pure leaf.                *)
(***************************************************************************)
Comparable(m) == m.kind = "forest" => m.nb_classes # 2 /\ PureLeaves(m)

\* A sum of naturals of which one is positive is positive, and it is that one if
\* the others are zero.
LEMMA WeightsAddUp ==
  ASSUME NEW k \in Nat \ {0}, NEW w \in [0 .. k - 1 -> Nat], NEW c \in 0 .. k - 1, w[c] > 0
  PROVE  /\ SumFunction(w) \in Nat \ {0}
         /\ (\A d \in (0 .. k - 1) \ {c} : w[d] = 0) => SumFunction(w) = w[c]
<1> DEFINE S == 0 .. k - 1
<1>1. IsFiniteSet(S) /\ c \in S /\ w \in [S -> Nat]
  <2>1. 0 \in Int /\ k - 1 \in Int
    OBVIOUS
  <2> QED
    BY <2>1, FS_Interval
<1>2. DOMAIN w = S
  OBVIOUS
<1> HIDE DEF S
<1>3. \A d \in S : w[d] \in Int
  BY <1>1
<1>4. SumFunctionOnSet(w, S) = w[c] + SumFunctionOnSet(w, S \ {c})
  BY <1>1, <1>3, SumRemoves
<1>5. SumFunctionOnSet(w, {}) = 0 /\ SumFunctionOnSet(w, S \ {c}) \in Int
  BY <1>1, <1>3, SumIsNumber
<1>6. SumFunctionOnSet(w, {}) <= SumFunctionOnSet(w, S \ {c})
  <2>1. IsFiniteSet(S \ {c}) /\ {} \in SUBSET (S \ {c}) /\ \A d \in S \ {c} : w[d] \in Nat
    BY <1>1, FS_Subset
  <2> HIDE DEF S
  <2> QED
    BY <2>1, SumOfFewer
<1>7. ASSUME \A d \in S \ {c} : w[d] = 0
      PROVE  SumFunctionOnSet(w, S \ {c}) = 0
  <2> DEFINE none == [d \in S \ {c} |-> w[d] - w[d]]
  <2>1. IsFiniteSet(S \ {c})
    BY <1>1, FS_Subset
  <2>2. \A d \in S \ {c} : w[d] \in Int /\ w[d] = w[d] - w[d]
    BY <1>1, <1>7
  <2>3. SumFunctionOnSet(w, S \ {c}) = SumFunctionOnSet(w, S \ {c}) - SumFunctionOnSet(w, S \ {c})
    BY <2>1, <2>2, SumsSubtract
  <2> QED
    BY <1>5, <2>3
<1>8. SumFunction(w) = SumFunctionOnSet(w, S)
  BY <1>2 DEF SumFunction
<1>9. w[c] \in Nat
  BY <1>1
<1> QED
  BY <1>4, <1>5, <1>6, <1>7, <1>8, <1>9 DEF S

\* What the verification is handed for a class is a number; of a leaf with all
\* its weight on one class it is what the prediction has for it.
LEMMA UnitIsProportion ==
  ASSUME NEW k \in Nat \ {0}, NEW w \in [0 .. k - 1 -> Nat], NEW c \in 0 .. k - 1, w[c] > 0,
         NEW d \in 0 .. k - 1
  PROVE  /\ UnitValue(w, d) \in Int
         /\ (\A b \in (0 .. k - 1) \ {c} : w[b] = 0) => UnitValue(w, d) = Proportion(w, d)
<1> DEFINE squares == [b \in DOMAIN w |-> w[b] * w[b]]
           all == SumFunction(squares)
           square == (One * One * squares[d]) \div all
           parts == {part \in 0 .. One : part * part <= square}
<1>1. One \in Nat \ {0}
  BY SearchAssumption
<1>2. DOMAIN w = 0 .. k - 1 /\ squares = [b \in 0 .. k - 1 |-> w[b] * w[b]]
  OBVIOUS
<1>3. \A b \in 0 .. k - 1 : w[b] * w[b] \in Nat
  BY Product
<1>4. squares \in [0 .. k - 1 -> Nat] /\ \A b \in 0 .. k - 1 : squares[b] = w[b] * w[b]
  BY <1>2, <1>3
<1>5. w[c] * w[c] > 0
  <2>1. w[c] \in Nat \ {0}
    OBVIOUS
  <2> DEFINE v == w[c]
  <2> HIDE DEF v
  <2>2. 1 <= v
    BY <2>1 DEF v
  <2>3. v * v \in Nat /\ 1 * v <= v * v /\ 1 * v = v
    BY <2>1, <2>2, Product DEF v
  <2> QED
    BY <2>2, <2>3 DEF v
<1>6. all \in Nat \ {0}
  <2> HIDE DEF squares
  <2> QED
    BY <1>4, <1>5, WeightsAddUp
<1>7. One * One * squares[d] \in Nat
  <2>1. One * One \in Nat
    BY <1>1, Product
  <2> DEFINE oo == One * One
             q == squares[d]
  <2>2. oo \in Nat /\ q \in Nat
    BY <1>4, <2>1
  <2> HIDE DEF oo, q
  <2>3. oo * q \in Nat
    BY <2>2, Product
  <2> QED
    BY <2>3 DEF oo, q
<1>8. square \in Nat
  <2> DEFINE n == One * One * squares[d]
  <2> HIDE DEF n, all
  <2>1. n \div all \in Nat
    BY <1>6, <1>7, Quotient DEF n
  <2> QED
    BY <2>1 DEF n
<1>9. UnitValue(w, d) = Max(parts)
  BY DEF UnitValue
<1> HIDE DEF square
<1>10. IsFiniteSet(parts) /\ 0 \in parts /\ parts \subseteq Int
  <2>1. IsFiniteSet(0 .. One) /\ parts \subseteq 0 .. One
    <3>1. 0 \in Int /\ One \in Int
      BY <1>1
    <3> QED
      BY <3>1, FS_Interval
  <2>2. 0 \in 0 .. One /\ 0 * 0 <= square
    BY <1>1, <1>8
  <2> QED
    BY <1>1, <2>1, <2>2, FS_Subset
<1>11. Max(parts) \in parts /\ \A v \in parts : v <= Max(parts)
  <2> HIDE DEF parts
  <2> QED
    BY <1>10, Extremes
<1>12. ASSUME \A b \in (0 .. k - 1) \ {c} : w[b] = 0
       PROVE  Max(parts) = Proportion(w, d)
  <2>1. SumFunction(w) = w[c]
    BY <1>12, WeightsAddUp
  <2>2. all = w[c] * w[c]
    <3>1. \A b \in (0 .. k - 1) \ {c} : squares[b] = 0
      BY <1>4, <1>12
    <3>2. squares[c] = w[c] * w[c]
      BY <1>4
    <3> HIDE DEF squares
    <3>3. squares[c] > 0
      BY <1>5, <3>2
    <3>4. SumFunction(squares) = squares[c]
      BY <1>4, <3>1, <3>3, WeightsAddUp
    <3> QED
      BY <3>2, <3>4
  <2>3. CASE d = c
    <3> DEFINE v == w[c]
               oo == One * One
    <3>1. v \in Nat \ {0} /\ oo \in Nat /\ v * v \in Nat \ {0}
      BY <1>1, <1>3, <1>5, Product
    <3>2. square = (oo * (v * v)) \div (v * v)
      BY <1>4, <2>2, <2>3 DEF square
    <3>3. square = oo
      <4> DEFINE vv == v * v
      <4> HIDE DEF oo, v, vv
      <4>1. vv \in Nat \ {0} /\ 0 \in 0 .. vv - 1
        BY <3>1 DEF vv
      <4>2. oo * vv \in Nat
        BY <3>1, <4>1, Product
      <4>3. (oo * vv + 0) \div vv = oo
        BY <3>1, <4>1, QuotientUnique
      <4>4. oo * vv + 0 = oo * vv
        BY <4>2
      <4> QED
        BY <3>2, <4>3, <4>4 DEF vv
    <3>4. One \in parts
      BY <1>1, <3>1, <3>3
    <3>5. Max(parts) = One
      BY <1>1, <1>11, <3>4
    <3>6. Proportion(w, d) = One
      <4>1. Proportion(w, d) = (One * v) \div v
        BY <2>1, <2>3 DEF Proportion
      <4> HIDE DEF v
      <4>2. One * v \in Nat /\ 0 \in 0 .. v - 1
        BY <1>1, <3>1, Product
      <4>3. (One * v + 0) \div v = One
        BY <1>1, <3>1, <4>2, QuotientUnique
      <4>4. One * v + 0 = One * v
        BY <4>2
      <4> QED
        BY <4>1, <4>3, <4>4
    <3> QED
      BY <3>5, <3>6
  <2>4. CASE d # c
    <3>1. w[d] = 0 /\ squares[d] = 0
      BY <1>4, <1>12, <2>4
    <3>2. \A n \in Nat \ {0} : 0 \div n = 0
      <4> TAKE n \in Nat \ {0}
      <4>1. 0 \in 0 .. n - 1 /\ 0 * n + 0 = 0
        BY Z3
      <4>2. (0 * n + 0) \div n = 0
        BY <4>1, QuotientUnique
      <4> QED
        BY <4>1, <4>2
    <3>3. One * One * squares[d] = 0 /\ One * w[d] = 0
      BY <1>1, <3>1, Z3
    <3>4. square = 0
      BY <1>6, <3>2, <3>3 DEF square
    <3>5. \A part \in 0 .. One : part * part <= square => part = 0
      <4> TAKE part \in 0 .. One
      <4>1. part \in Nat /\ part * part \in Nat
        BY <1>1, Product
      <4>2. part >= 1 => 1 * part <= part * part /\ 1 * part = part
        BY <4>1, Product
      <4> QED
        BY <3>4, <4>1, <4>2
    <3>6. Max(parts) = 0
      BY <1>11, <3>5
    <3>7. Proportion(w, d) = 0
      BY <2>1, <3>2, <3>3 DEF Proportion
    <3> QED
      BY <3>6, <3>7
  <2> QED
    BY <2>3, <2>4
<1> QED
  BY <1>9, <1>10, <1>11, <1>12

\* The leaf of a forest.
LEMMA LeafValue ==
  ASSUME NEW F, NEW m, IsModel(m, F), m.kind # "booster", NEW i \in DOMAIN m.trees,
         NEW n \in DOMAIN m.trees[i].values, NEW d \in 0 .. m.nb_classes - 1
  PROVE  LET w == m.trees[i].values[n]
         IN  /\ UnitValue(w, d) \in Int
             /\ PureLeaves(m) => UnitValue(w, d) = Proportion(w, d)
<1> DEFINE w == m.trees[i].values[n]
           k == m.nb_classes
<1>1. k \in Nat \ {0} /\ w \in [0 .. k - 1 -> Nat] /\ \E c \in DOMAIN w : w[c] > 0
  BY DEF IsModel
<1>2. PICK c \in 0 .. k - 1 : w[c] > 0
  BY <1>1
<1>3. PureLeaves(m) => \A b \in (0 .. k - 1) \ {c} : w[b] = 0
  BY <1>1, <1>2 DEF PureLeaves
<1> HIDE DEF w, k
<1>4. UnitValue(w, d) \in Int
  BY <1>1, <1>2, UnitIsProportion DEF k
<1>5. PureLeaves(m) => UnitValue(w, d) = Proportion(w, d)
  BY <1>1, <1>2, <1>3, UnitIsProportion DEF k
<1> QED
  BY <1>4, <1>5 DEF w

(***************************************************************************)
(* The leaves of the trees that get_trees hands over: one of each has the  *)
(* point inside, with the share of the tree in the score.                  *)
(***************************************************************************)
TreeOf(m, i) == IF m.kind = "booster" THEN i ELSE ((i - 1) \div m.nb_classes) + 1
ClassOf(m, i) == (i - 1) % m.nb_classes
Unit(m, i, p, class) == UnitValue(Reached(m, i, p), class)
Share(m, i, p) ==
  IF m.kind = "booster" THEN Reached(m, i, p) ELSE Unit(m, TreeOf(m, i), p, ClassOf(m, i))

NbTrees(m) == IF m.kind = "booster" THEN Len(m.trees) ELSE Len(m.trees) * m.nb_classes

\* The trees that are handed over are those of the model, each for a class.
LEMMA TreeNumbers ==
  ASSUME NEW F, NEW m, IsModel(m, F)
  PROVE  /\ NbTrees(m) \in Nat
         /\ \A i \in 1 .. NbTrees(m) :
              TreeOf(m, i) \in DOMAIN m.trees /\ ClassOf(m, i) \in 0 .. m.nb_classes - 1
<1> DEFINE n == Len(m.trees)
           k == m.nb_classes
<1>1. n \in Nat /\ k \in Nat \ {0} /\ DOMAIN m.trees = 1 .. n /\ m.kind \in {"booster", "forest"}
  BY DEF IsModel
<1> HIDE DEF n, k
<1>2. n * k \in Nat
  BY <1>1, Product
<1>3. ASSUME NEW i \in Nat \ {0}
      PROVE  ClassOf(m, i) \in 0 .. k - 1
  <2>1. i - 1 \in Nat
    OBVIOUS
  <2>2. (i - 1) % k \in 0 .. k - 1
    BY <1>1, <2>1, Quotient
  <2> QED
    BY <2>2 DEF ClassOf, k
<1>4. ASSUME NEW i \in 1 .. n * k
      PROVE  ((i - 1) \div k) + 1 \in 1 .. n
  <2> DEFINE q == (i - 1) \div k
             r == (i - 1) % k
  <2>1. i - 1 \in Nat /\ i - 1 < n * k
    BY <1>2
  <2>2. q \in Nat /\ r \in 0 .. k - 1 /\ i - 1 = q * k + r
    BY <1>1, <2>1, Quotient
  <2> HIDE DEF q, r
  <2>3. n <= q => n * k <= q * k
    BY <1>1, <2>2, Product
  <2>4. q * k \in Nat
    BY <1>1, <2>2, Product
  <2>5. q < n
    BY <1>1, <1>2, <2>1, <2>2, <2>3, <2>4
  <2> QED
    BY <1>1, <2>2, <2>5 DEF q
<1>5. CASE m.kind = "booster"
  <2>1. NbTrees(m) = n /\ \A i \in 1 .. n : TreeOf(m, i) = i
    BY <1>5 DEF NbTrees, TreeOf, n
  <2> QED
    BY <1>1, <1>3, <2>1 DEF k
<1>6. CASE m.kind = "forest"
  <2>1. NbTrees(m) = n * k /\ \A i \in 1 .. n * k : TreeOf(m, i) = ((i - 1) \div k) + 1
    BY <1>6 DEF NbTrees, TreeOf, n, k
  <2>2. \A i \in 1 .. n * k : i \in Nat \ {0}
    BY <1>2
  <2> QED
    BY <1>1, <1>2, <1>3, <1>4, <2>1, <2>2 DEF k
<1> QED
  BY <1>1, <1>5, <1>6

\* The leaves of one tree.
LEMMA LeavesReached ==
  ASSUME NEW F, NEW m, IsModel(m, F), NEW i \in DOMAIN m.trees,
         NEW p, \A f \in F : p[f] \in 0 .. One
  PROVE  /\ IsFiniteSet(LeafNodes(m.trees[i]))
         /\ \A leaf \in LeafNodes(m.trees[i]) :
              \E n \in DOMAIN m.trees[i].values : leaf.value = m.trees[i].values[n]
         /\ \E leaf \in LeafNodes(m.trees[i]) :
              Around(leaf, F, m.kind, p) /\ leaf.value = Reached(m, i, p)
         /\ Grown(m) => \A leaf \in LeafNodes(m.trees[i]) :
              /\ IsBox(leaf.box, F) /\ Roomy(leaf.box)
              /\ Inside(m.kind, p, leaf.box) => leaf.value = Reached(m, i, p)
<1> DEFINE tree == m.trees[i]
           leaves == [n \in DOMAIN tree.values |-> [box |-> BoxOf(tree)[n], value |-> tree.values[n]]]
<1>1. LeafNodes(tree) = {leaves[n] : n \in DOMAIN tree.values}
  BY DEF LeafNodes
<1>2. IsFiniteSet(DOMAIN tree.values)
  <2>1. IsFiniteSet(Nodes(tree)) /\ DOMAIN tree.values \subseteq Nodes(tree)
    BY DEF IsModel, IsTree, Nodes
  <2> QED
    BY <2>1, FS_Subset
<1>3. PICK l \in DOMAIN tree.values :
        /\ Reached(m, i, p) = tree.values[l]
        /\ IsBox(BoxOf(tree)[l], F) /\ DOMAIN BoxOf(tree)[l] # {}
        /\ Inside(m.kind, p, BoxOf(tree)[l])
  BY LeafReached
<1>4. Around(leaves[l], F, m.kind, p) /\ leaves[l].value = Reached(m, i, p)
  BY <1>3 DEF Around
<1>5. \A n \in DOMAIN tree.values : leaves[n].value = tree.values[n] /\ leaves[n].box = BoxOf(tree)[n]
  OBVIOUS
<1>7. ASSUME Grown(m), NEW n \in DOMAIN tree.values
      PROVE  /\ IsBox(leaves[n].box, F) /\ Roomy(leaves[n].box)
             /\ Inside(m.kind, p, leaves[n].box) => leaves[n].value = Reached(m, i, p)
  <2>1. n \in Nodes(tree) \ {1}
    BY DEF IsModel, IsTree, Nodes
  <2>2. /\ IsBox(BoxOf(tree)[n], F) /\ Roomy(BoxOf(tree)[n])
        /\ Inside(m.kind, p, BoxOf(tree)[n]) => Reached(m, i, p) = Descent(m, i, p)[n]
    BY <1>7, <2>1, NodeHolds
  <2>3. Descent(m, i, p)[n] = tree.values[n]
    <3>1. n \in Nodes(m.trees[i])
      BY <2>1
    <3>2. Descent(m, i, p)[n] = DescentStep(m, i, p, Descent(m, i, p), n)
      <4> HIDE DEF tree
      <4> QED
        BY <3>1, DescentDefined
    <3> QED
      BY <3>2 DEF DescentStep
  <2> QED
    BY <1>5, <2>2, <2>3
<1> HIDE DEF leaves
<1>6. IsFiniteSet({leaves[n] : n \in DOMAIN tree.values})
  BY <1>2, FiniteImage
<1> QED
  BY <1>1, <1>3, <1>4, <1>5, <1>6, <1>7

\* The leaves of the trees as a booster and as a forest hand them over.
LEMMA TreesReached ==
  ASSUME NEW F, NEW m, IsModel(m, F), NEW p, \A f \in F : p[f] \in 0 .. One
  PROVE  /\ Len(GetTrees(m)) = NbTrees(m)
         /\ \A i \in 1 .. NbTrees(m) :
              /\ GetTrees(m)[i].class_id =
                   IF m.kind = "booster" /\ m.nb_classes = 2 THEN -1 ELSE ClassOf(m, i)
              /\ Share(m, i, p) \in Int
              /\ Meets(GetTrees(m)[i].leaf_nodes, F, m.kind, p, Share(m, i, p))
              /\ Grown(m) => Tells(GetTrees(m)[i].leaf_nodes, F, m.kind, p, Share(m, i, p))
<1> DEFINE kind == m.kind
<1>1. /\ kind \in {"booster", "forest"} /\ NbTrees(m) \in Nat
      /\ \A i \in 1 .. NbTrees(m) :
           TreeOf(m, i) \in DOMAIN m.trees /\ ClassOf(m, i) \in 0 .. m.nb_classes - 1
  BY TreeNumbers DEF IsModel
<1>2. CASE kind = "booster"
  <2>1. GetTrees(m) =
          [i \in 1 .. NbTrees(m) |->
             [class_id |-> IF m.nb_classes = 2 THEN -1 ELSE ClassOf(m, i),
              leaf_nodes |-> LeafNodes(m.trees[i])]]
    BY <1>2 DEF GetTrees, BoosterTrees, NbTrees, ClassOf
  <2>2. \A i \in 1 .. NbTrees(m) : TreeOf(m, i) = i /\ Share(m, i, p) = Reached(m, i, p)
    BY <1>2 DEF TreeOf, Share
  <2>3. ASSUME NEW i \in 1 .. NbTrees(m)
        PROVE  /\ Share(m, i, p) \in Int
               /\ Meets(LeafNodes(m.trees[i]), F, kind, p, Share(m, i, p))
               /\ Grown(m) => Tells(LeafNodes(m.trees[i]), F, kind, p, Share(m, i, p))
    <3>1. i \in DOMAIN m.trees
      BY <1>1, <2>2
    <3>2. \A n \in DOMAIN m.trees[i].values : m.trees[i].values[n] \in Int
      BY <1>2, <3>1 DEF IsModel
    <3>3. /\ IsFiniteSet(LeafNodes(m.trees[i]))
          /\ \A leaf \in LeafNodes(m.trees[i]) :
               \E n \in DOMAIN m.trees[i].values : leaf.value = m.trees[i].values[n]
          /\ \E leaf \in LeafNodes(m.trees[i]) :
               Around(leaf, F, m.kind, p) /\ leaf.value = Reached(m, i, p)
          /\ Grown(m) => \A leaf \in LeafNodes(m.trees[i]) :
               /\ IsBox(leaf.box, F) /\ Roomy(leaf.box)
               /\ Inside(m.kind, p, leaf.box) => leaf.value = Reached(m, i, p)
      BY <3>1, LeavesReached
    <3> QED
      BY <2>2, <3>2, <3>3 DEF Meets, Tells, Valued
  <2> QED
    BY <1>1, <1>2, <2>1, <2>3
<1>3. CASE kind = "forest"
  <2> DEFINE leaves(i) == LeafNodes(m.trees[TreeOf(m, i)])
             c(i) == ClassOf(m, i)
             shares(i) == {[box |-> leaf.box, value |-> UnitValue(leaf.value, c(i))] : leaf \in leaves(i)}
  <2>1. GetTrees(m) =
          [i \in 1 .. NbTrees(m) |-> [class_id |-> c(i), leaf_nodes |-> shares(i)]]
    BY <1>3 DEF GetTrees, ForestTrees, NbTrees, TreeOf, ClassOf
  <2>2. \A i \in 1 .. NbTrees(m) : Share(m, i, p) = UnitValue(Reached(m, TreeOf(m, i), p), c(i))
    BY <1>3 DEF Share, Unit
  <2>3. ASSUME NEW i \in 1 .. NbTrees(m)
        PROVE  /\ Share(m, i, p) \in Int /\ Meets(shares(i), F, kind, p, Share(m, i, p))
               /\ Grown(m) => Tells(shares(i), F, kind, p, Share(m, i, p))
    <3>1. TreeOf(m, i) \in DOMAIN m.trees /\ c(i) \in 0 .. m.nb_classes - 1
      BY <1>1
    <3> DEFINE j == TreeOf(m, i)
    <3>2. \A n \in DOMAIN m.trees[j].values : UnitValue(m.trees[j].values[n], c(i)) \in Int
      BY <1>3, <3>1, LeafValue DEF c
    <3>3. /\ IsFiniteSet(leaves(i))
          /\ \A leaf \in leaves(i) :
               \E n \in DOMAIN m.trees[j].values : leaf.value = m.trees[j].values[n]
          /\ \E leaf \in leaves(i) :
               Around(leaf, F, m.kind, p) /\ leaf.value = Reached(m, j, p)
          /\ Grown(m) => \A leaf \in leaves(i) :
               /\ IsBox(leaf.box, F) /\ Roomy(leaf.box)
               /\ Inside(m.kind, p, leaf.box) => leaf.value = Reached(m, j, p)
      BY <3>1, LeavesReached
    <3> DEFINE share == [leaf \in leaves(i) |-> [box |-> leaf.box, value |-> UnitValue(leaf.value, c(i))]]
    <3>4. shares(i) = {share[leaf] : leaf \in leaves(i)}
      OBVIOUS
    <3>5. \A leaf \in leaves(i) : share[leaf].value \in Int
      BY <3>2, <3>3
    <3>6. PICK leaf \in leaves(i) : Around(leaf, F, kind, p) /\ leaf.value = Reached(m, j, p)
      BY <3>3
    <3>7. Around(share[leaf], F, kind, p) /\ share[leaf].value = Share(m, i, p)
      BY <2>2, <3>6 DEF Around
    <3>9. Grown(m) => \A l \in leaves(i) :
            /\ IsBox(share[l].box, F) /\ Roomy(share[l].box)
            /\ Inside(kind, p, share[l].box) => share[l].value = Share(m, i, p)
      BY <2>2, <3>3
    <3> HIDE DEF share, shares, leaves
    <3>8. IsFiniteSet({share[l] : l \in leaves(i)})
      BY <3>3, FiniteImage
    <3> QED
      BY <3>4, <3>5, <3>6, <3>7, <3>8, <3>9 DEF Meets, Tells, Valued
  <2> HIDE DEF shares, c
  <2>4. Len(GetTrees(m)) = NbTrees(m)
    BY <1>1, <2>1
  <2>5. \A i \in 1 .. NbTrees(m) :
          GetTrees(m)[i].class_id = c(i) /\ GetTrees(m)[i].leaf_nodes = shares(i)
    BY <2>1
  <2> QED
    BY <1>3, <2>3, <2>4, <2>5 DEF c
<1> QED
  BY <1>1, <1>2, <1>3

Sign(a, tree, target) == IF a.model.nb_classes > 2 /\ tree.class_id = target THEN -1 ELSE 1
Within(a, s, e, target, tree) ==
  {[box |-> leaf.box, value |-> Sign(a, tree, target) * leaf.value] :
     leaf \in {l \in tree.leaf_nodes : WithinReach(Distance(a, l.box, a.x[s]), e)}}

LeavesUpTo(a, s, e, target) ==
  LET trees == GetTrees(a.model)
      leaves[i \in 0 .. Len(trees)] ==
        IF i = 0 THEN << >>
        ELSE IF Relevant(a, trees[i], s, target)
             THEN Append(leaves[i - 1], Within(a, s, e, target, trees[i]))
             ELSE leaves[i - 1]
  IN leaves

\* The accessible leaves follow from those of one tree less.
LEMMA LeavesDefined ==
  ASSUME NEW a, NEW s, NEW e, NEW target, NEW n \in Nat, Len(GetTrees(a.model)) = n
  PROVE  /\ AccessibleLeaves(a, s, e, target) = LeavesUpTo(a, s, e, target)[n]
         /\ LeavesUpTo(a, s, e, target)[0] = << >>
         /\ \A i \in 1 .. n :
              LeavesUpTo(a, s, e, target)[i] =
                IF Relevant(a, GetTrees(a.model)[i], s, target)
                THEN Append(LeavesUpTo(a, s, e, target)[i - 1], Within(a, s, e, target, GetTrees(a.model)[i]))
                ELSE LeavesUpTo(a, s, e, target)[i - 1]
<1> DEFINE leaves == LeavesUpTo(a, s, e, target)
           tree(i) == GetTrees(a.model)[i]
           Step(g, i) == IF i = 0 THEN << >>
                         ELSE IF Relevant(a, tree(i), s, target)
                              THEN Append(g[i - 1], Within(a, s, e, target, tree(i)))
                              ELSE g[i - 1]
           Solves(g, k) == g = [i \in 0 .. n |-> g[i]] /\ \A i \in 0 .. n : i < k => g[i] = Step(g, i)
           G == {k \in Nat : \E g : Solves(g, k)}
<1>1. Solves([i \in 0 .. n |-> 0], 0)
  OBVIOUS
<1>2. ASSUME NEW k \in Nat, NEW g, Solves(g, k)
      PROVE  \E h : Solves(h, k + 1)
  <2> DEFINE h == [i \in 0 .. n |-> Step(g, i)]
  <2>1. h = [i \in 0 .. n |-> h[i]] /\ \A i \in 0 .. n : h[i] = Step(g, i)
    OBVIOUS
  <2> HIDE DEF h
  <2>2. ASSUME NEW i \in 0 .. n, i < k + 1
        PROVE  h[i] = Step(h, i)
    <3>1. i # 0 => h[i - 1] = g[i - 1]
      <4>1. i # 0 => i - 1 \in 0 .. n /\ i - 1 < k
        BY <2>2
      <4> QED
        BY <1>2, <2>1, <4>1
    <3> HIDE DEF tree
    <3> QED
      BY <2>1, <3>1
  <2>3. Solves(h, k + 1)
    BY <2>1, <2>2
  <2> HIDE DEF Solves
  <2> QED
    BY <2>3
<1>3. Nat \subseteq G
  <2> HIDE DEF Solves
  <2>1. 0 \in G /\ \A k \in Nat : k \in G => k + 1 \in G
    BY <1>1, <1>2
  <2> HIDE DEF G
  <2> QED
    BY <2>1, Induct
<1>4. PICK g : Solves(g, n + 1)
  <2> HIDE DEF Solves
  <2>1. n + 1 \in Nat
    OBVIOUS
  <2> QED
    BY <1>3, <2>1
<1>5. g = [i \in 0 .. n |-> Step(g, i)]
  BY <1>4
<1>6. leaves = [i \in 0 .. n |-> Step(leaves, i)]
  BY <1>5 DEF LeavesUpTo
<1> HIDE DEF G
<1>7. AccessibleLeaves(a, s, e, target) = leaves[n]
  BY DEF AccessibleLeaves, LeavesUpTo, Within, Sign
<1>8. 0 \in 0 .. n /\ \A i \in 1 .. n : i \in 0 .. n /\ i # 0
  OBVIOUS
<1> HIDE DEF leaves, tree
<1>9. leaves[0] = << >>
  BY <1>6, <1>8
<1>10. \A i \in 1 .. n : leaves[i] = Step(leaves, i)
  BY <1>6, <1>8
<1> QED
  BY <1>7, <1>8, <1>9, <1>10 DEF leaves, tree

(***************************************************************************)
(* By the largest difference, a box within e meets every interval from a   *)
(* distance of at most e.                                                  *)
(***************************************************************************)
LEMMA ReachIsNear ==
  ASSUME NEW a, a.norm = Infinity, NEW F, NEW v, DOMAIN v = F, IsFiniteSet(F), v \in [F -> 0 .. One],
         NEW e \in Nat, NEW b, IsBox(b, F), Distance(a, b, v) <= e
  PROVE  Near(b, v, e)
<1> DEFINE fd == [f \in DOMAIN b |-> FeatureDistance(a, v[f], b[f])]
           D == {0} \cup {FeatureDistance(a, v[f], b[f]) : f \in DOMAIN b}
<1>1. a.norm # 0 /\ One \in Nat
  BY SearchAssumption
<1>2. \A f \in DOMAIN b : v[f] \in Int /\ b[f].lower \in Int /\ b[f].upper \in Int
  BY <1>1 DEF IsBox
<1>3. \A f \in DOMAIN b :
        /\ fd[f] \in Int
        /\ fd[f] <= e => b[f].lower <= v[f] + e /\ v[f] - e <= b[f].upper
  BY <1>1, <1>2 DEF FeatureDistance, Difference, Larger
<1>4. IsFiniteSet(D)
  <2>1. IsFiniteSet(DOMAIN b)
    BY FS_Subset DEF IsBox
  <2>2. IsFiniteSet({fd[f] : f \in DOMAIN b})
    <3> HIDE DEF fd
    <3> QED
      BY <2>1, FiniteImage
  <2>3. D = {fd[f] : f \in DOMAIN b} \cup {0}
    OBVIOUS
  <2> HIDE DEF D, fd
  <2> QED
    BY <2>2, <2>3, FS_AddElement
<1>5. D \subseteq Int /\ D # {} /\ \A f \in DOMAIN b : fd[f] \in D
  BY <1>3
<1>6. Max(D) <= e
  BY DEF Distance
<1> HIDE DEF D, fd
<1>7. Max(D) \in D /\ \A n \in D : n <= Max(D)
  BY <1>4, <1>5, Extremes
<1>8. \A f \in DOMAIN b : fd[f] <= e
  <2>1. Max(D) \in Int /\ \A f \in DOMAIN b : fd[f] \in Int /\ fd[f] <= Max(D)
    BY <1>5, <1>7
  <2> QED
    BY <1>6, <2>1
<1> QED
  BY <1>3, <1>8 DEF Near

\* The leaf with the point inside is within reach, with its value negated for the
\* target.
LEMMA WithinStands ==
  ASSUME NEW at, NEW a, NEW s, NEW e, NEW target, NEW tree, NEW v \in Int,
         Meets(tree.leaf_nodes, at.F, at.kind, at.p, v),
         at.all => /\ Tells(tree.leaf_nodes, at.F, at.kind, at.p, v)
                   /\ \A b : IsBox(b, at.F) /\ Distance(a, b, a.x[s]) <= e => Near(b, at.x, at.e),
         ~at.all => \A b : IsBox(b, at.F) /\ Inside(at.kind, at.p, b) => Distance(a, b, a.x[s]) <= e
  PROVE  /\ Sign(a, tree, target) * v \in Int
         /\ Stands(at, Within(a, s, e, target, tree), Sign(a, tree, target) * v)
<1> DEFINE F == at.F
           kind == at.kind
           p == at.p
           near == {l \in tree.leaf_nodes : WithinReach(Distance(a, l.box, a.x[s]), e)}
           sign == Sign(a, tree, target)
           signed == [l \in near |-> [box |-> l.box, value |-> sign * l.value]]
<1>1. Within(a, s, e, target, tree) = {signed[l] : l \in near}
  BY DEF Within
<1>2. IsFiniteSet(tree.leaf_nodes) /\ \A l \in tree.leaf_nodes : l.value \in Int
  BY DEF Meets, Valued
<1>3. sign \in {-1, 1}
  BY DEF Sign
<1>4. PICK l \in tree.leaf_nodes : Around(l, F, kind, p) /\ l.value = v
  BY DEF Meets
<1>5. ~at.all => l \in near
  BY <1>4 DEF Around, WithinReach
<1>6. near \subseteq tree.leaf_nodes /\ \A l1 \in near : Distance(a, l1.box, a.x[s]) <= e
  BY DEF WithinReach
<1>d. \A l1 \in near : signed[l1].box = l1.box /\ signed[l1].value = sign * l1.value
  OBVIOUS
<1> HIDE DEF near, sign
<1>7. IsFiniteSet(near)
  BY <1>2, <1>6, FS_Subset
<1>8. \A u \in Int : sign * u \in Int
  BY <1>3
<1>9. \A l1 \in near : signed[l1].value \in Int
  BY <1>2, <1>6, <1>8
<1> HIDE DEF signed
<1>10. Valued(Within(a, s, e, target, tree))
  <2>1. IsFiniteSet({signed[l1] : l1 \in near})
    BY <1>7, FiniteImage
  <2> QED
    BY <1>1, <1>9, <2>1 DEF Valued
<1>11. CASE ~at.all
  <2>1. Around(signed[l], F, kind, p) /\ signed[l].value = sign * v
    BY <1>4, <1>5, <1>11, <1>d DEF Around
  <2> QED
    BY <1>1, <1>5, <1>8, <1>10, <1>11, <2>1 DEF Stands, Meets, sign
<1>12. CASE at.all
  <2>1. ASSUME NEW l1 \in near
        PROVE  /\ IsBox(signed[l1].box, F) /\ Roomy(signed[l1].box) /\ Near(signed[l1].box, at.x, at.e)
               /\ Inside(kind, p, signed[l1].box) => signed[l1].value = sign * v
    <3>1. /\ IsBox(l1.box, F) /\ Roomy(l1.box) /\ Near(l1.box, at.x, at.e)
          /\ Inside(kind, p, l1.box) => l1.value = v
      BY <1>6, <1>12 DEF Tells
    <3> QED
      BY <1>d, <3>1
  <2> QED
    BY <1>1, <1>8, <1>10, <1>12, <2>1 DEF Stands, Tells, sign
<1> QED
  BY <1>11, <1>12

(***************************************************************************)
(* A point within e stays in a leaf of every tree that counts, and the sum *)
(* of the values is what the trees make of the point.                      *)
(***************************************************************************)
Weight(a, s, target, p, i) ==
  LET tree == GetTrees(a.model)[i]
  IN IF Relevant(a, tree, s, target) THEN Sign(a, tree, target) * Share(a.model, i, p) ELSE 0
Weights(a, s, target, p) == [i \in 1 .. NbTrees(a.model) |-> Weight(a, s, target, p, i)]

Setting(at, a, s) ==
  /\ a.norm = norm /\ norm \in {1, Infinity} /\ at.e \in Nat
  /\ at.x = a.x[s] /\ DOMAIN at.x = at.F /\ IsFiniteSet(at.F) /\ at.x \in [at.F -> 0 .. One]
  /\ IsModel(a.model, at.F) /\ at.kind = a.model.kind
  /\ at.p \in [at.F -> 0 .. One]
  /\ IF at.all THEN norm = Infinity /\ Grown(a.model) ELSE at.p \in Ball(at.x, at.e)

\* Appending to a sequence adds to its sum.
LEMMA AppendSum ==
  ASSUME NEW w \in Seq(Int), NEW v \in Int
  PROVE  SumTo(Append(w, v), Len(w) + 1) = SumTo(w, Len(w)) + v
<1> DEFINE n == Len(w)
           u == Append(w, v)
<1>1. n \in Nat /\ u[n + 1] = v /\ \A i \in 1 .. n : u[i] = w[i] /\ w[i] \in Int
  OBVIOUS
<1>2. \A i \in 1 .. n + 1 : u[i] \in Int
  BY <1>1
<1> HIDE DEF n, u
<1>3. SumTo(u, n) \in Int /\ SumTo(u, n + 1) = SumTo(u, n) + v
  BY <1>1, <1>2, SumAppends
<1>4. IsFiniteSet(1 .. n)
  BY <1>1, FS_Interval
<1>5. \A i \in 1 .. n : u[i] \in Int /\ w[i] \in Int /\ u[i] <= w[i] /\ w[i] <= u[i]
  BY <1>1
<1>6. SumTo(u, n) <= SumTo(w, n) /\ SumTo(w, n) <= SumTo(u, n)
  BY <1>4, <1>5, SumsCompare DEF SumTo
<1>7. SumTo(w, n) \in Int
  BY <1>4, <1>5, SumIsNumber DEF SumTo
<1> QED
  BY <1>3, <1>6, <1>7 DEF n, u

\* By induction over the trees, with those left out that are of neither class.
LEMMA AccessibleCounted ==
  ASSUME NEW at, NEW a, NEW s, Setting(at, a, s), NEW target
  PROVE  /\ Counted(at, AccessibleLeaves(a, s, at.e, target),
                    SumTo(Weights(a, s, target, at.p), NbTrees(a.model)))
         /\ ~at.all => \A i \in DOMAIN AccessibleLeaves(a, s, at.e, target) :
                         AccessibleLeaves(a, s, at.e, target)[i] # {}
<1> DEFINE m == a.model
           F == at.F
           e == at.e
           p == at.p
           kind == at.kind
           trees == GetTrees(m)
           n == NbTrees(m)
           leaves == LeavesUpTo(a, s, e, target)
           weights == Weights(a, s, target, p)
           within(i) == Within(a, s, e, target, trees[i])
           S == {within(i) : i \in 1 .. n}
<1>1. IsModel(m, F) /\ kind = m.kind /\ \A f \in F : p[f] \in 0 .. One
  BY DEF Setting
<1>2. n \in Nat
  BY <1>1, TreeNumbers
<1>3. Len(trees) = n /\ \A i \in 1 .. n : /\ Share(m, i, p) \in Int
                                          /\ Meets(trees[i].leaf_nodes, F, kind, p, Share(m, i, p))
                                          /\ Grown(m) => Tells(trees[i].leaf_nodes, F, kind, p, Share(m, i, p))
  BY <1>1, TreesReached
<1>4. ~at.all => \A b : IsBox(b, F) /\ Inside(kind, p, b) => Distance(a, b, a.x[s]) <= e
  <2> SUFFICES ASSUME ~at.all
               PROVE  \A b : IsBox(b, F) /\ Inside(kind, p, b) => Distance(a, b, a.x[s]) <= e
    OBVIOUS
  <2> DEFINE v == a.x[s]
  <2>1. /\ a.norm = norm /\ norm \in {1, Infinity} /\ IsFiniteSet(DOMAIN v)
        /\ v \in [DOMAIN v -> 0 .. One] /\ e \in Nat /\ p \in [DOMAIN v -> 0 .. One]
        /\ p \in Ball(v, e) /\ DOMAIN v = F
    BY DEF Setting
  <2> HIDE DEF v, kind
  <2>2. \A b : IsBox(b, DOMAIN v) /\ Inside(kind, p, b) => Distance(a, b, v) <= e
    BY <2>1, BoxNear
  <2> QED
    BY <2>1, <2>2 DEF v
<1>15. at.all => /\ Grown(m)
                 /\ \A b : IsBox(b, F) /\ Distance(a, b, a.x[s]) <= e => Near(b, at.x, e)
  <2> SUFFICES ASSUME at.all
               PROVE  Grown(m) /\ \A b : IsBox(b, F) /\ Distance(a, b, a.x[s]) <= e => Near(b, at.x, e)
    OBVIOUS
  <2> DEFINE v == a.x[s]
  <2>1. /\ a.norm = Infinity /\ DOMAIN v = F /\ IsFiniteSet(F) /\ v \in [F -> 0 .. One]
        /\ e \in Nat /\ at.x = v /\ Grown(m)
    BY DEF Setting
  <2> HIDE DEF v, F, e
  <2>2. \A b : IsBox(b, F) /\ Distance(a, b, v) <= e => Near(b, v, e)
    BY <2>1, ReachIsNear
  <2> QED
    BY <2>1, <2>2 DEF v
<1>5. ASSUME NEW i \in 1 .. n, Relevant(a, trees[i], s, target)
      PROVE  weights[i] \in Int /\ Stands(at, within(i), weights[i])
  <2> DEFINE tree == trees[i]
             v == Share(m, i, p)
  <2>1. /\ v \in Int /\ Meets(tree.leaf_nodes, F, kind, p, v)
        /\ at.all => Tells(tree.leaf_nodes, F, kind, p, v)
    <3>1. /\ v \in Int /\ Meets(tree.leaf_nodes, F, kind, p, v)
          /\ Grown(m) => Tells(tree.leaf_nodes, F, kind, p, v)
      BY <1>3
    <3>2. at.all => Grown(m)
      BY <1>15, Zenon
    <3> QED
      BY <3>1, <3>2, Zenon
  <2>2. weights[i] = Sign(a, tree, target) * v
    BY <1>5 DEF Weights, Weight
  <2> HIDE DEF tree, v
  <2>3. /\ Sign(a, tree, target) * v \in Int
        /\ Stands(at, Within(a, s, e, target, tree), Sign(a, tree, target) * v)
    BY <1>4, <1>15, <2>1, WithinStands
  <2> QED
    BY <2>2, <2>3 DEF tree
<1>6. \A i \in 1 .. n : weights[i] \in Int /\ (~Relevant(a, trees[i], s, target) => weights[i] = 0)
  BY <1>5 DEF Weights, Weight
<1>7. /\ AccessibleLeaves(a, s, e, target) = leaves[n] /\ leaves[0] = << >>
      /\ \A i \in 1 .. n : leaves[i] = IF Relevant(a, trees[i], s, target)
                                       THEN Append(leaves[i - 1], within(i)) ELSE leaves[i - 1]
  <2>1. Len(trees) = n
    BY <1>3
  <2> QED
    BY <1>2, <2>1, LeavesDefined
<1> DEFINE Fits(k, w) ==
             /\ w \in Seq(Int) /\ Len(w) = Len(leaves[k])
             /\ \A i \in 1 .. Len(w) : Stands(at, leaves[k][i], w[i])
             /\ SumTo(w, Len(w)) = SumTo(weights, k)
           Holds(k) == k <= n => leaves[k] \in Seq(S) /\ \E w : Fits(k, w)
           G == {k \in Nat : Holds(k)}
<1> HIDE DEF leaves, weights, S, within, kind, trees, n, F, p, e
<1>8. Holds(0)
  <2>1. Fits(0, << >>)
    <3>1. SumTo(<< >>, 0) = 0 /\ SumTo(weights, 0) = 0
      BY SumToNone
    <3> QED
      BY <1>7, <3>1
  <2>2. leaves[0] \in Seq(S)
    BY <1>7
  <2> QED
    BY <2>1, <2>2
<1>9. ASSUME NEW k \in Nat, Holds(k) PROVE Holds(k + 1)
  <2> SUFFICES ASSUME k + 1 <= n PROVE leaves[k + 1] \in Seq(S) /\ \E w : Fits(k + 1, w)
    OBVIOUS
  <2>1. leaves[k] \in Seq(S) /\ k + 1 \in 1 .. n /\ (k + 1) - 1 = k
    BY <1>2, <1>9
  <2>2. PICK w : Fits(k, w)
    BY <1>2, <1>9
  <2>3. SumTo(weights, k) \in Int /\ SumTo(weights, k + 1) = SumTo(weights, k) + weights[k + 1]
    <3>1. \A i \in 1 .. k + 1 : weights[i] \in Int
      BY <1>2, <1>6, <2>1
    <3> QED
      BY <3>1, SumAppends
  <2>4. CASE Relevant(a, trees[k + 1], s, target)
    <3> DEFINE v == weights[k + 1]
               u == Append(w, v)
    <3>1. leaves[k + 1] = Append(leaves[k], within(k + 1))
      BY <1>7, <2>1, <2>4
    <3>2. v \in Int /\ Stands(at, within(k + 1), v)
      BY <1>5, <2>1, <2>4
    <3>3. within(k + 1) \in S
      BY <2>1 DEF S
    <3>4. leaves[k + 1] \in Seq(S)
      BY <2>1, <3>1, <3>3
    <3>5. /\ Len(leaves[k + 1]) = Len(leaves[k]) + 1
          /\ leaves[k + 1][Len(leaves[k]) + 1] = within(k + 1)
          /\ \A i \in 1 .. Len(leaves[k]) : leaves[k + 1][i] = leaves[k][i]
      BY <2>1, <3>1
    <3> HIDE DEF v
    <3>6. /\ u \in Seq(Int) /\ Len(u) = Len(w) + 1 /\ u[Len(w) + 1] = v
          /\ \A i \in 1 .. Len(w) : u[i] = w[i]
      BY <2>2, <3>2
    <3>7. SumTo(u, Len(w) + 1) = SumTo(w, Len(w)) + v
      BY <2>2, <3>2, AppendSum
    <3> HIDE DEF u
    <3>8. \A i \in 1 .. Len(w) + 1 : Stands(at, leaves[k + 1][i], u[i])
      <4>1. Len(w) \in Nat /\ Len(w) = Len(leaves[k])
        BY <2>2
      <4>2. \A i \in 1 .. Len(w) : Stands(at, leaves[k + 1][i], u[i])
        BY <2>2, <3>5, <3>6, <4>1
      <4>3. Stands(at, leaves[k + 1][Len(w) + 1], u[Len(w) + 1])
        BY <3>2, <3>5, <3>6, <4>1
      <4>4. \A i \in 1 .. Len(w) + 1 : i \in 1 .. Len(w) \/ i = Len(w) + 1
        BY <4>1
      <4> QED
        BY <4>2, <4>3, <4>4
    <3>9. Fits(k + 1, u)
      BY <2>2, <2>3, <3>5, <3>6, <3>7, <3>8 DEF v
    <3> HIDE DEF Fits
    <3> QED
      BY <3>4, <3>9
  <2>5. CASE ~Relevant(a, trees[k + 1], s, target)
    <3>1. leaves[k + 1] = leaves[k] /\ weights[k + 1] = 0
      BY <1>6, <1>7, <2>1, <2>5
    <3>2. SumTo(weights, k + 1) = SumTo(weights, k)
      BY <2>3, <3>1
    <3>3. Fits(k + 1, w)
      BY <2>2, <3>1, <3>2
    <3> HIDE DEF Fits
    <3> QED
      BY <2>1, <3>1, <3>3
  <2> QED
    BY <2>4, <2>5
<1>10. n \in G
  <2> HIDE DEF Holds
  <2>1. 0 \in G /\ \A k \in Nat : k \in G => k + 1 \in G
    BY <1>8, <1>9
  <2>2. Nat \subseteq G
    <3> HIDE DEF G
    <3> QED
      BY <2>1, Induct
  <2> HIDE DEF G
  <2> QED
    BY <1>2, <2>2
<1>11. leaves[n] \in Seq(S) /\ \E w : Fits(n, w)
  BY <1>2, <1>10
<1>12. PICK w : Fits(n, w)
  BY <1>11
<1>13. Covers(at, leaves[n], w) /\ SumTo(w, Len(leaves[n])) = SumTo(weights, n)
  BY <1>12 DEF Covers
<1>14. ~at.all => \A i \in DOMAIN leaves[n] : leaves[n][i] # {}
  <2>1. DOMAIN leaves[n] = 1 .. Len(leaves[n])
    BY <1>11
  <2> QED
    BY <1>13, <2>1 DEF Covers, Stands, Meets
<1> QED
  BY <1>7, <1>13, <1>14 DEF Counted, weights, n, p, e

(***************************************************************************)
(* What the sums of the verification are to the scores of the libraries.   *)
(***************************************************************************)
ClassShare(m, p, class, i) ==
  IF m.kind = "forest" THEN Proportion(Reached(m, i, p), class)
  ELSE IF m.nb_classes = 2 THEN (2 * class - 1) * Reached(m, i, p)
  ELSE IF (i - 1) % m.nb_classes = class THEN Reached(m, i, p) ELSE 0
ClassShares(m, p, class) == [i \in 1 .. Len(m.trees) |-> ClassShare(m, p, class, i)]

\* Sums of numbered terms, term by term.
LEMMA SumToSubtracts ==
  ASSUME NEW n \in Nat, NEW f, NEW g, NEW h,
         \A i \in 1 .. n : f[i] \in Int /\ g[i] \in Int /\ h[i] = f[i] - g[i]
  PROVE  /\ SumTo(f, n) \in Int /\ SumTo(g, n) \in Int
         /\ SumTo(h, n) = SumTo(f, n) - SumTo(g, n)
<1> DEFINE S == 1 .. n
<1>1. IsFiniteSet(S)
  BY FS_Interval
<1>2. \A i \in S : f[i] \in Int /\ g[i] \in Int /\ h[i] = f[i] - g[i]
  OBVIOUS
<1> HIDE DEF S
<1>3. SumFunctionOnSet(h, S) = SumFunctionOnSet(f, S) - SumFunctionOnSet(g, S)
  BY <1>1, <1>2, SumsSubtract
<1>4. SumFunctionOnSet(f, S) \in Int /\ SumFunctionOnSet(g, S) \in Int
  BY <1>1, <1>2, SumIsNumber
<1> QED
  BY <1>3, <1>4 DEF SumTo, S

\* The score of a class by the number of the tree.
LEMMA ScoreIsSum ==
  ASSUME NEW p, NEW class, Len(model.trees) \in Nat
  PROVE  Score(p, class) = SumTo(ClassShares(model, p, class), Len(model.trees))
<1>1. Score(p, class) = SumFunction(ClassShares(model, p, class))
  BY DEF Score, ClassShares, ClassShare
<1>2. DOMAIN ClassShares(model, p, class) = 1 .. Len(model.trees)
  BY DEF ClassShares
<1> QED
  BY <1>1, <1>2 DEF SumFunction, SumTo

\* What a point reaches are numbers.
LEMMA ReachedNumbers ==
  ASSUME NEW F, NEW m, IsModel(m, F), NEW p, \A f \in F : p[f] \in 0 .. One
  PROVE  \A i \in 1 .. Len(m.trees) :
           IF m.kind = "booster" THEN Reached(m, i, p) \in Int
           ELSE \A c \in 0 .. m.nb_classes - 1 :
                  /\ Unit(m, i, p, c) \in Int
                  /\ PureLeaves(m) => Unit(m, i, p, c) = Proportion(Reached(m, i, p), c)
<1> SUFFICES ASSUME NEW i \in 1 .. Len(m.trees)
             PROVE  IF m.kind = "booster" THEN Reached(m, i, p) \in Int
                    ELSE \A c \in 0 .. m.nb_classes - 1 :
                           /\ Unit(m, i, p, c) \in Int
                           /\ PureLeaves(m) => Unit(m, i, p, c) = Proportion(Reached(m, i, p), c)
  OBVIOUS
<1>1. i \in DOMAIN m.trees
  BY DEF IsModel
<1>2. PICK l \in DOMAIN m.trees[i].values : Reached(m, i, p) = m.trees[i].values[l]
  BY <1>1, LeafReached
<1>3. CASE m.kind = "booster"
  BY <1>1, <1>2, <1>3 DEF IsModel
<1>4. CASE m.kind # "booster"
  <2>1. \A c \in 0 .. m.nb_classes - 1 :
          LET w == m.trees[i].values[l]
          IN  /\ UnitValue(w, c) \in Int
              /\ PureLeaves(m) => UnitValue(w, c) = Proportion(w, c)
    BY <1>1, <1>2, <1>4, LeafValue
  <2> QED
    BY <1>2, <1>4, <2>1 DEF Unit
<1> QED
  BY <1>3, <1>4

\* A booster of two classes has one tree per round: the sum is the score of
\* class 1, and the opposite of the score of class 0.
LEMMA TwoClassScores ==
  ASSUME NEW F, NEW m, IsModel(m, F), m.kind = "booster", m.nb_classes = 2,
         NEW p, \A f \in F : p[f] \in 0 .. One,
         NEW a, a.model = m, NEW s, NEW target
  PROVE  LET total == SumTo(Weights(a, s, target, p), NbTrees(m))
             n == Len(m.trees)
         IN  /\ total \in Int
             /\ SumTo(ClassShares(m, p, 1), n) = total
             /\ SumTo(ClassShares(m, p, 0), n) = -total
<1> DEFINE n == Len(m.trees)
           weights == Weights(a, s, target, p)
           ones == ClassShares(m, p, 1)
           zeros == ClassShares(m, p, 0)
           none == [i \in 1 .. n |-> 0]
<1>1. n \in Nat /\ NbTrees(m) = n /\ \A i \in 1 .. n : Reached(m, i, p) \in Int
  BY ReachedNumbers DEF IsModel, NbTrees
<1>2. \A i \in 1 .. n : weights[i] = Reached(m, i, p)
  <2>1. \A i \in 1 .. n : Share(m, i, p) = Reached(m, i, p)
    BY DEF Share
  <2>2. \A i \in 1 .. n : weights[i] = 1 * Share(m, i, p)
    BY <1>1 DEF Weights, Weight, Relevant, Sign
  <2> QED
    BY <1>1, <2>1, <2>2
<1>3. \A i \in 1 .. n : ones[i] = Reached(m, i, p) /\ zeros[i] = -Reached(m, i, p)
  <2>1. \A i \in 1 .. n : ones[i] = 1 * Reached(m, i, p) /\ zeros[i] = (-1) * Reached(m, i, p)
    BY DEF ClassShares, ClassShare
  <2> QED
    BY <1>1, <2>1
<1> HIDE DEF weights, ones, zeros, n
<1>5. \A i \in 1 .. n : weights[i] \in Int /\ ones[i] \in Int /\ none[i] \in Int
  BY <1>1, <1>2, <1>3
<1>6. n \in Nat
  BY <1>1
<1>7. SumTo(weights, n) \in Int /\ SumTo(none, n) = SumTo(weights, n) - SumTo(weights, n)
  <2>1. \A i \in 1 .. n : weights[i] \in Int /\ weights[i] \in Int /\ none[i] = weights[i] - weights[i]
    BY <1>5
  <2> HIDE DEF none
  <2> QED
    BY <1>6, <2>1, SumToSubtracts
<1>8. SumTo(ones, n) = SumTo(weights, n) - SumTo(none, n)
  <2>1. \A i \in 1 .. n : weights[i] \in Int /\ none[i] \in Int /\ ones[i] = weights[i] - none[i]
    BY <1>1, <1>2, <1>3
  <2> HIDE DEF none
  <2> QED
    BY <1>6, <2>1, SumToSubtracts
<1>9. SumTo(zeros, n) = SumTo(none, n) - SumTo(weights, n)
  <2>1. \A i \in 1 .. n : none[i] \in Int /\ weights[i] \in Int /\ zeros[i] = none[i] - weights[i]
    BY <1>1, <1>2, <1>3
  <2> HIDE DEF none
  <2> QED
    BY <1>6, <2>1, SumToSubtracts
<1> HIDE DEF none
<1>10. SumTo(ones, n) = SumTo(weights, n) /\ SumTo(zeros, n) = -SumTo(weights, n)
  BY <1>7, <1>8, <1>9
<1> QED
  BY <1>1, <1>7, <1>10 DEF weights, ones, zeros, n

\* Of more classes, the sum is the lead of the label over the target.
Lead(m, p, label, target) ==
  SumTo(ClassShares(m, p, label), Len(m.trees)) - SumTo(ClassShares(m, p, target), Len(m.trees))

\* In a booster a tree has one class, and counts for or against the label or not at all.
LEMMA BoosterLead ==
  ASSUME NEW F, NEW m, IsModel(m, F), m.kind = "booster", m.nb_classes > 2,
         NEW p, \A f \in F : p[f] \in 0 .. One,
         NEW a, a.model = m, NEW s, NEW label, a.y[s] = label, NEW target \in Nat, label # target
  PROVE  /\ SumTo(Weights(a, s, target, p), NbTrees(m)) = Lead(m, p, label, target)
         /\ SumTo(ClassShares(m, p, label), Len(m.trees)) \in Int
         /\ SumTo(ClassShares(m, p, target), Len(m.trees)) \in Int
<1> DEFINE n == Len(m.trees)
           weights == Weights(a, s, target, p)
           for == ClassShares(m, p, label)
           against == ClassShares(m, p, target)
<1>1. /\ n \in Nat /\ NbTrees(m) = n /\ \A i \in 1 .. n : Reached(m, i, p) \in Int
      /\ m.nb_classes \in Nat
  BY ReachedNumbers DEF IsModel, NbTrees
<1>2. ASSUME NEW i \in 1 .. n
      PROVE  for[i] \in Int /\ against[i] \in Int /\ weights[i] = for[i] - against[i]
  <2> DEFINE class == ClassOf(m, i)
             v == Reached(m, i, p)
             tree == GetTrees(m)[i]
  <2>1. tree.class_id = class
    <3>1. \A j \in 1 .. NbTrees(m) :
            GetTrees(m)[j].class_id = IF m.kind = "booster" /\ m.nb_classes = 2 THEN -1 ELSE ClassOf(m, j)
      BY TreesReached
    <3> QED
      BY <1>1, <3>1
  <2>2. /\ for[i] = IF class = label THEN v ELSE 0
        /\ against[i] = IF class = target THEN v ELSE 0
    BY DEF ClassShares, ClassShare, ClassOf
  <2>3. Share(m, i, p) = v /\ v \in Int
    BY <1>1 DEF Share
  <2>4. Relevant(a, tree, s, target) <=> class = label \/ class = target
    BY <1>1, <2>1 DEF Relevant, NoTarget
  <2>5. Sign(a, tree, target) = IF class = target THEN -1 ELSE 1
    BY <2>1 DEF Sign
  <2>6. weights[i] = IF class = label \/ class = target
                     THEN (IF class = target THEN -1 ELSE 1) * v ELSE 0
    BY <1>1, <2>3, <2>4, <2>5 DEF Weights, Weight
  <2> HIDE DEF class, v, weights, for, against
  <2>7. (-1) * v = -v /\ 1 * v = v
    BY <2>3
  <2> QED
    BY <2>2, <2>3, <2>6, <2>7
<1> HIDE DEF weights, for, against, n
<1>3. n \in Nat
  BY <1>1
<1>4. /\ SumTo(for, n) \in Int /\ SumTo(against, n) \in Int
      /\ SumTo(weights, n) = SumTo(for, n) - SumTo(against, n)
  BY <1>2, <1>3, SumToSubtracts
<1> QED
  BY <1>1, <1>4 DEF Lead, weights, for, against, n

\* In a forest every tree comes once for each class, and counts for the label
\* with one share and against it with another.
LEMMA ForestLead ==
  ASSUME NEW F, NEW m, IsModel(m, F), m.kind = "forest", m.nb_classes > 2, PureLeaves(m),
         NEW p, \A f \in F : p[f] \in 0 .. One,
         NEW a, a.model = m, NEW s, NEW label \in Nat, a.y[s] = label, label < m.nb_classes,
         NEW target \in Nat, target < m.nb_classes, label # target
  PROVE  /\ SumTo(Weights(a, s, target, p), NbTrees(m)) = Lead(m, p, label, target)
         /\ SumTo(ClassShares(m, p, label), Len(m.trees)) \in Int
         /\ SumTo(ClassShares(m, p, target), Len(m.trees)) \in Int
<1> DEFINE n == Len(m.trees)
           k == m.nb_classes
           weights == Weights(a, s, target, p)
           for == ClassShares(m, p, label)
           against == ClassShares(m, p, target)
<1>1. /\ n \in Nat /\ k \in Nat \ {0} /\ NbTrees(m) = n * k /\ n * k \in Nat
      /\ \A j \in 1 .. n : \A c \in 0 .. k - 1 :
           Unit(m, j, p, c) \in Int /\ Unit(m, j, p, c) = Proportion(Reached(m, j, p), c)
  <2>1. n \in Nat /\ k \in Nat \ {0} /\ NbTrees(m) = n * k
    BY DEF IsModel, NbTrees
  <2>2. n * k \in Nat
    BY <2>1, Product
  <2>3. \A j \in 1 .. n : \A c \in 0 .. k - 1 :
          Unit(m, j, p, c) \in Int /\ Unit(m, j, p, c) = Proportion(Reached(m, j, p), c)
    BY ReachedNumbers
  <2> QED
    BY <2>1, <2>2, <2>3
<1>2. \A j \in 1 .. n : for[j] = Unit(m, j, p, label) /\ against[j] = Unit(m, j, p, target)
  <2>1. label \in 0 .. k - 1 /\ target \in 0 .. k - 1
    BY <1>1
  <2>2. \A j \in 1 .. n : /\ for[j] = Proportion(Reached(m, j, p), label)
                         /\ against[j] = Proportion(Reached(m, j, p), target)
    BY DEF ClassShares, ClassShare
  <2> QED
    BY <1>1, <2>1, <2>2
<1>3. ASSUME NEW j \in 0 .. n - 1, NEW c \in 0 .. k - 1
      PROVE  /\ j * k + c + 1 \in 1 .. n * k
             /\ weights[j * k + c + 1] =
                  IF c = label THEN Unit(m, j + 1, p, label)
                  ELSE IF c = target THEN -Unit(m, j + 1, p, target) ELSE 0
  <2> DEFINE i == j * k + c + 1
             v == Unit(m, j + 1, p, c)
             tree == GetTrees(m)[i]
  <2>1. /\ j \in Nat /\ j * k \in Nat /\ i - 1 = j * k + c
        /\ (j * k + c) \div k = j /\ (j * k + c) % k = c
    <3>1. j \in Nat
      OBVIOUS
    <3>2. j * k \in Nat
      BY <1>1, <3>1, Product
    <3>3. (j * k + c) \div k = j /\ (j * k + c) % k = c
      BY <1>1, <3>1, QuotientUnique
    <3> QED
      BY <3>1, <3>2, <3>3
  <2>2. i \in 1 .. n * k
    <3> DEFINE after == (j + 1) * k
               all == n * k
               before == j * k
    <3> HIDE DEF n, k
    <3>0. n \in Nat /\ k \in Nat /\ j \in Nat
      BY <1>1, <2>1
    <3>1. j + 1 \in Nat /\ j + 1 <= n
      BY <3>0
    <3>2. after <= all
      BY <3>0, <3>1, Product
    <3>3. after = before + k
      BY <3>0, Product
    <3>4. before \in Nat /\ all \in Nat
      BY <1>1, <2>1
    <3> HIDE DEF after, before, all
    <3>5. before + c + 1 \in 1 .. all
      BY <1>1, <3>2, <3>3, <3>4
    <3> QED
      BY <3>5 DEF before, all
  <2>3. TreeOf(m, i) = j + 1 /\ ClassOf(m, i) = c
    BY <2>1 DEF TreeOf, ClassOf
  <2>4. Share(m, i, p) = v
    BY <2>3 DEF Share
  <2>5. tree.class_id = c
    <3>1. i \in 1 .. NbTrees(m)
      BY <1>1, <2>2
    <3> HIDE DEF i
    <3>2. GetTrees(m)[i].class_id = IF m.kind = "booster" /\ m.nb_classes = 2 THEN -1 ELSE ClassOf(m, i)
      BY <3>1, TreesReached
    <3> QED
      BY <2>3, <3>2
  <2>6. weights[i] = IF Relevant(a, tree, s, target)
                     THEN Sign(a, tree, target) * v ELSE 0
    BY <1>1, <2>2, <2>4 DEF Weights, Weight
  <2>7. Relevant(a, tree, s, target) <=> c = label \/ c = target
    BY <1>1, <2>5 DEF Relevant, NoTarget
  <2>8. Sign(a, tree, target) = IF c = target THEN -1 ELSE 1
    BY <2>5 DEF Sign
  <2>9. v \in Int
    BY <1>1
  <2> HIDE DEF v, i, weights, tree
  <2>10. (-1) * v = -v /\ 1 * v = v
    BY <2>9
  <2>11. weights[i] = IF c = label THEN v ELSE IF c = target THEN -v ELSE 0
    BY <2>6, <2>7, <2>8, <2>10
  <2> QED
    BY <2>2, <2>11 DEF i, v
<1> HIDE DEF n, k, weights, for, against
<1>l. label \in 0 .. k - 1 /\ target \in 0 .. k - 1 /\ label # target
  BY <1>1 DEF k
<1> DEFINE Part(j, c) == (IF label < c THEN Unit(m, j + 1, p, label) ELSE 0)
                           - (IF target < c THEN Unit(m, j + 1, p, target) ELSE 0)
           Block(j, c) == c <= k => SumTo(weights, j * k + c) = SumTo(weights, j * k) + Part(j, c)
<1>4. \A i \in 1 .. n * k : weights[i] \in Int
  <2>1. /\ \A i \in 1 .. NbTrees(m) : Share(m, i, p) \in Int
    BY TreesReached
  <2> QED
    BY <1>1, <2>1 DEF weights, Weights, Weight, Sign
<1>5. \A i \in Nat : i <= n * k => SumTo(weights, i) \in Int
  <2> SUFFICES ASSUME NEW i \in Nat, i <= n * k PROVE SumTo(weights, i) \in Int
    OBVIOUS
  <2>1. \A h \in 1 .. i : weights[h] \in Int /\ weights[h] \in Int
                          /\ weights[h] - weights[h] = weights[h] - weights[h]
    BY <1>1, <1>4
  <2> DEFINE none == [h \in 1 .. i |-> weights[h] - weights[h]]
  <2>2. \A h \in 1 .. i : weights[h] \in Int /\ weights[h] \in Int /\ none[h] = weights[h] - weights[h]
    BY <2>1
  <2> HIDE DEF none
  <2> QED
    BY <2>2, SumToSubtracts
<1>6. ASSUME NEW j \in 0 .. n - 1
      PROVE  SumTo(weights, (j + 1) * k) = SumTo(weights, j * k) + Part(j, k)
  <2> DEFINE G == {c \in Nat : Block(j, c)}
             R(c) == Unit(m, j + 1, p, c)
  <2>1. /\ j \in Nat /\ j * k \in Nat /\ (j + 1) * k = j * k + k /\ (j + 1) * k <= n * k
    <3>1. n \in Nat /\ k \in Nat
      BY <1>1
    <3>2. j \in Nat /\ j + 1 \in Nat /\ j + 1 <= n
      BY <3>1
    <3>3. j * k \in Nat /\ (j + 1) * k = j * k + k
      BY <3>1, <3>2, Product
    <3>4. (j + 1) * k <= n * k
      BY <3>1, <3>2, Product
    <3> QED
      BY <3>2, <3>3, <3>4
  <2>2. R(label) \in Int /\ R(target) \in Int
    BY <1>1, <1>l, <2>1
  <2>3. SumTo(weights, j * k) \in Int
    BY <1>1, <1>5, <2>1
  <2> HIDE DEF R
  <2>4. Block(j, 0)
    <3>1. Part(j, 0) = 0 /\ j * k + 0 = j * k
      BY <1>l, <2>1
    <3> HIDE DEF Part
    <3> QED
      BY <2>3, <3>1
  <2>5. ASSUME NEW c \in Nat, Block(j, c) PROVE Block(j, c + 1)
    <3> DEFINE i == j * k + c
    <3> SUFFICES ASSUME c + 1 <= k
                 PROVE  SumTo(weights, j * k + (c + 1)) = SumTo(weights, j * k) + Part(j, c + 1)
      OBVIOUS
    <3>1. c \in 0 .. k - 1
      BY <1>1
    <3>2. weights[i + 1] = IF c = label THEN R(label) ELSE IF c = target THEN -R(target) ELSE 0
      BY <1>3, <3>1 DEF R
    <3>3. i \in Nat /\ i + 1 <= n * k
      BY <1>1, <2>1, <3>1
    <3>4. \A h \in 1 .. i + 1 : weights[h] \in Int
      BY <1>1, <1>4, <3>3
    <3> HIDE DEF i
    <3>5. SumTo(weights, i + 1) = SumTo(weights, i) + weights[i + 1]
      BY <3>3, <3>4, SumAppends
    <3>6. SumTo(weights, i) = SumTo(weights, j * k) + Part(j, c)
      BY <1>1, <2>5, <3>1 DEF i
    <3>7. Part(j, c + 1) = Part(j, c) + weights[i + 1] /\ Part(j, c) \in Int /\ weights[i + 1] \in Int
      <4>1. Part(j, c) = (IF label < c THEN R(label) ELSE 0) - (IF target < c THEN R(target) ELSE 0)
        BY DEF R
      <4>2. Part(j, c + 1) = (IF label < c + 1 THEN R(label) ELSE 0) - (IF target < c + 1 THEN R(target) ELSE 0)
        BY DEF R
      <4> HIDE DEF Part
      <4> QED
        BY <1>l, <2>2, <3>1, <3>2, <4>1, <4>2
    <3>8. j * k + (c + 1) = i + 1
      BY <2>1 DEF i
    <3> HIDE DEF Part
    <3> QED
      BY <2>3, <3>5, <3>6, <3>7, <3>8
  <2>6. Block(j, k)
    <3> HIDE DEF Block
    <3>1. 0 \in G /\ \A c \in Nat : c \in G => c + 1 \in G
      BY <2>4, <2>5
    <3>2. Nat \subseteq G
      <4> HIDE DEF G
      <4> QED
        BY <3>1, Induct
    <3> QED
      BY <1>1, <3>2
  <2> HIDE DEF Part
  <2> QED
    BY <1>1, <2>1, <2>6
<1>7. ASSUME NEW j \in 0 .. n - 1
      PROVE  Part(j, k) = for[j + 1] - against[j + 1] /\ for[j + 1] \in Int /\ against[j + 1] \in Int
  <2>1. j + 1 \in 1 .. n
    BY <1>1
  <2> QED
    BY <1>1, <1>2, <1>l, <2>1
<1> HIDE DEF Part
<1> DEFINE Holds(j) == j <= n => /\ SumTo(for, j) \in Int /\ SumTo(against, j) \in Int
                                 /\ SumTo(weights, j * k) = SumTo(for, j) - SumTo(against, j)
           H == {j \in Nat : Holds(j)}
<1>8. Holds(0)
  <2>1. SumTo(for, 0) = 0 /\ SumTo(against, 0) = 0 /\ SumTo(weights, 0) = 0
    BY SumToNone
  <2>2. 0 * k = 0
    BY <1>1, Z3
  <2> QED
    BY <2>1, <2>2
<1>9. ASSUME NEW j \in Nat, Holds(j) PROVE Holds(j + 1)
  <2> SUFFICES ASSUME j + 1 <= n
               PROVE  /\ SumTo(for, j + 1) \in Int /\ SumTo(against, j + 1) \in Int
                      /\ SumTo(weights, (j + 1) * k) = SumTo(for, j + 1) - SumTo(against, j + 1)
    OBVIOUS
  <2>1. j \in 0 .. n - 1
    BY <1>1
  <2>2. /\ SumTo(for, j) \in Int /\ SumTo(against, j) \in Int
        /\ SumTo(weights, j * k) = SumTo(for, j) - SumTo(against, j)
    BY <1>1, <1>9
  <2>3. /\ SumTo(weights, (j + 1) * k) = SumTo(weights, j * k) + (for[j + 1] - against[j + 1])
        /\ for[j + 1] \in Int /\ against[j + 1] \in Int
    BY <1>6, <1>7, <2>1
  <2>4. \A i \in 1 .. j + 1 : for[i] \in Int /\ against[i] \in Int
    <3>1. \A i \in 1 .. j + 1 : i - 1 \in 0 .. n - 1 /\ (i - 1) + 1 = i
      BY <1>1
    <3> QED
      BY <1>7, <3>1
  <2>5. SumTo(for, j + 1) = SumTo(for, j) + for[j + 1]
    BY <2>4, SumAppends
  <2>6. SumTo(against, j + 1) = SumTo(against, j) + against[j + 1]
    BY <2>4, SumAppends
  <2> QED
    BY <2>2, <2>3, <2>5, <2>6
<1>10. n \in H
  <2> HIDE DEF Holds
  <2>1. 0 \in H /\ \A j \in Nat : j \in H => j + 1 \in H
    BY <1>8, <1>9
  <2>2. Nat \subseteq H
    <3> HIDE DEF H
    <3> QED
      BY <2>1, Induct
  <2> HIDE DEF H
  <2> QED
    BY <1>1, <2>2
<1>11. /\ SumTo(for, n) \in Int /\ SumTo(against, n) \in Int
       /\ SumTo(weights, n * k) = SumTo(for, n) - SumTo(against, n)
  BY <1>1, <1>10
<1> QED
  BY <1>1, <1>11 DEF Lead, weights, for, against, n, k

(***************************************************************************)
(* Where the verdicts of a call are right, so are the bounds it adds up    *)
(* and the error it reports.                                               *)
(***************************************************************************)
VerdictsRight ==
  norm # 0 => \A s \in 1 .. NSamples, e \in Nat : IsRobust(arguments, s, e) => Robust(s, e)

LEMMA VerdictsSuffice ==
  ASSUME VInv, VerdictsRight
  PROVE  Sound /\ ErrorIsNoLess
<1> SUFFICES ASSUME norm # 0
             PROVE  /\ \A s \in DOMAIN bounds : bounds[s] > 0 => Robust(s, bounds[s])
                    /\ num_initial_successes <=
                         Cardinality({s \in 1 .. NSamples : s <= i_sample /\ Robust(s, eps_init)})
  BY DEF Sound, ErrorIsNoLess
<1>1. /\ BoundsVerified /\ PassedVerified /\ SuccessesVerified /\ TypeOK
      /\ \A s \in 1 .. NSamples, e \in Nat : IsRobust(arguments, s, e) => Robust(s, e)
  BY DEF VInv, IInv, VerdictsRight
<1>2. /\ i_sample \in 1 .. NSamples /\ NSamples \in Nat /\ eps_init \in Nat
      /\ num_initial_successes \in Nat
  BY <1>1, Numbers DEF TypeOK
<1>3. /\ bounds \in Seq(Nat) /\ Len(bounds) \in Nat /\ DOMAIN bounds = 1 .. Len(bounds)
      /\ Len(bounds) <= NSamples
  BY <1>1, <1>2 DEF PassedVerified
<1>4. \A s \in DOMAIN bounds : s \in 1 .. NSamples /\ bounds[s] \in Nat
  BY <1>2, <1>3
<1>5. \A s \in DOMAIN bounds : bounds[s] > 0 => Robust(s, bounds[s])
  BY <1>1, <1>4 DEF BoundsVerified
<1> DEFINE S == {s \in 1 .. NSamples : s <= i_sample /\ Robust(s, eps_init)}
<1>6. Successes \subseteq S /\ S \subseteq 1 .. NSamples
  BY <1>1, <1>2 DEF Successes, Begun
<1>7. Successes \subseteq 1 .. NSamples
  BY <1>6
<1>8. /\ Cardinality(Successes) \in Nat /\ Cardinality(S) \in Nat
      /\ Cardinality(Successes) <= Cardinality(S)
  BY <1>6, <1>7, SuccessesFinite
<1>9. num_initial_successes <= Cardinality(S)
  BY <1>1, <1>2, <1>8 DEF SuccessesVerified
<1> QED
  BY <1>5, <1>9

LabelsFit == \A s \in 1 .. NSamples : y[s] < model.nb_classes

\* What a call to verify is given.
LEMMA CallNumbers ==
  ASSUME TypeOK, LabelsFit, NEW s \in 1 .. NSamples
  PROVE  /\ IsModel(model, DOMAIN x[s])
         /\ model.nb_classes \in Nat \ {0, 1} /\ y[s] \in 0 .. model.nb_classes - 1
         /\ model.kind \in {"booster", "forest"}
         /\ IsFiniteSet(DOMAIN x[s]) /\ DOMAIN x[s] # {} /\ x[s] \in [DOMAIN x[s] -> 0 .. One]
         /\ max_clique \in Nat \ {0} /\ max_level \in Nat \ {0}
         /\ norm \in {0, 1, Infinity}
         /\ Len(model.trees) \in Nat
<1>1. /\ model \in Models /\ x \in Inputs /\ y \in Labels /\ norm \in Norms
      /\ \E join \in Joins : max_clique = join[1] /\ max_level = join[2]
  BY DEF TypeOK
<1>2. /\ IsModel(model, DOMAIN x[s]) /\ y[s] \in Nat
      /\ IsFiniteSet(DOMAIN x[s]) /\ DOMAIN x[s] # {} /\ x[s] \in [DOMAIN x[s] -> 0 .. One]
  BY <1>1, DataAssumption
<1>3. max_clique \in Nat \ {0} /\ max_level \in Nat \ {0} /\ norm \in {0, 1, Infinity}
  BY <1>1, SearchAssumption
<1>4. model.nb_classes \in Nat \ {0, 1} /\ model.kind \in {"booster", "forest"} /\ Len(model.trees) \in Nat
  BY <1>2 DEF IsModel
<1>5. y[s] < model.nb_classes
  BY DEF LabelsFit
<1> QED
  BY <1>2, <1>3, <1>4, <1>5

\* The score that the verification computes is on the safe side of the sum for any
\* input within e, and no tree is without a leaf within reach.
LEMMA TotalsBound ==
  ASSUME TypeOK, LabelsFit, norm # 0, NEW s \in 1 .. NSamples, NEW e \in Nat,
         NEW p \in Ball(x[s], e), NEW target
  PROVE  LET total == SumTo(Weights(arguments, s, target, p), NbTrees(model))
         IN  /\ OnSide(arguments, y[s], BestScore(arguments, s, e, target), total)
             /\ \A i \in DOMAIN AccessibleLeaves(arguments, s, e, target) :
                  AccessibleLeaves(arguments, s, e, target)[i] # {}
             /\ p \in [DOMAIN x[s] -> 0 .. One]
             /\ \A f \in DOMAIN x[s] : p[f] \in 0 .. One
<1> DEFINE a == arguments
           F == DOMAIN x[s]
           at == [all |-> FALSE, F |-> F, kind |-> model.kind, p |-> p, x |-> x[s], e |-> e]
<1>1. /\ a.model = model /\ a.x = x /\ a.y = y /\ a.norm = norm
      /\ a.max_clique = max_clique /\ a.max_level = max_level
  BY DEF arguments
<1>2. p \in [F -> 0 .. One]
  BY DEF Ball
<1>3. Setting(at, a, s)
  BY <1>1, <1>2, CallNumbers DEF Setting
<1> DEFINE total == SumTo(Weights(a, s, target, p), NbTrees(model))
<1>4. /\ Counted(at, AccessibleLeaves(a, s, e, target), total)
      /\ \A i \in DOMAIN AccessibleLeaves(a, s, e, target) :
           AccessibleLeaves(a, s, e, target)[i] # {}
  <2>1. at.e = e /\ at.p = p /\ at.all = FALSE
    OBVIOUS
  <2> HIDE DEF at
  <2> QED
    BY <1>1, <1>3, <2>1, AccessibleCounted
<1>5. \A f \in F : p[f] \in 0 .. One /\ p[f] \in Int
  BY <1>2, SearchAssumption
<1>6. a.max_clique \in Nat \ {0} /\ a.max_level \in Nat \ {0}
  BY <1>1, CallNumbers
<1>7. (\A f \in at.F : at.p[f] \in Int) /\ at.all = FALSE
  BY <1>5
<1> HIDE DEF a, F, total, at
<1>8. OnSide(a, a.y[s], BestScore(a, s, e, target), total)
  BY <1>4, <1>6, <1>7, BestOnSide DEF BestScore
<1> QED
  BY <1>1, <1>2, <1>4, <1>5, <1>8 DEF a, F, total

\* Of more classes than two, in one kind of ensemble or the other.
LEMMA EitherLead ==
  ASSUME NEW F, NEW m, IsModel(m, F), m.kind \in {"booster", "forest"}, m.nb_classes > 2,
         Comparable(m),
         NEW p, \A f \in F : p[f] \in 0 .. One,
         NEW a, a.model = m, NEW s, NEW label \in Nat, a.y[s] = label, label < m.nb_classes,
         NEW target \in Nat, target < m.nb_classes, label # target
  PROVE  /\ SumTo(Weights(a, s, target, p), NbTrees(m)) = Lead(m, p, label, target)
         /\ SumTo(ClassShares(m, p, label), Len(m.trees)) \in Int
         /\ SumTo(ClassShares(m, p, target), Len(m.trees)) \in Int
<1>1. CASE m.kind = "booster"
  BY <1>1, BoosterLead
<1>2. CASE m.kind = "forest"
  <2>1. PureLeaves(m)
    BY <1>2 DEF Comparable
  <2> QED
    BY <1>2, <2>1, ForestLead
<1> QED
  BY <1>1, <1>2

\* What the sum is to the scores of the label and of the target.
LEMMA TotalIsLead ==
  ASSUME TypeOK, LabelsFit, Comparable(model), NEW s \in 1 .. NSamples,
         NEW p, \A f \in DOMAIN x[s] : p[f] \in 0 .. One, NEW target \in Targets(arguments, s)
  PROVE  LET total == SumTo(Weights(arguments, s, target, p), NbTrees(model))
         IN  /\ total \in Int
             /\ IF model.nb_classes = 2
                THEN Score(p, 1) = total /\ Score(p, 0) = -total
                ELSE /\ target \in (0 .. model.nb_classes - 1) \ {y[s]}
                     /\ Score(p, y[s]) \in Int /\ Score(p, target) \in Int
                     /\ total = Score(p, y[s]) - Score(p, target)
<1> DEFINE a == arguments
           F == DOMAIN x[s]
           t == SumTo(Weights(a, s, target, p), NbTrees(model))
<1>1. /\ IsModel(model, F)
      /\ model.nb_classes \in Nat \ {0, 1} /\ y[s] \in 0 .. model.nb_classes - 1
      /\ model.kind \in {"booster", "forest"} /\ Len(model.trees) \in Nat
  BY CallNumbers
<1>2. a.model = model /\ a.y = y
  BY DEF arguments
<1>4. \A class : Score(p, class) = SumTo(ClassShares(model, p, class), Len(model.trees))
  BY <1>1, ScoreIsSum
<1>5. CASE model.nb_classes = 2
  <2>1. model.kind = "booster"
    BY <1>1, <1>5 DEF Comparable
  <2>2. t \in Int /\ Score(p, 1) = t /\ Score(p, 0) = -t
    BY <1>1, <1>2, <1>4, <1>5, <2>1, TwoClassScores
  <2> QED
    BY <1>5, <2>2
<1>6. CASE model.nb_classes # 2
  <2> DEFINE m == model
             label == y[s]
  <2>1. target \in (0 .. m.nb_classes - 1) \ {label}
    BY <1>1, <1>2, <1>6 DEF Targets
  <2>a. /\ IsModel(m, F) /\ m.kind \in {"booster", "forest"} /\ m.nb_classes > 2
        /\ Comparable(m)
        /\ \A f \in F : p[f] \in 0 .. One
        /\ a.model = m /\ target \in Nat /\ target < m.nb_classes
        /\ a.y[s] = label /\ label \in Nat /\ label < m.nb_classes /\ label # target
    BY <1>1, <1>2, <1>6, <2>1
  <2>b. /\ SumTo(Weights(a, s, target, p), NbTrees(m)) = Lead(m, p, label, target)
        /\ SumTo(ClassShares(m, p, label), Len(m.trees)) \in Int
        /\ SumTo(ClassShares(m, p, target), Len(m.trees)) \in Int
    <3> HIDE DEF a, F, m, label
    <3> QED
      BY <2>a, EitherLead, Z3
  <2>2. Score(p, y[s]) \in Int /\ Score(p, target) \in Int
    BY <1>4, <2>b
  <2>3. t = Score(p, y[s]) - Score(p, target)
    BY <1>4, <2>b DEF Lead
  <2> HIDE DEF t, m, label
  <2> QED
    BY <1>6, <2>1, <2>2, <2>3 DEF t, m, label
<1> QED
  BY <1>5, <1>6

(***************************************************************************)
(* A verdict for a sample is right: the score of the verification is on    *)
(* the safe side of what the trees make of any input within e.             *)
(***************************************************************************)
LEMMA VerdictIsRight ==
  ASSUME TypeOK, LabelsFit, norm # 0, Comparable(model), NEW s \in 1 .. NSamples, NEW e \in Nat,
         IsRobust(arguments, s, e)
  PROVE  Robust(s, e)
<1> SUFFICES ASSUME NEW p \in Ball(x[s], e),
                    NEW c \in (0 .. model.nb_classes - 1) \ {y[s]}
             PROVE  Score(p, y[s]) > Score(p, c)
  BY DEF Robust, Predicted
<1> DEFINE a == arguments
           total(target) == SumTo(Weights(a, s, target, p), NbTrees(model))
           best(target) == BestScore(a, s, e, target)
<1>1. model.nb_classes \in Nat \ {0, 1} /\ y[s] \in 0 .. model.nb_classes - 1
  BY CallNumbers
<1>2. a.model = model /\ a.y = y
  BY DEF arguments
<1>3. \A f \in DOMAIN x[s] : p[f] \in 0 .. One
  BY TotalsBound
<1>4. \A target : OnSide(a, y[s], best(target), total(target))
  BY TotalsBound
<1>5. CASE model.nb_classes = 2
  <2>1. NoTarget \in Targets(a, s)
    BY <1>2, <1>5 DEF Targets
  <2> DEFINE t == total(NoTarget)
             b == best(NoTarget)
  <2>2. t \in Int /\ Score(p, 1) = t /\ Score(p, 0) = -t
    BY <1>3, <1>5, <2>1, TotalIsLead
  <2>3. OnSide(a, y[s], b, t)
    BY <1>4
  <2>4. IF y[s] = 0 THEN b < 0 ELSE b > 0
    BY <1>2, <1>5, <2>1 DEF IsRobust
  <2>5. FromAbove(a, y[s]) <=> y[s] = 0
    BY <1>2, <1>5 DEF FromAbove
  <2> HIDE DEF t, b, a
  <2>6. IF y[s] = 0 THEN t < 0 ELSE t > 0
    BY <2>2, <2>3, <2>4, <2>5 DEF OnSide
  <2>7. (y[s] = 0 /\ c = 1) \/ (y[s] = 1 /\ c = 0)
    BY <1>1, <1>5
  <2> QED
    BY <2>2, <2>6, <2>7
<1>6. CASE model.nb_classes # 2
  <2>1. model.nb_classes > 2 /\ c \in Targets(a, s)
    BY <1>1, <1>2, <1>6 DEF Targets
  <2> DEFINE t == total(c)
             b == best(c)
  <2>2. t = Score(p, y[s]) - Score(p, c) /\ Score(p, y[s]) \in Int /\ Score(p, c) \in Int
    BY <1>3, <1>6, <2>1, TotalIsLead
  <2>3. OnSide(a, y[s], b, t)
    BY <1>4
  <2>4. b > 0
    BY <1>1, <1>2, <2>1 DEF IsRobust
  <2>5. ~FromAbove(a, y[s])
    BY <1>1, <1>2, <2>1 DEF FromAbove
  <2> HIDE DEF t, b, a
  <2> QED
    BY <2>2, <2>3, <2>4, <2>5 DEF OnSide
<1> QED
  BY <1>5, <1>6

(***************************************************************************)
(* The call stays one of its class of calls; and what raises has no leaf   *)
(* within reach.                                                           *)
(***************************************************************************)
RInv == IInv /\ LabelsFit /\ RaisesOnlyForNorm0

\* No verdict is given up for want of a leaf.
LEMMA LeavesWithinReach ==
  ASSUME TypeOK, LabelsFit, norm # 0, NEW s \in 1 .. NSamples, NEW e \in Nat
  PROVE  ~NoLeaves(arguments, s, e)
<1>1. norm \in {1, Infinity}
  BY CallNumbers
<1>2. IsFiniteSet(DOMAIN x[s]) /\ DOMAIN x[s] # {} /\ x[s] \in [DOMAIN x[s] -> 0 .. One]
  BY CallNumbers
<1> DEFINE v == x[s]
<1>3. v \in Ball(v, e)
  <2>1. IsFiniteSet(DOMAIN v) /\ DOMAIN v # {} /\ v \in [DOMAIN v -> 0 .. One]
    BY <1>2
  <2> HIDE DEF v
  <2> QED
    BY <1>1, <2>1, SelfNear
<1>4. \A target : \A i \in DOMAIN AccessibleLeaves(arguments, s, e, target) :
                    AccessibleLeaves(arguments, s, e, target)[i] # {}
  BY <1>3, TotalsBound
<1> QED
  BY <1>4 DEF NoLeaves

\* To begin with nothing was raised.
LEMMA RInit == Init => RInv
<1> SUFFICES ASSUME Init PROVE RInv
  OBVIOUS
<1>1. IInv
  BY InitInvariant
<1>2. LabelsFit /\ RaisesOnlyForNorm0
  BY DEF Init, LabelsFit, RaisesOnlyForNorm0
<1> QED
  BY <1>1, <1>2 DEF RInv

\* A step raises only for the norm 0, and leaves the call alone.
LEMMA RStep == RInv /\ [Next]_vars => RInv'
<1> SUFFICES ASSUME RInv, [Next]_vars PROVE RInv'
  OBVIOUS
<1>1. IInv /\ TypeOK /\ LabelsFit /\ RaisesOnlyForNorm0
  BY DEF RInv, IInv
<1>2. IInv'
  BY <1>1, StepInvariant
<1>3. UNCHANGED call
  BY DEF Next, Raise, SearchStep, SampleEnd, Over, vars
<1>4. LabelsFit' /\ norm' = norm
  BY <1>1, <1>3 DEF LabelsFit, call
<1>5. CASE Raise
  <2>1. i_sample \in 1 .. NSamples /\ eps \in Nat
    BY <1>1, Numbers DEF TypeOK
  <2>2. NoLeaves(arguments, i_sample, eps)
    BY <1>5 DEF Raise
  <2>3. norm = 0
    BY <1>1, <2>1, <2>2, LeavesWithinReach
  <2> QED
    BY <1>2, <1>4, <2>3 DEF RInv, RaisesOnlyForNorm0
<1>6. CASE ~Raise
  <2>1. phase' = "raised" => phase = "raised"
    BY <1>6 DEF Next, SearchStep, SampleEnd, Over, vars
  <2> QED
    BY <1>1, <1>2, <1>4, <2>1 DEF RInv, RaisesOnlyForNorm0
<1> QED
  BY <1>5, <1>6

(***************************************************************************)
(* Unless the norm is 0, verify never raises for want of a leaf within     *)
(* reach: the leaf that a sample itself runs down to is at distance 0.     *)
(***************************************************************************)
THEOREM RaisesOnlyForNorm0Always == Spec => []RaisesOnlyForNorm0
<1>1. RInv => RaisesOnlyForNorm0
  BY DEF RInv
<1> QED
  BY <1>1, RInit, RStep, PTL DEF Spec

(***************************************************************************)
(* In a state of the search the next verdict is right, whatever eps is.    *)
(***************************************************************************)
LEMMA AllVerdictsRight == RInv /\ Comparable(model) => VerdictsRight
  BY VerdictIsRight DEF RInv, IInv, VerdictsRight

(***************************************************************************)
(* Every bound that is added up is one: for every booster, and for every   *)
(* forest of more classes than two with pure leaves, with a split at every *)
(* root, and for any batch, norm 1 or infinity, number of steps and way of *)
(* joining the trees, no input within the bound of a sample is classified  *)
(* differently.                                                            *)
(***************************************************************************)
THEOREM SoundAlways == Spec => [](Comparable(model) => Sound)
<1>1. RInv /\ VInv => (Comparable(model) => Sound)
  BY AllVerdictsRight, VerdictsSuffice
<1> QED
  BY <1>1, RInit, RStep, VInit, VStep, PTL DEF Spec

(***************************************************************************)
(* And of the same ensembles, the samples counted as verified at eps_init  *)
(* are no more than are robust there.                                      *)
(***************************************************************************)
THEOREM ErrorIsNoLessAlways == Spec => [](Comparable(model) => ErrorIsNoLess)
<1>1. RInv /\ VInv => (Comparable(model) => ErrorIsNoLess)
  BY AllVerdictsRight, VerdictsSuffice
<1> QED
  BY <1>1, RInit, RStep, VInit, VStep, PTL DEF Spec

(***************************************************************************)
(* The other direction, for one clique: the worst clique has room for an   *)
(* input not much farther away than its leaves are, and that input gets    *)
(* the clique's score.                                                     *)
(***************************************************************************)
\* A value moved into an interval, no further than to the next one in it.
Moved(kind, v, i) ==
  IF kind = "forest" THEN IF v <= i.lower THEN i.lower + 1 ELSE IF v > i.upper THEN i.upper ELSE v
  ELSE IF v < i.lower THEN i.lower ELSE IF v >= i.upper THEN i.upper - 1 ELSE v

LEMMA MovedInside ==
  ASSUME NEW kind, NEW v \in 0 .. One, NEW e \in Nat, NEW i, i.lower \in Int, i.upper \in Int,
         i.lower < i.upper, i.lower < One, 0 < i.upper, i.lower <= v + e, v - e <= i.upper
  PROVE  /\ Moved(kind, v, i) \in 0 .. One
         /\ Away(Moved(kind, v, i), v) <= e + 1
         /\ IF kind = "forest" THEN i.lower < Moved(kind, v, i) /\ Moved(kind, v, i) <= i.upper
                               ELSE i.lower <= Moved(kind, v, i) /\ Moved(kind, v, i) < i.upper
<1>1. One \in Nat
  BY SearchAssumption
<1>2. CASE kind = "forest"
  BY <1>1, <1>2 DEF Moved, Away
<1>3. CASE kind # "forest"
  BY <1>1, <1>3 DEF Moved, Away
<1> QED
  BY <1>2, <1>3

\* So a sample moves into a box that is near.
LEMMA BoxHoldsInput ==
  ASSUME norm = Infinity, NEW v, IsFiniteSet(DOMAIN v), DOMAIN v # {}, v \in [DOMAIN v -> 0 .. One],
         NEW e \in Nat, NEW b, IsBox(b, DOMAIN v), Roomy(b), Near(b, v, e), NEW kind
  PROVE  \E p \in Ball(v, e + 1) : p \in [DOMAIN v -> 0 .. One] /\ Inside(kind, p, b)
<1> DEFINE F == DOMAIN v
           p == [f \in F |-> IF f \in DOMAIN b THEN Moved(kind, v[f], b[f]) ELSE v[f]]
           away == Awayness(p, v)
           S == {Away(p[f], v[f]) : f \in F}
<1>1. One \in Nat /\ DOMAIN b \subseteq F /\ \A f \in F : v[f] \in 0 .. One
  BY SearchAssumption DEF IsBox
<1>2. \A f \in DOMAIN b :
        /\ Moved(kind, v[f], b[f]) \in 0 .. One
        /\ Away(Moved(kind, v[f], b[f]), v[f]) <= e + 1
        /\ IF kind = "forest" THEN b[f].lower < Moved(kind, v[f], b[f]) /\ Moved(kind, v[f], b[f]) <= b[f].upper
                              ELSE b[f].lower <= Moved(kind, v[f], b[f]) /\ Moved(kind, v[f], b[f]) < b[f].upper
  BY <1>1, MovedInside DEF IsBox, Roomy, Near
<1>3. \A f \in DOMAIN b : p[f] = Moved(kind, v[f], b[f])
  BY <1>1
<1>4. \A f \in F : p[f] \in 0 .. One /\ Away(p[f], v[f]) <= e + 1
  <2> SUFFICES ASSUME NEW f \in F PROVE p[f] \in 0 .. One /\ Away(p[f], v[f]) <= e + 1
    OBVIOUS
  <2>1. CASE f \in DOMAIN b
    BY <1>2, <1>3, <2>1
  <2>2. CASE f \notin DOMAIN b
    <3>1. p[f] = v[f] /\ v[f] \in 0 .. One
      BY <1>1, <2>2
    <3> HIDE DEF p
    <3> QED
      BY <1>1, <3>1 DEF Away
  <2> QED
    BY <2>1, <2>2
<1>5. p \in [F -> 0 .. One]
  BY <1>4
<1>6. Inside(kind, p, b)
  BY <1>2, <1>3 DEF Inside
<1> HIDE DEF p
<1>7. \A f \in F : away[f] = Away(p[f], v[f]) /\ away[f] \in Nat
  BY <1>1, <1>5, AwayIsNumber
<1>8. S = {away[f] : f \in F}
  BY <1>7
<1>9. IsFiniteSet(S) /\ S # {} /\ S \subseteq Int
  <2>1. IsFiniteSet({away[f] : f \in F})
    <3> HIDE DEF away, F
    <3>1. IsFiniteSet(F)
      BY DEF F
    <3> QED
      BY <3>1, FiniteImage
  <2> QED
    BY <1>7, <1>8, <2>1
<1>10. \A n \in S : n <= e + 1
  BY <1>4
<1> HIDE DEF S
<1>11. Max(S) <= e + 1
  BY <1>9, <1>10, Extremes
<1>12. p \in Ball(v, e + 1)
  <2>1. e + 1 \in Nat /\ norm \in {1, Infinity} /\ p \in [DOMAIN v -> 0 .. One]
    BY <1>5
  <2> QED
    BY <1>11, <2>1, BallDistance DEF S
<1> QED
  BY <1>5, <1>6, <1>12

\* The last level, seen from a point.
LEMMA LastCounted ==
  ASSUME TypeOK, LabelsFit, NEW s \in 1 .. NSamples, NEW e, NEW target,
         NEW at, Setting(at, arguments, s), at.e = e
  PROVE  LET last == LastLevel(arguments, s, e, target)
         IN  /\ Counted(at, last.nodes, SumTo(Weights(arguments, s, target, at.p), NbTrees(model)))
             /\ Settled(arguments, last, y[s])
<1> DEFINE a == arguments
           total == SumTo(Weights(a, s, target, at.p), NbTrees(model))
<1>1. /\ a.model = model /\ a.y = y
      /\ a.max_clique \in Nat \ {0} /\ a.max_level \in Nat \ {0}
  BY CallNumbers DEF arguments
<1>2. Counted(at, AccessibleLeaves(a, s, e, target), total)
  BY <1>1, AccessibleCounted
<1>3. \A f \in at.F : at.p[f] \in Int
  BY SearchAssumption DEF Setting
<1> HIDE DEF a, total
<1>4. /\ Counted(at, LastLevel(a, s, e, target).nodes, total)
      /\ Settled(a, LastLevel(a, s, e, target), a.y[s])
  BY <1>1, <1>2, <1>3, BestOnSide
<1> QED
  BY <1>1, <1>4 DEF a, total

\* When the last level is one clique set, its score is the sum for an input within e + 1.
LEMMA OneCliqueTotal ==
  ASSUME TypeOK, LabelsFit, norm = Infinity, Grown(model),
         NEW s \in 1 .. NSamples, NEW e \in Nat, NEW target,
         Len(LastLevel(arguments, s, e, target).nodes) <= 1
  PROVE  \E p \in Ball(x[s], e + 1) :
           /\ p \in [DOMAIN x[s] -> 0 .. One]
           /\ BestScore(arguments, s, e, target) =
                SumTo(Weights(arguments, s, target, p), NbTrees(model))
<1> DEFINE a == arguments
           v == x[s]
           F == DOMAIN v
           last == LastLevel(a, s, e, target)
           total(p) == SumTo(Weights(a, s, target, p), NbTrees(model))
           view(all, p) == [all |-> all, F |-> F, kind |-> model.kind, p |-> p, x |-> v, e |-> e]
<1>1. /\ a.model = model /\ a.x = x /\ a.y = y /\ a.norm = norm
  BY DEF arguments
<1>2. /\ IsModel(model, F) /\ norm \in {1, Infinity}
      /\ IsFiniteSet(DOMAIN v) /\ DOMAIN v # {} /\ v \in [DOMAIN v -> 0 .. One]
  BY CallNumbers
<1>3. v \in Ball(v, e) /\ v \in Ball(v, e + 1)
  <2> HIDE DEF v
  <2> QED
    BY <1>2, SelfNear
<1>4. \A p \in [F -> 0 .. One] : Setting(view(TRUE, p), a, s)
  BY <1>1, <1>2 DEF Setting
<1>5. Setting(view(FALSE, v), a, s)
  BY <1>1, <1>2, <1>3 DEF Setting
<1>6. /\ \A all, p : /\ view(all, p).all = all /\ view(all, p).p = p /\ view(all, p).e = e
                     /\ view(all, p).F = F /\ view(all, p).x = v /\ view(all, p).kind = model.kind
  OBVIOUS
<1>7. BestScore(a, s, e, target) = last.score
  BY DEF BestScore
<1> HIDE DEF a, v, F, total, last, view
<1>t. ASSUME NEW at, Setting(at, a, s), at.e = e
      PROVE  Counted(at, last.nodes, total(at.p)) /\ Settled(a, last, y[s])
  <2>1. Setting(at, arguments, s)
    BY <1>t DEF a
  <2>2. /\ Counted(at, LastLevel(arguments, s, e, target).nodes,
                   SumTo(Weights(arguments, s, target, at.p), NbTrees(model)))
        /\ Settled(arguments, LastLevel(arguments, s, e, target), y[s])
    BY <1>t, <2>1, LastCounted
  <2> QED
    BY <2>2 DEF a, total, last
<1>8. ASSUME NEW p \in [F -> 0 .. One]
      PROVE  Counted(view(TRUE, p), last.nodes, total(p))
  <2> DEFINE at == view(TRUE, p)
  <2>1. Setting(at, a, s) /\ at.e = e /\ at.p = p
    BY <1>4, <1>6
  <2> HIDE DEF at
  <2>2. Counted(at, last.nodes, total(at.p))
    BY <1>t, <2>1
  <2> QED
    BY <2>1, <2>2 DEF at
<1>9. Counted(view(FALSE, v), last.nodes, total(v)) /\ Settled(a, last, y[s])
  <2> DEFINE at == view(FALSE, v)
  <2>1. Setting(at, a, s) /\ at.e = e /\ at.p = v
    BY <1>5, <1>6
  <2> HIDE DEF at
  <2>2. Counted(at, last.nodes, total(at.p)) /\ Settled(a, last, y[s])
    BY <1>t, <2>1
  <2> QED
    BY <2>1, <2>2 DEF at
<1>10. v \in [F -> 0 .. One]
  BY <1>2 DEF F
<1>11. Len(last.nodes) \in {0, 1}
  <2>1. Len(last.nodes) \in Nat
    BY <1>9 DEF Counted, Covers
  <2>2. Len(last.nodes) <= 1
    BY DEF last, a
  <2> DEFINE n == Len(last.nodes)
  <2>3. n \in Nat /\ n <= 1
    BY <2>1, <2>2
  <2> HIDE DEF n
  <2>4. n \in {0, 1}
    BY <2>3
  <2> QED
    BY <2>4 DEF n
<1>12. CASE Len(last.nodes) = 0
  <2>1. total(v) = 0
    BY <1>9, <1>12, SumToNone DEF Counted
  <2>2. last.score = 0
    BY <1>9, <1>12 DEF Settled
  <2> QED
    BY <1>3, <1>7, <1>10, <2>1, <2>2 DEF a, v, F, total
<1>13. CASE Len(last.nodes) = 1
  <2> DEFINE C == last.nodes[1]
  <2>1. 1 \in 1 .. Len(last.nodes)
    BY <1>13
  <2>2. C # {}
    <3>1. PICK w : Covers(view(FALSE, v), last.nodes, w)
      BY <1>9 DEF Counted
    <3>2. Stands(view(FALSE, v), C, w[1])
      BY <2>1, <3>1 DEF Covers
    <3> HIDE DEF C
    <3> QED
      BY <1>6, <3>2 DEF Stands, Meets
  <2>3. ASSUME NEW p \in [F -> 0 .. One]
        PROVE  /\ Tells(C, F, model.kind, p, total(p))
               /\ \A c \in C : Near(c.box, v, e)
    <3>1. PICK w : Covers(view(TRUE, p), last.nodes, w) /\ SumTo(w, Len(last.nodes)) = total(p)
      BY <1>8 DEF Counted
    <3>2. Stands(view(TRUE, p), C, w[1]) /\ w[1] \in Int
      BY <2>1, <3>1 DEF Covers
    <3>3. SumTo(w, 1) = w[1]
      <4>1. \A i \in 1 .. 0 + 1 : w[i] \in Int
        BY <3>2
      <4>2. SumTo(w, 0 + 1) = SumTo(w, 0) + w[0 + 1] /\ SumTo(w, 0) = 0
        BY <4>1, SumAppends
      <4> QED
        BY <3>2, <4>2
    <3>4. total(p) = w[1]
      BY <1>13, <3>1, <3>3
    <3> DEFINE at == view(TRUE, p)
    <3>5. at.all = TRUE /\ at.p = p /\ at.F = F /\ at.kind = model.kind /\ at.x = v /\ at.e = e
      BY <1>6
    <3>6. Stands(at, C, w[1])
      BY <3>2
    <3> HIDE DEF C, at
    <3>7. Tells(C, F, model.kind, p, w[1]) /\ \A c \in C : Near(c.box, v, e)
      BY <3>5, <3>6 DEF Stands
    <3> QED
      BY <3>4, <3>7
  <2>4. Valued(C) /\ \A c \in C : IsBox(c.box, F) /\ Roomy(c.box) /\ Near(c.box, v, e)
    <3> HIDE DEF C
    <3> QED
      BY <1>10, <2>3 DEF Tells
  <2>5. last.score = Worst(a, C, y[s])
    BY <1>9, <1>13 DEF Settled
  <2> HIDE DEF C
  <2>6. PICK c \in C : c.value = last.score
    BY <2>2, <2>4, <2>5, WorstIsSome
  <2>7. PICK p \in Ball(v, e + 1) : p \in [F -> 0 .. One] /\ Inside(model.kind, p, c.box)
    <3>1. IsBox(c.box, DOMAIN v) /\ Roomy(c.box) /\ Near(c.box, v, e)
      BY <2>4 DEF F
    <3> QED
      BY <1>2, <3>1, BoxHoldsInput DEF F
  <2>8. c.value = total(p)
    BY <2>3, <2>7 DEF Tells
  <2> QED
    BY <1>7, <2>6, <2>7, <2>8 DEF a, v, F, total
<1> QED
  BY <1>11, <1>12, <1>13

(***************************************************************************)
(* A verdict against a sample, when all trees are joined into one: the     *)
(* input in the worst clique is not classified as the sample's label.      *)
(***************************************************************************)
LEMMA VerdictIsExact ==
  ASSUME TypeOK, LabelsFit, norm = Infinity, Grown(model), Comparable(model),
         NEW s \in 1 .. NSamples, NEW e \in Nat, ~IsRobust(arguments, s, e),
         \A target \in Targets(arguments, s) : Len(LastLevel(arguments, s, e, target).nodes) <= 1
  PROVE  ~Robust(s, e + 1)
<1>1. model.nb_classes \in Nat \ {0, 1} /\ y[s] \in 0 .. model.nb_classes - 1
  BY CallNumbers
<1>2. arguments.model = model /\ arguments.y = y
  BY DEF arguments
<1>3. PICK target \in Targets(arguments, s) :
        IF model.nb_classes <= 2 /\ y[s] = 0 THEN ~(BestScore(arguments, s, e, target) < 0)
                                             ELSE ~(BestScore(arguments, s, e, target) > 0)
  BY <1>2 DEF IsRobust
<1> DEFINE total(p) == SumTo(Weights(arguments, s, target, p), NbTrees(model))
<1>4. PICK p \in Ball(x[s], e + 1) : p \in [DOMAIN x[s] -> 0 .. One]
                                     /\ BestScore(arguments, s, e, target) = total(p)
  BY OneCliqueTotal
<1> DEFINE t == total(p)
<1>5. /\ t \in Int
      /\ IF model.nb_classes = 2
         THEN Score(p, 1) = t /\ Score(p, 0) = -t
         ELSE /\ target \in (0 .. model.nb_classes - 1) \ {y[s]}
              /\ Score(p, y[s]) \in Int /\ Score(p, target) \in Int
              /\ t = Score(p, y[s]) - Score(p, target)
  <2>1. \A f \in DOMAIN x[s] : p[f] \in 0 .. One
    BY <1>4
  <2> QED
    BY <2>1, TotalIsLead
<1>6. IF model.nb_classes <= 2 /\ y[s] = 0 THEN ~(t < 0) ELSE ~(t > 0)
  BY <1>3, <1>4
<1> HIDE DEF t
<1>7. \E c \in (0 .. model.nb_classes - 1) \ {y[s]} : ~(Score(p, y[s]) > Score(p, c))
  <2>1. CASE model.nb_classes = 2 /\ y[s] = 0
    <3>1. 1 \in (0 .. model.nb_classes - 1) \ {y[s]} /\ ~(Score(p, y[s]) > Score(p, 1))
      BY <1>5, <1>6, <2>1
    <3> QED
      BY <3>1
  <2>2. CASE model.nb_classes = 2 /\ y[s] # 0
    <3>1. y[s] = 1
      BY <1>1, <2>2
    <3>2. 0 \in (0 .. model.nb_classes - 1) \ {y[s]} /\ ~(Score(p, y[s]) > Score(p, 0))
      BY <1>5, <1>6, <2>2, <3>1
    <3> QED
      BY <3>2
  <2>3. CASE model.nb_classes # 2
    <3>1. ~(model.nb_classes <= 2)
      BY <1>1, <2>3
    <3> QED
      BY <1>5, <1>6, <2>3, <3>1
  <2> QED
    BY <2>1, <2>2, <2>3
<1> QED
  BY <1>4, <1>7 DEF Robust, Predicted

\* The eps found not robust had a verdict against the sample.
FailedVerified == \A e \in failed : ~IsRobust(arguments, i_sample, e)

LEMMA FailedStep == RInv /\ FailedVerified /\ [Next]_vars => FailedVerified'
<1> SUFFICES ASSUME RInv, FailedVerified, [Next]_vars PROVE FailedVerified'
  OBVIOUS
<1>1. UNCHANGED call /\ arguments' = arguments
  <2>1. UNCHANGED call
    BY DEF Next, Raise, SearchStep, SampleEnd, Over, vars
  <2> QED
    BY <2>1 DEF call, arguments
<1>2. CASE SearchStep /\ ~IsRobust(arguments, i_sample, eps)
  <2>1. failed' = failed \cup {eps} /\ i_sample' = i_sample
    BY <1>2 DEF SearchStep, FoundNotRobust
  <2> QED
    BY <1>1, <1>2, <2>1 DEF FailedVerified
<1>3. CASE SearchStep /\ IsRobust(arguments, i_sample, eps)
  <2>1. failed' = failed /\ i_sample' = i_sample
    BY <1>3 DEF SearchStep, FoundRobust
  <2> QED
    BY <1>1, <2>1 DEF FailedVerified
<1>4. CASE SampleEnd
  BY <1>4 DEF SampleEnd, FailedVerified
<1>5. CASE Raise \/ UNCHANGED vars
  <2>1. failed' = failed /\ i_sample' = i_sample
    BY <1>5 DEF Raise, verdicts, vars
  <2> QED
    BY <1>1, <2>1 DEF FailedVerified
<1> QED
  BY <1>2, <1>3, <1>4, <1>5 DEF Next, Over

(***************************************************************************)
(* When the levels join all trees into one clique and the norm is the      *)
(* largest difference, a verdict against a sample is not an artefact of    *)
(* the bound: for the same ensembles, where the thresholds are between 0   *)
(* and 1 and the splits all divide something, some input within eps, or    *)
(* just beyond, is classified differently.                                 *)
(***************************************************************************)
THEOREM OneCliqueIsExactAlways ==
  Spec => [](Grown(model) /\ Comparable(model) => OneCliqueIsExact)
<1>1. Init => FailedVerified
  BY DEF Init, FailedVerified
<1>2. RInv /\ FailedVerified => (Grown(model) /\ Comparable(model) => OneCliqueIsExact)
  <2> SUFFICES ASSUME RInv, FailedVerified, Grown(model), Comparable(model), norm = Infinity,
                      NEW e \in failed,
                      \A target \in Targets(arguments, i_sample) :
                        Len(LastLevel(arguments, i_sample, e, target).nodes) <= 1
               PROVE  ~Robust(i_sample, e + 1)
    BY DEF OneCliqueIsExact
  <2>1. TypeOK /\ LabelsFit /\ i_sample \in 1 .. NSamples /\ e \in Nat
    BY DEF RInv, IInv, TypeOK
  <2>2. ~IsRobust(arguments, i_sample, e)
    BY DEF FailedVerified
  <2> QED
    BY <2>1, <2>2, VerdictIsExact
<1> QED
  BY <1>1, <1>2, RInit, RStep, FailedStep, PTL DEF Spec
=============================================================================
