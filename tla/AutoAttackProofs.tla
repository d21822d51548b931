-------------------------- MODULE AutoAttackProofs --------------------------
(***************************************************************************)
(* AutoAttack, for every batch, model, norm and ensemble: first the        *)
(* sequential mode, then the pool, whatever its workers do when.           *)
(***************************************************************************)
EXTENDS AutoAttackProps, AutoAttackParallelProps, WellFoundedInduction, TLAPS

(***************************************************************************)
(* The flag by which a round of the targeted loop is judged is set: the    *)
(* control state, the attack the loop is at and the flags go together.     *)
(***************************************************************************)
FlagIsSet ==
  phase = "target" => a \in Attacks /\ flag[a] = TRUE

(***************************************************************************)
(* The inductive invariant.  BrokenIsAdversarial alone is not inductive:   *)
(* run_attack measures from x_adv, so it takes UnbrokenIsUntouched to      *)
(* relate that to x, BestAgrees to know that robust samples are unbroken,  *)
(* and FlagIsSet to know which of the two tests was applied.               *)
(***************************************************************************)
IInv ==
  /\ TypeOK
  /\ BrokenIsAdversarial
  /\ UnbrokenIsUntouched
  /\ BestAgrees
  /\ FlagIsSet

(***************************************************************************)
(* The i-th other label is a label, and another one.                       *)
(***************************************************************************)
LEMMA TargetLabelIsOther ==
  ASSUME NEW own \in Labels, NEW j \in 1 .. NClasses - 1
  PROVE  TargetLabel(own, j) \in Labels /\ TargetLabel(own, j) # own
BY ClassesAssumption DEF TargetLabel, Labels

(***************************************************************************)
(* One run of an attack, whatever it returns, keeps the invariant's state  *)
(* part: the flag says which labels it was given.                          *)
(***************************************************************************)
RoundOK ==
  /\ x_adv' \in [Samples -> Inputs]
  /\ robust' \in [Samples -> BOOLEAN]
  /\ best' \in [Samples -> {SAMPLE_DEFAULT, SAMPLE_MISCLASSIFIED} \cup Attacks]
  /\ \A s \in Samples :
       /\ best'[s] \in Attacks => /\ Classify[x_adv'[s]] # y[s]
                                  /\ WithinEps(x[s], x_adv'[s])
       /\ best'[s] \notin Attacks => x_adv'[s] = x[s]
       /\ best'[s] = SAMPLE_DEFAULT <=> robust'[s]
       /\ best'[s] = SAMPLE_MISCLASSIFIED <=> best[s] = SAMPLE_MISCLASSIFIED
       /\ ~robust[s] => /\ ~robust'[s] /\ x_adv'[s] = x_adv[s] /\ best'[s] = best[s]

LEMMA AttackedKeeps ==
  ASSUME IInv, a \in Attacks,
         NEW labels, NEW isTargeted \in BOOLEAN, NEW out \in Outputs(robust),
         \A s \in Samples : isTargeted => labels[s] # y[s],
         ~isTargeted => labels = y,
         Attacked(labels, isTargeted, out)
  PROVE  RoundOK
<1>1. /\ x_adv \in [Samples -> Inputs] /\ robust \in [Samples -> BOOLEAN]
      /\ best \in [Samples -> {SAMPLE_DEFAULT, SAMPLE_MISCLASSIFIED} \cup Attacks]
  BY DEF IInv, TypeOK
<1>2. \A s \in Samples : robust[s] => out[s] \in Inputs
  BY DEF Outputs
<1>3. SAMPLE_DEFAULT \notin Attacks /\ SAMPLE_MISCLASSIFIED \notin Attacks
      /\ SAMPLE_DEFAULT # SAMPLE_MISCLASSIFIED
  BY DEF SAMPLE_DEFAULT, SAMPLE_MISCLASSIFIED, Attacks
<1>4. /\ x_adv' = [s \in Samples |->
                     IF robust[s] /\ Broken(x_adv[s], out[s], labels[s], isTargeted)
                     THEN out[s] ELSE x_adv[s]]
      /\ robust' = [s \in Samples |->
                      robust[s] /\ ~Broken(x_adv[s], out[s], labels[s], isTargeted)]
      /\ best' = [s \in Samples |->
                    IF best[s] = SAMPLE_DEFAULT /\ ~robust'[s] THEN a ELSE best[s]]
  BY DEF Attacked, Slots, RunX, RunRobust
<1>5. x_adv' \in [Samples -> Inputs] /\ robust' \in [Samples -> BOOLEAN]
  <2>1. \A s \in Samples : x_adv'[s] \in Inputs
    BY <1>1, <1>2, <1>4
  <2>2. \A s \in Samples : robust'[s] \in BOOLEAN
    BY <1>4
  <2> QED
    BY <1>4, <2>1, <2>2
<1>6. best' \in [Samples -> {SAMPLE_DEFAULT, SAMPLE_MISCLASSIFIED} \cup Attacks]
  BY <1>1, <1>4
<1>7. ASSUME NEW s \in Samples
      PROVE  /\ best'[s] \in Attacks => /\ Classify[x_adv'[s]] # y[s]
                                        /\ WithinEps(x[s], x_adv'[s])
             /\ best'[s] \notin Attacks => x_adv'[s] = x[s]
             /\ best'[s] = SAMPLE_DEFAULT <=> robust'[s]
             /\ best'[s] = SAMPLE_MISCLASSIFIED <=> best[s] = SAMPLE_MISCLASSIFIED
             /\ ~robust[s] => /\ ~robust'[s] /\ x_adv'[s] = x_adv[s]
                              /\ best'[s] = best[s]
  <2>1. CASE ~robust[s]
    <3>1. x_adv'[s] = x_adv[s] /\ ~robust'[s] /\ best[s] # SAMPLE_DEFAULT
      BY <1>4, <2>1 DEF IInv, BestAgrees
    <3>2. best'[s] = best[s]
      BY <1>4, <3>1
    <3> QED
      BY <3>1, <3>2 DEF IInv, BrokenIsAdversarial, UnbrokenIsUntouched
  <2>2. CASE robust[s] /\ ~Broken(x_adv[s], out[s], labels[s], isTargeted)
    <3>1. x_adv'[s] = x_adv[s] /\ robust'[s] /\ best[s] = SAMPLE_DEFAULT
      BY <1>4, <2>2 DEF IInv, BestAgrees
    <3>2. best'[s] = SAMPLE_DEFAULT
      BY <1>4, <3>1
    <3> QED
      BY <1>3, <2>2, <3>1, <3>2 DEF IInv, UnbrokenIsUntouched
  <2>3. CASE robust[s] /\ Broken(x_adv[s], out[s], labels[s], isTargeted)
    <3>1. x_adv'[s] = out[s] /\ ~robust'[s] /\ best[s] = SAMPLE_DEFAULT
      BY <1>4, <2>3 DEF IInv, BestAgrees
    <3>2. best'[s] = a
      BY <1>4, <3>1
    <3>3. x_adv[s] = x[s]
      BY <1>3, <3>1 DEF IInv, UnbrokenIsUntouched
    <3>4. Classify[out[s]] # y[s]
      BY <2>3 DEF Broken, Fooled
    <3>5. WithinEps(x[s], out[s])
      BY <2>3, <3>3 DEF Broken
    <3> QED
      BY <1>3, <2>3, <3>1, <3>2, <3>4, <3>5
  <2> QED
    BY <2>1, <2>2, <2>3
<1> QED
  BY <1>5, <1>6, <1>7 DEF RoundOK

(***************************************************************************)
(* The invariant holds when generate is called.                            *)
(***************************************************************************)
LEMMA InitInv == Init => IInv
<1> SUFFICES ASSUME Init PROVE IInv
  OBVIOUS
<1>1. SAMPLE_DEFAULT \notin Attacks /\ SAMPLE_MISCLASSIFIED \notin Attacks
      /\ SAMPLE_DEFAULT # SAMPLE_MISCLASSIFIED
  BY DEF SAMPLE_DEFAULT, SAMPLE_MISCLASSIFIED, Attacks
<1>2. TypeOK
  BY ClassesAssumption, AttacksAssumption
  DEF Init, FirstCall, TypeOK, InitiallyRobust, InitiallyBest, FlagInit
<1>3. \A s \in Samples : best[s] = IF ClassifyOrig[x[s]] = y[s] THEN SAMPLE_DEFAULT
                                                               ELSE SAMPLE_MISCLASSIFIED
  BY DEF Init, FirstCall, InitiallyRobust, InitiallyBest
<1>4. BrokenIsAdversarial /\ UnbrokenIsUntouched
  BY <1>1, <1>3 DEF Init, FirstCall, BrokenIsAdversarial, UnbrokenIsUntouched
<1>5. BestAgrees
  BY <1>1, <1>3 DEF Init, FirstCall, InitiallyRobust, BestAgrees
<1>6. FlagIsSet
  BY DEF Init, FirstCall, FlagIsSet
<1> QED
  BY <1>2, <1>4, <1>5, <1>6 DEF IInv

(***************************************************************************)
(* Every step keeps it.                                                    *)
(***************************************************************************)
LEMMA NextInv == IInv /\ [Next]_vars => IInv'
<1> SUFFICES ASSUME IInv, [Next]_vars PROVE IInv'
  OBVIOUS
<1> USE ClassesAssumption, AttacksAssumption
<1>0. SAMPLE_DEFAULT \notin Attacks /\ SAMPLE_MISCLASSIFIED \notin Attacks
      /\ SAMPLE_DEFAULT # SAMPLE_MISCLASSIFIED
  BY DEF SAMPLE_DEFAULT, SAMPLE_MISCLASSIFIED, Attacks
<1>1. ASSUME NEW xs \in [Samples -> Inputs], NEW ys \in [Samples -> Labels],
             NEW t \in BOOLEAN, Call(xs, ys, t)
      PROVE  IInv'
  <2>1. TypeOK'
    BY <1>1 DEF IInv, TypeOK, Call, NewCall, InitiallyRobust, InitiallyBest
  <2>2. \A s \in Samples : best'[s] = IF ClassifyOrig[x'[s]] = y'[s] THEN SAMPLE_DEFAULT
                                                                    ELSE SAMPLE_MISCLASSIFIED
    BY <1>1 DEF Call, NewCall, InitiallyRobust, InitiallyBest
  <2>3. BrokenIsAdversarial' /\ UnbrokenIsUntouched'
    BY <1>0, <1>1, <2>2 DEF Call, NewCall, BrokenIsAdversarial, UnbrokenIsUntouched
  <2>4. BestAgrees'
    BY <1>0, <1>1, <2>2 DEF Call, NewCall, InitiallyRobust, BestAgrees
  <2>5. FlagIsSet'
    BY <1>1 DEF Call, NewCall, FlagIsSet
  <2> QED
    BY <2>1, <2>3, <2>4, <2>5 DEF IInv
<1>2. CASE UntargetedAttack
  <2>1. a \in Attacks /\ a' = a + 1 /\ phase' = phase /\ phase = "untargeted"
        /\ UNCHANGED <<call, i, outcome>>
    BY <1>2 DEF UntargetedAttack, IInv, TypeOK, Attacks
  <2>2. flag' \in [Attacks -> BOOLEAN] /\ flag'[a] = FALSE
    BY <1>2, <2>1 DEF UntargetedAttack, FlagCleared, IInv, TypeOK
  <2>3. RoundOK
    <3>1. PICK out \in Outputs(robust) : Attacked(y, flag'[a], out)
      BY <1>2 DEF UntargetedAttack
    <3> QED
      BY <2>1, <2>2, <3>1, AttackedKeeps
  <2>4. TypeOK'
    BY <2>1, <2>2, <2>3 DEF RoundOK, IInv, TypeOK, call, Attacks
  <2>5. BrokenIsAdversarial' /\ UnbrokenIsUntouched' /\ BestAgrees'
    BY <2>1, <2>3
    DEF RoundOK, IInv, BrokenIsAdversarial, UnbrokenIsUntouched, BestAgrees, call
  <2>6. FlagIsSet'
    BY <2>1 DEF FlagIsSet
  <2> QED
    BY <2>4, <2>5, <2>6 DEF IInv
<1>3. CASE UntargetedRaise
  <2>1. flag' \in [Attacks -> BOOLEAN] /\ phase' = "idle" /\ outcome' = "raised"
        /\ UNCHANGED <<call, x_adv, robust, best, a, i>>
    BY <1>3 DEF UntargetedRaise, FlagCleared, IInv, TypeOK
  <2> QED
    BY <2>1 DEF IInv, TypeOK, call, BrokenIsAdversarial, UnbrokenIsUntouched,
                BestAgrees, FlagIsSet
<1>4. CASE UntargetedEnd
  <2>1. /\ phase' \in {"targeted", "idle"} /\ outcome' \in {"returned", outcome}
        /\ a' = 1 /\ i' = 1 /\ UNCHANGED <<call, x_adv, robust, best, flag>>
    BY <1>4 DEF UntargetedEnd
  <2> QED
    BY <2>1 DEF IInv, TypeOK, call, BrokenIsAdversarial, UnbrokenIsUntouched,
                BestAgrees, FlagIsSet, Attacks
<1>5. CASE SetTargeted
  <2>1. a \in Attacks /\ phase = "targeted" /\ i' = 1
        /\ UNCHANGED <<call, x_adv, robust, best, outcome>>
    BY <1>5 DEF SetTargeted, IInv, TypeOK, Attacks
  <2>2. TypeOK'
    <3>1. flag' \in [Attacks -> BOOLEAN] /\ phase' \in {"targeted", "target"}
      BY <1>5, <2>1 DEF SetTargeted, IInv, TypeOK
    <3>2. a' \in 1 .. NAttacks + 1 /\ i' \in 1 .. NClasses
      BY <1>5, <2>1 DEF SetTargeted, IInv, TypeOK, Attacks
    <3> QED
      BY <2>1, <3>1, <3>2 DEF IInv, TypeOK, call
  <2>3. FlagIsSet'
    BY <1>5, <2>1 DEF SetTargeted, IInv, TypeOK, FlagIsSet
  <2>4. BrokenIsAdversarial' /\ UnbrokenIsUntouched' /\ BestAgrees'
    BY <2>1 DEF IInv, call, BrokenIsAdversarial, UnbrokenIsUntouched, BestAgrees
  <2> QED
    BY <2>2, <2>3, <2>4 DEF IInv
<1>6. CASE TargetedAttack
  <2> DEFINE labels == [s \in Samples |-> TargetLabel(y[s], i)]
  <2>1. a \in Attacks /\ flag[a] = TRUE /\ i \in 1 .. NClasses - 1
        /\ i' = i + 1 /\ phase' = phase /\ UNCHANGED <<call, a, flag, outcome>>
    BY <1>6 DEF TargetedAttack, IInv, TypeOK, FlagIsSet
  <2>2. \A s \in Samples : labels[s] # y[s]
    <3>1. \A s \in Samples : y[s] \in Labels
      BY DEF IInv, TypeOK
    <3> QED
      BY <2>1, <3>1, TargetLabelIsOther
  <2>3. PICK out \in Outputs(robust) : Attacked(labels, flag[a], out)
    BY <1>6 DEF TargetedAttack
  <2>4. RoundOK
    <3> HIDE DEF labels
    <3> QED
      BY <2>1, <2>2, <2>3, AttackedKeeps
  <2>5. TypeOK'
    BY <2>1, <2>4 DEF RoundOK, IInv, TypeOK, call, Attacks
  <2>6. BrokenIsAdversarial' /\ UnbrokenIsUntouched' /\ BestAgrees'
    BY <2>1, <2>4
    DEF RoundOK, IInv, BrokenIsAdversarial, UnbrokenIsUntouched, BestAgrees, call
  <2>7. FlagIsSet'
    BY <2>1 DEF IInv, FlagIsSet
  <2> QED
    BY <2>5, <2>6, <2>7 DEF IInv
<1>7. CASE TargetedRaise \/ NextAttack
  <2>1. /\ a \in Attacks /\ a' = a + 1 /\ phase' = "targeted"
        /\ UNCHANGED <<call, x_adv, robust, best, i, flag, outcome>>
    BY <1>7 DEF TargetedRaise, NextAttack, IInv, FlagIsSet
  <2> QED
    BY <2>1 DEF IInv, TypeOK, call, BrokenIsAdversarial, UnbrokenIsUntouched,
                BestAgrees, FlagIsSet, Attacks
<1>8. CASE Return
  BY <1>8 DEF Return, IInv, TypeOK, call, BrokenIsAdversarial, UnbrokenIsUntouched,
              BestAgrees, FlagIsSet
<1>9. CASE UNCHANGED vars
  BY <1>9 DEF vars, IInv, TypeOK, BrokenIsAdversarial, UnbrokenIsUntouched,
              BestAgrees, FlagIsSet
<1> QED
  BY <1>1, <1>2, <1>3, <1>4, <1>5, <1>6, <1>7, <1>8, <1>9 DEF Next, SomeCall, Work

(***************************************************************************)
(* The state keeps its types.                                              *)
(***************************************************************************)
THEOREM TypeCorrect == Spec => []TypeOK
<1>1. IInv => TypeOK
  BY DEF IInv
<1> QED
  BY <1>1, InitInv, NextInv, PTL DEF Spec

(***************************************************************************)
(* What comes back as broken fools the model within eps of the caller's    *)
(* sample.                                                                 *)
(***************************************************************************)
THEOREM BrokenIsAdversarialAlways == Spec => []BrokenIsAdversarial
<1>1. IInv => BrokenIsAdversarial
  BY DEF IInv
<1> QED
  BY <1>1, InitInv, NextInv, PTL DEF Spec

(***************************************************************************)
(* What no attack has broken comes back untouched.                         *)
(***************************************************************************)
THEOREM UnbrokenIsUntouchedAlways == Spec => []UnbrokenIsUntouched
<1>1. IInv => UnbrokenIsUntouched
  BY DEF IInv
<1> QED
  BY <1>1, InitInv, NextInv, PTL DEF Spec

(***************************************************************************)
(* best_attacks and sample_is_robust never disagree.                       *)
(***************************************************************************)
THEOREM BestAgreesAlways == Spec => []BestAgrees
<1>1. IInv => BestAgrees
  BY DEF IInv
<1> QED
  BY <1>1, InitInv, NextInv, PTL DEF Spec

(***************************************************************************)
(* A step of the loops is a round of one attack on the samples left, or    *)
(* leaves the samples as they are; the call's arguments do not change.     *)
(***************************************************************************)
LEMMA WorkStep ==
  ASSUME IInv, Work
  PROVE  UNCHANGED <<x, y>> /\ (RoundOK \/ UNCHANGED <<x_adv, robust, best>>)
<1>1. CASE UntargetedAttack
  <2>1. a \in Attacks /\ flag' = [flag EXCEPT ![a] = FALSE] /\ UNCHANGED call
    BY <1>1, AttacksAssumption DEF UntargetedAttack, FlagCleared, IInv, TypeOK, Attacks
  <2>2. flag'[a] = FALSE
    BY <2>1 DEF IInv, TypeOK
  <2>3. PICK out \in Outputs(robust) : Attacked(y, flag'[a], out)
    BY <1>1 DEF UntargetedAttack
  <2> QED
    BY <2>1, <2>2, <2>3, AttackedKeeps DEF call
<1>2. CASE TargetedAttack
  <2> DEFINE labels == [s \in Samples |-> TargetLabel(y[s], i)]
  <2>1. a \in Attacks /\ flag[a] = TRUE /\ i \in 1 .. NClasses - 1 /\ UNCHANGED call
    BY <1>2, ClassesAssumption DEF TargetedAttack, IInv, TypeOK, FlagIsSet
  <2>2. \A s \in Samples : labels[s] # y[s]
    <3>1. \A s \in Samples : y[s] \in Labels
      BY DEF IInv, TypeOK
    <3> QED
      BY <2>1, <3>1, TargetLabelIsOther
  <2>3. PICK out \in Outputs(robust) : Attacked(labels, flag[a], out)
    BY <1>2 DEF TargetedAttack
  <2>4. RoundOK
    <3> HIDE DEF labels
    <3> QED
      BY <2>1, <2>2, <2>3, AttackedKeeps
  <2> QED
    BY <2>1, <2>4 DEF call
<1>3. CASE UntargetedRaise \/ UntargetedEnd \/ SetTargeted \/ TargetedRaise
           \/ NextAttack \/ Return
  BY <1>3 DEF UntargetedRaise, UntargetedEnd, SetTargeted, TargetedRaise,
              NextAttack, Return, call
<1> QED
  BY <1>1, <1>2, <1>3 DEF Work

(***************************************************************************)
(* Within a call nothing settled is revised.                               *)
(***************************************************************************)
THEOREM SettledStaysAlways == Spec => SettledStays
<1>1. IInv /\ [Next]_vars => [SettledStep]_vars
  <2> SUFFICES ASSUME IInv, Next, phase # "idle", NEW s \in Samples, ~robust[s]
               PROVE  ~robust'[s] /\ x_adv'[s] = x_adv[s] /\ best'[s] = best[s]
    BY DEF SettledStep
  <2>1. Work
    BY DEF Next, SomeCall, Call, NewCall
  <2> QED
    BY <2>1, WorkStep DEF RoundOK
<1> QED
  BY <1>1, InitInv, NextInv, PTL DEF Spec, SettledStays

(***************************************************************************)
(* The sequential AutoAttack implements the attack ensemble: a call starts *)
(* a batch, a round breaks the samples it breaks, and every other step is  *)
(* a stutter.                                                              *)
(***************************************************************************)
THEOREM ImplementsEnsembleAlways == Spec => ImplementsEnsemble
<1> DEFINE verdict == [s \in Samples |-> [by |-> best[s], adv |-> x_adv[s]]]
<1>1. Init => Ensemble!Init
  BY DEF Init, FirstCall, Ensemble!Init, InitiallyBest, InitiallyRobust, Ensemble!Intact,
         Ensemble!Misread, Labels, Ensemble!Labels, SAMPLE_DEFAULT,
         SAMPLE_MISCLASSIFIED, Ensemble!SAMPLE_DEFAULT, Ensemble!SAMPLE_MISCLASSIFIED
<1>2. IInv /\ [Next]_vars => [Ensemble!Next]_<<x, y, verdict>>
  <2> SUFFICES ASSUME IInv, [Next]_vars
               PROVE  Ensemble!Next \/ UNCHANGED <<x, y, verdict>>
    OBVIOUS
  <2>0. IInv'
    BY NextInv
  <2>1. CASE SomeCall
    <3>1. PICK xs \in [Samples -> Inputs], ys \in [Samples -> Labels], t \in BOOLEAN :
            Call(xs, ys, t)
      BY <2>1 DEF SomeCall
    <3>2. x' \in [Samples -> Inputs] /\ y' \in [Samples -> Labels]
      BY <3>1 DEF Call, NewCall
    <3>3. verdict' \in [Samples -> [by : Int, adv : Inputs]]
      <4>1. /\ best' \in [Samples -> {SAMPLE_DEFAULT, SAMPLE_MISCLASSIFIED} \cup Attacks]
            /\ x_adv' \in [Samples -> Inputs]
        BY <2>0 DEF IInv, TypeOK
      <4>2. {SAMPLE_DEFAULT, SAMPLE_MISCLASSIFIED} \cup Attacks \subseteq Int
        BY AttacksAssumption DEF SAMPLE_DEFAULT, SAMPLE_MISCLASSIFIED, Attacks
      <4> QED
        BY <4>1, <4>2
    <3>4. Ensemble!Fresh'
      BY <3>1 DEF Call, NewCall, Ensemble!Fresh, Ensemble!Intact, Ensemble!Misread,
                  InitiallyBest, InitiallyRobust, SAMPLE_DEFAULT,
                  SAMPLE_MISCLASSIFIED, Ensemble!SAMPLE_DEFAULT,
                  Ensemble!SAMPLE_MISCLASSIFIED
    <3> QED
      BY <3>2, <3>3, <3>4 DEF Ensemble!Next, Ensemble!Start, Labels, Ensemble!Labels
  <2>2. CASE Work /\ RoundOK
    <3>1. UNCHANGED <<x, y>>
      BY <2>2, WorkStep
    <3>2. ASSUME NEW s \in Samples
          PROVE  \/ verdict'[s] = verdict[s]
                 \/ verdict[s] = Ensemble!Intact(s) /\ verdict'[s] \in Ensemble!Breakages(s)
      <4>1. CASE ~robust[s]
        BY <2>2, <4>1 DEF RoundOK
      <4>2. CASE robust[s] /\ robust'[s]
        <5>1. best[s] = SAMPLE_DEFAULT /\ best'[s] = SAMPLE_DEFAULT
          BY <2>2, <4>2 DEF RoundOK, IInv, BestAgrees
        <5>2. SAMPLE_DEFAULT \notin Attacks
          BY DEF SAMPLE_DEFAULT, Attacks
        <5>3. x_adv[s] = x[s] /\ x_adv'[s] = x[s]
          BY <2>2, <5>1, <5>2 DEF RoundOK, IInv, UnbrokenIsUntouched
        <5> QED
          BY <5>1, <5>3
      <4>3. CASE robust[s] /\ ~robust'[s]
        <5>1. best[s] = SAMPLE_DEFAULT /\ best[s] # SAMPLE_MISCLASSIFIED
          BY <4>3 DEF IInv, BestAgrees, SAMPLE_DEFAULT, SAMPLE_MISCLASSIFIED
        <5>2. best'[s] \in Attacks /\ x_adv'[s] \in Inputs
          BY <2>2, <4>3, <5>1 DEF RoundOK
        <5>3. x_adv[s] = x[s]
          BY <5>1 DEF IInv, UnbrokenIsUntouched, SAMPLE_DEFAULT, Attacks
        <5>4. Classify[x_adv'[s]] # y[s] /\ WithinEps(x[s], x_adv'[s])
          BY <2>2, <5>2 DEF RoundOK
        <5>5. verdict[s] = Ensemble!Intact(s)
          BY <5>1, <5>3 DEF Ensemble!Intact, SAMPLE_DEFAULT, Ensemble!SAMPLE_DEFAULT
        <5>6. verdict'[s] \in Ensemble!Breakages(s)
          <6>1. verdict'[s] = [by |-> best'[s], adv |-> x_adv'[s]]
            OBVIOUS
          <6>2. Ensemble!WithinEps(x[s], x_adv'[s])
            BY <5>4 DEF WithinEps, Ensemble!WithinEps
          <6>3. x_adv'[s] \in {q \in Inputs : Classify[q] # y[s]
                                              /\ Ensemble!WithinEps(x[s], q)}
            BY <5>2, <5>4, <6>2
          <6>4. best'[s] \in Ensemble!Attacks
            BY <5>2 DEF Attacks, Ensemble!Attacks
          <6> QED
            BY <6>1, <6>3, <6>4 DEF Ensemble!Breakages
        <5> QED
          BY <5>5, <5>6
      <4> QED
        BY <4>1, <4>2, <4>3 DEF IInv, TypeOK
    <3> QED
      BY <3>1, <3>2 DEF Ensemble!Next, Ensemble!Break
  <2>3. CASE Work /\ UNCHANGED <<x_adv, robust, best>>
    BY <2>3, WorkStep
  <2>4. CASE UNCHANGED vars
    BY <2>4 DEF vars
  <2> QED
    BY <2>1, <2>2, <2>3, <2>4, WorkStep DEF Next
<1> QED
  BY <1>1, <1>2, InitInv, NextInv, PTL DEF Spec, ImplementsEnsemble, Ensemble!Spec

-----------------------------------------------------------------------------
(***************************************************************************)
(* What run_attack may have returned for a run of the pool: it touches the *)
(* samples it broke and no other, and what it broke is genuine.            *)
(***************************************************************************)
Genuine(r) ==
  /\ r.x \in [Samples -> Inputs] /\ r.robust \in [Samples -> BOOLEAN]
  /\ \A s \in Samples :
       /\ ~robust[s] => ~r.robust[s]
       /\ ~robust[s] \/ r.robust[s] => r.x[s] = x[s]
       /\ robust[s] /\ ~r.robust[s] => Classify[r.x[s]] # y[s] /\ WithinEps(x[s], r.x[s])

(***************************************************************************)
(* The runs judge by the labels they were given: another label than the    *)
(* sample's own for every sample if targeted, the sample's own if not.     *)
(***************************************************************************)
RunsWellLabelled ==
  \A k \in DOMAIN args :
    IF args[k].targeted THEN \A s \in Samples : args[k].labels[s] # y[s]
                        ELSE args[k].labels = y

ResultsGenuine ==
  phase \in {"pool", "idle"} =>
    /\ DOMAIN results = DOMAIN args
    /\ \A k \in DOMAIN results : results[k] \in {Pending, Failed} \/ Genuine(results[k])

(***************************************************************************)
(* A result stands at the index of the arguments it was computed from: the *)
(* samples it broke answer to their labels and their flag.                 *)
(***************************************************************************)
Answers(r, run) ==
  \A s \in Samples :
    robust[s] /\ ~r.robust[s] => Fooled(r.x[s], run.labels[s], run.targeted)

ResultsAnswer ==
  phase \in {"pool", "idle"} =>
    \A k \in DOMAIN results :
      results[k] \in {Pending, Failed} \/ Answers(results[k], args[k])

(***************************************************************************)
(* What generate hands over was chosen among the results of all runs.      *)
(***************************************************************************)
ChosenByArgmin ==
  /\ phase # "idle" => x_adv = x
  /\ Returned => /\ args # <<>>
                 /\ \A k \in DOMAIN results :
                      Genuine(results[k]) /\ Answers(results[k], args[k])
                 /\ best = [s \in Samples |-> Argmin(s)]
                 /\ x_adv = [s \in Samples |-> results[best[s]].x[s]]

(***************************************************************************)
(* The inductive invariant of the parallel mode.  What is claimed is about *)
(* the returned state alone; it follows from what every single result was  *)
(* when its worker put it down, and that from the labels and the flag that *)
(* went into the arguments of the run.                                     *)
(***************************************************************************)
PoolInv ==
  /\ ParallelTypeOK
  /\ RunsWellLabelled
  /\ ResultsGenuine
  /\ ResultsAnswer
  /\ ChosenByArgmin

Runs == [attack : Attacks, targeted : BOOLEAN, labels : [Samples -> Labels]]

(***************************************************************************)
(* What run_attack returns on the caller's batch is genuine.               *)
(***************************************************************************)
LEMMA RunIsGenuine ==
  ASSUME x \in [Samples -> Inputs], robust \in [Samples -> BOOLEAN],
         NEW labels, NEW isTargeted \in BOOLEAN, NEW out \in Outputs(robust),
         NEW st,
         IF isTargeted THEN \A s \in Samples : labels[s] # y[s] ELSE labels = y
  PROVE  Genuine([status |-> st,
                  x |-> RunX(x, labels, robust, isTargeted, out),
                  robust |-> RunRobust(x, labels, robust, isTargeted, out)])
<1> DEFINE rx == RunX(x, labels, robust, isTargeted, out)
           rr == RunRobust(x, labels, robust, isTargeted, out)
<1>1. \A s \in Samples :
        /\ rx[s] = IF robust[s] /\ Broken(x[s], out[s], labels[s], isTargeted)
                   THEN out[s] ELSE x[s]
        /\ rr[s] <=> robust[s] /\ ~Broken(x[s], out[s], labels[s], isTargeted)
  BY DEF RunX, RunRobust
<1>2. rx \in [Samples -> Inputs]
  <2>1. \A s \in Samples : robust[s] => out[s] \in Inputs
    BY DEF Outputs
  <2> QED
    BY <2>1 DEF RunX
<1>3. rr \in [Samples -> BOOLEAN]
  BY DEF RunRobust
<1> DEFINE result == [status |-> st, x |-> rx, robust |-> rr]
<1>4. result.x = rx /\ result.robust = rr
  OBVIOUS
<1> HIDE DEF rx, rr
<1>5. ASSUME NEW s \in Samples
      PROVE  /\ ~robust[s] => ~rr[s]
             /\ ~robust[s] \/ rr[s] => rx[s] = x[s]
             /\ robust[s] /\ ~rr[s] => Classify[rx[s]] # y[s] /\ WithinEps(x[s], rx[s])
  <2>1. CASE ~robust[s] \/ ~Broken(x[s], out[s], labels[s], isTargeted)
    BY <1>1, <2>1
  <2>2. CASE robust[s] /\ Broken(x[s], out[s], labels[s], isTargeted)
    <3>1. Classify[out[s]] # y[s] /\ WithinEps(x[s], out[s])
      BY <2>2 DEF Broken, Fooled
    <3>2. rx[s] = out[s] /\ ~rr[s]
      BY <1>1, <2>2
    <3> QED
      BY <2>2, <3>1, <3>2
  <2> QED
    BY <2>1, <2>2
<1>6. Genuine(result)
  <2> HIDE DEF result
  <2> QED
    BY <1>2, <1>3, <1>4, <1>5 DEF Genuine
<1> QED
  BY <1>6 DEF rx, rr

(***************************************************************************)
(* And what it broke fools the model by the labels and the flag it had.    *)
(***************************************************************************)
LEMMA RunAnswers ==
  ASSUME robust \in [Samples -> BOOLEAN], NEW run, NEW out, NEW st
  PROVE  Answers([status |-> st,
                  x |-> RunX(x, run.labels, robust, run.targeted, out),
                  robust |-> RunRobust(x, run.labels, robust, run.targeted, out)], run)
<1> DEFINE rx == RunX(x, run.labels, robust, run.targeted, out)
           rr == RunRobust(x, run.labels, robust, run.targeted, out)
<1>1. ASSUME NEW s \in Samples, robust[s], ~rr[s]
      PROVE  Fooled(rx[s], run.labels[s], run.targeted)
  <2>1. Broken(x[s], out[s], run.labels[s], run.targeted)
    BY <1>1 DEF RunRobust
  <2>2. rx[s] = out[s]
    BY <1>1, <2>1 DEF RunX
  <2> QED
    BY <2>1, <2>2 DEF Broken
<1> DEFINE result == [status |-> st, x |-> rx, robust |-> rr]
<1>2. result.x = rx /\ result.robust = rr
  OBVIOUS
<1> HIDE DEF rx, rr
<1>3. Answers(result, run)
  <2> HIDE DEF result
  <2> QED
    BY <1>1, <1>2 DEF Answers
<1> QED
  BY <1>3 DEF rx, rr

(***************************************************************************)
(* The argmin of a sample that some run broke is one of these runs, and    *)
(* no other perturbs the sample less: the least perturbation exists, and   *)
(* so does the first of the runs that attain it.                           *)
(***************************************************************************)
LEMMA LeastNat ==
  ASSUME NEW S, S \subseteq Nat, S # {}
  PROVE  \E c \in S : \A d \in S : c <= d
<1>1. PICK c \in S : \A d \in S : <<d, c>> \notin OpToRel(<, Nat)
  BY NatLessThanWellFounded, WFMin
<1>2. ASSUME NEW d \in S PROVE c <= d
  <2>1. c \in Nat /\ d \in Nat /\ <<d, c>> \notin OpToRel(<, Nat)
    BY <1>1
  <2> QED
    BY <2>1 DEF OpToRel
<1> QED
  BY <1>2

LEMMA ArgminIsLeast ==
  ASSUME NEW s \in Samples, x \in [Samples -> Inputs],
         args \in Seq(Runs), args # <<>>, DOMAIN results = DOMAIN args,
         \A k \in DOMAIN results : Genuine(results[k])
  PROVE  /\ Argmin(s) \in DOMAIN results
         /\ Breakers(s) # {} =>
              /\ Argmin(s) \in Breakers(s)
              /\ \A j \in Breakers(s) : Perturbation(s, Argmin(s)) <= Perturbation(s, j)
<1>1. DOMAIN results = 1 .. Len(args) /\ Len(args) \in Nat /\ Len(args) >= 1
  OBVIOUS
<1>2. CASE Breakers(s) = {}
  BY <1>1, <1>2 DEF Argmin
<1>3. CASE Breakers(s) # {}
  <2>1. Breakers(s) \subseteq DOMAIN results /\ Breakers(s) \subseteq Nat
    BY <1>1 DEF Breakers
  <2>2. \A k \in Breakers(s) : Perturbation(s, k) \in Nat
    BY <2>1, Norm2Assumption DEF Perturbation, Genuine
  <2> DEFINE sizes == {Perturbation(s, k) : k \in Breakers(s)}
  <2>3. PICK least \in sizes : \A d \in sizes : least <= d
    <3>1. sizes \subseteq Nat /\ sizes # {}
      BY <1>3, <2>2
    <3> HIDE DEF sizes
    <3> QED
      BY <3>1, LeastNat
  <2> DEFINE firsts == {k \in Breakers(s) : Perturbation(s, k) = least}
  <2>4. PICK c \in firsts : \A d \in firsts : c <= d
    <3>1. firsts \subseteq Nat /\ firsts # {}
      BY <2>1, <2>3
    <3> HIDE DEF firsts
    <3> QED
      BY <3>1, LeastNat
  <2>5. ASSUME NEW j \in Breakers(s)
        PROVE  \/ Perturbation(s, c) < Perturbation(s, j)
               \/ Perturbation(s, c) = Perturbation(s, j) /\ c <= j
    <3>1. Perturbation(s, c) = least /\ least <= Perturbation(s, j)
      BY <2>3, <2>4
    <3>2. CASE Perturbation(s, j) = least
      BY <2>4, <3>1, <3>2
    <3>3. CASE Perturbation(s, j) # least
      BY <2>2, <2>4, <3>1, <3>3
    <3> QED
      BY <3>2, <3>3
  <2>6. c \in Breakers(s)
    BY <2>4
  <2>7. /\ Argmin(s) \in Breakers(s)
        /\ \A j \in Breakers(s) :
             \/ Perturbation(s, Argmin(s)) < Perturbation(s, j)
             \/ Perturbation(s, Argmin(s)) = Perturbation(s, j) /\ Argmin(s) <= j
    BY <1>3, <2>5, <2>6 DEF Argmin
  <2> QED
    BY <2>1, <2>2, <2>7
<1> QED
  BY <1>2, <1>3

(***************************************************************************)
(* The invariant holds when generate is called.                            *)
(***************************************************************************)
LEMMA PoolInit == ParallelInit => PoolInv
<1> SUFFICES ASSUME ParallelInit PROVE PoolInv
  OBVIOUS
<1>1. args = <<>> /\ args \in Seq(Runs) /\ Len(args) = 0
  BY DEF ParallelInit
<1>2. ParallelTypeOK
  BY <1>1, AttacksAssumption
  DEF ParallelInit, FirstCall, ParallelTypeOK, InitiallyRobust, Runs
<1> QED
  BY <1>1, <1>2 DEF ParallelInit, FirstCall, PoolInv, RunsWellLabelled,
                    ResultsGenuine, ResultsAnswer, ChosenByArgmin, Returned

(***************************************************************************)
(* The untargeted run of an attack is judged untargeted, because its copy  *)
(* of the attack was made after the flag was cleared; the targeted runs    *)
(* are given other labels than the samples' own.                           *)
(***************************************************************************)
LEMMA UntargetedRunLabelled ==
  ASSUME ParallelTypeOK, a \in Attacks
  PROVE  UntargetedRun \in Runs /\ UntargetedRun.targeted = FALSE
         /\ UntargetedRun.labels = y
<1>1. FlagCleared[a] = FALSE
  BY DEF FlagCleared, ParallelTypeOK, FlagInit
<1> QED
  BY <1>1 DEF UntargetedRun, Runs, ParallelTypeOK

LEMMA TargetedRunsLabelled ==
  ASSUME ParallelTypeOK, a \in Attacks
  PROVE  /\ TargetedRuns \in Seq(Runs)
         /\ \A j \in 1 .. Len(TargetedRuns) :
              /\ TargetedRuns[j].targeted = TRUE
              /\ \A s \in Samples : TargetedRuns[j].labels[s] # y[s]
<1>1. ASSUME NEW j \in 1 .. NClasses - 1, NEW s \in Samples
      PROVE  TargetLabel(y[s], j) \in Labels /\ TargetLabel(y[s], j) # y[s]
  BY TargetLabelIsOther DEF ParallelTypeOK
<1>2. \A j \in 1 .. NClasses - 1 :
        [attack |-> a, targeted |-> TRUE,
         labels |-> [s \in Samples |-> TargetLabel(y[s], j)]] \in Runs
  BY <1>1 DEF Runs
<1>3. NClasses - 1 \in Nat
  BY ClassesAssumption
<1>4. TargetedRuns \in [1 .. NClasses - 1 -> Runs]
  BY <1>2 DEF TargetedRuns
<1>5. TargetedRuns \in Seq(Runs)
  BY <1>3, <1>4
<1>6. 1 .. Len(TargetedRuns) = 1 .. NClasses - 1
  <2>1. DOMAIN TargetedRuns = 1 .. NClasses - 1
    BY DEF TargetedRuns
  <2>2. DOMAIN TargetedRuns = 1 .. Len(TargetedRuns)
    BY <1>5
  <2> QED
    BY <2>1, <2>2
<1>7. \A j \in 1 .. NClasses - 1 :
        /\ TargetedRuns[j].targeted = TRUE
        /\ TargetedRuns[j].labels = [s \in Samples |-> TargetLabel(y[s], j)]
  BY DEF TargetedRuns
<1>8. ASSUME NEW j \in 1 .. Len(TargetedRuns)
      PROVE  /\ TargetedRuns[j].targeted = TRUE
             /\ \A s \in Samples : TargetedRuns[j].labels[s] # y[s]
  <2>1. j \in 1 .. NClasses - 1
    BY <1>6
  <2> QED
    BY <1>1, <1>7, <2>1
<1> QED
  BY <1>5, <1>8

(***************************************************************************)
(* Every step keeps the invariant.                                         *)
(***************************************************************************)
LEMMA PoolNext == PoolInv /\ [ParallelNext]_parallelVars => PoolInv'
<1> SUFFICES ASSUME PoolInv, [ParallelNext]_parallelVars PROVE PoolInv'
  OBVIOUS
<1> USE AttacksAssumption
<1>0. /\ ParallelTypeOK /\ args \in Seq(Runs) /\ Len(args) \in Nat
      /\ DOMAIN args = 1 .. Len(args)
  BY DEF PoolInv, ParallelTypeOK, Runs
<1>1. CASE SomeParallelCall
  <2>1. PICK xs \in [Samples -> Inputs], ys \in [Samples -> Labels], t \in BOOLEAN :
          ParallelCall(xs, ys, t)
    BY <1>1 DEF SomeParallelCall
  <2>2. args' = <<>> /\ args' \in Seq(Runs) /\ Len(args') = 0
    BY <2>1 DEF ParallelCall
  <2>3. ParallelTypeOK'
    BY <1>0, <2>1, <2>2 DEF ParallelTypeOK, ParallelCall, NewCall, InitiallyRobust, Runs
  <2> QED
    BY <2>1, <2>2, <2>3 DEF ParallelCall, NewCall, PoolInv, RunsWellLabelled,
                            ResultsGenuine, ResultsAnswer, ChosenByArgmin, Returned
<1>2. CASE AddUntargeted
  <2>1. a \in Attacks
    BY <1>0, <1>2 DEF AddUntargeted, ParallelTypeOK, Attacks
  <2>2. /\ UntargetedRun \in Runs /\ UntargetedRun.targeted = FALSE
        /\ UntargetedRun.labels = y
    BY <1>0, <2>1, UntargetedRunLabelled
  <2>3. /\ args' \in Seq(Runs) /\ Len(args') = Len(args) + 1
        /\ DOMAIN args' = 1 .. Len(args) + 1
        /\ \A k \in DOMAIN args' : args'[k] = IF k \in DOMAIN args THEN args[k]
                                              ELSE UntargetedRun
    <3>1. args' = Append(args, UntargetedRun)
      BY <1>2 DEF AddUntargeted
    <3> QED
      BY <1>0, <2>2, <3>1
  <2>4. flag' \in FlagInit
    BY <1>0, <1>2 DEF AddUntargeted, FlagCleared, ParallelTypeOK, FlagInit
  <2>5. ParallelTypeOK'
    BY <1>0, <1>2, <2>1, <2>3, <2>4
    DEF AddUntargeted, ParallelTypeOK, fixed, pool, Attacks, Runs
  <2>6. RunsWellLabelled'
    BY <1>2, <2>2, <2>3 DEF AddUntargeted, PoolInv, RunsWellLabelled, fixed
  <2>7. ResultsGenuine' /\ ResultsAnswer' /\ ChosenByArgmin'
    BY <1>2 DEF AddUntargeted, PoolInv, ResultsGenuine, ResultsAnswer, ChosenByArgmin,
                Returned, fixed
  <2> QED
    BY <2>5, <2>6, <2>7 DEF PoolInv
<1>3. ASSUME UNCHANGED <<fixed, pool, flag, args, x_adv, best, outcome>>,
             a' \in 1 .. NAttacks + 1, phase \in {"untargeted", "targeted"},
             phase' = "targeted" \/ StartPool
      PROVE  PoolInv'
  <2>1. ParallelTypeOK'
    BY <1>0, <1>3 DEF ParallelTypeOK, StartPool, fixed, pool
  <2>2. RunsWellLabelled'
    BY <1>3 DEF PoolInv, RunsWellLabelled, fixed
  <2>3. ResultsGenuine' /\ ResultsAnswer'
    BY <1>3 DEF ResultsGenuine, ResultsAnswer, StartPool, fixed
  <2>4. ChosenByArgmin'
    BY <1>3 DEF PoolInv, ChosenByArgmin, Returned, StartPool, fixed
  <2> QED
    BY <2>1, <2>2, <2>3, <2>4 DEF PoolInv
<1>4. CASE EndUntargeted
  <2>1. phase' = "targeted" \/ StartPool
    BY <1>4 DEF EndUntargeted
  <2> QED
    BY <1>3, <1>4, <2>1 DEF EndUntargeted
<1>5. CASE AddTargeted
  <2>1. a \in Attacks
    BY <1>0, <1>5 DEF AddTargeted, ParallelTypeOK, Attacks
  <2>2. CASE args' = args
    <3>1. flag' \in FlagInit
      BY <1>0, <1>5, <2>1 DEF AddTargeted, ParallelTypeOK, FlagInit
    <3>2. /\ a' = a + 1 /\ UNCHANGED <<phase, fixed, pool, results, x_adv, best, outcome>>
      BY <1>5 DEF AddTargeted
    <3>3. ParallelTypeOK'
      BY <1>0, <2>1, <2>2, <3>1, <3>2 DEF ParallelTypeOK, fixed, pool, Attacks
    <3> QED
      BY <1>5, <2>2, <3>3 DEF AddTargeted, PoolInv, RunsWellLabelled, ResultsGenuine,
                              ResultsAnswer, ChosenByArgmin, Returned, fixed
  <2>3. CASE args' = args \o TargetedRuns /\ a \in Targetable
    <3>1. /\ TargetedRuns \in Seq(Runs) /\ Len(TargetedRuns) \in Nat
          /\ \A j \in 1 .. Len(TargetedRuns) :
               /\ TargetedRuns[j].targeted = TRUE
               /\ \A s \in Samples : TargetedRuns[j].labels[s] # y[s]
      <4>1. TargetedRuns \in Seq(Runs)
        BY <1>0, <2>1, TargetedRunsLabelled
      <4>2. Len(TargetedRuns) \in Nat
        BY <4>1
      <4> QED
        BY <1>0, <2>1, <4>1, <4>2, TargetedRunsLabelled
    <3>2. /\ args' \in Seq(Runs) /\ Len(args') = Len(args) + Len(TargetedRuns)
          /\ DOMAIN args' = 1 .. Len(args) + Len(TargetedRuns)
          /\ \A k \in DOMAIN args' : args'[k] = IF k \in DOMAIN args THEN args[k]
                                                ELSE TargetedRuns[k - Len(args)]
      BY <1>0, <2>3, <3>1
    <3>3. flag' \in FlagInit
      BY <1>0, <1>5, <2>1 DEF AddTargeted, ParallelTypeOK, FlagInit
    <3>4. ParallelTypeOK'
      BY <1>0, <1>5, <2>1, <3>1, <3>2, <3>3
      DEF AddTargeted, ParallelTypeOK, fixed, pool, Attacks, Runs
    <3>5. ASSUME NEW k \in DOMAIN args'
          PROVE  IF args'[k].targeted THEN \A s \in Samples : args'[k].labels[s] # y[s]
                                      ELSE args'[k].labels = y
      <4>1. CASE k \in DOMAIN args
        BY <3>2, <4>1 DEF PoolInv, RunsWellLabelled
      <4>2. CASE k \notin DOMAIN args
        <5>1. k - Len(args) \in 1 .. Len(TargetedRuns) /\ args'[k] = TargetedRuns[k - Len(args)]
          BY <1>0, <3>1, <3>2, <4>2
        <5> QED
          BY <3>1, <5>1
      <4> QED
        BY <4>1, <4>2
    <3>6. RunsWellLabelled'
      BY <1>5, <3>5 DEF AddTargeted, RunsWellLabelled, fixed
    <3>7. ResultsGenuine' /\ ResultsAnswer' /\ ChosenByArgmin'
      BY <1>5 DEF AddTargeted, PoolInv, ResultsGenuine, ResultsAnswer, ChosenByArgmin,
                  Returned, fixed
    <3> QED
      BY <3>4, <3>6, <3>7 DEF PoolInv
  <2> QED
    BY <1>5, <2>2, <2>3 DEF AddTargeted
<1>6. CASE EndTargeted
  BY <1>0, <1>3, <1>6 DEF EndTargeted, ParallelTypeOK
<1>7. ASSUME NEW w \in Workers, Take(w)
      PROVE  PoolInv'
  <2>1. ParallelTypeOK'
    BY <1>0, <1>7 DEF Take, ParallelTypeOK, fixed
  <2> QED
    BY <1>7, <2>1 DEF Take, PoolInv, RunsWellLabelled, ResultsGenuine, ResultsAnswer,
                      ChosenByArgmin, Returned, Genuine, Answers, fixed
<1>8. ASSUME NEW w \in Workers, Finish(w) \/ Fail(w)
      PROVE  PoolInv'
  <2>1. /\ phase = "pool" /\ busy[w] \in DOMAIN args
        /\ busy' = [busy EXCEPT ![w] = 0]
        /\ UNCHANGED <<phase, fixed, a, flag, args, next, x_adv, best, outcome>>
    BY <1>0, <1>8 DEF Finish, Fail, ParallelTypeOK
  <2>2. ParallelTypeOK'
    BY <1>0, <2>1 DEF ParallelTypeOK, fixed
  <2>3. PICK r : /\ results' = [results EXCEPT ![busy[w]] = r]
                 /\ r = Failed \/ (Genuine(r) /\ Answers(r, args[busy[w]]))
    <3>1. CASE Fail(w)
      BY <3>1 DEF Fail, Slot
    <3>2. CASE Finish(w)
      <4> DEFINE run == args[busy[w]]
      <4>1. run \in Runs
        BY <1>0, <2>1
      <4>2. IF run.targeted THEN \A s \in Samples : run.labels[s] # y[s]
                            ELSE run.labels = y
        BY <2>1 DEF PoolInv, RunsWellLabelled
      <4>3. PICK out \in Outputs(robust) :
              results' = [results EXCEPT ![busy[w]] =
                [status |-> "done",
                 x |-> RunX(x, run.labels, robust, run.targeted, out),
                 robust |-> RunRobust(x, run.labels, robust, run.targeted, out)]]
        BY <3>2 DEF Finish, Slot
      <4>4. Genuine([status |-> "done",
                     x |-> RunX(x, run.labels, robust, run.targeted, out),
                     robust |-> RunRobust(x, run.labels, robust, run.targeted, out)])
        <5>1. run.targeted \in BOOLEAN
          BY <4>1 DEF Runs
        <5> HIDE DEF run
        <5> QED
          BY <1>0, <4>2, <5>1, RunIsGenuine DEF ParallelTypeOK
      <4>5. Answers([status |-> "done",
                     x |-> RunX(x, run.labels, robust, run.targeted, out),
                     robust |-> RunRobust(x, run.labels, robust, run.targeted, out)], run)
        <5> HIDE DEF run
        <5> QED
          BY <1>0, RunAnswers DEF ParallelTypeOK
      <4> QED
        BY <4>3, <4>4, <4>5
    <3> QED
      BY <1>8, <3>1, <3>2
  <2>4. ResultsGenuine'
    <3>1. /\ DOMAIN results = DOMAIN args
          /\ \A k \in DOMAIN results :
               results[k] \in {Pending, Failed} \/ Genuine(results[k])
      BY <2>1 DEF PoolInv, ResultsGenuine
    <3>2. DOMAIN results' = DOMAIN args'
      BY <2>1, <2>3, <3>1
    <3>3. ASSUME NEW k \in DOMAIN results'
          PROVE  results'[k] \in {Pending, Failed} \/ Genuine(results'[k])
      <4>1. CASE k = busy[w]
        BY <2>3, <3>3, <4>1
      <4>2. CASE k # busy[w]
        BY <2>3, <3>1, <3>3, <4>2
      <4> QED
        BY <4>1, <4>2
    <3>4. \A d \in {results'[k] : k \in DOMAIN results'} : Genuine(d) => Genuine(d)'
      BY <2>1 DEF Genuine, fixed
    <3> QED
      BY <2>1, <3>2, <3>3 DEF ResultsGenuine, Genuine, fixed
  <2>5. ResultsAnswer'
    <3>1. /\ DOMAIN results' = DOMAIN results /\ args' = args
          /\ \A k \in DOMAIN results :
               results[k] \in {Pending, Failed} \/ Answers(results[k], args[k])
      BY <2>1, <2>3 DEF PoolInv, ResultsAnswer, fixed
    <3>2. ASSUME NEW k \in DOMAIN results'
          PROVE  results'[k] \in {Pending, Failed} \/ Answers(results'[k], args[k])
      <4>1. CASE k = busy[w]
        BY <2>3, <3>2, <4>1
      <4>2. CASE k # busy[w]
        BY <2>3, <3>1, <3>2, <4>2
      <4> QED
        BY <4>1, <4>2
    <3> QED
      BY <2>1, <3>1, <3>2 DEF ResultsAnswer, Answers, fixed
  <2> QED
    BY <2>1, <2>2, <2>4, <2>5
    DEF PoolInv, RunsWellLabelled, ChosenByArgmin, Returned, fixed
<1>9. CASE Collect
  <2>1. ParallelTypeOK'
    <3>1. \A s \in Samples : results[Argmin(s)].x[s] \in Inputs
      <4>1. \A k \in DOMAIN results : Genuine(results[k])
        BY <1>9 DEF Collect, AllOver, PoolInv, ResultsGenuine
      <4>2. DOMAIN results = DOMAIN args
        BY <1>9 DEF Collect, PoolInv, ResultsGenuine
      <4>3. \A s \in Samples : Argmin(s) \in DOMAIN results
        BY <1>0, <1>9, <4>1, <4>2, ArgminIsLeast DEF Collect, ParallelTypeOK
      <4> QED
        BY <4>1, <4>3 DEF Genuine
    <3>2. x_adv' \in [Samples -> Inputs]
      BY <1>9, <3>1 DEF Collect
    <3> QED
      BY <1>0, <1>9, <3>2 DEF Collect, ParallelTypeOK, fixed, pool
  <2>2. \A k \in DOMAIN results : Genuine(results[k]) /\ Answers(results[k], args[k])
    BY <1>9 DEF Collect, AllOver, PoolInv, ResultsGenuine, ResultsAnswer
  <2>3. ChosenByArgmin'
    <3>1. UNCHANGED <<x, y, robust, results, args>> /\ phase' = "idle" /\ args # <<>>
      BY <1>9 DEF Collect, fixed
    <3>2. \A s \in Samples : Argmin(s)' = Argmin(s)
      BY <3>1 DEF Argmin, Breakers, Perturbation
    <3>3. best' = [s \in Samples |-> Argmin(s)']
      BY <1>9, <3>2 DEF Collect
    <3>4. x_adv' = [s \in Samples |-> results'[best'[s]].x[s]]
      BY <1>9, <3>1 DEF Collect
    <3>5. \A k \in DOMAIN results' : Genuine(results[k])' /\ Answers(results[k], args[k])'
      BY <2>2, <3>1 DEF Genuine, Answers
    <3> QED
      BY <3>1, <3>3, <3>4, <3>5 DEF ChosenByArgmin
  <2> QED
    BY <1>9, <2>1, <2>3 DEF Collect, PoolInv, RunsWellLabelled, ResultsGenuine,
                            ResultsAnswer, Genuine, Answers, fixed
<1>10. CASE CollectRaise
  <2>1. ParallelTypeOK'
    BY <1>0, <1>10 DEF CollectRaise, ParallelTypeOK, fixed, pool
  <2> QED
    BY <1>10, <2>1 DEF CollectRaise, PoolInv, RunsWellLabelled, ResultsGenuine,
                       ResultsAnswer, ChosenByArgmin, Returned, Genuine, Answers, fixed
<1>11. CASE UNCHANGED parallelVars
  <2>1. ParallelTypeOK'
    BY <1>0, <1>11 DEF parallelVars, ParallelTypeOK
  <2> QED
    BY <1>11, <2>1 DEF parallelVars, PoolInv, RunsWellLabelled, ResultsGenuine,
                       ResultsAnswer, ChosenByArgmin, Returned, Genuine, Answers, Argmin,
                       Breakers, Perturbation
<1> QED
  BY <1>1, <1>2, <1>4, <1>5, <1>6, <1>7, <1>8, <1>9, <1>10, <1>11
  DEF ParallelNext, Main, Step

(***************************************************************************)
(* The state of the parallel mode keeps its types.                         *)
(***************************************************************************)
THEOREM ParallelTypeCorrect == ParallelSpec => []ParallelTypeOK
<1>1. PoolInv => ParallelTypeOK
  BY DEF PoolInv
<1> QED
  BY <1>1, PoolInit, PoolNext, PTL DEF ParallelSpec

(***************************************************************************)
(* Whatever the schedule, a sample some run broke comes back as the least  *)
(* perturbed of the points that break it, and answers to the arguments of  *)
(* the run that best_attacks names.                                        *)
(***************************************************************************)
THEOREM TakesLeastBrokenAlways == ParallelSpec => []TakesLeastBroken
<1>1. PoolInv => TakesLeastBroken
  <2> SUFFICES ASSUME PoolInv, Returned, NEW s \in Samples,
                      robust[s], Breakers(s) # {}
               PROVE  /\ Classify[x_adv[s]] # y[s] /\ WithinEps(x[s], x_adv[s])
                      /\ \A k \in Breakers(s) : Norm2[x[s]][x_adv[s]] <= Perturbation(s, k)
                      /\ Fooled(x_adv[s], args[best[s]].labels[s], args[best[s]].targeted)
    BY DEF TakesLeastBroken
  <2>1. /\ args \in Seq(Runs) /\ x \in [Samples -> Inputs] /\ args # <<>>
        /\ DOMAIN results = DOMAIN args
        /\ \A k \in DOMAIN results : Genuine(results[k])
    BY DEF PoolInv, ParallelTypeOK, Runs, Returned, ChosenByArgmin, ResultsGenuine
  <2>2. /\ Argmin(s) \in Breakers(s)
        /\ \A j \in Breakers(s) : Perturbation(s, Argmin(s)) <= Perturbation(s, j)
    BY <2>1, ArgminIsLeast
  <2>3. x_adv[s] = results[Argmin(s)].x[s] /\ best[s] = Argmin(s)
    BY DEF PoolInv, ChosenByArgmin
  <2>4. Genuine(results[Argmin(s)]) /\ ~results[Argmin(s)].robust[s]
    BY <2>1, <2>2 DEF Breakers
  <2>5. Answers(results[Argmin(s)], args[Argmin(s)])
    BY <2>2 DEF PoolInv, ChosenByArgmin, Breakers
  <2>6. Fooled(x_adv[s], args[best[s]].labels[s], args[best[s]].targeted)
    BY <2>3, <2>4, <2>5 DEF Answers
  <2> QED
    BY <2>2, <2>3, <2>4, <2>6 DEF Genuine, Perturbation
<1> QED
  BY <1>1, PoolInit, PoolNext, PTL DEF ParallelSpec

(***************************************************************************)
(* A sample no run broke comes back as it came.                            *)
(***************************************************************************)
THEOREM OthersUntouchedAlways == ParallelSpec => []OthersUntouched
<1>1. PoolInv => OthersUntouched
  <2> SUFFICES ASSUME PoolInv, Returned, NEW s \in Samples,
                      ~robust[s] \/ Breakers(s) = {}
               PROVE  x_adv[s] = x[s]
    BY DEF OthersUntouched
  <2>1. /\ args \in Seq(Runs) /\ x \in [Samples -> Inputs] /\ args # <<>>
        /\ DOMAIN results = DOMAIN args
        /\ \A k \in DOMAIN results : Genuine(results[k])
    BY DEF PoolInv, ParallelTypeOK, Runs, Returned, ChosenByArgmin, ResultsGenuine
  <2>2. Argmin(s) \in DOMAIN results
    BY <2>1, ArgminIsLeast
  <2>3. x_adv[s] = results[Argmin(s)].x[s]
    BY DEF PoolInv, ChosenByArgmin
  <2>4. Genuine(results[Argmin(s)])
    BY <2>1, <2>2
  <2>5. ~robust[s] \/ results[Argmin(s)].robust[s]
    BY <2>2 DEF Breakers
  <2> QED
    BY <2>3, <2>4, <2>5 DEF Genuine
<1> QED
  BY <1>1, PoolInit, PoolNext, PTL DEF ParallelSpec

(***************************************************************************)
(* The parallel AutoAttack implements the attack ensemble: a call starts a *)
(* batch, collecting the results breaks the samples that some run broke,   *)
(* and the loops, the workers and an exception are stutters.               *)
(***************************************************************************)
THEOREM ParallelImplementsEnsembleAlways == ParallelSpec => ParallelImplementsEnsemble
<1> DEFINE verdict == [s \in Samples |-> Verdict(s)]
<1>1. ParallelInit => ParallelEnsemble!Init
  <2> SUFFICES ASSUME ParallelInit PROVE ParallelEnsemble!Init
    OBVIOUS
  <2>1. verdict = [s \in Samples |->
                     IF ClassifyOrig[x[s]] = y[s]
                     THEN [by |-> SAMPLE_DEFAULT, adv |-> x[s]]
                     ELSE [by |-> SAMPLE_MISCLASSIFIED, adv |-> x[s]]]
    BY DEF ParallelInit, FirstCall, Returned, InitiallyRobust, Verdict
  <2> QED
    BY <2>1 DEF ParallelInit, FirstCall, ParallelEnsemble!Init, ParallelEnsemble!Intact,
         ParallelEnsemble!Misread, Labels, ParallelEnsemble!Labels, SAMPLE_DEFAULT,
         SAMPLE_MISCLASSIFIED, ParallelEnsemble!SAMPLE_DEFAULT,
         ParallelEnsemble!SAMPLE_MISCLASSIFIED
<1>2. PoolInv /\ [ParallelNext]_parallelVars => [ParallelEnsemble!Next]_<<x, y, verdict>>
  <2> SUFFICES ASSUME PoolInv, [ParallelNext]_parallelVars
               PROVE  ParallelEnsemble!Next \/ UNCHANGED <<x, y, verdict>>
    OBVIOUS
  <2>1. CASE SomeParallelCall
    <3>1. PICK xs \in [Samples -> Inputs], ys \in [Samples -> Labels], t \in BOOLEAN :
            ParallelCall(xs, ys, t)
      BY <2>1 DEF SomeParallelCall
    <3>2. /\ x' = xs /\ y' = ys /\ phase' = "untargeted"
          /\ robust' = [s \in Samples |-> ClassifyOrig[xs[s]] = ys[s]]
      BY <3>1 DEF ParallelCall, NewCall, InitiallyRobust
    <3>3. verdict' = [s \in Samples |->
                        IF ClassifyOrig[xs[s]] = ys[s]
                        THEN [by |-> SAMPLE_DEFAULT, adv |-> xs[s]]
                        ELSE [by |-> SAMPLE_MISCLASSIFIED, adv |-> xs[s]]]
      BY <3>2 DEF Verdict, Returned
    <3>4. verdict' \in [Samples -> [by : Int, adv : Inputs]]
      BY <3>1, <3>3 DEF SAMPLE_DEFAULT, SAMPLE_MISCLASSIFIED
    <3>5. ParallelEnsemble!Fresh'
      BY <3>2, <3>3 DEF ParallelEnsemble!Fresh, ParallelEnsemble!Intact,
         ParallelEnsemble!Misread, SAMPLE_DEFAULT, SAMPLE_MISCLASSIFIED,
         ParallelEnsemble!SAMPLE_DEFAULT, ParallelEnsemble!SAMPLE_MISCLASSIFIED
    <3> QED
      BY <3>1, <3>2, <3>4, <3>5
      DEF ParallelEnsemble!Next, ParallelEnsemble!Start, Labels, ParallelEnsemble!Labels
  <2>2. CASE Collect
    <3>1. /\ args \in Seq(Runs) /\ x \in [Samples -> Inputs] /\ args # <<>>
          /\ DOMAIN results = DOMAIN args
          /\ \A k \in DOMAIN results : Genuine(results[k])
      BY <2>2 DEF PoolInv, ParallelTypeOK, Runs, Collect, AllOver, ResultsGenuine
    <3>2. /\ UNCHANGED <<x, y, robust, results, args>> /\ Returned' /\ ~Returned
          /\ best' = [s \in Samples |-> Argmin(s)]
          /\ x_adv' = [s \in Samples |-> results[best'[s]].x[s]]
      BY <2>2 DEF Collect, Returned, fixed
    <3>3. ASSUME NEW s \in Samples
          PROVE  \/ verdict'[s] = verdict[s]
                 \/ /\ verdict[s] = ParallelEnsemble!Intact(s)
                    /\ verdict'[s] \in ParallelEnsemble!Breakages(s)
      <4>1. verdict[s] = IF robust[s] THEN [by |-> SAMPLE_DEFAULT, adv |-> x[s]]
                                      ELSE [by |-> SAMPLE_MISCLASSIFIED, adv |-> x[s]]
        BY <3>2 DEF Verdict
      <4>2. Breakers(s)' = Breakers(s)
        BY <3>2 DEF Breakers
      <4>3. CASE ~robust[s] \/ Breakers(s) = {}
        BY <3>2, <4>1, <4>2, <4>3 DEF Verdict
      <4>4. CASE robust[s] /\ Breakers(s) # {}
        <5>1. Argmin(s) \in DOMAIN args /\ Argmin(s) \in Breakers(s)
          BY <3>1, <4>4, ArgminIsLeast
        <5>2. x_adv'[s] = results[Argmin(s)].x[s] /\ best'[s] = Argmin(s)
          BY <3>2
        <5>3. verdict'[s] = [by |-> args[Argmin(s)].attack, adv |-> x_adv'[s]]
          BY <3>2, <4>2, <4>4, <5>2 DEF Verdict
        <5>4. args[Argmin(s)].attack \in ParallelEnsemble!Attacks
          <6>1. args[Argmin(s)] \in Runs
            BY <3>1, <5>1
          <6> QED
            BY <6>1 DEF Runs, Attacks, ParallelEnsemble!Attacks
        <5>5. /\ x_adv'[s] \in Inputs
              /\ Classify[x_adv'[s]] # y[s] /\ ParallelEnsemble!WithinEps(x[s], x_adv'[s])
          <6>1. Genuine(results[Argmin(s)]) /\ ~results[Argmin(s)].robust[s]
            BY <3>1, <5>1 DEF Breakers
          <6> QED
            BY <4>4, <5>2, <6>1 DEF Genuine, WithinEps, ParallelEnsemble!WithinEps
        <5>6. verdict'[s] \in ParallelEnsemble!Breakages(s)
          BY <5>3, <5>4, <5>5 DEF ParallelEnsemble!Breakages
        <5> QED
          BY <4>1, <4>4, <5>6 DEF ParallelEnsemble!Intact, SAMPLE_DEFAULT,
                                  ParallelEnsemble!SAMPLE_DEFAULT
      <4> QED
        BY <4>3, <4>4
    <3> QED
      BY <3>2, <3>3 DEF ParallelEnsemble!Next, ParallelEnsemble!Break
  <2>3. CASE \/ AddUntargeted \/ EndUntargeted \/ AddTargeted \/ EndTargeted
             \/ CollectRaise \/ \E w \in Workers : Step(w)
    <3>1. UNCHANGED <<x, y, robust>> /\ ~Returned /\ ~Returned'
      BY <2>3 DEF AddUntargeted, EndUntargeted, AddTargeted, EndTargeted, StartPool,
                  CollectRaise, Step, Take, Finish, Fail, fixed, Returned
    <3>2. verdict' = verdict
      BY <3>1 DEF Verdict
    <3> QED
      BY <3>1, <3>2
  <2>4. CASE UNCHANGED parallelVars
    BY <2>4 DEF parallelVars, Verdict, Returned, Breakers
  <2> QED
    BY <2>1, <2>2, <2>3, <2>4 DEF ParallelNext, Main
<1> QED
  BY <1>1, <1>2, PoolInit, PoolNext, PTL
  DEF ParallelSpec, ParallelImplementsEnsemble, ParallelEnsemble!Spec
=============================================================================
