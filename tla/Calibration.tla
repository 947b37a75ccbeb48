---------------------------- MODULE Calibration ----------------------------
(***************************************************************************)
(* _CalibrationMonitor of src/quant_platform/ml_decision_support.py: a     *)
(* deque of the latest samples (probability, label), shared by every       *)
(* request thread without a lock.  status() walks it twice, once for the   *)
(* probabilities and once for the labels; a walk during which the deque    *)
(* changes raises RuntimeError.  A sample is named by its number.          *)
(***************************************************************************)
EXTENDS Naturals, Sequences

CONSTANTS
  Thread,       \* request threads
  MaxSamples,   \* max_samples of the deque
  MaxOutcomes   \* bound on the samples registered

ASSUME CalibrationAssumption ==
  /\ MaxSamples \in Nat \ {0}
  /\ MaxOutcomes \in Nat

VARIABLES
  pairs,     \* _pairs, oldest sample first
  recorded,  \* samples registered since the process started
  mark,      \* recorded, when the thread began its present walk
  probs,     \* the samples whose probabilities a thread has read
  labels     \* the samples whose labels it has read

monitor == << pairs, recorded, mark, probs, labels >>

MonitorTypeOK ==
  /\ pairs \in Seq(Nat)
  /\ recorded \in 0 .. MaxOutcomes
  /\ mark \in [Thread -> Nat]
  /\ probs \in [Thread -> Seq(Nat)]
  /\ labels \in [Thread -> Seq(Nat)]

MonitorInit ==
  /\ pairs = << >>
  /\ recorded = 0
  /\ mark = [t \in Thread |-> 0]
  /\ probs = [t \in Thread |-> << >>]
  /\ labels = [t \in Thread |-> << >>]
-----------------------------------------------------------------------------
\* A full deque drops its oldest sample.
Latest(samples) == IF Len(samples) > MaxSamples THEN Tail(samples) ELSE samples

\* Variant: appendleft, so that the newest sample comes first.
RegisterLeft ==
  /\ recorded < MaxOutcomes
  /\ recorded' = recorded + 1
  /\ pairs' = << recorded + 1 >> \o (IF Len(pairs) = MaxSamples THEN SubSeq(pairs, 1, MaxSamples - 1)
                                     ELSE pairs)
  /\ UNCHANGED << mark, probs, labels >>

\* update() appends the sample; its status() follows in steps of its own.
Register ==
  /\ recorded < MaxOutcomes
  /\ recorded' = recorded + 1
  /\ pairs' = Latest(Append(pairs, recorded + 1))
  /\ UNCHANGED << mark, probs, labels >>

\* A walk begins: the iterator remembers the state of the deque.
BeginWalk(t) ==
  /\ mark' = [mark EXCEPT ![t] = recorded]
  /\ UNCHANGED << pairs, recorded, probs, labels >>

\* It ends with everything in the deque, if nothing was appended meanwhile.
WalkProbs(t) ==
  /\ mark[t] = recorded
  /\ probs' = [probs EXCEPT ![t] = pairs]
  /\ UNCHANGED << pairs, recorded, mark, labels >>

WalkLabels(t) ==
  /\ mark[t] = recorded
  /\ labels' = [labels EXCEPT ![t] = pairs]
  /\ UNCHANGED << pairs, recorded, mark, probs >>

\* status() returns, or raises: what it has read is gone.
Return(t) ==
  /\ mark' = [mark EXCEPT ![t] = 0]
  /\ probs' = [probs EXCEPT ![t] = << >>]
  /\ labels' = [labels EXCEPT ![t] = << >>]
  /\ UNCHANGED << pairs, recorded >>

\* "deque mutated during iteration".
WalkBreaks(t) ==
  /\ mark[t] # recorded
  /\ Return(t)
\* The samples are kept in memory only.
MonitorRestart ==
  /\ pairs' = << >>
  /\ recorded' = 0
  /\ mark' = [t \in Thread |-> 0]
  /\ probs' = [t \in Thread |-> << >>]
  /\ labels' = [t \in Thread |-> << >>]
-----------------------------------------------------------------------------
Evicted == recorded - Len(pairs)

\* What status() computes from the two walks: every probability has a label,
\* so that no index runs out of range, and it is the label of its own sample
\* unless samples have been evicted, and then of one at most so much later.
CalibrationIsAligned ==
  \A t \in Thread : labels[t] # << >> =>
     /\ Len(probs[t]) <= Len(labels[t])
     /\ \A i \in 1 .. Len(probs[t]) :
           labels[t][i] \in probs[t][i] .. probs[t][i] + Evicted
=============================================================================
