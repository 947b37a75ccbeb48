----------------------- MODULE PlatformServiceProofs ------------------------
(***************************************************************************)
(* Proofs about the request threads of the service, for any number of      *)
(* threads, operators, predictions and samples.                            *)
(***************************************************************************)
EXTENDS PlatformService, TLAPS

(* Types *)

LEMMA InitTypes == Init => TypeOK
<1> SUFFICES ASSUME Init PROVE TypeOK
  OBVIOUS
<1>1. MonitorTypeOK
  BY CalibrationAssumption DEF Init, MonitorInit, MonitorTypeOK
<1>2. /\ lastKnownGood \in BOOLEAN /\ forgotten \in BOOLEAN /\ astray \in BOOLEAN
      /\ hadGood \in [Thread -> BOOLEAN] /\ flag \in [Thread -> BOOLEAN]
  BY DEF Init, Fresh
<1>3. approvers \in [Thread -> Seq(Approver \cup {Blank})]
  BY DEF Init, Fresh
<1>4. pc \in [Thread -> PC] /\ call \in [Thread -> Action \cup MlCall \cup {"predict"}]
  BY DEF Init, Fresh, PC
<1>5. result \in [Thread -> Outcome] /\ logged \in [Thread -> Outcome]
  BY DEF Init, Fresh, Outcome
<1>6. level \in Level /\ lastChange \in Level /\ told \in [Thread -> Level]
  BY DEF Init, Fresh, Level
<1>7. window \in [Thread -> SUBSET (Level \cup {"forgotten"})]
  BY DEF Init, Fresh
<1> QED
  BY <1>1, <1>2, <1>3, <1>4, <1>5, <1>6, <1>7 DEF TypeOK

LEMMA ListTypes == \A action : ApproverLists(action) \subseteq Seq(Approver \cup {Blank})
<1> SUFFICES ASSUME NEW action, NEW list \in ApproverLists(action)
             PROVE  list \in Seq(Approver \cup {Blank})
  OBVIOUS
<1>1. \/ list = << >>
      \/ \E a \in Approver : list = << a >>
      \/ \E a \in Approver, b \in Approver \cup {Blank} : list = << a, b >>
  BY DEF ApproverLists
<1>2. ASSUME NEW S, NEW a \in S, NEW b \in S PROVE << a >> \in Seq(S) /\ << a, b >> \in Seq(S)
  OBVIOUS
<1>3. CASE list = << >>
  BY <1>3
<1>4. CASE \E a \in Approver : list = << a >>
  <2>1. PICK a \in Approver \cup {Blank} : list = << a >>
    BY <1>4
  <2> QED BY <1>2, <2>1
<1>5. CASE \E a \in Approver, b \in Approver \cup {Blank} : list = << a, b >>
  <2>1. PICK a \in Approver \cup {Blank}, b \in Approver \cup {Blank} : list = << a, b >>
    BY <1>5
  <2> QED BY <1>2, <2>1
<1> QED BY <1>1, <1>3, <1>4, <1>5

LEMMA LevelTypes == \A action : LevelAfter(action) \in Level
  BY DEF LevelAfter, Level

LEMMA MonitorTypes ==
  ASSUME MonitorTypeOK,
         NEW t \in Thread,
         Register \/ BeginWalk(t) \/ WalkProbs(t) \/ WalkLabels(t) \/ WalkBreaks(t) \/ Return(t)
  PROVE  MonitorTypeOK'
<1>1. CASE Register
  <2>1. Append(pairs, recorded + 1) \in Seq(Nat)
    BY CalibrationAssumption DEF MonitorTypeOK
  <2>2. Latest(Append(pairs, recorded + 1)) \in Seq(Nat)
    BY <2>1, CalibrationAssumption DEF Latest
  <2> QED BY <1>1, <2>2, CalibrationAssumption DEF Register, MonitorTypeOK
<1>2. CASE BeginWalk(t)
  BY <1>2, CalibrationAssumption DEF BeginWalk, MonitorTypeOK
<1>3. CASE WalkProbs(t) \/ WalkLabels(t)
  BY <1>3 DEF WalkProbs, WalkLabels, MonitorTypeOK
<1>4. CASE Return(t) \/ WalkBreaks(t)
  <2>1. << >> \in Seq(Nat) /\ 0 \in Nat
    OBVIOUS
  <2> QED BY <1>4, <2>1 DEF Return, WalkBreaks, MonitorTypeOK
<1> QED BY <1>1, <1>2, <1>3, <1>4

LEMMA NextTypes == TypeOK /\ [Next]_vars => TypeOK'
<1> SUFFICES ASSUME TypeOK, [Next]_vars PROVE TypeOK'
  OBVIOUS
<1> USE DEF PC, Outcome, Goto, Conclude, shared, locals, aside, history, monitor
<1>0. CASE UNCHANGED vars
  BY <1>0 DEF vars, TypeOK, MonitorTypeOK
<1>1. ASSUME NEW t \in Thread, BeginPredict(t) PROVE TypeOK'
  <2>1. MonitorTypeOK'
    BY <1>1 DEF TypeOK, MonitorTypeOK, BeginPredict
  <2>2. hadGood' \in [Thread -> BOOLEAN]
    BY <1>1 DEF TypeOK, BeginPredict
  <2>3. pc' \in [Thread -> PC] /\ result' \in [Thread -> Outcome]
    BY <1>1 DEF TypeOK, BeginPredict
  <2>4. window' \in [Thread -> SUBSET (Level \cup {"forgotten"})]
    <3> DEFINE seen == {IF forgotten THEN "forgotten" ELSE level}
    <3>1. seen \in SUBSET (Level \cup {"forgotten"})
      BY DEF TypeOK
    <3>2. window' = window \/ window' = [window EXCEPT ![t] = seen]
      BY <1>1 DEF BeginPredict
    <3> HIDE DEF seen
    <3> QED BY <3>1, <3>2 DEF TypeOK
  <2>5. /\ call' \in [Thread -> Action \cup MlCall \cup {"predict"}]
        /\ UNCHANGED << shared, approvers, flag, told, logged >>
    BY <1>1 DEF TypeOK, BeginPredict
  <2> QED BY <2>1, <2>2, <2>3, <2>4, <2>5 DEF TypeOK
<1>2. ASSUME NEW t \in Thread, NEW action \in Action, NEW list \in ApproverLists(action),
             BeginKill(t, action, list)
      PROVE  TypeOK'
  <2>1. MonitorTypeOK'
    BY <1>2 DEF TypeOK, MonitorTypeOK, BeginKill
  <2>2. approvers' \in [Thread -> Seq(Approver \cup {Blank})]
    <3>1. list \in Seq(Approver \cup {Blank})
      BY <1>2, ListTypes
    <3>2. approvers' = approvers \/ approvers' = [approvers EXCEPT ![t] = list]
      BY <1>2 DEF BeginKill
    <3> QED BY <3>1, <3>2 DEF TypeOK
  <2>3. /\ pc' \in [Thread -> PC] /\ result' \in [Thread -> Outcome]
        /\ call' \in [Thread -> Action \cup MlCall \cup {"predict"}]
    BY <1>2 DEF TypeOK, BeginKill
  <2> QED BY <1>2, <2>1, <2>2, <2>3 DEF TypeOK, BeginKill
<1>3. ASSUME NEW t \in Thread, NEW what \in MlCall, BeginMl(t, what) PROVE TypeOK'
  <2>1. MonitorTypeOK'
    BY <1>3 DEF TypeOK, MonitorTypeOK, BeginMl
  <2> QED BY <1>3, <2>1 DEF TypeOK, BeginMl
\* A step of a request that changes none of the attributes.
<1>p. ASSUME NEW t \in Thread, NEW to \in PC, pc' = [pc EXCEPT ![t] = to],
             result' \in [Thread -> Outcome], flag' \in [Thread -> BOOLEAN],
             told' \in [Thread -> Level],
             UNCHANGED << shared, call, approvers, logged, aside >>
      PROVE  TypeOK'
  <2>1. MonitorTypeOK'
    BY <1>p DEF TypeOK, MonitorTypeOK
  <2>2. pc' \in [Thread -> PC]
    BY <1>p DEF TypeOK
  <2> QED BY <1>p, <2>1, <2>2 DEF TypeOK
<1>4. ASSUME NEW t \in Thread,
             \/ Block(t) \/ Pass(t) \/ LookUp(t) \/ ReplayNothing(t)
             \/ ComputeRaises(t) \/ SwitchRefused(t)
      PROVE  TypeOK'
  <2>1. /\ \E to \in PC : pc' = [pc EXCEPT ![t] = to]
        /\ result' \in [Thread -> Outcome]
        /\ UNCHANGED << shared, call, approvers, flag, told, logged, aside >>
    BY <1>4 DEF TypeOK, Block, Pass, LookUp, ReplayNothing, ComputeRaises, SwitchRefused
  <2> QED BY <2>1, <1>p DEF TypeOK
<1>5. ASSUME NEW t \in Thread, Replay(t) \/ Compute(t) PROVE TypeOK'
  <2>1. /\ \E to \in PC : pc' = [pc EXCEPT ![t] = to]
        /\ result' \in [Thread -> Outcome]
        /\ UNCHANGED << shared, call, approvers, told, logged, aside >>
    BY <1>5 DEF TypeOK, Replay, Compute
  <2>2. flag' \in [Thread -> BOOLEAN]
    <3>1. \E b \in BOOLEAN : flag' = [flag EXCEPT ![t] = b]
      BY <1>5 DEF Replay, Compute
    <3> QED BY <3>1 DEF TypeOK
  <2> QED BY <2>1, <2>2, <1>p DEF TypeOK
<1>7. ASSUME NEW t \in Thread, ReadBack(t) PROVE TypeOK'
  <2>1. /\ \E to \in PC : pc' = [pc EXCEPT ![t] = to]
        /\ result' \in [Thread -> Outcome] /\ told' \in [Thread -> Level]
        /\ UNCHANGED << shared, call, approvers, flag, logged, aside >>
    BY <1>7 DEF TypeOK, ReadBack
  <2> QED BY <2>1, <1>p DEF TypeOK
<1>15. ASSUME NEW t \in Thread, Remember(t) PROVE TypeOK'
  <2>1. MonitorTypeOK'
    BY <1>15 DEF TypeOK, MonitorTypeOK, Remember
  <2>2. lastKnownGood' \in BOOLEAN /\ forgotten' \in BOOLEAN /\ astray' \in BOOLEAN
    BY <1>15 DEF TypeOK, Remember
  <2>3. pc' \in [Thread -> PC] /\ result' \in [Thread -> Outcome]
    BY <1>15 DEF TypeOK, Remember
  <2> QED BY <1>15, <2>1, <2>2, <2>3 DEF TypeOK, Remember
<1>6. ASSUME NEW t \in Thread, Switch(t) PROVE TypeOK'
  <2>1. MonitorTypeOK'
    BY <1>6 DEF TypeOK, MonitorTypeOK, Switch
  <2>2. level' \in Level
    BY <1>6, LevelTypes DEF Switch, SetLevel
  <2>3. window' \in [Thread -> SUBSET (Level \cup {"forgotten"})]
    BY <1>6, <2>2 DEF TypeOK, Switch, SetLevel
  <2>4. forgotten' \in BOOLEAN /\ astray' \in BOOLEAN /\ lastKnownGood' \in BOOLEAN
    BY <1>6 DEF TypeOK, Switch, SetLevel
  <2>5. pc' \in [Thread -> PC] /\ UNCHANGED << lastChange, locals, hadGood >>
    BY <1>6 DEF TypeOK, Switch
  <2> QED BY <2>1, <2>2, <2>3, <2>4, <2>5 DEF TypeOK
<1>8. ASSUME NEW t \in Thread, RegisterOutcome(t) \/ BeginProbs(t) \/ EndProbs(t)
                             \/ BeginLabels(t) \/ EndLabels(t)
      PROVE  TypeOK'
  <2>1. MonitorTypeOK'
    BY <1>8, MonitorTypes
    DEF TypeOK, RegisterOutcome, BeginProbs, EndProbs, BeginLabels, EndLabels
  <2>2. pc' \in [Thread -> PC]
    <3>1. \E to \in {"status", "probs", "between", "labels", "known"} : pc' = [pc EXCEPT ![t] = to]
      BY <1>8 DEF RegisterOutcome, BeginProbs, EndProbs, BeginLabels, EndLabels
    <3>2. pc \in [Thread -> PC]
      BY DEF TypeOK
    <3> QED BY <3>1, <3>2 DEF PC
  <2>3. UNCHANGED << shared, locals, history >>
    BY <1>8 DEF RegisterOutcome, BeginProbs, EndProbs, BeginLabels, EndLabels
  <2> QED BY <2>1, <2>2, <2>3 DEF TypeOK
<1>9. ASSUME NEW t \in Thread, StatusEmpty(t) \/ ReturnStatus(t) PROVE TypeOK'
  <2>1. MonitorTypeOK'
    BY <1>9, MonitorTypes DEF TypeOK, MonitorTypeOK, StatusEmpty, ReturnStatus
  <2>2. pc' \in [Thread -> PC] /\ result' \in [Thread -> Outcome]
    BY <1>9 DEF TypeOK, StatusEmpty, ReturnStatus, StatusKnown
  <2>3. UNCHANGED << shared, call, approvers, flag, told, logged, history >>
    BY <1>9 DEF StatusEmpty, ReturnStatus
  <2> QED BY <2>1, <2>2, <2>3 DEF TypeOK
<1>10. ASSUME NEW t \in Thread, StatusRaises(t) PROVE TypeOK'
  <2>1. MonitorTypeOK'
    BY <1>10, MonitorTypes DEF TypeOK, StatusRaises
  <2> QED BY <1>10, <2>1 DEF TypeOK, StatusRaises
<1>11. ASSUME NEW t \in Thread, AuditEvent(t) \/ AuditRaises(t) PROVE TypeOK'
  <2>1. MonitorTypeOK'
    BY <1>11 DEF TypeOK, MonitorTypeOK, AuditEvent, AuditRaises
  <2>2. astray' \in BOOLEAN
    <3>1. astray' = astray \/ astray' = (astray \/ call[t] \in Action)
      BY <1>11 DEF AuditEvent, AuditRaises
    <3>2. astray \in BOOLEAN
      BY DEF TypeOK
    <3> QED BY <3>1, <3>2
  <2>3. lastChange' \in Level /\ logged' \in [Thread -> Outcome]
    <3>1. \/ lastChange' = lastChange /\ logged' = logged
          \/ Store(t)
      BY <1>11 DEF AuditEvent, AuditRaises
    <3>2. /\ lastChange \in Level /\ logged \in [Thread -> Outcome]
          /\ told[t] \in Level /\ result[t] \in Outcome
      BY DEF TypeOK
    <3> QED BY <3>1, <3>2 DEF Store
  <2>4. pc' \in [Thread -> PC] /\ result' \in [Thread -> Outcome]
    BY <1>11 DEF TypeOK, AuditEvent, AuditRaises
  <2>5. UNCHANGED << level, lastKnownGood, forgotten, call, approvers, flag, told, history >>
    BY <1>11 DEF AuditEvent, AuditRaises
  <2> QED BY <2>1, <2>2, <2>3, <2>4, <2>5 DEF TypeOK
<1>12. ASSUME NEW set \in SUBSET Thread, TypeOK, Reset(set)
       PROVE  /\ pc' \in [Thread -> PC]
              /\ call' \in [Thread -> Action \cup MlCall \cup {"predict"}]
              /\ approvers' \in [Thread -> Seq(Approver \cup {Blank})]
              /\ flag' \in [Thread -> BOOLEAN]
              /\ result' \in [Thread -> Outcome]
              /\ told' \in [Thread -> Level]
              /\ logged' \in [Thread -> Outcome]
              /\ window' \in [Thread -> SUBSET (Level \cup {"forgotten"})]
              /\ hadGood' \in [Thread -> BOOLEAN]
  <2>1. << >> \in Seq(Approver \cup {Blank}) /\ FALSE \in BOOLEAN /\ "off" \in Level
        /\ {} \in SUBSET (Level \cup {"forgotten"})
    BY DEF Level
  <2>2. hadGood' \in [Thread -> BOOLEAN] /\ flag' \in [Thread -> BOOLEAN]
    BY <1>12, <2>1 DEF Reset, Fresh, TypeOK
  <2>3. approvers' \in [Thread -> Seq(Approver \cup {Blank})]
    BY <1>12, <2>1 DEF Reset, Fresh, TypeOK
  <2> QED BY <1>12, <2>1, <2>2, <2>3 DEF Reset, Fresh, TypeOK
<1>13. ASSUME NEW t \in Thread, Answer(t) PROVE TypeOK'
  <2>1. Reset({t}) /\ {t} \in SUBSET Thread /\ UNCHANGED << shared, monitor >>
    BY <1>13 DEF Answer
  <2>2. MonitorTypeOK'
    BY <2>1 DEF TypeOK, MonitorTypeOK
  <2> QED BY <1>12, <2>1, <2>2 DEF TypeOK
<1>14. CASE Restart
  <2>1. Reset(Thread) /\ Thread \in SUBSET Thread
    BY <1>14 DEF Restart
  <2>2. MonitorTypeOK'
    BY <1>14, CalibrationAssumption DEF Restart, MonitorRestart, MonitorTypeOK
  <2>3. astray' \in BOOLEAN /\ lastKnownGood' \in BOOLEAN /\ forgotten' \in BOOLEAN
    BY <1>14 DEF Restart
  <2>4. level' \in Level /\ lastChange' \in Level
    BY <1>14 DEF Restart, TypeOK, Level
  <2> QED BY <1>12, <2>1, <2>2, <2>3, <2>4 DEF TypeOK
<1> QED
  BY <1>0, <1>1, <1>2, <1>3, <1>4, <1>5, <1>6, <1>7, <1>8, <1>9, <1>10, <1>11, <1>13, <1>14, <1>15
  DEF Next, ServiceStep

\* Every variable of the service keeps its type.
THEOREM TypeCorrect == Spec => []TypeOK
  BY InitTypes, NextTypes, PTL DEF Spec
-----------------------------------------------------------------------------
(* The decision of a prediction *)

\* A prediction may be computed afresh.
MayCompute(t) == SawOff(t) \/ NothingToReplay(t)

\* What the answer says of the kill switch was the case while the call ran.
FlagHolds(t) == IF flag[t] THEN window[t] \cap {"soft", "hard"} # {} ELSE SawOff(t)

Predicting == {"compute", "remember"}

InStatus == {"status", "probs", "between", "labels", "known"}

\* What is in effect is in the window of a prediction under way, and what was
\* remembered when it began still is.
Watching(t) ==
  /\ IF forgotten THEN "forgotten" \in window[t] ELSE level \in window[t]
  /\ hadGood[t] => lastKnownGood

\* The strengthening: a prediction under way is watching, the control points of
\* predict are reached only by predict, and each with the reason to be there.
Decided(t) ==
  /\ forgotten => level = "off"
  /\ window[t] # {} => Watching(t)
  /\ pc[t] \in Predicting \cup {"level", "replay"} => call[t] = "predict"
  /\ pc[t] = "append" => call[t] = "calibrate"
  /\ pc[t] \in {"level", "replay"} => window[t] # {}
  /\ pc[t] = "replay" => "soft" \in window[t]
  /\ call[t] = "predict" /\ pc[t] \in Predicting \cup InStatus => MayCompute(t)
  /\ call[t] = "predict" /\ pc[t] \in InStatus \cup {"remember"} => FlagHolds(t)
  /\ pc[t] # "idle" =>
       /\ result[t] = "prediction_blocked" => "hard" \in window[t]
       /\ result[t] = "prediction_soft_kill_replay" => "soft" \in window[t]
       /\ result[t] = "prediction_served" => MayCompute(t) /\ FlagHolds(t)

DecisionInv == TypeOK /\ \A t \in Thread : Decided(t)

LEMMA InitDecision == Init => DecisionInv
  BY InitTypes DEF Init, Fresh, DecisionInv, Decided, Predicting, InStatus

LEMMA NextDecision == DecisionInv /\ [Next]_vars => DecisionInv'
<1> SUFFICES ASSUME DecisionInv, [Next]_vars, NEW u \in Thread PROVE Decided(u)'
  BY NextTypes DEF DecisionInv
<1>t. /\ Decided(u)
      /\ pc \in [Thread -> PC] /\ call \in [Thread -> Action \cup MlCall \cup {"predict"}]
      /\ result \in [Thread -> Outcome] /\ flag \in [Thread -> BOOLEAN]
      /\ window \in [Thread -> SUBSET (Level \cup {"forgotten"})]
      /\ hadGood \in [Thread -> BOOLEAN] /\ level \in Level
  BY DEF DecisionInv, TypeOK
<1> USE DEF Goto, Conclude, shared, locals, aside, history, Decided, Watching, MayCompute,
            FlagHolds, SawOff, NothingToReplay, Predicting, InStatus
<1>0. CASE UNCHANGED vars
  BY <1>0, <1>t DEF vars
<1>1. ASSUME NEW t \in Thread, BeginPredict(t) PROVE Decided(u)'
  BY <1>1, <1>t DEF BeginPredict
<1>2. ASSUME NEW t \in Thread, NEW action \in Action, NEW list, BeginKill(t, action, list)
      PROVE  Decided(u)'
  BY <1>2, <1>t DEF BeginKill, Action
<1>3. ASSUME NEW t \in Thread, NEW what \in MlCall, BeginMl(t, what) PROVE Decided(u)'
  BY <1>3, <1>t DEF BeginMl, MlCall
<1>4. ASSUME NEW t \in Thread,
             Block(t) \/ Pass(t) \/ LookUp(t) \/ ReplayNothing(t) \/ ComputeRaises(t)
      PROVE  Decided(u)'
  BY <1>4, <1>t DEF Block, Pass, LookUp, ReplayNothing, ComputeRaises
<1>15. ASSUME NEW t \in Thread, Replay(t) PROVE Decided(u)'
  BY <1>15, <1>t DEF Replay
<1>5. ASSUME NEW t \in Thread, Compute(t) PROVE Decided(u)'
  BY <1>5, <1>t DEF Compute, Level
<1>6. ASSUME NEW t \in Thread, Remember(t) PROVE Decided(u)'
  BY <1>6, <1>t DEF Remember
<1>7. ASSUME NEW t \in Thread, Switch(t) PROVE Decided(u)'
  <2>1. window'[u] = IF window[u] = {} THEN {} ELSE window[u] \cup {level'}
    BY <1>7 DEF Switch, SetLevel
  <2>2. pc'[u] # "idle" <=> pc[u] # "idle"
    BY <1>7, <1>t DEF Switch
  <2>3. pc'[u] \in Predicting \cup InStatus \cup {"level", "replay", "append"} => pc'[u] = pc[u]
    BY <1>7, <1>t DEF Switch
  <2>4. UNCHANGED << call, flag, result, hadGood, lastKnownGood >> /\ forgotten' = FALSE
    BY <1>7 DEF Switch, SetLevel
  <2> QED BY <1>t, <2>1, <2>2, <2>3, <2>4
<1>8. ASSUME NEW t \in Thread, SwitchRefused(t) \/ ReadBack(t) PROVE Decided(u)'
  BY <1>8, <1>t DEF SwitchRefused, ReadBack
<1>9. ASSUME NEW t \in Thread, RegisterOutcome(t) \/ BeginProbs(t) \/ EndProbs(t)
                               \/ BeginLabels(t) \/ EndLabels(t)
      PROVE  Decided(u)'
  <2>1. UNCHANGED << shared, locals, history >>
    BY <1>9 DEF RegisterOutcome, BeginProbs, EndProbs, BeginLabels, EndLabels
  <2>2. pc'[u] = pc[u] \/ (pc[u] = "append" /\ pc'[u] = "status")
                       \/ (pc[u] \in InStatus /\ pc'[u] \in InStatus)
    BY <1>9, <1>t DEF RegisterOutcome, BeginProbs, EndProbs, BeginLabels, EndLabels
  <2> QED BY <1>t, <2>1, <2>2
<1>10. ASSUME NEW t \in Thread, StatusEmpty(t) \/ ReturnStatus(t) PROVE Decided(u)'
  <2>1. UNCHANGED << shared, call, flag, history >>
    BY <1>10 DEF StatusEmpty, ReturnStatus
  <2>2. \/ pc'[u] = pc[u] /\ result'[u] = result[u]
        \/ pc[u] \in InStatus /\ call[u] = "predict" /\ pc'[u] = "remember" /\ result'[u] = result[u]
        \/ /\ pc[u] \in InStatus /\ call[u] # "predict" /\ pc'[u] \in {"audit", "done"}
           /\ result'[u] \notin {"prediction_blocked", "prediction_soft_kill_replay", "prediction_served"}
    BY <1>10, <1>t DEF StatusEmpty, ReturnStatus, StatusKnown
  <2> QED BY <1>t, <2>1, <2>2
<1>11. ASSUME NEW t \in Thread, StatusRaises(t) PROVE Decided(u)'
  BY <1>11, <1>t DEF StatusRaises
<1>12. ASSUME NEW t \in Thread, AuditEvent(t) \/ AuditRaises(t) PROVE Decided(u)'
  BY <1>12, <1>t DEF AuditEvent, AuditRaises
<1>13. ASSUME NEW t \in Thread, Answer(t) PROVE Decided(u)'
  <2>1. UNCHANGED shared
    BY <1>13 DEF Answer
  <2>2. CASE u = t
    BY <1>13, <1>t, <2>1, <2>2 DEF Answer, Reset, Fresh
  <2>3. CASE u # t
    BY <1>13, <1>t, <2>1, <2>3 DEF Answer, Reset
  <2> QED BY <2>2, <2>3
<1>14. CASE Restart
  BY <1>14 DEF Restart, Reset, Fresh
<1> QED
  BY <1>0, <1>1, <1>2, <1>3, <1>4, <1>5, <1>6, <1>7, <1>8, <1>9, <1>10, <1>11, <1>12, <1>13, <1>14,
     <1>15
  DEF Next, ServiceStep

LEMMA DecisionFollows == DecisionInv => DecisionIsLinearizable
<1> SUFFICES ASSUME DecisionInv, NEW t \in Thread, pc[t] # "idle"
             PROVE  /\ result[t] = "prediction_blocked" => "hard" \in window[t]
                    /\ result[t] = "prediction_soft_kill_replay" => "soft" \in window[t]
                    /\ pc[t] = "compute" \/ result[t] = "prediction_served" => MayCompute(t)
                    /\ result[t] = "prediction_served" => FlagHolds(t)
  BY DEF DecisionIsLinearizable, MayCompute, FlagHolds
<1> QED BY DEF DecisionInv, Decided, Predicting

\* What a predict call does, and what its answer says of the kill switch, is
\* explained by levels that operators had put in effect while it ran, but for the
\* two exceptions DecisionIsLinearizable names (predict reads the level twice).
THEOREM DecisionsLinearizable == Spec => []DecisionIsLinearizable
  BY InitDecision, NextDecision, DecisionFollows, PTL DEF Spec
-----------------------------------------------------------------------------
(* No answer without an audit event *)

AuditInv == TypeOK /\ AuditedBeforeAnswer

LEMMA InitAudited == Init => AuditInv
  BY InitTypes DEF Init, Fresh, AuditInv, AuditedBeforeAnswer

LEMMA NextAudited == AuditInv /\ [Next]_vars => AuditInv'
<1> DEFINE A(t) == pc[t] = "done" /\ result[t] \notin Unaudited => logged[t] = result[t]
<1> SUFFICES ASSUME AuditInv, [Next]_vars, NEW u \in Thread PROVE A(u)'
  BY NextTypes DEF AuditInv, AuditedBeforeAnswer
<1>t. TypeOK /\ A(u)
  BY DEF AuditInv, AuditedBeforeAnswer
<1> USE DEF Goto, Conclude, shared, locals, Unaudited
<1>0. CASE UNCHANGED vars
  BY <1>0, <1>t DEF vars
<1>1. ASSUME NEW t \in Thread,
             \/ BeginPredict(t) \/ Block(t) \/ Pass(t) \/ LookUp(t) \/ Replay(t)
             \/ ReplayNothing(t) \/ Compute(t) \/ ComputeRaises(t) \/ Remember(t)
      PROVE  A(u)'
  BY <1>1, <1>t DEF TypeOK, BeginPredict, Block, Pass, LookUp, Replay, ReplayNothing, Compute,
                    ComputeRaises, Remember
<1>2. ASSUME NEW t \in Thread, NEW action, NEW list,
             BeginKill(t, action, list) \/ BeginMl(t, action)
      PROVE  A(u)'
  BY <1>2, <1>t DEF TypeOK, BeginKill, BeginMl
<1>3. ASSUME NEW t \in Thread, Switch(t) \/ SwitchRefused(t) \/ ReadBack(t) PROVE A(u)'
  BY <1>3, <1>t DEF TypeOK, Switch, SwitchRefused, ReadBack
<1>4. ASSUME NEW t \in Thread,
             RegisterOutcome(t) \/ StatusEmpty(t) \/ StatusRaises(t) \/ BeginProbs(t)
             \/ EndProbs(t) \/ BeginLabels(t) \/ EndLabels(t) \/ ReturnStatus(t)
      PROVE  A(u)'
  BY <1>4, <1>t DEF TypeOK, RegisterOutcome, StatusEmpty, StatusRaises, BeginProbs,
                    EndProbs, BeginLabels, EndLabels, ReturnStatus, StatusKnown
<1>5. ASSUME NEW t \in Thread, AuditEvent(t) \/ AuditRaises(t) PROVE A(u)'
  BY <1>5, <1>t DEF TypeOK, AuditEvent, AuditRaises, Store
<1>6. ASSUME NEW t \in Thread, Answer(t) PROVE A(u)'
  BY <1>6, <1>t DEF Answer, Reset, Fresh
<1>7. CASE Restart
  BY <1>7 DEF Restart, Reset, Fresh
<1> QED
  BY <1>0, <1>1, <1>2, <1>3, <1>4, <1>5, <1>6, <1>7 DEF Next, ServiceStep

\* Nothing is answered that is not in the audit, refusals of the request and
\* failures excepted (the append is the last step of each call).
THEOREM AnsweredIsAudited == Spec => []AuditedBeforeAnswer
<1>1. AuditInv => AuditedBeforeAnswer
  BY DEF AuditInv
<1> QED BY <1>1, InitAudited, NextAudited, PTL DEF Spec
-----------------------------------------------------------------------------
(* What the audit tells of the level, however many operators act *)

\* A call that changed the level and is about to tell it, in spite of itself
\* (astray) or rightly.
Telling(t) == pc[t] = "audit" => astray \/ told[t] = level

\* The strengthening: unless astray, at most one change is still to be told, and
\* it is the one in effect; the control points of set_kill_switch are reached
\* only by it, and only operators' calls are there.
TellInv ==
  /\ TypeOK
  /\ AuditTellsLevel
  /\ \A t, u \in Changing : astray \/ t = u
  /\ \A t \in Changing : Telling(t)
  /\ \A t \in Thread : /\ pc[t] \in {"switch", "readBack"} => call[t] \in Action
                       /\ pc[t] \notin {"switch", "readBack", "audit", "done"} => call[t] \notin Action

LEMMA InitTell == Init => TellInv
  BY InitTypes DEF Init, Fresh, TellInv, AuditTellsLevel, Changing, Action

LEMMA NextTell == TellInv /\ [Next]_vars => TellInv'
<1> SUFFICES ASSUME TellInv, [Next]_vars PROVE TellInv'
  OBVIOUS
<1>t. /\ TypeOK'
      /\ Changing = {} => astray \/ lastChange = level
      /\ \A t, u \in Changing : astray \/ t = u
      /\ \A t \in Changing : pc[t] = "audit" => astray \/ told[t] = level
      /\ \A t \in Thread :
            /\ pc[t] \in {"switch", "readBack"} => call[t] \in Action
            /\ pc[t] \notin {"switch", "readBack", "audit", "done"} => call[t] \notin Action
  BY NextTypes DEF TellInv, AuditTellsLevel, Telling
<1>T. /\ pc \in [Thread -> PC] /\ call \in [Thread -> Action \cup MlCall \cup {"predict"}]
      /\ told \in [Thread -> Level]
  BY DEF TellInv, TypeOK
<1> USE DEF Goto, Conclude, shared, locals, aside, history
\* What the other conjuncts of the strengthening come to after a step of t.
<1>p. ASSUME NEW t \in Thread,
             \A u \in Thread \ {t} : call'[u] = call[u] /\ pc'[u] = pc[u],
             pc'[t] \in {"switch", "readBack"} => call'[t] \in Action,
             pc'[t] \notin {"switch", "readBack", "audit", "done"} => call'[t] \notin Action,
             AuditTellsLevel',
             \A u, v \in Changing' : astray' \/ u = v,
             \A u \in Changing' : pc'[u] = "audit" => astray' \/ told'[u] = level'
      PROVE  TellInv'
  BY <1>p, <1>t DEF TellInv, Telling
\* A step of a call that has changed nothing, or has told what it changed.
<1>a. ASSUME UNCHANGED << level, lastChange, astray >>,
             NEW t \in Thread, t \notin Changing, t \notin Changing',
             pc'[t] \in {"switch", "readBack"} => call'[t] \in Action,
             pc'[t] \notin {"switch", "readBack", "audit", "done"} => call'[t] \notin Action,
             \A u \in Thread \ {t} : call'[u] = call[u] /\ pc'[u] = pc[u] /\ told'[u] = told[u]
      PROVE  TellInv'
  <2>1. Changing' = Changing
    BY <1>a DEF Changing
  <2>2. \A u \in Changing : u # t /\ u \in Thread
    BY <1>a DEF Changing
  <2>3. AuditTellsLevel'
    BY <1>a, <1>t, <2>1 DEF AuditTellsLevel
  <2> QED BY <1>a, <1>p, <1>t, <2>1, <2>2, <2>3
<1>0. CASE UNCHANGED vars
  <2>1. Changing' = Changing
    BY <1>0 DEF vars, Changing
  <2> QED BY <1>0, <1>t, <2>1 DEF vars, TellInv, AuditTellsLevel, Telling
<1>1. ASSUME NEW t \in Thread,
             \/ BeginPredict(t) \/ Block(t) \/ Pass(t) \/ LookUp(t) \/ Replay(t)
             \/ ReplayNothing(t) \/ Compute(t) \/ ComputeRaises(t) \/ Remember(t)
      PROVE  TellInv'
  <2>1. /\ pc[t] \notin {"switch", "readBack", "audit", "done"} /\ pc'[t] \notin {"switch", "readBack"}
        /\ UNCHANGED << level, lastChange, astray, told >>
        /\ call' = call \/ call' = [call EXCEPT ![t] = "predict"]
        /\ \A u \in Thread \ {t} : pc'[u] = pc[u]
    BY <1>1, <1>T DEF BeginPredict, Block, Pass, LookUp, Replay, ReplayNothing, Compute,
                      ComputeRaises, Remember
  <2>2. call[t] \notin Action
    BY <1>t, <2>1
  <2>3. call'[t] \notin Action /\ \A u \in Thread \ {t} : call'[u] = call[u]
    BY <1>T, <2>1, <2>2 DEF Action
  <2>4. t \notin Changing /\ t \notin Changing'
    BY <2>2, <2>3 DEF Changing
  <2> QED BY <1>a, <2>1, <2>3, <2>4
<1>2. ASSUME NEW t \in Thread, NEW action \in Action, NEW list, BeginKill(t, action, list)
      PROVE  TellInv'
  <2>1. /\ UNCHANGED << level, lastChange, astray, told >>
        /\ pc[t] = "idle" /\ pc'[t] \in {"switch", "done"} /\ call'[t] = action
        /\ \A u \in Thread \ {t} : call'[u] = call[u] /\ pc'[u] = pc[u]
    BY <1>2, <1>T DEF BeginKill
  <2>2. t \notin Changing /\ t \notin Changing'
    BY <2>1 DEF Changing
  <2> QED BY <1>a, <2>1, <2>2
<1>3. ASSUME NEW t \in Thread, NEW what \in MlCall, BeginMl(t, what) PROVE TellInv'
  <2>1. /\ UNCHANGED << level, lastChange, astray, told >>
        /\ pc[t] = "idle" /\ pc'[t] \notin {"switch", "readBack"} /\ call'[t] = what
        /\ \A u \in Thread \ {t} : call'[u] = call[u] /\ pc'[u] = pc[u]
    BY <1>3, <1>T DEF BeginMl
  <2>2. call'[t] \notin Action
    BY <2>1 DEF Action, MlCall
  <2>3. t \notin Changing /\ t \notin Changing'
    BY <2>1, <2>2 DEF Changing
  <2> QED BY <1>a, <2>1, <2>2, <2>3
<1>4. ASSUME NEW t \in Thread,
             RegisterOutcome(t) \/ StatusEmpty(t) \/ StatusRaises(t) \/ BeginProbs(t)
             \/ EndProbs(t) \/ BeginLabels(t) \/ EndLabels(t) \/ ReturnStatus(t)
      PROVE  TellInv'
  <2>1. /\ pc[t] \notin {"switch", "readBack", "audit", "done"} /\ pc'[t] \notin {"switch", "readBack"}
        /\ UNCHANGED << level, lastChange, astray, told, call >>
        /\ \A u \in Thread \ {t} : pc'[u] = pc[u]
    BY <1>4, <1>T DEF RegisterOutcome, StatusEmpty, StatusRaises, BeginProbs, EndProbs,
                      BeginLabels, EndLabels, ReturnStatus, StatusKnown
  <2>2. call[t] \notin Action
    BY <1>t, <2>1
  <2>3. t \notin Changing /\ t \notin Changing'
    BY <2>1, <2>2 DEF Changing
  <2> QED BY <1>a, <2>1, <2>2, <2>3
<1>5. ASSUME NEW t \in Thread, Switch(t) PROVE TellInv'
  <2>1. /\ pc[t] = "switch" /\ pc'[t] = "readBack" /\ call' = call
        /\ \A u \in Thread \ {t} : pc'[u] = pc[u]
        /\ astray' = (Changing # {})
    BY <1>5, <1>T DEF Switch, SetLevel
  <2>2. call[t] \in Action
    BY <1>t, <2>1
  <2>3. Changing' = Changing \cup {t}
    BY <2>1, <2>2 DEF Changing
  <2>4. AuditTellsLevel'
    BY <2>3 DEF AuditTellsLevel
  <2>5. \A u, v \in Changing' : astray' \/ u = v
    BY <2>1, <2>3
  <2>6. \A u \in Changing' : pc'[u] = "audit" => astray'
    BY <2>1, <2>3
  <2> QED BY <1>p, <2>1, <2>2, <2>4, <2>5, <2>6
<1>6. ASSUME NEW t \in Thread, SwitchRefused(t) PROVE TellInv'
  <2>1. /\ UNCHANGED << level, lastChange, astray, told, call >>
        /\ pc[t] = "switch" /\ pc'[t] = "done"
        /\ \A u \in Thread \ {t} : pc'[u] = pc[u]
    BY <1>6, <1>T DEF SwitchRefused
  <2>2. t \notin Changing /\ t \notin Changing'
    BY <2>1 DEF Changing
  <2> QED BY <1>a, <2>1, <2>2
<1>7. ASSUME NEW t \in Thread, ReadBack(t) PROVE TellInv'
  <2>1. /\ UNCHANGED << level, lastChange, astray, call >>
        /\ pc[t] = "readBack" /\ pc'[t] = "audit" /\ told'[t] = level
        /\ \A u \in Thread \ {t} : pc'[u] = pc[u] /\ told'[u] = told[u]
    BY <1>7, <1>T DEF ReadBack
  <2>2. Changing' = Changing
    BY <2>1 DEF Changing
  <2>3. AuditTellsLevel'
    BY <1>t, <2>1, <2>2 DEF AuditTellsLevel
  <2>4. \A u \in Changing : u \in Thread
    BY DEF Changing
  <2> QED BY <1>p, <1>t, <2>1, <2>2, <2>3, <2>4
<1>8. ASSUME NEW t \in Thread, AuditEvent(t) \/ AuditRaises(t) PROVE TellInv'
  <2>1. /\ pc[t] = "audit" /\ pc'[t] = "done" /\ UNCHANGED << level, call, told >>
        /\ \A u \in Thread \ {t} : pc'[u] = pc[u]
    BY <1>8, <1>T DEF AuditEvent, AuditRaises
  <2>2. t \notin Changing'
    BY <2>1 DEF Changing
  <2>3. CASE call[t] \notin Action
    <3>1. UNCHANGED << lastChange, astray >>
      BY <1>8, <2>3 DEF AuditEvent, AuditRaises, Store, TellInv, TypeOK
    <3>2. t \notin Changing
      BY <2>3 DEF Changing
    <3> QED BY <1>a, <2>1, <2>2, <3>1, <3>2
  <2>4. CASE call[t] \in Action
    <3>1. t \in Changing /\ Changing' = Changing \ {t}
      BY <2>1, <2>4 DEF Changing
    <3>2. \/ astray' = TRUE
          \/ astray' = astray /\ lastChange' = told[t]
      BY <1>8, <2>4 DEF AuditEvent, AuditRaises, Store
    <3>3. astray \/ told[t] = level
      BY <1>t, <2>1, <3>1
    <3>4. astray => astray'
      BY <3>2
    <3>5. AuditTellsLevel'
      BY <2>1, <3>2, <3>3 DEF AuditTellsLevel
    <3>6. \A u \in Changing' : u \in Thread \ {t} /\ u \in Changing
      BY <3>1 DEF Changing
    <3> QED BY <1>p, <1>t, <2>1, <3>4, <3>5, <3>6
  <2> QED BY <2>3, <2>4
<1>9. ASSUME NEW t \in Thread, Answer(t) PROVE TellInv'
  <2>1. /\ pc[t] = "done" /\ UNCHANGED << level, lastChange, astray >>
        /\ pc'[t] = "idle" /\ call'[t] \notin Action
        /\ \A u \in Thread \ {t} : call'[u] = call[u] /\ pc'[u] = pc[u] /\ told'[u] = told[u]
    BY <1>9 DEF Answer, Reset, Fresh, Action
  <2>2. t \notin Changing /\ t \notin Changing'
    BY <2>1 DEF Changing
  <2> QED BY <1>a, <2>1, <2>2
<1>10. CASE Restart
  <2>1. astray' = TRUE /\ \A u \in Thread : call'[u] \notin Action /\ pc'[u] = "idle"
    BY <1>10 DEF Restart, Reset, Fresh, Action
  <2> QED BY <1>t, <2>1 DEF TellInv, AuditTellsLevel, Telling
<1> QED
  BY <1>0, <1>1, <1>2, <1>3, <1>4, <1>5, <1>6, <1>7, <1>8, <1>9, <1>10 DEF Next, ServiceStep

\* For any number of operators at once, the latest kill_switch_changed event
\* tells the level in effect whenever every change has been told, unless the
\* latest one crossed another, could not be audited or was followed by a restart
\* (set_kill_switch).
THEOREM AuditAlwaysTellsLevel == Spec => []AuditTellsLevel
<1>1. TellInv => AuditTellsLevel
  BY DEF TellInv
<1> QED BY <1>1, InitTell, NextTell, PTL DEF Spec
-----------------------------------------------------------------------------
(* The calibration *)

\* The deque holds the latest samples, in order, and as many were evicted as
\* are missing.
Consecutive ==
  /\ Len(pairs) <= recorded
  /\ \A i \in 1 .. Len(pairs) : pairs[i] = Evicted + i

\* Whatever a thread has read of the probabilities was a window of the samples,
\* no longer than the deque is now and not ahead of it.
ReadBehind(t) ==
  /\ Len(probs[t]) <= Len(pairs)
  /\ \A i \in 1 .. Len(probs[t]) : probs[t][i] \in i .. Evicted + i

Aligned(t) ==
  /\ Len(probs[t]) <= Len(labels[t])
  /\ \A i \in 1 .. Len(probs[t]) : labels[t][i] \in probs[t][i] .. probs[t][i] + Evicted

\* A thread has labels only while it computes the status from them.
ReadOnce(t) ==
  /\ pc[t] # "known" => labels[t] = << >>
  /\ labels[t] # << >> => Aligned(t)

CalibrationInv ==
  /\ TypeOK
  /\ Consecutive
  /\ \A t \in Thread : ReadBehind(t) /\ ReadOnce(t)

LEMMA LatestSamples ==
  ASSUME MonitorTypeOK, Consecutive, Register
  PROVE  /\ Consecutive'
         /\ Len(pairs) <= Len(pairs')
         /\ Evicted \in Nat /\ Evicted' \in Nat /\ Evicted <= Evicted'
<1> DEFINE longer == Append(pairs, recorded + 1)
<1>1. /\ pairs \in Seq(Nat) /\ Len(pairs) \in Nat
      /\ recorded \in Nat /\ recorded + 1 \in Nat /\ MaxSamples \in Nat /\ MaxSamples > 0
  BY CalibrationAssumption DEF MonitorTypeOK
<1>2. /\ longer \in Seq(Nat)
      /\ Len(longer) = Len(pairs) + 1
      /\ \A i \in 1 .. Len(pairs) : longer[i] = pairs[i]
      /\ longer[Len(pairs) + 1] = recorded + 1
  BY <1>1
<1>3. recorded' = recorded + 1 /\ pairs' = Latest(longer)
  BY DEF Register
<1>4. \A i \in 1 .. Len(longer) : longer[i] = Evicted + i
  BY <1>1, <1>2 DEF Consecutive, Evicted
<1> HIDE DEF longer
<1>5. CASE Len(longer) > MaxSamples
  <2>1. pairs' = Tail(longer)
    BY <1>3, <1>5 DEF Latest
  <2>2. /\ Len(Tail(longer)) = Len(pairs)
        /\ \A i \in 1 .. Len(pairs) : Tail(longer)[i] = longer[i + 1]
    BY <1>1, <1>2
  <2>3. Len(pairs') = Len(pairs) /\ Evicted' = Evicted + 1
    BY <1>1, <1>3, <2>1, <2>2 DEF Evicted
  <2>4. Evicted \in Nat
    BY <1>1 DEF Consecutive, Evicted
  <2>5. ASSUME NEW i \in 1 .. Len(pairs) PROVE pairs'[i] = Evicted' + i
    <3>1. pairs'[i] = longer[i + 1] /\ i + 1 \in 1 .. Len(longer) /\ i \in Nat
      BY <1>1, <1>2, <2>1, <2>2
    <3> QED BY <1>4, <2>3, <2>4, <3>1
  <2> QED BY <1>1, <1>3, <2>3, <2>4, <2>5 DEF Consecutive
<1>6. CASE ~ Len(longer) > MaxSamples
  <2>1. pairs' = longer
    BY <1>3, <1>6 DEF Latest
  <2>2. Len(pairs') = Len(pairs) + 1 /\ Evicted' = Evicted /\ Evicted \in Nat
    <3>1. Len(pairs') = Len(pairs) + 1
      BY <1>2, <2>1
    <3> QED BY <1>1, <1>3, <3>1 DEF Consecutive, Evicted
  <2> QED BY <1>1, <1>2, <1>3, <1>4, <2>1, <2>2 DEF Consecutive
<1> QED BY <1>5, <1>6

LEMMA InitAligned == Init => CalibrationInv
<1> SUFFICES ASSUME Init PROVE CalibrationInv
  OBVIOUS
<1>1. /\ pairs = << >> /\ recorded = 0 /\ Len(pairs) = 0
      /\ \A t \in Thread : probs[t] = << >> /\ labels[t] = << >> /\ Len(probs[t]) = 0
  BY DEF Init, MonitorInit
<1> QED BY <1>1, InitTypes DEF CalibrationInv, Consecutive, ReadBehind, ReadOnce, Evicted

LEMMA NextAligned == CalibrationInv /\ [Next]_vars => CalibrationInv'
<1> SUFFICES ASSUME CalibrationInv, [Next]_vars
             PROVE  Consecutive' /\ \A u \in Thread : ReadBehind(u)' /\ ReadOnce(u)'
  BY NextTypes DEF CalibrationInv
<1>t. MonitorTypeOK /\ Consecutive /\ pc \in [Thread -> PC]
  BY DEF CalibrationInv, TypeOK
<1>u. ASSUME NEW u \in Thread
      PROVE  /\ ReadBehind(u) /\ ReadOnce(u)
             /\ probs[u] \in Seq(Nat) /\ labels[u] \in Seq(Nat)
             /\ Len(probs[u]) \in Nat /\ Len(labels[u]) \in Nat
  BY <1>t, <1>u DEF CalibrationInv, MonitorTypeOK
<1>n. /\ pairs \in Seq(Nat) /\ recorded \in Nat /\ Len(pairs) \in Nat
      /\ Evicted \in Nat
  BY <1>t, CalibrationAssumption DEF MonitorTypeOK, Consecutive, Evicted
\* Steps that leave the monitor alone and do not leave "known".
<1>a. ASSUME UNCHANGED << pairs, recorded, probs, labels >>,
             \A u \in Thread : pc'[u] # "known" => pc[u] # "known"
      PROVE  Consecutive' /\ \A u \in Thread : ReadBehind(u)' /\ ReadOnce(u)'
  BY <1>a, <1>t, <1>u DEF Consecutive, ReadBehind, ReadOnce, Aligned, Evicted
\* The status is computed, or the walk breaks.
<1>b. ASSUME NEW t \in Thread, Return(t), \A u \in Thread \ {t} : pc'[u] = pc[u]
      PROVE  Consecutive' /\ \A u \in Thread : ReadBehind(u)' /\ ReadOnce(u)'
  <2>1. Consecutive'
    BY <1>b, <1>t DEF Consecutive, Return, Evicted
  <2>2. ASSUME NEW u \in Thread PROVE ReadBehind(u)' /\ ReadOnce(u)'
    <3>1. CASE u = t
      <4>1. probs'[u] = << >> /\ labels'[u] = << >> /\ Len(probs'[u]) = 0 /\ pairs' = pairs
        BY <1>b, <1>t, <3>1 DEF Return, MonitorTypeOK
      <4> QED BY <1>n, <4>1 DEF ReadBehind, ReadOnce
    <3>2. CASE u # t
      <4>1. probs'[u] = probs[u] /\ labels'[u] = labels[u] /\ pc'[u] = pc[u]
            /\ pairs' = pairs /\ recorded' = recorded
        BY <1>b, <1>t, <3>2 DEF Return, MonitorTypeOK
      <4> QED BY <1>u, <4>1 DEF ReadBehind, ReadOnce, Aligned, Evicted
    <3> QED BY <3>1, <3>2
  <2> QED BY <2>1, <2>2
<1> USE DEF Goto, monitor, history, aside
<1>0. CASE UNCHANGED vars
  BY <1>0, <1>a DEF vars
<1>1. ASSUME NEW t \in Thread,
             \/ BeginPredict(t) \/ Block(t) \/ Pass(t) \/ LookUp(t) \/ Replay(t)
             \/ ReplayNothing(t) \/ Compute(t) \/ ComputeRaises(t) \/ Remember(t)
      PROVE  Consecutive' /\ \A u \in Thread : ReadBehind(u)' /\ ReadOnce(u)'
  <2>1. UNCHANGED monitor
    BY <1>1 DEF BeginPredict, Block, Pass, LookUp, Replay, ReplayNothing, Compute,
                      ComputeRaises, Remember
  <2>2. \A u \in Thread : pc'[u] # "known" => pc[u] # "known"
    BY <1>1, <1>t DEF BeginPredict, Block, Pass, LookUp, Replay, ReplayNothing, Compute,
                      ComputeRaises, Remember
  <2> QED BY <1>a, <2>1, <2>2
<1>2. ASSUME NEW t \in Thread, NEW action, NEW list,
             BeginKill(t, action, list) \/ BeginMl(t, action) \/ Switch(t) \/ SwitchRefused(t)
             \/ ReadBack(t) \/ AuditEvent(t) \/ AuditRaises(t)
      PROVE  Consecutive' /\ \A u \in Thread : ReadBehind(u)' /\ ReadOnce(u)'
  <2>1. UNCHANGED monitor
    BY <1>2 DEF BeginKill, BeginMl, Switch, SwitchRefused, ReadBack, AuditEvent, AuditRaises
  <2>2. \A u \in Thread : pc'[u] # "known" => pc[u] # "known"
    BY <1>2, <1>t DEF BeginKill, BeginMl, Switch, SwitchRefused, ReadBack, AuditEvent, AuditRaises
  <2> QED BY <1>a, <2>1, <2>2
<1>3. ASSUME NEW t \in Thread, StatusEmpty(t) \/ BeginProbs(t) \/ BeginLabels(t)
      PROVE  Consecutive' /\ \A u \in Thread : ReadBehind(u)' /\ ReadOnce(u)'
  <2>1. UNCHANGED << pairs, recorded, probs, labels >>
    BY <1>3 DEF StatusEmpty, BeginProbs, BeginLabels, BeginWalk
  <2>2. \A u \in Thread : pc'[u] # "known" => pc[u] # "known"
    BY <1>3, <1>t DEF StatusEmpty, StatusKnown, BeginProbs, BeginLabels
  <2> QED BY <1>a, <2>1, <2>2
<1>4. ASSUME NEW t \in Thread, RegisterOutcome(t)
      PROVE  Consecutive' /\ \A u \in Thread : ReadBehind(u)' /\ ReadOnce(u)'
  <2>1. /\ Consecutive' /\ Len(pairs) <= Len(pairs') /\ Len(pairs') \in Nat
        /\ Evicted' \in Nat /\ Evicted <= Evicted'
    <3>1. Register
      BY <1>4 DEF RegisterOutcome
    <3>2. pairs' \in Seq(Nat)
      BY NextTypes DEF CalibrationInv, TypeOK, MonitorTypeOK
    <3> QED BY <1>t, <3>1, <3>2, LatestSamples
  <2>2. ASSUME NEW u \in Thread PROVE ReadBehind(u)' /\ ReadOnce(u)'
    <3>1. probs'[u] = probs[u] /\ labels'[u] = labels[u] /\ (pc'[u] # "known" => pc[u] # "known")
      BY <1>4, <1>t DEF RegisterOutcome, Register
    <3>2. ReadBehind(u)'
      <4>1. /\ Len(probs[u]) \in Nat /\ Len(probs[u]) <= Len(pairs)
            /\ \A i \in 1 .. Len(probs[u]) : probs[u][i] \in i .. Evicted + i
        BY <1>u DEF ReadBehind
      <4>2. Len(probs[u]) <= Len(pairs') /\ Len(pairs) \in Nat
        BY <1>n, <2>1, <4>1
      <4>3. \A i \in 1 .. Len(probs[u]) : probs[u][i] \in i .. Evicted' + i
        BY <1>n, <2>1, <4>1
      <4> QED BY <3>1, <4>2, <4>3 DEF ReadBehind
    <3>3. labels[u] # << >> => Aligned(u)'
      <4> SUFFICES ASSUME Aligned(u), NEW i \in 1 .. Len(probs[u])
                   PROVE  labels[u][i] \in probs[u][i] .. probs[u][i] + Evicted'
        BY <1>u, <3>1 DEF Aligned, ReadOnce
      <4>1. labels[u][i] \in probs[u][i] .. probs[u][i] + Evicted
        BY DEF Aligned
      <4>2. probs[u][i] \in Nat
        BY <1>u
      <4> QED BY <1>n, <2>1, <4>1, <4>2
    <3> QED BY <1>u, <3>1, <3>2, <3>3 DEF ReadOnce
  <2> QED BY <2>1, <2>2
<1>5. ASSUME NEW t \in Thread, EndProbs(t)
      PROVE  Consecutive' /\ \A u \in Thread : ReadBehind(u)' /\ ReadOnce(u)'
  <2>1. UNCHANGED << pairs, recorded, labels >>
    BY <1>5 DEF EndProbs, WalkProbs
  <2>2. ASSUME NEW u \in Thread PROVE ReadBehind(u)' /\ ReadOnce(u)'
    <3>1. CASE u = t
      <4>1. probs'[u] = pairs /\ labels'[u] = << >> /\ Evicted' = Evicted
        BY <1>5, <1>t, <1>u, <2>1, <3>1 DEF EndProbs, WalkProbs, MonitorTypeOK, ReadOnce, Evicted
      <4> QED BY <1>n, <1>t, <2>1, <4>1 DEF ReadBehind, ReadOnce, Consecutive
    <3>2. CASE u # t
      <4>1. probs'[u] = probs[u] /\ pc'[u] = pc[u]
        BY <1>5, <1>t, <3>2 DEF EndProbs, WalkProbs, MonitorTypeOK
      <4> QED BY <1>u, <2>1, <4>1 DEF ReadBehind, ReadOnce, Aligned, Evicted
    <3> QED BY <3>1, <3>2
  <2>3. Consecutive'
    BY <1>t, <2>1 DEF Consecutive, Evicted
  <2> QED BY <2>2, <2>3
<1>6. ASSUME NEW t \in Thread, EndLabels(t)
      PROVE  Consecutive' /\ \A u \in Thread : ReadBehind(u)' /\ ReadOnce(u)'
  <2>1. UNCHANGED << pairs, recorded, probs >>
    BY <1>6 DEF EndLabels, WalkLabels
  <2>2. ASSUME NEW u \in Thread PROVE ReadBehind(u)' /\ ReadOnce(u)'
    <3>1. ReadBehind(u)'
      BY <1>u, <2>1 DEF ReadBehind, Evicted
    <3>2. CASE u = t
      <4>1. labels'[u] = pairs /\ pc'[u] = "known" /\ probs'[u] = probs[u] /\ Evicted' = Evicted
        BY <1>6, <1>t, <2>1, <3>2 DEF EndLabels, WalkLabels, MonitorTypeOK, Evicted
      <4>2. Len(probs[u]) <= Len(pairs)
        BY <1>u DEF ReadBehind
      <4>3. ASSUME NEW i \in 1 .. Len(probs[u])
            PROVE  pairs[i] \in probs[u][i] .. probs[u][i] + Evicted
        <5>1. probs[u][i] \in i .. Evicted + i /\ probs[u][i] \in Nat /\ i \in Nat
          BY <1>u DEF ReadBehind
        <5>2. pairs[i] = Evicted + i
          BY <1>n, <1>t, <1>u, <4>2 DEF Consecutive
        <5> QED BY <1>n, <5>1, <5>2
      <4>4. Aligned(u)'
        BY <4>1, <4>2, <4>3 DEF Aligned
      <4> QED BY <3>1, <4>1, <4>4 DEF ReadOnce
    <3>3. CASE u # t
      <4>1. labels'[u] = labels[u] /\ pc'[u] = pc[u]
        BY <1>6, <1>t, <3>3 DEF EndLabels, WalkLabels, MonitorTypeOK
      <4> QED BY <1>u, <2>1, <3>1, <4>1 DEF ReadOnce, Aligned, Evicted
    <3> QED BY <3>2, <3>3
  <2>3. Consecutive'
    BY <1>t, <2>1 DEF Consecutive, Evicted
  <2> QED BY <2>2, <2>3
<1>7. ASSUME NEW t \in Thread, ReturnStatus(t) \/ StatusRaises(t)
      PROVE  Consecutive' /\ \A u \in Thread : ReadBehind(u)' /\ ReadOnce(u)'
  <2>1. Return(t)
    BY <1>7 DEF ReturnStatus, StatusRaises, WalkBreaks
  <2>2. \A u \in Thread \ {t} : pc'[u] = pc[u]
    BY <1>7, <1>t DEF ReturnStatus, StatusRaises, StatusKnown
  <2> QED BY <1>b, <2>1, <2>2
<1>8. ASSUME NEW t \in Thread, Answer(t)
      PROVE  Consecutive' /\ \A u \in Thread : ReadBehind(u)' /\ ReadOnce(u)'
  <2>1. UNCHANGED monitor
    BY <1>8 DEF Answer
  <2>2. \A u \in Thread : pc'[u] # "known" => pc[u] # "known"
    BY <1>8, <1>t DEF Answer, Reset, Fresh
  <2> QED BY <1>a, <2>1, <2>2
<1>9. CASE Restart
  <2>1. /\ pairs' = << >> /\ Len(pairs') = 0 /\ recorded' = 0
        /\ \A u \in Thread : probs'[u] = << >> /\ labels'[u] = << >> /\ Len(probs'[u]) = 0
    BY <1>9 DEF Restart, MonitorRestart
  <2> QED BY <2>1 DEF Consecutive, ReadBehind, ReadOnce, Evicted
<1> QED
  BY <1>0, <1>1, <1>2, <1>3, <1>4, <1>5, <1>6, <1>7, <1>8, <1>9 DEF Next, ServiceStep

\* The two walks of status() never mix samples further apart than the number
\* of samples evicted, and no probability is without a label.
THEOREM CalibrationAligned == Spec => []CalibrationIsAligned
<1>1. CalibrationInv => CalibrationIsAligned
  BY DEF CalibrationInv, CalibrationIsAligned, ReadOnce, Aligned
<1> QED BY <1>1, InitAligned, NextAligned, PTL DEF Spec
=============================================================================
