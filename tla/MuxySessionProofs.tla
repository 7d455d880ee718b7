-------------------------- MODULE MuxySessionProofs -------------------------
(* Theorems about MuxySession, for every number of steps, every queue bound  *)
(* and every number of lost links.                                           *)
EXTENDS MuxySession, TLAPS

-----------------------------------------------------------------------------
(* Types *)

\* What an action leaves alone keeps its type.
LEMMA TypeFrame ==
  /\ TypeRun /\ UNCHANGED runVars => TypeRun'
  /\ TypeResult /\ UNCHANGED resultVars => TypeResult'
  /\ TypeLoop /\ UNCHANGED loopVars => TypeLoop'
  /\ TypeConn /\ UNCHANGED connVars => TypeConn'
  /\ TypePump /\ UNCHANGED pumpVars => TypePump'
  /\ TypeServer /\ UNCHANGED serverVars => TypeServer'
  /\ TypeSsh /\ UNCHANGED sshVars => TypeSsh'
  BY DEF TypeRun, TypeResult, TypeLoop, TypeConn, TypePump, TypeServer, TypeSsh,
         runVars, resultVars, loopVars, connVars, pumpVars, serverVars, sshVars

\* A fresh channel holds no message.
LEMMA EmptyQueue == <<>> \in Seq(Messages) /\ Len(<<>>) <= QueueCap
  BY ConstantsAssumption

\* Taking a message off the queue of the step leaves a queue within bounds.
LEMMA DequeueType ==
  ASSUME TypePump, rx # <<>>, rx' = Tail(rx)
  PROVE  rx' \in Seq(Messages) /\ Len(rx') <= QueueCap
<1>1. /\ Tail(rx) \in Seq(Messages)
      /\ Len(Tail(rx)) = Len(rx) - 1 /\ Len(rx) \in Nat
  BY DEF TypePump
<1> QED BY <1>1, ConstantsAssumption DEF TypePump

LEMMA ReceiveType ==
  ASSUME TypePump, NEW m, Receive(m)
  PROVE  rx' \in Seq(Messages) /\ Len(rx') <= QueueCap
  BY DequeueType DEF Receive

\* A lost link keeps the types, and is counted within its bound.
LEMMA CutType == ASSUME TypeConn, Cut PROVE TypeConn'
<1>1. cuts' \in 0..MaxCuts
  BY ConstantsAssumption DEF TypeConn, Cut
<1> QED BY <1>1 DEF TypeConn, Cut

\* What the pump delivers does not overfill it.
LEMMA DeliverType ==
  ASSUME TypePump, NEW m \in Messages, Deliver(m)
  PROVE  rx' \in Seq(Messages) /\ Len(rx') <= QueueCap
  BY ConstantsAssumption DEF TypePump, Deliver

\* Types are kept by choosing a transport.
LEMMA TypeEnsureStep == TypeOK /\ Ensure => TypeOK'
<1> SUFFICES ASSUME TypeOK, Ensure PROVE TypeOK'
  OBVIOUS
<1>1. CASE ReuseConnection
  BY <1>1, TypeFrame DEF TypeOK, ReuseConnection, PcValues
<1>2. CASE KnownUnavailable
  <2>0. pc' \in PcValues /\ starts' \in [Steps -> Nat]
    BY <1>2 DEF TypeOK, TypeRun, KnownUnavailable, FallbackOrFail, Failure,
       PcValues
  <2>1. TypeResult'
    BY ConstantsAssumption, <1>2 DEF TypeOK, TypeResult, KnownUnavailable,
       FallbackOrFail, Failure, Outcomes, resultVars
  <2>q. QED BY <1>2, <2>0, <2>1, TypeFrame DEF TypeOK, KnownUnavailable
<1>3. CASE Connect
  <2>0. pc' \in PcValues /\ starts' \in [Steps -> Nat]
    BY <1>3 DEF TypeOK, TypeRun, Connect, FallbackOrFail, Failure, PcValues
  <2>1. TypeConn'
    BY <1>3 DEF TypeOK, TypeRun, TypeConn, Connect, Steps, connVars
  <2>2. TypeResult'
    BY ConstantsAssumption, <1>3 DEF TypeOK, TypeResult, Connect,
       FallbackOrFail, Failure, Outcomes, resultVars
  <2>q. QED BY <1>3, <2>0, <2>1, <2>2, TypeFrame DEF TypeOK, Connect
<1>4. CASE ConnectFails
  <2>0. pc' \in PcValues /\ starts' \in [Steps -> Nat]
    BY <1>4 DEF TypeOK, TypeRun, ConnectFails, FallbackOrFail, Failure,
       PcValues
  <2>1. TypeConn'
    BY <1>4 DEF TypeOK, TypeRun, TypeConn, ConnectFails, Steps, connVars
  <2>2. TypeResult'
    BY ConstantsAssumption, <1>4 DEF TypeOK, TypeResult, ConnectFails,
       FallbackOrFail, Failure, Outcomes, resultVars
  <2>3. TypeRun'
    BY ConstantsAssumption, <1>4 DEF TypeOK, TypeRun, ConnectFails, Outcomes,
       Steps, runVars
  <2>q. QED BY <1>4, <2>0, <2>1, <2>2, <2>3, TypeFrame DEF TypeOK,
               ConnectFails
<1>q. QED BY <1>1, <1>2, <1>3, <1>4 DEF Ensure

\* Types are kept by starting a session.
LEMMA TypeLaunchStep == TypeOK /\ Launch => TypeOK'
<1> SUFFICES ASSUME TypeOK, Launch PROVE TypeOK'
  OBVIOUS
<1>1. CASE RefuseEnv
  <2>0. pc' \in PcValues /\ starts' \in [Steps -> Nat]
    BY <1>1 DEF TypeOK, TypeRun, RefuseEnv, Failure, PcValues
  <2>1. TypeResult'
    BY ConstantsAssumption, <1>1 DEF TypeOK, TypeResult, RefuseEnv, Failure,
       Outcomes, resultVars
  <2>q. QED BY <1>1, <2>0, <2>1, TypeFrame DEF TypeOK, RefuseEnv
<1>2. CASE WritePayload
  <2>0. pc' \in PcValues /\ starts' \in [Steps -> Nat]
    BY <1>2 DEF TypeOK, TypeRun, WritePayload, Failure, PcValues
  <2>1. TypeResult'
    BY ConstantsAssumption, <1>2 DEF TypeOK, TypeResult, WritePayload,
       Failure, Outcomes, resultVars
  <2>2. TypeConn'
    BY CutType, TypeFrame, <1>2 DEF TypeOK, WritePayload, connVars
  <2>3. TypeServer'
    BY ConstantsAssumption, <1>2 DEF TypeOK, TypeRun, TypeServer,
       WritePayload, GoesAstray, Steps, NoStep, Reasons, serverVars
  <2>q. QED BY <1>2, <2>0, <2>1, <2>2, <2>3, TypeFrame DEF TypeOK,
               WritePayload
<1>3. CASE CreateSession
  <2>0. pc' \in PcValues /\ starts' \in [Steps -> Nat]
    BY <1>3 DEF TypeOK, TypeRun, CreateSession, Failure, PcValues
  <2>1. TypeResult'
    BY ConstantsAssumption, <1>3 DEF TypeOK, TypeResult, CreateSession,
       Failure, Outcomes, resultVars
  <2>2. TypeConn'
    BY CutType, TypeFrame, <1>3 DEF TypeOK, CreateSession, connVars
  <2>3. TypeServer'
    <3>1. /\ UNCHANGED <<reason, endReq, typed, loaded, discarded>>
          /\ sess' \in {sess, [sess EXCEPT ![step] = "shell"]}
          /\ payload' \in {payload, [payload EXCEPT ![StepId[step]] = NoStep]}
          /\ astray' \in {astray, astray \cup {step}}
      BY <1>3 DEF CreateSession, GoesAstray
    <3> QED BY <3>1 DEF TypeOK, TypeRun, TypeServer
  <2>q. QED BY <1>3, <2>0, <2>1, <2>2, <2>3, TypeFrame DEF TypeOK,
               CreateSession
<1>4. CASE Attach
  <2>0. pc' \in PcValues /\ starts' \in [Steps -> Nat]
    BY <1>4 DEF TypeOK, TypeRun, Attach, Failure, PcValues
  <2>1. TypeResult'
    BY ConstantsAssumption, <1>4 DEF TypeOK, TypeResult, Attach, Failure,
       Outcomes, resultVars
  <2>2. TypeServer'
    BY ConstantsAssumption, <1>4 DEF TypeOK, TypeRun, TypeServer, Attach,
       EndSession, GoesAstray, Steps, NoStep, Reasons, serverVars
  <2>q. QED BY <1>4, <2>0, <2>1, <2>2, TypeFrame DEF TypeOK, Attach
<1>5. CASE Register
  <2>0. pc' \in PcValues /\ starts' \in [Steps -> Nat]
    BY <1>5 DEF TypeOK, TypeRun, Register, PcValues
  <2>1. TypePump'
    BY EmptyQueue, <1>5 DEF TypeOK, TypePump, Register
  <2>q. QED BY <1>5, <2>0, <2>1, TypeFrame DEF TypeOK, Register
<1>6. CASE WriteBootstrap
  <2>0. pc' \in PcValues /\ starts' \in [Steps -> Nat]
    BY <1>6 DEF TypeOK, TypeRun, WriteBootstrap, Failure, PcValues
  <2>1. TypeResult'
    BY ConstantsAssumption, <1>6 DEF TypeOK, TypeResult, WriteBootstrap,
       Failure, Outcomes, resultVars
  <2>2. TypeConn'
    BY CutType, TypeFrame, <1>6 DEF TypeOK, WriteBootstrap, connVars
  <2>3. TypePump'
    BY ConstantsAssumption, <1>6 DEF TypeOK, TypePump, WriteBootstrap,
       Messages, pumpVars
  <2>4. TypeServer'
    BY ConstantsAssumption, <1>6 DEF TypeOK, TypeRun, TypeServer,
       WriteBootstrap, EndSession, GoesAstray, Steps, NoStep, Reasons, serverVars
  <2>q. QED BY <1>6, <2>0, <2>1, <2>2, <2>3, <2>4, TypeFrame DEF TypeOK,
               WriteBootstrap
<1>q. QED BY <1>1, <1>2, <1>3, <1>4, <1>5, <1>6 DEF Launch

\* Types are kept by one turn of the loop of run_attached.
LEMMA TypeLoopStep == TypeOK /\ Loop => TypeOK'
<1> SUFFICES ASSUME TypeOK, Loop PROVE TypeOK'
  OBVIOUS
<1>1. CASE CancelOutcome
  <2>0. pc' \in PcValues /\ starts' \in [Steps -> Nat]
    BY <1>1 DEF TypeOK, TypeRun, CancelOutcome, Result, PcValues
  <2>1. TypePump'
    BY ConstantsAssumption, <1>1 DEF TypeOK, TypePump, CancelOutcome,
       Messages, pumpVars
  <2>2. TypeResult'
    BY ConstantsAssumption, <1>1 DEF TypeOK, TypeResult, CancelOutcome,
       Result, Outcomes, resultVars
  <2>3. TypeServer'
    BY ConstantsAssumption, <1>1 DEF TypeOK, TypeRun, TypeServer,
       CancelOutcome, EndSession, GoesAstray, Steps, NoStep, Reasons, serverVars
  <2>q. QED BY <1>1, <2>0, <2>1, <2>2, <2>3, TypeFrame DEF TypeOK,
               CancelOutcome
<1>2. CASE TimeoutOutcome
  <2>0. pc' \in PcValues /\ starts' \in [Steps -> Nat]
    BY <1>2 DEF TypeOK, TypeRun, TimeoutOutcome, PcValues
  <2>1. TypeResult'
    BY ConstantsAssumption, <1>2 DEF TypeOK, TypeResult, TimeoutOutcome,
       Outcomes, resultVars
  <2>2. TypeServer'
    BY ConstantsAssumption, <1>2 DEF TypeOK, TypeRun, TypeServer,
       TimeoutOutcome, EndSession, GoesAstray, Steps, NoStep, Reasons, serverVars
  <2>q. QED BY <1>2, <2>0, <2>1, <2>2, TypeFrame DEF TypeOK, TimeoutOutcome
<1>3. CASE KeepWaiting
  BY <1>3, TypeFrame DEF TypeOK, KeepWaiting, PcValues
<1>4. CASE RecvTimeout
  BY <1>4, TypeFrame DEF TypeOK, RecvTimeout, PcValues
<1>5. CASE RecvLines
  <2>0. pc' \in PcValues /\ starts' \in [Steps -> Nat]
    BY <1>5 DEF TypeOK, TypeRun, RecvLines, PcValues
  <2>1. TypePump'
    BY ReceiveType, <1>5 DEF TypeOK, TypePump, RecvLines
  <2>q. QED BY <1>5, <2>0, <2>1, TypeFrame DEF TypeOK, RecvLines
<1>6. CASE RecvTuiRedraw
  <2>0. pc' \in PcValues /\ starts' \in [Steps -> Nat]
    BY <1>6 DEF TypeOK, TypeRun, RecvTuiRedraw, PcValues
  <2>1. TypePump'
    BY ReceiveType, <1>6 DEF TypeOK, TypePump, RecvTuiRedraw
  <2>2. TypeResult'
    BY ConstantsAssumption, <1>6 DEF TypeOK, TypeResult, RecvTuiRedraw,
       Outcomes, resultVars
  <2>3. TypeServer'
    BY ConstantsAssumption, <1>6 DEF TypeOK, TypeRun, TypeServer,
       RecvTuiRedraw, EndSession, GoesAstray, Steps, NoStep, Reasons, serverVars
  <2>q. QED BY <1>6, <2>0, <2>1, <2>2, <2>3, TypeFrame DEF TypeOK,
               RecvTuiRedraw
<1>7. CASE RecvEnded
  <2>0. pc' \in PcValues /\ starts' \in [Steps -> Nat]
    BY <1>7 DEF TypeOK, TypeRun, RecvEnded, Result, PcValues
  <2>1. TypePump'
    BY ReceiveType, <1>7 DEF TypeOK, TypePump, RecvEnded
  <2>2. TypeResult'
    BY ConstantsAssumption, <1>7 DEF TypeOK, TypeResult, RecvEnded, Result,
       ExitOutcome, Outcomes, resultVars
  <2>q. QED BY <1>7, <2>0, <2>1, <2>2, TypeFrame DEF TypeOK, RecvEnded
<1>8. CASE RecvDisconnected
  <2>0. pc' \in PcValues /\ starts' \in [Steps -> Nat]
    BY <1>8 DEF TypeOK, TypeRun, RecvDisconnected, Failure, PcValues
  <2>1. TypePump'
    BY ReceiveType, <1>8 DEF TypeOK, TypePump, RecvDisconnected
  <2>2. TypeResult'
    BY ConstantsAssumption, <1>8 DEF TypeOK, TypeResult, RecvDisconnected,
       Failure, Outcomes, resultVars
  <2>3. TypeLoop'
    BY <1>8 DEF TypeOK, TypeLoop, RecvDisconnected, loopVars
  <2>q. QED BY <1>8, <2>0, <2>1, <2>2, <2>3, TypeFrame DEF TypeOK,
               RecvDisconnected
<1>9. CASE Reconnect
  <2>0. pc' \in PcValues /\ starts' \in [Steps -> Nat]
    BY <1>9 DEF TypeOK, TypeRun, Reconnect, Failure, PcValues
  <2>1. TypePump'
    BY ConstantsAssumption, <1>9 DEF TypeOK, TypePump, Reconnect, Messages,
       pumpVars
  <2>2. TypeResult'
    BY ConstantsAssumption, <1>9 DEF TypeOK, TypeResult, Reconnect, Failure,
       Outcomes, resultVars
  <2>3. TypeLoop'
    BY <1>9 DEF TypeOK, TypeLoop, Reconnect, loopVars
  <2>4. TypeConn'
    BY <1>9 DEF TypeOK, TypeRun, TypeConn, Reconnect, Steps, connVars
  <2>q. QED BY <1>9, <2>0, <2>1, <2>2, <2>3, <2>4, TypeFrame DEF TypeOK,
               Reconnect
<1>10. CASE Reattach
  <2>0. pc' \in PcValues /\ starts' \in [Steps -> Nat]
    BY <1>10 DEF TypeOK, TypeRun, Reattach, Failure, PcValues
  <2>1. TypeResult'
    BY ConstantsAssumption, <1>10 DEF TypeOK, TypeResult, Reattach, Failure,
       Outcomes, resultVars
  <2>q. QED BY <1>10, <2>0, <2>1, TypeFrame DEF TypeOK, Reattach
<1>11. CASE Reregister
  <2>0. pc' \in PcValues /\ starts' \in [Steps -> Nat]
    BY <1>11 DEF TypeOK, TypeRun, Reregister, PcValues
  <2>1. TypePump'
    BY ConstantsAssumption, <1>11 DEF TypeOK, TypePump, Reregister, Messages,
       pumpVars
  <2>q. QED BY <1>11, <2>0, <2>1, TypeFrame DEF TypeOK, Reregister
<1>q. QED BY <1>1, <1>2, <1>3, <1>4, <1>5, <1>6, <1>7, <1>8, <1>9, <1>10,
             <1>11 DEF Loop

\* Types are kept by ending, reporting and moving on.
LEMMA TypeSettleStep == TypeOK /\ Settle => TypeOK'
<1> SUFFICES ASSUME TypeOK, Settle PROVE TypeOK'
  OBVIOUS
<1>1. CASE GraceRecv
  <2>0. pc' \in PcValues /\ starts' \in [Steps -> Nat]
    BY <1>1 DEF TypeOK, TypeRun, GraceRecv, Result, PcValues
  <2>1. TypePump'
    BY DequeueType, <1>1 DEF TypeOK, TypePump, GraceRecv
  <2>2. TypeResult'
    BY ConstantsAssumption, <1>1 DEF TypeOK, TypeResult, GraceRecv, Result,
       AwaitedOutcome, Outcomes, resultVars
  <2>q. QED BY <1>1, <2>0, <2>1, <2>2, TypeFrame DEF TypeOK, GraceRecv
<1>2. CASE GraceExpires
  <2>0. pc' \in PcValues /\ starts' \in [Steps -> Nat]
    BY <1>2 DEF TypeOK, TypeRun, GraceExpires, Result, PcValues
  <2>1. TypePump'
    BY ConstantsAssumption, <1>2 DEF TypeOK, TypePump, GraceExpires, Messages,
       pumpVars
  <2>2. TypeResult'
    BY ConstantsAssumption, <1>2 DEF TypeOK, TypeResult, GraceExpires, Result,
       AwaitedOutcome, Outcomes, resultVars
  <2>q. QED BY <1>2, <2>0, <2>1, <2>2, TypeFrame DEF TypeOK, GraceExpires
<1>3. CASE Cleanup
  <2>0. pc' \in PcValues /\ starts' \in [Steps -> Nat]
    BY <1>3 DEF TypeOK, TypeRun, Cleanup, PcValues
  <2>1. TypeServer'
    <3>1. /\ UNCHANGED <<sess, reason, endReq, typed, loaded>>
          /\ payload' \in {payload, [payload EXCEPT ![StepId[step]] = NoStep]}
          /\ discarded' \in {discarded, discarded \cup {step}}
          /\ astray' \in {astray, astray \cup {step}}
      BY <1>3 DEF Cleanup, GoesAstray
    <3> QED BY <3>1 DEF TypeOK, TypeRun, TypeServer
  <2>q. QED BY <1>3, <2>0, <2>1, TypeFrame DEF TypeOK, Cleanup
<1>4. CASE ReportResult
  <2>0. pc' \in PcValues /\ starts' \in [Steps -> Nat]
    BY <1>4 DEF TypeOK, TypeRun, ReportResult, Report, PcValues
  <2>1. TypeRun'
    BY ConstantsAssumption, <1>4 DEF TypeOK, TypeRun, TypeResult,
       ReportResult, Report
  <2>q. QED BY <1>4, <2>0, <2>1, TypeFrame DEF TypeOK, ReportResult, Report
<1>5. CASE ReportFailure
  <2>0. pc' \in PcValues /\ starts' \in [Steps -> Nat]
    BY <1>5 DEF TypeOK, TypeRun, ReportFailure, Report, PcValues
  <2>1. TypeRun'
    BY ConstantsAssumption, <1>5 DEF TypeOK, TypeRun, ReportFailure, Report,
       Outcomes, Steps, runVars
  <2>q. QED BY <1>5, <2>0, <2>1, TypeFrame DEF TypeOK, ReportFailure, Report
<1>6. CASE Fallback
  BY <1>6, TypeFrame DEF TypeOK, Fallback, PcValues
<1>7. CASE SshStart
  <2>0. pc' \in PcValues /\ starts' \in [Steps -> Nat]
    BY <1>7 DEF TypeOK, TypeRun, SshStart, PcValues
  <2>1. TypeSsh'
    BY <1>7 DEF TypeOK, TypeRun, TypeSsh, SshStart, Steps, Reasons, sshVars
  <2>q. QED BY <1>7, <2>0, <2>1, TypeFrame DEF TypeOK, SshStart
<1>8. CASE SshReport
  <2>0. pc' \in PcValues /\ starts' \in [Steps -> Nat]
    BY <1>8 DEF TypeOK, TypeRun, SshReport, Report, PcValues
  <2>1. TypeRun'
    BY ConstantsAssumption, <1>8 DEF TypeOK, TypeRun, SshReport, Report,
       ExitOutcome, Outcomes, Steps, runVars
  <2>q. QED BY <1>8, <2>0, <2>1, TypeFrame DEF TypeOK, SshReport, Report
<1>9. CASE Advance
  <2>0. pc' \in PcValues /\ starts' \in [Steps -> Nat]
    BY <1>9 DEF TypeOK, TypeRun, Advance, PcValues
  <2>1. TypeRun'
    BY ConstantsAssumption, <1>9 DEF TypeOK, TypeRun, Advance, Outcomes,
       Steps, runVars
  <2>2. TypeResult'
    BY ConstantsAssumption, <1>9 DEF TypeOK, TypeResult, Advance, Outcomes,
       resultVars
  <2>3. TypeLoop'
    BY <1>9 DEF TypeOK, TypeLoop, Advance, loopVars
  <2>4. TypePump'
    BY EmptyQueue, <1>9 DEF TypeOK, TypePump, Advance
  <2>q. QED BY <1>9, <2>0, <2>1, <2>2, <2>3, <2>4, TypeFrame DEF TypeOK,
               Advance
<1>q. QED BY <1>1, <1>2, <1>3, <1>4, <1>5, <1>6, <1>7, <1>8, <1>9 DEF Settle

\* Types are kept by the pump.
LEMMA TypePumpStep == TypeOK /\ Pump => TypeOK'
<1> SUFFICES ASSUME TypeOK, Pump PROVE TypeOK'
  OBVIOUS
<1>1. ASSUME NEW m \in {"Lines", "TuiRedraw"}, PumpFrame(m) PROVE TypeOK'
  <2>1. TypePump'
    BY <1>1, DeliverType DEF TypeOK, TypePump, PumpFrame, Messages
  <2> QED BY <1>1, <2>1, TypeFrame DEF TypeOK, PumpFrame
<1>2. CASE PumpEnded
  <2>1. TypePump'
    BY <1>2, DeliverType DEF TypeOK, TypePump, PumpEnded, Messages
  <2> QED BY <1>2, <2>1, TypeFrame DEF TypeOK, PumpEnded
<1>3. CASE PumpDisconnected
  <2>1. TypePump'
    BY <1>3, DeliverType DEF TypeOK, TypePump, PumpDisconnected, Messages
  <2>2. TypeConn'
    BY <1>3 DEF TypeOK, TypeConn, PumpDisconnected
  <2> QED BY <1>3, <2>1, <2>2, TypeFrame DEF TypeOK, PumpDisconnected
<1> QED BY <1>1, <1>2, <1>3 DEF Pump

\* A session that ends keeps the types.
LEMMA SessionEndsType ==
  ASSUME TypeOK, NEW s \in Steps, NEW r \in Reasons, SessionEnds(s, r)
  PROVE  TypeOK'
<1>1. TypeServer'
  BY DEF TypeOK, TypeServer, SessionEnds
<1>2. TypePump'
  BY DEF TypeOK, TypePump, TypeConn, SessionEnds
<1> QED BY <1>1, <1>2, TypeFrame DEF TypeOK, SessionEnds

\* Types are kept by the target.
LEMMA TypeTargetStep == TypeOK /\ Target => TypeOK'
<1> SUFFICES ASSUME TypeOK, Target PROVE TypeOK'
  OBVIOUS
<1>1. ASSUME NEW s \in Steps, ReadBootstrap(s) PROVE TypeOK'
  <2> DEFINE t == payload[StepId[s]]
  <2>t. t \in Steps \cup {NoStep}
    BY ConstantsAssumption DEF TypeOK, TypeServer
  <2>1. CASE t = NoStep
    BY <1>1, <2>1, SessionEndsType DEF ReadBootstrap, Reasons
  <2>2. CASE t # NoStep
    <3>1. starts' \in [Steps -> Nat] /\ pc' \in PcValues
      BY <1>1, <2>2, <2>t DEF ReadBootstrap, TypeOK
    <3>2. TypeServer'
      BY <1>1, <2>2, <2>t DEF ReadBootstrap, TypeOK, TypeServer
    <3> QED BY <1>1, <2>2, <3>1, <3>2, TypeFrame DEF ReadBootstrap, TypeOK
  <2> QED BY <2>1, <2>2
<1>2. ASSUME NEW s \in Steps, ServerEnds(s) PROVE TypeOK'
  BY <1>2, SessionEndsType DEF ServerEnds, Reasons
<1>3. ASSUME NEW s \in Steps, AppKills(s) PROVE TypeOK'
  BY <1>3, SessionEndsType DEF AppKills, Reasons
<1>4. ASSUME NEW s \in Steps, ServerStops(s) PROVE TypeOK'
  BY <1>4, SessionEndsType DEF ServerStops, Reasons
<1>5. ASSUME NEW s \in Steps,
             NEW r \in {"Exited0", "Exited42", "ExitedN", "Signaled"},
             ScriptExits(s, r)
      PROVE  TypeOK'
  BY <1>5, SessionEndsType DEF ScriptExits, Reasons
<1>6. ASSUME NEW r \in {"Exited0", "Exited42", "ExitedN"}, SshExit(r)
      PROVE  TypeOK'
  <2>1. TypeSsh'
    BY <1>6 DEF SshExit, TypeOK, TypeRun, TypeSsh, Reasons
  <2> QED BY <1>6, <2>1, TypeFrame DEF SshExit, TypeOK
<1> QED BY <1>1, <1>2, <1>3, <1>4, <1>5, <1>6 DEF Target

\* Types are kept by the link, the operator and the clock.
LEMMA TypeOutsideStep ==
  TypeOK /\ (LinkDrops \/ Interrupt \/ DeadlinePasses) => TypeOK'
<1>1. TypeOK /\ LinkDrops => TypeOK'
  <2> SUFFICES ASSUME TypeOK, LinkDrops PROVE TypeOK'
    OBVIOUS
  <2>1. TypeConn'
    BY CutType DEF TypeOK, LinkDrops
  <2>2. TypePump'
    BY DEF TypeOK, TypePump, LinkDrops
  <2> QED BY <2>1, <2>2, TypeFrame DEF TypeOK, LinkDrops
<1>2. TypeOK /\ (Interrupt \/ DeadlinePasses) => TypeOK'
  <2> SUFFICES ASSUME TypeOK, Interrupt \/ DeadlinePasses PROVE TypeOK'
    OBVIOUS
  <2>1. TypeLoop'
    BY DEF TypeOK, TypeLoop, Interrupt, DeadlinePasses
  <2> QED BY <2>1, TypeFrame DEF TypeOK, Interrupt, DeadlinePasses
<1> QED BY <1>1, <1>2

\* The types hold initially.
LEMMA TypeInit == Init => TypeOK
<1> SUFFICES ASSUME Init PROVE TypeOK
  OBVIOUS
<1>a. 1 \in Steps /\ 0 \in 0..MaxCuts
  BY ConstantsAssumption DEF Steps
<1>1. TypeRun /\ TypeResult /\ TypeLoop
  BY <1>a DEF Init, TypeRun, TypeResult, TypeLoop, Outcomes
<1>2. TypePump
  BY EmptyQueue DEF Init, TypePump
<1>3. TypeConn
  BY <1>a DEF Init, TypeConn
<1>4. TypeServer /\ TypeSsh
  BY DEF Init, TypeServer, TypeSsh
<1> QED BY <1>1, <1>2, <1>3, <1>4 DEF Init, TypeOK, PcValues

\* Types are kept by every step.
LEMMA TypeStep == TypeOK /\ [Next]_vars => TypeOK'
<1>1. TypeOK /\ Next => TypeOK'
  <2>1. TypeOK /\ Finished => TypeOK'
    BY TypeFrame DEF TypeOK, Finished, vars
  <2> QED BY <2>1, TypeEnsureStep, TypeLaunchStep, TypeLoopStep,
             TypeSettleStep, TypePumpStep, TypeTargetStep, TypeOutsideStep
          DEF Next, StepThread
<1>2. TypeOK /\ UNCHANGED vars => TypeOK'
  BY TypeFrame DEF TypeOK, vars
<1> QED BY <1>1, <1>2

\* In every run every variable has its type; the queue of a step stays within
\* the pump's bound whatever the target and the link do (conn.rs:64).
THEOREM TypeCorrect == Spec => []TypeOK
BY TypeInit, TypeStep, PTL DEF Spec

-----------------------------------------------------------------------------
(* Every script begins at most once                                         *)

\* Every step has a payload file of its own.
OwnPayloads == \A s, t \in Steps : StepId[s] = StepId[t] => s = t

\* A payload file holds the script of the step it is named for, and a session
\* executes no other.
PayloadInv == \A s \in Steps :
  /\ payload[StepId[s]] \in {NoStep, s}
  /\ loaded[s] \in {NoStep, s}
  /\ loaded[s] = s => s \in typed /\ sess[s] \in {"script", "ended"}

\* Every start of a script is its start over ssh or in its session, and a
\* step whose shell was sent the bootstrap line never runs over ssh.
StartsInv == \A s \in Steps :
  /\ starts[s] \in {0, 1}
  /\ s \notin sshRan /\ loaded[s] # s => starts[s] = 0
  /\ s \in sshRan => s \notin typed

BeforeBootstrap == {"ensure", "write", "create", "attach", "register", "boot"}
WithSession == {"check", "recv", "reconnect", "reattach", "reregister",
                "grace"}

\* What the thread's position says of the step it is at and of the steps to
\* come: while the choice between the transports is open, neither was used.
PositionInv ==
  /\ \A s \in Steps : s > step => s \notin typed /\ s \notin sshRan
  /\ pc \in BeforeBootstrap \cup {"ssh"} =>
       step \notin typed /\ step \notin sshRan
  /\ pc \in WithSession \cup {"cleanup", "report"} => step \notin sshRan
  /\ pc \in {"cleanup", "report"} /\ verdict = "failure" /\ ~known =>
       step \notin typed
  /\ pc = "sshrun" => step \notin typed

OnceInv == PayloadInv /\ StartsInv /\ PositionInv

\* What an action leaves alone keeps its part of the invariant.
LEMMA OnceFrame ==
  UNCHANGED <<serverVars, sshVars, starts>> =>
    (PayloadInv => PayloadInv') /\ (StartsInv => StartsInv')
  BY DEF PayloadInv, StartsInv, serverVars, sshVars

\* Writing or removing the payload of the current step leaves every file with
\* the script of the step it is named for.
LEMMA PayloadWritten ==
  ASSUME OwnPayloads, TypeOK, PayloadInv, NEW x \in {NoStep, step},
         \/ payload' = payload
         \/ payload' = [payload EXCEPT ![StepId[step]] = x]
  PROVE  \A s \in Steps : payload'[StepId[s]] \in {NoStep, s}
<1> TAKE s \in Steps
<1>1. StepId[s] \in PayloadNames /\ step \in Steps
  BY ConstantsAssumption DEF TypeOK, TypeRun
<1>2. CASE s = step
  BY <1>1, <1>2 DEF PayloadInv, TypeOK, TypeServer
<1>3. CASE s # step
  BY <1>1, <1>3 DEF PayloadInv, OwnPayloads, TypeOK, TypeServer
<1> QED BY <1>2, <1>3

\* The steps to come are others than the current one, and the next step is
\* one of them.
LEMMA LaterSteps ==
  ASSUME TypeOK, NEW s \in Steps
  PROVE  /\ s > step => s # step
         /\ step # NumSteps => step + 1 \in Steps /\ step + 1 > step
         /\ s > step + 1 => s > step
  BY ConstantsAssumption DEF TypeOK, TypeRun, Steps

\* The invariant is kept while a transport is chosen.
LEMMA OnceEnsureStep ==
  ASSUME TypeOK, OnceInv, Ensure
  PROVE  OnceInv'
<1>1. CASE ReuseConnection
  <2>1. PayloadInv' /\ StartsInv'
    BY <1>1, OnceFrame DEF OnceInv, ReuseConnection
  <2>2. PositionInv'
    BY <1>1 DEF OnceInv, PositionInv, BeforeBootstrap, WithSession, TypeOK,
         TypeRun, ReuseConnection, runVars, resultVars, serverVars, sshVars
  <2> QED BY <2>1, <2>2 DEF OnceInv
<1>2. CASE KnownUnavailable
  <2>1. PayloadInv' /\ StartsInv'
    BY <1>2, OnceFrame DEF OnceInv, KnownUnavailable
  <2>2. PositionInv'
    BY <1>2 DEF OnceInv, PositionInv, BeforeBootstrap, WithSession, TypeOK,
         TypeRun, KnownUnavailable, FallbackOrFail, Failure, runVars,
         resultVars, serverVars, sshVars
  <2> QED BY <2>1, <2>2 DEF OnceInv
<1>3. CASE Connect
  <2>1. PayloadInv' /\ StartsInv'
    BY <1>3, OnceFrame DEF OnceInv, Connect
  <2>2. PositionInv'
    BY <1>3 DEF OnceInv, PositionInv, BeforeBootstrap, WithSession, TypeOK,
         TypeRun, Connect, FallbackOrFail, Failure, runVars, resultVars,
         serverVars, sshVars
  <2> QED BY <2>1, <2>2 DEF OnceInv
<1>4. CASE ConnectFails
  <2>1. PayloadInv' /\ StartsInv'
    BY <1>4, OnceFrame DEF OnceInv, ConnectFails
  <2>2. PositionInv'
    BY <1>4 DEF OnceInv, PositionInv, BeforeBootstrap, WithSession, TypeOK,
         TypeRun, ConnectFails, FallbackOrFail, Failure, runVars, resultVars,
         serverVars, sshVars
  <2> QED BY <2>1, <2>2 DEF OnceInv
<1> QED BY <1>1, <1>2, <1>3, <1>4 DEF Ensure

\* The invariant is kept while a session is started.
LEMMA OnceLaunchStep ==
  ASSUME OwnPayloads, ~AmbiguousInput, TypeOK, OnceInv, Launch
  PROVE  OnceInv'
<1>1. CASE RefuseEnv
  <2>1. PayloadInv' /\ StartsInv'
    BY <1>1, OnceFrame DEF OnceInv, RefuseEnv
  <2>2. PositionInv'
    BY <1>1 DEF OnceInv, PositionInv, BeforeBootstrap, WithSession, TypeOK,
         TypeRun, RefuseEnv, Failure, runVars, resultVars, serverVars, sshVars
  <2> QED BY <2>1, <2>2 DEF OnceInv
<1>2. CASE WritePayload
  <2>1. PayloadInv'
    <3>1. \A s \in Steps : payload'[StepId[s]] \in {NoStep, s}
      BY <1>2, PayloadWritten DEF OnceInv, WritePayload
    <3> QED BY <1>2, <3>1 DEF OnceInv, PayloadInv, WritePayload
  <2>2. StartsInv'
    BY <1>2 DEF OnceInv, StartsInv, PayloadInv, PositionInv, BeforeBootstrap,
         TypeOK, TypeRun, TypeServer, TypeSsh, WritePayload, serverVars,
         sshVars
  <2>3. PositionInv'
    BY <1>2 DEF OnceInv, PositionInv, BeforeBootstrap, WithSession, TypeOK,
         TypeRun, WritePayload, Failure, runVars, resultVars, serverVars,
         sshVars
  <2> QED BY <2>1, <2>2, <2>3 DEF OnceInv
<1>3. CASE CreateSession
  <2>1. PayloadInv'
    <3>1. \A s \in Steps : payload'[StepId[s]] \in {NoStep, s}
      BY <1>3, PayloadWritten DEF OnceInv, CreateSession
    <3>2. step \notin typed
      BY <1>3 DEF OnceInv, PositionInv, BeforeBootstrap, CreateSession
    <3>3. loaded' = loaded /\ typed' = typed
      BY <1>3 DEF CreateSession
    <3>4. \A s \in Steps : s # step => sess'[s] = sess[s]
      BY <1>3 DEF CreateSession, TypeOK, TypeServer, serverVars
    <3> QED BY <3>1, <3>2, <3>3, <3>4 DEF OnceInv, PayloadInv
  <2>2. StartsInv'
    BY <1>3 DEF OnceInv, StartsInv, PayloadInv, PositionInv, BeforeBootstrap,
         TypeOK, TypeRun, TypeServer, TypeSsh, CreateSession, serverVars,
         sshVars
  <2>3. PositionInv'
    BY <1>3 DEF OnceInv, PositionInv, BeforeBootstrap, WithSession, TypeOK,
         TypeRun, CreateSession, Failure, runVars, resultVars, serverVars,
         sshVars
  <2> QED BY <2>1, <2>2, <2>3 DEF OnceInv
<1>4. CASE Attach
  <2>1. PayloadInv' /\ StartsInv'
    BY <1>4 DEF OnceInv, PayloadInv, StartsInv, Attach, sshVars
  <2>2. PositionInv'
    BY <1>4 DEF OnceInv, PositionInv, BeforeBootstrap, WithSession, TypeOK,
         TypeRun, Attach, Failure, runVars, resultVars, serverVars, sshVars
  <2> QED BY <2>1, <2>2 DEF OnceInv
<1>5. CASE Register
  <2>1. PayloadInv' /\ StartsInv'
    BY <1>5, OnceFrame DEF OnceInv, Register
  <2>2. PositionInv'
    BY <1>5 DEF OnceInv, PositionInv, BeforeBootstrap, WithSession, TypeOK,
         TypeRun, Register, runVars, resultVars, serverVars, sshVars
  <2> QED BY <2>1, <2>2 DEF OnceInv
<1>6. CASE WriteBootstrap
  <2>1. PayloadInv'
    <3>1. UNCHANGED <<payload, loaded, sess>> /\ typed \subseteq typed'
      BY <1>6 DEF WriteBootstrap
    <3> QED BY <3>1 DEF OnceInv, PayloadInv
  <2>2. StartsInv'
    <3>1. step \notin sshRan /\ typed' \subseteq typed \cup {step}
      BY <1>6 DEF OnceInv, PositionInv, BeforeBootstrap, WriteBootstrap
    <3> QED BY <1>6, <3>1 DEF OnceInv, StartsInv, WriteBootstrap, sshVars
  <2>3. PositionInv'
    <3>1. step \notin sshRan /\ step \notin typed
      BY <1>6 DEF OnceInv, PositionInv, BeforeBootstrap, WriteBootstrap
    <3>2. \A s \in Steps : s > step => s \notin typed' /\ s \notin sshRan
      BY <1>6, LaterSteps DEF OnceInv, PositionInv, WriteBootstrap
    <3>3. pc' = "check" \/ (pc' = "cleanup" /\ typed' = typed)
      BY <1>6 DEF WriteBootstrap, Failure
    <3> QED BY <1>6, <3>1, <3>2, <3>3
            DEF PositionInv, BeforeBootstrap, WithSession, WriteBootstrap,
                runVars, sshVars
  <2> QED BY <2>1, <2>2, <2>3 DEF OnceInv
<1> QED BY <1>1, <1>2, <1>3, <1>4, <1>5, <1>6 DEF Launch

\* The invariant is kept by one turn of the loop.
LEMMA OnceLoopStep ==
  ASSUME TypeOK, OnceInv, Loop
  PROVE  OnceInv'
<1>1. CASE CancelOutcome
  <2>1. PayloadInv' /\ StartsInv'
    BY <1>1 DEF OnceInv, PayloadInv, StartsInv, CancelOutcome, sshVars
  <2>2. PositionInv'
    BY <1>1 DEF OnceInv, PositionInv, BeforeBootstrap, WithSession, TypeOK,
         TypeRun, CancelOutcome, Result, runVars, resultVars, serverVars,
         sshVars
  <2> QED BY <2>1, <2>2 DEF OnceInv
<1>2. CASE TimeoutOutcome
  <2>1. PayloadInv' /\ StartsInv'
    BY <1>2 DEF OnceInv, PayloadInv, StartsInv, TimeoutOutcome, sshVars
  <2>2. PositionInv'
    BY <1>2 DEF OnceInv, PositionInv, BeforeBootstrap, WithSession, TypeOK,
         TypeRun, TimeoutOutcome, runVars, resultVars, serverVars, sshVars
  <2> QED BY <2>1, <2>2 DEF OnceInv
<1>3. CASE KeepWaiting
  <2>1. PayloadInv' /\ StartsInv'
    BY <1>3, OnceFrame DEF OnceInv, KeepWaiting
  <2>2. PositionInv'
    BY <1>3 DEF OnceInv, PositionInv, BeforeBootstrap, WithSession, TypeOK,
         TypeRun, KeepWaiting, runVars, resultVars, serverVars, sshVars
  <2> QED BY <2>1, <2>2 DEF OnceInv
<1>4. CASE RecvTimeout
  <2>1. PayloadInv' /\ StartsInv'
    BY <1>4, OnceFrame DEF OnceInv, RecvTimeout
  <2>2. PositionInv'
    BY <1>4 DEF OnceInv, PositionInv, BeforeBootstrap, WithSession, TypeOK,
         TypeRun, RecvTimeout, runVars, resultVars, serverVars, sshVars
  <2> QED BY <2>1, <2>2 DEF OnceInv
<1>5. CASE RecvLines
  <2>1. PayloadInv' /\ StartsInv'
    BY <1>5, OnceFrame DEF OnceInv, RecvLines
  <2>2. PositionInv'
    BY <1>5 DEF OnceInv, PositionInv, BeforeBootstrap, WithSession, TypeOK,
         TypeRun, RecvLines, runVars, resultVars, serverVars, sshVars
  <2> QED BY <2>1, <2>2 DEF OnceInv
<1>6. CASE RecvTuiRedraw
  <2>1. PayloadInv' /\ StartsInv'
    BY <1>6 DEF OnceInv, PayloadInv, StartsInv, RecvTuiRedraw, sshVars
  <2>2. PositionInv'
    BY <1>6 DEF OnceInv, PositionInv, BeforeBootstrap, WithSession, TypeOK,
         TypeRun, RecvTuiRedraw, runVars, resultVars, serverVars, sshVars
  <2> QED BY <2>1, <2>2 DEF OnceInv
<1>7. CASE RecvEnded
  <2>1. PayloadInv' /\ StartsInv'
    BY <1>7, OnceFrame DEF OnceInv, RecvEnded
  <2>2. PositionInv'
    BY <1>7 DEF OnceInv, PositionInv, BeforeBootstrap, WithSession, TypeOK,
         TypeRun, RecvEnded, Result, ExitOutcome, runVars, resultVars,
         serverVars, sshVars
  <2> QED BY <2>1, <2>2 DEF OnceInv
<1>8. CASE RecvDisconnected
  <2>1. PayloadInv' /\ StartsInv'
    BY <1>8, OnceFrame DEF OnceInv, RecvDisconnected
  <2>2. PositionInv'
    BY <1>8 DEF OnceInv, PositionInv, BeforeBootstrap, WithSession, TypeOK,
         TypeRun, RecvDisconnected, Failure, runVars, resultVars, serverVars,
         sshVars
  <2> QED BY <2>1, <2>2 DEF OnceInv
<1>9. CASE Reconnect
  <2>1. PayloadInv' /\ StartsInv'
    BY <1>9, OnceFrame DEF OnceInv, Reconnect
  <2>2. PositionInv'
    BY <1>9 DEF OnceInv, PositionInv, BeforeBootstrap, WithSession, TypeOK,
         TypeRun, Reconnect, Failure, runVars, resultVars, serverVars, sshVars
  <2> QED BY <2>1, <2>2 DEF OnceInv
<1>10. CASE Reattach
  <2>1. PayloadInv' /\ StartsInv'
    BY <1>10, OnceFrame DEF OnceInv, Reattach
  <2>2. PositionInv'
    BY <1>10 DEF OnceInv, PositionInv, BeforeBootstrap, WithSession, TypeOK,
         TypeRun, Reattach, Failure, runVars, resultVars, serverVars, sshVars
  <2> QED BY <2>1, <2>2 DEF OnceInv
<1>11. CASE Reregister
  <2>1. PayloadInv' /\ StartsInv'
    BY <1>11, OnceFrame DEF OnceInv, Reregister
  <2>2. PositionInv'
    BY <1>11 DEF OnceInv, PositionInv, BeforeBootstrap, WithSession, TypeOK,
         TypeRun, Reregister, runVars, resultVars, serverVars, sshVars
  <2> QED BY <2>1, <2>2 DEF OnceInv
<1> QED BY <1>1, <1>2, <1>3, <1>4, <1>5, <1>6, <1>7, <1>8, <1>9, <1>10, <1>11
           DEF Loop

\* The invariant is kept when the step is settled.
LEMMA OnceSettleStep ==
  ASSUME OwnPayloads, TypeOK, OnceInv, Settle
  PROVE  OnceInv'
<1>1. CASE GraceRecv
  <2>1. PayloadInv' /\ StartsInv'
    BY <1>1, OnceFrame DEF OnceInv, GraceRecv
  <2>2. PositionInv'
    BY <1>1 DEF OnceInv, PositionInv, BeforeBootstrap, WithSession, TypeOK,
         TypeRun, GraceRecv, Result, AwaitedOutcome, runVars, resultVars,
         serverVars, sshVars
  <2> QED BY <2>1, <2>2 DEF OnceInv
<1>2. CASE GraceExpires
  <2>1. PayloadInv' /\ StartsInv'
    BY <1>2, OnceFrame DEF OnceInv, GraceExpires
  <2>2. PositionInv'
    BY <1>2 DEF OnceInv, PositionInv, BeforeBootstrap, WithSession, TypeOK,
         TypeRun, GraceExpires, Result, AwaitedOutcome, runVars, resultVars,
         serverVars, sshVars
  <2> QED BY <2>1, <2>2 DEF OnceInv
<1>3. CASE Cleanup
  <2>1. PayloadInv'
    BY <1>3, ConstantsAssumption DEF OnceInv, PayloadInv, PositionInv,
         BeforeBootstrap, OwnPayloads, TypeOK, TypeRun, TypeServer, Cleanup,
         serverVars
  <2>2. StartsInv'
    BY <1>3 DEF OnceInv, StartsInv, PayloadInv, PositionInv, BeforeBootstrap,
         TypeOK, TypeRun, TypeServer, TypeSsh, Cleanup, serverVars, sshVars
  <2>3. PositionInv'
    BY <1>3 DEF OnceInv, PositionInv, BeforeBootstrap, WithSession, TypeOK,
         TypeRun, Cleanup, runVars, resultVars, serverVars, sshVars
  <2> QED BY <2>1, <2>2, <2>3 DEF OnceInv
<1>4. CASE ReportResult
  <2>1. PayloadInv' /\ StartsInv'
    BY <1>4, OnceFrame DEF OnceInv, ReportResult, Report
  <2>2. PositionInv'
    BY <1>4 DEF OnceInv, PositionInv, BeforeBootstrap, WithSession, TypeOK,
         TypeRun, TypeResult, ReportResult, Report, runVars, resultVars,
         serverVars, sshVars
  <2> QED BY <2>1, <2>2 DEF OnceInv
<1>5. CASE ReportFailure
  <2>1. PayloadInv' /\ StartsInv'
    BY <1>5, OnceFrame DEF OnceInv, ReportFailure, Report
  <2>2. PositionInv'
    BY <1>5 DEF OnceInv, PositionInv, BeforeBootstrap, WithSession, TypeOK,
         TypeRun, TypeResult, ReportFailure, Report, runVars, resultVars,
         serverVars, sshVars
  <2> QED BY <2>1, <2>2 DEF OnceInv
<1>6. CASE Fallback
  <2>1. PayloadInv' /\ StartsInv'
    BY <1>6, OnceFrame DEF OnceInv, Fallback
  <2>2. PositionInv'
    BY <1>6 DEF OnceInv, PositionInv, BeforeBootstrap, WithSession, TypeOK,
         TypeRun, Fallback, runVars, resultVars, serverVars, sshVars
  <2> QED BY <2>1, <2>2 DEF OnceInv
<1>7. CASE SshStart
  <2>1. PayloadInv'
    BY <1>7, ConstantsAssumption DEF OnceInv, PayloadInv, PositionInv,
         BeforeBootstrap, OwnPayloads, TypeOK, TypeRun, TypeServer, SshStart,
         serverVars
  <2>2. StartsInv'
    BY <1>7 DEF OnceInv, StartsInv, PayloadInv, PositionInv, BeforeBootstrap,
         TypeOK, TypeRun, TypeServer, TypeSsh, SshStart, serverVars, sshVars
  <2>3. PositionInv'
    <3>1. \A s \in Steps : s > step => s \notin typed /\ s \notin sshRan'
      BY <1>7, LaterSteps DEF OnceInv, PositionInv, SshStart
    <3>2. step \notin typed
      BY <1>7 DEF OnceInv, PositionInv, SshStart
    <3> QED BY <1>7, <3>1, <3>2
            DEF PositionInv, BeforeBootstrap, WithSession, SshStart, runVars,
                serverVars
  <2> QED BY <2>1, <2>2, <2>3 DEF OnceInv
<1>8. CASE SshReport
  <2>1. PayloadInv' /\ StartsInv'
    BY <1>8, OnceFrame DEF OnceInv, SshReport, Report
  <2>2. PositionInv'
    BY <1>8 DEF OnceInv, PositionInv, BeforeBootstrap, WithSession, TypeOK,
         TypeRun, TypeResult, SshReport, Report, ExitOutcome, runVars,
         resultVars, serverVars, sshVars
  <2> QED BY <2>1, <2>2 DEF OnceInv
<1>9. CASE Advance
  <2>1. PayloadInv' /\ StartsInv'
    BY <1>9, OnceFrame DEF OnceInv, Advance
  <2>2. PositionInv'
    <3>1. CASE pc' = "done" /\ step' = step
      BY <1>9, <3>1 DEF OnceInv, PositionInv, BeforeBootstrap, WithSession,
                        Advance, serverVars, sshVars
    <3>2. CASE pc' = "ensure" /\ step' = step + 1 /\ step # NumSteps
      <4>1. step' \notin typed /\ step' \notin sshRan
        BY <3>2, LaterSteps DEF OnceInv, PositionInv, TypeOK, TypeRun
      <4>2. \A s \in Steps : s > step' => s \notin typed /\ s \notin sshRan
        BY <3>2, LaterSteps DEF OnceInv, PositionInv
      <4> QED BY <1>9, <3>2, <4>1, <4>2
              DEF PositionInv, BeforeBootstrap, WithSession, Advance,
                  serverVars, sshVars
    <3> QED BY <1>9, <3>1, <3>2 DEF Advance
  <2> QED BY <2>1, <2>2 DEF OnceInv
<1> QED BY <1>1, <1>2, <1>3, <1>4, <1>5, <1>6, <1>7, <1>8, <1>9 DEF Settle

\* The invariant is kept by what happens around the thread: only a shell that
\* was sent its bootstrap line starts a script.
LEMMA OnceOutsideStep ==
  ASSUME TypeOK, OnceInv,
         Pump \/ Target \/ LinkDrops \/ Interrupt \/ DeadlinePasses
  PROVE  OnceInv'
<1>1. ASSUME NEW s \in Steps, ReadBootstrap(s), payload[StepId[s]] # NoStep
      PROVE  OnceInv'
  <2>1. payload[StepId[s]] = s /\ loaded[s] # s /\ s \notin sshRan
    BY <1>1 DEF OnceInv, PayloadInv, StartsInv, ReadBootstrap
  <2>2. starts[s] = 0
    BY <2>1 DEF OnceInv, StartsInv
  <2>3. /\ loaded' = [loaded EXCEPT ![s] = s]
        /\ starts' = [starts EXCEPT ![s] = 1]
        /\ sess' = [sess EXCEPT ![s] = "script"]
    BY <1>1, <2>1, <2>2 DEF ReadBootstrap, TypeOK
  <2>4. PayloadInv'
    BY <1>1, <2>3 DEF OnceInv, PayloadInv, ReadBootstrap, TypeOK, TypeServer
  <2>5. StartsInv'
    BY <1>1, <2>1, <2>3
       DEF OnceInv, StartsInv, ReadBootstrap, TypeOK, TypeServer, sshVars
  <2>6. PositionInv'
    BY <1>1 DEF OnceInv, PositionInv, ReadBootstrap, runVars, resultVars,
                sshVars
  <2> QED BY <2>4, <2>5, <2>6 DEF OnceInv
<1>2. ASSUME NEW s \in Steps, NEW r, SessionEnds(s, r)
      PROVE  OnceInv'
  <2>1. PayloadInv'
    BY <1>2 DEF OnceInv, PayloadInv, SessionEnds, TypeOK, TypeServer
  <2>2. StartsInv'
    BY <1>2 DEF OnceInv, StartsInv, SessionEnds, sshVars
  <2>3. PositionInv'
    BY <1>2 DEF OnceInv, PositionInv, SessionEnds, runVars, resultVars, sshVars
  <2> QED BY <2>1, <2>2, <2>3 DEF OnceInv
<1>3. ASSUME NEW r, SshExit(r) PROVE OnceInv'
  <2>1. PayloadInv' /\ StartsInv'
    BY <1>3 DEF OnceInv, PayloadInv, StartsInv, SshExit, serverVars
  <2>2. PositionInv'
    BY <1>3 DEF OnceInv, PositionInv, SshExit, runVars, resultVars, serverVars
  <2> QED BY <2>1, <2>2 DEF OnceInv
<1>4. CASE Target
  BY <1>1, <1>2, <1>3, <1>4
     DEF Target, ReadBootstrap, ServerEnds, AppKills, ServerStops, ScriptExits
<1>5. ASSUME UNCHANGED <<pc, runVars, resultVars, serverVars, sshVars, starts>>
      PROVE  OnceInv'
  <2>1. PayloadInv' /\ StartsInv'
    BY <1>5, OnceFrame DEF OnceInv
  <2>2. PositionInv'
    BY <1>5 DEF OnceInv, PositionInv, runVars, resultVars, serverVars, sshVars
  <2> QED BY <2>1, <2>2 DEF OnceInv
<1>6. CASE Pump
  BY <1>5, <1>6 DEF Pump, PumpFrame, PumpEnded, PumpDisconnected
<1>7. CASE LinkDrops \/ Interrupt \/ DeadlinePasses
  BY <1>5, <1>7 DEF LinkDrops, Interrupt, DeadlinePasses
<1> QED BY <1>4, <1>6, <1>7

\* The invariant holds initially.
LEMMA OnceInit == Init => OnceInv
<1> SUFFICES ASSUME Init PROVE OnceInv
  OBVIOUS
<1>1. \A s \in Steps : StepId[s] \in PayloadNames
  BY ConstantsAssumption
<1>2. PayloadInv
  BY <1>1 DEF Init, PayloadInv, NoStep
<1>3. StartsInv
  BY DEF Init, StartsInv
<1>4. PositionInv
  BY DEF Init, PositionInv
<1> QED BY <1>2, <1>3, <1>4 DEF OnceInv

\* The invariant is kept by every step.
LEMMA OnceStep ==
  ASSUME OwnPayloads, ~AmbiguousInput, TypeOK, OnceInv, [Next]_vars
  PROVE  OnceInv'
<1>1. CASE UNCHANGED vars
  <2>1. PayloadInv' /\ StartsInv'
    BY <1>1, OnceFrame DEF OnceInv, vars
  <2>2. PositionInv'
    BY <1>1 DEF OnceInv, PositionInv, vars, runVars, resultVars, serverVars,
                sshVars
  <2> QED BY <2>1, <2>2 DEF OnceInv
<1> QED BY <1>1, OnceEnsureStep, OnceLaunchStep, OnceLoopStep, OnceSettleStep,
           OnceOutsideStep DEF Next, StepThread, Finished

\* A step that may have begun on the target is never run again: if every step
\* has its own payload file, and an input the client reports as failed did
\* not reach the shell, each script begins at most once (session.rs:122-125).
THEOREM OnceCorrect ==
  ASSUME OwnPayloads, ~AmbiguousInput
  PROVE  Spec => []AtMostOnce
<1>1. Init => OnceInv
  BY OnceInit
<1>2. TypeOK /\ OnceInv /\ [Next]_vars => OnceInv'
  BY OnceStep
<1>3. OnceInv => AtMostOnce
  <2> SUFFICES ASSUME OnceInv, NEW s \in Steps PROVE starts[s] <= 1
    BY DEF AtMostOnce
  <2>1. starts[s] \in {0, 1}
    BY DEF OnceInv, StartsInv
  <2> QED BY <2>1
<1> QED BY <1>1, <1>2, <1>3, TypeCorrect, PTL DEF Spec

-----------------------------------------------------------------------------
(* The session of the current step                                          *)

\* The message is on its way to the step.
Queued(m) == \E i \in 1..Len(rx) : rx[i] = m

\* A message that is received was queued, and no other message appears.
LEMMA Dequeued ==
  ASSUME TypePump, rx # <<>>, rx' = Tail(rx)
  PROVE  Queued(Head(rx)) /\ (\A m : Queued(m)' => Queued(m))
<1>1. /\ Len(rx) \in Nat /\ Len(rx) >= 1 /\ Head(rx) = rx[1]
      /\ Len(Tail(rx)) = Len(rx) - 1
      /\ \A i \in 1..Len(Tail(rx)) : Tail(rx)[i] = rx[i + 1]
  BY DEF TypePump
<1>2. \A i \in 1..Len(Tail(rx)) : i + 1 \in 1..Len(rx)
  BY <1>1
<1>3. Queued(Head(rx))
  BY <1>1 DEF Queued
<1> QED BY <1>1, <1>2, <1>3 DEF Queued

\* The pump adds the message it delivers and no other.
LEMMA Delivered ==
  ASSUME TypePump, NEW m \in Messages, Deliver(m)
  PROVE  \A k : Queued(k)' => Queued(k) \/ k = m
<1>1. CASE ~reg
  BY <1>1 DEF Deliver, Queued
<1>2. CASE reg
  <2>1. /\ Len(rx) \in Nat /\ Len(rx') = Len(rx) + 1
        /\ \A i \in 1..Len(rx) : rx'[i] = rx[i]
        /\ rx'[Len(rx) + 1] = m
    BY <1>2 DEF Deliver, TypePump
  <2>2. \A i \in 1..Len(rx') : i \in 1..Len(rx) \/ i = Len(rx) + 1
    BY <2>1
  <2> QED BY <2>1, <2>2 DEF Queued
<1> QED BY <1>1, <1>2

\* An empty queue holds nothing.
LEMMA EmptyQueued == \A m : /\ rx = <<>> => ~Queued(m)
                            /\ rx' = <<>> => ~Queued(m)'
  BY DEF Queued

\* A queue that is left alone holds what it held.
LEMMA QueuedFrame == rx' = rx => \A m : Queued(m)' <=> Queued(m)
  BY DEF Queued

\* The step has no session before it creates one, the steps to come have none
\* at all; the end of a session is announced when it is over; and once the
\* thread has stopped listening, a session that is not over was asked to end,
\* unless that request went astray for want of a link.
SessionInv ==
  /\ \A s \in Steps : s > step => sess[s] = "none"
  /\ pc \in {"ensure", "write", "create"} => sess[step] = "none"
  /\ evt \/ Queued("Ended") => sess[step] = "ended"
  /\ pc \in {"grace", "cleanup"} /\ Live(step) =>
       step \in endReq \/ (step \in astray /\ ~ClientUp)

\* The session invariant is kept while a transport is chosen ...
LEMMA SessionEnsureStep ==
  ASSUME TypeOK, SessionInv, Ensure
  PROVE  SessionInv'
<1> USE QueuedFrame DEF SessionInv, ClientUp, Live, runVars, connVars,
        loopVars, pumpVars, serverVars, resultVars
<1>1. CASE ReuseConnection
  BY <1>1 DEF ReuseConnection
<1>2. CASE KnownUnavailable
  BY <1>2 DEF KnownUnavailable, FallbackOrFail, Failure
<1>3. CASE Connect
  BY <1>3 DEF Connect, FallbackOrFail, Failure
<1>4. CASE ConnectFails
  BY <1>4 DEF ConnectFails, FallbackOrFail, Failure
<1> QED BY <1>1, <1>2, <1>3, <1>4 DEF Ensure

\* ... while a session is started ...
LEMMA SessionLaunchStep ==
  ASSUME TypeOK, SessionInv, Launch
  PROVE  SessionInv'
<1> USE QueuedFrame DEF SessionInv, ClientUp, Live, runVars, connVars,
        loopVars, pumpVars, serverVars, resultVars
<1>1. CASE RefuseEnv
  BY <1>1 DEF RefuseEnv, Failure
<1>2. CASE WritePayload
  BY <1>2 DEF WritePayload, Failure, Cut, GoesAstray
<1>3. CASE CreateSession
  BY <1>3, LaterSteps
     DEF CreateSession, Failure, Cut, GoesAstray, TypeOK, TypeRun, TypeServer
<1>4. CASE Attach
  BY <1>4 DEF Attach, Failure, EndSession, GoesAstray
<1>5. CASE Register
  BY <1>5, EmptyQueued DEF Register
<1>6. CASE WriteBootstrap
  BY <1>6 DEF WriteBootstrap, Failure, EndSession, GoesAstray, Cut
<1> QED BY <1>1, <1>2, <1>3, <1>4, <1>5, <1>6 DEF Launch

\* ... in the loop of run_attached ...
LEMMA SessionLoopStep ==
  ASSUME TypeOK, SessionInv, Loop
  PROVE  SessionInv'
<1> USE QueuedFrame DEF SessionInv, ClientUp, Live, runVars, connVars,
        loopVars, pumpVars, serverVars, resultVars
<1>1. CASE CancelOutcome
  BY <1>1 DEF CancelOutcome, Result, EndSession, GoesAstray
<1>2. CASE TimeoutOutcome
  BY <1>2 DEF TimeoutOutcome, EndSession, GoesAstray
<1>3. CASE KeepWaiting \/ RecvTimeout
  BY <1>3 DEF KeepWaiting, RecvTimeout
<1>4. CASE RecvLines
  BY <1>4, Dequeued DEF RecvLines, Receive, TypeOK
<1>5. CASE RecvTuiRedraw
  BY <1>5, Dequeued DEF RecvTuiRedraw, Receive, EndSession, GoesAstray, TypeOK
<1>6. CASE RecvEnded
  BY <1>6, Dequeued DEF RecvEnded, Receive, Result, TypeOK
<1>7. CASE RecvDisconnected
  BY <1>7, Dequeued DEF RecvDisconnected, Receive, Failure, TypeOK
<1>8. CASE Reconnect
  BY <1>8 DEF Reconnect, Failure
<1>9. CASE Reattach \/ Reregister
  BY <1>9 DEF Reattach, Reregister, Failure
<1> QED BY <1>1, <1>2, <1>3, <1>4, <1>5, <1>6, <1>7, <1>8, <1>9 DEF Loop

\* ... when the step is settled ...
LEMMA SessionSettleStep ==
  ASSUME TypeOK, SessionInv, Settle
  PROVE  SessionInv'
<1> USE QueuedFrame DEF SessionInv, ClientUp, Live, runVars, connVars,
        loopVars, pumpVars, serverVars, resultVars
<1>1. CASE GraceRecv
  BY <1>1, Dequeued DEF GraceRecv, Result, TypeOK
<1>2. CASE GraceExpires
  BY <1>2 DEF GraceExpires, Result
<1>3. CASE Cleanup
  BY <1>3 DEF Cleanup, GoesAstray
<1>4. CASE ReportResult \/ ReportFailure \/ SshReport
  BY <1>4 DEF ReportResult, ReportFailure, SshReport, Report
<1>5. CASE Fallback \/ SshStart
  BY <1>5 DEF Fallback, SshStart
<1>6. CASE Advance
  BY <1>6, EmptyQueued, LaterSteps DEF Advance, TypeOK, TypeRun
<1> QED BY <1>1, <1>2, <1>3, <1>4, <1>5, <1>6 DEF Settle

\* ... and by what happens around the thread.
LEMMA SessionOutsideStep ==
  ASSUME TypeOK, SessionInv,
         Pump \/ Target \/ LinkDrops \/ Interrupt \/ DeadlinePasses
  PROVE  SessionInv'
<1> USE QueuedFrame DEF SessionInv, ClientUp, Live, runVars, connVars,
        loopVars, pumpVars, serverVars, resultVars
<1>1. ASSUME NEW m \in {"Lines", "TuiRedraw"}, PumpFrame(m) PROVE SessionInv'
  BY <1>1, Delivered DEF PumpFrame, TypeOK, Messages
<1>2. CASE PumpEnded
  BY <1>2, Delivered DEF PumpEnded, TypeOK, Messages
<1>3. CASE PumpDisconnected
  BY <1>3, Delivered DEF PumpDisconnected, TypeOK, Messages
<1>4. ASSUME NEW s \in Steps, NEW r, Live(s), SessionEnds(s, r)
      PROVE  SessionInv'
  BY <1>4, LaterSteps DEF SessionEnds, TypeOK, TypeRun, TypeServer
<1>5. ASSUME NEW s \in Steps, ReadBootstrap(s) PROVE SessionInv'
  <2>1. CASE payload[StepId[s]] = NoStep
    BY <1>4, <1>5, <2>1 DEF ReadBootstrap
  <2>2. CASE payload[StepId[s]] # NoStep
    BY <1>5, <2>2, LaterSteps DEF ReadBootstrap, TypeOK, TypeRun, TypeServer
  <2> QED BY <2>1, <2>2
<1>6. ASSUME NEW r, SshExit(r) PROVE SessionInv'
  BY <1>6 DEF SshExit
<1>7. CASE LinkDrops
  <2>1. evt' => evt
    BY <1>7 DEF LinkDrops, TypeOK, TypePump
  <2> QED BY <1>7, <2>1 DEF LinkDrops, Cut
<1>8. CASE Interrupt \/ DeadlinePasses
  BY <1>8 DEF Interrupt, DeadlinePasses
<1> QED BY <1>1, <1>2, <1>3, <1>4, <1>5, <1>6, <1>7, <1>8
        DEF Pump, Target, ServerEnds, AppKills, ServerStops, ScriptExits

\* The session invariant is kept by every step.
LEMMA SessionStep ==
  ASSUME TypeOK, SessionInv, [Next]_vars PROVE SessionInv'
<1>1. CASE UNCHANGED vars
  BY <1>1, QueuedFrame DEF SessionInv, ClientUp, Live, vars, runVars, connVars,
     loopVars, pumpVars, serverVars
<1> QED BY <1>1, SessionEnsureStep, SessionLaunchStep, SessionLoopStep,
           SessionSettleStep, SessionOutsideStep DEF Next, StepThread, Finished

\* It holds initially.
LEMMA SessionInit == Init => SessionInv
<1> SUFFICES ASSUME Init PROVE SessionInv
  OBVIOUS
<1>1. 1 \in Steps
  BY ConstantsAssumption DEF Steps
<1> QED BY <1>1, EmptyQueued DEF Init, SessionInv, Live

-----------------------------------------------------------------------------
(* What became of the scripts                                               *)

\* A live session ends; only a script leaves with an exit code of 0 or 42.
LiveSessionEnds(s, r) ==
  /\ Live(s) /\ SessionEnds(s, r)
  /\ r \in Reasons
  /\ r \in {"Exited0", "Exited42"} => sess[s] = "script"

\* The few steps that touch sessions and payload files; every other one can
\* at most ask for an end.
LEMMA TargetTouched ==
  ASSUME [Next]_vars
  PROVE  \/ WritePayload \/ CreateSession \/ WriteBootstrap \/ Cleanup
         \/ \E s \in Steps :
              \/ ReadBootstrap(s) /\ payload[StepId[s]] # NoStep
              \/ \E r : LiveSessionEnds(s, r)
         \/ /\ UNCHANGED <<sess, reason, typed, payload, loaded, discarded>>
            /\ endReq \subseteq endReq'
<1>1. CASE Ensure
  BY <1>1 DEF Ensure, ReuseConnection, KnownUnavailable, Connect, ConnectFails,
              serverVars
<1>2. CASE Launch
  BY <1>2 DEF Launch, RefuseEnv, Attach, Register, EndSession, serverVars
<1>3. CASE Loop
  BY <1>3 DEF Loop, CancelOutcome, TimeoutOutcome, KeepWaiting, RecvTimeout,
              RecvLines, RecvTuiRedraw, RecvEnded, RecvDisconnected, Reconnect,
              Reattach, Reregister, EndSession, pumpVars, serverVars
<1>4. CASE Settle
  BY <1>4 DEF Settle, GraceRecv, GraceExpires, ReportResult, ReportFailure,
              Report, Fallback, SshStart, SshReport, Advance, serverVars
<1>5. CASE Pump
  BY <1>5 DEF Pump, PumpFrame, PumpEnded, PumpDisconnected, serverVars
<1>6. CASE Target
  <2>1. ASSUME NEW s \in Steps, ReadBootstrap(s)
        PROVE  \/ payload[StepId[s]] # NoStep
               \/ LiveSessionEnds(s, "ExitedN")
    BY <2>1 DEF ReadBootstrap, LiveSessionEnds, Live, Reasons
  <2>2. ASSUME NEW s \in Steps,
               NEW r \in {"Exited0", "Exited42", "ExitedN", "Signaled"},
               ScriptExits(s, r)
        PROVE  LiveSessionEnds(s, r)
    BY <2>2 DEF ScriptExits, LiveSessionEnds, Live, Reasons
  <2>3. ASSUME NEW s \in Steps, ServerEnds(s) \/ AppKills(s)
        PROVE  LiveSessionEnds(s, "Ended")
    BY <2>3 DEF ServerEnds, AppKills, LiveSessionEnds, Reasons
  <2>4. ASSUME NEW s \in Steps, ServerStops(s)
        PROVE  \E r : LiveSessionEnds(s, r)
    BY <2>4 DEF ServerStops, LiveSessionEnds, Reasons
  <2>5. ASSUME NEW r, SshExit(r)
        PROVE  /\ UNCHANGED <<sess, reason, typed, payload, loaded, discarded>>
               /\ endReq \subseteq endReq'
    BY <2>5 DEF SshExit, serverVars
  <2> QED BY <1>6, <2>1, <2>2, <2>3, <2>4, <2>5 DEF Target
<1>7. CASE LinkDrops \/ Interrupt \/ DeadlinePasses \/ UNCHANGED vars
  BY <1>7 DEF LinkDrops, Interrupt, DeadlinePasses, vars, serverVars
<1> QED BY <1>1, <1>2, <1>3, <1>4, <1>5, <1>6, <1>7
        DEF Next, StepThread, Finished

\* A script begins in a shell that reads its bootstrap line or over ssh; only
\* the fallback touches what is known of the ssh runs.
LEMMA ScriptTouched ==
  ASSUME [Next]_vars
  PROVE  \/ SshStart
         \/ \E r \in Reasons : SshExit(r)
         \/ /\ UNCHANGED sshVars
            /\ \/ UNCHANGED <<loaded, starts>>
               \/ \E s \in Steps :
                    ReadBootstrap(s) /\ payload[StepId[s]] # NoStep
<1>1. CASE Ensure
  BY <1>1 DEF Ensure, ReuseConnection, KnownUnavailable, Connect, ConnectFails,
              serverVars
<1>2. CASE Launch
  BY <1>2 DEF Launch, RefuseEnv, WritePayload, CreateSession, Attach, Register,
              WriteBootstrap, serverVars
<1>3. CASE Loop
  BY <1>3 DEF Loop, CancelOutcome, TimeoutOutcome, KeepWaiting, RecvTimeout,
              RecvLines, RecvTuiRedraw, RecvEnded, RecvDisconnected, Reconnect,
              Reattach, Reregister, serverVars
<1>4. CASE Settle
  BY <1>4 DEF Settle, GraceRecv, GraceExpires, Cleanup, ReportResult,
              ReportFailure, Report, Fallback, SshReport, Advance, serverVars
<1>5. CASE Pump
  BY <1>5 DEF Pump, PumpFrame, PumpEnded, PumpDisconnected, serverVars
<1>6. CASE Target
  <2>1. ASSUME NEW s \in Steps, ReadBootstrap(s)
        PROVE  /\ UNCHANGED sshVars
               /\ UNCHANGED <<loaded, starts>> \/ payload[StepId[s]] # NoStep
    BY <2>1 DEF ReadBootstrap, SessionEnds
  <2> QED BY <1>6, <2>1 DEF Target, ScriptExits, ServerEnds, AppKills,
                            ServerStops, SessionEnds, Reasons
<1>7. CASE LinkDrops \/ Interrupt \/ DeadlinePasses \/ UNCHANGED vars
  BY <1>7 DEF LinkDrops, Interrupt, DeadlinePasses, vars, serverVars
<1> QED BY <1>1, <1>2, <1>3, <1>4, <1>5, <1>6, <1>7
        DEF Next, StepThread, Finished

\* A session that executes anything executes its step's script, a session has
\* an end reason only when it is over, and the two exit codes that become a
\* verdict of the step are those of its script.
HistoryInv ==
  /\ PayloadInv
  /\ \A s \in Steps :
       /\ sess[s] = "script" => loaded[s] = s
       /\ reason[s] # "none" => sess[s] = "ended"
       /\ reason[s] \in {"Exited0", "Exited42"} => loaded[s] = s

\* The history of the scripts is kept by every step: the two that start one
\* find it where its own step wrote it.
LEMMA HistoryStep ==
  ASSUME OwnPayloads, TypeOK, SessionInv, HistoryInv, [Next]_vars
  PROVE  HistoryInv'
<1>1. CASE WritePayload
  <2>1. \A s \in Steps : payload'[StepId[s]] \in {NoStep, s}
    BY <1>1, PayloadWritten DEF HistoryInv, WritePayload
  <2> QED BY <1>1, <2>1 DEF HistoryInv, PayloadInv, WritePayload
<1>2. CASE CreateSession
  <2>1. \A s \in Steps : payload'[StepId[s]] \in {NoStep, s}
    BY <1>2, PayloadWritten DEF HistoryInv, CreateSession
  <2>2. sess[step] = "none" /\ loaded[step] # step
    BY <1>2 DEF CreateSession, SessionInv, HistoryInv, PayloadInv, TypeOK,
                TypeRun
  <2>3. /\ UNCHANGED <<loaded, typed, reason>>
        /\ \A s \in Steps : s # step => sess'[s] = sess[s]
        /\ sess'[step] \in {"none", "shell"}
    BY <1>2, <2>2 DEF CreateSession, TypeOK, TypeRun, TypeServer
  <2> QED BY <2>1, <2>2, <2>3 DEF HistoryInv, PayloadInv
<1>3. CASE WriteBootstrap
  BY <1>3 DEF WriteBootstrap, HistoryInv, PayloadInv
<1>4. CASE Cleanup
  <2>1. \A s \in Steps : payload'[StepId[s]] \in {NoStep, s}
    BY <1>4, PayloadWritten DEF HistoryInv, Cleanup
  <2> QED BY <1>4, <2>1 DEF HistoryInv, PayloadInv, Cleanup
<1>5. ASSUME NEW s \in Steps, ReadBootstrap(s), payload[StepId[s]] # NoStep
      PROVE  HistoryInv'
  <2>1. payload[StepId[s]] = s
    BY <1>5 DEF HistoryInv, PayloadInv
  <2> QED BY <1>5, <2>1 DEF ReadBootstrap, HistoryInv, PayloadInv, TypeOK,
                            TypeServer
<1>6. ASSUME NEW s \in Steps, NEW r, LiveSessionEnds(s, r)
      PROVE  HistoryInv'
  BY <1>6 DEF LiveSessionEnds, SessionEnds, Live, HistoryInv, PayloadInv,
              TypeOK, TypeServer
<1>7. CASE UNCHANGED <<sess, reason, typed, payload, loaded>>
  BY <1>7 DEF HistoryInv, PayloadInv
<1> QED BY <1>1, <1>2, <1>3, <1>4, <1>5, <1>6, <1>7, TargetTouched

\* It holds initially.
LEMMA HistoryInit == Init => HistoryInv
<1> SUFFICES ASSUME Init PROVE HistoryInv
  OBVIOUS
<1>1. \A s \in Steps : StepId[s] \in PayloadNames
  BY ConstantsAssumption
<1> QED BY <1>1 DEF Init, HistoryInv, PayloadInv, NoStep

\* Both are kept together in every run.
LEMMA HistoryCorrect ==
  ASSUME OwnPayloads PROVE Spec => [](TypeOK /\ SessionInv /\ HistoryInv)
<1>1. Init => TypeOK /\ SessionInv /\ HistoryInv
  BY TypeInit, SessionInit, HistoryInit
<1>2. TypeOK /\ SessionInv /\ HistoryInv /\ [Next]_vars
      => (TypeOK /\ SessionInv /\ HistoryInv)'
  BY TypeStep, SessionStep, HistoryStep
<1> QED BY <1>1, <1>2, PTL DEF Spec

-----------------------------------------------------------------------------
(* The payload of a live session                                            *)

\* A file is only taken away when its session is over or was asked to end.
LEMMA KeptStep ==
  ASSUME OwnPayloads, TypeOK, SessionInv, HistoryInv, LivePayloadKept,
         [Next]_vars
  PROVE  LivePayloadKept'
<1>0. /\ step \in Steps
      /\ \A s \in Steps : /\ StepId[s] \in PayloadNames
                          /\ s # step => StepId[s] # StepId[step]
  BY ConstantsAssumption DEF TypeOK, TypeRun, OwnPayloads
<1>1. CASE WritePayload
  BY <1>0, <1>1 DEF WritePayload, SessionInv, LivePayloadKept, TypeOK,
                    TypeServer
<1>2. CASE CreateSession
  <2>1. /\ UNCHANGED <<loaded, endReq>> /\ sess'[step] # "script"
        /\ \A s \in Steps : s # step =>
             sess'[s] = sess[s] /\ payload'[StepId[s]] = payload[StepId[s]]
    BY <1>0, <1>2 DEF CreateSession, SessionInv, TypeOK, TypeServer
  <2> QED BY <2>1 DEF LivePayloadKept
<1>3. CASE WriteBootstrap
  BY <1>3 DEF WriteBootstrap, EndSession, LivePayloadKept
<1>4. CASE Cleanup
  <2>1. CASE UNCHANGED payload
    BY <1>4, <2>1 DEF Cleanup, LivePayloadKept
  <2>2. CASE ClientUp /\ payload' = [payload EXCEPT ![StepId[step]] = NoStep]
    BY <1>0, <1>4, <2>2 DEF Cleanup, SessionInv, Live, LivePayloadKept, TypeOK,
                            TypeServer
  <2> QED BY <1>4, <2>1, <2>2 DEF Cleanup
<1>5. ASSUME NEW s \in Steps, ReadBootstrap(s), payload[StepId[s]] # NoStep
      PROVE  LivePayloadKept'
  BY <1>5 DEF ReadBootstrap, LivePayloadKept, TypeOK, TypeServer
<1>6. ASSUME NEW s \in Steps, NEW r, LiveSessionEnds(s, r)
      PROVE  LivePayloadKept'
  BY <1>6 DEF LiveSessionEnds, SessionEnds, LivePayloadKept, TypeOK,
              TypeServer
<1>7. CASE /\ UNCHANGED <<sess, reason, typed, payload, loaded>>
           /\ endReq \subseteq endReq'
  BY <1>7 DEF LivePayloadKept
<1> QED BY <1>1, <1>2, <1>3, <1>4, <1>5, <1>6, <1>7, TargetTouched

\* No cleanup and no later step takes the payload from under a script that is
\* still running and that nobody asked to end, if every step has a payload
\* file of its own (session.rs:582).
THEOREM KeptCorrect ==
  ASSUME OwnPayloads PROVE Spec => []LivePayloadKept
<1>1. Init => LivePayloadKept
  BY DEF Init, LivePayloadKept
<1>2. /\ TypeOK /\ SessionInv /\ HistoryInv /\ LivePayloadKept
      /\ [Next]_vars
      => LivePayloadKept'
  BY KeptStep
<1> QED BY <1>1, <1>2, HistoryCorrect, PTL DEF Spec

-----------------------------------------------------------------------------
(* What is reported happened                                                *)

\* What a script did is never undone, and never done differently.
LEMMA CompletedStays ==
  ASSUME TypeOK, SessionInv, HistoryInv, [Next]_vars,
         NEW s \in Steps, NEW r \in {"Exited0", "Exited42"}, Completed(s, r)
  PROVE  Completed(s, r)'
<1>1. CASE loaded[s] = s /\ reason[s] = r
  <2>1. sess[s] = "ended"
    BY <1>1 DEF HistoryInv
  <2>2. CASE WritePayload \/ CreateSession \/ WriteBootstrap \/ Cleanup
    BY <1>1, <2>2 DEF WritePayload, CreateSession, WriteBootstrap, Cleanup,
                      Completed
  <2>3. ASSUME NEW t \in Steps, ReadBootstrap(t), payload[StepId[t]] # NoStep
        PROVE  Completed(s, r)'
    <3>1. t # s
      BY <2>1, <2>3 DEF ReadBootstrap
    <3> QED BY <1>1, <2>3, <3>1 DEF ReadBootstrap, Completed, TypeOK, TypeServer
  <2>4. ASSUME NEW t \in Steps, NEW q, LiveSessionEnds(t, q)
        PROVE  Completed(s, r)'
    <3>1. t # s
      BY <2>1, <2>4 DEF LiveSessionEnds, Live
    <3> QED BY <1>1, <2>4, <3>1 DEF LiveSessionEnds, SessionEnds, Completed,
                                    TypeOK, TypeServer
  <2>5. CASE UNCHANGED <<sess, reason, typed, payload, loaded>>
    BY <1>1, <2>5 DEF Completed
  <2> QED BY <2>2, <2>3, <2>4, <2>5, TargetTouched
<1>2. CASE s \in sshRan /\ sshExit[s] = r
  <2>1. CASE SshStart
    BY <1>2, <2>1 DEF SshStart, Completed
  <2>2. ASSUME NEW q, SshExit(q) PROVE Completed(s, r)'
    BY <1>2, <2>2 DEF SshExit, Completed, TypeOK, TypeSsh
  <2>3. CASE UNCHANGED sshVars
    BY <1>2, <2>3 DEF Completed, sshVars
  <2> QED BY <2>1, <2>2, <2>3, ScriptTouched
<1> QED BY <1>1, <1>2 DEF Completed

\* What the thread is about to report is true as well, and a step that is at
\* its ssh child was started there.
TruthInv ==
  /\ verdict = "Ok" => Completed(step, "Exited0")
  /\ verdict = "Skipped" => step \in HasGuard /\ Completed(step, "Exited42")
  /\ pc = "sshrun" => step \in sshRan
  /\ Truthful

\* A step that neither changes the verdict, nor reports, nor moves the thread
\* to the ssh child keeps what is reported true.
LEMMA TruthFrame ==
  ASSUME TypeOK, SessionInv, HistoryInv, TruthInv, [Next]_vars,
         outcome' = outcome, step' = step,
         verdict' = verdict \/ verdict' \notin {"Ok", "Skipped"},
         pc' = pc \/ pc' # "sshrun", sshRan \subseteq sshRan'
  PROVE  TruthInv'
<1>1. step \in Steps
  BY DEF TypeOK, TypeRun
<1>2. Truthful'
  BY CompletedStays DEF TruthInv, Truthful
<1> QED BY <1>1, <1>2, CompletedStays DEF TruthInv

\* One outcome that is true is added to outcomes that are.
LEMMA TruthReported ==
  ASSUME TypeOK, SessionInv, HistoryInv, TruthInv, [Next]_vars,
         NEW o, outcome' = [outcome EXCEPT ![step] = o],
         o = "Ok" => Completed(step, "Exited0"),
         o = "Skipped" => step \in HasGuard /\ Completed(step, "Exited42")
  PROVE  Truthful'
<1>1. step \in Steps
  BY DEF TypeOK, TypeRun
<1>2. \A s \in Steps :
        /\ outcome'[s] = "Ok" => Completed(s, "Exited0")
        /\ outcome'[s] = "Skipped" => s \in HasGuard /\ Completed(s, "Exited42")
  BY DEF TruthInv, Truthful, TypeOK, TypeRun
<1> QED BY <1>2, CompletedStays DEF Truthful

\* What is reported stays true and is true when it is reported.
LEMMA TruthStep ==
  ASSUME TypeOK, SessionInv, HistoryInv, TruthInv, [Next]_vars
  PROVE  TruthInv'
<1>0. step \in Steps
  BY DEF TypeOK, TypeRun
<1>1. CASE Ensure
  BY <1>1, TruthFrame
     DEF Ensure, ReuseConnection, KnownUnavailable, Connect, ConnectFails,
         FallbackOrFail, Failure, runVars, resultVars, sshVars
<1>2. CASE Launch
  BY <1>2, TruthFrame
     DEF Launch, RefuseEnv, WritePayload, CreateSession, Attach, Register,
         WriteBootstrap, Failure, runVars, resultVars, sshVars
<1>3. CASE RecvEnded
  <2>1. /\ verdict' = ExitOutcome(reason[step], step \in HasGuard)
        /\ pc' = "cleanup" /\ UNCHANGED <<runVars, serverVars, sshVars>>
    BY <1>3 DEF RecvEnded, Result
  <2>2. /\ verdict' = "Ok" => Completed(step, "Exited0")
        /\ verdict' = "Skipped" =>
             step \in HasGuard /\ Completed(step, "Exited42")
    BY <1>0, <2>1 DEF ExitOutcome, HistoryInv, Completed
  <2>3. Truthful'
    BY <2>1 DEF TruthInv, Truthful, Completed, runVars, serverVars, sshVars
  <2> QED BY <2>1, <2>2, <2>3
          DEF TruthInv, Completed, runVars, serverVars, sshVars
<1>4. CASE Loop /\ ~RecvEnded
  BY <1>4, TruthFrame
     DEF Loop, CancelOutcome, TimeoutOutcome, KeepWaiting, RecvTimeout,
         RecvLines, RecvTuiRedraw, RecvDisconnected, Reconnect, Reattach,
         Reregister, Result, Failure, runVars, resultVars, sshVars
<1>5. CASE GraceRecv \/ GraceExpires \/ Cleanup \/ Fallback
  BY <1>5, TruthFrame
     DEF GraceRecv, GraceExpires, Cleanup, Fallback, Result, AwaitedOutcome,
         runVars, resultVars, sshVars
<1>6. CASE ReportResult
  <2>1. Truthful'
    BY <1>6, TruthReported DEF ReportResult, Report, TruthInv
  <2>2. pc' = "advance" /\ UNCHANGED <<step, verdict, serverVars, sshVars>>
    BY <1>6 DEF ReportResult, Report, resultVars
  <2> QED BY <2>1, <2>2 DEF TruthInv, Completed, serverVars, sshVars
<1>7. CASE ReportFailure
  <2>1. Truthful'
    BY <1>7, TruthReported DEF ReportFailure, Report
  <2>2. pc' = "advance" /\ UNCHANGED <<step, verdict, serverVars, sshVars>>
    BY <1>7 DEF ReportFailure, Report, resultVars
  <2> QED BY <2>1, <2>2 DEF TruthInv, Completed, serverVars, sshVars
<1>8. CASE SshStart
  <2>1. Truthful'
    BY <1>8, CompletedStays DEF SshStart, TruthInv, Truthful, runVars
  <2> QED BY <1>0, <1>8, <2>1, CompletedStays
          DEF SshStart, TruthInv, runVars, resultVars
<1>9. CASE SshReport
  <2>1. PICK o : /\ Report(o)
                 /\ o \in {"Ok", "Skipped"} =>
                      /\ pc = "sshrun"
                      /\ o = ExitOutcome(sshExit[step], step \in HasGuard)
    BY <1>9 DEF SshReport
  <2>2. /\ o = "Ok" => Completed(step, "Exited0")
        /\ o = "Skipped" => step \in HasGuard /\ Completed(step, "Exited42")
    BY <2>1 DEF ExitOutcome, TruthInv, Completed
  <2>3. Truthful'
    BY <2>1, <2>2, TruthReported DEF Report
  <2>4. pc' = "advance" /\ UNCHANGED <<step, verdict, serverVars, sshVars>>
    BY <2>1 DEF Report, resultVars
  <2> QED BY <2>3, <2>4 DEF TruthInv, Completed, serverVars, sshVars
<1>10. CASE Advance
  <2>1. UNCHANGED <<outcome, serverVars, sshVars>>
        /\ verdict' = "none" /\ pc' # "sshrun"
    BY <1>10 DEF Advance
  <2> QED BY <2>1 DEF TruthInv, Truthful, Completed, serverVars, sshVars
<1>11. CASE Pump \/ LinkDrops \/ Interrupt \/ DeadlinePasses \/ UNCHANGED vars
  BY <1>11, TruthFrame
     DEF Pump, PumpFrame, PumpEnded, PumpDisconnected, LinkDrops, Interrupt,
         DeadlinePasses, vars, runVars, resultVars, sshVars
<1>12. CASE Target
  BY <1>12, TruthFrame
     DEF Target, ReadBootstrap, ScriptExits, ServerEnds, AppKills, ServerStops,
         SessionEnds, SshExit, runVars, resultVars, sshVars
<1> QED BY <1>1, <1>2, <1>3, <1>4, <1>5, <1>6, <1>7, <1>8, <1>9, <1>10, <1>11,
           <1>12
        DEF Next, StepThread, Settle, Finished

\* "Ok" and "skipped" are only ever reported of a script that ran and left
\* with that code, in its own session or over ssh (map_exit_reason), if every
\* step has a payload file of its own.
THEOREM TruthCorrect ==
  ASSUME OwnPayloads PROVE Spec => []Truthful
<1>1. Init => TruthInv
  BY DEF Init, TruthInv, Truthful
<1>2. TypeOK /\ SessionInv /\ HistoryInv /\ TruthInv /\ [Next]_vars
      => TruthInv'
  BY TruthStep
<1>3. TruthInv => Truthful
  BY DEF TruthInv
<1> QED BY <1>1, <1>2, <1>3, HistoryCorrect, PTL DEF Spec

-----------------------------------------------------------------------------
(* What a step leaves on the target                                         *)

\* Nothing of the step is on the target, or it is about to go.
Gone(s) ==
  /\ Live(s) => s \in endReq
  /\ payload[StepId[s]] # s
  /\ s \in HasSecrets /\ sess[s] # "none" => s \in discarded

\* A step has no outcome and no payload before its turn, and none while the
\* thread works on it or has not written it; a session that is reported as
\* still running is one the failure names.
FreshInv ==
  /\ \A s \in Steps : s > step => /\ outcome[s] = "none"
                                  /\ \A n \in PayloadNames : payload[n] # s
  /\ pc \in {"ensure", "write"} => \A n \in PayloadNames : payload[n] # step
  /\ pc \notin {"advance", "done"} => outcome[step] = "none"
  /\ keep => known

\* A step that writes no payload and reports nothing keeps FreshInv.
LEMMA FreshFrame ==
  ASSUME FreshInv, UNCHANGED <<step, outcome, payload>>,
         pc' = pc \/ pc' \notin {"ensure", "write"} \/ pc = "ensure",
         pc' = pc \/ pc \notin {"advance", "done"},
         keep' => known' \/ UNCHANGED <<keep, known>>
  PROVE  FreshInv'
  BY DEF FreshInv

\* FreshInv is kept by every step.
LEMMA FreshStep ==
  ASSUME TypeOK, FreshInv, [Next]_vars
  PROVE  FreshInv'
<1>1. CASE Ensure
  BY <1>1, FreshFrame
     DEF Ensure, ReuseConnection, KnownUnavailable, Connect, ConnectFails,
         FallbackOrFail, Failure, runVars, resultVars, serverVars
<1>2. CASE WritePayload
  <2>1. /\ UNCHANGED <<step, outcome>> /\ pc' \in {"create", "report"}
        /\ pc = "write" /\ step \in Steps
        /\ \A s \in Steps : s > step => s # step
        /\ \A n \in PayloadNames : payload'[n] \in {payload[n], step}
        /\ keep' => known'
    BY <1>2, LaterSteps DEF WritePayload, Failure, FreshInv, TypeOK, TypeRun,
                            TypeServer, runVars, resultVars
  <2> QED BY <2>1 DEF FreshInv
<1>3. CASE CreateSession
  <2>1. /\ UNCHANGED <<step, outcome>> /\ pc' \in {"attach", "report"}
        /\ pc = "create" /\ step \in Steps /\ NoStep \notin Steps
        /\ \A n \in PayloadNames : payload'[n] \in {payload[n], NoStep}
        /\ keep' => known'
    BY <1>3 DEF CreateSession, Failure, FreshInv, TypeOK, TypeRun, TypeServer,
                runVars, resultVars, Steps, NoStep
  <2> QED BY <2>1 DEF FreshInv
<1>4. CASE RefuseEnv \/ Attach \/ Register \/ WriteBootstrap
  BY <1>4, FreshFrame
     DEF RefuseEnv, Attach, Register, WriteBootstrap, Failure, runVars,
         resultVars, serverVars
<1>5. CASE Loop
  BY <1>5, FreshFrame
     DEF Loop, CancelOutcome, TimeoutOutcome, KeepWaiting, RecvTimeout,
         RecvLines, RecvTuiRedraw, RecvEnded, RecvDisconnected, Reconnect,
         Reattach, Reregister, Result, Failure, runVars, resultVars, serverVars
<1>6. CASE GraceRecv \/ GraceExpires \/ Fallback \/ SshStart
  BY <1>6, FreshFrame
     DEF GraceRecv, GraceExpires, Fallback, SshStart, Result, runVars,
         resultVars, serverVars
<1>7. CASE Cleanup
  <2>1. /\ UNCHANGED <<step, outcome, keep, known>> /\ pc' = "report"
        /\ pc = "cleanup" /\ step \in Steps /\ NoStep \notin Steps
        /\ \A n \in PayloadNames : payload'[n] \in {payload[n], NoStep}
    BY <1>7 DEF Cleanup, TypeOK, TypeRun, TypeServer, runVars, resultVars,
                Steps, NoStep
  <2> QED BY <2>1 DEF FreshInv
<1>8. CASE ReportResult \/ ReportFailure \/ SshReport
  <2>1. PICK o : Report(o)
    BY <1>8 DEF ReportResult, ReportFailure, SshReport
  <2>2. \A s \in Steps : s > step => outcome'[s] = outcome[s]
    BY <2>1, LaterSteps DEF Report, TypeOK, TypeRun
  <2> QED BY <2>1, <2>2 DEF Report, FreshInv, resultVars, serverVars
<1>9. CASE Advance
  <2>1. CASE pc' = "done" /\ step' = step
    BY <1>9, <2>1 DEF Advance, FreshInv, serverVars
  <2>2. CASE pc' = "ensure" /\ step' = step + 1 /\ step # NumSteps
    <3>0. step \in Steps
      BY DEF TypeOK, TypeRun
    <3>1. /\ step + 1 \in Steps /\ step + 1 > step
          /\ \A s \in Steps : s > step + 1 => s > step
      BY <2>2, <3>0, LaterSteps
    <3>2. UNCHANGED <<outcome, payload>> /\ keep' = FALSE
      BY <1>9 DEF Advance, serverVars
    <3> QED BY <2>2, <3>1, <3>2 DEF FreshInv
  <2> QED BY <1>9, <2>1, <2>2 DEF Advance
<1>10. CASE Pump \/ LinkDrops \/ Interrupt \/ DeadlinePasses \/ UNCHANGED vars
  BY <1>10, FreshFrame
     DEF Pump, PumpFrame, PumpEnded, PumpDisconnected, LinkDrops, Interrupt,
         DeadlinePasses, vars, runVars, resultVars, serverVars
<1>11. CASE Target
  BY <1>11, FreshFrame
     DEF Target, ReadBootstrap, ScriptExits, ServerEnds, AppKills, ServerStops,
         SessionEnds, SshExit, runVars, resultVars, serverVars
<1> QED BY <1>1, <1>2, <1>3, <1>4, <1>5, <1>6, <1>7, <1>8, <1>9, <1>10, <1>11
        DEF Next, StepThread, Launch, Settle, Finished

\* It holds initially.
LEMMA FreshInit == Init => FreshInv
<1> SUFFICES ASSUME Init PROVE FreshInv
  OBVIOUS
<1>1. 1 \in Steps /\ NoStep \notin Steps
  BY ConstantsAssumption DEF Steps, NoStep
<1> QED BY <1>1 DEF Init, FreshInv

\* What is gone stays gone, unless the step itself puts it there.
LEMMA GoneStays ==
  ASSUME TypeOK, [Next]_vars, NEW s \in Steps, Gone(s),
         s = step => pc \notin {"write", "create"}
  PROVE  Gone(s)'
<1>0. /\ step \in Steps /\ StepId[s] \in PayloadNames /\ NoStep \notin Steps
      /\ sshRan \subseteq sshRan'
  BY ScriptTouched, ConstantsAssumption
     DEF TypeOK, TypeRun, Steps, NoStep, SshStart, SshExit, sshVars
<1>1. CASE WritePayload
  BY <1>0, <1>1 DEF WritePayload, Gone, Live, TypeOK, TypeServer
<1>2. CASE CreateSession
  <2>1. s # step
    BY <1>2 DEF CreateSession
  <2>2. /\ sess'[s] = sess[s]
        /\ payload'[StepId[s]] \in {payload[StepId[s]], NoStep}
        /\ UNCHANGED <<endReq, discarded>>
    BY <1>0, <1>2, <2>1 DEF CreateSession, TypeOK, TypeServer
  <2> QED BY <1>0, <2>2 DEF Gone, Live
<1>3. CASE WriteBootstrap
  BY <1>0, <1>3 DEF WriteBootstrap, EndSession, Gone, Live
<1>4. CASE Cleanup
  <2>1. /\ payload'[StepId[s]] \in {payload[StepId[s]], NoStep}
        /\ discarded \subseteq discarded' /\ UNCHANGED <<sess, endReq>>
    BY <1>0, <1>4 DEF Cleanup, TypeOK, TypeServer
  <2> QED BY <1>0, <2>1 DEF Gone, Live
<1>5. ASSUME NEW t \in Steps, ReadBootstrap(t), payload[StepId[t]] # NoStep
      PROVE  Gone(s)'
  BY <1>0, <1>5 DEF ReadBootstrap, Gone, Live, TypeOK, TypeServer
<1>6. ASSUME NEW t \in Steps, NEW r, LiveSessionEnds(t, r)
      PROVE  Gone(s)'
  BY <1>0, <1>6 DEF LiveSessionEnds, SessionEnds, Gone, Live, TypeOK, TypeServer
<1>7. CASE /\ UNCHANGED <<sess, reason, typed, payload, loaded, discarded>>
           /\ endReq \subseteq endReq'
  BY <1>0, <1>7 DEF Gone, Live
<1> QED BY <1>1, <1>2, <1>3, <1>4, <1>5, <1>6, <1>7, TargetTouched

\* Of a step that was reported, and not as still running, nothing remains
\* unless one of its requests went astray.
AllGone == \A s \in Steps :
  outcome[s] # "none" /\ s \notin left /\ s \notin astray => Gone(s)

\* The same holds when the thread is about to report the step as over, or has
\* left muxy for ssh.
LeaveInv ==
  /\ (pc = "report" /\ ~keep) \/ pc \in {"ssh", "sshrun"} =>
       (step \notin astray => Gone(step))
  /\ AllGone

\* What went astray is not forgotten.
LEMMA AstrayGrows == ASSUME [Next]_vars PROVE astray \subseteq astray'
<1>1. CASE Ensure
  BY <1>1 DEF Ensure, ReuseConnection, KnownUnavailable, Connect, ConnectFails,
              serverVars
<1>2. CASE Launch
  BY <1>2 DEF Launch, RefuseEnv, WritePayload, CreateSession, Attach, Register,
              WriteBootstrap, EndSession, GoesAstray, serverVars
<1>3. CASE Loop
  BY <1>3 DEF Loop, CancelOutcome, TimeoutOutcome, KeepWaiting, RecvTimeout,
              RecvLines, RecvTuiRedraw, RecvEnded, RecvDisconnected, Reconnect,
              Reattach, Reregister, EndSession, GoesAstray, serverVars
<1>4. CASE Settle
  BY <1>4 DEF Settle, GraceRecv, GraceExpires, Cleanup, ReportResult,
              ReportFailure, Report, Fallback, SshStart, SshReport, Advance,
              GoesAstray, serverVars
<1>5. CASE Pump \/ Target
  BY <1>5 DEF Pump, PumpFrame, PumpEnded, PumpDisconnected, Target,
              ReadBootstrap, ScriptExits, ServerEnds, AppKills, ServerStops,
              SessionEnds, SshExit, serverVars
<1>6. CASE LinkDrops \/ Interrupt \/ DeadlinePasses \/ UNCHANGED vars
  BY <1>6 DEF LinkDrops, Interrupt, DeadlinePasses, vars, serverVars
<1> QED BY <1>1, <1>2, <1>3, <1>4, <1>5, <1>6 DEF Next, StepThread, Finished

\* The outcomes that are there stay gone for good.
LEMMA LeavesFrame ==
  ASSUME TypeOK, FreshInv, AllGone, [Next]_vars,
         outcome' = outcome, left \subseteq left'
  PROVE  AllGone'
<1> SUFFICES ASSUME NEW s \in Steps, outcome'[s] # "none", s \notin left',
                    s \notin astray'
             PROVE  Gone(s)'
  BY DEF AllGone, Gone, Live
<1>1. Gone(s)
  BY AstrayGrows DEF AllGone
<1>2. s = step => pc \notin {"write", "create"}
  BY DEF FreshInv
<1> QED BY <1>1, <1>2, GoneStays

\* A step that is reported adds itself, and is gone or named as left.
LEMMA LeavesReported ==
  ASSUME TypeOK, FreshInv, AllGone, [Next]_vars,
         NEW o, Report(o), pc \notin {"write", "create"}, left \subseteq left',
         step \notin left' /\ step \notin astray => Gone(step)
  PROVE  AllGone'
<1> SUFFICES ASSUME NEW s \in Steps, outcome'[s] # "none", s \notin left',
                    s \notin astray'
             PROVE  Gone(s)'
  BY DEF AllGone, Gone, Live
<1>1. Gone(s)
  BY AstrayGrows DEF AllGone, Report, TypeOK, TypeRun
<1> QED BY <1>1, GoneStays

\* A step without a session and without a payload has nothing there.
LEMMA NothingYet ==
  ASSUME TypeOK, SessionInv, FreshInv, pc \in {"ensure", "write"}
  PROVE  Gone(step)
<1>1. StepId[step] \in PayloadNames
  BY ConstantsAssumption DEF TypeOK, TypeRun
<1> QED BY <1>1 DEF SessionInv, FreshInv, Gone, Live

\* Every way to a report that names nothing as left passes the cleanup, the
\* refusal of the session, or a request that went astray.
LEMMA LeaveStep ==
  ASSUME TypeOK, SessionInv, FreshInv, LeaveInv, [Next]_vars
  PROVE  LeaveInv'
<1>c. PICK c \in Steps : c = step
  BY DEF TypeOK, TypeRun
<1>0. /\ astray \subseteq astray'
      /\ StepId[c] \in PayloadNames /\ NoStep \notin Steps
  BY AstrayGrows, ConstantsAssumption DEF Steps, NoStep
<1>1. CASE Ensure
  <2>1. AllGone'
    BY <1>1, LeavesFrame
       DEF LeaveInv, Ensure, ReuseConnection, KnownUnavailable, Connect,
           ConnectFails, runVars
  <2>2. Gone(c)'
    BY <1>c, <1>0, <1>1, NothingYet, GoneStays
       DEF Ensure, ReuseConnection, KnownUnavailable, Connect, ConnectFails
  <2>3. step' = c
    BY <1>c, <1>1 DEF Ensure, ReuseConnection, KnownUnavailable, Connect,
                ConnectFails, runVars
  <2> QED BY <1>c, <2>1, <2>2, <2>3 DEF LeaveInv, Gone, Live
<1>2. CASE RefuseEnv
  <2>1. AllGone'
    BY <1>2, LeavesFrame DEF LeaveInv, RefuseEnv, runVars
  <2>2. Gone(c)'
    BY <1>c, <1>2, NothingYet DEF RefuseEnv, Gone, Live, serverVars, sshVars
  <2>3. step' = c
    BY <1>c, <1>2 DEF RefuseEnv, runVars
  <2> QED BY <1>c, <2>1, <2>2, <2>3 DEF LeaveInv, Gone, Live
<1>3. CASE WritePayload
  <2>1. AllGone'
    BY <1>3, LeavesFrame DEF LeaveInv, WritePayload, runVars
  <2>2. pc' = "report" /\ c \notin astray' => Gone(c)'
    BY <1>c, <1>3, NothingYet DEF WritePayload, GoesAstray, Gone, Live, sshVars
  <2>3. step' = c /\ pc' \in {"create", "report"}
    BY <1>c, <1>3 DEF WritePayload, Failure, runVars
  <2> QED BY <1>c, <2>1, <2>2, <2>3 DEF LeaveInv, Gone, Live
<1>4. CASE CreateSession
  <2>1. AllGone'
    BY <1>4, LeavesFrame DEF LeaveInv, CreateSession, runVars
  <2>2. pc' = "report" /\ c \notin astray' => Gone(c)'
    BY <1>c, <1>0, <1>4
       DEF CreateSession, GoesAstray, SessionInv, Gone, Live, TypeOK,
           TypeServer
  <2>3. step' = c /\ pc' \in {"attach", "report"}
    BY <1>c, <1>4 DEF CreateSession, Failure, runVars
  <2> QED BY <1>c, <2>1, <2>2, <2>3 DEF LeaveInv, Gone, Live
<1>5. CASE Attach \/ Register \/ WriteBootstrap
  <2>1. AllGone'
    BY <1>5, LeavesFrame DEF LeaveInv, Attach, Register, WriteBootstrap, runVars
  <2>2. pc' \notin {"report", "ssh", "sshrun"}
    BY <1>5 DEF Attach, Register, WriteBootstrap, Failure
  <2> QED BY <2>1, <2>2 DEF LeaveInv
<1>6. CASE Loop
  <2>1. AllGone'
    BY <1>6, LeavesFrame
       DEF LeaveInv, Loop, CancelOutcome, TimeoutOutcome, KeepWaiting,
           RecvTimeout, RecvLines, RecvTuiRedraw, RecvEnded, RecvDisconnected,
           Reconnect, Reattach, Reregister, runVars
  <2>2. pc' \notin {"ssh", "sshrun"} /\ (pc' = "report" => keep')
    BY <1>6 DEF Loop, CancelOutcome, TimeoutOutcome, KeepWaiting, RecvTimeout,
                RecvLines, RecvTuiRedraw, RecvEnded, RecvDisconnected,
                Reconnect, Reattach, Reregister, Result, Failure
  <2> QED BY <2>1, <2>2 DEF LeaveInv
<1>7. CASE GraceRecv \/ GraceExpires
  <2>1. AllGone'
    BY <1>7, LeavesFrame DEF LeaveInv, GraceRecv, GraceExpires, runVars
  <2>2. pc' \notin {"ssh", "sshrun"} /\ (pc' = "report" => keep')
    BY <1>7 DEF GraceRecv, GraceExpires, Result
  <2> QED BY <2>1, <2>2 DEF LeaveInv
<1>8. CASE Cleanup
  <2>1. AllGone'
    BY <1>8, LeavesFrame DEF LeaveInv, Cleanup, runVars
  <2>2. c \notin astray' => Gone(c)'
    BY <1>c, <1>0, <1>8
       DEF Cleanup, GoesAstray, SessionInv, Gone, Live, TypeOK, TypeServer
  <2>3. step' = c /\ pc' = "report"
    BY <1>c, <1>8 DEF Cleanup, runVars
  <2> QED BY <1>c, <2>1, <2>2, <2>3 DEF LeaveInv, Gone, Live
<1>9. CASE ReportResult \/ ReportFailure \/ SshReport
  <2>1. PICK o : Report(o)
    BY <1>9 DEF ReportResult, ReportFailure, SshReport
  <2>2. /\ pc \in {"report", "ssh", "sshrun"} /\ left \subseteq left'
        /\ step \notin left' /\ pc = "report" => ~keep
    BY <1>9 DEF ReportResult, ReportFailure, SshReport, FreshInv
  <2>3. AllGone'
    BY <2>1, <2>2, LeavesReported DEF LeaveInv
  <2> QED BY <2>1, <2>3 DEF LeaveInv, Report
<1>10. CASE Fallback \/ SshStart
  <2>1. AllGone'
    BY <1>10, LeavesFrame DEF LeaveInv, Fallback, SshStart, runVars
  <2>2. step' = c /\ astray' = astray /\ (c \notin astray => Gone(c))
    BY <1>c, <1>10 DEF Fallback, SshStart, runVars, serverVars, LeaveInv, FreshInv
  <2>3. c \notin astray => Gone(c)'
    BY <1>c, <1>0, <1>10, <2>2, GoneStays DEF Fallback, SshStart
  <2> QED BY <1>c, <2>1, <2>2, <2>3 DEF LeaveInv, Gone, Live
<1>11. CASE Advance
  <2>1. AllGone'
    BY <1>11, LeavesFrame DEF LeaveInv, Advance
  <2> QED BY <1>11, <2>1 DEF LeaveInv, Advance
<1>12. CASE \/ Pump \/ LinkDrops \/ Interrupt \/ DeadlinePasses
            \/ Target \/ UNCHANGED vars
  <2>1. UNCHANGED <<pc, step, outcome, left, keep>>
    BY <1>12
       DEF Pump, PumpFrame, PumpEnded, PumpDisconnected, LinkDrops, Interrupt,
           DeadlinePasses, Target, ReadBootstrap, ScriptExits, ServerEnds,
           AppKills, ServerStops, SessionEnds, SshExit, vars, runVars,
           resultVars
  <2>2. AllGone'
    BY <2>1, LeavesFrame DEF LeaveInv
  <2>3. /\ (pc = "report" /\ ~keep) \/ pc \in {"ssh", "sshrun"}
        /\ c \notin astray'
        => Gone(c)'
    BY <1>c, <1>0, GoneStays DEF LeaveInv
  <2> QED BY <1>c, <2>1, <2>2, <2>3 DEF LeaveInv, Gone, Live
<1> QED BY <1>1, <1>2, <1>3, <1>4, <1>5, <1>6, <1>7, <1>8, <1>9, <1>10, <1>11,
           <1>12
        DEF Next, StepThread, Launch, Settle, Finished

\* Over either transport, however its steps went, a step that is not reported
\* as still running and whose requests were all answered and done leaves no
\* live session that nobody asked to end, no payload and, if it succeeded, no
\* readable secret; no assumption on the payload names or on what the client
\* knows of its input is needed for it.
THEOREM LeaveCorrect == Spec => []LeavesNothingBehind
<1> DEFINE Inv == /\ TypeOK /\ SessionInv /\ FreshInv /\ LeaveInv
<1>1. Init => Inv
  BY TypeInit, SessionInit, FreshInit DEF Init, LeaveInv, AllGone
<1>2. Inv /\ [Next]_vars => Inv'
  BY TypeStep, SessionStep, FreshStep, LeaveStep
<1>3. Inv => LeavesNothingBehind
  BY DEF LeaveInv, AllGone, Gone, LeavesNothingBehind
<1> QED BY <1>1, <1>2, <1>3, PTL DEF Spec

-----------------------------------------------------------------------------
(* The promise to the run                                                   *)

\* The script of the step has begun in its session.
Begun(s) == sess[s] \in {"script", "ended"}

\* A verdict that speaks of the script itself.
OfScript(o) == o \in {"Ok", "Skipped", "FailedScript"}

\* Both transports leave their traces in the count of starts.
TraceInv == \A s \in Steps :
  /\ loaded[s] = s \/ s \in sshRan => starts[s] > 0
  /\ sshExit[s] # "none" => s \in sshRan

\* A verdict about the script comes from one that began, and every step before
\* the current one was reported.
VerdictInv ==
  /\ \A s \in Steps : OfScript(outcome[s]) => s \notin typed \/ Begun(s)
  /\ Queued("TuiRedraw") \/ why = "tui" => Begun(step)
  /\ pc = "grace" => why # "none"
  /\ pc \in {"cleanup", "report"} =>
       verdict # "none" /\ (OfScript(verdict) => Begun(step))
  /\ \A s \in Steps : s < step => outcome[s] # "none"
  /\ pc \in {"advance", "done"} => outcome[step] # "none"

\* Scripts are counted by the two steps that start one.
LEMMA TraceStep ==
  ASSUME TypeOK, HistoryInv, TruthInv, TraceInv, [Next]_vars
  PROVE  TraceInv'
<1>1. CASE SshStart
  BY <1>1 DEF SshStart, TraceInv, TypeOK, TypeRun, serverVars
<1>2. ASSUME NEW s \in Steps, ReadBootstrap(s), payload[StepId[s]] # NoStep
      PROVE  TraceInv'
  <2>1. payload[StepId[s]] = s
    BY <1>2 DEF HistoryInv, PayloadInv
  <2> QED BY <1>2, <2>1 DEF ReadBootstrap, TraceInv, TypeOK, TypeServer, sshVars
<1>3. ASSUME NEW r, SshExit(r) PROVE TraceInv'
  BY <1>3 DEF SshExit, TruthInv, TraceInv, TypeOK, TypeRun, TypeSsh, serverVars
<1>4. CASE UNCHANGED sshVars /\ UNCHANGED <<loaded, starts>>
  BY <1>4 DEF TraceInv, sshVars
<1> QED BY <1>1, <1>2, <1>3, <1>4, ScriptTouched

\* A script that began stays so, and only the bootstrap line makes one begin.
LEMMA BegunStays ==
  ASSUME TypeOK, SessionInv, [Next]_vars, NEW s \in Steps
  PROVE  /\ Begun(s) => Begun(s)'
         /\ WriteBootstrap \/ typed' = typed
<1>1. CASE WritePayload \/ WriteBootstrap \/ Cleanup
  BY <1>1 DEF WritePayload, WriteBootstrap, Cleanup, Begun
<1>2. CASE CreateSession
  BY <1>2 DEF CreateSession, SessionInv, Begun, TypeOK, TypeRun, TypeServer
<1>3. ASSUME NEW t \in Steps, ReadBootstrap(t), payload[StepId[t]] # NoStep
      PROVE  (Begun(s) => Begun(s)') /\ typed' = typed
  BY <1>3 DEF ReadBootstrap, Begun, TypeOK, TypeServer
<1>4. ASSUME NEW t \in Steps, NEW r, LiveSessionEnds(t, r)
      PROVE  (Begun(s) => Begun(s)') /\ typed' = typed
  BY <1>4 DEF LiveSessionEnds, SessionEnds, Begun, TypeOK, TypeServer
<1>5. CASE UNCHANGED <<sess, reason, typed, payload, loaded, discarded>>
  BY <1>5 DEF Begun
<1> QED BY <1>1, <1>2, <1>3, <1>4, <1>5, TargetTouched

\* A step that reports nothing, hears of no redraw and reaches no verdict keeps
\* the invariant.
LEMMA VerdictFrame ==
  ASSUME TypeOK, SessionInv, VerdictInv, [Next]_vars,
         UNCHANGED <<step, outcome, typed>>,
         Queued("TuiRedraw")' => Queued("TuiRedraw") \/ Begun(step),
         why' = "tui" => why = "tui" \/ Begun(step),
         pc' = "grace" => why' # "none",
         pc' \in {"cleanup", "report"} =>
           \/ pc \in {"cleanup", "report"} /\ verdict' = verdict
           \/ verdict' # "none" /\ (OfScript(verdict') => Begun(step)),
         pc' \in {"advance", "done"} => pc \in {"advance", "done"}
  PROVE  VerdictInv'
<1>1. PICK c \in Steps : c = step
  BY DEF TypeOK, TypeRun
<1>2. Begun(c) => Begun(c)'
  BY BegunStays
<1>3. \A s \in Steps : OfScript(outcome[s])' => s \notin typed' \/ Begun(s)'
  BY BegunStays DEF VerdictInv, OfScript
<1>4. Begun(step)' <=> Begun(c)'
  BY <1>1 DEF Begun
<1> QED BY <1>1, <1>2, <1>3, <1>4 DEF VerdictInv, OfScript

\* The verdicts are kept while a transport is chosen ...
LEMMA VerdictEnsureStep ==
  ASSUME TypeOK, SessionInv, VerdictInv, Ensure
  PROVE  VerdictInv'
  BY VerdictFrame, QueuedFrame
     DEF Next, StepThread, Ensure, ReuseConnection, KnownUnavailable, Connect,
         ConnectFails, FallbackOrFail, Failure, OfScript, runVars, resultVars,
         pumpVars, serverVars

\* ... while a session is started ...
LEMMA VerdictLaunchStep ==
  ASSUME TypeOK, SessionInv, FreshInv, VerdictInv, Launch
  PROVE  VerdictInv'
<1>0. [Next]_vars
  BY DEF Next, StepThread
<1>1. CASE RefuseEnv \/ WritePayload \/ CreateSession \/ Attach
  BY <1>0, <1>1, VerdictFrame, QueuedFrame
     DEF RefuseEnv, WritePayload, CreateSession, Attach, Failure, OfScript,
         runVars, resultVars, pumpVars, serverVars
<1>2. CASE Register
  BY <1>0, <1>2, VerdictFrame, EmptyQueued
     DEF Register, runVars, resultVars, serverVars
<1>3. CASE WriteBootstrap
  <2>1. /\ UNCHANGED <<step, outcome, rx, why, sess>>
        /\ pc' \in {"check", "cleanup"}
        /\ pc' = "cleanup" => verdict' = "failure"
        /\ typed' \subseteq typed \cup {step}
        /\ outcome[step] = "none"
    BY <1>3 DEF WriteBootstrap, Failure, FreshInv, runVars, resultVars
  <2>2. Queued("TuiRedraw")' => Queued("TuiRedraw")
    BY <2>1, QueuedFrame
  <2> QED BY <2>1, <2>2 DEF VerdictInv, Begun, OfScript
<1> QED BY <1>1, <1>2, <1>3 DEF Launch

\* ... in the loop of run_attached ...
LEMMA VerdictLoopStep ==
  ASSUME TypeOK, SessionInv, VerdictInv, Loop
  PROVE  VerdictInv'
<1>0. [Next]_vars
  BY DEF Next, StepThread
<1>1. CASE CancelOutcome \/ TimeoutOutcome \/ KeepWaiting \/ RecvTimeout
  BY <1>0, <1>1, VerdictFrame, QueuedFrame
     DEF CancelOutcome, TimeoutOutcome, KeepWaiting, RecvTimeout, Result,
         OfScript, runVars, resultVars, pumpVars, serverVars
<1>2. CASE Reconnect \/ Reattach \/ Reregister
  BY <1>0, <1>2, VerdictFrame, QueuedFrame
     DEF Reconnect, Reattach, Reregister, Failure, OfScript, runVars,
         resultVars, pumpVars, serverVars
<1>3. CASE RecvLines \/ RecvDisconnected
  BY <1>0, <1>3, VerdictFrame, Dequeued
     DEF RecvLines, RecvDisconnected, Receive, Failure, OfScript, TypeOK,
         runVars, resultVars, serverVars
<1>4. CASE RecvTuiRedraw
  BY <1>0, <1>4, VerdictFrame, Dequeued
     DEF RecvTuiRedraw, Receive, OfScript, VerdictInv, TypeOK, runVars
<1>5. CASE RecvEnded
  <2>1. Queued("Ended") /\ Begun(step)
    BY <1>5, Dequeued DEF RecvEnded, Receive, SessionInv, Begun, TypeOK
  <2> QED BY <1>0, <1>5, <2>1, VerdictFrame, Dequeued
          DEF RecvEnded, Receive, Result, ExitOutcome, TypeOK, runVars,
              serverVars
<1> QED BY <1>1, <1>2, <1>3, <1>4, <1>5 DEF Loop

\* ... when the step is settled ...
LEMMA VerdictSettleStep ==
  ASSUME TypeOK, SessionInv, OnceInv, FreshInv, VerdictInv, Settle
  PROVE  VerdictInv'
<1>0. [Next]_vars
  BY DEF Next, StepThread
<1>1. CASE GraceRecv
  <2>1. /\ AwaitedOutcome # "none"
        /\ OfScript(AwaitedOutcome) => Begun(step)
    BY <1>1 DEF GraceRecv, AwaitedOutcome, OfScript, VerdictInv, TypeOK,
                TypeResult
  <2> QED BY <1>0, <1>1, <2>1, VerdictFrame, Dequeued
          DEF GraceRecv, Result, OfScript, VerdictInv, TypeOK, runVars,
              resultVars, serverVars
<1>2. CASE GraceExpires
  <2>1. /\ AwaitedOutcome # "none"
        /\ OfScript(AwaitedOutcome) => Begun(step)
    BY <1>2 DEF GraceExpires, AwaitedOutcome, OfScript, VerdictInv, TypeOK,
                TypeResult
  <2> QED BY <1>0, <1>2, <2>1, VerdictFrame, QueuedFrame
          DEF GraceExpires, Result, runVars, serverVars
<1>3. CASE Cleanup \/ Fallback \/ SshStart
  BY <1>0, <1>3, VerdictFrame, QueuedFrame
     DEF Cleanup, Fallback, SshStart, runVars, resultVars, pumpVars, serverVars
<1>4. CASE ReportResult \/ ReportFailure \/ SshReport
  <2>1. PICK o : /\ Report(o) /\ o # "none"
                 /\ OfScript(o) => step \notin typed \/ Begun(step)
    <3>1. CASE ReportResult
      BY <3>1 DEF ReportResult, VerdictInv
    <3>2. CASE ReportFailure
      BY <3>2 DEF ReportFailure, OfScript
    <3>3. CASE SshReport
      BY <3>3 DEF SshReport, ExitOutcome, OnceInv, PositionInv
    <3> QED BY <1>4, <3>1, <3>2, <3>3
  <2>2. /\ UNCHANGED <<step, typed, sess, rx, why>> /\ pc' = "advance"
        /\ step \in Steps
        /\ \A s \in Steps : outcome'[s] = IF s = step THEN o ELSE outcome[s]
    BY <2>1 DEF Report, TypeOK, TypeRun, resultVars, pumpVars, serverVars
  <2>3. Queued("TuiRedraw")' => Queued("TuiRedraw")
    BY <2>2, QueuedFrame
  <2> QED BY <2>1, <2>2, <2>3 DEF VerdictInv, Begun, OfScript
<1>5. CASE Advance
  <2>1. /\ UNCHANGED <<outcome, typed, sess>> /\ why' = "none" /\ rx' = <<>>
        /\ pc = "advance" /\ pc' \in {"done", "ensure"}
        /\ \/ step' = step
           \/ step' = step + 1 /\ pc' = "ensure"
    BY <1>5 DEF Advance, serverVars
  <2>2. \A s \in Steps : s < step' => s < step \/ s = step
    BY <2>1 DEF TypeOK, TypeRun, Steps
  <2> QED BY <2>1, <2>2, EmptyQueued DEF VerdictInv, Begun, OfScript
<1> QED BY <1>1, <1>2, <1>3, <1>4, <1>5 DEF Settle

\* ... and by what happens around the thread.
LEMMA VerdictOutsideStep ==
  ASSUME TypeOK, SessionInv, VerdictInv,
         Pump \/ Target \/ LinkDrops \/ Interrupt \/ DeadlinePasses
  PROVE  VerdictInv'
<1>0. [Next]_vars
  BY DEF Next
<1>1. ASSUME NEW m \in {"Lines", "TuiRedraw"}, PumpFrame(m) PROVE VerdictInv'
  BY <1>0, <1>1, VerdictFrame, Delivered
     DEF PumpFrame, Begun, VerdictInv, TypeOK, Messages, runVars, resultVars,
         serverVars
<1>2. CASE PumpEnded \/ PumpDisconnected
  BY <1>0, <1>2, VerdictFrame, Delivered
     DEF PumpEnded, PumpDisconnected, VerdictInv, TypeOK, Messages, runVars,
         resultVars, serverVars
<1>3. CASE Target
  BY <1>0, <1>3, VerdictFrame, QueuedFrame
     DEF Target, ReadBootstrap, ScriptExits, ServerEnds, AppKills, ServerStops,
         SessionEnds, SshExit, VerdictInv, runVars, resultVars, pumpVars,
         serverVars
<1>4. CASE LinkDrops \/ Interrupt \/ DeadlinePasses
  BY <1>0, <1>4, VerdictFrame, QueuedFrame
     DEF LinkDrops, Interrupt, DeadlinePasses, VerdictInv, runVars, resultVars,
         pumpVars, serverVars
<1> QED BY <1>1, <1>2, <1>3, <1>4 DEF Pump

\* The verdicts are kept by every step.
LEMMA VerdictStep ==
  ASSUME TypeOK, SessionInv, OnceInv, FreshInv, VerdictInv, [Next]_vars
  PROVE  VerdictInv'
<1>1. CASE UNCHANGED vars
  BY <1>1, VerdictFrame, QueuedFrame
     DEF VerdictInv, vars, runVars, resultVars, pumpVars, serverVars
<1> QED BY <1>1, VerdictEnsureStep, VerdictLaunchStep, VerdictLoopStep,
           VerdictSettleStep, VerdictOutsideStep DEF Next, StepThread, Finished

\* Both hold initially.
LEMMA VerdictInit == Init => TraceInv /\ VerdictInv
<1> SUFFICES ASSUME Init PROVE TraceInv /\ VerdictInv
  OBVIOUS
<1>1. TraceInv
  BY ConstantsAssumption DEF Init, TraceInv, Steps, NoStep
<1>2. \A s \in Steps : ~(s < step)
  BY DEF Init, Steps
<1> QED BY <1>1, <1>2, EmptyQueued DEF Init, VerdictInv, OfScript

\* What the proof of the promise needs to know of a state.
PromiseInv ==
  /\ TypeOK /\ SessionInv /\ HistoryInv /\ TruthInv
  /\ FreshInv /\ OnceInv /\ TraceInv /\ VerdictInv

\* All of them together are kept by every step.
LEMMA PromiseInvStep ==
  ASSUME OwnPayloads, ~AmbiguousInput, PromiseInv, [Next]_vars
  PROVE  PromiseInv'
  BY TypeStep, SessionStep, HistoryStep, TruthStep, FreshStep, OnceStep,
     TraceStep, VerdictStep DEF PromiseInv

\* They hold initially.
LEMMA PromiseInvInit == Init => PromiseInv
<1>1. Init => TruthInv
  BY DEF Init, TruthInv, Truthful
<1> QED BY <1>1, TypeInit, SessionInit, HistoryInit, FreshInit, OnceInit,
           VerdictInit DEF PromiseInv

\* A script that has not begun has no exit.
LEMMA ExitsBegun ==
  ASSUME PromiseInv, NEW s \in Steps
  PROVE  /\ ExitOf(s) # "none" => starts[s] > 0
         /\ starts[s] > 0 => loaded[s] = s \/ s \in sshRan
         /\ s \in typed => s \notin sshRan /\ sshExit[s] = "none"
         /\ sess[s] # "ended" => reason[s] = "none"
  BY DEF PromiseInv, ExitOf, TraceInv, HistoryInv, OnceInv, StartsInv

\* What the promise does not tell apart.
LEMMA PromiseStutters ==
  ASSUME UNCHANGED <<step, outcome, starts>>, pc = "done" <=> pc' = "done",
         \A s \in Steps : ExitOf(s)' = ExitOf(s)
  PROVE  UNCHANGED Promise!vars
<1>1. [s \in Steps |-> ExitOf(s)]' = [s \in Steps |-> ExitOf(s)]
  OBVIOUS
<1>2. (pc = "done")' = (pc = "done")
  OBVIOUS
<1> QED BY <1>1, <1>2 DEF Promise!vars

\* The start of one script is the promise's.
LEMMA PromiseStart ==
  ASSUME TypeOK, NEW t \in Steps,
         starts' = [starts EXCEPT ![t] = @ + 1], starts[t] = 0,
         (t = step /\ outcome[t] = "none")
           \/ outcome[t] \in {"FailedTransport", "TimedOut", "Cancelled"},
         UNCHANGED <<step, outcome>>, pc = "done" <=> pc' = "done",
         \A s \in Steps : ExitOf(s)' = ExitOf(s)
  PROVE  Promise!Next
<1>1. [s \in Steps |-> ExitOf(s)]' = [s \in Steps |-> ExitOf(s)]
  OBVIOUS
<1>2. (pc = "done")' = (pc = "done")
  OBVIOUS
<1>3. {s \in Steps : starts[s] > 0}' = {s \in Steps : starts[s] > 0} \cup {t}
  BY DEF TypeOK
<1>4. Promise!Start(t)
  BY <1>1, <1>2, <1>3 DEF Promise!Start, Promise!GivenUp
<1> QED BY <1>4 DEF Promise!Next, Promise!Steps, Steps

\* The exit of one script is the promise's.
LEMMA PromiseExit ==
  ASSUME TypeOK, NEW t \in Steps, NEW r \in Reasons,
         starts[t] > 0, ExitOf(t) = "none", ExitOf(t)' = r,
         \A s \in Steps : s # t => ExitOf(s)' = ExitOf(s),
         UNCHANGED <<step, outcome, starts>>, pc = "done" <=> pc' = "done"
  PROVE  Promise!Next
<1>1. [s \in Steps |-> ExitOf(s)]'
      = [[s \in Steps |-> ExitOf(s)] EXCEPT ![t] = r]
  OBVIOUS
<1>2. (pc = "done")' = (pc = "done")
  OBVIOUS
<1>3. Promise!Exit(t, r)
  BY <1>1, <1>2 DEF Promise!Exit
<1> QED BY <1>3 DEF Promise!Next, Promise!Steps, Promise!Reasons, Steps, Reasons

\* A report is the promise's.
LEMMA PromiseReport ==
  ASSUME TypeOK, PromiseInv, NEW o \in Outcomes, Report(o),
         pc \notin {"advance", "done"},
         o = "Ok" => Completed(step, "Exited0"),
         o = "Skipped" => step \in HasGuard /\ Completed(step, "Exited42")
  PROVE  Promise!Next
<1>0. step \in Steps
  BY DEF TypeOK, TypeRun
<1>1. /\ o = "Ok" => ExitOf(step) = "Exited0"
      /\ o = "Skipped" => step \in HasGuard /\ ExitOf(step) = "Exited42"
  BY <1>0, ExitsBegun DEF Completed, ExitOf, PromiseInv, HistoryInv, PayloadInv
<1>2. /\ [s \in Steps |-> ExitOf(s)]' = [s \in Steps |-> ExitOf(s)]
      /\ {s \in Steps : starts[s] > 0}' = {s \in Steps : starts[s] > 0}
  BY DEF Report, ExitOf, serverVars, sshVars
<1>3. (pc = "done")' = (pc = "done")
  BY DEF Report
<1>4. Promise!Report(o)
  BY <1>0, <1>1, <1>2, <1>3 DEF Promise!Report, Report, PromiseInv, FreshInv
<1> QED BY <1>4 DEF Promise!Next, Promise!Outcomes, Outcomes

\* Moving on is the promise's, and so is the end.
LEMMA PromiseAdvance ==
  ASSUME PromiseInv, Advance
  PROVE  Promise!Next
<1>0. step \in Steps /\ outcome[step] # "none"
  BY DEF Advance, PromiseInv, VerdictInv, TypeOK, TypeRun
<1>1. /\ [s \in Steps |-> ExitOf(s)]' = [s \in Steps |-> ExitOf(s)]
      /\ {s \in Steps : starts[s] > 0}' = {s \in Steps : starts[s] > 0}
      /\ outcome' = outcome
  BY DEF Advance, ExitOf, serverVars, sshVars
<1>2. CASE pc' = "done" /\ step' = step
  <2>1. (pc = "done") = FALSE /\ (pc = "done")' = TRUE
    BY <1>2 DEF Advance
  <2>2. Promise!End
    BY <1>0, <1>1, <1>2, <2>1 DEF Promise!End
  <2> QED BY <2>2 DEF Promise!Next
<1>3. CASE /\ pc' = "ensure" /\ step' = step + 1 /\ step # NumSteps
           /\ StepFailed(step) => ContinueOnError
  <2>1. (pc = "done") = FALSE /\ (pc = "done")' = FALSE
    BY <1>3 DEF Advance
  <2>2. step < NumSteps
    BY <1>0, <1>3, ConstantsAssumption DEF Steps
  <2>3. Promise!NextStep
    BY <1>0, <1>1, <1>3, <2>1, <2>2
       DEF Promise!NextStep, Promise!Failed, StepFailed
  <2> QED BY <2>3 DEF Promise!Next
<1> QED BY <1>2, <1>3 DEF Advance

\* The rest of the transport's steps are none of the promise's.
LEMMA PromiseRest ==
  ASSUME [Next]_vars
  PROVE  \/ ReportResult \/ ReportFailure \/ SshReport \/ Advance
         \/ UNCHANGED <<step, outcome>> /\ (pc = "done" <=> pc' = "done")
<1>1. CASE Ensure
  BY <1>1 DEF Ensure, ReuseConnection, KnownUnavailable, Connect, ConnectFails,
              FallbackOrFail, Failure, runVars
<1>2. CASE Launch
  BY <1>2 DEF Launch, RefuseEnv, WritePayload, CreateSession, Attach, Register,
              WriteBootstrap, Failure, runVars
<1>3. CASE Loop
  BY <1>3 DEF Loop, CancelOutcome, TimeoutOutcome, KeepWaiting, RecvTimeout,
              RecvLines, RecvTuiRedraw, RecvEnded, RecvDisconnected, Reconnect,
              Reattach, Reregister, Result, Failure, runVars
<1>4. CASE GraceRecv \/ GraceExpires \/ Cleanup \/ Fallback \/ SshStart
  BY <1>4 DEF GraceRecv, GraceExpires, Cleanup, Fallback, SshStart, Result,
              runVars
<1>5. CASE Pump \/ Target
  BY <1>5 DEF Pump, PumpFrame, PumpEnded, PumpDisconnected, Target,
              ReadBootstrap, ScriptExits, ServerEnds, AppKills, ServerStops,
              SessionEnds, SshExit, runVars
<1>6. CASE LinkDrops \/ Interrupt \/ DeadlinePasses \/ UNCHANGED vars
  BY <1>6 DEF LinkDrops, Interrupt, DeadlinePasses, vars, runVars
<1> QED BY <1>1, <1>2, <1>3, <1>4, <1>5, <1>6
        DEF Next, StepThread, Settle, Finished

\* Every step of the transport is a step of the promise, or none.
LEMMA PromiseStep ==
  ASSUME PromiseInv, [Next]_vars
  PROVE  [Promise!Next]_(Promise!vars)
<1> USE DEF PromiseInv
<1>0. step \in Steps
  BY DEF TypeOK, TypeRun
<1>1. ASSUME NEW t \in Steps, ReadBootstrap(t), payload[StepId[t]] # NoStep
      PROVE  Promise!Next
  <2>1. payload[StepId[t]] = t /\ t \in typed /\ sess[t] = "shell"
        /\ loaded[t] # t
    BY <1>1 DEF ReadBootstrap, HistoryInv, PayloadInv
  <2>2. starts[t] = 0
    BY <2>1 DEF OnceInv, StartsInv
  <2>3. (t = step /\ outcome[t] = "none")
          \/ outcome[t] \in {"FailedTransport", "TimedOut", "Cancelled"}
    <3>1. ~(t > step)
      BY <2>1 DEF OnceInv, PositionInv
    <3>2. ~OfScript(outcome[t])
      BY <2>1 DEF VerdictInv, Begun
    <3>3. outcome[t] = "none" => t = step
      BY <1>0, <3>1 DEF VerdictInv, Steps
    <3> QED BY <3>2, <3>3 DEF OfScript, TypeOK, TypeRun, Outcomes
  <2>4. \A s \in Steps : ExitOf(s)' = ExitOf(s)
    BY <1>1, <2>1, ExitsBegun
       DEF ReadBootstrap, ExitOf, TypeOK, TypeServer, sshVars
  <2>5. /\ starts' = [starts EXCEPT ![t] = @ + 1]
        /\ UNCHANGED <<step, outcome>> /\ (pc = "done" <=> pc' = "done")
    BY <1>1, <2>1 DEF ReadBootstrap, runVars
  <2> QED BY <2>2, <2>3, <2>4, <2>5, PromiseStart
<1>2. CASE SshStart
  <2>1. /\ step \notin typed /\ loaded[step] # step /\ starts[step] = 0
        /\ outcome[step] = "none"
    BY <1>0, <1>2 DEF SshStart, OnceInv, PositionInv, StartsInv, PayloadInv,
                      FreshInv
  <2>2. \A s \in Steps : ExitOf(s)' = ExitOf(s)
    BY <1>2 DEF SshStart, ExitOf, serverVars
  <2>3. PICK t \in Steps : t = step
    BY <1>0
  <2> QED BY <1>2, <2>1, <2>2, <2>3, PromiseStart DEF SshStart, runVars
<1>3. ASSUME NEW t \in Steps, NEW r, LiveSessionEnds(t, r)
      PROVE  [Promise!Next]_(Promise!vars)
  <2>1. /\ UNCHANGED <<step, outcome, starts>> /\ (pc = "done" <=> pc' = "done")
        /\ r \in Reasons /\ Live(t)
        /\ \A s \in Steps : s # t => ExitOf(s)' = ExitOf(s)
        /\ loaded' = loaded /\ sshExit' = sshExit /\ reason'[t] = r
    BY <1>3 DEF LiveSessionEnds, SessionEnds, ExitOf, TypeOK, TypeServer,
                runVars, sshVars
  <2>2. CASE loaded[t] = t
    <3>1. ExitOf(t) = "none" /\ ExitOf(t)' = r /\ starts[t] > 0
      BY <2>1, <2>2, ExitsBegun
         DEF ExitOf, Live, HistoryInv, PayloadInv, TraceInv
    <3> QED BY <2>1, <3>1, PromiseExit
  <2>3. CASE loaded[t] # t
    <3>1. \A s \in Steps : ExitOf(s)' = ExitOf(s)
      BY <2>1, <2>3 DEF ExitOf
    <3> QED BY <2>1, <3>1, PromiseStutters
  <2> QED BY <2>2, <2>3
<1>4. ASSUME NEW r \in Reasons, SshExit(r)
      PROVE  Promise!Next
  <2>1. PICK t \in Steps : t = step
    BY <1>0
  <2>2. t \in sshRan /\ loaded[t] # t /\ starts[t] > 0
    BY <1>4, <2>1 DEF SshExit, TruthInv, OnceInv, PositionInv, PayloadInv,
                      TraceInv
  <2>3. /\ ExitOf(t) = "none" /\ ExitOf(t)' = r
        /\ \A s \in Steps : s # t => ExitOf(s)' = ExitOf(s)
    BY <1>4, <2>1, <2>2 DEF SshExit, ExitOf, TypeOK, TypeSsh, Reasons,
                            serverVars
  <2> QED BY <1>4, <2>2, <2>3, PromiseExit DEF SshExit, runVars
<1>5. CASE ReportResult
  <2>1. verdict \in Outcomes
    BY <1>5 DEF ReportResult, VerdictInv, TypeOK, TypeResult
  <2> QED BY <1>5, <2>1, PromiseReport DEF ReportResult, TruthInv
<1>6. CASE ReportFailure
  BY <1>6, PromiseReport DEF ReportFailure, Outcomes
<1>7. CASE SshReport
  <2>1. PICK o \in Outcomes :
          /\ Report(o)
          /\ o \in {"Ok", "Skipped"} =>
               /\ pc = "sshrun"
               /\ o = ExitOutcome(sshExit[step], step \in HasGuard)
    BY <1>7 DEF SshReport, ExitOutcome, Outcomes
  <2>2. /\ o = "Ok" => Completed(step, "Exited0")
        /\ o = "Skipped" => step \in HasGuard /\ Completed(step, "Exited42")
    BY <2>1 DEF ExitOutcome, TruthInv, Completed
  <2> QED BY <1>7, <2>1, <2>2, PromiseReport DEF SshReport
<1>8. CASE Advance
  BY <1>8, PromiseAdvance
<1>9. CASE /\ UNCHANGED <<step, outcome>> /\ (pc = "done" <=> pc' = "done")
           /\ UNCHANGED sshVars /\ UNCHANGED <<loaded, starts>>
           /\ reason' = reason
  <2>1. \A s \in Steps : ExitOf(s)' = ExitOf(s)
    BY <1>9 DEF ExitOf, sshVars
  <2> QED BY <1>9, <2>1, PromiseStutters
<1>10. reason' = reason \/ \E t \in Steps : \E r : LiveSessionEnds(t, r)
  <2>1. ASSUME NEW t \in Steps, ReadBootstrap(t), payload[StepId[t]] # NoStep
        PROVE  reason' = reason
    BY <2>1 DEF ReadBootstrap
  <2> QED BY <2>1, TargetTouched
          DEF WritePayload, CreateSession, WriteBootstrap, Cleanup
<1> QED BY <1>1, <1>2, <1>3, <1>4, <1>5, <1>6, <1>7, <1>8, <1>9, <1>10,
           PromiseRest, ScriptTouched

\* Seen from outside, the run on a host keeps the promise of StepPromise: the
\* steps come in plan order, each script begins at most once, a success is the
\* exit code the script had, and only a step that was given up may begin after
\* it was reported.  Like OnceCorrect it needs payload files of one's own and
\* a client that knows whether its input arrived.
THEOREM PromiseCorrect ==
  ASSUME OwnPayloads, ~AmbiguousInput
  PROVE  Spec => KeepsPromise
<1>1. Init => Promise!Init
  <2> SUFFICES ASSUME Init PROVE Promise!Init
    OBVIOUS
  <2>1. \A s \in Steps : starts[s] = 0 /\ ExitOf(s) = "none"
    BY ConstantsAssumption DEF Init, ExitOf, Steps, NoStep
  <2> QED BY <2>1 DEF Init, Promise!Init, Promise!Steps, Steps
<1>2. PromiseInv /\ [Next]_vars => PromiseInv'
  BY PromiseInvStep
<1>3. PromiseInv /\ [Next]_vars => [Promise!Next]_(Promise!vars)
  BY PromiseStep
<1> QED BY <1>1, <1>2, <1>3, PromiseInvInit, PTL
        DEF Spec, KeepsPromise, Promise!Spec
=============================================================================
