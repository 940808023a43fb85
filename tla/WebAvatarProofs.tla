--------------------------- MODULE WebAvatarProofs ---------------------------
(***************************************************************************)
(* Proofs about WebAvatar: the running speech is the one StopAll joins,    *)
(* and what a returned StopAll covers stays silent, for any actions and    *)
(* any number of stops.                                                    *)
(***************************************************************************)
EXTENDS WebAvatar, TLAPS

\* A speech has a goroutine, running or ended, exactly when it has a record.
SpeechesAreRecorded == \A a \in Speeches : spc[a] = "none" <=> records[a] = "none"

\* performSpeech returns with a terminal state.
FinishHasResult == \A a \in Speeches : spc[a] = "finish" => result[a] \in Terminals

\* What StopAll found when it took the lock is over, but for the speech it joins.
StopCoversRunning ==
    \A a \in atStop : /\ records[a] # "none"
                      /\ a \in Speeches /\ Running(a) => a = joining

\* What a returned StopAll covered is over.
SilencedAreOver ==
    \A a \in silenced : records[a] # "none" /\ (a \in Speeches => ~Running(a))

\* The inductive invariant.
AvatarInv ==
    /\ AvatarTypeOK
    /\ TheActiveSpeechIsTheOneRunning
    /\ SpeechesAreRecorded
    /\ FinishHasResult
    /\ StopCoversRunning
    /\ SilencedAreOver

-----------------------------------------------------------------------------

LEMMA AvatarInit == Init => AvatarInv
<1> SUFFICES ASSUME Init PROVE AvatarInv
  OBVIOUS
<1>1. AvatarTypeOK
  BY AvatarAssumption DEF Init, AvatarTypeOK
<1>2. \A a \in Speeches : a # NoAction
  BY AvatarAssumption DEF Actions
<1>3. TheActiveSpeechIsTheOneRunning
  BY <1>2 DEF Init, TheActiveSpeechIsTheOneRunning, Running
<1>4. SpeechesAreRecorded
  BY DEF Init, SpeechesAreRecorded, Actions
<1>5. FinishHasResult /\ StopCoversRunning /\ SilencedAreOver
  BY DEF Init, FinishHasResult, StopCoversRunning, SilencedAreOver
<1> QED BY <1>1, <1>3, <1>4, <1>5 DEF AvatarInv

\* Steps of the caller that touch neither a record nor a goroutine.
LEMMA CallerInv ==
    ASSUME AvatarInv,
           (\E a \in Actions : EnterExecute(a)) \/ RefuseAction \/ NextCall \/ SpeakerStopped
    PROVE  AvatarInv'
<1>1. UNCHANGED <<current, records, active, speechVars, joining, atStop, silenced, stops>>
  BY DEF EnterExecute, RefuseAction, NextCall, SpeakerStopped, stopVars
<1>2. AvatarTypeOK'
  BY <1>1 DEF AvatarInv, AvatarTypeOK, speechVars, EnterExecute, RefuseAction, NextCall, SpeakerStopped, stopVars
<1>3. TheActiveSpeechIsTheOneRunning' /\ SpeechesAreRecorded' /\ FinishHasResult'
  BY <1>1 DEF AvatarInv, speechVars, TheActiveSpeechIsTheOneRunning, Running, SpeechesAreRecorded, FinishHasResult
<1>4. StopCoversRunning' /\ SilencedAreOver'
  BY <1>1 DEF AvatarInv, speechVars, StopCoversRunning, SilencedAreOver, Running
<1> QED BY <1>2, <1>3, <1>4 DEF AvatarInv

LEMMA ExecuteVisualInv == AvatarInv /\ ExecuteVisual => AvatarInv'
<1> SUFFICES ASSUME AvatarInv, ExecuteVisual PROVE AvatarInv'
  OBVIOUS
<1>1. /\ UNCHANGED <<active, speechVars, worker, stopVars>>
      /\ exec \in Visuals /\ exec \in Actions /\ exec \notin Speeches
      /\ records' = [records EXCEPT ![exec] = "COMPLETED"]
  BY AvatarAssumption DEF ExecuteVisual, Actions
<1>2. AvatarTypeOK'
  BY <1>1 DEF AvatarInv, AvatarTypeOK, ExecuteVisual, Show, speechVars, stopVars, Terminals
<1>3. \A a \in Actions : records[a] # "none" => records'[a] # "none"
  BY <1>1 DEF AvatarInv, AvatarTypeOK
<1>4. \A a \in Speeches : records'[a] = records[a]
  BY <1>1 DEF AvatarInv, AvatarTypeOK, Actions
<1>5. TheActiveSpeechIsTheOneRunning' /\ SpeechesAreRecorded' /\ FinishHasResult'
  BY <1>1, <1>4 DEF AvatarInv, speechVars, TheActiveSpeechIsTheOneRunning, Running, SpeechesAreRecorded,
                    FinishHasResult
<1>6. StopCoversRunning' /\ SilencedAreOver'
  BY <1>1, <1>3 DEF AvatarInv, AvatarTypeOK, speechVars, stopVars, StopCoversRunning, SilencedAreOver, Running
<1> QED BY <1>2, <1>5, <1>6 DEF AvatarInv

LEMMA ExecuteSpeechInv == AvatarInv /\ ExecuteSpeech => AvatarInv'
<1> SUFFICES ASSUME AvatarInv, ExecuteSpeech PROVE AvatarInv'
  OBVIOUS
<1>1. /\ exec \in Speeches /\ exec \in Actions /\ exec # NoAction
      /\ records[exec] = "none" /\ active = NoAction
      /\ records' = [records EXCEPT ![exec] = "open"]
      /\ active' = exec
      /\ spc' = [spc EXCEPT ![exec] = "begin"]
      /\ UNCHANGED <<result, shown, worker, stopVars, current>>
  BY AvatarAssumption DEF ExecuteSpeech, Refused, Actions
<1>2. AvatarTypeOK'
  BY <1>1 DEF AvatarInv, AvatarTypeOK, ExecuteSpeech, CancelWith, stopVars
<1>3. TheActiveSpeechIsTheOneRunning'
  <2>1. \A a \in Speeches : ~Running(a)
    BY <1>1, AvatarAssumption DEF AvatarInv, TheActiveSpeechIsTheOneRunning, Actions
  <2> QED BY <1>1, <2>1 DEF AvatarInv, AvatarTypeOK, TheActiveSpeechIsTheOneRunning, Running
<1>4. SpeechesAreRecorded' /\ FinishHasResult'
  BY <1>1 DEF AvatarInv, AvatarTypeOK, SpeechesAreRecorded, FinishHasResult, Actions
<1>5. exec \notin atStop /\ exec \notin silenced
  BY <1>1 DEF AvatarInv, StopCoversRunning, SilencedAreOver
<1>6. StopCoversRunning' /\ SilencedAreOver'
  BY <1>1, <1>5 DEF AvatarInv, AvatarTypeOK, stopVars, StopCoversRunning, SilencedAreOver, Running
<1> QED BY <1>2, <1>3, <1>4, <1>6 DEF AvatarInv

\* A step of a speech that keeps its goroutine running and its record.
LEMMA RunningInv ==
    ASSUME AvatarInv, NEW a \in Speeches, AvatarTypeOK',
           Running(a), NEW next \in {"realize", "show", "speak", "finish"},
           spc' = [spc EXCEPT ![a] = next],
           next = "finish" => result'[a] \in Terminals,
           \A b \in Speeches \ {a} : result'[b] = result[b],
           UNCHANGED <<records, active, stopVars>>
    PROVE  AvatarInv'
<1>1. \A b \in Speeches : spc'[b] = IF b = a THEN next ELSE spc[b]
  BY DEF AvatarInv, AvatarTypeOK
<1>2. \A b \in Speeches : Running(b)' <=> Running(b)
  BY <1>1 DEF Running
<1>3. TheActiveSpeechIsTheOneRunning'
  BY <1>2 DEF AvatarInv, TheActiveSpeechIsTheOneRunning
<1>4. SpeechesAreRecorded' /\ FinishHasResult'
  BY <1>1 DEF AvatarInv, SpeechesAreRecorded, FinishHasResult, Running
<1>5. StopCoversRunning' /\ SilencedAreOver'
  BY <1>2 DEF AvatarInv, stopVars, StopCoversRunning, SilencedAreOver
<1> QED BY <1>3, <1>4, <1>5 DEF AvatarInv

LEMMA CheckInv ==
    ASSUME AvatarInv, NEW a \in Speeches, BeginSpeech(a) \/ Realized(a) \/ Spoken(a)
    PROVE  AvatarInv'
<1>1. PICK outcome \in {"none", "COMPLETED", "FAILED"}, next \in {"realize", "show", "finish"} :
          /\ Check(a, outcome, next) /\ Running(a)
          /\ next = "finish" => outcome # "none"
  BY DEF BeginSpeech, Realized, Spoken, Running
<1> DEFINE end == IF cause[a] # "none" THEN Verdict(cause[a]) ELSE outcome
           goto == IF end = "none" THEN next ELSE "finish"
<1>2. end \in {"none"} \cup Terminals
  BY DEF Verdict, Terminals
<1>3. goto \in {"realize", "show", "speak", "finish"} /\ (goto = "finish" => end \in Terminals)
  BY <1>1, <1>2 DEF Verdict
<1>4. /\ spc' = [spc EXCEPT ![a] = goto] /\ result' = [result EXCEPT ![a] = end]
      /\ UNCHANGED <<current, records, active, cause, shown, worker, exec, stopVars>>
  BY <1>1 DEF Check
<1> HIDE DEF end, goto
<1>5. AvatarTypeOK'
  BY <1>2, <1>3, <1>4 DEF AvatarInv, AvatarTypeOK, stopVars
<1>6. result'[a] = end /\ \A b \in Speeches \ {a} : result'[b] = result[b]
  BY <1>4 DEF AvatarInv, AvatarTypeOK
<1> QED BY <1>1, <1>3, <1>4, <1>5, <1>6, RunningInv

LEMMA VisualizeInv ==
    ASSUME AvatarInv, NEW a \in Speeches, Visualize(a)
    PROVE  AvatarInv'
<1>1. AvatarTypeOK'
  BY DEF Visualize, Show, AvatarInv, AvatarTypeOK, stopVars, Actions
<1>2. Running(a)
  BY DEF Visualize, Running
<1> QED BY <1>1, <1>2, RunningInv DEF Visualize

LEMMA FinishSpeechInv ==
    ASSUME AvatarInv, NEW a \in Speeches, FinishSpeech(a)
    PROVE  AvatarInv'
<1>1. /\ spc[a] = "finish" /\ result[a] \in Terminals /\ a \in Actions
      /\ records' = [records EXCEPT ![a] = result[a]]
      /\ spc' = [spc EXCEPT ![a] = "close"]
      /\ active = a /\ active' = NoAction /\ a # NoAction
      /\ UNCHANGED <<result, shown, worker, exec, stopVars>>
  BY AvatarAssumption DEF FinishSpeech, AvatarInv, FinishHasResult, TheActiveSpeechIsTheOneRunning, Running, Actions
<1>2. AvatarTypeOK'
  <2>1. current' \in [mode : {"IDLE", "EXPRESSING", "SPEAKING"}, action : Actions \cup {NoAction},
                      speaking : BOOLEAN]
    <3>1. current' = current \/ current' = [mode |-> "SPEAKING", action |-> a, speaking |-> FALSE]
      BY DEF FinishSpeech, Show
    <3>2. CASE current' = current
      BY <3>2 DEF AvatarInv, AvatarTypeOK
    <3>3. CASE current' = [mode |-> "SPEAKING", action |-> a, speaking |-> FALSE]
      BY <1>1, <3>3
    <3> QED BY <3>1, <3>2, <3>3
  <2> QED BY <1>1, <2>1 DEF FinishSpeech, CancelWith, AvatarInv, AvatarTypeOK, stopVars
<1>3. /\ \A b \in Speeches : spc'[b] = IF b = a THEN "close" ELSE spc[b]
      /\ \A b \in Actions : records'[b] = IF b = a THEN result[a] ELSE records[b]
      /\ records'[a] # "none"
  BY <1>1 DEF AvatarInv, AvatarTypeOK, Terminals
<1>4. TheActiveSpeechIsTheOneRunning'
  BY <1>1, <1>3, AvatarAssumption DEF AvatarInv, TheActiveSpeechIsTheOneRunning, Running, Actions
<1>5. SpeechesAreRecorded' /\ FinishHasResult'
  BY <1>1, <1>3 DEF AvatarInv, SpeechesAreRecorded, FinishHasResult, Actions
<1>6. atStop \subseteq Actions /\ silenced \subseteq Actions
  BY DEF AvatarInv, AvatarTypeOK
<1>7. StopCoversRunning' /\ SilencedAreOver'
  BY <1>1, <1>3, <1>6 DEF AvatarInv, stopVars, StopCoversRunning, SilencedAreOver, Running
<1> QED BY <1>2, <1>4, <1>5, <1>7 DEF AvatarInv

LEMMA CloseSpeechInv ==
    ASSUME AvatarInv, NEW a \in Speeches, CloseSpeech(a)
    PROVE  AvatarInv'
<1>1. AvatarTypeOK'
  BY DEF CloseSpeech, AvatarInv, AvatarTypeOK, stopVars
<1>2. /\ spc[a] = "close"
      /\ \A b \in Speeches : spc'[b] = IF b = a THEN "done" ELSE spc[b]
      /\ \A b \in Speeches : spc'[b] = "finish" => result'[b] = result[b]
      /\ UNCHANGED <<records, active, stopVars>>
  BY DEF CloseSpeech, AvatarInv, AvatarTypeOK
<1>3. \A b \in Speeches : Running(b)' <=> Running(b)
  BY <1>2 DEF Running
<1>4. TheActiveSpeechIsTheOneRunning' /\ SpeechesAreRecorded' /\ FinishHasResult'
  BY <1>2, <1>3 DEF AvatarInv, TheActiveSpeechIsTheOneRunning, SpeechesAreRecorded, FinishHasResult
<1>5. StopCoversRunning' /\ SilencedAreOver'
  BY <1>2, <1>3 DEF AvatarInv, stopVars, StopCoversRunning, SilencedAreOver
<1> QED BY <1>1, <1>4, <1>5 DEF AvatarInv

\* The deadline and the end of the call's context only name a cause.
LEMMA CancelInv ==
    ASSUME AvatarInv, CancelWorker \/ \E a \in Speeches : DeadlinePasses(a)
    PROVE  AvatarInv'
<1>1. UNCHANGED <<current, records, active, spc, result, shown, exec, stopVars>>
  BY DEF CancelWorker, DeadlinePasses
<1>2. cause' \in [Speeches -> {"none", "parent", "parentDeadline", "stopped", "deadline", "finished"}]
  BY DEF CancelWorker, DeadlinePasses, CancelWith, AvatarInv, AvatarTypeOK
<1>3. worker' \in {"live", "cancelled", "preempted"}
  BY DEF CancelWorker, DeadlinePasses, AvatarInv, AvatarTypeOK
<1>4. AvatarTypeOK'
  BY <1>1, <1>2, <1>3 DEF AvatarInv, AvatarTypeOK, stopVars
<1>5. TheActiveSpeechIsTheOneRunning' /\ SpeechesAreRecorded' /\ FinishHasResult'
  BY <1>1 DEF AvatarInv, TheActiveSpeechIsTheOneRunning, Running, SpeechesAreRecorded, FinishHasResult
<1>6. StopCoversRunning' /\ SilencedAreOver'
  BY <1>1 DEF AvatarInv, stopVars, StopCoversRunning, SilencedAreOver, Running
<1> QED BY <1>4, <1>5, <1>6 DEF AvatarInv

LEMMA BeginStopInv == AvatarInv /\ BeginStop => AvatarInv'
<1> SUFFICES ASSUME AvatarInv, BeginStop PROVE AvatarInv'
  OBVIOUS
<1>1. /\ UNCHANGED <<current, records, active, spc, result, shown, exec, silenced>>
      /\ joining' = active /\ atStop' = {a \in Actions : records[a] # "none"}
      /\ stop' = "speaker" /\ worker' = "preempted"
  BY DEF BeginStop
<1>2. cause' \in [Speeches -> {"none", "parent", "parentDeadline", "stopped", "deadline", "finished"}]
  BY DEF BeginStop, CancelWith, AvatarInv, AvatarTypeOK
<1>3. stops' \in 0..MaxStops
  BY AvatarAssumption DEF BeginStop, AvatarInv, AvatarTypeOK
<1>4. AvatarTypeOK'
  BY <1>1, <1>2, <1>3 DEF AvatarInv, AvatarTypeOK
<1>5. TheActiveSpeechIsTheOneRunning' /\ SpeechesAreRecorded' /\ FinishHasResult'
  BY <1>1 DEF AvatarInv, TheActiveSpeechIsTheOneRunning, Running, SpeechesAreRecorded, FinishHasResult
<1>6. StopCoversRunning' /\ SilencedAreOver'
  BY <1>1 DEF AvatarInv, TheActiveSpeechIsTheOneRunning, StopCoversRunning, SilencedAreOver, Running
<1> QED BY <1>4, <1>5, <1>6 DEF AvatarInv

LEMMA PublishIdleInv == AvatarInv /\ PublishIdle => AvatarInv'
<1> SUFFICES ASSUME AvatarInv, PublishIdle PROVE AvatarInv'
  OBVIOUS
<1>1. /\ UNCHANGED <<records, active, speechVars, worker, exec, stops>>
      /\ joining # NoAction => spc[joining] = "done"
      /\ silenced' = silenced \cup atStop
      /\ joining' = NoAction /\ atStop' = {} /\ stop' = "idle"
  BY DEF PublishIdle
<1>2. AvatarTypeOK'
  BY <1>1 DEF PublishIdle, Show, AvatarInv, AvatarTypeOK, speechVars
<1>3. TheActiveSpeechIsTheOneRunning' /\ SpeechesAreRecorded' /\ FinishHasResult'
  BY <1>1 DEF AvatarInv, speechVars, TheActiveSpeechIsTheOneRunning, Running, SpeechesAreRecorded, FinishHasResult
<1>4. StopCoversRunning'
  BY <1>1 DEF StopCoversRunning
<1>5. \A a \in atStop : a \in Speeches => ~Running(a)
  BY <1>1, AvatarAssumption DEF AvatarInv, StopCoversRunning, Running, Actions
<1>6. SilencedAreOver'
  BY <1>1, <1>5 DEF AvatarInv, speechVars, StopCoversRunning, SilencedAreOver, Running
<1> QED BY <1>2, <1>3, <1>4, <1>6 DEF AvatarInv

\* The inductive invariant of the driver: the one running speech, its record
\* and its result, and what StopAll covers.
THEOREM AvatarInvariant == Spec => []AvatarInv
<1>1. AvatarInv /\ [Next]_vars => AvatarInv'
  <2> SUFFICES ASSUME AvatarInv, [Next]_vars PROVE AvatarInv'
    OBVIOUS
  <2>1. CASE (\E a \in Actions : EnterExecute(a)) \/ RefuseAction \/ NextCall \/ SpeakerStopped
    BY <2>1, CallerInv
  <2>2. CASE ExecuteVisual
    BY <2>2, ExecuteVisualInv
  <2>3. CASE ExecuteSpeech
    BY <2>3, ExecuteSpeechInv
  <2>4. ASSUME NEW a \in Speeches, SpeechStep(a) PROVE AvatarInv'
    BY <2>4, CheckInv, VisualizeInv, FinishSpeechInv, CloseSpeechInv DEF SpeechStep
  <2>5. CASE CancelWorker \/ \E a \in Speeches : DeadlinePasses(a)
    BY <2>5, CancelInv
  <2>6. CASE BeginStop
    BY <2>6, BeginStopInv
  <2>7. CASE PublishIdle
    BY <2>7, PublishIdleInv
  <2>8. CASE UNCHANGED vars
    BY <2>8 DEF vars, speechVars, stopVars, AvatarInv, AvatarTypeOK, TheActiveSpeechIsTheOneRunning, Running,
                SpeechesAreRecorded, FinishHasResult, StopCoversRunning, SilencedAreOver
  <2> QED BY <2>1, <2>2, <2>3, <2>4, <2>5, <2>6, <2>7, <2>8 DEF Next, ExecuteStep, StopStep
<1> QED BY <1>1, AvatarInit, PTL DEF Spec

\* The goroutine that may speak is always the one StopAll would cancel and join,
\* for any number of speeches and calls.
THEOREM AvatarTheActiveSpeechIsTheOneRunning == Spec => []TheActiveSpeechIsTheOneRunning
<1>1. AvatarInv => TheActiveSpeechIsTheOneRunning
  BY DEF AvatarInv
<1> QED BY <1>1, AvatarInvariant, PTL

\* Once StopAll has returned, nothing it found in progress appears again, for
\* any actions and any number of stops.
THEOREM AvatarStoppedActionsStaySilent == Spec => StoppedActionsStaySilent
<1>1. AvatarInv /\ [Next]_vars => [current' # current => current'.action \notin silenced]_vars
  <2> SUFFICES ASSUME AvatarInv, Next, current' # current
               PROVE  current'.action \notin silenced
    OBVIOUS
  <2>1. CASE ExecuteVisual
    BY <2>1 DEF ExecuteVisual, Show, Refused, AvatarInv, SilencedAreOver
  <2>2. ASSUME NEW a \in Speeches, Visualize(a) \/ FinishSpeech(a)
        PROVE  current'.action \notin silenced
    <3>1. Running(a) /\ current'.action = a
      BY <2>2 DEF Visualize, FinishSpeech, Show, Running
    <3> QED BY <3>1 DEF AvatarInv, SilencedAreOver
  <2>3. CASE PublishIdle
    BY <2>3, AvatarAssumption DEF PublishIdle, Show, AvatarInv, AvatarTypeOK
  <2> QED
    BY <2>1, <2>2, <2>3 DEF Next, ExecuteStep, StopStep, SpeechStep, EnterExecute, RefuseAction, ExecuteSpeech,
                            BeginSpeech, Realized, Spoken, Check, CloseSpeech, DeadlinePasses, BeginStop,
                            SpeakerStopped, CancelWorker, NextCall
<1> QED BY <1>1, AvatarInvariant, PTL DEF Spec, StoppedActionsStaySilent
=============================================================================
