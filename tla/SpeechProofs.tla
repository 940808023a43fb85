---------------------------- MODULE SpeechProofs ----------------------------
(***************************************************************************)
(* Proofs about the path from the microphone to a reply.                   *)
(***************************************************************************)
EXTENDS Speech, SequenceTheorems, FiniteSetTheorems, FunctionTheorems, WellFoundedInduction, TLAPS

-----------------------------------------------------------------------------
(* The gate                                                                *)

\* What the window, the armed flag and the run of silence range over.
Gates ==
    {g \in [heard : Seq(BOOLEAN), armed : BOOLEAN, silence : Nat] : Len(g.heard) <= WindowFrames}

\* The constants of the gate are positive numbers.
LEMMA GateConstants ==
    /\ WindowFrames \in Nat /\ WindowFrames > 0
    /\ VoicedFrames \in Nat /\ VoicedFrames > 0 /\ VoicedFrames <= WindowFrames
    /\ RearmFrames \in Nat /\ RearmFrames > 0
  BY SpeechAssumption

\* The number of voiced frames of a window is a number.
LEMMA VoicesType == ASSUME NEW frames \in Seq(BOOLEAN) PROVE Voices(frames) \in Nat
<1>1. DOMAIN frames = 1..Len(frames) /\ Len(frames) \in Nat
  BY LenProperties
<1>2. IsFiniteSet(DOMAIN frames)
  BY <1>1, FS_Interval
<1>3. IsFiniteSet({i \in DOMAIN frames : frames[i]})
  BY <1>2, FS_Subset
<1> QED BY <1>3, FS_CardinalityType DEF Voices

\* The window slides: the new frame is its last, the others move one place
\* towards the front, and the oldest falls out of a full window.
LEMMA SlideProperties ==
    ASSUME NEW frames \in Seq(BOOLEAN), Len(frames) <= WindowFrames, NEW voiced \in BOOLEAN
    PROVE  /\ Slide(frames, voiced) \in Seq(BOOLEAN)
           /\ Len(Slide(frames, voiced)) =
                  IF Len(frames) < WindowFrames THEN Len(frames) + 1 ELSE WindowFrames
           /\ Slide(frames, voiced)[Len(Slide(frames, voiced))] = voiced
           /\ \A i \in 1..(Len(Slide(frames, voiced)) - 1) :
                  Slide(frames, voiced)[Len(Slide(frames, voiced)) - i] = frames[Len(frames) + 1 - i]
<1> DEFINE all == Append(frames, voiced)
<1>1. /\ all \in Seq(BOOLEAN) /\ all # <<>> /\ Len(all) = Len(frames) + 1
      /\ \A i \in 1..Len(frames) : all[i] = frames[i]
      /\ all[Len(frames) + 1] = voiced
  BY AppendProperties
<1>2. /\ Tail(all) \in Seq(BOOLEAN) /\ Len(Tail(all)) = Len(all) - 1
      /\ \A i \in 1..Len(Tail(all)) : Tail(all)[i] = all[i + 1]
  BY <1>1, HeadTailProperties
<1>3. Len(frames) \in Nat
  BY LenProperties
<1>4. Slide(frames, voiced) = IF Len(all) > WindowFrames THEN Tail(all) ELSE all
  BY DEF Slide
<1> HIDE DEF all
<1>5. CASE Len(all) > WindowFrames
  <2>1. Slide(frames, voiced) = Tail(all)
    BY <1>4, <1>5
  <2>2. Len(frames) = WindowFrames
    BY <1>1, <1>3, <1>5, GateConstants
  <2>3. Tail(all)[Len(Tail(all))] = voiced
    BY <1>1, <1>2, <1>3, <2>2, GateConstants
  <2>4. Len(Tail(all)) = Len(frames)
    BY <1>1, <1>2, <1>3
  <2>5. ASSUME NEW i \in 1..(Len(Tail(all)) - 1)
        PROVE  Tail(all)[Len(Tail(all)) - i] = frames[Len(frames) + 1 - i]
    <3>1. Len(frames) - i \in 1..Len(Tail(all)) /\ Len(frames) + 1 - i \in 1..Len(frames)
      BY <1>3, <2>4
    <3>2. Tail(all)[Len(frames) - i] = all[Len(frames) - i + 1]
      BY <1>2, <3>1
    <3>3. Len(frames) - i + 1 = Len(frames) + 1 - i
      BY <1>3
    <3>4. all[Len(frames) + 1 - i] = frames[Len(frames) + 1 - i]
      BY <1>1, <3>1
    <3> QED BY <2>4, <3>2, <3>3, <3>4
  <2>6. ~(Len(frames) < WindowFrames)
    BY <2>2, GateConstants
  <2>7. Tail(all) \in Seq(BOOLEAN) /\ Len(Tail(all)) = WindowFrames
    BY <1>2, <2>2, <2>4
  <2> QED BY <2>1, <2>3, <2>5, <2>6, <2>7, Zenon
<1>6. CASE ~(Len(all) > WindowFrames)
  <2>1. Slide(frames, voiced) = all
    BY <1>4, <1>6
  <2>2. Len(frames) < WindowFrames
    BY <1>1, <1>3, <1>6, GateConstants
  <2>3. \A i \in 1..(Len(all) - 1) : all[Len(all) - i] = frames[Len(frames) + 1 - i]
    BY <1>1, <1>3
  <2> QED BY <1>1, <2>1, <2>2, <2>3
<1> QED BY <1>5, <1>6

\* One frame keeps the gate a gate; an armed gate stays armed with the new frame
\* in its window, unless that window is full and voiced, and then it fires; a
\* gate that has fired counts the silence and arms itself after the pause.
LEMMA GateAfterProperties ==
    ASSUME NEW g \in Gates, NEW voiced \in BOOLEAN
    PROVE  LET heard == Slide(g.heard, voiced)
               fires == Len(heard) = WindowFrames /\ Voices(heard) >= VoicedFrames
               run == IF voiced THEN 0 ELSE g.silence + 1
           IN  /\ GateAfter(g, voiced) \in Gates
               /\ g.armed /\ ~fires => GateAfter(g, voiced).armed /\ GateAfter(g, voiced).heard = heard
               /\ g.armed /\ fires =>
                      /\ ~GateAfter(g, voiced).armed
                      /\ GateAfter(g, voiced).silence = 0
               /\ ~g.armed /\ run >= RearmFrames => GateAfter(g, voiced) = NewGate
               /\ ~g.armed /\ run < RearmFrames =>
                      ~GateAfter(g, voiced).armed /\ GateAfter(g, voiced).silence = run
               /\ Triggers(g, voiced) <=> g.armed /\ fires
<1> DEFINE heard == Slide(g.heard, voiced)
           fires == Len(heard) = WindowFrames /\ Voices(heard) >= VoicedFrames
           run == IF voiced THEN 0 ELSE g.silence + 1
           next == GateAfter(g, voiced)
<1>1. /\ g \in [heard : Seq(BOOLEAN), armed : BOOLEAN, silence : Nat]
      /\ g.heard \in Seq(BOOLEAN) /\ g.armed \in BOOLEAN /\ g.silence \in Nat
      /\ Len(g.heard) <= WindowFrames
  BY DEF Gates
<1>2. heard \in Seq(BOOLEAN) /\ Len(heard) <= WindowFrames /\ Len(heard) \in Nat
  BY <1>1, SlideProperties, LenProperties, GateConstants
<1>3. Voices(heard) \in Nat
  BY <1>2, VoicesType
<1>4. run \in Nat
  BY <1>1
<1>5. next = IF ~g.armed
             THEN IF run >= RearmFrames THEN NewGate ELSE [g EXCEPT !.silence = run]
             ELSE IF ~fires THEN [g EXCEPT !.heard = heard]
             ELSE [heard |-> <<>>, armed |-> FALSE, silence |-> 0]
  <2>1. (Len(heard) < WindowFrames \/ Voices(heard) < VoicedFrames) <=> ~fires
    BY <1>2, <1>3, GateConstants
  <2> HIDE DEF heard, fires, run
  <2>2. GateStep(g, voiced, run) = IF ~g.armed
             THEN IF run >= RearmFrames THEN NewGate ELSE [g EXCEPT !.silence = run]
             ELSE IF Len(heard) < WindowFrames \/ Voices(heard) < VoicedFrames
                  THEN [g EXCEPT !.heard = heard]
             ELSE [heard |-> <<>>, armed |-> FALSE, silence |-> 0]
    BY DEF GateStep, heard
  <2> QED BY <2>1, <2>2 DEF GateAfter, run
<1> HIDE DEF heard, fires, run, next
<1>6. NewGate \in Gates /\ NewGate.armed
  BY EmptySeq, GateConstants DEF NewGate, Gates
<1>7. [heard |-> <<>>, armed |-> FALSE, silence |-> 0] \in Gates
  BY EmptySeq, GateConstants DEF Gates
<1>8. [g EXCEPT !.silence = run] \in Gates
  BY <1>1, <1>4 DEF Gates
<1>9. [g EXCEPT !.heard = heard] \in Gates
  BY <1>1, <1>2 DEF Gates
<1>10. next \in Gates
  BY <1>5, <1>6, <1>7, <1>8, <1>9
<1>11. g.armed /\ ~fires => next.armed /\ next.heard = heard
  BY <1>1, <1>5
<1>12. g.armed /\ fires => ~next.armed /\ next.silence = 0
  BY <1>5
<1>13. ~g.armed /\ run >= RearmFrames => next = NewGate
  BY <1>5
<1>14. ~g.armed /\ run < RearmFrames => ~next.armed /\ next.silence = run
  BY <1>1, <1>4, <1>5, GateConstants
<1>15. Triggers(g, voiced) <=> g.armed /\ fires
  BY <1>11, <1>12 DEF Triggers, next
<1> QED BY <1>10, <1>11, <1>12, <1>13, <1>14, <1>15 DEF heard, fires, run, next

-----------------------------------------------------------------------------
(* Voice within a response window                                          *)

\* The response window is open and nothing has happened that excuses the worker.
Live == window # None /\ now < window.deadline /\ excused = {}

\* The frames of the window the worker has processed.
Done == IF Len(pipe) < Len(spoken) THEN Len(spoken) - Len(pipe) ELSE 0

Turns == {"idle", "active", "inactive"}

\* A worker between maintain and the gate has a frame in hand and no call out.
SpeechTypeOK ==
    /\ now \in Nat /\ pipe \in Seq(BOOLEAN) /\ spoken \in Seq(BOOLEAN)
    /\ gate \in Gates
    /\ Len(pipe) < now
    /\ turn \in Turns
    /\ turn # "idle" => pipe # <<>> /\ report = None
    /\ lease \in [id : Nat, expires : Nat]
    /\ window # None => window.openedAt \in Nat /\ window.deadline \in Nat /\ window.openedAt <= now
    /\ report # None => report \in Reports

\* The backlog ends with the frames of the window that are not processed yet.
Pending ==
    \A i \in 1..Len(pipe) : i <= Len(spoken) => pipe[Len(pipe) + 1 - i] = spoken[Len(spoken) + 1 - i]

\* The gate's window ends with the processed frames of the response window, as
\* many of them as it holds.
Heard ==
    /\ Done <= Len(gate.heard) \/ Len(gate.heard) = WindowFrames
    /\ \A i \in 1..Len(gate.heard) : i <= Done =>
           gate.heard[Len(gate.heard) + 1 - i] = spoken[Done + 1 - i]

\* No processed frame of the window completed stable voice.
Unvoiced == \A j \in 1..Done : ~Voiced(spoken, j)

\* The inductive invariant: while the window is live, either a report is on its
\* way that was made in this window, or the gate is armed and knows the end of
\* what has been processed, in which there was no stable voice.
HeardInv ==
    /\ SpeechTypeOK
    /\ report # None => ~gate.armed
    /\ Live /\ report # None =>
           replyWindowContains(report.at) /\ report.stage \in {"new", "ready", "authorized", "submitted"}
    /\ Live /\ report = None => gate.armed /\ Pending /\ Heard /\ Unvoiced

\* A later frame of a recording does not change which earlier window was voiced.
LEMMA VoicedOfAppend ==
    ASSUME NEW h \in Seq(BOOLEAN), NEW voiced \in BOOLEAN, NEW j \in 1..Len(h)
    PROVE  Voiced(Append(h, voiced), j) <=> Voiced(h, j)
<1>1. CASE j < WindowFrames
  BY <1>1, GateConstants DEF Voiced
<1>2. CASE j >= WindowFrames
  <2> DEFINE from == j - WindowFrames + 1
             longer == Append(h, voiced)
             new == SubSeq(longer, from, j)
             old == SubSeq(h, from, j)
  <2>1. /\ longer \in Seq(BOOLEAN) /\ Len(longer) = Len(h) + 1
        /\ \A i \in 1..Len(h) : longer[i] = h[i]
    BY AppendProperties
  <2>2. from \in 1..j /\ from \in Int /\ j \in Int /\ from <= j /\ Len(h) \in Nat
    BY <1>2, GateConstants, LenProperties
  <2> HIDE DEF from, longer
  <2>3. \A i \in from..j : h[i] \in BOOLEAN /\ longer[i] \in BOOLEAN
    <3>1. \A i \in from..j : i \in 1..Len(h) /\ i \in 1..Len(longer)
      BY <2>1, <2>2
    <3> QED BY <2>1, <3>1, ElementOfSeq
  <2>4. /\ new \in Seq(BOOLEAN) /\ Len(new) = j - from + 1
        /\ \A i \in 1..(j - from + 1) : new[i] = longer[from + i - 1]
    BY <2>2, <2>3, SubSeqProperties
  <2>5. /\ old \in Seq(BOOLEAN) /\ Len(old) = j - from + 1
        /\ \A i \in 1..(j - from + 1) : old[i] = h[from + i - 1]
    BY <2>2, <2>3, SubSeqProperties
  <2>6. \A i \in 1..Len(new) : from + i - 1 \in 1..Len(h) /\ i \in 1..(j - from + 1)
    BY <2>2, <2>4
  <2>7. \A i \in 1..Len(new) : new[i] = old[i]
    BY <2>1, <2>4, <2>5, <2>6, Zenon
  <2>8. new = old
    BY <2>4, <2>5, <2>7, SeqEqual
  <2>9. SubSeq(longer, j - WindowFrames + 1, j) = new /\ SubSeq(h, j - WindowFrames + 1, j) = old
    BY DEF from
  <2> QED BY <2>8, <2>9 DEF Voiced, longer
<1> QED BY <1>1, <1>2, GateConstants

\* Steps that leave the frames and the gate alone keep the invariant, when the
\* report of a live window only goes on.
LEMMA HeardKept ==
    ASSUME HeardInv, UNCHANGED <<now, pipe, gate>>,
           lease' \in [id : Nat, expires : Nat],
           turn' \in Turns, turn' # "idle" => pipe # <<>> /\ report' = None,
           window' \in {window, None}, excused \subseteq excused',
           spoken' \in Seq(BOOLEAN), window' # None => spoken' = spoken,
           report' # None =>
               report # None /\ report' \in Reports /\ report' = [report EXCEPT !.stage = report'.stage],
           Live' => \/ report' = report
                    \/ report' # None /\ report'.stage \in {"new", "ready", "authorized", "submitted"}
    PROVE  HeardInv'
<1>1. Live' => Live /\ window' = window /\ spoken' = spoken
  BY DEF Live
<1>2. report' # None => report # None /\ report'.at = report.at
                        /\ report' \in Reports
  BY DEF HeardInv, SpeechTypeOK, Reports
<1>3. SpeechTypeOK'
  BY <1>2 DEF HeardInv, SpeechTypeOK
<1>4. report' # None => ~gate'.armed
  BY <1>2 DEF HeardInv
<1>5. ASSUME Live', report' # None
      PROVE  replyWindowContains(report.at)' /\ report'.stage \in {"new", "ready", "authorized", "submitted"}
  <2>1. replyWindowContains(report.at) /\ report.stage \in {"new", "ready", "authorized", "submitted"}
    BY <1>1, <1>2, <1>5 DEF HeardInv
  <2>2. report'.stage \in {"new", "ready", "authorized", "submitted"}
    BY <1>5, <2>1
  <2> QED BY <1>1, <1>2, <1>5, <2>1, <2>2 DEF replyWindowContains
<1>6. ASSUME Live', report' = None PROVE (gate.armed /\ Pending /\ Heard /\ Unvoiced)'
  <2>1. report = None
    BY <1>5, <1>6
  <2>2. gate.armed /\ Pending /\ Heard /\ Unvoiced
    BY <1>1, <1>6, <2>1 DEF HeardInv
  <2> QED BY <1>1, <1>6, <2>2 DEF Pending, Heard, Unvoiced, Done
<1> QED BY <1>3, <1>4, <1>5, <1>6 DEF HeardInv

\* A frame that is recorded joins the backlog and the window's history alike.
LEMMA HeardRecord == ASSUME HeardInv, NEW voiced \in BOOLEAN, Record(voiced) PROVE HeardInv'
<1>1. /\ now' = now + 1 /\ pipe' = Append(pipe, voiced)
      /\ UNCHANGED <<turn, gate, lease, report, window, excused>>
      /\ now \in Nat /\ pipe \in Seq(BOOLEAN) /\ spoken \in Seq(BOOLEAN)
      /\ Len(pipe) \in Nat /\ Len(spoken) \in Nat
  BY LenProperties DEF Record, sessionVars, HeardInv, SpeechTypeOK
<1>2. pipe' \in Seq(BOOLEAN) /\ Append(spoken, voiced) \in Seq(BOOLEAN)
  BY <1>1, AppendProperties
<1>3. spoken' \in Seq(BOOLEAN)
  BY <1>1, <1>2 DEF Record
<1>4. SpeechTypeOK'
  <2>1. window' # None => window'.openedAt \in Nat /\ window'.deadline \in Nat /\ window'.openedAt <= now'
    BY <1>1 DEF HeardInv, SpeechTypeOK
  <2>2. Len(pipe') = Len(pipe) + 1 /\ pipe' # <<>> /\ Len(pipe) < now
    BY <1>1, AppendProperties DEF HeardInv, SpeechTypeOK
  <2>3. Len(pipe') < now'
    BY <1>1, <2>2
  <2> QED BY <1>1, <1>2, <1>3, <2>1, <2>2, <2>3 DEF HeardInv, SpeechTypeOK
<1>5. ASSUME Live' PROVE Live /\ spoken' = Append(spoken, voiced)
  <2>1. window # None /\ now + 1 < window.deadline /\ excused = {}
    BY <1>1, <1>5 DEF Live
  <2>2. now < window.deadline
    BY <1>1, <2>1 DEF HeardInv, SpeechTypeOK
  <2>3. ~(now >= window.deadline)
    BY <1>1, <2>1, <2>2 DEF HeardInv, SpeechTypeOK
  <2> QED BY <2>1, <2>2, <2>3 DEF Record, Live
<1>6. ASSUME Live', report' # None
      PROVE  replyWindowContains(report.at)' /\ report'.stage \in {"new", "ready", "authorized", "submitted"}
  BY <1>1, <1>5, <1>6 DEF HeardInv, replyWindowContains
<1>7. ASSUME Live', report' = None PROVE (gate.armed /\ Pending /\ Heard /\ Unvoiced)'
  <2>1. gate.armed /\ Pending /\ Heard /\ Unvoiced /\ spoken' = Append(spoken, voiced)
    BY <1>1, <1>5, <1>7 DEF HeardInv
  <2>2. /\ Len(pipe') = Len(pipe) + 1 /\ \A i \in 1..Len(pipe) : pipe'[i] = pipe[i]
        /\ pipe'[Len(pipe) + 1] = voiced
    BY <1>1, AppendProperties
  <2>3. /\ Len(spoken') = Len(spoken) + 1 /\ \A i \in 1..Len(spoken) : spoken'[i] = spoken[i]
        /\ spoken'[Len(spoken) + 1] = voiced
    BY <1>1, <2>1, AppendProperties
  <2>4. Done' = Done /\ Done \in 0..Len(spoken)
    BY <1>1, <2>2, <2>3 DEF Done
  <2>5. ASSUME NEW i \in 1..Len(pipe'), i <= Len(spoken')
        PROVE  pipe'[Len(pipe') + 1 - i] = spoken'[Len(spoken') + 1 - i]
    <3>1. CASE i = 1
      <4>1. Len(pipe') + 1 - i = Len(pipe) + 1 /\ Len(spoken') + 1 - i = Len(spoken) + 1
        BY <1>1, <2>2, <2>3, <3>1
      <4> QED BY <2>2, <2>3, <4>1
    <3>2. CASE i # 1
      <4> DEFINE k == i - 1
      <4>1. k \in 1..Len(pipe) /\ k <= Len(spoken)
        BY <1>1, <2>2, <2>3, <2>5, <3>2
      <4>2. Len(pipe') + 1 - i = Len(pipe) + 1 - k /\ Len(spoken') + 1 - i = Len(spoken) + 1 - k
        BY <1>1, <2>2, <2>3
      <4>3. Len(pipe) + 1 - k \in 1..Len(pipe) /\ Len(spoken) + 1 - k \in 1..Len(spoken)
        BY <1>1, <4>1
      <4>4. pipe[Len(pipe) + 1 - k] = spoken[Len(spoken) + 1 - k]
        BY <2>1, <4>1 DEF Pending
      <4> QED BY <2>2, <2>3, <4>2, <4>3, <4>4
    <3> QED BY <3>1, <3>2
  <2>6. ASSUME NEW i \in 1..Len(gate.heard), i <= Done
        PROVE  gate.heard[Len(gate.heard) + 1 - i] = spoken'[Done + 1 - i]
    <3>1. Done + 1 - i \in 1..Len(spoken)
      BY <1>1, <2>4, <2>6
    <3>2. gate.heard[Len(gate.heard) + 1 - i] = spoken[Done + 1 - i]
      BY <2>1, <2>6 DEF Heard
    <3> QED BY <2>3, <3>1, <3>2
  <2>7. ASSUME NEW j \in 1..Done PROVE ~Voiced(spoken', j)
    <3>1. j \in 1..Len(spoken)
      BY <1>1, <2>4
    <3> QED BY <1>1, <2>1, <3>1, VoicedOfAppend DEF Unvoiced
  <2>8. Pending'
    BY <2>5 DEF Pending
  <2>9. Heard'
    BY <1>1, <2>1, <2>4, <2>6 DEF Heard
  <2>10. Unvoiced'
    BY <2>4, <2>7 DEF Unvoiced
  <2> QED BY <1>1, <2>1, <2>8, <2>9, <2>10
<1> QED BY <1>1, <1>4, <1>6, <1>7 DEF HeardInv

\* A frame that does not trigger joins what the gate has heard of the window,
\* and the window that ends with it was not voiced.
LEMMA HeardFrame ==
    ASSUME HeardInv, Live, report = None, pipe # <<>>, UNCHANGED spoken, pipe' = Tail(pipe),
           gate' = GateAfter(gate, Head(pipe)), ~Triggers(gate, Head(pipe))
    PROVE  (gate.armed /\ Pending /\ Heard /\ Unvoiced)'
<1> DEFINE frame == Head(pipe)
           heard == Slide(gate.heard, frame)
<1>1. /\ pipe \in Seq(BOOLEAN) /\ spoken \in Seq(BOOLEAN) /\ gate \in Gates
      /\ gate.armed /\ Pending /\ Heard /\ Unvoiced
      /\ gate.heard \in Seq(BOOLEAN) /\ Len(gate.heard) <= WindowFrames
      /\ Len(pipe) \in Nat /\ Len(spoken) \in Nat /\ Len(gate.heard) \in Nat
  <2>1. pipe \in Seq(BOOLEAN) /\ spoken \in Seq(BOOLEAN) /\ gate \in Gates
    BY DEF HeardInv, SpeechTypeOK
  <2>2. gate.armed /\ Pending /\ Heard /\ Unvoiced
    BY DEF HeardInv
  <2>3. gate.heard \in Seq(BOOLEAN) /\ Len(gate.heard) <= WindowFrames
    BY <2>1 DEF Gates
  <2> QED BY <2>1, <2>2, <2>3, LenProperties
<1>2. /\ frame \in BOOLEAN /\ pipe' \in Seq(BOOLEAN)
      /\ Len(pipe') = Len(pipe) - 1 /\ \A i \in 1..Len(pipe') : pipe'[i] = pipe[i + 1]
      /\ frame = pipe[1] /\ Len(pipe) > 0
  BY <1>1, HeadTailProperties, EmptySeq
<1>3. /\ heard \in Seq(BOOLEAN)
      /\ Len(heard) = IF Len(gate.heard) < WindowFrames THEN Len(gate.heard) + 1 ELSE WindowFrames
      /\ heard[Len(heard)] = frame
      /\ \A i \in 1..(Len(heard) - 1) : heard[Len(heard) - i] = gate.heard[Len(gate.heard) + 1 - i]
  BY <1>1, <1>2, SlideProperties
<1>4. Len(heard) \in Nat /\ Len(heard) <= WindowFrames
  BY <1>1, <1>3, GateConstants
<1>5. gate'.armed /\ gate'.heard = heard /\ ~(Len(heard) = WindowFrames /\ Voices(heard) >= VoicedFrames)
  BY <1>1, <1>2, GateAfterProperties
<1> HIDE DEF frame, heard
<1>6. Pending'
  <2>1. ASSUME NEW i \in 1..Len(pipe'), i <= Len(spoken)
        PROVE  pipe'[Len(pipe') + 1 - i] = spoken[Len(spoken) + 1 - i]
    <3>1. Len(pipe') + 1 - i \in 1..Len(pipe') /\ Len(pipe') + 1 - i + 1 = Len(pipe) + 1 - i /\ i \in 1..Len(pipe)
      BY <1>1, <1>2
    <3>2. pipe'[Len(pipe') + 1 - i] = pipe[Len(pipe) + 1 - i]
      BY <1>2, <3>1
    <3> QED BY <1>1, <2>1, <3>1, <3>2 DEF Pending
  <2> QED BY <2>1 DEF Pending
<1>7. CASE Len(pipe) > Len(spoken)
  <2>1. Done' = 0
    <3>1. spoken' = spoken /\ ~(Len(pipe') < Len(spoken))
      BY <1>1, <1>2, <1>7
    <3> QED BY <3>1 DEF Done
  <2>2. Heard'
    BY <1>4, <1>5, <2>1 DEF Heard
  <2>3. Unvoiced'
    BY <2>1 DEF Unvoiced
  <2> QED BY <1>5, <1>6, <2>2, <2>3
<1>8. CASE Len(pipe) <= Len(spoken)
  <2>1. Done = Len(spoken) - Len(pipe) /\ Done' = Done + 1 /\ Done \in Nat /\ Done + 1 \in 1..Len(spoken)
    BY <1>1, <1>2, <1>8 DEF Done
  <2>2. frame = spoken[Done + 1]
    <3>1. Len(pipe) \in 1..Len(pipe) /\ Len(pipe) + 1 - Len(pipe) = 1 /\ Len(spoken) + 1 - Len(pipe) = Done + 1
      BY <1>1, <1>2, <2>1
    <3> QED BY <1>1, <1>2, <1>8, <3>1 DEF Pending
  <2>3. Done + 1 <= Len(heard) \/ Len(heard) = WindowFrames
    <3>1. Done <= Len(gate.heard) \/ Len(gate.heard) = WindowFrames
      BY <1>1 DEF Heard
    <3> QED BY <1>1, <1>3, <2>1, <3>1, GateConstants
  <2>4. ASSUME NEW i \in 1..Len(heard), i <= Done + 1
        PROVE  heard[Len(heard) + 1 - i] = spoken[Done + 1 + 1 - i]
    <3>1. CASE i = 1
      <4>1. Len(heard) + 1 - i = Len(heard) /\ Done + 1 + 1 - i = Done + 1
        BY <1>4, <2>1, <3>1
      <4> QED BY <1>3, <2>2, <4>1
    <3>2. CASE i # 1
      <4> DEFINE k == i - 1
      <4>1. k \in 1..(Len(heard) - 1) /\ k \in 1..Len(gate.heard) /\ k <= Done
        BY <1>1, <1>3, <1>4, <2>1, <2>4, <3>2, GateConstants
      <4>2. Len(heard) + 1 - i = Len(heard) - k /\ Done + 1 + 1 - i = Done + 1 - k
        BY <1>4, <2>1
      <4>3. gate.heard[Len(gate.heard) + 1 - k] = spoken[Done + 1 - k]
        BY <1>1, <4>1 DEF Heard
      <4>4. heard[Len(heard) - k] = gate.heard[Len(gate.heard) + 1 - k]
        BY <1>3, <4>1
      <4> QED BY <4>2, <4>3, <4>4
    <3> QED BY <3>1, <3>2
  <2>5. Heard'
    BY <1>5, <2>1, <2>3, <2>4 DEF Heard
  <2>6. ~Voiced(spoken, Done + 1)
    <3>1. SUFFICES ASSUME Voiced(spoken, Done + 1) PROVE FALSE
      OBVIOUS
    <3> DEFINE end == Done + 1
               from == end - WindowFrames + 1
               last == SubSeq(spoken, from, end)
    <3>2. Done + 1 >= WindowFrames /\ Voices(last) >= VoicedFrames
      <4>1. Voiced(spoken, end)
        BY <3>1
      <4> HIDE DEF end
      <4>2. end >= WindowFrames /\ Voices(SubSeq(spoken, end - WindowFrames + 1, end)) >= VoicedFrames
        BY <4>1 DEF Voiced
      <4> QED BY <4>2 DEF end
    <3>3. Len(heard) = WindowFrames
      BY <1>4, <2>1, <2>3, <3>2, GateConstants
    <3>4. from \in 1..(Done + 1) /\ Done + 1 - from + 1 = WindowFrames
      BY <2>1, <3>2, GateConstants
    <3>5. \A i \in from..(Done + 1) : spoken[i] \in BOOLEAN
      <4>1. \A i \in from..(Done + 1) : i \in 1..Len(spoken)
        BY <1>1, <2>1, <3>4
      <4> QED BY <1>1, <4>1, ElementOfSeq
    <3>6. /\ last \in Seq(BOOLEAN) /\ Len(last) = WindowFrames
          /\ \A i \in 1..WindowFrames : last[i] = spoken[from + i - 1]
      BY <2>1, <3>4, <3>5, GateConstants, SubSeqProperties
    <3>7. ASSUME NEW i \in 1..WindowFrames PROVE heard[i] = last[i]
      <4> DEFINE k == WindowFrames + 1 - i
      <4>1. k \in 1..Len(heard) /\ k <= Done + 1
        BY <3>2, <3>3, <2>1, GateConstants
      <4>2. Len(heard) + 1 - k = i /\ Done + 1 + 1 - k = from + i - 1
        BY <3>3, <2>1, GateConstants
      <4>3. heard[Len(heard) + 1 - k] = spoken[Done + 1 + 1 - k]
        BY <2>4, <4>1
      <4> QED BY <3>6, <4>2, <4>3
    <3>8. heard = last
      BY <1>3, <3>3, <3>6, <3>7, SeqEqual
    <3> QED BY <1>5, <3>2, <3>3, <3>8
  <2>7. Unvoiced'
    <3>1. ASSUME NEW j \in 1..(Done + 1) PROVE ~Voiced(spoken, j)
      <4>1. CASE j \in 1..Done
        BY <1>1, <4>1 DEF Unvoiced
      <4>2. CASE j = Done + 1
        BY <2>6, <4>2
      <4> QED BY <2>1, <4>1, <4>2
    <3> QED BY <2>1, <3>1 DEF Unvoiced
  <2> QED BY <1>5, <1>6, <2>5, <2>7
<1> QED BY <1>1, <1>7, <1>8

\* The session's calls touch neither the frames nor the gate.
LEMMA HeardMaintain == ASSUME HeardInv, NEW active \in BOOLEAN, Maintain(active) PROVE HeardInv'
<1>1. /\ now \in Nat /\ lease \in [id : Nat, expires : Nat] /\ spoken \in Seq(BOOLEAN)
      /\ UNCHANGED <<now, pipe, gate, report, window, spoken, excused>>
      /\ pipe # <<>> /\ report = None /\ turn' \in Turns
  BY DEF HeardInv, SpeechTypeOK, Maintain, windowVars, Turns
<1>2. now + LeaseFor \in Nat /\ lease.id + 1 \in Nat
  BY <1>1, SpeechAssumption
<1>3. lease' \in [id : Nat, expires : Nat]
  <2> DEFINE renewed == [id |-> IF now < lease.expires THEN lease.id ELSE lease.id + 1,
                         expires |-> now + LeaseFor]
             unhealthy == [renewed EXCEPT !.expires = now]
  <2>1. renewed \in [id : Nat, expires : Nat] /\ unhealthy \in [id : Nat, expires : Nat]
    BY <1>1, <1>2
  <2>2. lease' \in {lease, renewed, unhealthy}
    BY DEF Maintain, Maintained
  <2> HIDE DEF renewed, unhealthy
  <2> QED BY <1>1, <2>1, <2>2
<1> QED BY <1>1, <1>3, HeardKept

\* The worker processes a frame: the gate hears it, or fires, and then the
\* report is made within the window or the session is not active.
LEMMA HeardProcess == ASSUME HeardInv, Process PROVE HeardInv'
<1> DEFINE triggered == Triggers(gate, Head(pipe))
           made == [at |-> now, voice |-> now - Len(pipe'), lease |-> session, stage |-> "new"]
           active == turn = "active" /\ Leased
<1>1. /\ pipe # <<>> /\ report = None /\ pipe' = Tail(pipe) /\ gate' = GateAfter(gate, Head(pipe))
      /\ report' = IF triggered /\ active THEN made ELSE None
      /\ excused' = IF triggered /\ ~active THEN excused \cup {"failed"} ELSE excused
      /\ UNCHANGED <<now, lease, window, spoken>> /\ turn' = "idle"
  BY DEF Process, HeardInv, SpeechTypeOK, sessionVars
<1>2. /\ now \in Nat /\ pipe \in Seq(BOOLEAN) /\ spoken \in Seq(BOOLEAN) /\ gate \in Gates
      /\ lease \in [id : Nat, expires : Nat] /\ Len(pipe) < now
  BY DEF HeardInv, SpeechTypeOK
<1>3. /\ Head(pipe) \in BOOLEAN /\ Tail(pipe) \in Seq(BOOLEAN)
      /\ Len(pipe') \in Nat /\ Len(pipe') < now /\ now - Len(pipe') \in Nat
  <2>1. /\ Head(pipe) \in BOOLEAN /\ Tail(pipe) \in Seq(BOOLEAN)
        /\ Len(Tail(pipe)) = Len(pipe) - 1 /\ Len(pipe) \in Nat
    BY <1>1, <1>2, HeadTailProperties, LenProperties
  <2>2. Len(pipe') \in Nat /\ Len(pipe') = Len(pipe) - 1
    BY <1>1, <2>1, LenProperties
  <2> QED BY <1>2, <2>1, <2>2
<1>4. gate' \in Gates /\ (triggered => ~gate'.armed)
  BY <1>1, <1>2, <1>3, GateAfterProperties
<1>5. active => session \in Nat
  BY <1>2 DEF Leased
<1> HIDE DEF active
<1>6. active => made \in Reports
  BY <1>2, <1>3, <1>5 DEF Reports
<1>7. active => made # None
  BY <1>6, SpeechAssumption
<1>8. report' # None => report' = made /\ triggered
  BY <1>1
<1>9. SpeechTypeOK'
  <2>1. report' # None => report' \in Reports
    BY <1>1, <1>6
  <2>2. window' # None => window'.openedAt \in Nat /\ window'.deadline \in Nat /\ window'.openedAt <= now'
    BY <1>1 DEF HeardInv, SpeechTypeOK
  <2> QED BY <1>1, <1>2, <1>3, <1>4, <2>1, <2>2 DEF SpeechTypeOK, Turns
<1>10. report' # None => ~gate'.armed
  BY <1>4, <1>8
<1>11. Live' => Live /\ ~(triggered /\ ~active)
  BY <1>1 DEF Live
<1>12. ASSUME Live', report' # None
       PROVE  replyWindowContains(report.at)' /\ report'.stage \in {"new", "ready", "authorized", "submitted"}
  <2>1. report'.at = now /\ report'.stage = "new"
    BY <1>8, <1>12
  <2>2. window.openedAt <= now /\ now < window.deadline /\ window # None
    BY <1>11, <1>12 DEF Live, HeardInv, SpeechTypeOK
  <2> QED BY <1>1, <2>1, <2>2 DEF replyWindowContains
<1>13. ASSUME Live', report' = None PROVE (gate.armed /\ Pending /\ Heard /\ Unvoiced)'
  <2>1. ~triggered
    BY <1>1, <1>7, <1>11, <1>13
  <2> QED BY <1>1, <1>11, <1>13, <2>1, HeardFrame
<1> QED BY <1>9, <1>10, <1>12, <1>13 DEF HeardInv

\* The ingress carries the report on: within the window and without a failure it
\* reaches the engine, and the answer clears the window.
LEMMA HeardServe == ASSUME HeardInv, Serve PROVE HeardInv'
<1>1. /\ report # None /\ report.stage # "done" /\ report' = [report EXCEPT !.stage = Served(report)]
      /\ UNCHANGED <<now, pipe, turn, gate, lease>>
      /\ window' \in {window, None} /\ excused \subseteq excused'
      /\ spoken' \in {spoken, <<>>} /\ (window' # None => spoken' = spoken)
      /\ Carry(report)
  BY DEF Serve, Carry, sessionVars
<1>2. report \in Reports
  BY <1>1 DEF HeardInv, SpeechTypeOK
<1>3. Served(report) \in {"new", "ready", "authorized", "submitted", "done"}
  BY DEF Served
<1>4. /\ report' = [report EXCEPT !.stage = report'.stage] /\ report'.stage = Served(report)
      /\ report' \in Reports
  BY <1>1, <1>2, <1>3 DEF Reports
<1>5. report' # None
  BY <1>4, SpeechAssumption
<1>6. ASSUME Live' PROVE Served(report) \in {"ready", "authorized", "submitted"}
  <2>1. Live /\ window' = window /\ excused' = {}
    BY <1>1, <1>6 DEF Live
  <2>2. replyWindowContains(report.at) /\ report.stage \in {"new", "ready", "authorized", "submitted"}
    BY <1>1, <2>1 DEF HeardInv
  <2>3. CASE report.stage \in {"new", "ready"}
    <3>1. Served(report) # "done"
      BY <1>1, <2>1, <2>3 DEF Carry
    <3> QED BY <2>3, <3>1 DEF Served
  <2>4. CASE report.stage = "authorized"
    BY <2>2, <2>4 DEF Served
  <2>5. CASE report.stage = "submitted"
    <3>1. ~(now > report.at + Ttl)
      BY <1>1, <2>1, <2>5 DEF Carry
    <3>2. ~EngineAccepts(report)
      BY <1>1, <1>6, <2>1, <2>5 DEF Carry, Live
    <3>3. now \in Nat /\ Ttl \in Nat /\ report.at \in Nat
      BY <1>2, SpeechAssumption DEF HeardInv, SpeechTypeOK, Reports
    <3> QED BY <2>2, <3>1, <3>2, <3>3 DEF EngineAccepts
  <2> QED BY <2>2, <2>3, <2>4, <2>5
<1>7. /\ lease \in [id : Nat, expires : Nat] /\ spoken' \in Seq(BOOLEAN)
      /\ turn \in Turns /\ turn = "idle"
  BY <1>1, EmptySeq DEF HeardInv, SpeechTypeOK
<1> QED BY <1>1, <1>3, <1>4, <1>5, <1>6, <1>7, HeardKept

\* A window opens: nothing of it has been recorded yet, and a gate that was
\* spent before is an excuse.
LEMMA HeardOpenWindow == ASSUME HeardInv, OpenWindow PROVE HeardInv'
<1>1. /\ window' = [openedAt |-> now, deadline |-> now + WaitFor] /\ spoken' = <<>>
      /\ excused' = IF gate.armed THEN {} ELSE {"disarmed"}
      /\ UNCHANGED <<now, pipe, turn, gate, lease, report>>
  BY DEF OpenWindow, sessionVars
<1>2. /\ now \in Nat /\ pipe \in Seq(BOOLEAN) /\ Len(pipe) \in Nat /\ gate \in Gates
      /\ spoken' \in Seq(BOOLEAN) /\ Len(spoken') = 0
  BY <1>1, EmptySeq, LenProperties DEF HeardInv, SpeechTypeOK
<1>3. SpeechTypeOK'
  <2>1. window'.openedAt \in Nat /\ window'.deadline \in Nat /\ window'.openedAt <= now
    BY <1>1, <1>2, SpeechAssumption
  <2> QED BY <1>1, <1>2, <2>1 DEF HeardInv, SpeechTypeOK
<1>4. Live' => gate.armed /\ report = None
  BY <1>1 DEF Live, HeardInv
<1>5. Done' = 0
  BY <1>1, <1>2 DEF Done
<1>6. Pending'
  BY <1>1, <1>2 DEF Pending
<1>7. Heard'
  <2>1. gate.heard \in Seq(BOOLEAN)
    BY <1>2 DEF Gates
  <2>2. Len(gate.heard) \in Nat
    BY <2>1, LenProperties
  <2> QED BY <1>1, <1>5, <2>2 DEF Heard
<1>8. Unvoiced'
  BY <1>5 DEF Unvoiced
<1>9. report' # None => ~gate'.armed
  BY <1>1 DEF HeardInv
<1> QED BY <1>1, <1>3, <1>4, <1>6, <1>7, <1>8, <1>9 DEF HeardInv

\* The invariant holds throughout.
LEMMA HeardInvariant == Spec => []HeardInv
<1>1. Init => HeardInv
  <2>1. SUFFICES ASSUME Init PROVE HeardInv
    OBVIOUS
  <2>2. NewGate \in Gates /\ NewGate.armed
    BY EmptySeq, GateConstants DEF NewGate, Gates
  <2>3. Len(pipe) < now
    BY <2>1, EmptySeq DEF Init
  <2>4. SpeechTypeOK
    BY <2>1, <2>2, <2>3, EmptySeq DEF Init, SpeechTypeOK, Turns
  <2> QED BY <2>1, <2>2, <2>4 DEF Init, HeardInv, Live
<1>2. ASSUME HeardInv, UNCHANGED <<now, pipe, turn, gate, lease>>,
             report' = report \/ report' = None,
             Live' => report' = report,
             window' \in {window, None}, excused \subseteq excused',
             spoken' \in {spoken, <<>>}, window' # None => spoken' = spoken
      PROVE  HeardInv'
  <2>1. report # None => report \in Reports /\ report = [report EXCEPT !.stage = report.stage]
    BY <1>2 DEF HeardInv, SpeechTypeOK, Reports
  <2>2. /\ lease \in [id : Nat, expires : Nat] /\ spoken' \in Seq(BOOLEAN) /\ turn \in Turns
        /\ turn # "idle" => pipe # <<>> /\ report' = None
    BY <1>2, EmptySeq DEF HeardInv, SpeechTypeOK
  <2> QED BY <1>2, <2>1, <2>2, HeardKept
<1>3. ASSUME HeardInv, Receive PROVE HeardInv'
  <2>1. ~Live
    BY <1>3 DEF HeardInv, Receive
  <2> QED BY <1>2, <1>3, <2>1 DEF Receive, sessionVars, windowVars, Live
<1>4. ASSUME HeardInv, GiveUp PROVE HeardInv'
  <2>1. excused' # {}
    BY <1>4 DEF GiveUp
  <2> QED BY <1>2, <1>4, <2>1 DEF GiveUp, Live
<1>5. ASSUME HeardInv, Next PROVE HeardInv'
  <2>1. CASE \E voiced \in BOOLEAN : Record(voiced)
    BY <1>5, <2>1, HeardRecord
  <2>2. CASE Worker
    BY <1>3, <1>4, <1>5, <2>2, HeardMaintain, HeardProcess DEF Worker
  <2>3. CASE Serve
    BY <1>5, <2>3, HeardServe
  <2>4. CASE ServeLate
    BY <1>2, <1>5, <2>4 DEF ServeLate, Carry, sessionVars
  <2>5. CASE CameraChanges
    BY <1>2, <1>5, <2>5 DEF CameraChanges, sessionVars, windowVars
  <2>6. CASE OpenWindow
    BY <1>5, <2>6, HeardOpenWindow
  <2>7. CASE CloseWindow
    BY <1>2, <1>5, <2>7 DEF CloseWindow, sessionVars
  <2> QED BY <1>5, <2>1, <2>2, <2>3, <2>4, <2>5, <2>6, <2>7 DEF Next
<1>6. ASSUME HeardInv, UNCHANGED vars PROVE HeardInv'
  BY <1>2, <1>6 DEF vars, sessionVars, windowVars
<1> QED BY <1>1, <1>5, <1>6, PTL DEF Spec

\* Stable voice within an open window has answered it, for any gate, backlog,
\* time to live and lease: a window that is still open although everything
\* recorded has been processed and answered has heard no stable voice, unless a
\* call failed or the gate had been spent before the window opened.
THEOREM SpeechVoiceIsHeard == Spec => []VoiceIsHeardUnlessSpent
<1>1. HeardInv => VoiceIsHeardUnlessSpent
  <2>1. SUFFICES ASSUME HeardInv, Live, Settled PROVE ~StableVoice
    BY DEF VoiceIsHeardUnlessSpent, Live
  <2>2. Unvoiced /\ spoken \in Seq(BOOLEAN) /\ pipe = <<>>
    BY <2>1 DEF HeardInv, SpeechTypeOK, Settled
  <2>3. DOMAIN spoken = 1..Len(spoken) /\ Len(spoken) \in Nat /\ Len(pipe) = 0
    BY <2>2, LenProperties, EmptySeq
  <2>4. Done = Len(spoken)
    BY <2>3 DEF Done
  <2> QED BY <2>2, <2>3, <2>4 DEF Unvoiced, StableVoice
<1> QED BY <1>1, HeardInvariant, PTL

-----------------------------------------------------------------------------
(* The voice that answers a window                                         *)

\* A report on its way is about voice that was in the pipe when it was made; and
\* if it was made in the open window, and the worker was not behind when that
\* opened, the voice is from the window too.
ReportFits(r) ==
    /\ r \in Reports
    /\ r.voice <= r.at /\ r.at <= now /\ r.at < r.voice + MaxBacklog
    /\ window # None /\ ~behind /\ window.openedAt <= r.at => window.openedAt <= r.voice

\* The inductive invariant: nothing recorded before the window is still in the
\* pipe, unless the worker was behind when the window opened.
AnswerInv ==
    /\ Len(pipe) <= MaxBacklog
    /\ window # None /\ ~behind => window.openedAt + Len(pipe) <= now
    /\ \A r \in UnderWay : ReportFits(r)
    /\ OnlyVoiceOfTheWindowAnswersUnlessBehind

\* What the invariant of the frames says of the times.
LEMMA Times ==
    ASSUME HeardInv
    PROVE  /\ now \in Nat /\ pipe \in Seq(BOOLEAN) /\ Len(pipe) \in Nat /\ Len(pipe) < now
           /\ MaxBacklog \in Nat
           /\ window # None => window.openedAt \in Nat /\ window.deadline \in Nat /\ window.openedAt <= now
BY SpeechAssumption, LenProperties DEF HeardInv, SpeechTypeOK

\* Steps that make no report, carry none on and open no window keep the invariant.
LEMMA AnswerKept ==
    ASSUME HeardInv, AnswerInv, UNCHANGED <<now, pipe, behind, answers>>,
           window' \in {window, None}, UnderWay' \subseteq UnderWay
    PROVE  AnswerInv'
<1>1. ASSUME NEW r \in UnderWay' PROVE ReportFits(r)'
  <2>1. ReportFits(r)
    BY <1>1 DEF AnswerInv
  <2> QED BY <2>1 DEF ReportFits
<1> QED BY <1>1 DEF AnswerInv, OnlyVoiceOfTheWindowAnswersUnlessBehind

\* A frame joins the pipe when its time is over.
LEMMA AnswerRecord == ASSUME HeardInv, AnswerInv, NEW voiced \in BOOLEAN, Record(voiced) PROVE AnswerInv'
<1>1. /\ now' = now + 1 /\ pipe' = Append(pipe, voiced) /\ Len(pipe) < MaxBacklog
      /\ UNCHANGED <<window, behind, answers, report, late>>
  BY DEF Record
<1>2. Len(pipe') = Len(pipe) + 1
  BY <1>1, Times, AppendProperties
<1>3. ASSUME NEW r \in UnderWay' PROVE ReportFits(r)'
  <2>1. ReportFits(r)
    BY <1>1, <1>3 DEF AnswerInv, UnderWay
  <2> QED BY <1>1, <2>1, Times DEF ReportFits, Reports
<1>4. window' # None /\ ~behind' => window'.openedAt + Len(pipe') <= now'
  BY <1>1, <1>2, Times DEF AnswerInv
<1> QED BY <1>1, <1>2, <1>3, <1>4, Times DEF AnswerInv, OnlyVoiceOfTheWindowAnswersUnlessBehind

\* The report of a frame is made when the frames after it are still in the pipe.
LEMMA AnswerProcess == ASSUME HeardInv, AnswerInv, Process PROVE AnswerInv'
<1>1. /\ pipe # <<>> /\ pipe' = Tail(pipe) /\ report = None
      /\ UNCHANGED <<now, window, behind, answers, late>>
      /\ \/ report' = None
         \/ Leased /\ report' = [at |-> now, voice |-> now - Len(pipe'), lease |-> session, stage |-> "new"]
  BY DEF Process, HeardInv, SpeechTypeOK
<1>2. Len(pipe') = Len(pipe) - 1 /\ Len(pipe') \in Nat /\ Len(pipe) <= MaxBacklog
  <2>1. Len(Tail(pipe)) = Len(pipe) - 1 /\ Tail(pipe) \in Seq(BOOLEAN)
    BY <1>1, Times, HeadTailProperties
  <2> QED BY <1>1, <2>1, LenProperties DEF AnswerInv
<1>3. window # None /\ ~behind => window.openedAt + Len(pipe') <= now /\ window.openedAt <= now - Len(pipe')
  BY <1>2, Times DEF AnswerInv
<1>4. report' # None => ReportFits(report)'
  <2>1. SUFFICES ASSUME report' # None PROVE ReportFits(report)'
    OBVIOUS
  <2>2. session \in Nat
    BY <1>1, <2>1 DEF Leased, HeardInv, SpeechTypeOK
  <2>3. now - Len(pipe') \in Nat /\ now - Len(pipe') <= now /\ now < now - Len(pipe') + MaxBacklog
    BY <1>2, Times
  <2>4. report' \in Reports /\ report'.at = now /\ report'.voice = now - Len(pipe')
    BY <1>1, <2>1, <2>2, <2>3, Times DEF Reports
  <2> QED BY <1>1, <1>3, <2>3, <2>4, Times DEF ReportFits
<1>5. ASSUME NEW r \in UnderWay' PROVE ReportFits(r)'
  <2>1. CASE r \in late
    <3>1. ReportFits(r)
      BY <2>1 DEF AnswerInv, UnderWay
    <3> QED BY <1>1, <3>1 DEF ReportFits
  <2>2. CASE r \notin late
    <3>1. report' # None /\ r = report'
      BY <1>1, <1>5, <2>2 DEF UnderWay
    <3> QED BY <1>4, <3>1
  <2> QED BY <2>1, <2>2
<1>6. Len(pipe') <= MaxBacklog
  BY <1>2, Times
<1> QED BY <1>1, <1>3, <1>5, <1>6 DEF AnswerInv, OnlyVoiceOfTheWindowAnswersUnlessBehind

\* The engine takes a report only in the window that is open then.
LEMMA AnswerCarry ==
    ASSUME HeardInv, AnswerInv, NEW r \in UnderWay, Carry(r)
    PROVE  OnlyVoiceOfTheWindowAnswersUnlessBehind'
<1>1. CASE r.stage = "submitted" /\ EngineAccepts(r)
  <2> DEFINE a == [window |-> window, voice |-> r.voice, behind |-> behind]
  <2>1. answers' = answers \cup {a}
    BY <1>1 DEF Carry
  <2>2. window # None /\ window.openedAt <= r.at /\ r.at < window.deadline
    BY <1>1 DEF EngineAccepts, replyWindowContains
  <2>3. ReportFits(r)
    BY DEF AnswerInv
  <2>4. r.at \in Nat /\ r.voice \in Nat
    BY <2>3 DEF ReportFits, Reports
  <2>5. /\ a.voice < a.window.deadline
        /\ a.window.openedAt <= a.voice \/ a.behind
        /\ a.window.openedAt < a.voice + MaxBacklog
    BY <2>2, <2>3, <2>4, Times DEF ReportFits
  <2> HIDE DEF a
  <2>6. \A b \in answers : /\ b.voice < b.window.deadline
                           /\ b.window.openedAt <= b.voice \/ b.behind
                           /\ b.window.openedAt < b.voice + MaxBacklog
    BY DEF AnswerInv, OnlyVoiceOfTheWindowAnswersUnlessBehind
  <2> QED BY <2>1, <2>5, <2>6, Zenon DEF OnlyVoiceOfTheWindowAnswersUnlessBehind
<1>2. CASE ~(r.stage = "submitted" /\ EngineAccepts(r))
  BY <1>2 DEF Carry, AnswerInv, OnlyVoiceOfTheWindowAnswersUnlessBehind
<1> QED BY <1>1, <1>2

\* The server carries a report on, the worker's own or one it has given up.
LEMMA AnswerServe == ASSUME HeardInv, AnswerInv, Serve \/ ServeLate PROVE AnswerInv'
<1>1. PICK r \in UnderWay :
         /\ Carry(r)
         /\ \A n \in UnderWay' : n \in UnderWay \/ n = [r EXCEPT !.stage = Served(r)]
  <2>1. CASE Serve
    BY <2>1 DEF Serve, UnderWay
  <2>2. CASE ServeLate
    BY <2>2 DEF ServeLate, UnderWay
  <2> QED BY <2>1, <2>2
<1>2. /\ UNCHANGED <<now, pipe, behind>> /\ window' \in {window, None}
  BY <1>1 DEF Carry
<1>3. Served(r) \in {"new", "ready", "authorized", "submitted", "done"}
  BY DEF Served
<1>4. ASSUME NEW n \in UnderWay' PROVE ReportFits(n)'
  <2>1. ReportFits(r) /\ (n \in UnderWay => ReportFits(n))
    BY DEF AnswerInv
  <2>2. PICK q \in UnderWay : ReportFits(q) /\ n \in Reports /\ n.at = q.at /\ n.voice = q.voice
    <3>1. CASE n \in UnderWay
      BY <2>1, <3>1 DEF ReportFits
    <3>2. CASE n = [r EXCEPT !.stage = Served(r)]
      BY <1>3, <2>1, <3>2 DEF ReportFits, Reports
    <3> QED BY <1>1, <3>1, <3>2
  <2> QED BY <1>2, <2>2 DEF ReportFits
<1>5. OnlyVoiceOfTheWindowAnswersUnlessBehind'
  BY <1>1, AnswerCarry
<1> QED BY <1>2, <1>4, <1>5 DEF AnswerInv

\* A window opens: what could be stamped in it although it is older is an excuse.
LEMMA AnswerOpenWindow == ASSUME HeardInv, AnswerInv, OpenWindow PROVE AnswerInv'
<1>1. /\ window' = [openedAt |-> now, deadline |-> now + WaitFor] /\ behind' = Lagging
      /\ UNCHANGED <<now, pipe, report, late, answers>>
  BY DEF OpenWindow
<1>2. ASSUME NEW r \in UnderWay' PROVE ReportFits(r)'
  <2>1. r \in UnderWay /\ ReportFits(r)
    BY <1>1, <1>2 DEF AnswerInv, UnderWay
  <2>2. r.at \in Nat /\ r.voice \in Nat
    BY <2>1 DEF ReportFits, Reports
  <2>3. ASSUME ~behind', window'.openedAt <= r.at PROVE window'.openedAt <= r.voice
    <3>1. r.at = now
      BY <1>1, <2>1, <2>2, <2>3, Times DEF ReportFits
    <3>2. ~Lagging
      BY <1>1, <2>3, Zenon
    <3>3. ~(r.voice < now)
      BY <2>1, <3>1, <3>2 DEF Lagging
    <3> QED BY <1>1, <2>2, <3>3, Times
  <2> QED BY <1>1, <2>1, <2>3 DEF ReportFits
<1>3. ~behind' => window'.openedAt + Len(pipe') <= now'
  <2>1. ~behind' => Len(pipe) = 0
    BY <1>1, EmptySeq DEF Lagging
  <2> QED BY <1>1, <2>1, Times
<1> QED BY <1>1, <1>2, <1>3 DEF AnswerInv, OnlyVoiceOfTheWindowAnswersUnlessBehind

\* The voice that the engine takes for an answer was recorded before the deadline of
\* the window it answers and not before its opening, for any gate, lease, time to
\* live and backlog and however late the server carries a report out, unless the
\* worker was behind when the window opened; then it is older by less than the
\* pipe holds.
THEOREM SpeechOnlyVoiceOfTheWindowAnswers == Spec => []OnlyVoiceOfTheWindowAnswersUnlessBehind
<1>1. Init => AnswerInv
  BY EmptySeq, SpeechAssumption DEF Init, AnswerInv, UnderWay, OnlyVoiceOfTheWindowAnswersUnlessBehind
<1>2. ASSUME HeardInv, AnswerInv, Next PROVE AnswerInv'
  <2>1. CASE \E voiced \in BOOLEAN : Record(voiced)
    BY <1>2, <2>1, AnswerRecord
  <2>2. CASE \E active \in BOOLEAN : Maintain(active)
    BY <1>2, <2>2, AnswerKept DEF Maintain, windowVars, UnderWay
  <2>3. CASE Receive \/ GiveUp
    BY <1>2, <2>3, AnswerKept DEF Receive, GiveUp, windowVars, UnderWay
  <2>4. CASE CameraChanges \/ CloseWindow
    BY <1>2, <2>4, AnswerKept DEF CameraChanges, CloseWindow, windowVars, UnderWay
  <2> QED BY <1>2, <2>1, <2>2, <2>3, <2>4, AnswerProcess, AnswerServe, AnswerOpenWindow DEF Next, Worker
<1>3. ASSUME HeardInv, AnswerInv, UNCHANGED vars PROVE AnswerInv'
  BY <1>3, AnswerKept DEF vars, windowVars, UnderWay
<1>4. AnswerInv => OnlyVoiceOfTheWindowAnswersUnlessBehind
  BY DEF AnswerInv
<1> QED BY <1>1, <1>2, <1>3, <1>4, HeardInvariant, PTL DEF Spec

-----------------------------------------------------------------------------
(* The gate over a recording                                               *)

\* A set of numbers that is not empty has a least one: induction over the
\* frames of a recording is an argument about the first frame that fails.
LEMMA LeastNumber == ASSUME NEW T \in SUBSET Nat, T # {} PROVE \E m \in T : \A k \in T : m <= k
<1>1. PICK m \in T : \A k \in T : ~(<<k, m>> \in OpToRel(<, Nat))
  BY NatLessThanWellFounded, WFMin
<1>2. \A k \in Nat : k < m => <<k, m>> \in OpToRel(<, Nat)
  BY Zenon DEF OpToRel
<1>3. \A k \in T : ~(k < m)
  BY <1>1, <1>2, Zenon
<1> QED BY <1>3

\* What GateOver is meant to be, for the first n frames.
GatesUpTo(h, n, gates) ==
    gates = [i \in 0..n |-> IF i = 0 THEN NewGate ELSE GateAfter(gates[i - 1], h[i])]

\* The recursive function exists, for a recording of any length.
LEMMA GatesExist == ASSUME NEW h, NEW n \in Nat PROVE \E gates : GatesUpTo(h, n, gates)
<1> DEFINE without == {k \in Nat : ~\E gates : GatesUpTo(h, k, gates)}
<1>1. SUFFICES ASSUME without # {} PROVE FALSE
  OBVIOUS
<1>2. PICK m \in without : \A k \in without : m <= k
  <2>1. without \in SUBSET Nat
    OBVIOUS
  <2> HIDE DEF without
  <2> QED BY <1>1, <2>1, LeastNumber
<1>3. m \in Nat /\ ~\E gates : GatesUpTo(h, m, gates)
  BY <1>2
<1>4. m # 0
  <2>1. SUFFICES ASSUME m = 0 PROVE \E gates : GatesUpTo(h, m, gates)
    BY <1>3
  <2> DEFINE first == [i \in 0..0 |-> NewGate]
  <2>2. first = [i \in 0..0 |-> IF i = 0 THEN NewGate ELSE GateAfter(first[i - 1], h[i])]
    OBVIOUS
  <2> QED BY <2>1, <2>2 DEF GatesUpTo
<1>5. m - 1 \in Nat /\ m - 1 \notin without
  BY <1>2, <1>3, <1>4
<1>6. PICK before : GatesUpTo(h, m - 1, before)
  BY <1>5
<1> DEFINE after == [i \in 0..m |-> IF i <= m - 1 THEN before[i] ELSE GateAfter(before[m - 1], h[m])]
<1>7. \A i \in 0..m : after[i] = IF i = 0 THEN NewGate ELSE GateAfter(after[i - 1], h[i])
  <2>1. ASSUME NEW i \in 0..m PROVE after[i] = IF i = 0 THEN NewGate ELSE GateAfter(after[i - 1], h[i])
    <3>1. before = [k \in 0..(m - 1) |-> IF k = 0 THEN NewGate ELSE GateAfter(before[k - 1], h[k])]
      BY <1>6 DEF GatesUpTo
    <3>2. CASE i = 0
      <4>1. i \in 0..(m - 1) /\ i <= m - 1
        BY <1>3, <1>4, <3>2
      <4> QED BY <3>1, <3>2, <4>1
    <3>3. CASE i # 0 /\ i <= m - 1
      <4>1. i \in 0..(m - 1) /\ i - 1 \in 0..m /\ i - 1 <= m - 1
        BY <1>3, <3>3
      <4>2. after[i] = before[i] /\ after[i - 1] = before[i - 1]
        BY <3>3, <4>1
      <4>3. before[i] = GateAfter(before[i - 1], h[i])
        BY <3>1, <3>3, <4>1
      <4> QED BY <3>3, <4>2, <4>3
    <3>4. CASE i = m
      <4>1. m - 1 \in 0..m /\ m - 1 <= m - 1 /\ ~(m <= m - 1)
        BY <1>3, <1>4
      <4>2. after[i] = GateAfter(before[m - 1], h[m]) /\ after[m - 1] = before[m - 1]
        BY <3>4, <4>1
      <4> HIDE DEF after
      <4> QED BY <1>4, <3>4, <4>2
    <3> QED BY <1>3, <3>2, <3>3, <3>4
  <2> QED BY <2>1
<1>8. after = [i \in 0..m |-> IF i = 0 THEN NewGate ELSE GateAfter(after[i - 1], h[i])]
  <2>1. after = [i \in 0..m |-> after[i]]
    OBVIOUS
  <2> HIDE DEF after
  <2> QED BY <1>7, <2>1
<1> HIDE DEF after
<1> QED BY <1>3, <1>8 DEF GatesUpTo

\* The gate starts anew and takes the frames one after the other.
LEMMA GateOverProperties ==
    ASSUME NEW h \in Seq(BOOLEAN)
    PROVE  /\ GateOver(h)[0] = NewGate
           /\ \A i \in 1..Len(h) : GateOver(h)[i] = GateAfter(GateOver(h)[i - 1], h[i])
<1>1. Len(h) \in Nat
  BY LenProperties
<1>2. GatesUpTo(h, Len(h), CHOOSE gates : GatesUpTo(h, Len(h), gates))
  BY <1>1, GatesExist
<1>3. GateOver(h) = CHOOSE gates : GatesUpTo(h, Len(h), gates)
  BY DEF GateOver, GatesUpTo
<1>4. GateOver(h) = [i \in 0..Len(h) |-> IF i = 0 THEN NewGate ELSE GateAfter(GateOver(h)[i - 1], h[i])]
  BY <1>2, <1>3 DEF GatesUpTo
<1> QED BY <1>1, <1>4

\* The gate's window holds the last frames up to i of those after the s-th, as
\* many as fit.
Recent(h, s, i, heard) ==
    /\ Len(heard) = IF i - s < WindowFrames THEN i - s ELSE WindowFrames
    /\ \A k \in 1..Len(heard) : heard[Len(heard) + 1 - k] = h[i + 1 - k]

LastFired(h, f, i) == f \in Fired(h) /\ f <= i /\ \A e \in Fired(h) : e <= i => e <= f

\* An armed gate has heard all since the start, or since the first full pause
\* after it fired.
ArmedSince(h, i, s) ==
    /\ Recent(h, s, i, GateOver(h)[i].heard)
    /\ \/ s = 0 /\ \A e \in Fired(h) : ~(e <= i)
       \/ \E f \in Fired(h) :
              /\ LastFired(h, f, i)
              /\ f + RearmFrames <= s
              /\ \A b \in (s - RearmFrames + 1)..s : ~h[b]
              /\ ~SilentRun(h, f + 1, s - 1)

\* A spent gate has fired, there was no full pause since, and it knows how long
\* it has been silent.
SpentSince(h, i, f) ==
    LET quiet == GateOver(h)[i].silence
    IN  /\ LastFired(h, f, i)
        /\ quiet < RearmFrames /\ quiet <= i - f
        /\ \A b \in (i - quiet + 1)..i : ~h[b]
        /\ quiet = i - f \/ h[i - quiet]
        /\ ~SilentRun(h, f + 1, i)

\* What the gate knows of a recording after its i-th frame.
GateInv(h, i) ==
    /\ GateOver(h)[i] \in Gates
    /\ IF GateOver(h)[i].armed THEN \E s \in 0..i : ArmedSince(h, i, s)
                               ELSE \E f \in Fired(h) : SpentSince(h, i, f)

\* The window slides with the recording; a full one is a piece of it.
LEMMA RecentSlides ==
    ASSUME NEW h \in Seq(BOOLEAN), NEW i \in 0..(Len(h) - 1), NEW s \in 0..i,
           NEW heard \in Seq(BOOLEAN), Recent(h, s, i, heard)
    PROVE  LET slid == Slide(heard, h[i + 1])
           IN  /\ Recent(h, s, i + 1, slid)
               /\ Len(slid) = WindowFrames =>
                      /\ i + 1 >= WindowFrames /\ s <= i + 1 - WindowFrames
                      /\ slid = SubSeq(h, i + 1 - WindowFrames + 1, i + 1)
<1> DEFINE slid == Slide(heard, h[i + 1])
<1>1. Len(h) \in Nat /\ i \in Nat /\ s \in Nat /\ i + 1 \in 1..Len(h) /\ Len(heard) \in Nat
  BY LenProperties
<1>2. h[i + 1] \in BOOLEAN
  BY <1>1, ElementOfSeq
<1>3. Len(heard) = IF i - s < WindowFrames THEN i - s ELSE WindowFrames
  BY DEF Recent
<1>4. Len(heard) <= WindowFrames
  BY <1>1, <1>3, GateConstants
<1>5. /\ slid \in Seq(BOOLEAN)
      /\ Len(slid) = IF Len(heard) < WindowFrames THEN Len(heard) + 1 ELSE WindowFrames
      /\ slid[Len(slid)] = h[i + 1]
      /\ \A k \in 1..(Len(slid) - 1) : slid[Len(slid) - k] = heard[Len(heard) + 1 - k]
  BY <1>2, <1>4, SlideProperties
<1> HIDE DEF slid
<1>6. Len(slid) = IF i + 1 - s < WindowFrames THEN i + 1 - s ELSE WindowFrames
  BY <1>1, <1>3, <1>5, GateConstants
<1>7. ASSUME NEW k \in 1..Len(slid) PROVE slid[Len(slid) + 1 - k] = h[i + 1 + 1 - k]
  <2>1. CASE k = 1
    <3>1. Len(slid) + 1 - k = Len(slid) /\ i + 1 + 1 - k = i + 1
      BY <1>1, <1>6, <2>1, GateConstants
    <3> QED BY <1>5, <3>1
  <2>2. CASE k # 1
    <3> DEFINE m == k - 1
    <3>1. m \in 1..(Len(slid) - 1) /\ m \in 1..Len(heard)
      BY <1>1, <1>4, <1>5, <2>2, GateConstants
    <3>2. Len(slid) + 1 - k = Len(slid) - m /\ i + 1 + 1 - k = i + 1 - m
      BY <1>1, <1>6, GateConstants
    <3>3. heard[Len(heard) + 1 - m] = h[i + 1 - m]
      BY <3>1 DEF Recent
    <3>4. slid[Len(slid) - m] = heard[Len(heard) + 1 - m]
      BY <1>5, <3>1
    <3> QED BY <3>2, <3>3, <3>4
  <2> QED BY <2>1, <2>2
<1>8. Recent(h, s, i + 1, slid)
  BY <1>6, <1>7 DEF Recent
<1>9. ASSUME Len(slid) = WindowFrames
      PROVE  /\ i + 1 >= WindowFrames /\ s <= i + 1 - WindowFrames
             /\ slid = SubSeq(h, i + 1 - WindowFrames + 1, i + 1)
  <2>1. i + 1 >= WindowFrames /\ s <= i + 1 - WindowFrames
    BY <1>1, <1>6, <1>9, GateConstants
  <2>2. PICK end \in 1..Len(h) : end = i + 1
    BY <1>1
  <2> DEFINE from == end - WindowFrames + 1
             last == SubSeq(h, from, end)
  <2>3. from \in 1..end /\ end - from + 1 = WindowFrames
    BY <1>1, <2>1, <2>2, GateConstants
  <2>4. \A b \in from..end : h[b] \in BOOLEAN
    <3>1. \A b \in from..end : b \in 1..Len(h)
      BY <1>1, <2>3
    <3> QED BY <3>1, ElementOfSeq
  <2>5. /\ last \in Seq(BOOLEAN) /\ Len(last) = WindowFrames
        /\ \A b \in 1..WindowFrames : last[b] = h[from + b - 1]
    BY <2>3, <2>4, GateConstants, SubSeqProperties
  <2>6. ASSUME NEW b \in 1..WindowFrames PROVE slid[b] = last[b]
    <3> DEFINE k == WindowFrames + 1 - b
    <3>1. k \in 1..Len(slid)
      BY <1>9, GateConstants
    <3>2. Len(slid) + 1 - k = b /\ i + 1 + 1 - k = from + b - 1
      BY <1>1, <1>9, <2>2, GateConstants
    <3>3. slid[Len(slid) + 1 - k] = h[i + 1 + 1 - k]
      BY <1>7, <3>1
    <3> QED BY <2>5, <3>2, <3>3
  <2>7. slid = SubSeq(h, end - WindowFrames + 1, end)
    BY <1>5, <1>9, <2>5, <2>6, SeqEqual
  <2>8. i + 1 - WindowFrames + 1 = end - WindowFrames + 1
    BY <1>1, <2>2, GateConstants
  <2> HIDE DEF from, last
  <2> QED BY <2>1, <2>2, <2>7, <2>8
<1> QED BY <1>8, <1>9 DEF slid

\* One more frame.
LEMMA GateInvStep ==
    ASSUME NEW h \in Seq(BOOLEAN), NEW i \in 0..(Len(h) - 1), GateInv(h, i)
    PROVE  GateInv(h, i + 1)
<1> DEFINE g == GateOver(h)[i]
           next == GateOver(h)[i + 1]
           frame == h[i + 1]
           heard == Slide(g.heard, frame)
           fires == Len(heard) = WindowFrames /\ Voices(heard) >= VoicedFrames
           run == IF frame THEN 0 ELSE g.silence + 1
<1>1. Len(h) \in Nat /\ i \in Nat /\ i + 1 \in 1..Len(h) /\ i + 1 - 1 = i /\ DOMAIN h = 1..Len(h)
  BY LenProperties
<1>2. frame \in BOOLEAN
  BY <1>1, ElementOfSeq
<1>3. g \in Gates
  BY DEF GateInv
<1>4. g.heard \in Seq(BOOLEAN) /\ g.armed \in BOOLEAN /\ g.silence \in Nat
  BY <1>3 DEF Gates
<1>5. next = GateAfter(g, frame)
  BY <1>1, GateOverProperties
<1>6. /\ next \in Gates
      /\ g.armed /\ ~fires => next.armed /\ next.heard = heard
      /\ g.armed /\ fires => ~next.armed /\ next.silence = 0
      /\ ~g.armed /\ run >= RearmFrames => next = NewGate
      /\ ~g.armed /\ run < RearmFrames => ~next.armed /\ next.silence = run
      /\ Triggers(g, frame) <=> g.armed /\ fires
  BY <1>2, <1>3, <1>5, GateAfterProperties
<1>7. i + 1 \in Fired(h) <=> g.armed /\ fires
  BY <1>1, <1>6 DEF Fired
<1>8. \A e \in Fired(h) : e \in 1..Len(h)
  BY <1>1 DEF Fired
<1>9. ASSUME i + 1 \notin Fired(h), NEW e \in Fired(h), e <= i + 1 PROVE e <= i
  <2>1. e # i + 1 /\ e \in Nat
    BY <1>8, <1>9
  <2> QED BY <1>1, <1>9, <2>1
<1>10. ASSUME i + 1 \notin Fired(h), NEW f \in Fired(h), LastFired(h, f, i)
       PROVE  LastFired(h, f, i + 1) /\ f \in Nat /\ f <= i
  <2>1. f \in Nat /\ f <= i + 1 /\ f <= i
    BY <1>1, <1>8, <1>10 DEF LastFired
  <2> QED BY <1>9, <1>10, <2>1 DEF LastFired
<1> HIDE DEF g, next, frame, heard, fires, run
<1>11. CASE g.armed /\ ~fires
  <2>1. next.armed /\ next.heard = heard /\ i + 1 \notin Fired(h)
    BY <1>6, <1>7, <1>11
  <2>2. PICK s \in 0..i : ArmedSince(h, i, s)
    BY <1>11 DEF GateInv, g
  <2>3. Recent(h, s, i + 1, next.heard)
    BY <1>4, <2>1, <2>2, RecentSlides DEF ArmedSince, g, heard, frame
  <2>4. CASE s = 0 /\ \A e \in Fired(h) : ~(e <= i)
    <3>1. \A e \in Fired(h) : ~(e <= i + 1)
      BY <1>9, <2>1, <2>4
    <3>2. ArmedSince(h, i + 1, s)
      BY <2>3, <2>4, <3>1 DEF ArmedSince, next
    <3> QED BY <1>1, <1>6, <2>1, <3>2 DEF GateInv, next
  <2>5. CASE \E f \in Fired(h) :
              /\ LastFired(h, f, i)
              /\ f + RearmFrames <= s
              /\ \A b \in (s - RearmFrames + 1)..s : ~h[b]
              /\ ~SilentRun(h, f + 1, s - 1)
    <3>1. PICK f \in Fired(h) :
              /\ LastFired(h, f, i)
              /\ f + RearmFrames <= s
              /\ \A b \in (s - RearmFrames + 1)..s : ~h[b]
              /\ ~SilentRun(h, f + 1, s - 1)
      BY <2>5
    <3>2. LastFired(h, f, i + 1)
      BY <1>10, <2>1, <3>1
    <3>3. ArmedSince(h, i + 1, s)
      BY <2>3, <3>1, <3>2 DEF ArmedSince, next
    <3>4. s \in 0..(i + 1)
      BY <1>1
    <3> QED BY <1>6, <2>1, <3>3, <3>4 DEF GateInv, next
  <2> QED BY <2>2, <2>4, <2>5 DEF ArmedSince
<1>12. CASE g.armed /\ fires
  <2>1. ~next.armed /\ next.silence = 0 /\ i + 1 \in Fired(h)
    BY <1>6, <1>7, <1>12
  <2>2. LastFired(h, i + 1, i + 1)
    BY <1>1, <2>1 DEF LastFired
  <2>3. ~SilentRun(h, i + 1 + 1, i + 1)
    BY <1>1, GateConstants DEF SilentRun
  <2>4. /\ 0 < RearmFrames /\ 0 <= i + 1 - (i + 1) /\ 0 = i + 1 - (i + 1)
        /\ \A b \in (i + 1 - 0 + 1)..(i + 1) : ~h[b]
    BY <1>1, GateConstants
  <2>5. SpentSince(h, i + 1, i + 1)
    BY <2>1, <2>2, <2>3, <2>4 DEF SpentSince, next
  <2> QED BY <1>6, <2>1, <2>5 DEF GateInv, next
<1>13. CASE ~g.armed
  <2>1. PICK f \in Fired(h) : SpentSince(h, i, f)
    BY <1>13 DEF GateInv, g
  <2>2. /\ LastFired(h, f, i) /\ g.silence < RearmFrames /\ g.silence <= i - f
        /\ \A b \in (i - g.silence + 1)..i : ~h[b]
        /\ g.silence = i - f \/ h[i - g.silence]
        /\ ~SilentRun(h, f + 1, i)
    BY <2>1 DEF SpentSince, g
  <2>3. i + 1 \notin Fired(h)
    BY <1>7, <1>13
  <2>4. LastFired(h, f, i + 1) /\ f \in Nat /\ f <= i
    BY <1>10, <2>2, <2>3
  <2>5. CASE run >= RearmFrames
    <3>1. ~frame /\ run = g.silence + 1
      BY <2>5, GateConstants DEF run
    <3>2. g.silence = RearmFrames - 1
      BY <1>4, <2>2, <2>5, <3>1, GateConstants
    <3>3. next = NewGate
      BY <1>6, <1>13, <2>5
    <3>4. next.armed /\ Len(next.heard) = 0
      BY <3>3, EmptySeq DEF NewGate
    <3>5. PICK s \in 0..(i + 1) : s = i + 1
      BY <1>1
    <3>6. GateOver(h)[s] = next /\ LastFired(h, f, s)
      BY <2>4, <3>5 DEF next
    <3>7. Recent(h, s, s, next.heard)
      BY <1>1, <3>4, <3>5, GateConstants DEF Recent
    <3>8. f + RearmFrames <= s
      BY <1>1, <2>2, <2>4, <3>2, <3>5, GateConstants
    <3>9. ASSUME NEW b \in (s - RearmFrames + 1)..s PROVE ~h[b]
      <4>1. CASE b = i + 1
        BY <3>1, <4>1 DEF frame
      <4>2. CASE b # i + 1
        <5>1. b \in (i - g.silence + 1)..i
          BY <1>1, <3>2, <3>5, <4>2, GateConstants
        <5> QED BY <2>2, <5>1
      <4> QED BY <4>1, <4>2
    <3>10. ~SilentRun(h, f + 1, s - 1)
      BY <1>1, <2>2, <3>5
    <3>11. ArmedSince(h, s, s)
      BY <3>6, <3>7, <3>8, <3>9, <3>10, Zenon DEF ArmedSince
    <3> QED BY <1>1, <1>6, <3>4, <3>5, <3>11 DEF GateInv, next
  <2>6. CASE ~(run >= RearmFrames)
    <3>1. run \in Nat /\ run < RearmFrames
      BY <1>4, <2>6, GateConstants DEF run
    <3>2. ~next.armed /\ next.silence = run
      BY <1>6, <1>13, <3>1
    <3>3. run <= i + 1 - f
      BY <1>1, <1>4, <2>2, <2>4 DEF run
    <3>4. ASSUME NEW b \in (i + 1 - run + 1)..(i + 1) PROVE ~h[b]
      <4>1. ~frame /\ run = g.silence + 1
        BY <1>1, <3>4 DEF run
      <4>2. CASE b = i + 1
        BY <4>1, <4>2 DEF frame
      <4>3. CASE b # i + 1
        <5>1. b \in (i - g.silence + 1)..i
          BY <1>1, <1>4, <4>1, <4>3
        <5> QED BY <2>2, <5>1
      <4> QED BY <4>2, <4>3
    <3>5. run = i + 1 - f \/ h[i + 1 - run]
      <4>1. CASE frame
        <5>1. i + 1 - run = i + 1
          BY <1>1, <4>1 DEF run
        <5> QED BY <4>1, <5>1 DEF frame
      <4>2. CASE ~frame
        <5>1. run = g.silence + 1
          BY <4>2 DEF run
        <5>2. CASE g.silence = i - f
          BY <1>1, <2>4, <5>1, <5>2
        <5>3. CASE h[i - g.silence]
          <6>1. i + 1 - run = i - g.silence
            BY <1>1, <1>4, <5>1
          <6> QED BY <5>3, <6>1
        <5> QED BY <2>2, <5>2, <5>3
      <4> QED BY <1>2, <4>1, <4>2
    <3>6. ~SilentRun(h, f + 1, i + 1)
      <4> DEFINE end == i + 1
      <4> HIDE DEF end
      <4>0. SUFFICES ASSUME SilentRun(h, f + 1, end) PROVE FALSE
        BY DEF end
      <4>1. PICK a \in (f + 1)..(end - RearmFrames + 1) : \A b \in a..(a + RearmFrames - 1) : ~h[b]
        BY <4>0, Zenon DEF SilentRun
      <4> USE DEF end
      <4>2. a = i + 1 - RearmFrames + 1
        <5>1. CASE a \in (f + 1)..(i - RearmFrames + 1)
          BY <2>2, <4>1, <5>1 DEF SilentRun
        <5> QED BY <1>1, <2>4, <5>1, GateConstants
      <4>3. CASE run = i + 1 - f
        BY <1>1, <2>4, <3>1, <4>2, <4>3, GateConstants
      <4>4. CASE h[i + 1 - run]
        <5>1. i + 1 - run \in a..(a + RearmFrames - 1)
          BY <1>1, <3>1, <4>2, GateConstants
        <5> QED BY <4>1, <4>4, <5>1
      <4> QED BY <3>5, <4>3, <4>4
    <3>7. SpentSince(h, i + 1, f)
      BY <2>4, <3>1, <3>2, <3>3, <3>4, <3>5, <3>6 DEF SpentSince, next
    <3> QED BY <1>6, <3>2, <3>7 DEF GateInv, next
  <2> QED BY <2>5, <2>6
<1> QED BY <1>4, <1>11, <1>12, <1>13

\* After every frame of every recording the gate knows what it should.
LEMMA GateInvHolds == ASSUME NEW h \in Seq(BOOLEAN) PROVE \A i \in 0..Len(h) : GateInv(h, i)
<1> DEFINE wrong == {i \in 0..Len(h) : ~GateInv(h, i)}
<1>1. Len(h) \in Nat
  BY LenProperties
<1>2. SUFFICES ASSUME wrong # {} PROVE FALSE
  OBVIOUS
<1>3. wrong \in SUBSET Nat
  BY <1>1
<1>4. PICK m \in wrong : \A k \in wrong : m <= k
  <2> HIDE DEF wrong
  <2> QED BY <1>2, <1>3, LeastNumber
<1>5. m \in 0..Len(h) /\ ~GateInv(h, m)
  BY <1>4
<1>6. GateInv(h, 0)
  <2>1. GateOver(h)[0] = NewGate
    BY GateOverProperties
  <2>2. NewGate \in Gates /\ NewGate.armed /\ Len(NewGate.heard) = 0
    BY EmptySeq, GateConstants DEF NewGate, Gates
  <2>3. Recent(h, 0, 0, GateOver(h)[0].heard)
    BY <2>1, <2>2, GateConstants DEF Recent
  <2>4. \A e \in Fired(h) : ~(e <= 0)
    <3>1. DOMAIN h = 1..Len(h)
      BY LenProperties
    <3> QED BY <1>1, <3>1 DEF Fired
  <2>5. ArmedSince(h, 0, 0)
    BY <2>3, <2>4 DEF ArmedSince
  <2> QED BY <2>1, <2>2, <2>5 DEF GateInv
<1>7. m # 0
  BY <1>5, <1>6
<1>8. m - 1 \in 0..(Len(h) - 1) /\ m - 1 \in 0..Len(h) /\ m - 1 + 1 = m /\ ~(m <= m - 1)
  BY <1>1, <1>5, <1>7
<1>9. GateInv(h, m - 1)
  BY <1>4, <1>8
<1> QED BY <1>5, <1>8, <1>9, GateInvStep

\* What one recording shows of the gate.
GateIsRight(h) ==
    /\ \A j \in Fired(h) : Voiced(h, j)
    /\ \A i, j \in Fired(h) : i < j => SilentRun(h, i + 1, j - WindowFrames)
    /\ \A j \in DOMAIN h : Voiced(h, j) /\ j \notin Fired(h) =>
           \E i \in Fired(h) : i < j /\ ~SilentRun(h, i + 1, j - WindowFrames)

\* A piece without a full pause has none in a part of it that begins alike.
LEMMA NoPauseInPart ==
    ASSUME NEW h, NEW from \in Int, NEW to \in Int, NEW end \in Int, end <= to, ~SilentRun(h, from, to)
    PROVE  ~SilentRun(h, from, end)
<1>1. \A a \in from..(end - RearmFrames + 1) : a \in from..(to - RearmFrames + 1)
  BY GateConstants
<1> QED BY <1>1, Zenon DEF SilentRun

\* The gate triggers on a voiced window, never twice without a full pause and a
\* whole window in between, and misses no voiced window for another reason:
\* for recordings and windows of any length.
LEMMA GateOverIsRight == ASSUME NEW h \in Seq(BOOLEAN) PROVE GateIsRight(h)
<1>1. Len(h) \in Nat /\ DOMAIN h = 1..Len(h)
  BY LenProperties
<1>2. ASSUME NEW j \in 1..Len(h)
      PROVE  /\ j - 1 \in 0..(Len(h) - 1) /\ j - 1 + 1 = j /\ j - 1 \in 0..Len(h)
             /\ h[j] \in BOOLEAN /\ GateInv(h, j - 1) /\ GateOver(h)[j - 1] \in Gates
  <2>1. j - 1 \in 0..(Len(h) - 1) /\ j - 1 + 1 = j /\ j - 1 \in 0..Len(h)
    BY <1>1
  <2> QED BY <2>1, ElementOfSeq, GateInvHolds DEF GateInv
<1>3. ASSUME NEW j \in 1..Len(h)
      PROVE  LET g == GateOver(h)[j - 1]
                 heard == Slide(g.heard, h[j])
             IN  j \in Fired(h) <=> g.armed /\ Len(heard) = WindowFrames /\ Voices(heard) >= VoicedFrames
  <2> DEFINE g == GateOver(h)[j - 1]
             frame == h[j]
  <2>1. j \in Fired(h) <=> Triggers(g, frame)
    BY <1>1 DEF Fired
  <2>2. g \in Gates /\ frame \in BOOLEAN
    BY <1>2
  <2> HIDE DEF g, frame
  <2>3. Triggers(g, frame) <=> /\ g.armed /\ Len(Slide(g.heard, frame)) = WindowFrames
                               /\ Voices(Slide(g.heard, frame)) >= VoicedFrames
    BY <2>2, GateAfterProperties
  <2> QED BY <2>1, <2>3 DEF g, frame
<1>4. ASSUME NEW j \in 1..Len(h), NEW s \in 0..(j - 1), ArmedSince(h, j - 1, s)
      PROVE  LET heard == Slide(GateOver(h)[j - 1].heard, h[j])
             IN  /\ Recent(h, s, j, heard)
                 /\ Len(heard) = WindowFrames =>
                        /\ j >= WindowFrames /\ s <= j - WindowFrames
                        /\ heard = SubSeq(h, j - WindowFrames + 1, j)
  <2>1. GateOver(h)[j - 1].heard \in Seq(BOOLEAN)
    BY <1>2 DEF Gates
  <2>2. Recent(h, s, j - 1, GateOver(h)[j - 1].heard)
    BY <1>4 DEF ArmedSince
  <2>3. LET heard == Slide(GateOver(h)[j - 1].heard, h[j - 1 + 1])
        IN  /\ Recent(h, s, j - 1 + 1, heard)
            /\ Len(heard) = WindowFrames =>
                   /\ j - 1 + 1 >= WindowFrames /\ s <= j - 1 + 1 - WindowFrames
                   /\ heard = SubSeq(h, j - 1 + 1 - WindowFrames + 1, j - 1 + 1)
    BY <1>2, <2>1, <2>2, RecentSlides
  <2> QED BY <1>2, <2>3
<1>5. ASSUME NEW j \in Fired(h) PROVE Voiced(h, j)
  <2>1. j \in 1..Len(h)
    BY <1>1 DEF Fired
  <2> DEFINE heard == Slide(GateOver(h)[j - 1].heard, h[j])
  <2>2. GateOver(h)[j - 1].armed /\ Len(heard) = WindowFrames /\ Voices(heard) >= VoicedFrames
    BY <1>3, <2>1
  <2>3. PICK s \in 0..(j - 1) : ArmedSince(h, j - 1, s)
    BY <1>2, <2>1, <2>2 DEF GateInv
  <2>4. j >= WindowFrames /\ heard = SubSeq(h, j - WindowFrames + 1, j)
    BY <1>4, <2>1, <2>2, <2>3
  <2> HIDE DEF heard
  <2> QED BY <2>2, <2>4, Zenon DEF Voiced
<1>6. ASSUME NEW i \in Fired(h), NEW j \in Fired(h), i < j
      PROVE  SilentRun(h, i + 1, j - WindowFrames)
  <2>1. i \in 1..Len(h) /\ j \in 1..Len(h) /\ i <= j - 1
    BY <1>1, <1>6 DEF Fired
  <2> DEFINE heard == Slide(GateOver(h)[j - 1].heard, h[j])
  <2>2. GateOver(h)[j - 1].armed /\ Len(heard) = WindowFrames
    BY <1>3, <2>1
  <2>3. PICK s \in 0..(j - 1) : ArmedSince(h, j - 1, s)
    BY <1>2, <2>1, <2>2 DEF GateInv
  <2>4. s <= j - WindowFrames
    BY <1>4, <2>1, <2>2, <2>3
  <2>5. PICK f \in Fired(h) : /\ LastFired(h, f, j - 1) /\ f + RearmFrames <= s
                              /\ \A b \in (s - RearmFrames + 1)..s : ~h[b]
    BY <2>1, <2>3 DEF ArmedSince
  <2>6. f \in Nat /\ i <= f
    BY <1>1, <2>1, <2>5 DEF LastFired, Fired
  <2> DEFINE a == s - RearmFrames + 1
  <2>7. /\ a \in (i + 1)..(j - WindowFrames - RearmFrames + 1)
        /\ a..(a + RearmFrames - 1) = (s - RearmFrames + 1)..s
    BY <2>1, <2>4, <2>5, <2>6, GateConstants
  <2>8. \A b \in a..(a + RearmFrames - 1) : ~h[b]
    BY <2>5, <2>7
  <2> HIDE DEF a
  <2> QED BY <2>7, <2>8, Zenon DEF SilentRun
<1>7. ASSUME NEW j \in 1..Len(h), Voiced(h, j), j \notin Fired(h)
      PROVE  \E i \in Fired(h) : i < j /\ ~SilentRun(h, i + 1, j - WindowFrames)
  <2>1. j >= WindowFrames /\ Voices(SubSeq(h, j - WindowFrames + 1, j)) >= VoicedFrames
    BY <1>7, Zenon DEF Voiced
  <2>2. CASE GateOver(h)[j - 1].armed
    <3>1. PICK s \in 0..(j - 1) : ArmedSince(h, j - 1, s)
      BY <1>2, <2>2 DEF GateInv
    <3> DEFINE heard == Slide(GateOver(h)[j - 1].heard, h[j])
    <3>2. Len(heard) # WindowFrames
      <4>1. ~(Len(heard) = WindowFrames /\ Voices(heard) >= VoicedFrames)
        BY <1>3, <1>7, <2>2
      <4>2. Len(heard) = WindowFrames => heard = SubSeq(h, j - WindowFrames + 1, j)
        BY <1>4, <3>1
      <4> HIDE DEF heard
      <4> QED BY <2>1, <4>1, <4>2, Zenon
    <3>3. Len(heard) = IF j - s < WindowFrames THEN j - s ELSE WindowFrames
      BY <1>4, <3>1 DEF Recent
    <3>4. j - WindowFrames <= s - 1 /\ s # 0
      BY <2>1, <3>2, <3>3, GateConstants
    <3>5. PICK f \in Fired(h) : LastFired(h, f, j - 1) /\ ~SilentRun(h, f + 1, s - 1)
      BY <3>1, <3>4 DEF ArmedSince
    <3>6. f \in Nat /\ f < j
      BY <1>1, <3>5 DEF LastFired, Fired
    <3>7. ~SilentRun(h, f + 1, j - WindowFrames)
      BY <3>4, <3>5, <3>6, GateConstants, NoPauseInPart
    <3> QED BY <3>6, <3>7
  <2>3. CASE ~GateOver(h)[j - 1].armed
    <3>1. PICK f \in Fired(h) : SpentSince(h, j - 1, f)
      BY <1>2, <2>3 DEF GateInv
    <3>2. LastFired(h, f, j - 1) /\ ~SilentRun(h, f + 1, j - 1)
      BY <3>1 DEF SpentSince
    <3>3. f \in Nat /\ f < j
      BY <1>1, <3>2 DEF LastFired, Fired
    <3>4. ~SilentRun(h, f + 1, j - WindowFrames)
      BY <3>2, <3>3, GateConstants, NoPauseInPart
    <3> QED BY <3>3, <3>4
  <2> QED BY <2>2, <2>3
<1> QED BY <1>1, <1>5, <1>6, <1>7 DEF GateIsRight

\* One trigger per utterance, for any recording, window, share of voiced frames
\* and pause.
THEOREM SpeechOneTriggerPerUtterance == Spec => []OneTriggerPerUtterance
<1>1. OneTriggerPerUtterance
  BY GateOverIsRight, SpeechAssumption DEF OneTriggerPerUtterance, GateIsRight
<1> QED BY <1>1, PTL

-----------------------------------------------------------------------------
(* The declaration and the readiness of a scenario                         *)

\* A name has one rank, and two names have two.
LEMMA NameRanks ==
    ASSUME NEW a \in Capabilities, NEW b \in Capabilities
    PROVE  NameRank(a) \in Nat /\ (NameRank(a) = NameRank(b) => a = b)
<1>1. ASSUME NEW k \in Capabilities
      PROVE  NameRank(k) \in DOMAIN CapabilityNames /\ CapabilityNames[NameRank(k)] = k
  BY <1>1 DEF Capabilities, ToSet, NameRank
<1>2. DOMAIN CapabilityNames \subseteq Nat
  BY DEF CapabilityNames
<1> QED BY <1>1, <1>2, Zenon

\* The entries of a list, or the issues it gives rise to, have the names of
\* capabilities, each at most once.
Named(s) == Distinct(KindsOf(s)) /\ \A i \in DOMAIN s : s[i].kind \in Capabilities

\* A list without duplicates is as long as its set is large.
LEMMA LengthOfNamed ==
    ASSUME NEW S, NEW s \in Seq(S), Distinct(KindsOf(s))
    PROVE  /\ IsFiniteSet(ToSet(s)) /\ Cardinality(ToSet(s)) = Len(s)
           /\ \A d, e \in ToSet(s) : d.kind = e.kind => d = e
<1>1. Len(s) \in Nat /\ DOMAIN s = 1..Len(s) /\ s \in [1..Len(s) -> S]
  BY LenProperties
<1>2. \A i, j \in 1..Len(s) : i # j => s[i].kind # s[j].kind
  BY <1>1 DEF Distinct, KindsOf
<1>3. s \in [1..Len(s) -> ToSet(s)] /\ \A e \in ToSet(s) : \E i \in 1..Len(s) : s[i] = e
  BY <1>1 DEF ToSet
<1>4. s \in Bijection(1..Len(s), ToSet(s))
  <2>1. \A i, j \in 1..Len(s) : s[i] = s[j] => i = j
    BY <1>2, Zenon
  <2> QED BY <1>3, <2>1, Fun_IsBij
<1>5. IsFiniteSet(1..Len(s)) /\ Cardinality(1..Len(s)) = Len(s)
  BY <1>1, FS_Interval
<1>6. ExistsBijection(1..Len(s), ToSet(s))
  BY <1>4, Zenon DEF ExistsBijection
<1>7. IsFiniteSet(ToSet(s)) /\ Cardinality(ToSet(s)) = Len(s)
  BY <1>5, <1>6, FS_Bijection
<1> QED BY <1>2, <1>3, <1>7

\* The names of a set can be counted: exactly one of its members has i - 1 of
\* them before it, for every i up to their number.
LEMMA BeforeCounts ==
    ASSUME NEW S, IsFiniteSet(S), \A e \in S : e.kind \in Capabilities,
           \A d, e \in S : d.kind = e.kind => d = e
    PROVE  /\ \A e \in S : Before(S, e) + 1 \in 1..Cardinality(S)
           /\ \A d, e \in S : Before(S, d) = Before(S, e) => d = e
           /\ \A i \in 1..Cardinality(S) : \E e \in S : Before(S, e) = i - 1
<1> DEFINE below(e) == {d \in S : NameRank(d.kind) < NameRank(e.kind)}
<1>1. Cardinality(S) \in Nat
  BY FS_CardinalityType
<1>2. \A d, e \in S : NameRank(e.kind) \in Nat /\ (NameRank(d.kind) = NameRank(e.kind) => d = e)
  BY NameRanks
<1>3. ASSUME NEW e \in S
      PROVE  /\ IsFiniteSet(below(e)) /\ Cardinality(below(e)) \in Nat
             /\ Cardinality(below(e)) < Cardinality(S)
  <2>1. below(e) \in SUBSET S /\ e \notin below(e)
    BY <1>2
  <2> HIDE DEF below
  <2>2. IsFiniteSet(below(e)) /\ Cardinality(below(e)) <= Cardinality(S) /\ below(e) # S
        /\ (Cardinality(S) = Cardinality(below(e)) => S = below(e))
    BY <2>1, FS_Subset
  <2>3. Cardinality(below(e)) \in Nat
    BY <2>2, FS_CardinalityType
  <2> QED BY <1>1, <2>2, <2>3
<1>4. ASSUME NEW d \in S, NEW e \in S, NameRank(d.kind) < NameRank(e.kind)
      PROVE  Cardinality(below(d)) < Cardinality(below(e))
  <2>1. below(d) \in SUBSET below(e) /\ d \notin below(d) /\ d \in below(e)
    BY <1>2, <1>4
  <2>2. IsFiniteSet(below(e)) /\ Cardinality(below(d)) \in Nat /\ Cardinality(below(e)) \in Nat
    BY <1>3
  <2> HIDE DEF below
  <2>3. Cardinality(below(d)) <= Cardinality(below(e))
        /\ (Cardinality(below(e)) = Cardinality(below(d)) => below(e) = below(d))
    BY <2>1, <2>2, FS_Subset
  <2> QED BY <2>1, <2>2, <2>3
<1>5. \A e \in S : Before(S, e) = Cardinality(below(e))
  BY DEF Before
<1> HIDE DEF below
<1>6. \A e \in S : Before(S, e) + 1 \in 1..Cardinality(S)
  BY <1>1, <1>3, <1>5
<1>7. ASSUME NEW d \in S, NEW e \in S, Before(S, d) = Before(S, e) PROVE d = e
  <2>1. ~(NameRank(d.kind) < NameRank(e.kind)) /\ ~(NameRank(e.kind) < NameRank(d.kind))
    BY <1>3, <1>4, <1>5, <1>7
  <2>2. NameRank(d.kind) = NameRank(e.kind)
    BY <1>2, <2>1
  <2> QED BY <1>2, <2>2
<1>8. ASSUME NEW i \in 1..Cardinality(S) PROVE \E e \in S : Before(S, e) = i - 1
  <2> DEFINE f == [e \in S |-> Before(S, e) + 1]
  <2>1. f \in [S -> 1..Cardinality(S)]
    BY <1>6
  <2>2. \A d, e \in S : f[d] = f[e] => d = e
    <3>1. ASSUME NEW d \in S, NEW e \in S, f[d] = f[e] PROVE Before(S, d) = Before(S, e)
      <4>1. Before(S, d) + 1 = Before(S, e) + 1
        BY <3>1
      <4> QED BY <1>3, <1>5, <4>1
    <3> QED BY <1>7, <3>1
  <2> HIDE DEF f
  <2>3. f \in Injection(S, 1..Cardinality(S))
    BY <2>1, <2>2, Fun_IsInj
  <2>4. IsFiniteSet(1..Cardinality(S)) /\ Cardinality(1..Cardinality(S)) = Cardinality(S)
    BY <1>1, FS_Interval
  <2>5. f \in Surjection(S, 1..Cardinality(S))
    BY <2>3, <2>4, FS_Injection
  <2>6. PICK e \in S : f[e] = i
    BY <2>5, Zenon DEF Surjection
  <2>7. Before(S, e) + 1 = i
    BY <2>6 DEF f
  <2> QED BY <1>3, <1>5, <2>7
<1> QED BY <1>6, <1>7, <1>8

\* Sorting loses nothing and adds nothing.
LEMMA SortedProperties ==
    ASSUME NEW S, NEW s \in Seq(S), Named(s)
    PROVE  /\ Sorted(s) \in Seq(ToSet(s)) /\ Len(Sorted(s)) = Len(s)
           /\ ToSet(Sorted(s)) = ToSet(s)
<1> DEFINE T == ToSet(s)
           pick(i) == CHOOSE e \in T : Before(T, e) = i - 1
<1>1. Len(s) \in Nat /\ DOMAIN s = 1..Len(s)
  BY LenProperties
<1>2. /\ IsFiniteSet(T) /\ Cardinality(T) = Len(s)
      /\ \A d, e \in T : d.kind = e.kind => d = e
  BY LengthOfNamed DEF Named
<1>3. \A e \in T : e.kind \in Capabilities
  BY DEF Named, ToSet
<1>4. Sorted(s) = [i \in 1..Len(s) |-> pick(i)]
  BY DEF Sorted
<1> HIDE DEF T
<1>5. /\ \A e \in T : Before(T, e) + 1 \in 1..Len(s)
      /\ \A d, e \in T : Before(T, d) = Before(T, e) => d = e
      /\ \A i \in 1..Len(s) : \E e \in T : Before(T, e) = i - 1
  BY <1>2, <1>3, BeforeCounts
<1>6. \A i \in 1..Len(s) : pick(i) \in T /\ Before(T, pick(i)) = i - 1
  BY <1>5, Zenon
<1>7. ASSUME NEW e \in T PROVE \E i \in 1..Len(s) : pick(i) = e
  <2>1. PICK i \in 1..Len(s) : i = Before(T, e) + 1
    BY <1>5
  <2>2. Before(T, e) \in Nat /\ Before(T, pick(i)) = i - 1 /\ pick(i) \in T
    <3>1. T \in SUBSET T /\ {d \in T : NameRank(d.kind) < NameRank(e.kind)} \in SUBSET T
      OBVIOUS
    <3>2. IsFiniteSet({d \in T : NameRank(d.kind) < NameRank(e.kind)})
      BY <1>2, <3>1, FS_Subset
    <3> QED BY <1>6, <3>2, FS_CardinalityType DEF Before
  <2>3. Before(T, pick(i)) = Before(T, e)
    BY <2>1, <2>2
  <2> QED BY <1>5, <2>2, <2>3
<1> HIDE DEF pick
<1>8. Sorted(s) \in [1..Len(s) -> T]
  BY <1>4, <1>6
<1>9. Sorted(s) \in Seq(T) /\ Len(Sorted(s)) = Len(s)
  BY <1>1, <1>8
<1>10. ToSet(Sorted(s)) = T
  BY <1>4, <1>6, <1>7 DEF ToSet
<1> QED BY <1>9, <1>10 DEF T

\* Two lists of the same entries are sorted alike, and only those.
LEMMA SortedByContent ==
    ASSUME NEW S, NEW s \in Seq(S), NEW t \in Seq(S), Named(s), Named(t)
    PROVE  Sorted(s) = Sorted(t) <=> ToSet(s) = ToSet(t)
<1>1. ASSUME ToSet(s) = ToSet(t) PROVE Sorted(s) = Sorted(t)
  <2>1. Len(s) = Len(t)
    BY <1>1, LengthOfNamed DEF Named
  <2> QED BY <1>1, <2>1 DEF Sorted
<1>2. ASSUME Sorted(s) = Sorted(t) PROVE ToSet(s) = ToSet(t)
  BY <1>2, SortedProperties
<1> QED BY <1>1, <1>2

\* What Collected is meant to be, for the first n entries.
CollectedUpTo(entries, codes, fine, n, issues) ==
    issues = [i \in 0..n |->
                IF i = 0 THEN <<>>
                ELSE IF codes[i] \in fine THEN issues[i - 1]
                ELSE Append(issues[i - 1], Issue(entries[i], codes[i]))]

\* The recursive function exists, for a list of any length.
LEMMA CollectedExists ==
    ASSUME NEW entries, NEW codes, NEW fine, NEW n \in Nat
    PROVE  \E issues : CollectedUpTo(entries, codes, fine, n, issues)
<1> DEFINE without == {k \in Nat : ~\E issues : CollectedUpTo(entries, codes, fine, k, issues)}
           step(last, i) == IF codes[i] \in fine THEN last ELSE Append(last, Issue(entries[i], codes[i]))
<1>0. ASSUME NEW k, NEW issues
      PROVE  CollectedUpTo(entries, codes, fine, k, issues) <=>
                 issues = [i \in 0..k |-> IF i = 0 THEN <<>> ELSE step(issues[i - 1], i)]
  BY DEF CollectedUpTo
<1> HIDE DEF step
<1>1. SUFFICES ASSUME without # {} PROVE FALSE
  OBVIOUS
<1>2. PICK m \in without : \A k \in without : m <= k
  <2>1. without \in SUBSET Nat
    OBVIOUS
  <2> HIDE DEF without
  <2> QED BY <1>1, <2>1, LeastNumber
<1>3. m \in Nat /\ ~\E issues : CollectedUpTo(entries, codes, fine, m, issues)
  BY <1>2
<1>4. m # 0
  <2>1. SUFFICES ASSUME m = 0 PROVE \E issues : CollectedUpTo(entries, codes, fine, m, issues)
    BY <1>3
  <2> DEFINE first == [i \in 0..0 |-> <<>>]
  <2>2. first = [i \in 0..0 |-> IF i = 0 THEN <<>> ELSE step(first[i - 1], i)]
    OBVIOUS
  <2> QED BY <1>0, <2>1, <2>2
<1>5. m - 1 \in Nat /\ m - 1 \notin without
  BY <1>2, <1>3, <1>4
<1>6. PICK before : CollectedUpTo(entries, codes, fine, m - 1, before)
  BY <1>5
<1> DEFINE after == [i \in 0..m |-> IF i <= m - 1 THEN before[i] ELSE step(before[m - 1], m)]
<1>7. ASSUME NEW i \in 0..m PROVE after[i] = IF i = 0 THEN <<>> ELSE step(after[i - 1], i)
  <2>1. before = [k \in 0..(m - 1) |-> IF k = 0 THEN <<>> ELSE step(before[k - 1], k)]
    BY <1>0, <1>6
  <2>2. CASE i = 0
    <3>1. i \in 0..(m - 1) /\ i <= m - 1
      BY <1>3, <1>4, <2>2
    <3> QED BY <2>1, <2>2, <3>1
  <2>3. CASE i # 0 /\ i <= m - 1
    <3>1. i \in 0..(m - 1) /\ i - 1 \in 0..m /\ i - 1 <= m - 1
      BY <1>3, <2>3
    <3>2. after[i] = before[i] /\ after[i - 1] = before[i - 1]
      BY <2>3, <3>1
    <3>3. before[i] = step(before[i - 1], i)
      BY <2>1, <2>3, <3>1
    <3> QED BY <2>3, <3>2, <3>3
  <2>4. CASE i = m
    <3>1. m - 1 \in 0..m /\ m - 1 <= m - 1 /\ ~(m <= m - 1)
      BY <1>3, <1>4
    <3>2. after[i] = step(before[m - 1], m) /\ after[m - 1] = before[m - 1]
      BY <2>4, <3>1
    <3> HIDE DEF after
    <3> QED BY <1>4, <2>4, <3>2
  <2> QED BY <1>3, <2>2, <2>3, <2>4
<1>8. after = [i \in 0..m |-> IF i = 0 THEN <<>> ELSE step(after[i - 1], i)]
  <2>1. after = [i \in 0..m |-> after[i]]
    OBVIOUS
  <2> HIDE DEF after
  <2> QED BY <1>7, <2>1
<1> HIDE DEF after
<1> QED BY <1>0, <1>3, <1>8

\* The first n entries that are not fine.
Faulty(entries, codes, fine, n) == {k \in 1..n : codes[k] \notin fine}

\* The loop reports every entry that is not fine, with its code, once.
LEMMA CollectedProperties ==
    ASSUME NEW entries \in Seq(Entries), Named(entries), NEW codes, NEW fine
    PROVE  LET issues == Collected(entries, codes, fine)
           IN  /\ issues \in Seq({Issue(entries[k], codes[k]) : k \in 1..Len(entries)})
               /\ ToSet(issues) = {Issue(entries[k], codes[k]) : k \in Faulty(entries, codes, fine, Len(entries))}
               /\ Named(issues)
<1> DEFINE all == {Issue(entries[k], codes[k]) : k \in 1..Len(entries)}
           goodTo(f, n) ==
               /\ f[n] \in Seq(all) /\ Named(f[n])
               /\ ToSet(f[n]) = {Issue(entries[k], codes[k]) : k \in Faulty(entries, codes, fine, n)}
<1>1. Len(entries) \in Nat /\ DOMAIN entries = 1..Len(entries)
  BY LenProperties
<1>2. PICK f : /\ f = [i \in 0..Len(entries) |->
                         IF i = 0 THEN <<>>
                         ELSE IF codes[i] \in fine THEN f[i - 1]
                         ELSE Append(f[i - 1], Issue(entries[i], codes[i]))]
               /\ Collected(entries, codes, fine) = f[Len(entries)]
  <2> DEFINE f == CHOOSE f : CollectedUpTo(entries, codes, fine, Len(entries), f)
  <2>1. CollectedUpTo(entries, codes, fine, Len(entries), f)
    BY <1>1, CollectedExists
  <2>2. Collected(entries, codes, fine) = f[Len(entries)]
    BY DEF Collected, CollectedUpTo
  <2> HIDE DEF f
  <2> QED BY <2>1, <2>2 DEF CollectedUpTo
<1> DEFINE wrong == {n \in 0..Len(entries) : ~goodTo(f, n)}
<1>3. goodTo(f, 0)
  <2>1. f[0] = <<>>
    BY <1>1, <1>2
  <2>2. Faulty(entries, codes, fine, 0) = {}
    BY DEF Faulty
  <2>3. <<>> \in Seq(all) /\ ToSet(<<>>) = {} /\ Named(<<>>)
    BY EmptySeq DEF ToSet, Named, Distinct, KindsOf
  <2> QED BY <2>1, <2>2, <2>3
<1>4. ASSUME NEW n \in 1..Len(entries), goodTo(f, n - 1) PROVE goodTo(f, n)
  <2> DEFINE last == f[n - 1]
             issue == Issue(entries[n], codes[n])
  <2>1. f[n] = IF codes[n] \in fine THEN last ELSE Append(last, issue)
    <3>1. n \in 0..Len(entries) /\ n # 0
      BY <1>1
    <3> QED BY <1>2, <3>1, Zenon
  <2>2. CASE codes[n] \in fine
    <3>1. Faulty(entries, codes, fine, n) = Faulty(entries, codes, fine, n - 1)
      BY <2>2 DEF Faulty
    <3>2. f[n] = f[n - 1]
      BY <2>1, <2>2
    <3> QED BY <1>4, <3>1, <3>2
  <2>3. CASE codes[n] \notin fine
    <3>1. Faulty(entries, codes, fine, n) = Faulty(entries, codes, fine, n - 1) \cup {n}
      BY <2>3 DEF Faulty
    <3>2. last \in Seq(all) /\ Named(last)
          /\ ToSet(last) = {Issue(entries[k], codes[k]) : k \in Faulty(entries, codes, fine, n - 1)}
      BY <1>4
    <3>3. issue \in all
      OBVIOUS
    <3> HIDE DEF last, issue, all
    <3>4. /\ f[n] \in Seq(all) /\ Len(f[n]) = Len(last) + 1 /\ Len(last) \in Nat
          /\ \A i \in 1..Len(last) : f[n][i] = last[i]
          /\ f[n][Len(last) + 1] = issue
      BY <2>1, <2>3, <3>2, <3>3, AppendProperties, LenProperties
    <3>5. DOMAIN f[n] = 1..(Len(last) + 1) /\ DOMAIN last = 1..Len(last)
      BY <3>2, <3>4, LenProperties
    <3>6. ToSet(f[n]) = ToSet(last) \cup {issue}
      <4>1. \A i \in DOMAIN f[n] : i \in DOMAIN last \/ i = Len(last) + 1
        BY <3>4, <3>5
      <4>2. DOMAIN last \subseteq DOMAIN f[n] /\ Len(last) + 1 \in DOMAIN f[n]
        BY <3>4, <3>5
      <4> QED BY <3>4, <3>5, <4>1, <4>2 DEF ToSet
    <3>7. ToSet(f[n]) = {Issue(entries[k], codes[k]) : k \in Faulty(entries, codes, fine, n)}
      BY <3>1, <3>2, <3>6 DEF issue
    <3>8. issue.kind = entries[n].kind /\ entries[n].kind \in Capabilities
      BY <1>1 DEF issue, Issue, Named
    <3>9. ASSUME NEW i \in 1..Len(last) PROVE last[i].kind # issue.kind
      <4>1. last[i] \in ToSet(last)
        BY <3>5 DEF ToSet
      <4>2. PICK k \in 1..(n - 1) : last[i] = Issue(entries[k], codes[k])
        BY <3>2, <4>1 DEF Faulty
      <4>3. last[i].kind = entries[k].kind
        BY <4>2 DEF Issue
      <4>4. k \in DOMAIN entries /\ n \in DOMAIN entries /\ k # n
        BY <1>1
      <4>5. entries[k].kind # entries[n].kind
        BY <4>4 DEF Named, Distinct, KindsOf
      <4> QED BY <3>8, <4>3, <4>5
    <3>10. Named(f[n])
      <4>1. \A i, j \in DOMAIN last : i # j => last[i].kind # last[j].kind
        BY <3>2 DEF Named, Distinct, KindsOf
      <4>2. \A i \in DOMAIN last : last[i].kind \in Capabilities
        BY <3>2 DEF Named
      <4>3. ASSUME NEW i \in DOMAIN f[n]
            PROVE  (i \in DOMAIN last /\ f[n][i] = last[i]) \/ (i = Len(last) + 1 /\ f[n][i] = issue)
        <5>1. CASE i \in 1..Len(last)
          BY <3>4, <3>5, <5>1
        <5>2. CASE i = Len(last) + 1
          BY <3>4, <5>2
        <5> QED BY <3>4, <3>5, <5>1, <5>2
      <4>4. \A i \in DOMAIN f[n] : f[n][i].kind \in Capabilities
        BY <3>8, <4>2, <4>3
      <4>5. \A i, j \in DOMAIN f[n] : i # j => f[n][i].kind # f[n][j].kind
        BY <3>5, <3>9, <4>1, <4>3
      <4> QED BY <4>4, <4>5 DEF Named, Distinct, KindsOf
    <3> QED BY <3>4, <3>7, <3>10
  <2> QED BY <2>2, <2>3
<1>5. goodTo(f, Len(entries))
  <2> HIDE DEF goodTo
  <2>1. SUFFICES ASSUME wrong # {} PROVE FALSE
    BY <1>1
  <2>2. wrong \in SUBSET Nat
    BY <1>1
  <2>3. PICK m \in wrong : \A k \in wrong : m <= k
    <3> HIDE DEF wrong
    <3> QED BY <2>1, <2>2, LeastNumber
  <2>4. m \in 1..Len(entries) /\ ~goodTo(f, m)
    BY <1>1, <1>3, <2>3
  <2>5. m - 1 \in 0..Len(entries) /\ ~(m <= m - 1)
    BY <1>1, <2>4
  <2>6. goodTo(f, m - 1)
    BY <2>3, <2>5
  <2> QED BY <1>4, <2>4, <2>6
<1> QED BY <1>2, <1>5

\* A selected capability has no issue exactly when it is there.
LEMMA NoneMeansAvailable ==
    ASSUME NEW entry, NEW providers, NEW policy, NEW at \in Nat, validateProviders(providers),
           policy.enabled \in BOOLEAN,
           \A i \in DOMAIN providers : providers[i].expires \in Nat
    PROVE  evaluateCapability(entry, providerByID(providers), policy, at) = "NONE"
               <=> Available(entry, providers, policy, at)
<1> DEFINE byID == providerByID(providers)
           code == evaluateCapability(entry, byID, policy, at)
           p == byID[entry.provider]
<1>1. entry.provider \in DOMAIN byID <=> \E i \in DOMAIN providers : providers[i].provider = entry.provider
  BY DEF providerByID, ToSet
<1>2. ASSUME entry.provider \in DOMAIN byID
      PROVE  \E i \in DOMAIN providers : providers[i] = p /\ p.provider = entry.provider
  <2>1. \E q \in ToSet(providers) : q.provider = entry.provider
    BY <1>1, <1>2 DEF ToSet
  <2>2. p = CHOOSE q \in ToSet(providers) : q.provider = entry.provider
    BY <1>2 DEF providerByID
  <2>3. p \in ToSet(providers) /\ p.provider = entry.provider
    BY <2>1, <2>2
  <2> QED BY <2>3 DEF ToSet
<1>3. \A i, j \in DOMAIN providers : providers[i].provider = providers[j].provider => i = j
  BY DEF validateProviders, Distinct
<1>4. \A i \in DOMAIN providers : providers[i].health \in {"HEALTHY", "UNHEALTHY"}
  BY DEF validateProviders
<1> HIDE DEF byID
<1>5. requiresEnrollment \subseteq isBiometric
  BY DEF isBiometric
<1>6. CASE entry.provider \notin DOMAIN byID
  <2>1. code = "UNAVAILABLE"
    <3> DEFINE absent == entry.provider \notin DOMAIN byID
    <3>1. absent
      BY <1>6
    <3>2. code = IF absent THEN "UNAVAILABLE" ELSE code
      BY <3>1, <1>6, Zenon DEF evaluateCapability
    <3> QED BY <3>1, <3>2
  <2> HIDE DEF code
  <2>2. code # "NONE" /\ ~Available(entry, providers, policy, at)
    BY <1>1, <1>6, <2>1 DEF Available
  <2> QED BY <2>2 DEF code, byID
<1>7. CASE entry.provider \in DOMAIN byID
  <2>1. PICK i \in DOMAIN providers : providers[i] = p /\ p.provider = entry.provider
    BY <1>2, <1>7
  <2>2. p.health \in {"HEALTHY", "UNHEALTHY"} /\ p.expires \in Nat
    BY <1>4, <2>1
  <2>3. \A j \in DOMAIN providers : providers[j].provider = entry.provider => providers[j] = p
    BY <1>3, <2>1
  <2>4. Available(entry, providers, policy, at) <=>
            /\ entry.kind \in ToSet(p.capabilities) /\ p.health = "HEALTHY" /\ at < p.expires
            /\ entry.kind \in isBiometric => policy.enabled /\ entry.kind \in ToSet(policy.authorized)
            /\ entry.kind \in requiresEnrollment => entry.kind \in ToSet(policy.enrolled)
    BY <2>1, <2>3, Zenon DEF Available
  <2>5. (p.health = "UNHEALTHY" <=> p.health # "HEALTHY") /\ (at >= p.expires <=> ~(at < p.expires))
    BY <2>2
  <2> HIDE DEF p
  <2>6. code = IF entry.kind \notin ToSet(p.capabilities) THEN "CAPABILITY_MISSING"
               ELSE IF p.health = "UNHEALTHY" THEN "UNAVAILABLE"
               ELSE IF at >= p.expires THEN "DEADLINE_EXCEEDED"
               ELSE IF entry.kind \notin isBiometric THEN "NONE"
               ELSE IF ~policy.enabled THEN "POLICY_BLOCKED"
               ELSE IF entry.kind \notin ToSet(policy.authorized) THEN "PERMISSION_DENIED"
               ELSE IF entry.kind \in requiresEnrollment /\ entry.kind \notin ToSet(policy.enrolled)
                    THEN "POLICY_BLOCKED"
               ELSE "NONE"
    BY <1>7 DEF evaluateCapability, p
  <2> HIDE DEF code
  <2> DEFINE able == entry.kind \in ToSet(p.capabilities)
             sick == p.health = "UNHEALTHY"
             ended == at >= p.expires
             bio == entry.kind \in isBiometric
             may == entry.kind \in ToSet(policy.authorized)
             asks == entry.kind \in requiresEnrollment
             has == entry.kind \in ToSet(policy.enrolled)
  <2>7. code = "NONE" <=>
            /\ able /\ ~sick /\ ~ended
            /\ bio => policy.enabled /\ may /\ (asks => has)
    <3>1. code = IF ~able THEN "CAPABILITY_MISSING"
                 ELSE IF sick THEN "UNAVAILABLE"
                 ELSE IF ended THEN "DEADLINE_EXCEEDED"
                 ELSE IF ~bio THEN "NONE"
                 ELSE IF ~policy.enabled THEN "POLICY_BLOCKED"
                 ELSE IF ~may THEN "PERMISSION_DENIED"
                 ELSE IF asks /\ ~has THEN "POLICY_BLOCKED"
                 ELSE "NONE"
      BY <2>6
    <3> HIDE DEF able, sick, ended, bio, may, asks, has
    <3>2. policy.enabled = TRUE \/ policy.enabled = FALSE
      OBVIOUS
    <3>3. CASE policy.enabled = TRUE
      BY <3>1, <3>3
    <3>4. CASE policy.enabled = FALSE
      BY <3>1, <3>4
    <3> QED BY <3>2, <3>3, <3>4
  <2>8. (~sick <=> p.health = "HEALTHY") /\ (~ended <=> at < p.expires) /\ (asks => bio)
    BY <1>5, <2>5
  <2>9. Available(entry, providers, policy, at) <=>
            /\ able /\ p.health = "HEALTHY" /\ at < p.expires
            /\ bio => policy.enabled /\ may
            /\ asks => has
    BY <2>4
  <2> HIDE DEF able, sick, ended, bio, may, asks, has
  <2>10. code = "NONE" <=> Available(entry, providers, policy, at)
    BY <2>7, <2>8, <2>9, Zenon
  <2> QED BY <2>10 DEF code, byID
<1> QED BY <1>6, <1>7

\* An issue without its code is the entry it is about.
Subject(issue) == [kind |-> issue.kind, provider |-> issue.provider, fallback |-> issue.fallback]

\* The code of an issue says nothing about which entry it is about.
LEMMA SubjectOfIssue ==
    ASSUME NEW e \in Entries, NEW code
    PROVE  Subject(Issue(e, code)) = e /\ Issue(e, code).kind = e.kind
BY DEF Subject, Issue, Entries

\* The issues of a list name exactly what is missing of it.
LEMMA IssuesAreMissing ==
    ASSUME NEW entries \in Seq(Entries), Named(entries),
           NEW providers, NEW policy, NEW at \in Nat, validateProviders(providers),
           policy.enabled \in BOOLEAN,
           \A i \in DOMAIN providers : providers[i].expires \in Nat
    PROVE  LET issues == IssuesOf(entries, providers, policy, at)
               missing == Missing(entries, providers, policy, at)
           IN  /\ issues \in Seq(ToSet(issues)) /\ Named(issues)
               /\ {Subject(issue) : issue \in ToSet(issues)} = missing
               /\ \A issue \in ToSet(issues) : Subject(issue).kind = issue.kind
               /\ issues = <<>> <=> missing = {}
<1> DEFINE codes == Codes(entries, providers, policy, at)
           issues == IssuesOf(entries, providers, policy, at)
           missing == Missing(entries, providers, policy, at)
           faulty == Faulty(entries, codes, {"NONE"}, Len(entries))
<1>1. Len(entries) \in Nat /\ DOMAIN entries = 1..Len(entries)
      /\ \A k \in 1..Len(entries) : entries[k] \in Entries
  BY LenProperties, ElementOfSeq
<1>2. /\ issues \in Seq({Issue(entries[k], codes[k]) : k \in 1..Len(entries)})
      /\ ToSet(issues) = {Issue(entries[k], codes[k]) : k \in faulty}
      /\ Named(issues)
  <2>1. issues = Collected(entries, codes, {"NONE"})
    BY DEF IssuesOf
  <2> HIDE DEF issues, codes
  <2> QED BY <2>1, CollectedProperties, Zenon
<1>3. ASSUME NEW k \in 1..Len(entries)
      PROVE  codes[k] = "NONE" <=> Available(entries[k], providers, policy, at)
  <2>1. codes[k] = evaluateCapability(entries[k], providerByID(providers), policy, at)
    BY <1>1 DEF Codes
  <2> QED BY <2>1, NoneMeansAvailable
<1>4. \A k \in 1..Len(entries) : Subject(Issue(entries[k], codes[k])) = entries[k]
                                 /\ Issue(entries[k], codes[k]).kind = entries[k].kind
  BY <1>1, SubjectOfIssue
<1>5. missing = {entries[k] : k \in faulty}
  <2> HIDE DEF codes
  <2> QED BY <1>1, <1>3 DEF Missing, Faulty, ToSet
<1>6. faulty \subseteq 1..Len(entries)
  BY DEF Faulty
<1> HIDE DEF codes, issues, missing, faulty
<1>7. {Subject(issue) : issue \in ToSet(issues)} = missing
  BY <1>2, <1>4, <1>5, <1>6
<1>8. \A issue \in ToSet(issues) : Subject(issue).kind = issue.kind
  BY <1>2, <1>4, <1>6
<1>9. issues \in Seq(ToSet(issues)) /\ (issues = <<>> <=> ToSet(issues) = {})
  <2>1. Len(issues) \in Nat /\ DOMAIN issues = 1..Len(issues) /\ issues = [i \in 1..Len(issues) |-> issues[i]]
    BY <1>2, LenProperties
  <2>2. issues \in Seq(ToSet(issues))
    BY <2>1 DEF ToSet
  <2>3. ASSUME Len(issues) # 0 PROVE ToSet(issues) # {}
    <3>1. 1 \in DOMAIN issues
      BY <2>1, <2>3
    <3>2. issues[1] \in ToSet(issues)
      BY <3>1, Zenon DEF ToSet
    <3> QED BY <3>2
  <2>4. ToSet(<<>>) = {}
    BY DEF ToSet
  <2> QED BY <1>2, <2>2, <2>3, <2>4, EmptySeq
<1>10. missing = {} <=> ToSet(issues) = {}
  BY <1>7
<1> QED BY <1>2, <1>7, <1>8, <1>9, <1>10 DEF issues, missing

\* What is in one list or the other, and where.
LEMMA Joined ==
    ASSUME NEW S, NEW s \in Seq(S), NEW t \in Seq(S)
    PROVE  /\ s \o t \in Seq(S)
           /\ DOMAIN (s \o t) = 1..(Len(s) + Len(t)) /\ DOMAIN s = 1..Len(s) /\ DOMAIN t = 1..Len(t)
           /\ Len(s) \in Nat /\ Len(t) \in Nat
           /\ \A i \in DOMAIN s : i \in DOMAIN (s \o t) /\ (s \o t)[i] = s[i]
           /\ \A j \in DOMAIN t : Len(s) + j \in DOMAIN (s \o t) /\ (s \o t)[Len(s) + j] = t[j]
           /\ \A k \in DOMAIN (s \o t) : k \in DOMAIN s \/ \E j \in DOMAIN t : k = Len(s) + j
           /\ ToSet(s \o t) = ToSet(s) \cup ToSet(t)
<1> DEFINE u == s \o t
<1>1. /\ u \in Seq(S) /\ Len(u) = Len(s) + Len(t)
      /\ \A i \in 1..(Len(s) + Len(t)) : u[i] = IF i <= Len(s) THEN s[i] ELSE t[i - Len(s)]
  BY ConcatProperties
<1>2. Len(s) \in Nat /\ Len(t) \in Nat /\ DOMAIN s = 1..Len(s) /\ DOMAIN t = 1..Len(t)
  BY LenProperties
<1> HIDE DEF u
<1>3. DOMAIN u = 1..(Len(s) + Len(t))
  BY <1>1, LenProperties
<1>4. \A i \in DOMAIN s : i \in DOMAIN u /\ u[i] = s[i]
  BY <1>1, <1>2, <1>3
<1>5. ASSUME NEW j \in DOMAIN t PROVE Len(s) + j \in DOMAIN u /\ u[Len(s) + j] = t[j]
  <2>1. PICK k : k = Len(s) + j
    OBVIOUS
  <2>2. k \in 1..(Len(s) + Len(t)) /\ ~(k <= Len(s)) /\ k - Len(s) = j
    BY <1>2, <2>1
  <2>3. u[k] = t[j]
    BY <1>1, <2>2
  <2> QED BY <1>3, <2>1, <2>2, <2>3
<1>6. ASSUME NEW k \in DOMAIN u PROVE k \in DOMAIN s \/ \E j \in DOMAIN t : k = Len(s) + j
  <2>1. CASE k <= Len(s)
    BY <1>2, <1>3, <2>1
  <2>2. CASE ~(k <= Len(s))
    <3>1. k - Len(s) \in DOMAIN t /\ k = Len(s) + (k - Len(s))
      BY <1>2, <1>3, <2>2
    <3> QED BY <3>1
  <2> QED BY <2>1, <2>2
<1>7. ToSet(u) = ToSet(s) \cup ToSet(t)
  <2>1. ASSUME NEW x \in ToSet(u) PROVE x \in ToSet(s) \cup ToSet(t)
    <3>1. PICK k \in DOMAIN u : x = u[k]
      BY DEF ToSet
    <3>2. CASE k \in DOMAIN s
      BY <1>4, <3>1, <3>2 DEF ToSet
    <3>3. CASE \E j \in DOMAIN t : k = Len(s) + j
      BY <1>5, <3>1, <3>3 DEF ToSet
    <3> QED BY <1>6, <3>2, <3>3
  <2>2. ToSet(s) \subseteq ToSet(u)
    BY <1>4 DEF ToSet
  <2>3. ToSet(t) \subseteq ToSet(u)
    <3>1. ASSUME NEW j \in DOMAIN t PROVE t[j] \in ToSet(u)
      <4>1. PICK k \in DOMAIN u : u[k] = t[j]
        BY <1>5
      <4> QED BY <4>1, Zenon DEF ToSet
    <3> QED BY <3>1 DEF ToSet
  <2> QED BY <2>1, <2>2, <2>3
<1> QED BY <1>1, <1>2, <1>3, <1>4, <1>5, <1>6, <1>7 DEF u

\* Two lists of names without a common one make a list of names.
LEMMA JoinedNames ==
    ASSUME NEW S, NEW s \in Seq(S), NEW t \in Seq(S), Named(s), Named(t),
           \A d \in ToSet(s), e \in ToSet(t) : d.kind # e.kind
    PROVE  Named(s \o t)
<1> DEFINE u == s \o t
<1>1. /\ \A i \in DOMAIN s : i \in DOMAIN u /\ u[i] = s[i]
      /\ \A j \in DOMAIN t : Len(s) + j \in DOMAIN u /\ u[Len(s) + j] = t[j]
      /\ \A k \in DOMAIN u : k \in DOMAIN s \/ \E j \in DOMAIN t : k = Len(s) + j
  BY Joined
<1> HIDE DEF u
<1>2. ASSUME NEW k \in DOMAIN u
      PROVE  \/ k \in DOMAIN s /\ u[k] = s[k]
             \/ \E j \in DOMAIN t : k = Len(s) + j /\ u[k] = t[j]
  BY <1>1
<1>3. /\ \A i, j \in DOMAIN s : i # j => s[i].kind # s[j].kind
      /\ \A i, j \in DOMAIN t : i # j => t[i].kind # t[j].kind
      /\ \A i \in DOMAIN s : s[i].kind \in Capabilities
      /\ \A i \in DOMAIN t : t[i].kind \in Capabilities
  BY DEF Named, Distinct, KindsOf
<1>4. \A i \in DOMAIN s, j \in DOMAIN t : s[i].kind # t[j].kind
  BY DEF ToSet
<1>5. \A k \in DOMAIN u : u[k].kind \in Capabilities
  BY <1>2, <1>3
<1>6. ASSUME NEW k \in DOMAIN u, NEW l \in DOMAIN u, k # l PROVE u[k].kind # u[l].kind
  <2>1. CASE k \in DOMAIN s /\ u[k] = s[k]
    <3>1. CASE l \in DOMAIN s /\ u[l] = s[l]
      BY <1>3, <1>6, <2>1, <3>1
    <3>2. CASE \E j \in DOMAIN t : l = Len(s) + j /\ u[l] = t[j]
      BY <1>4, <2>1, <3>2
    <3> QED BY <1>2, <3>1, <3>2
  <2>2. CASE \E j \in DOMAIN t : k = Len(s) + j /\ u[k] = t[j]
    <3>1. CASE l \in DOMAIN s /\ u[l] = s[l]
      BY <1>4, <2>2, <3>1
    <3>2. CASE \E j \in DOMAIN t : l = Len(s) + j /\ u[l] = t[j]
      BY <1>3, <1>6, <2>2, <3>2
    <3> QED BY <1>2, <3>1, <3>2
  <2> QED BY <1>2, <2>1, <2>2
<1> QED BY <1>5, <1>6 DEF Named, Distinct, KindsOf, u

\* The lists of a valid scenario have names, none in both.
LEMMA ScenarioNames ==
    ASSUME NEW s, s.required \in Seq(Entries), s.optional \in Seq(Entries),
           validateSelections(s.required \o s.optional)
    PROVE  /\ Named(s.required) /\ Named(s.optional)
           /\ \A d \in ToSet(s.required), e \in ToSet(s.optional) : d.kind # e.kind
<1>1. PICK r : r = s.required
  OBVIOUS
<1>2. PICK o : o = s.optional
  OBVIOUS
<1> DEFINE u == r \o o
<1>3. r \in Seq(Entries) /\ o \in Seq(Entries)
  BY <1>1, <1>2
<1>4. /\ \A i \in DOMAIN r : i \in DOMAIN u /\ u[i] = r[i]
      /\ \A j \in DOMAIN o : Len(r) + j \in DOMAIN u /\ u[Len(r) + j] = o[j]
      /\ DOMAIN r = 1..Len(r) /\ DOMAIN o = 1..Len(o) /\ Len(r) \in Nat /\ Len(o) \in Nat
  BY <1>3, Joined
<1>5. Distinct(KindsOf(u)) /\ \A k \in DOMAIN u : u[k].kind \in Capabilities
  BY <1>1, <1>2 DEF validateSelections
<1> HIDE DEF u
<1>6. \A k, l \in DOMAIN u : k # l => u[k].kind # u[l].kind
  BY <1>5 DEF Distinct, KindsOf
<1>7. /\ \A i, j \in DOMAIN r : i # j => r[i].kind # r[j].kind
      /\ \A i \in DOMAIN r : r[i].kind \in Capabilities
  BY <1>4, <1>5, <1>6
<1>8. ASSUME NEW i \in DOMAIN o, NEW j \in DOMAIN o, i # j PROVE o[i].kind # o[j].kind
  <2>1. Len(r) + i # Len(r) + j
    BY <1>4, <1>8
  <2> QED BY <1>4, <1>6, <2>1
<1>9. \A j \in DOMAIN o : o[j].kind \in Capabilities
  BY <1>4, <1>5
<1>10. ASSUME NEW i \in DOMAIN r, NEW j \in DOMAIN o PROVE r[i].kind # o[j].kind
  <2>1. i # Len(r) + j
    BY <1>4
  <2> QED BY <1>4, <1>6, <2>1
<1>11. Named(r) /\ Named(o)
  BY <1>7, <1>8, <1>9 DEF Named, Distinct, KindsOf
<1>12. \A d \in ToSet(r), e \in ToSet(o) : d.kind # e.kind
  BY <1>10 DEF ToSet
<1> QED BY <1>1, <1>2, <1>11, <1>12

\* Sorted issues are as many as what they are about.
LEMMA SortedIssues ==
    ASSUME NEW S, NEW s \in Seq(S), Named(s),
           \A issue \in ToSet(s) : Subject(issue).kind = issue.kind
    PROVE  LET about == {Subject(issue) : issue \in ToSet(s)}
           IN  /\ Len(Sorted(s)) = Cardinality(about)
               /\ {Subject(issue) : issue \in ToSet(Sorted(s))} = about
               /\ Sorted(s) = <<>> <=> about = {}
<1> DEFINE T == ToSet(s)
           about == {Subject(issue) : issue \in T}
           f == [issue \in T |-> Subject(issue)]
<1>1. Sorted(s) \in Seq(T) /\ Len(Sorted(s)) = Len(s) /\ ToSet(Sorted(s)) = T
  BY SortedProperties
<1>2. IsFiniteSet(T) /\ Cardinality(T) = Len(s) /\ \A d, e \in T : d.kind = e.kind => d = e
  BY LengthOfNamed DEF Named
<1>3. \A d, e \in T : Subject(d) = Subject(e) => d = e
  <2>1. ASSUME NEW d \in T, NEW e \in T, Subject(d) = Subject(e) PROVE d.kind = e.kind
    <3>1. Subject(d).kind = d.kind /\ Subject(e).kind = e.kind
      OBVIOUS
    <3> HIDE DEF T
    <3> QED BY <2>1, <3>1
  <2> QED BY <1>2, <2>1
<1> HIDE DEF T
<1>4. f \in [T -> about] /\ (\A d, e \in T : f[d] = f[e] => d = e) /\ \A x \in about : \E e \in T : f[e] = x
  BY <1>3
<1> HIDE DEF f
<1>5. f \in Bijection(T, about)
  BY <1>4, Fun_IsBij
<1>6. ExistsBijection(T, about)
  BY <1>5, Zenon DEF ExistsBijection
<1>7. IsFiniteSet(about) /\ Cardinality(about) = Cardinality(T)
  BY <1>2, <1>6, FS_Bijection
<1>8. Sorted(s) = <<>> <=> Len(Sorted(s)) = 0
  BY <1>1, EmptySeq
<1>9. about = {} <=> Cardinality(about) = 0
  BY <1>7, FS_EmptySet
<1> QED BY <1>1, <1>2, <1>7, <1>8, <1>9 DEF T

\* A valid scenario is judged by what is missing of it.
LEMMA EvaluationIsRight ==
    ASSUME NEW s, s.required \in Seq(Entries), s.optional \in Seq(Entries), ValidateScenario(s),
           NEW providers, NEW policy, NEW at \in Nat, validateProviders(providers),
           validateBiometricPolicy(policy), policy.enabled \in BOOLEAN,
           \A i \in DOMAIN providers : providers[i].expires \in Nat
    PROVE  LET result == EvaluateAt(s, providers, policy, at)
               required == Missing(s.required, providers, policy, at)
               optional == Missing(s.optional, providers, policy, at)
           IN  /\ result.status = CASE required # {} -> "BLOCKED"
                                    [] required = {} /\ optional # {} -> "DEGRADED"
                                    [] OTHER -> "READY"
               /\ Len(result.issues) = Cardinality(required \cup optional)
               /\ {Subject(issue) : issue \in ToSet(result.issues)} = required \cup optional
<1> DEFINE blocking == IssuesOf(s.required, providers, policy, at)
           degrading == IssuesOf(s.optional, providers, policy, at)
           required == Missing(s.required, providers, policy, at)
           optional == Missing(s.optional, providers, policy, at)
           joined == blocking \o degrading
           issues == Sorted(joined)
           result == EvaluateAt(s, providers, policy, at)
<1>1. /\ Named(s.required) /\ Named(s.optional)
      /\ \A d \in ToSet(s.required), e \in ToSet(s.optional) : d.kind # e.kind
  BY ScenarioNames DEF ValidateScenario
<1>2. /\ blocking \in Seq(ToSet(blocking)) /\ Named(blocking)
      /\ {Subject(issue) : issue \in ToSet(blocking)} = required
      /\ \A issue \in ToSet(blocking) : Subject(issue).kind = issue.kind
      /\ blocking = <<>> <=> required = {}
  BY <1>1, IssuesAreMissing
<1>3. /\ degrading \in Seq(ToSet(degrading)) /\ Named(degrading)
      /\ {Subject(issue) : issue \in ToSet(degrading)} = optional
      /\ \A issue \in ToSet(degrading) : Subject(issue).kind = issue.kind
  BY <1>1, IssuesAreMissing
<1>4. required \subseteq ToSet(s.required) /\ optional \subseteq ToSet(s.optional)
  BY DEF Missing
<1>5. result = [status |-> CASE blocking # <<>> -> "BLOCKED"
                             [] blocking = <<>> /\ issues # <<>> -> "DEGRADED"
                             [] OTHER -> "READY",
                issues |-> issues]
  BY DEF EvaluateAt
<1> HIDE DEF blocking, degrading, required, optional, result
<1> DEFINE all == ToSet(blocking) \cup ToSet(degrading)
<1>6. blocking \in Seq(all) /\ degrading \in Seq(all)
  <2>1. ASSUME NEW S, NEW T, S \subseteq T, NEW q \in Seq(S) PROVE q \in Seq(T)
    BY <2>1
  <2> QED BY <1>2, <1>3, <2>1, Zenon
<1>7. ASSUME NEW d \in ToSet(blocking), NEW e \in ToSet(degrading) PROVE d.kind # e.kind
  <2>1. Subject(d) \in required /\ Subject(e) \in optional
    BY <1>2, <1>3
  <2>2. Subject(d).kind # Subject(e).kind
    BY <1>1, <1>4, <2>1
  <2> QED BY <1>2, <1>3, <2>2
<1> HIDE DEF all
<1>8. joined \in Seq(all) /\ ToSet(joined) = ToSet(blocking) \cup ToSet(degrading)
  BY <1>6, Joined
<1>9. Named(joined)
  BY <1>2, <1>3, <1>6, <1>7, JoinedNames
<1>10. {Subject(issue) : issue \in ToSet(joined)} = required \cup optional
       /\ \A issue \in ToSet(joined) : Subject(issue).kind = issue.kind
  BY <1>2, <1>3, <1>8
<1> HIDE DEF joined
<1>11. /\ Len(issues) = Cardinality(required \cup optional)
       /\ {Subject(issue) : issue \in ToSet(issues)} = required \cup optional
       /\ issues = <<>> <=> required \cup optional = {}
  BY <1>8, <1>9, <1>10, SortedIssues
<1> HIDE DEF issues
<1>12. result.issues = issues /\ result.status = CASE blocking # <<>> -> "BLOCKED"
                             [] blocking = <<>> /\ issues # <<>> -> "DEGRADED"
                             [] OTHER -> "READY"
  BY <1>5
<1>13. result.status = CASE required # {} -> "BLOCKED"
                         [] required = {} /\ optional # {} -> "DEGRADED"
                         [] OTHER -> "READY"
  <2>1. CASE required # {}
    BY <1>2, <1>12, <2>1
  <2>2. CASE required = {} /\ optional # {}
    BY <1>2, <1>11, <1>12, <2>2
  <2>3. CASE required = {} /\ optional = {}
    BY <1>2, <1>11, <1>12, <2>3
  <2> QED BY <2>1, <2>2, <2>3
<1> QED BY <1>11, <1>12, <1>13 DEF required, optional, result

\* Every case that is evaluated at all is evaluated as the reference says.
LEMMA EvaluateAtIsRight == EvaluateAtMeetsReference
<1>1. SUFFICES ASSUME NEW c \in Cases, EvaluateAt(c.scenario, c.providers, c.policy, c.now) # Invalid
               PROVE  LET result == EvaluateAt(c.scenario, c.providers, c.policy, c.now)
                          required == Missing(c.scenario.required, c.providers, c.policy, c.now)
                          optional == Missing(c.scenario.optional, c.providers, c.policy, c.now)
                      IN  /\ result.status = CASE required # {} -> "BLOCKED"
                                               [] required = {} /\ optional # {} -> "DEGRADED"
                                               [] OTHER -> "READY"
                          /\ Len(result.issues) = Cardinality(required \cup optional)
                          /\ {Subject(issue) : issue \in ToSet(result.issues)} = required \cup optional
  BY Zenon DEF EvaluateAtMeetsReference, Subject
<1>2. PICK s, providers, policy, at :
          s = c.scenario /\ providers = c.providers /\ policy = c.policy /\ at = c.now
  OBVIOUS
<1>3. /\ s.required \in Seq(Entries) /\ s.optional \in Seq(Entries)
      /\ at \in Nat /\ policy.enabled \in BOOLEAN
      /\ \A i \in DOMAIN providers : providers[i].expires \in Nat
  BY <1>2, ReadinessAssumption
<1>4. ValidateScenario(s) /\ validateProviders(providers) /\ validateBiometricPolicy(policy)
  BY <1>1, <1>2, Zenon DEF EvaluateAt
<1>5. LET result == EvaluateAt(s, providers, policy, at)
          required == Missing(s.required, providers, policy, at)
          optional == Missing(s.optional, providers, policy, at)
      IN  /\ result.status = CASE required # {} -> "BLOCKED"
                               [] required = {} /\ optional # {} -> "DEGRADED"
                               [] OTHER -> "READY"
          /\ Len(result.issues) = Cardinality(required \cup optional)
          /\ {Subject(issue) : issue \in ToSet(result.issues)} = required \cup optional
  BY <1>3, <1>4, EvaluationIsRight
<1> QED BY <1>2, <1>5

\* Two accepted manifests have one hash exactly when they declare the same.
LEMMA HashIsRight == HashNamesDeclaration
<1>1. ASSUME NEW m \in Manifests, Load(m).accepted
      PROVE  /\ m.schema = "v1"
             /\ Named(m.scenario.required) /\ Named(m.scenario.optional)
             /\ Load(m).hash = <<m.schema, m.scenario.id, m.scenario.version,
                                 Sorted(m.scenario.required), Sorted(m.scenario.optional)>>
  <2> DEFINE s == [id |-> m.scenario.id, required |-> m.scenario.required, optional |-> m.scenario.optional]
             fine == /\ m.documents = 1 /\ m.strict
                     /\ m.schema = "v1"
                     /\ m.scenario.version # ""
                     /\ mapRequirements(m.scenario)
                     /\ ValidateScenario(s)
             loaded == [accepted |-> TRUE, version |-> m.scenario.version,
                        requirements |-> normalizeRequirements(s),
                        hash |-> hashCanonical(m.schema, m.scenario.version, normalizeRequirements(s))]
  <2>1. Load(m) = IF fine THEN loaded ELSE Refused
    BY DEF Load
  <2>2. ~Refused.accepted
    BY DEF Refused
  <2> HIDE DEF fine, loaded
  <2>3. fine /\ Load(m) = loaded
    BY <1>1, <2>1, <2>2
  <2>4. validateSelections(m.scenario.required \o m.scenario.optional)
    BY <2>3 DEF fine, ValidateScenario
  <2>5. Named(m.scenario.required) /\ Named(m.scenario.optional)
    BY <2>4, ReadinessAssumption, ScenarioNames
  <2>6. loaded.hash = hashCanonical(m.schema, m.scenario.version, normalizeRequirements(s))
    BY DEF loaded
  <2>7. ASSUME NEW i, NEW r, NEW o, NEW sr, NEW so
        PROVE  LET t == [[id |-> i, required |-> r, optional |-> o] EXCEPT !.required = sr, !.optional = so]
               IN  t.id = i /\ t.required = sr /\ t.optional = so
    OBVIOUS
  <2>8. s.required = m.scenario.required /\ s.optional = m.scenario.optional
    OBVIOUS
  <2>9. normalizeRequirements(s)
          = [[id |-> m.scenario.id, required |-> m.scenario.required, optional |-> m.scenario.optional]
                EXCEPT !.required = Sorted(m.scenario.required), !.optional = Sorted(m.scenario.optional)]
    BY <2>8, Zenon DEF normalizeRequirements
  <2> HIDE DEF s
  <2> DEFINE normal == normalizeRequirements(s)
  <2>10. /\ normal.id = m.scenario.id /\ normal.required = Sorted(m.scenario.required)
         /\ normal.optional = Sorted(m.scenario.optional)
    BY <2>7, <2>9, Zenon
  <2> HIDE DEF normal
  <2>11. hashCanonical(m.schema, m.scenario.version, normal)
           = <<m.schema, m.scenario.id, m.scenario.version,
               Sorted(m.scenario.required), Sorted(m.scenario.optional)>>
    BY <2>10, Zenon DEF hashCanonical
  <2>12. Load(m).hash = hashCanonical(m.schema, m.scenario.version, normal)
    BY <2>3, <2>6 DEF normal
  <2>13. m.schema = "v1"
    BY <2>3 DEF fine
  <2> QED BY <2>5, <2>11, <2>12, <2>13
<1>2. SUFFICES ASSUME NEW m \in Manifests, NEW n \in Manifests, Load(m).accepted, Load(n).accepted
               PROVE  Load(m).hash = Load(n).hash <=> SameDeclaration(m, n)
  BY DEF HashNamesDeclaration
<1>3. /\ m.scenario.required \in Seq(Entries) /\ m.scenario.optional \in Seq(Entries)
      /\ n.scenario.required \in Seq(Entries) /\ n.scenario.optional \in Seq(Entries)
  BY ReadinessAssumption
<1>4. /\ Named(m.scenario.required) /\ Named(m.scenario.optional)
      /\ Named(n.scenario.required) /\ Named(n.scenario.optional)
  BY <1>1, <1>2
<1>5. /\ Sorted(m.scenario.required) = Sorted(n.scenario.required)
             <=> ToSet(m.scenario.required) = ToSet(n.scenario.required)
      /\ Sorted(m.scenario.optional) = Sorted(n.scenario.optional)
             <=> ToSet(m.scenario.optional) = ToSet(n.scenario.optional)
  BY <1>3, <1>4, SortedByContent
<1>6. Load(m).hash = Load(n).hash <=>
          /\ m.schema = n.schema /\ m.scenario.id = n.scenario.id /\ m.scenario.version = n.scenario.version
          /\ Sorted(m.scenario.required) = Sorted(n.scenario.required)
          /\ Sorted(m.scenario.optional) = Sorted(n.scenario.optional)
  BY <1>1, <1>2
<1> QED BY <1>5, <1>6 DEF SameDeclaration

\* The scenario is loaded and judged correctly, for any manifests and any cases.
THEOREM SpeechReadinessIsCorrect == Spec => []ReadinessIsCorrect
<1>1. ReadinessIsCorrect
  BY EvaluateAtIsRight, HashIsRight DEF ReadinessIsCorrect
<1> QED BY <1>1, PTL
=============================================================================
