-------------------------- MODULE DesktopAppProofs --------------------------
(***************************************************************************)
(* Proofs about DesktopApp, for any workers and any number of requests in  *)
(* progress: the parts stop in the order of their dependencies, a Build    *)
(* that fails leaves nothing behind, and neither does run.                 *)
(***************************************************************************)
EXTENDS DesktopApp, SequenceTheorems, TLAPS

Building == {"build", "built", "failed"}
Joining  == {"joinServer", "joinWorkers", "joinTransport", "joinRunner", "returned"}
Results  == {"closed", "canceled", "failed", "ok"}

\* Where main is and what a part may be.
AppTypeOK ==
    /\ pc \in Building \cup {"select", "shutdown"} \cup Joining
    /\ part \in [Parts -> {"idle", "running"} \cup Results]

\* Nothing runs before run has started it.
NothingBeforeRun == pc \in Building => part = [p \in Parts |-> "idle"] /\ finished = {}

\* run cancels one part after the other.
CancelledInOrder ==
    /\ pc \in Building \cup {"select"} => cancelled = {}
    /\ pc \in {"shutdown", "joinServer"} => cancelled = {"server"}
    /\ pc = "joinWorkers" => cancelled = {"server", "workers"}
    /\ pc = "joinTransport" => cancelled = {"server", "workers", "transport"}

\* run has joined a part before it cancels the next, and what it has received
\* from the select is the result of a part that ended.
JoinedInOrder ==
    /\ finished \subseteq {p \in Parts : part[p] # "running"}
    /\ pc \in {"joinWorkers", "joinTransport", "joinRunner", "returned"} => part["server"] # "running"
    /\ pc \in {"joinTransport", "joinRunner", "returned"} => part["workers"] # "running"
    /\ pc \in {"joinRunner", "returned"} => part["transport"] # "running"
    /\ pc = "returned" => part["runner"] # "running"

\* A supervisor that has ended has joined its children.
ChildrenHaveSupervisor == part["workers"] # "running" => children = {}

\* Once Shutdown has returned no request is left, or it gave up.
RequestsAreDone == pc \in Joining => handlers = {} \/ timedOut

\* The inductive invariant.
AppInv ==
    /\ AppTypeOK /\ NothingBeforeRun /\ CancelledInOrder /\ JoinedInOrder
    /\ ChildrenHaveSupervisor /\ RequestsAreDone

-----------------------------------------------------------------------------

\* The program starts in a state of the invariant.
LEMMA AppInit == Init => AppInv
<1> SUFFICES ASSUME Init PROVE AppInv
  OBVIOUS
<1>1. AppTypeOK /\ NothingBeforeRun
  BY DEF Init, AppTypeOK, NothingBeforeRun, Building
<1>2. CancelledInOrder /\ JoinedInOrder /\ ChildrenHaveSupervisor /\ RequestsAreDone
  BY DEF Init, CancelledInOrder, JoinedInOrder, ChildrenHaveSupervisor, RequestsAreDone, Building, Joining
<1> QED BY <1>1, <1>2 DEF AppInv

\* Building, starting and signalling.
LEMMA MainInv ==
    ASSUME AppInv, BuildStep \/ BuildFails \/ Start \/ SignalArrives
    PROVE  AppInv'
<1>1. CASE BuildStep \/ BuildFails
  <2>1. /\ pc \in Building /\ pc' \in Building /\ UNCHANGED runVars
    BY <1>1 DEF BuildStep, BuildFails, Building
  <2> QED BY <2>1 DEF runVars, AppInv, AppTypeOK, NothingBeforeRun, CancelledInOrder, JoinedInOrder,
                      ChildrenHaveSupervisor, RequestsAreDone, Building, Joining
<1>2. CASE Start
  <2>1. AppTypeOK' /\ NothingBeforeRun'
    BY <1>2 DEF Start, AppTypeOK, NothingBeforeRun, Building
  <2>2. finished = {}
    BY <1>2 DEF Start, AppInv, NothingBeforeRun, Building
  <2> QED
    BY <1>2, <2>1, <2>2 DEF Start, AppInv, CancelledInOrder, JoinedInOrder, ChildrenHaveSupervisor,
                            RequestsAreDone, Building, Joining, Parts
<1>3. CASE SignalArrives
  BY <1>3 DEF SignalArrives, runVars, AppInv, AppTypeOK, NothingBeforeRun, CancelledInOrder, JoinedInOrder,
              ChildrenHaveSupervisor, RequestsAreDone
<1> QED BY <1>1, <1>2, <1>3

\* The parts end.
LEMMA PartInv ==
    ASSUME AppInv,
           \/ ServerFails \/ ServerStops
           \/ \E result \in {"canceled", "failed"} : RunnerEnds(result)
           \/ \E result \in {"ok", "canceled", "failed"} : SupervisorEnds(result)
           \/ \E result \in {"ok", "failed"} : TransportEnds(result)
    PROVE  AppInv'
<1>1. PICK p \in Parts, result \in Results :
          /\ part[p] = "running" /\ part' = [part EXCEPT ![p] = result]
          /\ children' = children \/ children' = {}
          /\ p = "workers" => children' = {}
  BY DEF ServerFails, ServerStops, RunnerEnds, SupervisorEnds, TransportEnds, Ends, Parts, Results
<1>2. UNCHANGED <<pc, cancelled, finished, handlers, timedOut>>
  BY DEF ServerFails, ServerStops, RunnerEnds, SupervisorEnds, TransportEnds
<1>3. part \in [Parts -> {"idle", "running"} \cup Results] /\ pc \notin Building
  <2>1. part \in [Parts -> {"idle", "running"} \cup Results]
    BY DEF AppInv, AppTypeOK
  <2> QED BY <1>1, <2>1 DEF AppInv, NothingBeforeRun
<1>4. /\ part' \in [Parts -> {"idle", "running"} \cup Results]
      /\ \A q \in Parts : part'[q] = "running" => part[q] = "running"
  BY <1>1, <1>3 DEF Results
<1>5. AppTypeOK' /\ NothingBeforeRun'
  BY <1>2, <1>3, <1>4 DEF AppInv, AppTypeOK, NothingBeforeRun
<1>6. CancelledInOrder' /\ RequestsAreDone'
  BY <1>2 DEF AppInv, CancelledInOrder, RequestsAreDone
<1>7. JoinedInOrder'
  BY <1>2, <1>4 DEF AppInv, JoinedInOrder, Parts
<1>8. ChildrenHaveSupervisor'
  BY <1>1, <1>3 DEF AppInv, ChildrenHaveSupervisor, Parts
<1> QED BY <1>5, <1>6, <1>7, <1>8 DEF AppInv

\* Requests come and go, workers start and exit.
LEMMA RequestInv ==
    ASSUME AppInv,
           \/ \E h \in Handlers : Request(h) \/ HandlerReturns(h)
           \/ \E w \in Workers : WorkerStarts(w) \/ WorkerExits(w)
    PROVE  AppInv'
<1>1. UNCHANGED <<pc, part, cancelled, finished, timedOut>>
  BY DEF Request, HandlerReturns, WorkerStarts, WorkerExits
<1>2. AppTypeOK' /\ NothingBeforeRun' /\ CancelledInOrder' /\ JoinedInOrder'
  BY <1>1 DEF AppInv, AppTypeOK, NothingBeforeRun, CancelledInOrder, JoinedInOrder
<1>3. ChildrenHaveSupervisor'
  BY <1>1 DEF AppInv, ChildrenHaveSupervisor, Request, HandlerReturns, WorkerStarts, WorkerExits
<1>4. RequestsAreDone'
  <2>1. pc \in Joining => part["server"] # "running" \/ "server" \in cancelled
    BY DEF AppInv, CancelledInOrder, JoinedInOrder, Joining
  <2> QED BY <1>1, <2>1 DEF AppInv, RequestsAreDone, Request, HandlerReturns, WorkerStarts, WorkerExits
<1> QED BY <1>2, <1>3, <1>4 DEF AppInv

\* The select, Shutdown and the joins.
LEMMA RunInv ==
    ASSUME AppInv, Run
    PROVE  AppInv'
<1>1. UNCHANGED <<part, handlers, children>>
  BY DEF Run, Woken, ShutdownReturns, ShutdownTimesOut, JoinServer, JoinWorkers, JoinTransport, JoinRunner,
         JoinThenCancel, RunUnchanged
<1>2. ChildrenHaveSupervisor'
  BY <1>1 DEF AppInv, ChildrenHaveSupervisor
<1>3. CASE Woken \/ ShutdownReturns \/ ShutdownTimesOut
  <2>1. AppTypeOK' /\ NothingBeforeRun' /\ CancelledInOrder'
    BY <1>1, <1>3 DEF Woken, ShutdownReturns, ShutdownTimesOut, AppInv, AppTypeOK, NothingBeforeRun,
                      CancelledInOrder, Building, Joining
  <2>2. JoinedInOrder'
    BY <1>1, <1>3 DEF Woken, ShutdownReturns, ShutdownTimesOut, AppInv, JoinedInOrder
  <2>3. RequestsAreDone'
    BY <1>1, <1>3 DEF Woken, ShutdownReturns, ShutdownTimesOut, RequestsAreDone, Joining
  <2> QED BY <1>2, <2>1, <2>2, <2>3 DEF AppInv
<1>4. CASE JoinServer \/ JoinWorkers \/ JoinTransport \/ JoinRunner
  <2>1. AppTypeOK' /\ NothingBeforeRun' /\ CancelledInOrder'
    BY <1>1, <1>4 DEF JoinServer, JoinWorkers, JoinTransport, JoinRunner, JoinThenCancel, AppInv, AppTypeOK,
                      NothingBeforeRun, CancelledInOrder, Building, Joining
  <2>2. JoinedInOrder'
    BY <1>1, <1>4 DEF JoinServer, JoinWorkers, JoinTransport, JoinRunner, JoinThenCancel, AppInv,
                      JoinedInOrder, Parts
  <2>3. RequestsAreDone'
    BY <1>1, <1>4 DEF JoinServer, JoinWorkers, JoinTransport, JoinRunner, JoinThenCancel, AppInv,
                      RequestsAreDone, Joining
  <2> QED BY <1>2, <2>1, <2>2, <2>3 DEF AppInv
<1> QED BY <1>3, <1>4 DEF Run

\* The inductive invariant of the program: what is cancelled and what has been
\* joined at each point of App.run.
THEOREM AppInvariant == Spec => []AppInv
<1>1. AppInv /\ [Next]_vars => AppInv'
  <2> SUFFICES ASSUME AppInv, [Next]_vars PROVE AppInv'
    OBVIOUS
  <2>1. CASE BuildStep \/ BuildFails \/ Start \/ SignalArrives
    BY <2>1, MainInv
  <2>2. CASE Run
    BY <2>2, RunInv
  <2>3. CASE \/ \E h \in Handlers : Request(h) \/ HandlerReturns(h)
             \/ \E w \in Workers : WorkerStarts(w) \/ WorkerExits(w)
    BY <2>3, RequestInv
  <2>4. CASE \/ ServerFails \/ ServerStops
             \/ \E result \in {"canceled", "failed"} : RunnerEnds(result)
             \/ \E result \in {"ok", "canceled", "failed"} : SupervisorEnds(result)
             \/ \E result \in {"ok", "failed"} : TransportEnds(result)
    BY <2>4, PartInv
  <2>5. CASE UNCHANGED vars
    BY <2>5 DEF vars, runVars, AppInv, AppTypeOK, NothingBeforeRun, CancelledInOrder, JoinedInOrder,
                ChildrenHaveSupervisor, RequestsAreDone
  <2> QED BY <2>1, <2>2, <2>3, <2>4, <2>5 DEF Next
<1> QED BY <1>1, AppInit, PTL DEF Spec

\* The parts stop in the order of their dependencies: no worker is left without
\* its transport, and the runner is told to stop only when nothing can submit to
\* it any more, a request that outlived the shutdown timeout excepted.
THEOREM AppPartsStopInOrder == Spec => []PartsStopInOrder
<1>1. AppInv => PartsStopInOrder
  <2> SUFFICES ASSUME AppInv PROVE PartsStopInOrder
    OBVIOUS
  <2>1. "transport" \in cancelled => pc \in {"joinTransport", "joinRunner", "returned"}
    BY DEF AppInv, AppTypeOK, CancelledInOrder, Building, Joining
  <2>2. children # {} => "transport" \notin cancelled
    BY <2>1 DEF AppInv, JoinedInOrder, ChildrenHaveSupervisor
  <2>3. "runner" \in cancelled => pc \in {"joinRunner", "returned"}
    BY DEF AppInv, AppTypeOK, CancelledInOrder, Building, Joining
  <2>4. ASSUME pc \in {"joinRunner", "returned"}
        PROVE  /\ handlers = {} \/ timedOut
               /\ children = {}
               /\ \A p \in Parts \ {"runner"} : part[p] # "running"
    BY <2>4 DEF AppInv, JoinedInOrder, ChildrenHaveSupervisor, RequestsAreDone, Joining, Parts
  <2> QED BY <2>2, <2>3, <2>4 DEF PartsStopInOrder
<1> QED BY <1>1, AppInvariant, PTL

-----------------------------------------------------------------------------
(* What each step of Build does, in the order of Build                    *)

\* s is a sequence.
IsSeq(s) == \E S : s \in Seq(S)

\* Where the elements of a concatenation stand ...
LEMMA ConcatAt ==
    ASSUME NEW s, NEW t, IsSeq(s), IsSeq(t)
    PROVE  /\ IsSeq(s \o t)
           /\ Len(s \o t) = Len(s) + Len(t)
           /\ \A i \in 1..Len(s) : (s \o t)[i] = s[i]
           /\ \A i \in 1..Len(t) : (s \o t)[Len(s) + i] = t[i]
<1>1. PICK S : s \in Seq(S)
  BY DEF IsSeq
<1>2. PICK T : t \in Seq(T)
  BY DEF IsSeq
<1>3. s \in Seq(S \cup T) /\ t \in Seq(S \cup T)
  BY <1>1, <1>2
<1>4. s \o t \in Seq(S \cup T) /\ Len(s \o t) = Len(s) + Len(t)
  BY <1>3, ConcatProperties
<1>5. IsSeq(s \o t)
  BY <1>4 DEF IsSeq
<1> QED BY <1>3, <1>4, <1>5, ConcatProperties, LenProperties

\* The tuples the steps are written as are sequences.
LEMMA TupleIsSeq ==
    ASSUME NEW a, NEW b, NEW c, NEW d, NEW e
    PROVE  /\ IsSeq(<<a>>) /\ IsSeq(<<a, b>>) /\ IsSeq(<<a, b, c>>) /\ IsSeq(<<a, b, c, d, e>>)
<1>1. <<a>> \in Seq({a}) /\ <<a, b>> \in Seq({a, b}) /\ <<a, b, c>> \in Seq({a, b, c}) /\ <<a, b, c, d, e>> \in Seq({a, b, c, d, e})
  OBVIOUS
<1> QED BY <1>1 DEF IsSeq

\* ... the longest of them too.
LEMMA TupleIsSeq10 ==
    ASSUME NEW a, NEW b, NEW c, NEW d, NEW e, NEW f, NEW g, NEW h, NEW i, NEW j
    PROVE  IsSeq(<<a, b, c, d, e, f, g, h, i, j>>)
<1>1. <<a, b, c, d, e, f, g, h, i, j>> \in Seq({a, b, c, d, e, f, g, h, i, j})
  OBVIOUS
<1> QED BY <1>1 DEF IsSeq

\* What step s of Build takes, gives back, undoes when it fails and defers.
Does(s, takes, gives, undoes, defers) ==
    s.takes = takes /\ s.gives = gives /\ s.undoes = undoes /\ s.defers = defers

\* secureOpen holds the file once it has opened it, and closes it when it fails.
LEMMA SecureOpenSteps ==
    /\ IsSeq(secureOpen) /\ Len(secureOpen) = 3
    /\ Does(secureOpen[1], {}, {}, {}, {})
    /\ Does(secureOpen[2], {"file"}, {}, {}, {})
    /\ Does(secureOpen[3], {}, {}, {"file"}, {})
<1>1. IsSeq(secureOpen)
  BY TupleIsSeq DEF secureOpen
<1> QED BY <1>1 DEF Does, secureOpen, Plain, Takes

\* loadAsset gives the file back at its last step.
LEMMA LoadAssetSteps ==
    /\ IsSeq(loadAsset) /\ Len(loadAsset) = 5
    /\ Does(loadAsset[1], {}, {}, {}, {})
    /\ Does(loadAsset[2], {"file"}, {}, {}, {})
    /\ \A i \in 3..4 : Does(loadAsset[i], {}, {}, {"file"}, {})
    /\ Does(loadAsset[5], {}, {"file"}, {"file"}, {})
<1> DEFINE tail == <<Takes("size", {}, {}, {"file"}, {}), Takes("read", {}, {"file"}, {"file"}, {})>>
<1>1. IsSeq(tail)
  BY TupleIsSeq
<1>2. Len(tail) = 2 /\ Does(tail[1], {}, {}, {"file"}, {}) /\ Does(tail[2], {}, {"file"}, {"file"}, {})
  BY DEF Does, Takes
<1>3. loadAsset = secureOpen \o tail
  BY DEF loadAsset
<1> HIDE DEF tail
<1>4. /\ IsSeq(loadAsset)
      /\ Len(loadAsset) = Len(secureOpen) + Len(tail)
      /\ \A i \in 1..Len(secureOpen) : loadAsset[i] = secureOpen[i]
      /\ \A i \in 1..Len(tail) : loadAsset[Len(secureOpen) + i] = tail[i]
  <2>1. IsSeq(secureOpen)
    BY SecureOpenSteps
  <2> QED BY <1>1, <1>3, <2>1, ConcatAt
<1>5. /\ Len(loadAsset) = 5
      /\ \A i \in 1..3 : loadAsset[i] = secureOpen[i]
      /\ loadAsset[4] = tail[1] /\ loadAsset[5] = tail[2]
  <2>1. loadAsset[3 + 1] = tail[1] /\ loadAsset[3 + 2] = tail[2]
    BY <1>2, <1>4, SecureOpenSteps DEF Does
  <2> QED BY <1>2, <1>4, <2>1, SecureOpenSteps DEF Does
<1> QED BY <1>2, <1>4, <1>5, SecureOpenSteps DEF Does

\* ... and counted from the start of the whole.
LEMMA ConcatFrom ==
    ASSUME NEW s, NEW t, IsSeq(s), IsSeq(t)
    PROVE  /\ IsSeq(s \o t)
           /\ Len(s \o t) = Len(s) + Len(t)
           /\ \A i \in 1..Len(s) : (s \o t)[i] = s[i]
           /\ \A i \in (Len(s) + 1)..(Len(s) + Len(t)) : (s \o t)[i] = t[i - Len(s)]
<1>1. Len(s) \in Nat /\ Len(t) \in Nat
  BY LenProperties DEF IsSeq
<1>2. ASSUME NEW i \in (Len(s) + 1)..(Len(s) + Len(t)) PROVE (s \o t)[i] = t[i - Len(s)]
  <2>1. i - Len(s) \in 1..Len(t) /\ Len(s) + (i - Len(s)) = i
    BY <1>1
  <2>2. \A j \in 1..Len(t) : (s \o t)[Len(s) + j] = t[j]
    BY ConcatAt
  <2> QED BY <2>1, <2>2
<1> QED BY <1>2, ConcatAt

\* So does loadScenario.
LEMMA LoadScenarioSteps ==
    /\ IsSeq(loadScenario) /\ Len(loadScenario) = 4
    /\ Does(loadScenario[1], {}, {}, {}, {})
    /\ Does(loadScenario[2], {"file"}, {}, {}, {})
    /\ Does(loadScenario[3], {}, {}, {"file"}, {})
    /\ Does(loadScenario[4], {}, {"file"}, {"file"}, {})
<1> DEFINE tail == <<Takes("load", {}, {"file"}, {"file"}, {})>>
<1>1. IsSeq(tail)
  BY TupleIsSeq
<1>2. Len(tail) = 1 /\ Does(tail[1], {}, {"file"}, {"file"}, {})
  BY DEF Does, Takes
<1>3. loadScenario = secureOpen \o tail
  BY DEF loadScenario
<1> HIDE DEF tail
<1>4. /\ IsSeq(loadScenario)
      /\ Len(loadScenario) = Len(secureOpen) + Len(tail)
      /\ \A i \in 1..Len(secureOpen) : loadScenario[i] = secureOpen[i]
      /\ \A i \in (Len(secureOpen) + 1)..(Len(secureOpen) + Len(tail)) : loadScenario[i] = tail[i - Len(secureOpen)]
  <2>1. IsSeq(secureOpen)
    BY SecureOpenSteps
  <2> QED BY <1>1, <1>3, <2>1, ConcatFrom
<1>5. /\ Len(loadScenario) = 4
      /\ \A i \in 1..3 : loadScenario[i] = secureOpen[i]
      /\ loadScenario[4] = tail[1]
  BY <1>2, <1>4, SecureOpenSteps DEF Does
<1> QED BY <1>2, <1>4, <1>5, SecureOpenSteps DEF Does

\* The steps BuildSteps has no name for.
Listen == <<Takes("listen", {"listener"}, {}, {}, {"listener"})>>
Make   == <<Plain("token"), Plain("privacy file"), Plain("permissions"), Plain("registry"), Plain("tts"),
            Plain("driver"), Plain("engine"), Plain("runner"), Plain("activation"), Plain("ingress")>>
Serve  == <<Plain("supervisor"), Plain("authorizer"), Plain("service"), Plain("bridge"), Plain("panel")>>

\* The steps that take nothing.
LEMMA PlainSteps ==
    /\ IsSeq(Validate) /\ Len(Validate) = 5 /\ \A i \in 1..5 : Does(Validate[i], {}, {}, {}, {})
    /\ IsSeq(validateMedia) /\ Len(validateMedia) = 3 /\ \A i \in 1..3 : Does(validateMedia[i], {}, {}, {}, {})
    /\ IsSeq(Make) /\ Len(Make) = 10 /\ \A i \in 1..10 : Does(Make[i], {}, {}, {}, {})
    /\ IsSeq(Serve) /\ Len(Serve) = 5 /\ \A i \in 1..5 : Does(Serve[i], {}, {}, {}, {})
<1>1. IsSeq(Validate) /\ IsSeq(validateMedia) /\ IsSeq(Serve)
  BY TupleIsSeq DEF Validate, validateMedia, Serve
<1>2. IsSeq(Make)
  BY TupleIsSeq10 DEF Make
<1>3. Len(Validate) = 5 /\ \A i \in 1..5 : Does(Validate[i], {}, {}, {}, {})
  <2>1. /\ Does(Validate[1], {}, {}, {}, {})
        /\ Does(Validate[2], {}, {}, {}, {})
        /\ Does(Validate[3], {}, {}, {}, {})
        /\ Does(Validate[4], {}, {}, {}, {})
        /\ Does(Validate[5], {}, {}, {}, {})
    BY DEF Does, Validate, Plain, Takes
  <2>2. \A i \in 1..5 : i = 1 \/ i = 2 \/ i = 3 \/ i = 4 \/ i = 5
    OBVIOUS
  <2>3. Len(Validate) = 5
    BY DEF Validate
  <2> QED BY <2>1, <2>2, <2>3
<1>4. Len(validateMedia) = 3 /\ \A i \in 1..3 : Does(validateMedia[i], {}, {}, {}, {})
  <2>1. /\ Does(validateMedia[1], {}, {}, {}, {})
        /\ Does(validateMedia[2], {}, {}, {}, {})
        /\ Does(validateMedia[3], {}, {}, {}, {})
    BY DEF Does, validateMedia, Plain, Takes
  <2>2. \A i \in 1..3 : i = 1 \/ i = 2 \/ i = 3
    OBVIOUS
  <2>3. Len(validateMedia) = 3
    BY DEF validateMedia
  <2> QED BY <2>1, <2>2, <2>3
<1>5. Len(Make) = 10 /\ \A i \in 1..10 : Does(Make[i], {}, {}, {}, {})
  <2>1. /\ Does(Make[1], {}, {}, {}, {})
        /\ Does(Make[2], {}, {}, {}, {})
        /\ Does(Make[3], {}, {}, {}, {})
        /\ Does(Make[4], {}, {}, {}, {})
        /\ Does(Make[5], {}, {}, {}, {})
        /\ Does(Make[6], {}, {}, {}, {})
        /\ Does(Make[7], {}, {}, {}, {})
        /\ Does(Make[8], {}, {}, {}, {})
        /\ Does(Make[9], {}, {}, {}, {})
        /\ Does(Make[10], {}, {}, {}, {})
    BY DEF Does, Make, Plain, Takes
  <2>2. \A i \in 1..10 : i = 1 \/ i = 2 \/ i = 3 \/ i = 4 \/ i = 5 \/ i = 6 \/ i = 7 \/ i = 8 \/ i = 9 \/ i = 10
    OBVIOUS
  <2>3. Len(Make) = 10
    BY DEF Make
  <2> QED BY <2>1, <2>2, <2>3
<1>6. Len(Serve) = 5 /\ \A i \in 1..5 : Does(Serve[i], {}, {}, {}, {})
  <2>1. /\ Does(Serve[1], {}, {}, {}, {})
        /\ Does(Serve[2], {}, {}, {}, {})
        /\ Does(Serve[3], {}, {}, {}, {})
        /\ Does(Serve[4], {}, {}, {}, {})
        /\ Does(Serve[5], {}, {}, {}, {})
    BY DEF Does, Serve, Plain, Takes
  <2>2. \A i \in 1..5 : i = 1 \/ i = 2 \/ i = 3 \/ i = 4 \/ i = 5
    OBVIOUS
  <2>3. Len(Serve) = 5
    BY DEF Serve
  <2> QED BY <2>1, <2>2, <2>3
<1> QED BY <1>1, <1>2, <1>3, <1>4, <1>5, <1>6

\* The listener, and the socket of the private transport.
LEMMA ListeningSteps ==
    /\ IsSeq(Listen) /\ Len(Listen) = 1
    /\ Does(Listen[1], {"listener"}, {}, {}, {"listener"})
    /\ IsSeq(NewTransport) /\ Len(NewTransport) = 5
    /\ Does(NewTransport[1], {}, {}, {}, {})
    /\ Does(NewTransport[2], {"directory"}, {}, {}, {})
    /\ Does(NewTransport[3], {}, {}, {"directory"}, {})
    /\ Does(NewTransport[4], {"socket", "unixListener"}, {}, {"directory"}, {})
    /\ Does(NewTransport[5], {}, {}, {"unixListener", "socket", "directory"}, {"unixListener", "socket", "directory"})
<1>1. IsSeq(Listen) /\ IsSeq(NewTransport)
  BY TupleIsSeq DEF Listen, NewTransport
<1>2. Len(Listen) = 1 /\ Does(Listen[1], {"listener"}, {}, {}, {"listener"})
  BY DEF Does, Listen, Takes
<1>3. Len(NewTransport) = 5
  BY DEF NewTransport
<1>4. /\ Does(NewTransport[1], {}, {}, {}, {})
      /\ Does(NewTransport[2], {"directory"}, {}, {}, {})
      /\ Does(NewTransport[3], {}, {}, {"directory"}, {})
  BY DEF Does, NewTransport, Plain, Takes
<1>5. /\ Does(NewTransport[4], {"socket", "unixListener"}, {}, {"directory"}, {})
      /\ Does(NewTransport[5], {}, {}, {"unixListener", "socket", "directory"}, {"unixListener", "socket", "directory"})
  BY DEF Does, NewTransport, Plain, Takes
<1> QED BY <1>1, <1>2, <1>3, <1>4, <1>5


\* Where the steps of each function stand in the sequence Build goes through.
LEMMA BuildOrder ==
    /\ Len(BuildSteps) = 43
    /\ \A i \in 1..5 : BuildSteps[i] = Validate[i]
    /\ \A i \in 6..10 : BuildSteps[i] = loadAsset[i - 5]
    /\ \A i \in 11..15 : BuildSteps[i] = loadAsset[i - 10]
    /\ \A i \in 16..19 : BuildSteps[i] = loadScenario[i - 15]
    /\ \A i \in 20..22 : BuildSteps[i] = validateMedia[i - 19]
    /\ \A i \in 23..23 : BuildSteps[i] = Listen[i - 22]
    /\ \A i \in 24..33 : BuildSteps[i] = Make[i - 23]
    /\ \A i \in 34..38 : BuildSteps[i] = NewTransport[i - 33]
    /\ \A i \in 39..43 : BuildSteps[i] = Serve[i - 38]
<1> DEFINE b1 == Validate \o loadAsset
<1> DEFINE b2 == b1 \o loadAsset
<1> DEFINE b3 == b2 \o loadScenario
<1> DEFINE b4 == b3 \o validateMedia
<1> DEFINE b5 == b4 \o Listen
<1> DEFINE b6 == b5 \o Make
<1> DEFINE b7 == b6 \o NewTransport
<1> DEFINE b8 == b7 \o Serve
<1>1. BuildSteps = b8
  BY DEF BuildSteps, Listen, Make, Serve
<1> HIDE DEF b1, b2, b3, b4, b5, b6, b7, b8
<1>2. /\ IsSeq(b1) /\ Len(b1) = 10
      /\ \A i \in 1..5 : b1[i] = Validate[i]
      /\ \A i \in 6..10 : b1[i] = loadAsset[i - 5]
  <2>1. IsSeq(Validate) /\ IsSeq(loadAsset)
    BY PlainSteps, LoadAssetSteps
  <2>2. b1 = Validate \o loadAsset
    BY DEF b1
  <2>3. /\ IsSeq(b1) /\ Len(b1) = Len(Validate) + Len(loadAsset)
        /\ \A i \in 1..Len(Validate) : b1[i] = Validate[i]
        /\ \A i \in (Len(Validate) + 1)..(Len(Validate) + Len(loadAsset)) : b1[i] = loadAsset[i - Len(Validate)]
    BY <2>1, <2>2, ConcatFrom
  <2>4. Len(Validate) = 5 /\ Len(loadAsset) = 5
    BY PlainSteps, LoadAssetSteps
  <2>5. /\ Len(b1) = 10
        /\ \A i \in 1..5 : b1[i] = Validate[i]
        /\ \A i \in 6..10 : b1[i] = loadAsset[i - 5]
    BY <2>3, <2>4
  <2> QED BY <2>3, <2>5
<1>3. /\ IsSeq(b2) /\ Len(b2) = 15
      /\ \A i \in 1..10 : b2[i] = b1[i]
      /\ \A i \in 11..15 : b2[i] = loadAsset[i - 10]
  <2>1. IsSeq(b1) /\ IsSeq(loadAsset)
    BY <1>2, LoadAssetSteps
  <2>2. b2 = b1 \o loadAsset
    BY DEF b2
  <2>3. /\ IsSeq(b2) /\ Len(b2) = Len(b1) + Len(loadAsset)
        /\ \A i \in 1..Len(b1) : b2[i] = b1[i]
        /\ \A i \in (Len(b1) + 1)..(Len(b1) + Len(loadAsset)) : b2[i] = loadAsset[i - Len(b1)]
    BY <2>1, <2>2, ConcatFrom
  <2>4. Len(b1) = 10 /\ Len(loadAsset) = 5
    BY <1>2, LoadAssetSteps
  <2>5. /\ Len(b2) = 15
        /\ \A i \in 1..10 : b2[i] = b1[i]
        /\ \A i \in 11..15 : b2[i] = loadAsset[i - 10]
    BY <2>3, <2>4
  <2> QED BY <2>3, <2>5
<1>4. /\ IsSeq(b3) /\ Len(b3) = 19
      /\ \A i \in 1..15 : b3[i] = b2[i]
      /\ \A i \in 16..19 : b3[i] = loadScenario[i - 15]
  <2>1. IsSeq(b2) /\ IsSeq(loadScenario)
    BY <1>3, LoadScenarioSteps
  <2>2. b3 = b2 \o loadScenario
    BY DEF b3
  <2>3. /\ IsSeq(b3) /\ Len(b3) = Len(b2) + Len(loadScenario)
        /\ \A i \in 1..Len(b2) : b3[i] = b2[i]
        /\ \A i \in (Len(b2) + 1)..(Len(b2) + Len(loadScenario)) : b3[i] = loadScenario[i - Len(b2)]
    BY <2>1, <2>2, ConcatFrom
  <2>4. Len(b2) = 15 /\ Len(loadScenario) = 4
    BY <1>3, LoadScenarioSteps
  <2>5. /\ Len(b3) = 19
        /\ \A i \in 1..15 : b3[i] = b2[i]
        /\ \A i \in 16..19 : b3[i] = loadScenario[i - 15]
    BY <2>3, <2>4
  <2> QED BY <2>3, <2>5
<1>5. /\ IsSeq(b4) /\ Len(b4) = 22
      /\ \A i \in 1..19 : b4[i] = b3[i]
      /\ \A i \in 20..22 : b4[i] = validateMedia[i - 19]
  <2>1. IsSeq(b3) /\ IsSeq(validateMedia)
    BY <1>4, PlainSteps
  <2>2. b4 = b3 \o validateMedia
    BY DEF b4
  <2>3. /\ IsSeq(b4) /\ Len(b4) = Len(b3) + Len(validateMedia)
        /\ \A i \in 1..Len(b3) : b4[i] = b3[i]
        /\ \A i \in (Len(b3) + 1)..(Len(b3) + Len(validateMedia)) : b4[i] = validateMedia[i - Len(b3)]
    BY <2>1, <2>2, ConcatFrom
  <2>4. Len(b3) = 19 /\ Len(validateMedia) = 3
    BY <1>4, PlainSteps
  <2>5. /\ Len(b4) = 22
        /\ \A i \in 1..19 : b4[i] = b3[i]
        /\ \A i \in 20..22 : b4[i] = validateMedia[i - 19]
    BY <2>3, <2>4
  <2> QED BY <2>3, <2>5
<1>6. /\ IsSeq(b5) /\ Len(b5) = 23
      /\ \A i \in 1..22 : b5[i] = b4[i]
      /\ \A i \in 23..23 : b5[i] = Listen[i - 22]
  <2>1. IsSeq(b4) /\ IsSeq(Listen)
    BY <1>5, ListeningSteps
  <2>2. b5 = b4 \o Listen
    BY DEF b5
  <2>3. /\ IsSeq(b5) /\ Len(b5) = Len(b4) + Len(Listen)
        /\ \A i \in 1..Len(b4) : b5[i] = b4[i]
        /\ \A i \in (Len(b4) + 1)..(Len(b4) + Len(Listen)) : b5[i] = Listen[i - Len(b4)]
    BY <2>1, <2>2, ConcatFrom
  <2>4. Len(b4) = 22 /\ Len(Listen) = 1
    BY <1>5, ListeningSteps
  <2>5. /\ Len(b5) = 23
        /\ \A i \in 1..22 : b5[i] = b4[i]
        /\ \A i \in 23..23 : b5[i] = Listen[i - 22]
    BY <2>3, <2>4
  <2> QED BY <2>3, <2>5
<1>7. /\ IsSeq(b6) /\ Len(b6) = 33
      /\ \A i \in 1..23 : b6[i] = b5[i]
      /\ \A i \in 24..33 : b6[i] = Make[i - 23]
  <2>1. IsSeq(b5) /\ IsSeq(Make)
    BY <1>6, PlainSteps
  <2>2. b6 = b5 \o Make
    BY DEF b6
  <2>3. /\ IsSeq(b6) /\ Len(b6) = Len(b5) + Len(Make)
        /\ \A i \in 1..Len(b5) : b6[i] = b5[i]
        /\ \A i \in (Len(b5) + 1)..(Len(b5) + Len(Make)) : b6[i] = Make[i - Len(b5)]
    BY <2>1, <2>2, ConcatFrom
  <2>4. Len(b5) = 23 /\ Len(Make) = 10
    BY <1>6, PlainSteps
  <2>5. /\ Len(b6) = 33
        /\ \A i \in 1..23 : b6[i] = b5[i]
        /\ \A i \in 24..33 : b6[i] = Make[i - 23]
    BY <2>3, <2>4
  <2> QED BY <2>3, <2>5
<1>8. /\ IsSeq(b7) /\ Len(b7) = 38
      /\ \A i \in 1..33 : b7[i] = b6[i]
      /\ \A i \in 34..38 : b7[i] = NewTransport[i - 33]
  <2>1. IsSeq(b6) /\ IsSeq(NewTransport)
    BY <1>7, ListeningSteps
  <2>2. b7 = b6 \o NewTransport
    BY DEF b7
  <2>3. /\ IsSeq(b7) /\ Len(b7) = Len(b6) + Len(NewTransport)
        /\ \A i \in 1..Len(b6) : b7[i] = b6[i]
        /\ \A i \in (Len(b6) + 1)..(Len(b6) + Len(NewTransport)) : b7[i] = NewTransport[i - Len(b6)]
    BY <2>1, <2>2, ConcatFrom
  <2>4. Len(b6) = 33 /\ Len(NewTransport) = 5
    BY <1>7, ListeningSteps
  <2>5. /\ Len(b7) = 38
        /\ \A i \in 1..33 : b7[i] = b6[i]
        /\ \A i \in 34..38 : b7[i] = NewTransport[i - 33]
    BY <2>3, <2>4
  <2> QED BY <2>3, <2>5
<1>9. /\ IsSeq(b8) /\ Len(b8) = 43
      /\ \A i \in 1..38 : b8[i] = b7[i]
      /\ \A i \in 39..43 : b8[i] = Serve[i - 38]
  <2>1. IsSeq(b7) /\ IsSeq(Serve)
    BY <1>8, PlainSteps
  <2>2. b8 = b7 \o Serve
    BY DEF b8
  <2>3. /\ IsSeq(b8) /\ Len(b8) = Len(b7) + Len(Serve)
        /\ \A i \in 1..Len(b7) : b8[i] = b7[i]
        /\ \A i \in (Len(b7) + 1)..(Len(b7) + Len(Serve)) : b8[i] = Serve[i - Len(b7)]
    BY <2>1, <2>2, ConcatFrom
  <2>4. Len(b7) = 38 /\ Len(Serve) = 5
    BY <1>8, PlainSteps
  <2>5. /\ Len(b8) = 43
        /\ \A i \in 1..38 : b8[i] = b7[i]
        /\ \A i \in 39..43 : b8[i] = Serve[i - 38]
    BY <2>3, <2>4
  <2> QED BY <2>3, <2>5
<1> QED BY <1>1, <1>2, <1>3, <1>4, <1>5, <1>6, <1>7, <1>8, <1>9

\* What each of the 43 steps of Build does.
LEMMA BuildTable ==
    /\ \A k \in 1..6 \cup {11, 16} \cup 20..22 \cup 24..34 \cup 39..43 : Does(BuildSteps[k], {}, {}, {}, {})
    /\ \A k \in {7, 12, 17} : Does(BuildSteps[k], {"file"}, {}, {}, {})
    /\ \A k \in {8, 9, 13, 14, 18} : Does(BuildSteps[k], {}, {}, {"file"}, {})
    /\ \A k \in {10, 15, 19} : Does(BuildSteps[k], {}, {"file"}, {"file"}, {})
    /\ Does(BuildSteps[23], {"listener"}, {}, {}, {"listener"})
    /\ Does(BuildSteps[35], {"directory"}, {}, {}, {})
    /\ Does(BuildSteps[36], {}, {}, {"directory"}, {})
    /\ Does(BuildSteps[37], {"socket", "unixListener"}, {}, {"directory"}, {})
    /\ Does(BuildSteps[38], {}, {}, {"unixListener", "socket", "directory"},
                                    {"unixListener", "socket", "directory"})
<1>1. \A k \in 1..5 \cup 20..22 \cup 24..33 \cup 39..43 : Does(BuildSteps[k], {}, {}, {}, {})
  BY BuildOrder, PlainSteps DEF Does
<1>2. \A k \in {6, 11, 16} : Does(BuildSteps[k], {}, {}, {}, {})
  BY BuildOrder, LoadAssetSteps, LoadScenarioSteps DEF Does
<1>3. \A k \in {7, 12, 17} : Does(BuildSteps[k], {"file"}, {}, {}, {})
  BY BuildOrder, LoadAssetSteps, LoadScenarioSteps DEF Does
<1>4. \A k \in {8, 9, 13, 14, 18} : Does(BuildSteps[k], {}, {}, {"file"}, {})
  BY BuildOrder, LoadAssetSteps, LoadScenarioSteps DEF Does
<1>5. \A k \in {10, 15, 19} : Does(BuildSteps[k], {}, {"file"}, {"file"}, {})
  BY BuildOrder, LoadAssetSteps, LoadScenarioSteps DEF Does
<1>6. Does(BuildSteps[23], {"listener"}, {}, {}, {"listener"}) /\ Does(BuildSteps[34], {}, {}, {}, {})
  BY BuildOrder, ListeningSteps DEF Does
<1>7. /\ Does(BuildSteps[35], {"directory"}, {}, {}, {})
      /\ Does(BuildSteps[36], {}, {}, {"directory"}, {})
  BY BuildOrder, ListeningSteps DEF Does
<1>8. Does(BuildSteps[37], {"socket", "unixListener"}, {}, {"directory"}, {})
  BY BuildOrder, ListeningSteps DEF Does
<1>9. Does(BuildSteps[38], {}, {}, {"unixListener", "socket", "directory"},
                                   {"unixListener", "socket", "directory"})
  BY BuildOrder, ListeningSteps DEF Does
<1>10. \A k \in 1..6 \cup {11, 16} \cup 20..22 \cup 24..34 \cup 39..43 :
           k \in 1..5 \cup 20..22 \cup 24..33 \cup 39..43 \/ k \in {6, 11, 16} \/ k = 34
  OBVIOUS
<1> QED BY <1>1, <1>2, <1>3, <1>4, <1>5, <1>6, <1>7, <1>8, <1>9, <1>10

\* What Build holds, and what it has deferred, before step k.
HeldAt(k) ==
    CASE k \in 8..10 \cup 13..15 \cup 18..19 -> {"file"}
      [] k \in 24..35 -> {"listener"}
      [] k \in 36..37 -> {"listener", "directory"}
      [] k \in 38..44 -> {"listener", "directory", "socket", "unixListener"}
      [] OTHER -> {}
DeferredAt(k) ==
    CASE k \in 24..38 -> {"listener"}
      [] k \in 39..44 -> {"listener", "directory", "socket", "unixListener"}
      [] OTHER -> {}

\* A step of Build keeps the account, and a step that fails leaves nothing.
Balanced(k) ==
    /\ (HeldAt(k) \cup BuildSteps[k].takes) \ BuildSteps[k].gives = HeldAt(k + 1)
    /\ DeferredAt(k) \cup BuildSteps[k].defers = DeferredAt(k + 1)
    /\ (HeldAt(k) \ BuildSteps[k].undoes) \ DeferredAt(k) = {}

\* The account is kept at every step.
LEMMA BuildIsBalanced == \A k \in 1..43 : Balanced(k)
<1>1. \A k \in 1..6 \cup {11, 16} \cup 20..22 \cup 24..34 \cup 39..43 : Balanced(k)
  <2> SUFFICES ASSUME NEW k \in 1..6 \cup {11, 16} \cup 20..22 \cup 24..34 \cup 39..43 PROVE Balanced(k)
    OBVIOUS
  <2>1. Does(BuildSteps[k], {}, {}, {}, {})
    BY BuildTable
  <2>2. HeldAt(k) = HeldAt(k + 1) /\ DeferredAt(k) = DeferredAt(k + 1)
    BY DEF HeldAt, DeferredAt
  <2>3. HeldAt(k) = DeferredAt(k)
    BY DEF HeldAt, DeferredAt
  <2> QED BY <2>1, <2>2, <2>3 DEF Does, Balanced
<1>2. \A k \in {7, 12, 17} : Balanced(k)
  BY BuildTable DEF Does, Balanced, HeldAt, DeferredAt
<1>3. \A k \in {8, 9, 13, 14, 18} : Balanced(k)
  BY BuildTable DEF Does, Balanced, HeldAt, DeferredAt
<1>4. \A k \in {10, 15, 19} : Balanced(k)
  BY BuildTable DEF Does, Balanced, HeldAt, DeferredAt
<1>5. Balanced(23) /\ Balanced(35) /\ Balanced(36)
  BY BuildTable DEF Does, Balanced, HeldAt, DeferredAt
<1>6. Balanced(37) /\ Balanced(38)
  BY BuildTable DEF Does, Balanced, HeldAt, DeferredAt
<1>7. \A k \in 1..43 : \/ k \in 1..6 \cup {11, 16} \cup 20..22 \cup 24..34 \cup 39..43
                       \/ k \in {7, 12, 17} \/ k \in {8, 9, 13, 14, 18} \/ k \in {10, 15, 19}
                       \/ k \in {23, 35, 36, 37, 38}
  OBVIOUS
<1> QED BY <1>1, <1>2, <1>3, <1>4, <1>5, <1>6, <1>7

-----------------------------------------------------------------------------
(* What the program holds                                                  *)

\* What the transport has taken.
OfTransport == {"directory", "socket", "unixListener"}

\* Build holds what its steps have taken so far, and all of it is given to run
\* or, when a step fails, back.
BuildAccounts ==
    /\ pc = "build" => step \in 1..43 /\ held = HeldAt(step) /\ deferred = DeferredAt(step)
    /\ pc = "built" => held = {"listener"} \cup OfTransport
    /\ pc = "failed" => held = {}
    /\ pc \in Building => stuck = {}

\* In run the server holds the listener and the transport its socket; a
\* transport that ended has left what it could not remove.
RunAccounts ==
    pc \notin Building =>
        /\ held = (IF part["server"] = "running" THEN {"listener"} ELSE {})
                  \cup (IF part["transport"] = "running" THEN OfTransport ELSE stuck)
        /\ stuck \subseteq {"socket", "directory"}

\* A part that ended before anything was cancelled has failed, so an end that
\* no signal asked for is a failure.
EndsAreExplained ==
    /\ pc \in Building \cup {"select"} => firstErr = "none"
    /\ pc = "select" => \A p \in Parts : part[p] \in {"running", "failed"}
    /\ pc \notin Building \cup {"select"} => signal \/ firstErr = "failed"

\* The inductive invariant of what the program holds, on top of AppInv.
AccountInv == BuildAccounts /\ RunAccounts /\ EndsAreExplained

\* Nothing is held when Build begins.
LEMMA AccountInit == Init => AccountInv
<1> SUFFICES ASSUME Init PROVE AccountInv
  OBVIOUS
<1>1. HeldAt(1) = {} /\ DeferredAt(1) = {}
  BY DEF HeldAt, DeferredAt
<1> QED BY <1>1 DEF Init, AccountInv, BuildAccounts, RunAccounts, EndsAreExplained, Building

\* Building, starting and signalling.
LEMMA AccountMain ==
    ASSUME AppInv, AccountInv, BuildStep \/ BuildFails \/ Start \/ SignalArrives
    PROVE  AccountInv'
<1>1. CASE BuildStep
  <2>1. /\ step \in 1..43 /\ held = HeldAt(step) /\ deferred = DeferredAt(step) /\ stuck = {}
        /\ firstErr = "none"
    BY <1>1 DEF BuildStep, AccountInv, BuildAccounts, EndsAreExplained, Building
  <2>2. held' = HeldAt(step + 1) /\ deferred' = DeferredAt(step + 1)
    BY <1>1, <2>1, BuildIsBalanced DEF BuildStep, Balanced
  <2>3. Len(BuildSteps) = 43
    BY BuildOrder
  <2>4. UNCHANGED <<stuck, firstErr>> /\ pc' \in {"build", "built"} /\ step' = step + 1
    BY <1>1 DEF BuildStep, runVars
  <2>5. pc' = "build" => step' \in 1..43
    BY <1>1, <2>1, <2>3 DEF BuildStep
  <2>6. pc' = "built" => held' = {"listener"} \cup OfTransport
    <3>1. pc' = "built" => step = 43
      BY <1>1, <2>3 DEF BuildStep
    <3>2. HeldAt(43 + 1) = {"listener"} \cup OfTransport
      BY DEF HeldAt, OfTransport
    <3> QED BY <2>2, <3>1, <3>2
  <2> QED BY <2>1, <2>2, <2>4, <2>5, <2>6
          DEF AccountInv, BuildAccounts, RunAccounts, EndsAreExplained, Building
<1>2. CASE BuildFails
  <2>1. /\ step \in 1..43 /\ held = HeldAt(step) /\ deferred = DeferredAt(step) /\ stuck = {}
        /\ firstErr = "none"
    BY <1>2 DEF BuildFails, AccountInv, BuildAccounts, EndsAreExplained, Building
  <2>2. held' = {}
    BY <1>2, <2>1, BuildIsBalanced DEF BuildFails, Balanced
  <2> QED BY <1>2, <2>1, <2>2
          DEF BuildFails, runVars, AccountInv, BuildAccounts, RunAccounts, EndsAreExplained, Building
<1>3. CASE Start
  BY <1>3 DEF Start, AccountInv, BuildAccounts, RunAccounts, EndsAreExplained, Building, Parts
<1>4. CASE SignalArrives
  <2>1. UNCHANGED <<pc, step, held, deferred, stuck, part, firstErr>> /\ signal'
    BY <1>4 DEF SignalArrives, buildVars, runVars
  <2>2. BuildAccounts' /\ RunAccounts'
    BY <2>1 DEF AccountInv, BuildAccounts, RunAccounts
  <2>3. EndsAreExplained'
    BY <2>1 DEF AccountInv, EndsAreExplained
  <2> QED BY <2>2, <2>3 DEF AccountInv
<1> QED BY <1>1, <1>2, <1>3, <1>4

\* The parts end and give back what they held.
LEMMA AccountParts ==
    ASSUME AppInv, AccountInv,
           \/ ServerFails \/ ServerStops
           \/ \E result \in {"canceled", "failed"} : RunnerEnds(result)
           \/ \E result \in {"ok", "canceled", "failed"} : SupervisorEnds(result)
           \/ \E result \in {"ok", "failed"} : TransportEnds(result)
    PROVE  AccountInv'
<1>1. PICK p \in Parts, result \in Results :
          /\ part[p] = "running" /\ part' = [part EXCEPT ![p] = result]
          /\ cancelled = {} => result = "failed"
  BY DEF ServerFails, ServerStops, RunnerEnds, SupervisorEnds, TransportEnds, Ends, Parts, Results
<1>2. UNCHANGED <<pc, step, deferred, signal, firstErr>>
  BY DEF ServerFails, ServerStops, RunnerEnds, SupervisorEnds, TransportEnds, buildVars
<1>3. part \in [Parts -> {"idle", "running"} \cup Results] /\ pc \notin Building
  <2>1. part \in [Parts -> {"idle", "running"} \cup Results]
    BY DEF AppInv, AppTypeOK
  <2> QED BY <1>1, <2>1 DEF AppInv, NothingBeforeRun
<1>4. BuildAccounts'
  BY <1>2, <1>3 DEF BuildAccounts, Building
<1>5. EndsAreExplained'
  BY <1>1, <1>2, <1>3 DEF AppInv, CancelledInOrder, AccountInv, EndsAreExplained
<1>6. RunAccounts'
  <2>1. CASE ServerFails \/ ServerStops
    BY <1>2, <1>3, <2>1 DEF ServerFails, ServerStops, Ends, AccountInv, RunAccounts, OfTransport, Parts
  <2>2. CASE \/ \E r \in {"canceled", "failed"} : RunnerEnds(r)
             \/ \E r \in {"ok", "canceled", "failed"} : SupervisorEnds(r)
    BY <1>2, <1>3, <2>2 DEF RunnerEnds, SupervisorEnds, Ends, buildVars, AccountInv, RunAccounts, Parts
  <2>3. CASE \E r \in {"ok", "failed"} : TransportEnds(r)
    BY <1>2, <1>3, <2>3 DEF TransportEnds, CleanedUp, Ends, AccountInv, RunAccounts, OfTransport, Parts
  <2> QED BY <2>1, <2>2, <2>3
<1> QED BY <1>4, <1>5, <1>6 DEF AccountInv

\* Requests, workers and the steps that change nothing.
LEMMA AccountRequests ==
    ASSUME AccountInv,
           \/ \E h \in Handlers : Request(h) \/ HandlerReturns(h)
           \/ \E w \in Workers : WorkerStarts(w) \/ WorkerExits(w)
           \/ UNCHANGED vars
    PROVE  AccountInv'
<1>1. UNCHANGED <<pc, step, held, deferred, stuck, part, firstErr, signal>>
  BY DEF Request, HandlerReturns, WorkerStarts, WorkerExits, vars, buildVars, runVars
<1> QED BY <1>1 DEF AccountInv, BuildAccounts, RunAccounts, EndsAreExplained

\* The select, Shutdown and the joins: what is held stays, and a failure that is
\* recorded is not lost.
LEMMA AccountRun ==
    ASSUME AppInv, AccountInv, Run
    PROVE  AccountInv'
<1>1. UNCHANGED <<step, held, deferred, stuck, part, signal>> /\ pc \notin Building /\ pc' \notin Building \cup {"select"}
  BY DEF Run, Woken, ShutdownReturns, ShutdownTimesOut, JoinServer, JoinWorkers, JoinTransport, JoinRunner,
         JoinThenCancel, RunUnchanged, buildVars, Building
<1>2. BuildAccounts' /\ RunAccounts'
  BY <1>1 DEF AccountInv, BuildAccounts, RunAccounts, Building
<1>3. signal \/ firstErr' = "failed"
  <2>1. CASE Woken
    <3>1. firstErr = "none" /\ \A p \in Parts : part[p] \in {"running", "failed"}
      BY <2>1 DEF Woken, AccountInv, EndsAreExplained
    <3>2. ASSUME NEW p \in Parts, part[p] \notin {"idle", "running"} PROVE Recorded(p) = "failed"
      BY <3>1, <3>2 DEF Recorded, Expected, Parts
    <3> QED BY <2>1, <3>2 DEF Woken
  <2>2. CASE ~Woken
    <3>1. signal \/ firstErr = "failed"
      BY <2>2 DEF Run, ShutdownReturns, ShutdownTimesOut, JoinServer, JoinWorkers, JoinTransport, JoinRunner,
                  JoinThenCancel, AccountInv, EndsAreExplained, Building
    <3>2. firstErr = "failed" => \A p \in Parts : Recorded(p) = "failed"
      BY DEF Recorded
    <3>3. firstErr = "failed" => firstErr' = "failed"
      BY <2>2, <3>2 DEF Run, ShutdownReturns, ShutdownTimesOut, JoinServer, JoinWorkers, JoinTransport,
                        JoinRunner, JoinThenCancel, Parts
    <3> QED BY <3>1, <3>3
  <2> QED BY <2>1, <2>2
<1>4. EndsAreExplained'
  BY <1>1, <1>3 DEF EndsAreExplained, Building
<1> QED BY <1>2, <1>4 DEF AccountInv

\* The inductive invariant of what the program holds at each point: each step of
\* Build, and each part of run, has its share of it.
THEOREM AppAccounts == Spec => []AccountInv
<1>1. AppInv /\ AccountInv /\ [Next]_vars => AccountInv'
  <2> SUFFICES ASSUME AppInv, AccountInv, [Next]_vars PROVE AccountInv'
    OBVIOUS
  <2>1. CASE BuildStep \/ BuildFails \/ Start \/ SignalArrives
    BY <2>1, AccountMain
  <2>2. CASE Run
    BY <2>2, AccountRun
  <2>3. CASE \/ \E h \in Handlers : Request(h) \/ HandlerReturns(h)
             \/ \E w \in Workers : WorkerStarts(w) \/ WorkerExits(w)
             \/ UNCHANGED vars
    BY <2>3, AccountRequests
  <2>4. CASE \/ ServerFails \/ ServerStops
             \/ \E result \in {"canceled", "failed"} : RunnerEnds(result)
             \/ \E result \in {"ok", "canceled", "failed"} : SupervisorEnds(result)
             \/ \E result \in {"ok", "failed"} : TransportEnds(result)
    BY <2>4, AccountParts
  <2> QED BY <2>1, <2>2, <2>3, <2>4 DEF Next
<1> QED BY <1>1, AccountInit, AppInvariant, PTL DEF Spec

\* Whatever step of Build fails, nothing it took is left: no descriptor, no
\* listener, no socket and no directory.
THEOREM AppFailedBuildKeepsNothing == Spec => []FailedBuildKeepsNothing
<1>1. AccountInv => FailedBuildKeepsNothing
  BY DEF AccountInv, BuildAccounts, FailedBuildKeepsNothing
<1> QED BY <1>1, AppAccounts, PTL

\* When run has returned nothing runs, only what the system would not remove is
\* left, and an end no signal asked for is reported as a failure.
THEOREM AppRunLeavesNothing == Spec => []RunLeavesNothing
<1>1. AppInv /\ AccountInv => RunLeavesNothing
  <2> SUFFICES ASSUME AppInv, AccountInv, pc = "returned"
               PROVE  /\ children = {}
                      /\ \A p \in Parts : part[p] # "running"
                      /\ held = stuck
                      /\ signal \/ firstErr = "failed"
    BY DEF RunLeavesNothing
  <2>1. \A p \in Parts : part[p] # "running"
    BY DEF AppInv, JoinedInOrder, Parts
  <2>2. children = {}
    BY <2>1 DEF AppInv, ChildrenHaveSupervisor, Parts
  <2>3. held = stuck
    BY <2>1 DEF AccountInv, RunAccounts, Building, Parts
  <2>4. signal \/ firstErr = "failed"
    BY DEF AccountInv, EndsAreExplained, Building
  <2> QED BY <2>1, <2>2, <2>3, <2>4
<1> QED BY <1>1, AppInvariant, AppAccounts, PTL

=============================================================================
