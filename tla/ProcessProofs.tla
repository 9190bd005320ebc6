---------------------------- MODULE ProcessProofs ----------------------------
(***************************************************************************)
(* Two parts that one process of the application keeps in memory: the lane *)
(* of local inference, held once and closed by a quarantine, for every     *)
(* number of processes, tasks, models, polls and faults; and retrieval,    *)
(* for every set of rows, links, spaces, rankings, budgets and requests.   *)
(*                                                                         *)
(* What a fold or a sum comes to is proved by induction on the first n     *)
(* positions: the claim is the set of the n it holds for, and a set that   *)
(* holds zero and every successor holds the natural numbers.               *)
(***************************************************************************)
EXTENDS LocalInferenceProperties, RecallProperties, FiniteSetTheorems,
        WellFoundedInduction, TLAPS

-----------------------------------------------------------------------------
(* The lane of local inference *)

\* A task in one of these stages holds the lock of its process.
Inside == {"connecting", "waiting"} \union Owning

\* the lock of a process is held by the task that is past it
HeldInside == \A r \in Tasks : StageOf(r) \in Inside => inside[Proc(r)] = r

\* the advisory lock is held by the task that runs under it
HeldLane == ~lost => \A r \in Tasks : StageOf(r) \in Owning => lock = r

\* an unhealthy process runs nothing, and one of its tasks keeps the lane
Quarantined ==
    \A p \in Procs : unhealthy[p] =>
        /\ \A r \in Tasks : Proc(r) = p => StageOf(r) \in {"idle", "queued"}
        /\ ~lost => lock # Nobody /\ Proc(lock) = p

Held == HeldInside /\ HeldLane /\ Quarantined

-----------------------------------------------------------------------------

\* A task has a process, and the slot of no task stands for nobody.
LEMMA TaskFacts ==
    /\ \A r \in Tasks : Proc(r) \in Procs
    /\ AtRest \in [at : Stages, model : Models \union {"none"}, polls : 0..Attempts]
    /\ Inside \subseteq Stages /\ Owning \subseteq Inside
<1>1. \A r \in Tasks : Proc(r) \in Procs
  BY DEF Tasks, Proc
<1>2. 0 \in 0..Attempts
  BY LocalInferenceAssumption
<1> QED BY <1>1, <1>2 DEF AtRest, Inside, Owning, Stages

\* A step of a task to another stage keeps the types, if the stage is one.
LEMMA GoesTo ==
  ASSUME LaneTypeOK, NEW r \in Tasks, NEW stage \in Stages, Goto(r, stage)
  PROVE  /\ task' \in [Tasks -> [at : Stages, model : Models \union {"none"}, polls : 0..Attempts]]
         /\ task'[r].at = stage /\ task'[r].polls = 0
         /\ \A q \in Tasks : q # r => task'[q] = task[q]
         /\ \A q \in Tasks : task'[q].at \in {"preflight", "cleanup"} => task'[q].polls < Attempts
<1>1. task \in [Tasks -> [at : Stages, model : Models \union {"none"}, polls : 0..Attempts]]
  BY DEF LaneTypeOK
<1>2. 0 \in 0..Attempts /\ 0 < Attempts
  BY LocalInferenceAssumption
<1>3. [task[r] EXCEPT !.at = stage, !.polls = 0]
        \in [at : Stages, model : Models \union {"none"}, polls : 0..Attempts]
  BY <1>1, <1>2
<1> QED BY <1>1, <1>2, <1>3 DEF Goto, LaneTypeOK

\* A task that stops is idle and of the right type.
LEMMA Stops ==
  ASSUME LaneTypeOK, NEW r \in Tasks, task' = [task EXCEPT ![r] = AtRest]
  PROVE  /\ task' \in [Tasks -> [at : Stages, model : Models \union {"none"}, polls : 0..Attempts]]
         /\ task'[r].at = "idle"
         /\ \A q \in Tasks : q # r => task'[q] = task[q]
         /\ \A q \in Tasks : task'[q].at \in {"preflight", "cleanup"} => task'[q].polls < Attempts
BY TaskFacts DEF LaneTypeOK, AtRest

\* One more poll is one that was left.
LEMMA Polls ==
  ASSUME LaneTypeOK, NEW r \in Tasks, StageOf(r) \in {"preflight", "cleanup"}, PollAgain(r)
  PROVE  /\ task' \in [Tasks -> [at : Stages, model : Models \union {"none"}, polls : 0..Attempts]]
         /\ task'[r].at = StageOf(r)
         /\ \A q \in Tasks : q # r => task'[q] = task[q]
         /\ \A q \in Tasks : task'[q].at \in {"preflight", "cleanup"} => task'[q].polls < Attempts
<1>1. task[r].polls \in 0..Attempts /\ task[r].polls < Attempts /\ Attempts \in Nat
  BY LocalInferenceAssumption DEF LaneTypeOK, StageOf
<1>2. task[r].polls + 1 # Attempts
  BY DEF PollAgain, Confirmed, Unconfirmed, LastPoll
<1>3. task[r].polls + 1 \in 0..Attempts /\ task[r].polls + 1 < Attempts
  BY <1>1, <1>2
<1>4. task' = [task EXCEPT ![r] = [task[r] EXCEPT !.polls = task[r].polls + 1]]
  BY DEF PollAgain
<1> QED BY <1>3, <1>4 DEF LaneTypeOK, StageOf

-----------------------------------------------------------------------------
(* Types *)

\* The types of everything but the tasks, of which the clauses above speak.
Rest ==
    /\ inside \in [Procs -> Tasks \union {Nobody}]
    /\ lock \in Tasks \union {Nobody}
    /\ unhealthy \in [Procs -> BOOLEAN]
    /\ late \subseteq Models
    /\ resident \subseteq Models
    /\ made \in 0..MaxPrompts
    /\ faults \in 0..MaxFaults
    /\ lost \in BOOLEAN
    /\ \A p \in Procs : inside[p] # Nobody => Proc(inside[p]) = p

Typed ==
    /\ task \in [Tasks -> [at : Stages, model : Models \union {"none"}, polls : 0..Attempts]]
    /\ \A r \in Tasks :
         task[r].at \in {"preflight", "cleanup"} => task[r].polls < Attempts

\* A request names a model.
Named == \A r \in Tasks : StageOf(r) # "idle" => task[r].model \in Models

\* A stage keeps the model of the task.
LEMMA KeepsModel ==
  ASSUME LaneTypeOK, Named, NEW r \in Tasks, StageOf(r) # "idle",
         NEW stage \in Stages, Goto(r, stage)
  PROVE  Typed' /\ Named'
<1>1. task'[r].model = task[r].model
  BY DEF Goto, LaneTypeOK
<1>2. task[r].model \in Models
  BY DEF Named
<1> QED BY <1>1, <1>2, GoesTo DEF Typed, Named, StageOf

\* A task that stops names nothing.
LEMMA StopsNaming ==
  ASSUME LaneTypeOK, Named, NEW r \in Tasks, task' = [task EXCEPT ![r] = AtRest]
  PROVE  Typed' /\ Named'
BY Stops DEF Typed, Named, StageOf

\* A poll keeps the model of the task.
LEMMA PollsForModel ==
  ASSUME LaneTypeOK, Named, NEW r \in Tasks, StageOf(r) \in {"preflight", "cleanup"}, PollAgain(r)
  PROVE  Typed' /\ Named'
<1>1. task'[r].model = task[r].model
  BY DEF PollAgain, LaneTypeOK
<1>2. task[r].model \in Models
  BY DEF Named
<1> QED BY <1>1, <1>2, Polls DEF Typed, Named, StageOf

\* The models that prompts of vanished clients name are models.
LEMMA ForsakenTyped ==
  ASSUME LaneTypeOK, Named, NEW R, R \subseteq Tasks, Forsaken(R)
  PROVE  late' \subseteq Models
BY DEF Forsaken, LaneTypeOK, Named, Sent, StageOf

\* The process lock a task leaves is free.
LEMMA Leaves ==
  ASSUME LaneTypeOK, NEW r \in Tasks, LeaveProcess(r)
  PROVE  /\ inside' \in [Procs -> Tasks \union {Nobody}]
         /\ \A p \in Procs : inside'[p] # Nobody => Proc(inside'[p]) = p
BY TaskFacts DEF LeaveProcess, LaneTypeOK

\* The steps of tasks keep the types.
LEMMA TaskTypes ==
  ASSUME LaneTypeOK, Named, NEW r \in Tasks,
         \/ AskLane(r) \/ TaskStep(r) \/ GiveUp(r) \/ TakeLock(r) \/ PreflightFails(r)
         \/ CleanupFails(r)
  PROVE  LaneTypeOK' /\ Named'
<1> USE DEF owner, server, counts
<1>1. CASE AskLane(r)
  <2>1. PICK m \in Models :
          task' = [task EXCEPT ![r] = [AtRest EXCEPT !.at = "queued", !.model = m]]
    BY <1>1 DEF AskLane
  <2>2. Typed' /\ Named'
    BY <2>1, TaskFacts DEF LaneTypeOK, Typed, Named, StageOf, AtRest, Stages
  <2>3. made < MaxPrompts /\ made' = made + 1
    BY <1>1 DEF AskLane
  <2>4. made' \in 0..MaxPrompts
    BY <2>3, LocalInferenceAssumption DEF LaneTypeOK
  <2> QED BY <1>1, <2>2, <2>4 DEF Typed, AskLane, LaneTypeOK, Rest
<1>2. CASE EnterProcess(r)
  <2>1. CASE Healthy(r)
    <3>1. Typed' /\ Named'
      BY <1>2, <2>1, KeepsModel DEF EnterProcess, Stages
    <3>2. inside' = [inside EXCEPT ![Proc(r)] = r]
      BY <1>2, <2>1 DEF EnterProcess
    <3> QED BY <1>2, <3>1, <3>2, TaskFacts DEF Typed, EnterProcess, LaneTypeOK, Rest
  <2>2. CASE ~Healthy(r)
    <3>1. Typed' /\ Named'
      BY <1>2, <2>2, StopsNaming DEF EnterProcess
    <3> QED BY <1>2, <2>2, <3>1 DEF Typed, EnterProcess, LaneTypeOK, Rest
  <2> QED BY <2>1, <2>2
<1>3. CASE GiveUp(r)
  <2>1. Typed' /\ Named'
    BY <1>3, StopsNaming DEF GiveUp
  <2> QED BY <1>3, <2>1, Leaves DEF Typed, GiveUp, LaneTypeOK, Rest
<1>4. CASE Connect(r) \/ CheckIdentity(r) \/ PreflightFails(r)
  <2>1. Typed' /\ Named'
    BY <1>4, KeepsModel DEF Connect, CheckIdentity, PreflightFails, Stages
  <2> QED BY <1>4, <2>1 DEF Typed, Connect, CheckIdentity, PreflightFails, LaneTypeOK, Rest
<1>5. CASE TakeLock(r)
  <2>1. Typed' /\ Named'
    BY <1>5, KeepsModel DEF TakeLock, Stages
  <2> QED BY <1>5, <2>1 DEF Typed, TakeLock, LaneTypeOK, Rest
<1>6. CASE Preflight(r)
  <2>1. Typed' /\ Named'
    BY <1>6, KeepsModel, PollsForModel DEF Preflight, Stages
  <2> QED BY <1>6, <2>1 DEF Typed, Preflight, LaneTypeOK, Rest
<1>7. CASE Cleanup(r) \/ CleanupFails(r)
  <2>1. CASE Quarantine(r)
    <3>1. Typed' /\ Named'
      BY <2>1, StopsNaming DEF Quarantine
    <3>2. unhealthy' \in [Procs -> BOOLEAN]
      BY <2>1 DEF Quarantine, LaneTypeOK
    <3> QED BY <1>7, <2>1, <3>1, <3>2, Leaves
            DEF Typed, Cleanup, CleanupFails, Quarantine, LaneTypeOK, Rest
  <2>2. CASE ~Quarantine(r)
    <3>1. Typed' /\ Named'
      BY <1>7, <2>2, KeepsModel, PollsForModel DEF Cleanup, CleanupFails, Stages
    <3>2. UNCHANGED owner
      BY <1>7, <2>2 DEF Cleanup, CleanupFails
    <3> QED BY <1>7, <3>1, <3>2 DEF Typed, Cleanup, CleanupFails, LaneTypeOK, Rest
  <2> QED BY <2>1, <2>2
<1>8. CASE Release(r)
  <2>1. Typed' /\ Named'
    BY <1>8, StopsNaming DEF Release
  <2> QED BY <1>8, <2>1, Leaves DEF Typed, Release, LaneTypeOK, Rest
<1>9. CASE Send(r)
  <2>1. task' = [task EXCEPT ![r] = [task[r] EXCEPT !.polls = 1]] /\ 1 \in 0..Attempts
    BY <1>9, LocalInferenceAssumption DEF Send
  <2>2. Typed' /\ Named'
    BY <1>9, <2>1 DEF Send, LaneTypeOK, Typed, Named, StageOf
  <2> QED BY <1>9, <2>2 DEF Typed, Send, LaneTypeOK, Rest
<1>10. CASE Answer(r)
  <2>1. Typed' /\ Named'
    BY <1>10, KeepsModel DEF Answer, Sent, Stages
  <2> QED BY <1>10, <2>1 DEF Typed, Answer, LaneTypeOK, Rest
<1>11. CASE StopWaiting(r)
  <2>1. Typed' /\ Named'
    BY <1>11, KeepsModel DEF StopWaiting, Stages
  <2>2. late' \subseteq Models
    BY <1>11, ForsakenTyped DEF StopWaiting
  <2> QED BY <1>11, <2>1, <2>2 DEF Typed, StopWaiting, LaneTypeOK, Rest
<1> QED BY <1>1, <1>2, <1>3, <1>4, <1>5, <1>6, <1>7, <1>8, <1>9, <1>10, <1>11 DEF TaskStep

\* The server, other clients and faults keep the types.
LEMMA OtherTypes ==
  ASSUME LaneTypeOK, Named,
         \/ \E m \in Models : Load(m) \/ Unload(m) \/ Notice(m) \/ OthersLoad(m)
         \/ \E p \in Procs : Restart(p)
         \/ LoseConnection
  PROVE  LaneTypeOK' /\ Named'
<1> USE DEF owner, server, counts
<1>1. ASSUME NEW m \in Models, Load(m) \/ Unload(m) \/ Notice(m) PROVE LaneTypeOK' /\ Named'
  BY <1>1 DEF Load, Unload, Notice, LaneTypeOK, Named, StageOf
<1>2. Fault => faults' \in 0..MaxFaults
  BY LocalInferenceAssumption DEF Fault, LaneTypeOK
<1>3. ASSUME NEW m \in Models, OthersLoad(m) PROVE LaneTypeOK' /\ Named'
  BY <1>2, <1>3 DEF OthersLoad, LaneTypeOK, Named, StageOf
<1>4. ASSUME NEW p \in Procs, Restart(p) PROVE LaneTypeOK' /\ Named'
  <2>1. Typed' /\ Named'
    BY <1>4, TaskFacts DEF Restart, LaneTypeOK, Typed, Named, StageOf, AtRest
  <2>2. late' \subseteq Models
    BY <1>4, ForsakenTyped DEF Restart
  <2>3. inside' = [inside EXCEPT ![p] = Nobody] /\ unhealthy' = [unhealthy EXCEPT ![p] = FALSE]
    BY <1>4 DEF Restart
  <2> QED BY <1>2, <1>4, <2>1, <2>2, <2>3 DEF Typed, Restart, LaneTypeOK, Rest
<1>5. CASE LoseConnection
  BY <1>2, <1>5 DEF LoseConnection, LaneTypeOK, Named, StageOf
<1> QED BY <1>1, <1>3, <1>4, <1>5

\* Every step keeps the types.
LEMMA StepTypes == ASSUME LaneTypeOK, Named, [LaneNext]_laneVars PROVE LaneTypeOK' /\ Named'
<1>1. CASE UNCHANGED laneVars
  BY <1>1 DEF laneVars, owner, server, counts, LaneTypeOK, Named, StageOf
<1> QED BY <1>1, TaskTypes, OtherTypes DEF LaneNext

\* Nobody is at anything in the beginning.
LEMMA InitialTypes == ASSUME LaneInit PROVE LaneTypeOK /\ Named
<1>1. 0 \in 0..MaxPrompts /\ 0 \in 0..MaxFaults
  BY LocalInferenceAssumption
<1> QED BY <1>1, TaskFacts DEF LaneInit, LaneTypeOK, Named, StageOf, AtRest

\* Every variable of LocalInference keeps its type: a task that polls has a
\* poll left, and a process lock is held by a task of its process.
THEOREM LaneTypes == LaneSpec => []LaneTypeOK
<1>1. LaneInit => LaneTypeOK /\ Named
  BY InitialTypes
<1>2. LaneTypeOK /\ Named /\ [LaneNext]_laneVars => (LaneTypeOK /\ Named)'
  BY StepTypes
<1> QED BY <1>1, <1>2, PTL DEF LaneSpec

-----------------------------------------------------------------------------
(* The lane.  Held is inductive together with the types: exclusion alone is *)
(* not, since it does not say that the lock belongs to the task that runs,  *)
(* nor that a process which is unhealthy runs nothing.                      *)

Lane == LaneTypeOK /\ Named /\ Held

\* Outside its process lock a task is idle or queued, and nobody is a task.
LEMMA Outside ==
  ASSUME LaneTypeOK
  PROVE  /\ \A r \in Tasks : StageOf(r) \in Inside \/ StageOf(r) \in {"idle", "queued"}
         /\ \A r \in Tasks : StageOf(r) \in {"idle", "queued"} => StageOf(r) \notin Inside
         /\ Nobody \notin Tasks
<1>1. \A r \in Tasks : StageOf(r) \in Stages
  BY DEF LaneTypeOK, StageOf
<1>2. Nobody \notin Tasks
  BY LocalInferenceAssumption DEF Nobody, Tasks
<1> QED BY <1>1, <1>2 DEF Inside, Owning, Stages

\* A task that goes on under the locks it has disturbs nobody.
LEMMA GoesOn ==
  ASSUME LaneTypeOK, Held, NEW r \in Tasks,
         StageOf(r) \in Inside, task'[r].at \in Inside,
         task'[r].at \in Owning => StageOf(r) \in Owning,
         \A q \in Tasks : q # r => task'[q] = task[q],
         UNCHANGED <<inside, lock, unhealthy, lost>>
  PROVE  Held'
<1>1. \A q \in Tasks : /\ StageOf(q)' \in Inside => StageOf(q) \in Inside
                       /\ StageOf(q)' \in Owning => StageOf(q) \in Owning
  BY DEF StageOf
<1>2. ~unhealthy[Proc(r)]
  BY Outside, TaskFacts DEF Held, Quarantined
<1>3. \A q \in Tasks : unhealthy[Proc(q)] => StageOf(q)' = StageOf(q)
  BY <1>2 DEF StageOf
<1>4. HeldInside' /\ HeldLane'
  BY <1>1 DEF Held, HeldInside, HeldLane
<1>5. Quarantined'
  BY <1>3 DEF Held, Quarantined
<1> QED BY <1>4, <1>5 DEF Held

\* A task that waits or gives up before its process lock disturbs nobody.
LEMMA StaysOut ==
  ASSUME LaneTypeOK, Held, NEW r \in Tasks,
         task'[r].at \in {"idle", "queued"},
         StageOf(r) \in {"idle", "queued"},
         \A q \in Tasks : q # r => task'[q] = task[q],
         UNCHANGED <<inside, lock, unhealthy, lost>>
  PROVE  Held'
<1>1. \A q \in Tasks : /\ StageOf(q)' \in Inside => q # r
                       /\ StageOf(q)' \in Owning => q # r
  BY DEF StageOf, Inside, Owning
<1>2. HeldInside' /\ HeldLane'
  BY <1>1 DEF Held, HeldInside, HeldLane, StageOf
<1>3. Quarantined'
  BY DEF Held, Quarantined, StageOf
<1> QED BY <1>2, <1>3 DEF Held

\* A task that leaves its process is the only one of it past the lock, so that
\* its lock is free for the next one.
LEMMA LeavesInside ==
  ASSUME LaneTypeOK, Held, NEW r \in Tasks, StageOf(r) \in Inside,
         task'[r].at = "idle",
         \A q \in Tasks : q # r => task'[q] = task[q],
         LeaveProcess(r)
  PROVE  /\ HeldInside'
         /\ \A q \in Tasks : Proc(q) = Proc(r) => StageOf(q)' \in {"idle", "queued"}
<1>1. \A q \in Tasks : StageOf(q)' \in Inside => q # r /\ StageOf(q) \in Inside
  BY DEF StageOf, Inside, Owning
<1>2. \A q \in Tasks : StageOf(q) \in Inside /\ q # r => Proc(q) # Proc(r)
  BY DEF Held, HeldInside
<1>3. \A q \in Tasks : Proc(q) # Proc(r) => inside'[Proc(q)] = inside[Proc(q)]
  BY TaskFacts DEF LeaveProcess, LaneTypeOK
<1>4. HeldInside'
  BY <1>1, <1>2, <1>3 DEF Held, HeldInside
<1>5. \A q \in Tasks : q # r /\ Proc(q) = Proc(r) => StageOf(q)' \in {"idle", "queued"}
  BY <1>2, Outside DEF StageOf
<1>6. StageOf(r)' = "idle"
  BY DEF StageOf
<1> QED BY <1>4, <1>5, <1>6

\* The steps of tasks keep the lane.
LEMMA TaskHeld ==
  ASSUME LaneTypeOK, Held, NEW r \in Tasks,
         \/ AskLane(r) \/ TaskStep(r) \/ GiveUp(r) \/ TakeLock(r) \/ PreflightFails(r)
         \/ CleanupFails(r)
  PROVE  Held'
<1> USE DEF owner, server, counts
<1>1. CASE AskLane(r)
  <2>1. PICK m \in Models :
          task' = [task EXCEPT ![r] = [AtRest EXCEPT !.at = "queued", !.model = m]]
    BY <1>1 DEF AskLane
  <2>2. task'[r].at = "queued" /\ \A q \in Tasks : q # r => task'[q] = task[q]
    BY <2>1 DEF LaneTypeOK, AtRest
  <2>3. StageOf(r) = "idle" /\ UNCHANGED <<inside, lock, unhealthy, lost>>
    BY <1>1 DEF AskLane
  <2> QED BY <2>2, <2>3, StaysOut
<1>2. CASE EnterProcess(r)
  <2>1. CASE Healthy(r)
    <3>1. task'[r].at = "connecting" /\ \A q \in Tasks : q # r => task'[q] = task[q]
      BY <1>2, <2>1, GoesTo DEF EnterProcess, Stages
    <3>2. /\ inside' = [inside EXCEPT ![Proc(r)] = r]
          /\ inside[Proc(r)] = Nobody
          /\ UNCHANGED <<lock, unhealthy, lost>>
      BY <1>2, <2>1 DEF EnterProcess
    <3>3. \A q \in Tasks : StageOf(q) \in Inside => Proc(q) # Proc(r)
      BY <3>2, Outside DEF Held, HeldInside
    <3>4. HeldInside'
      BY <3>1, <3>2, <3>3, TaskFacts DEF Held, HeldInside, StageOf, LaneTypeOK
    <3>5. HeldLane'
      BY <3>1, <3>2 DEF Held, HeldLane, StageOf, Owning
    <3>6. Quarantined'
      BY <2>1, <3>1, <3>2 DEF Held, Quarantined, StageOf, Healthy
    <3> QED BY <3>4, <3>5, <3>6 DEF Held
  <2>2. CASE ~Healthy(r)
    <3>1. task'[r].at = "idle" /\ \A q \in Tasks : q # r => task'[q] = task[q]
      BY <1>2, <2>2, Stops DEF EnterProcess
    <3> QED BY <1>2, <2>2, <3>1, StaysOut DEF EnterProcess
  <2> QED BY <2>1, <2>2
<1>3. CASE GiveUp(r)
  <2>1. StageOf(r) \in Inside /\ StageOf(r) \notin Owning
    BY <1>3 DEF GiveUp, Inside, Owning
  <2>2. task'[r].at = "idle" /\ \A q \in Tasks : q # r => task'[q] = task[q]
    BY <1>3, Stops DEF GiveUp
  <2>3. LeaveProcess(r) /\ UNCHANGED <<lock, unhealthy, lost>>
    BY <1>3 DEF GiveUp
  <2>4. HeldInside'
    BY <2>1, <2>2, <2>3, LeavesInside
  <2>5. HeldLane' /\ Quarantined'
    BY <2>2, <2>3 DEF Held, HeldLane, Quarantined, StageOf, Owning
  <2> QED BY <2>4, <2>5 DEF Held
<1>4. CASE Connect(r) \/ CheckIdentity(r) \/ PreflightFails(r) \/ Answer(r) \/ StopWaiting(r)
  <2>1. PICK stage \in Stages :
          /\ Goto(r, stage)
          /\ StageOf(r) \in Inside /\ stage \in Inside
          /\ stage \in Owning => StageOf(r) \in Owning
    BY <1>4 DEF Connect, CheckIdentity, PreflightFails, Answer, StopWaiting, Sent,
                Stages, Inside, Owning
  <2>2. task'[r].at = stage /\ \A q \in Tasks : q # r => task'[q] = task[q]
    BY <2>1, GoesTo
  <2>3. UNCHANGED <<inside, lock, unhealthy, lost>>
    BY <1>4 DEF Connect, CheckIdentity, PreflightFails, Answer, StopWaiting
  <2> QED BY <2>1, <2>2, <2>3, GoesOn
<1>5. CASE TakeLock(r)
  <2>1. task'[r].at = "identity" /\ \A q \in Tasks : q # r => task'[q] = task[q]
    BY <1>5, GoesTo DEF TakeLock, Stages
  <2>2. lock = Nobody /\ lock' = r /\ UNCHANGED <<inside, unhealthy, lost>>
    BY <1>5 DEF TakeLock, LockFree
  <2>3. StageOf(r) \in Inside /\ StageOf(r) \notin {"idle", "queued"}
    BY <1>5 DEF TakeLock, Inside
  <2>4. ~lost => \A q \in Tasks : StageOf(q) \notin Owning
    BY <2>2, Outside DEF Held, HeldLane
  <2>5. HeldInside'
    BY <2>1, <2>2, <2>3 DEF Held, HeldInside, StageOf
  <2>6. HeldLane'
    BY <2>1, <2>2, <2>4 DEF HeldLane, StageOf
  <2>7. ~unhealthy[Proc(r)]
    BY <2>3, TaskFacts DEF Held, Quarantined
  <2>8. ~lost => \A p \in Procs : ~unhealthy[p]
    BY <2>2 DEF Held, Quarantined
  <2>9. Quarantined'
    BY <2>1, <2>2, <2>7, <2>8 DEF Held, Quarantined, StageOf
  <2> QED BY <2>5, <2>6, <2>9 DEF Held
<1>6. CASE Preflight(r)
  <2>1. StageOf(r) \in Inside /\ StageOf(r) \in Owning /\ UNCHANGED <<inside, lock, unhealthy, lost>>
    BY <1>6 DEF Preflight, Inside, Owning
  <2>2. task'[r].at \in Inside /\ \A q \in Tasks : q # r => task'[q] = task[q]
    BY <1>6, GoesTo, Polls DEF Preflight, Stages, Inside, Owning
  <2> QED BY <2>1, <2>2, GoesOn
<1>7. CASE Cleanup(r) \/ CleanupFails(r)
  <2>1. StageOf(r) \in Inside /\ StageOf(r) \in Owning /\ UNCHANGED lost
    BY <1>7 DEF Cleanup, CleanupFails, Inside, Owning
  <2>2. CASE Quarantine(r)
    <3>1. task'[r].at = "idle" /\ \A q \in Tasks : q # r => task'[q] = task[q]
      BY <2>2, Stops DEF Quarantine
    <3>2. /\ LeaveProcess(r) /\ lock' = lock
          /\ \A p \in Procs : p # Proc(r) => unhealthy'[p] = unhealthy[p]
      BY <2>2 DEF Quarantine, LaneTypeOK
    <3>3. /\ HeldInside'
          /\ \A q \in Tasks : Proc(q) = Proc(r) => StageOf(q)' \in {"idle", "queued"}
      BY <2>1, <3>1, <3>2, LeavesInside
    <3>4. HeldLane'
      BY <2>1, <3>1, <3>2 DEF Held, HeldLane, StageOf, Owning
    <3>5. ~lost => lock = r /\ lock # Nobody
      BY <2>1, Outside DEF Held, HeldLane
    <3>6. ASSUME NEW p \in Procs, unhealthy'[p], p # Proc(r)
          PROVE  /\ \A q \in Tasks : Proc(q) = p => StageOf(q)' \in {"idle", "queued"}
                 /\ ~lost' => lock' # Nobody /\ Proc(lock') = p
      BY <2>1, <3>1, <3>2, <3>6 DEF Held, Quarantined, StageOf
    <3>7. Quarantined'
      BY <2>1, <3>2, <3>3, <3>5, <3>6 DEF Quarantined
    <3> QED BY <3>3, <3>4, <3>7 DEF Held
  <2>3. CASE ~Quarantine(r)
    <3>1. UNCHANGED <<inside, lock, unhealthy>>
      BY <1>7, <2>3 DEF Cleanup, CleanupFails
    <3>2. task'[r].at \in Inside /\ \A q \in Tasks : q # r => task'[q] = task[q]
      BY <1>7, <2>3, GoesTo, Polls DEF Cleanup, CleanupFails, Stages, Inside, Owning
    <3> QED BY <2>1, <3>1, <3>2, GoesOn
  <2> QED BY <2>2, <2>3
<1>8. CASE Release(r)
  <2>1. StageOf(r) \in Inside /\ StageOf(r) \in Owning /\ StageOf(r) \notin {"idle", "queued"}
    BY <1>8 DEF Release, Inside, Owning
  <2>2. task'[r].at = "idle" /\ \A q \in Tasks : q # r => task'[q] = task[q]
    BY <1>8, Stops DEF Release
  <2>3. LeaveProcess(r) /\ UNCHANGED <<unhealthy, lost>>
    BY <1>8 DEF Release
  <2>4. HeldInside'
    BY <2>1, <2>2, <2>3, LeavesInside
  <2>5. ~lost => lock = r
    BY <2>1 DEF Held, HeldLane
  <2>6. HeldLane'
    BY <2>2, <2>3, <2>5 DEF Held, HeldLane, StageOf, Owning
  <2>7. ~unhealthy[Proc(r)]
    BY <2>1, TaskFacts DEF Held, Quarantined
  <2>8. ~lost => \A p \in Procs : ~unhealthy[p]
    BY <2>5, <2>7 DEF Held, Quarantined
  <2>9. Quarantined'
    BY <2>2, <2>3, <2>8 DEF Held, Quarantined, StageOf
  <2> QED BY <2>4, <2>6, <2>9 DEF Held
<1>9. CASE Send(r)
  <2>1. task'[r].at = "body" /\ \A q \in Tasks : q # r => task'[q] = task[q]
    BY <1>9 DEF Send, LaneTypeOK, StageOf
  <2>2. StageOf(r) = "body" /\ UNCHANGED <<inside, lock, unhealthy, lost>>
    BY <1>9 DEF Send
  <2> QED BY <2>1, <2>2, GoesOn DEF Inside, Owning
<1> QED BY <1>1, <1>2, <1>3, <1>4, <1>5, <1>6, <1>7, <1>8, <1>9 DEF TaskStep

\* The server, other clients and faults keep the lane: a lost connection sets
\* lost, and the tasks of a process that ends are gone with its locks.
LEMMA OtherHeld ==
  ASSUME LaneTypeOK, Held,
         \/ \E m \in Models : Load(m) \/ Unload(m) \/ Notice(m) \/ OthersLoad(m)
         \/ \E p \in Procs : Restart(p)
         \/ LoseConnection
  PROVE  Held'
<1>1. ASSUME NEW m \in Models, Load(m) \/ Unload(m) \/ Notice(m) \/ OthersLoad(m)
      PROVE  Held'
  <2>1. UNCHANGED <<task, inside, lock, unhealthy, lost>>
    BY <1>1 DEF Load, Unload, Notice, OthersLoad, owner, counts
  <2> QED BY <2>1 DEF Held, HeldInside, HeldLane, Quarantined, StageOf
<1>2. CASE LoseConnection
  <2>1. lost' /\ UNCHANGED <<task, inside, unhealthy>>
    BY <1>2 DEF LoseConnection
  <2> QED BY <2>1 DEF Held, HeldInside, HeldLane, Quarantined, StageOf
<1>3. ASSUME NEW p \in Procs, Restart(p) PROVE Held'
  <2>1. /\ \A r \in Tasks : task'[r] = IF Proc(r) = p THEN AtRest ELSE task[r]
        /\ lost' = lost
    BY <1>3 DEF Restart
  <2>2. \A q \in Procs \ {p} : inside'[q] = inside[q] /\ unhealthy'[q] = unhealthy[q]
    BY <1>3 DEF Restart, LaneTypeOK
  <2>3. ~unhealthy'[p]
    BY <1>3 DEF Restart, LaneTypeOK
  <2>4. lock' = lock \/ (lock # Nobody /\ Proc(lock) = p)
    BY <1>3 DEF Restart
  <2>5. \A r \in Tasks : Proc(r) = p => StageOf(r)' = "idle"
    BY <2>1 DEF StageOf, AtRest
  <2>6. \A r \in Tasks : Proc(r) # p => StageOf(r)' = StageOf(r)
    BY <2>1 DEF StageOf
  <2>7. HeldInside'
    BY <2>2, <2>5, <2>6, TaskFacts DEF Held, HeldInside, Inside, Owning
  <2>8. HeldLane'
    BY <2>1, <2>4, <2>5, <2>6 DEF Held, HeldLane, Owning
  <2>9. Quarantined'
    BY <2>1, <2>2, <2>3, <2>4, <2>6 DEF Held, Quarantined
  <2> QED BY <2>7, <2>8, <2>9 DEF Held
<1> QED BY <1>1, <1>2, <1>3

\* Every step keeps the lane.
LEMMA StepHeld == ASSUME LaneTypeOK, Held, [LaneNext]_laneVars PROVE Held'
<1>1. CASE UNCHANGED laneVars
  BY <1>1 DEF laneVars, owner, counts, Held, HeldInside, HeldLane, Quarantined, StageOf
<1> QED BY <1>1, TaskHeld, OtherHeld DEF LaneNext

\* Nobody holds anything in the beginning.
LEMMA InitialHeld == ASSUME LaneInit PROVE Held
<1>1. \A r \in Tasks : StageOf(r) = "idle"
  BY DEF LaneInit, StageOf, AtRest
<1> QED BY <1>1 DEF LaneInit, Held, HeldInside, HeldLane, Quarantined, Inside, Owning

\* The lane is kept through every behaviour.
LEMMA AlwaysLane == LaneSpec => []Lane
<1>1. LaneInit => Lane
  BY InitialTypes, InitialHeld DEF Lane
<1>2. Lane /\ [LaneNext]_laneVars => Lane'
  BY StepTypes, StepHeld DEF Lane
<1> QED BY <1>1, <1>2, PTL DEF LaneSpec

\* Capacity one over all processes: however many processes, tasks and restarts
\* there are, two tasks are under the advisory lock only after the database
\* lost a connection that held it.
THEOREM LaneExclusive == LaneSpec => []LaneIsExclusive
<1>1. Lane => LaneIsExclusive
  BY DEF Lane, Held, HeldLane, LaneIsExclusive
<1> QED BY <1>1, AlwaysLane, PTL

\* A process that could not confirm that its model left closes the lane: no task
\* of any process sends a prompt while it lives and its connection is kept.
THEOREM QuarantineIsTight == LaneSpec => QuarantineHolds
<1>1. ASSUME Lane, ~lost, NEW p \in Procs, unhealthy[p], NEW r \in Tasks, Send(r)
      PROVE  FALSE
  <2>1. StageOf(r) = "body"
    BY <1>1 DEF Send
  <2>2. lock = r
    BY <1>1, <2>1 DEF Lane, Held, HeldLane, Owning
  <2>3. Proc(lock) = p
    BY <1>1 DEF Lane, Held, Quarantined
  <2> QED BY <1>1, <2>1, <2>2, <2>3 DEF Lane, Held, Quarantined
<1>2. Lane => (~lost /\ (\E p \in Procs : unhealthy[p]) => \A r \in Tasks : ~Send(r))
  BY <1>1
<1>3. Lane /\ [LaneNext]_laneVars
        => [~lost /\ (\E p \in Procs : unhealthy[p]) => \A r \in Tasks : ~Send(r)]_laneVars
  BY <1>2
<1> QED BY <1>3, AlwaysLane, PTL DEF LaneSpec, QuarantineHolds

-----------------------------------------------------------------------------
(* Sets, folds and sums: what the operators of the library do, by induction *)
(* along the positions of a sequence.                                      *)

\* Induction: a set that holds zero and every successor of a member holds the
\* natural numbers.
LEMMA CountUp ==
    ASSUME NEW T, 0 \in T, \A n \in Nat : n \in T => n + 1 \in T
    PROVE  Nat \subseteq T
<1>1. SUFFICES ASSUME Nat \ T # {} PROVE FALSE
  OBVIOUS
<1>2. PICK n \in Nat \ T : \A m \in Nat \ T : ~(<<m, n>> \in OpToRel(<, Nat))
  BY <1>1, NatLessThanWellFounded, WFMin
<1>3. n - 1 \in Nat /\ <<n - 1, n>> \in OpToRel(<, Nat)
  BY DEF OpToRel
<1>4. n - 1 \in T
  BY <1>2, <1>3
<1>5. (n - 1) + 1 \in T
  BY <1>3, <1>4
<1>. QED
  BY <1>5

\* A nonempty set of positions has a last one.
LEMMA MaxOfNaturals ==
    ASSUME NEW n \in Nat, NEW s \in SUBSET (1..n), s # {}
    PROVE  /\ Max(s) \in s
           /\ \A k \in s : Max(s) >= k
<1>. DEFINE T == {m \in Nat : \A t \in SUBSET (1..m) : t # {} => \E x \in t : \A y \in t : x >= y}
<1>1. 0 \in T
  <2>1. \A t \in SUBSET (1..0) : t = {}
    OBVIOUS
  <2>. QED BY <2>1
<1>2. \A m \in Nat : m \in T => m + 1 \in T
  <2> SUFFICES ASSUME NEW m \in Nat, m \in T, NEW t \in SUBSET (1..m+1), t # {}
               PROVE \E x \in t : \A y \in t : x >= y
    OBVIOUS
  <2>1. CASE m + 1 \in t
    BY <2>1
  <2>2. CASE m + 1 \notin t
    <3>1. t \in SUBSET (1..m)
      BY <2>2
    <3>. QED BY <3>1
  <2>. QED BY <2>1, <2>2
<1>3. n \in T
  <2>. HIDE DEF T
  <2>. QED BY <1>1, <1>2, CountUp
<1>4. \E x \in s : \A y \in s : x >= y
  BY <1>3
<1>. QED
  BY <1>4 DEF Max

\* F is the fold along the positions, the last one first, as the library
\* unfolds it.
FoldsOver(base, n, step, F) ==
    \A s \in SUBSET (1..n) :
       F[s] = IF s = {} THEN base ELSE step[<<F[s \ {Max(s)}], Max(s)>>]

\* A fold over positions takes a value for every set of them.
LEMMA FoldExists ==
    ASSUME NEW V, NEW base \in V, NEW n \in Nat, NEW step \in [V \X (1..n) -> V]
    PROVE  \E F \in [SUBSET (1..n) -> V] : FoldsOver(base, n, step, F)
<1>. DEFINE Folded(m) ==
       \E F \in [SUBSET (1..m) -> V] : \A s \in SUBSET (1..m) :
          F[s] = IF s = {} THEN base ELSE step[<<F[s \ {Max(s)}], Max(s)>>]
     T == {m \in Nat : m <= n => Folded(m)}
<1>1. 0 \in T
  <2>1. [s \in SUBSET (1..0) |-> base] \in [SUBSET (1..0) -> V]
    OBVIOUS
  <2>2. \A s \in SUBSET (1..0) : s = {}
    OBVIOUS
  <2>3. Folded(0)
    BY <2>1, <2>2
  <2>. QED BY <2>3
<1>2. \A m \in Nat : m \in T => m + 1 \in T
  <2> SUFFICES ASSUME NEW m \in Nat, Folded(m), m + 1 <= n PROVE Folded(m + 1)
    <3>. HIDE DEF Folded
    <3>. QED OBVIOUS
  <2>1. PICK F \in [SUBSET (1..m) -> V] : \A s \in SUBSET (1..m) :
          F[s] = IF s = {} THEN base ELSE step[<<F[s \ {Max(s)}], Max(s)>>]
    OBVIOUS
  <2>. DEFINE G == [s \in SUBSET (1..m + 1) |->
                      IF m + 1 \in s THEN step[<<F[s \ {m + 1}], m + 1>>] ELSE F[s]]
  <2>2. \A s \in SUBSET (1..m + 1) : s \ {m + 1} \in SUBSET (1..m)
    OBVIOUS
  <2>3. \A s \in SUBSET (1..m + 1) : m + 1 \notin s => s \in SUBSET (1..m)
    OBVIOUS
  <2>4. m + 1 \in 1..n
    OBVIOUS
  <2>5. G \in [SUBSET (1..m + 1) -> V]
    BY <2>2, <2>3, <2>4
  <2>6. ASSUME NEW s \in SUBSET (1..m + 1)
        PROVE G[s] = IF s = {} THEN base ELSE step[<<G[s \ {Max(s)}], Max(s)>>]
    <3>1. CASE m + 1 \in s
      <4>1. Max(s) = m + 1
        <5>1. Max(s) \in s /\ \A k \in s : Max(s) >= k
          BY <3>1, MaxOfNaturals, m + 1 \in Nat
        <5>2. Max(s) \in 1..m + 1 /\ Max(s) >= m + 1
          BY <5>1, <3>1
        <5>. QED BY <5>2
      <4>2. G[s \ {m + 1}] = F[s \ {m + 1}]
        BY <2>2
      <4>. QED BY <4>1, <4>2, <3>1
    <3>2. CASE m + 1 \notin s
      <4>1. s \in SUBSET (1..m) /\ G[s] = F[s]
        BY <2>3, <3>2
      <4>2. G[s \ {Max(s)}] = F[s \ {Max(s)}]
        BY <2>3, <3>2, s \ {Max(s)} \in SUBSET (1..m + 1)
      <4>. HIDE DEF G
      <4>. QED BY <4>1, <4>2, <2>1
    <3>. QED BY <3>1, <3>2
  <2>. HIDE DEF G
  <2>. QED BY <2>5, <2>6
<1>3. n \in T
  <2>. HIDE DEF T
  <2>. QED BY <1>1, <1>2, CountUp
<1>4. Folded(n)
  <2>. HIDE DEF Folded
  <2>. QED BY <1>3
<1>. QED BY <1>4 DEF FoldsOver

\* The last of the first k positions is k.
LEMMA Prefix ==
    ASSUME NEW n \in Nat, NEW k \in 1..n
    PROVE  /\ Max(1..k) = k /\ (1..k) \ {k} = 1..k - 1
           /\ 1..k \in SUBSET (1..n) /\ 1..k - 1 \in SUBSET (1..n) /\ 1..k # {}
<1>1. 1..k \in SUBSET (1..n) /\ k \in 1..k
  OBVIOUS
<1>2. Max(1..k) = k
  <2>1. Max(1..k) \in 1..k /\ \A j \in 1..k : Max(1..k) >= j
    BY <1>1, MaxOfNaturals
  <2>2. Max(1..k) >= k
    BY <1>1, <2>1
  <2>. QED BY <2>1, <2>2
<1>3. (1..k) \ {k} = 1..k - 1
  OBVIOUS
<1>. QED BY <1>1, <1>2, <1>3

\* What keeps each step within a set keeps the fold within it.
LEMMA FoldInto ==
    ASSUME NEW V, NEW n \in Nat, NEW iter, iter[{}] \in V,
           \A s \in SUBSET (1..n) : s # {} /\ iter[s \ {Max(s)}] \in V => iter[s] \in V
    PROVE  \A s \in SUBSET (1..n) : iter[s] \in V
<1>. DEFINE Claim(m) == \A s \in SUBSET (1..m) : iter[s] \in V
     T == {m \in Nat : m <= n => Claim(m)}
<1>1. 0 \in T
  <2>1. \A s \in SUBSET (1..0) : s = {}
    OBVIOUS
  <2>. QED BY <2>1
<1>2. \A m \in Nat : m \in T => m + 1 \in T
  <2> SUFFICES ASSUME NEW m \in Nat, Claim(m), m + 1 <= n PROVE Claim(m + 1)
    <3>. HIDE DEF Claim
    <3>. QED OBVIOUS
  <2> TAKE s \in SUBSET (1..m + 1)
  <2>1. CASE s = {}
    BY <2>1
  <2>2. CASE s # {}
    <3>1. s \in SUBSET (1..n)
      OBVIOUS
    <3>2. Max(s) \in s /\ \A k \in s : Max(s) >= k
      BY <2>2, MaxOfNaturals, m + 1 \in Nat
    <3>3. s \ {Max(s)} \in SUBSET (1..m)
      <4> SUFFICES ASSUME NEW k \in s, k # Max(s) PROVE k \in 1..m
        OBVIOUS
      <4>1. k \in 1..m + 1 /\ Max(s) \in 1..m + 1 /\ Max(s) >= k
        BY <3>2
      <4>. QED BY <4>1
    <3>4. iter[s \ {Max(s)}] \in V
      BY <3>3
    <3>. QED BY <2>2, <3>1, <3>4
  <2>. QED BY <2>1, <2>2
<1>3. n \in T
  <2>. HIDE DEF T
  <2>. QED BY <1>1, <1>2, CountUp
<1>. QED BY <1>3

\* the element that a fold over a set takes
Some(s) == CHOOSE x \in s : TRUE

\* Induction over the subsets of a finite set, by one element at a time.
BuiltUp(S, P) ==
    /\ {} \in P
    /\ \A U \in SUBSET S : U # {} /\ U \ {Some(U)} \in P => U \in P

\* A property of sets that one more element keeps holds of every finite set.
LEMMA OneByOne ==
    ASSUME NEW S, IsFiniteSet(S), NEW P, BuiltUp(S, P)
    PROVE  SUBSET S \subseteq P
<1>. DEFINE T == {n \in Nat : \A U \in SUBSET S : Cardinality(U) = n => U \in P}
<1>1. \A U \in SUBSET S : IsFiniteSet(U) /\ Cardinality(U) \in Nat
  BY FS_Subset, FS_CardinalityType
<1>2. 0 \in T
  BY <1>1, FS_EmptySet DEF BuiltUp
<1>3. \A n \in Nat : n \in T => n + 1 \in T
  <2> SUFFICES ASSUME NEW n \in Nat, n \in T,
                      NEW U \in SUBSET S, Cardinality(U) = n + 1
               PROVE  U \in P
    OBVIOUS
  <2>1. U # {}
    BY <1>1, FS_EmptySet
  <2>2. Some(U) \in U
    BY <2>1 DEF Some
  <2>3. U \ {Some(U)} \in SUBSET S /\ Cardinality(U \ {Some(U)}) = n
    <3>1. IsFiniteSet(U)
      BY <1>1
    <3>2. Cardinality(U \ {Some(U)}) = Cardinality(U) - 1
      BY <2>2, <3>1, FS_RemoveElement
    <3>3. Cardinality(U) = n + 1
      OBVIOUS
    <3>4. Cardinality(U \ {Some(U)}) = n
      BY <3>2, <3>3
    <3>. QED BY <3>4
  <2>. QED BY <2>1, <2>3 DEF BuiltUp
<1>4. Nat \subseteq T
  <2>. HIDE DEF T
  <2>. QED BY <1>2, <1>3, CountUp
<1>. QED BY <1>1, <1>4

-----------------------------------------------------------------------------

\* F is the fold of the function step over the subsets of S, in any order.
FoldsAny(base, S, step, F) ==
    \A s \in SUBSET S :
       F[s] = IF s = {} THEN base ELSE step[<<Some(s), F[s \ {Some(s)}]>>]

\* A fold over a finite set takes a value for every subset.
LEMMA AnyFoldExists ==
    ASSUME NEW S, IsFiniteSet(S), NEW V, NEW base \in V, NEW step \in [S \X V -> V]
    PROVE  \E F \in [SUBSET S -> V] : FoldsAny(base, S, step, F)
<1>. DEFINE Upto(n, F) == \A s \in SUBSET S : Cardinality(s) <= n =>
              F[s] = IF s = {} THEN base ELSE step[<<Some(s), F[s \ {Some(s)}]>>]
     Claim(n) == \E F \in [SUBSET S -> V] : Upto(n, F)
     T == {n \in Nat : Claim(n)}
<1>1. \A s \in SUBSET S : IsFiniteSet(s) /\ Cardinality(s) \in Nat /\ Cardinality(s) <= Cardinality(S)
  BY FS_Subset, FS_CardinalityType
<1>2. \A s \in SUBSET S : s # {} => Some(s) \in s
  BY DEF Some
<1>3. 0 \in T
  <2>1. [s \in SUBSET S |-> base] \in [SUBSET S -> V]
    OBVIOUS
  <2>2. Upto(0, [s \in SUBSET S |-> base])
    BY <1>1, FS_EmptySet
  <2>. HIDE DEF Upto
  <2>. QED BY <2>1, <2>2
<1>4. \A n \in Nat : n \in T => n + 1 \in T
  <2> SUFFICES ASSUME NEW n \in Nat, Claim(n) PROVE Claim(n + 1)
    <3>. HIDE DEF Claim
    <3>. QED OBVIOUS
  <2> PICK F \in [SUBSET S -> V] : Upto(n, F)
    OBVIOUS
  <2>. DEFINE G == [s \in SUBSET S |->
                      IF s = {} THEN base
                      ELSE IF Cardinality(s) <= n THEN F[s] ELSE step[<<Some(s), F[s \ {Some(s)}]>>]]
  <2>1. \A s \in SUBSET S : s # {} => Some(s) \in S /\ s \ {Some(s)} \in SUBSET S
    BY <1>2
  <2>2. G \in [SUBSET S -> V]
    BY <2>1
  <2>3. \A s \in SUBSET S : Cardinality(s) <= n => G[s] = F[s]
    BY <1>1, FS_EmptySet
  <2>4. ASSUME NEW s \in SUBSET S, Cardinality(s) <= n + 1, s # {}
        PROVE  G[s] = step[<<Some(s), G[s \ {Some(s)}]>>]
    <3>1. Cardinality(s \ {Some(s)}) <= n
      BY <1>1, <1>2, <2>4, FS_RemoveElement
    <3>2. G[s \ {Some(s)}] = F[s \ {Some(s)}]
      BY <3>1, <2>1, <2>3, <2>4
    <3>3. CASE Cardinality(s) <= n
      BY <3>2, <3>3, <2>3, <2>4
    <3>4. CASE ~(Cardinality(s) <= n)
      BY <3>2, <3>4, <2>4
    <3>. QED BY <3>3, <3>4
  <2>5. Upto(n + 1, G)
    <3>1. G[{}] = base
      OBVIOUS
    <3>. HIDE DEF G
    <3>. QED BY <2>4, <3>1
  <2>. HIDE DEF G, Upto
  <2>. QED BY <2>2, <2>5
<1>5. Cardinality(S) \in T
  <2>. HIDE DEF T
  <2>. QED BY <1>1, <1>3, <1>4, CountUp
<1>6. PICK F \in [SUBSET S -> V] : Upto(Cardinality(S), F)
  <2>. HIDE DEF Upto
  <2>. QED BY <1>5
<1>7. FoldsAny(base, S, step, F)
  BY <1>1, <1>6 DEF FoldsAny
<1>. QED BY <1>7

\* the sums of f over the subsets of S
Sums(f, S, F) ==
    \A s \in SUBSET S : F[s] = IF s = {} THEN 0 ELSE f[Some(s)] + F[s \ {Some(s)}]

\* Sums over the subsets of a finite set exist, as the library defines them.
LEMMA SumsExist ==
    ASSUME NEW S, IsFiniteSet(S), NEW f, \A x \in S : f[x] \in Nat
    PROVE  \E F \in [SUBSET S -> Nat] : Sums(f, S, F)
<1>. DEFINE step == [p \in S \X Nat |-> f[p[1]] + p[2]]
<1>1. step \in [S \X Nat -> Nat]
  OBVIOUS
<1>2. PICK F \in [SUBSET S -> Nat] : FoldsAny(0, S, step, F)
  <2>. HIDE DEF step
  <2>. QED BY <1>1, AnyFoldExists
<1>3. \A s \in SUBSET S : s # {} => Some(s) \in S /\ s \ {Some(s)} \in SUBSET S
  BY DEF Some
<1>4. Sums(f, S, F)
  BY <1>2, <1>3 DEF FoldsAny, Sums
<1>. QED BY <1>4

\* A product of positive numbers is a multiple of each.
LEMMA ProductOf ==
    ASSUME NEW S, IsFiniteSet(S), S \subseteq Nat \ {0}
    PROVE  /\ ProductSet(S) \in Nat \ {0}
           /\ \A x \in S : \E m \in Nat : ProductSet(S) = x * m
<1>. DEFINE V == Nat \ {0}
            step == [p \in S \X V |-> p[1] * p[2]]
            Iter(h) == h = [s \in SUBSET S |->
                 IF s = {} THEN 1 ELSE (CHOOSE x \in s : TRUE) * h[s \ {CHOOSE x \in s : TRUE}]]
            iter == CHOOSE h : Iter(h)
<1>1. ProductSet(S) = iter[S]
  BY DEF ProductSet, FoldSet, MapThenFoldSet
<1>2. step \in [S \X V -> V] /\ 1 \in V
  <2>1. ASSUME NEW x \in V, NEW y \in V
        PROVE  x * y \in V
    BY Z3
  <2>2. \A p \in S \X V : p[1] \in V /\ p[2] \in V
    OBVIOUS
  <2>3. \A p \in S \X V : p[1] * p[2] \in V
    <3>. HIDE DEF V
    <3>. QED BY <2>1, <2>2
  <2>. QED BY <2>3
<1>3. PICK F \in [SUBSET S -> V] : FoldsAny(1, S, step, F)
  <2>. HIDE DEF step, V
  <2>. QED BY <1>2, AnyFoldExists
<1>4. \A s \in SUBSET S : s # {} => Some(s) \in s /\ Some(s) \in S /\ s \ {Some(s)} \in SUBSET S
  BY DEF Some
<1>5. \A s \in SUBSET S : F[s] = IF s = {} THEN 1 ELSE Some(s) * F[s \ {Some(s)}]
  BY <1>3, <1>4 DEF FoldsAny
<1>6. Iter(F)
  <2>1. F = [s \in SUBSET S |-> F[s]]
    OBVIOUS
  <2>. QED BY <2>1, <1>5 DEF Some
<1>7. Iter(iter)
  <2>. HIDE DEF Iter
  <2>. QED BY <1>6
<1>8. \A s \in SUBSET S : iter[s] = IF s = {} THEN 1 ELSE Some(s) * iter[s \ {Some(s)}]
  BY <1>7 DEF Some
<1>. HIDE DEF iter
<1>. DEFINE P == {U \in SUBSET S : iter[U] \in V /\ \A x \in U : \E m \in Nat : iter[U] = x * m}
<1>9. {} \in P
  BY <1>8
<1>10. ASSUME NEW U \in SUBSET S, U # {}, U \ {Some(U)} \in P
       PROVE  U \in P
  <2>. DEFINE c == Some(U)
              less == iter[U \ {Some(U)}]
  <2>1. c \in U /\ c \in V /\ less \in V /\ iter[U] = c * less
    BY <1>4, <1>8, <1>10
  <2>2. iter[U] \in V
    BY <2>1
  <2>3. ASSUME NEW x \in U
        PROVE  \E m \in Nat : iter[U] = x * m
    <3>1. CASE x = c
      BY <3>1, <2>1
    <3>2. CASE x # c
      <4>1. PICK m \in Nat : less = x * m
        BY <3>2, <1>10
      <4>. HIDE DEF c, less
      <4>2. x \in Nat /\ c \in Nat
        BY <2>1
      <4>3. c * (x * m) = x * (c * m) /\ c * m \in Nat
        BY <4>2
      <4>. QED BY <4>1, <4>3, <2>1
    <3>. QED BY <3>1, <3>2
  <2>. QED BY <2>2, <2>3
<1>11. S \in P
  <2>. HIDE DEF P
  <2>1. \A U \in SUBSET S : U # {} /\ U \ {Some(U)} \in P => U \in P
    BY <1>10
  <2>2. BuiltUp(S, P)
    BY <1>9, <2>1 DEF BuiltUp
  <2>3. SUBSET S \subseteq P
    BY <2>2, OneByOne
  <2>. QED BY <2>3
<1>. QED BY <1>1, <1>11

\* Sums of equal values are equal.
LEMMA SumsAgree ==
    ASSUME NEW S, IsFiniteSet(S), NEW f, NEW g, NEW A, NEW B, NEW F, NEW G,
           S \subseteq A, S \subseteq B, \A x \in S : f[x] = g[x],
           Sums(f, A, F), Sums(g, B, G)
    PROVE  F[S] = G[S]
<1>. DEFINE T == {n \in Nat : \A U \in SUBSET S : Cardinality(U) = n => F[U] = G[U]}
<1>1. \A U \in SUBSET S : IsFiniteSet(U) /\ Cardinality(U) \in Nat
  BY FS_Subset, FS_CardinalityType
<1>2. 0 \in T
  BY <1>1, FS_EmptySet DEF Sums
<1>3. \A n \in Nat : n \in T => n + 1 \in T
  <2> SUFFICES ASSUME NEW n \in Nat, n \in T,
                      NEW U \in SUBSET S, Cardinality(U) = n + 1
               PROVE  F[U] = G[U]
    OBVIOUS
  <2>1. U # {}
    <3>1. Cardinality(U) = n + 1 /\ n + 1 # 0
      OBVIOUS
    <3>2. Cardinality({}) = 0
      BY FS_EmptySet
    <3>. HIDE DEF T
    <3>. QED BY ONLY <3>1, <3>2
  <2>2. Some(U) \in U
    BY <2>1 DEF Some
  <2>3. U \ {Some(U)} \in SUBSET S /\ Cardinality(U \ {Some(U)}) = n
    <3>1. IsFiniteSet(U)
      BY <1>1
    <3>2. Cardinality(U \ {Some(U)}) = Cardinality(U) - 1
      BY <2>2, <3>1, FS_RemoveElement
    <3>3. Cardinality(U) = n + 1
      OBVIOUS
    <3>4. Cardinality(U \ {Some(U)}) = n
      BY <3>2, <3>3
    <3>. QED BY <3>4
  <2>4. F[U \ {Some(U)}] = G[U \ {Some(U)}]
    BY <2>3
  <2>5. F[U] = f[Some(U)] + F[U \ {Some(U)}] /\ G[U] = g[Some(U)] + G[U \ {Some(U)}]
    BY <2>1 DEF Sums
  <2>. QED BY <2>2, <2>4, <2>5
<1>4. Nat \subseteq T
  <2>. HIDE DEF T
  <2>. QED BY <1>2, <1>3, CountUp
<1>. QED BY <1>1, <1>4

\* F adds, whichever element is taken first.
Adds(f, S, F) == \A U \in SUBSET S : \A x \in U : F[U] = f[x] + F[U \ {x}]

\* A sum is any of its elements and the sum of the others, whichever the
\* library takes first.
LEMMA SumsElement ==
    ASSUME NEW S, IsFiniteSet(S), NEW f, \A x \in S : f[x] \in Nat,
           NEW F, F \in [SUBSET S -> Nat], Sums(f, S, F)
    PROVE  Adds(f, S, F)
<1>. DEFINE Claim(n) == \A U \in SUBSET S : Cardinality(U) = n =>
                           \A x \in U : F[U] = f[x] + F[U \ {x}]
     T == {n \in Nat : Claim(n)}
<1>1. \A U \in SUBSET S : IsFiniteSet(U) /\ Cardinality(U) \in Nat
  BY FS_Subset, FS_CardinalityType
<1>2. 0 \in T
  BY <1>1, FS_EmptySet
<1>3. \A n \in Nat : n \in T => n + 1 \in T
  <2> SUFFICES ASSUME NEW n \in Nat, Claim(n) PROVE Claim(n + 1)
    <3>. HIDE DEF Claim
    <3>. QED OBVIOUS
  <2> TAKE U \in SUBSET S
  <2> HAVE Cardinality(U) = n + 1
  <2> TAKE x \in U
  <2>. DEFINE c == Some(U)
  <2>2. c \in U
    BY DEF Some
  <2>3. F[U] = f[c] + F[U \ {c}]
    BY DEF Sums
  <2>4. CASE x = c
    BY <2>3, <2>4
  <2>5. CASE x # c
    <3>. HIDE DEF c
    <3>1. U \ {c} \in SUBSET S /\ Cardinality(U \ {c}) = n
      BY <1>1, <2>2, FS_RemoveElement
    <3>2. U \ {x} \in SUBSET S /\ Cardinality(U \ {x}) = n
      BY <1>1, FS_RemoveElement
    <3>3. F[U \ {c}] = f[x] + F[(U \ {c}) \ {x}]
      BY <3>1, <2>5
    <3>4. F[U \ {x}] = f[c] + F[(U \ {x}) \ {c}]
      BY <3>2, <2>2, <2>5
    <3>5. (U \ {c}) \ {x} = (U \ {x}) \ {c} /\ (U \ {c}) \ {x} \in SUBSET S
      OBVIOUS
    <3>6. f[x] \in Nat /\ f[c] \in Nat /\ F[(U \ {c}) \ {x}] \in Nat
      BY <3>5, <2>2
    <3>7. F[U] = f[c] + (f[x] + F[(U \ {c}) \ {x}])
      BY <2>3, <3>3
    <3>8. F[U \ {x}] = f[c] + F[(U \ {c}) \ {x}]
      BY <3>4, <3>5
    <3>. HIDE DEF T
    <3>. QED BY <3>6, <3>7, <3>8
  <2>. QED BY <2>4, <2>5
<1>4. Nat \subseteq T
  <2>. HIDE DEF T
  <2>. QED BY <1>2, <1>3, CountUp
<1>. QED BY <1>1, <1>4 DEF Adds

\* SumFunctionOnSet is such a sum.
LEMMA SumIs ==
    ASSUME NEW S, IsFiniteSet(S), NEW f, \A x \in S : f[x] \in Nat
    PROVE  \E F \in [SUBSET S -> Nat] : Sums(f, S, F) /\ SumFunctionOnSet(f, S) = F[S]
<1>. DEFINE Iter(h) == h = [s \in SUBSET S |->
                 IF s = {} THEN 0 ELSE f[CHOOSE x \in s : TRUE] + h[s \ {CHOOSE x \in s : TRUE}]]
     iter == CHOOSE h : Iter(h)
<1>1. SumFunctionOnSet(f, S) = iter[S]
  BY DEF SumFunctionOnSet, FoldFunctionOnSet, MapThenFoldSet
<1>2. PICK F \in [SUBSET S -> Nat] : Sums(f, S, F)
  BY SumsExist
<1>3. Iter(F)
  BY <1>2 DEF Sums, Some
<1>4. Iter(iter)
  <2>. HIDE DEF Iter
  <2>. QED BY <1>3
<1>5. Sums(f, S, iter)
  BY <1>4 DEF Sums, Some
<1>6. iter[S] = F[S]
  <2>. HIDE DEF iter
  <2>. QED BY <1>2, <1>5, SumsAgree
<1>. QED BY <1>1, <1>2, <1>6

\* Sums of natural numbers are natural numbers.
LEMMA SumType ==
    ASSUME NEW S, IsFiniteSet(S), NEW f, \A x \in S : f[x] \in Nat
    PROVE  SumFunctionOnSet(f, S) \in Nat
<1>1. PICK F \in [SUBSET S -> Nat] : Sums(f, S, F) /\ SumFunctionOnSet(f, S) = F[S]
  BY SumIs
<1>. QED BY <1>1

\* The sum of nothing is zero.
LEMMA SumEmpty ==
    ASSUME NEW f
    PROVE  SumFunctionOnSet(f, {}) = 0
<1>1. PICK F \in [SUBSET {} -> Nat] : Sums(f, {}, F) /\ SumFunctionOnSet(f, {}) = F[{}]
  BY SumIs, FS_EmptySet
<1>. QED BY <1>1 DEF Sums

\* Equal values have equal sums.
LEMMA SumSame ==
    ASSUME NEW S, IsFiniteSet(S), NEW f, NEW g,
           \A x \in S : f[x] \in Nat /\ f[x] = g[x]
    PROVE  SumFunctionOnSet(f, S) = SumFunctionOnSet(g, S)
<1>1. PICK F \in [SUBSET S -> Nat] : Sums(f, S, F) /\ SumFunctionOnSet(f, S) = F[S]
  BY SumIs
<1>2. \A x \in S : g[x] \in Nat
  OBVIOUS
<1>3. PICK G \in [SUBSET S -> Nat] : Sums(g, S, G) /\ SumFunctionOnSet(g, S) = G[S]
  BY <1>2, SumIs
<1>. QED BY <1>1, <1>3, SumsAgree

\* A sum over a set, taken apart at any of its elements.
LEMMA SumElement ==
    ASSUME NEW S, IsFiniteSet(S), NEW f, \A x \in S : f[x] \in Nat, NEW x \in S
    PROVE  SumFunctionOnSet(f, S) = f[x] + SumFunctionOnSet(f, S \ {x})
<1>1. PICK F \in [SUBSET S -> Nat] : Sums(f, S, F) /\ SumFunctionOnSet(f, S) = F[S]
  BY SumIs
<1>2. IsFiniteSet(S \ {x})
  BY FS_RemoveElement
<1>3. PICK G \in [SUBSET (S \ {x}) -> Nat] :
        Sums(f, S \ {x}, G) /\ SumFunctionOnSet(f, S \ {x}) = G[S \ {x}]
  BY <1>2, SumIs
<1>4. F[S] = f[x] + F[S \ {x}]
  <2>1. Adds(f, S, F)
    BY <1>1, SumsElement
  <2>. QED BY <2>1 DEF Adds
<1>5. F[S \ {x}] = G[S \ {x}]
  BY <1>1, <1>2, <1>3, SumsAgree
<1>. QED BY <1>1, <1>3, <1>4, <1>5

\* Part of a sum is no greater than the sum.
LEMMA SumSubset ==
    ASSUME NEW S, IsFiniteSet(S), NEW f, \A x \in S : f[x] \in Nat, NEW R \in SUBSET S
    PROVE  SumFunctionOnSet(f, R) <= SumFunctionOnSet(f, S)
<1>. DEFINE P == {W \in SUBSET (S \ R) : SumFunctionOnSet(f, R) <= SumFunctionOnSet(f, R \union W)}
<1>1. \A U \in SUBSET S : IsFiniteSet(U) /\ SumFunctionOnSet(f, U) \in Nat
  <2> TAKE U \in SUBSET S
  <2>1. IsFiniteSet(U) /\ \A x \in U : f[x] \in Nat
    BY FS_Subset
  <2>. QED BY <2>1, SumType
<1>2. {} \in P
  BY <1>1, R \union {} = R
<1>3. \A W \in SUBSET (S \ R) : W # {} /\ W \ {Some(W)} \in P => W \in P
  <2> SUFFICES ASSUME NEW W \in SUBSET (S \ R), W # {}, W \ {Some(W)} \in P
               PROVE  SumFunctionOnSet(f, R) <= SumFunctionOnSet(f, R \union W)
    OBVIOUS
  <2>. DEFINE x == Some(W)
  <2>0. x \in W /\ W \ {x} \in P
    BY DEF Some
  <2>. HIDE DEF x
  <2>1. R \union W \in SUBSET S /\ R \union (W \ {x}) = (R \union W) \ {x} /\ x \in R \union W
    BY <2>0
  <2>2. IsFiniteSet(R \union W) /\ \A y \in R \union W : f[y] \in Nat
    BY <1>1, <2>1
  <2>3. SumFunctionOnSet(f, R \union W) = f[x] + SumFunctionOnSet(f, (R \union W) \ {x})
    BY <2>1, <2>2, SumElement
  <2>4. SumFunctionOnSet(f, R) <= SumFunctionOnSet(f, (R \union W) \ {x})
    BY <2>0, <2>1
  <2>5. /\ SumFunctionOnSet(f, R) \in Nat /\ f[x] \in Nat
        /\ SumFunctionOnSet(f, (R \union W) \ {x}) \in Nat
    BY <1>1, <2>0, <2>1, <2>2
  <2>. QED BY <2>3, <2>4, <2>5
<1>4. S \ R \in P
  <2>1. IsFiniteSet(S \ R)
    BY FS_Subset
  <2>. HIDE DEF P
  <2>2. SUBSET (S \ R) \subseteq P
    <3>. DEFINE D == S \ R
    <3>1. IsFiniteSet(D) /\ BuiltUp(D, P)
      BY <2>1, <1>2, <1>3, Zenon DEF BuiltUp
    <3>. HIDE DEF D
    <3>2. SUBSET D \subseteq P
      BY <3>1, OneByOne
    <3>. QED BY <3>2 DEF D
  <2>. QED BY <2>2
<1>5. R \union (S \ R) = S
  OBVIOUS
<1>. QED BY <1>4, <1>5

-----------------------------------------------------------------------------

\* InOrder lists a finite set along a strict total order: everything once,
\* nothing out of order.
LEMMA InOrderSorts ==
    ASSUME NEW S, IsFiniteSet(S), NEW before,
           \A x \in S : <<x, x>> \notin before,
           \A x, y \in S : x # y => <<x, y>> \in before \/ <<y, x>> \in before,
           \A x, y, z \in S : <<x, y>> \in before /\ <<y, z>> \in before => <<x, z>> \in before
    PROVE  /\ InOrder(S, before) \in [1..Cardinality(S) -> S]
           /\ \A x \in S : \E n \in 1..Cardinality(S) : InOrder(S, before)[n] = x
           /\ \A m, n \in 1..Cardinality(S) :
                m < n => <<InOrder(S, before)[m], InOrder(S, before)[n]>> \in before
<1>. DEFINE Earlier(x) == {y \in S : <<y, x>> \in before}
     N == Cardinality(S)
     place == [x \in S |-> Cardinality(Earlier(x)) + 1]
<1>1. N \in Nat
  BY FS_CardinalityType
<1>2. \A x \in S : IsFiniteSet(Earlier(x)) /\ Cardinality(Earlier(x)) \in 0..N - 1
  <2> TAKE x \in S
  <2>1. Earlier(x) \in SUBSET S /\ Earlier(x) # S
    OBVIOUS
  <2>. HIDE DEF Earlier
  <2>2. IsFiniteSet(Earlier(x)) /\ Cardinality(Earlier(x)) <= N /\ Cardinality(Earlier(x)) # N
    BY <2>1, FS_Subset
  <2>3. Cardinality(Earlier(x)) \in Nat
    BY <2>2, FS_CardinalityType
  <2>. QED BY <1>1, <2>2, <2>3
<1>3. ASSUME NEW x \in S, NEW y \in S, <<x, y>> \in before
      PROVE  Cardinality(Earlier(x)) < Cardinality(Earlier(y))
  <2>1. Earlier(x) \in SUBSET Earlier(y) /\ x \in Earlier(y) /\ x \notin Earlier(x)
    BY <1>3
  <2>. HIDE DEF Earlier
  <2>2. IsFiniteSet(Earlier(y)) /\ Cardinality(Earlier(x)) \in Nat /\ Cardinality(Earlier(y)) \in Nat
    BY <1>1, <1>2
  <2>3. Cardinality(Earlier(x)) <= Cardinality(Earlier(y)) /\ Cardinality(Earlier(x)) # Cardinality(Earlier(y))
    BY <2>1, <2>2, FS_Subset
  <2>. QED BY <2>2, <2>3
<1>. HIDE DEF Earlier
<1>4. \A x, y \in S : x # y => Cardinality(Earlier(x)) # Cardinality(Earlier(y))
  <2> TAKE x \in S, y \in S
  <2> HAVE x # y
  <2>1. Cardinality(Earlier(x)) \in Nat /\ Cardinality(Earlier(y)) \in Nat
    BY <1>2
  <2>2. Cardinality(Earlier(x)) < Cardinality(Earlier(y)) \/ Cardinality(Earlier(y)) < Cardinality(Earlier(x))
    BY <1>3
  <2>. QED BY <2>1, <2>2
<1>5. place \in Injection(S, 1..N)
  <2>1. place \in [S -> 1..N]
    BY <1>1, <1>2
  <2>2. \A x, y \in S : place[x] = place[y] => x = y
    BY <1>2, <1>4
  <2>. QED BY <2>1, <2>2 DEF Injection, IsInjective
<1>6. place \in Surjection(S, 1..N)
  <2>1. IsFiniteSet(1..N) /\ Cardinality(1..N) = N
    BY <1>1, FS_Interval
  <2>. HIDE DEF place
  <2>. QED BY <2>1, <1>5, FS_Injection
<1>7. \A n \in 1..N : \E x \in S : Cardinality(Earlier(x)) = n - 1
  <2> TAKE n \in 1..N
  <2>1. PICK x \in S : place[x] = n
    <3>. HIDE DEF place
    <3>. QED BY <1>6 DEF Surjection
  <2>. QED BY <2>1, <1>2
<1>. DEFINE order == InOrder(S, before)
<1>8. order = [n \in 1..N |-> CHOOSE x \in S : Cardinality(Earlier(x)) = n - 1]
  BY DEF InOrder, Earlier
<1>9. \A n \in 1..N : order[n] \in S /\ Cardinality(Earlier(order[n])) = n - 1
  BY <1>7, <1>8
<1>10. order \in [1..N -> S]
  BY <1>8, <1>9
<1>11. ASSUME NEW x \in S
       PROVE  \E n \in 1..N : order[n] = x
  <2>1. Cardinality(Earlier(x)) + 1 \in 1..N
    BY <1>1, <1>2
  <2>. DEFINE n == Cardinality(Earlier(x)) + 1
  <2>2. order[n] \in S /\ Cardinality(Earlier(order[n])) = Cardinality(Earlier(x))
    BY <2>1, <1>2, <1>9
  <2>. QED BY <2>1, <2>2, <1>4
<1>12. ASSUME NEW m \in 1..N, NEW n \in 1..N, m < n
       PROVE  <<order[m], order[n]>> \in before
  <2>1. /\ order[m] \in S /\ Cardinality(Earlier(order[m])) = m - 1
        /\ order[n] \in S /\ Cardinality(Earlier(order[n])) = n - 1
    BY <1>9
  <2>. HIDE DEF order
  <2>2. order[m] # order[n]
    BY <2>1, <1>12, <1>1
  <2>3. ~(<<order[n], order[m]>> \in before)
    <3>1. SUFFICES ASSUME <<order[n], order[m]>> \in before PROVE FALSE
      OBVIOUS
    <3>2. Cardinality(Earlier(order[n])) < Cardinality(Earlier(order[m]))
      BY <2>1, <3>1, <1>3
    <3>. QED BY <2>1, <3>2, <1>12, <1>1
  <2>. QED BY <2>1, <2>2, <2>3
<1>. HIDE DEF order
<1>13. /\ order \in [1..N -> S]
       /\ \A x \in S : \E n \in 1..N : order[n] = x
       /\ \A m, n \in 1..N : m < n => <<order[m], order[n]>> \in before
  BY <1>10, <1>11, <1>12
<1>. QED BY <1>13 DEF order

-----------------------------------------------------------------------------
(* _trim_to_budget: the walk along the items                               *)

\* The state of the walk of _trim_to_budget.
Trimming(Item) ==
    [items : Seq(Item), used : Nat, reason : {"result_exhausted", "result_limit", "budget_met"}]

\* Considering an item keeps the trimming one.
LEMMA ConsideredType ==
    ASSUME NEW Item, NEW so_far \in Trimming(Item), NEW item \in Item, item.size \in Nat,
           NEW budget \in Nat, NEW limit \in Nat
    PROVE  Considered(so_far, item, budget, limit) \in Trimming(Item)
<1>. DEFINE used == so_far.used + item.size
            more == [so_far EXCEPT !.items = Append(@, item), !.used = used]
            next == IF used > budget THEN so_far ELSE more
<1>1. used \in Nat
  BY DEF Trimming
<1>2. more \in Trimming(Item)
  <2>1. Append(so_far.items, item) \in Seq(Item)
    BY DEF Trimming
  <2>. QED BY <1>1, <2>1 DEF Trimming
<1>3. next \in Trimming(Item)
  BY <1>2
<1>. HIDE DEF used, more, next
<1>4. [so_far EXCEPT !.reason = "result_limit"] \in Trimming(Item)
  BY DEF Trimming
<1>5. [next EXCEPT !.reason = "budget_met"] \in Trimming(Item)
  BY <1>3 DEF Trimming
<1>. QED
  BY <1>3, <1>4, <1>5 DEF Considered, used, more, next

\* The walk of _trim_to_budget along the precedence.
Trims(items, budget, limit, n, walk) ==
    /\ walk[0] = NothingYet
    /\ \A k \in 1..n :
         walk[k] = Considered(walk[k - 1], items[Precedence(items)[k]], budget, limit)

\* Trim is where such a walk ends.
IsWalked(Item, items, budget, limit, n) ==
    \E walk \in [0..n -> Trimming(Item)] :
       Trims(items, budget, limit, n, walk) /\ Trim(items, budget, limit) = walk[n]

\* Trim is what considering the items one after the other in their precedence
\* ends in.
LEMMA TrimWalks ==
    ASSUME NEW Item, \A c \in Item : c.size \in Nat,
           NEW items \in Seq(Item), NEW budget \in Nat, NEW limit \in Nat,
           NEW n \in Nat, Precedence(items) \in [1..n -> DOMAIN items]
    PROVE  IsWalked(Item, items, budget, limit, n)
<1>. DEFINE V == Trimming(Item)
            order == Precedence(items)
            step == [p \in V \X (1..n) |-> Considered(p[1], items[order[p[2]]], budget, limit)]
            Iter(f) == f = [s \in SUBSET DOMAIN order |->
                IF s = {} THEN NothingYet
                ELSE Considered(f[s \ {Max(s)}], items[order[Max(s)]], budget, limit)]
            iter == CHOOSE f : Iter(f)
<1>1. NothingYet \in V
  BY DEF NothingYet, Trimming
<1>2. \A k \in 1..n : items[order[k]] \in Item
  OBVIOUS
<1>3. \A so_far \in V, k \in 1..n : Considered(so_far, items[order[k]], budget, limit) \in V
  BY <1>2, ConsideredType
<1>4. Trim(items, budget, limit) = iter[DOMAIN order]
  BY DEF Trim, FoldLeft, MapThenFoldSet
<1>5. DOMAIN order = 1..n
  OBVIOUS
<1>. HIDE DEF V, order
<1>6. step \in [V \X (1..n) -> V]
  BY <1>3
<1>7. PICK F \in [SUBSET (1..n) -> V] : FoldsOver(NothingYet, n, step, F)
  <2>. HIDE DEF step
  <2>. QED BY <1>1, <1>6, FoldExists
<1>8. \A s \in SUBSET (1..n) : s # {} => Max(s) \in 1..n /\ s \ {Max(s)} \in SUBSET (1..n)
  BY MaxOfNaturals
<1>9. \A s \in SUBSET (1..n) : F[s] = 
        IF s = {} THEN NothingYet
        ELSE Considered(F[s \ {Max(s)}], items[order[Max(s)]], budget, limit)
  BY <1>7, <1>8 DEF FoldsOver
<1>10. Iter(F)
  <2>1. F = [s \in SUBSET (1..n) |-> F[s]]
    OBVIOUS
  <2>. QED BY <2>1, <1>5, <1>9
<1>11. Iter(iter)
  <2>. HIDE DEF Iter
  <2>. QED BY <1>10
<1>. HIDE DEF iter
<1>12. \A s \in SUBSET (1..n) : iter[s] = 
        IF s = {} THEN NothingYet
        ELSE Considered(iter[s \ {Max(s)}], items[order[Max(s)]], budget, limit)
  BY <1>11, <1>5
<1>13. \A s \in SUBSET (1..n) : iter[s] \in V
  <2>1. iter[{}] \in V
    BY <1>1, <1>12
  <2>2. \A s \in SUBSET (1..n) : s # {} /\ iter[s \ {Max(s)}] \in V => iter[s] \in V
    BY <1>3, <1>8, <1>12
  <2>. QED BY <2>1, <2>2, FoldInto
<1>. DEFINE walk == [k \in 0..n |-> iter[1..k]]
<1>14. walk \in [0..n -> V]
  BY <1>13
<1>15. walk[0] = NothingYet
  <2>1. walk[0] = iter[1..0] /\ 1..0 = {}
    OBVIOUS
  <2>2. iter[{}] = NothingYet
    BY <1>12
  <2>. HIDE DEF walk
  <2>. QED BY <2>1, <2>2
<1>16. ASSUME NEW k \in 1..n
       PROVE  walk[k] = Considered(walk[k - 1], items[order[k]], budget, limit)
  <2>1. /\ Max(1..k) = k /\ (1..k) \ {k} = 1..k - 1
        /\ 1..k \in SUBSET (1..n) /\ 1..k # {}
    BY Prefix
  <2>2. iter[1..k] = Considered(iter[1..k - 1], items[order[k]], budget, limit)
    BY <1>12, <2>1
  <2>. QED BY <2>2
<1>17. Trim(items, budget, limit) = walk[n]
  BY <1>4, <1>5
<1>. HIDE DEF walk
<1>. QED BY <1>14, <1>15, <1>16, <1>17 DEF V, order, Trims, IsWalked

\* Induction up to a bound.
LEMMA UpTo ==
    ASSUME NEW n \in Nat, NEW P, 0 \in P, \A k \in 1..n : k - 1 \in P => k \in P
    PROVE  \A k \in 0..n : k \in P
<1>. DEFINE T == {k \in Nat : k <= n => k \in P}
<1>1. 0 \in T
  OBVIOUS
<1>2. \A k \in Nat : k \in T => k + 1 \in T
  <2> SUFFICES ASSUME NEW k \in Nat, k \in P, k + 1 <= n PROVE k + 1 \in P
    OBVIOUS
  <2>1. k + 1 \in 1..n /\ (k + 1) - 1 = k
    OBVIOUS
  <2>. QED BY <2>1
<1>3. Nat \subseteq T
  <2>. HIDE DEF T
  <2>. QED BY <1>1, <1>2, CountUp
<1>. QED BY <1>3

\* An item is taken or left, and left while the result goes on only if it does
\* not fit.
LEMMA ConsideredSteps ==
    ASSUME NEW Item, NEW so_far \in Trimming(Item), NEW item \in Item, item.size \in Nat,
           NEW budget \in Nat, NEW limit \in Nat,
           NEW next, next = Considered(so_far, item, budget, limit)
    PROVE  /\ \/ next.items = so_far.items /\ next.used = so_far.used
              \/ /\ next.items = Append(so_far.items, item)
                 /\ next.used = so_far.used + item.size
                 /\ so_far.reason = "result_exhausted"
           /\ next.reason = "result_exhausted" =>
                /\ so_far.reason = "result_exhausted"
                /\ \/ next.items = Append(so_far.items, item)
                   \/ so_far.used + item.size > budget
<1>. DEFINE used == so_far.used + item.size
            more == [so_far EXCEPT !.items = Append(@, item), !.used = used]
            then == IF used > budget THEN so_far ELSE more
<1>1. /\ more.items = Append(so_far.items, item) /\ more.used = used
      /\ more.reason = so_far.reason
  BY DEF Trimming
<1>2. then \in Trimming(Item) /\ so_far \in Trimming(Item)
  <2>1. Append(so_far.items, item) \in Seq(Item) /\ used \in Nat
    BY DEF Trimming
  <2>. QED BY <2>1 DEF Trimming
<1>3. \/ used > budget /\ then = so_far
      \/ ~(used > budget) /\ then = more
  OBVIOUS
<1>4. next = IF so_far.reason # "result_exhausted" THEN so_far
             ELSE IF Len(so_far.items) >= limit THEN [so_far EXCEPT !.reason = "result_limit"]
             ELSE IF then.used >= budget THEN [then EXCEPT !.reason = "budget_met"]
             ELSE then
  BY DEF Considered
<1>. HIDE DEF used, more, then
<1>5. CASE so_far.reason # "result_exhausted"
  BY <1>4, <1>5
<1>6. CASE so_far.reason = "result_exhausted" /\ Len(so_far.items) >= limit
  BY <1>4, <1>6, <1>2 DEF Trimming
<1>7. CASE so_far.reason = "result_exhausted" /\ ~(Len(so_far.items) >= limit)
  <2>1. /\ next.items = then.items /\ next.used = then.used
        /\ next.reason = then.reason \/ next.reason = "budget_met"
    BY <1>4, <1>7, <1>2 DEF Trimming
  <2>. QED BY <2>1, <1>1, <1>3, <1>7 DEF used
<1>. QED BY <1>5, <1>6, <1>7

\* What an appended list holds, and where.
LEMMA Appended ==
    ASSUME NEW Item, NEW list \in Seq(Item), NEW item \in Item
    PROVE  /\ Append(list, item) \in Seq(Item)
           /\ Len(Append(list, item)) = Len(list) + 1
           /\ DOMAIN Append(list, item) = DOMAIN list \union {Len(list) + 1}
           /\ Len(list) + 1 \notin DOMAIN list
           /\ Append(list, item)[Len(list) + 1] = item
           /\ \A j \in DOMAIN list : Append(list, item)[j] = list[j]
OBVIOUS

\* The sizes of the items of a list.
Sizes(list) == [j \in DOMAIN list |-> list[j].size]

\* One more item adds its size.
LEMMA SizesOfMore ==
    ASSUME NEW Item, \A c \in Item : c.size \in Nat, NEW list \in Seq(Item), NEW item \in Item
    PROVE  SumFunctionOnSet(Sizes(Append(list, item)), DOMAIN Append(list, item))
             = SumFunctionOnSet(Sizes(list), DOMAIN list) + item.size
<1>. DEFINE more == Append(list, item)
            n == Len(list)
<1>1. n \in Nat /\ DOMAIN list = 1..n /\ DOMAIN more = 1..n + 1 /\ more[n + 1] = item
      /\ \A j \in 1..n : more[j] = list[j] /\ list[j] \in Item
  OBVIOUS
<1>. HIDE DEF more, n
<1>2. IsFiniteSet(1..n) /\ IsFiniteSet(1..n + 1)
  BY <1>1, FS_Interval
<1>3. /\ \A j \in 1..n + 1 : Sizes(more)[j] \in Nat
      /\ Sizes(more)[n + 1] = item.size
      /\ \A j \in 1..n : Sizes(more)[j] = Sizes(list)[j]
  BY <1>1 DEF Sizes
<1>4. SumFunctionOnSet(Sizes(more), 1..n + 1)
        = Sizes(more)[n + 1] + SumFunctionOnSet(Sizes(more), (1..n + 1) \ {n + 1})
  BY <1>1, <1>2, <1>3, SumElement
<1>5. (1..n + 1) \ {n + 1} = 1..n
  BY <1>1
<1>6. \A j \in 1..n : Sizes(more)[j] \in Nat /\ Sizes(more)[j] = Sizes(list)[j]
  BY <1>1, <1>3
<1>7. SumFunctionOnSet(Sizes(more), 1..n) = SumFunctionOnSet(Sizes(list), 1..n)
  BY <1>2, <1>6, SumSame
<1>8. SumFunctionOnSet(Sizes(list), 1..n) \in Nat
  BY <1>2, <1>6, <1>7, SumType
<1>9. item.size \in Nat
  OBVIOUS
<1>10. SumFunctionOnSet(Sizes(more), DOMAIN more) = SumFunctionOnSet(Sizes(list), DOMAIN list) + item.size
  <2>1. SumFunctionOnSet(Sizes(more), 1..n + 1) = item.size + SumFunctionOnSet(Sizes(list), 1..n)
    BY <1>3, <1>4, <1>5, <1>7
  <2>. HIDE DEF Sizes
  <2>. QED BY <2>1, <1>1, <1>8, <1>9
<1>. QED BY <1>10 DEF more

\* What the items that were considered up to position k leave behind.
Drawn(items, n, walk, k) ==
    /\ \A j \in DOMAIN walk[k].items : \E q \in 1..k :
         walk[k].items[j] = items[Precedence(items)[q]] /\ walk[q - 1].reason = "result_exhausted"
    /\ \A m \in 0..k : Len(walk[m].items) <= Len(walk[k].items)
                       /\ \A j \in DOMAIN walk[m].items : walk[k].items[j] = walk[m].items[j]
    /\ walk[k].reason = "result_exhausted" => \A m \in 0..k : walk[m].reason = "result_exhausted"
    /\ walk[k].used = SumFunctionOnSet(Sizes(walk[k].items), DOMAIN walk[k].items)

\* What was taken after k items is some of those k, their sizes are what was
\* used, and what is missing did not fit what was used.
LEMMA TrimDraws ==
    ASSUME NEW Item, \A c \in Item : c.size \in Nat,
           NEW items \in Seq(Item), NEW budget \in Nat, NEW limit \in Nat,
           NEW n \in Nat, Precedence(items) \in [1..n -> DOMAIN items],
           NEW walk \in [0..n -> Trimming(Item)], Trims(items, budget, limit, n, walk)
    PROVE  \A k \in 0..n : Drawn(items, n, walk, k)
<1>. DEFINE order == Precedence(items)
            P == {k \in Nat : Drawn(items, n, walk, k)}
<1>1. 0 \in P
  <2>1. walk[0].items = <<>> /\ walk[0].used = 0 /\ walk[0].reason = "result_exhausted"
    BY DEF Trims, NothingYet
  <2>2. DOMAIN walk[0].items = {} /\ 0..0 = {0}
    BY <2>1
  <2>3. walk[0].used = SumFunctionOnSet(Sizes(walk[0].items), DOMAIN walk[0].items)
    BY <2>1, <2>2, SumEmpty
  <2>. QED BY <2>1, <2>2, <2>3 DEF Drawn
<1>2. ASSUME NEW k \in 1..n, k - 1 \in P
      PROVE  k \in P
  <2>. DEFINE old == walk[k - 1]
              new == walk[k]
              item == items[order[k]]
  <2>1. k - 1 \in 0..n /\ k \in 0..n /\ old \in Trimming(Item) /\ new \in Trimming(Item) /\ item \in Item
    OBVIOUS
  <2>2. new = Considered(old, item, budget, limit)
    BY DEF Trims
  <2>3. /\ \/ new.items = old.items /\ new.used = old.used
           \/ /\ new.items = Append(old.items, item)
              /\ new.used = old.used + item.size
              /\ old.reason = "result_exhausted"
        /\ new.reason = "result_exhausted" => old.reason = "result_exhausted"
    <3>1. item.size \in Nat
      BY <2>1
    <3>. HIDE DEF old, new, item
    <3>. QED BY <2>1, <2>2, <3>1, ConsideredSteps
  <2>4. Drawn(items, n, walk, k - 1)
    BY <1>2
  <2>5. old.items \in Seq(Item) /\ new.items \in Seq(Item)
    BY <2>1 DEF Trimming
  <2>6. \A j \in DOMAIN old.items : new.items[j] = old.items[j]
    <3>. HIDE DEF old, new, item
    <3>1. \A j \in DOMAIN old.items : Append(old.items, item)[j] = old.items[j]
      BY <2>1, <2>5, Appended
    <3>. QED BY <2>3, <3>1
  <2>7. Len(old.items) <= Len(new.items)
    BY <2>3, <2>5
  <2>8. ASSUME NEW j \in DOMAIN new.items
        PROVE  \E q \in 1..k : new.items[j] = items[order[q]] /\ walk[q - 1].reason = "result_exhausted"
    <3>1. CASE j \in DOMAIN old.items
      <4>1. PICK q \in 1..k - 1 : old.items[j] = items[order[q]] /\ walk[q - 1].reason = "result_exhausted"
        BY <3>1, <2>4 DEF Drawn
      <4>2. q \in 1..k
        OBVIOUS
      <4>. QED BY <4>1, <4>2, <2>6, <3>1
    <3>2. CASE j \notin DOMAIN old.items
      <4>1. new.items[j] = item /\ old.reason = "result_exhausted"
        <5>. HIDE DEF old, new, item
        <5>1. /\ DOMAIN Append(old.items, item) = DOMAIN old.items \union {Len(old.items) + 1}
              /\ Append(old.items, item)[Len(old.items) + 1] = item
          BY <2>1, <2>5, Appended
        <5>. QED BY <2>3, <3>2, <5>1
      <4>2. k \in 1..k
        OBVIOUS
      <4>. QED BY <4>1, <4>2
    <3>. QED BY <3>1, <3>2
  <2>9. ASSUME NEW m \in 0..k
        PROVE  /\ Len(walk[m].items) <= Len(new.items)
               /\ \A j \in DOMAIN walk[m].items : new.items[j] = walk[m].items[j]
    <3>1. CASE m = k
      BY <3>1, <2>5
    <3>2. CASE m # k
      <4>1. m \in 0..k - 1
        BY <3>2
      <4>2. /\ Len(walk[m].items) <= Len(old.items)
            /\ \A j \in DOMAIN walk[m].items : old.items[j] = walk[m].items[j]
        BY <4>1, <2>4 DEF Drawn
      <4>3. walk[m].items \in Seq(Item)
        <5>1. m \in 0..n
          OBVIOUS
        <5>. QED BY <5>1 DEF Trimming
      <4>. HIDE DEF old, new
      <4>4. DOMAIN walk[m].items \subseteq DOMAIN old.items
        BY <4>2, <4>3, <2>5
      <4>5. Len(walk[m].items) <= Len(new.items)
        BY <4>2, <4>3, <2>5, <2>7
      <4>. QED BY <4>2, <4>4, <4>5, <2>6
    <3>. QED BY <3>1, <3>2
  <2>10. ASSUME new.reason = "result_exhausted", NEW m \in 0..k
         PROVE  walk[m].reason = "result_exhausted"
    <3>1. CASE m = k
      BY <3>1, <2>10
    <3>2. CASE m # k
      <4>1. m \in 0..k - 1
        BY <3>2
      <4>. QED BY <4>1, <2>3, <2>4, <2>10 DEF Drawn
    <3>. QED BY <3>1, <3>2
  <2>11. new.used = SumFunctionOnSet(Sizes(new.items), DOMAIN new.items)
    <3>1. old.used = SumFunctionOnSet(Sizes(old.items), DOMAIN old.items)
      BY <2>4 DEF Drawn
    <3>2. SumFunctionOnSet(Sizes(Append(old.items, item)), DOMAIN Append(old.items, item))
             = SumFunctionOnSet(Sizes(old.items), DOMAIN old.items) + item.size
      <4>. HIDE DEF old, item
      <4>. QED BY <2>1, <2>5, SizesOfMore
    <3>. HIDE DEF old, new, item
    <3>. QED BY <2>3, <3>1, <3>2
  <2>. HIDE DEF old, item
  <2>12. Drawn(items, n, walk, k)
    BY <2>8, <2>9, <2>10, <2>11 DEF Drawn
  <2>. QED BY <2>12
<1>3. \A k \in 0..n : k \in P
  <2>. HIDE DEF P
  <2>. QED BY <1>1, <1>2, UpTo
<1>. QED BY <1>3

-----------------------------------------------------------------------------
(* _trim_to_budget: layers                                                 *)

\* There are four layers.
LEMMA LayerType == DOMAIN Layer = {"canonical", "fact", "summary", "excerpt"}
                   /\ \A t \in DOMAIN Layer : Layer[t] \in 1..4
BY DEF Layer

\* Precedence lists every item once, a layer before the lower ones.
LEMMA PrecedenceSorts ==
    ASSUME NEW Item, \A c \in Item : c.type \in DOMAIN Layer /\ c.score \in Nat,
           NEW items \in Seq(Item)
    PROVE  /\ Precedence(items) \in [1..Len(items) -> DOMAIN items]
           /\ \A i \in DOMAIN items : \E k \in 1..Len(items) : Precedence(items)[k] = i
           /\ \A j, k \in 1..Len(items) :
                j < k => <<Precedence(items)[j], Precedence(items)[k]>> \in Precedes(items)
<1>. DEFINE D == DOMAIN items
            layer(i) == Layer[items[i].type]
            score(i) == items[i].score
<1>1. D = 1..Len(items) /\ Len(items) \in Nat
  OBVIOUS
<1>2. \A i \in D : i \in Nat /\ layer(i) \in Nat /\ score(i) \in Nat
  BY LayerType
<1>3. \A i, j \in D : <<i, j>> \in Precedes(items) <=>
         \/ layer(i) < layer(j)
         \/ layer(i) = layer(j) /\ score(i) > score(j)
         \/ layer(i) = layer(j) /\ score(i) = score(j) /\ i < j
  BY DEF Precedes
<1>4. IsFiniteSet(D) /\ Cardinality(D) = Len(items)
  BY <1>1, FS_Interval
<1>. HIDE DEF D, layer, score
<1>5. \A i \in D : <<i, i>> \notin Precedes(items)
  BY <1>2, <1>3
<1>6. \A i, j \in D : i # j => <<i, j>> \in Precedes(items) \/ <<j, i>> \in Precedes(items)
  BY <1>2, <1>3
<1>7. \A i, j, k \in D :
        <<i, j>> \in Precedes(items) /\ <<j, k>> \in Precedes(items) => <<i, k>> \in Precedes(items)
  BY <1>2, <1>3
<1>8. /\ InOrder(D, Precedes(items)) \in [1..Cardinality(D) -> D]
      /\ \A i \in D : \E n \in 1..Cardinality(D) : InOrder(D, Precedes(items))[n] = i
      /\ \A m, n \in 1..Cardinality(D) :
           m < n => <<InOrder(D, Precedes(items))[m], InOrder(D, Precedes(items))[n]>> \in Precedes(items)
  BY <1>4, <1>5, <1>6, <1>7, InOrderSorts
<1>9. Precedence(items) = InOrder(D, Precedes(items))
  BY DEF Precedence, D
<1>. QED BY <1>4, <1>8, <1>9 DEF D

\* No row is listed twice.
Distinct(list) == \A i, j \in DOMAIN list : i # j => list[i].id # list[j].id

\* what an item of a list must be to be ranked
Rankable(Item) == \A c \in Item : c.type \in DOMAIN Layer /\ c.score \in Nat /\ c.size \in Nat

\* Trimming repeats nothing.
LEMMA TrimDistinct ==
    ASSUME NEW Item, Rankable(Item),
           NEW items \in Seq(Item), Distinct(items), NEW budget \in Nat, NEW limit \in Nat,
           NEW n \in Nat, n = Len(items),
           NEW walk \in [0..n -> Trimming(Item)], Trims(items, budget, limit, n, walk)
    PROVE  \A k \in 0..n : Distinct(walk[k].items)
<1>. DEFINE order == Precedence(items)
            P == {k \in Nat : Distinct(walk[k].items)}
<1>0. \A c \in Item : c.type \in DOMAIN Layer /\ c.score \in Nat /\ c.size \in Nat
  BY DEF Rankable
<1>1. order \in [1..n -> DOMAIN items] /\ \A j, k \in 1..n : j < k => order[j] # order[k]
  <2>1. /\ Precedence(items) \in [1..Len(items) -> DOMAIN items]
        /\ \A j, k \in 1..Len(items) :
                j < k => <<Precedence(items)[j], Precedence(items)[k]>> \in Precedes(items)
    BY <1>0, PrecedenceSorts
  <2>2. \A i \in DOMAIN items : <<i, i>> \notin Precedes(items)
    BY <1>0, LayerType DEF Precedes
  <2>. QED BY <2>1, <2>2
<1>2. \A k \in 0..n : Drawn(items, n, walk, k)
  BY <1>0, <1>1, TrimDraws
<1>3. 0 \in P
  BY DEF Trims, NothingYet, Distinct
<1>4. ASSUME NEW k \in 1..n, k - 1 \in P
      PROVE  k \in P
  <2>. DEFINE old == walk[k - 1]
              new == walk[k]
              item == items[order[k]]
  <2>1. k - 1 \in 0..n /\ k \in 0..n /\ old \in Trimming(Item) /\ new \in Trimming(Item) /\ item \in Item
    <3>1. k - 1 \in 0..n /\ k \in 0..n
      OBVIOUS
    <3>2. order[k] \in DOMAIN items
      BY <1>1
    <3>. HIDE DEF order
    <3>. QED BY <3>1, <3>2
  <2>2. new = Considered(old, item, budget, limit)
    BY DEF Trims
  <2>3. new.items = old.items \/ new.items = Append(old.items, item)
    <3>1. item.size \in Nat
      BY <2>1, <1>0
    <3>. HIDE DEF old, new, item
    <3>. QED BY <2>1, <2>2, <3>1, ConsideredSteps
  <2>4. old.items \in Seq(Item)
    BY <2>1 DEF Trimming
  <2>5. \A j \in DOMAIN old.items : old.items[j].id # item.id
    <3> TAKE j \in DOMAIN old.items
    <3>1. PICK q \in 1..k - 1 : old.items[j] = items[order[q]]
      BY <1>2, <2>1 DEF Drawn
    <3>2. order[q] # order[k] /\ order[q] \in DOMAIN items /\ order[k] \in DOMAIN items
      <4>1. q \in 1..n /\ q < k
        OBVIOUS
      <4>. HIDE DEF order
      <4>. QED BY <4>1, <1>1
    <3>. QED BY <3>1, <3>2 DEF Distinct
  <2>6. Distinct(old.items)
    BY <1>4
  <2>. HIDE DEF old, new, item
  <2>7. ASSUME new.items = Append(old.items, item) PROVE Distinct(new.items)
    <3>1. /\ DOMAIN Append(old.items, item) = DOMAIN old.items \union {Len(old.items) + 1}
          /\ Append(old.items, item)[Len(old.items) + 1] = item
          /\ \A j \in DOMAIN old.items : Append(old.items, item)[j] = old.items[j]
      BY <2>1, <2>4, Appended
    <3>. QED BY <2>5, <2>6, <2>7, <3>1 DEF Distinct
  <2>8. ASSUME new.items = old.items PROVE Distinct(new.items)
    BY <2>6, <2>8
  <2>9. Distinct(walk[k].items)
    BY <2>3, <2>7, <2>8 DEF new
  <2>10. k \in Nat
    OBVIOUS
  <2>. QED BY <2>9, <2>10
<1>5. \A k \in 0..n : k \in P
  <2>. HIDE DEF P
  <2>. QED BY <1>3, <1>4, UpTo
<1>. QED BY <1>5

\* what a trimmed list is: items of the list, once each
LEMMA TrimSelects ==
    ASSUME NEW Item, Rankable(Item), NEW items \in Seq(Item), Distinct(items),
           NEW budget \in Nat, NEW limit \in Nat
    PROVE  /\ Trim(items, budget, limit) \in Trimming(Item)
           /\ \A j \in DOMAIN Trim(items, budget, limit).items :
                \E i \in DOMAIN items : Trim(items, budget, limit).items[j] = items[i]
           /\ Distinct(Trim(items, budget, limit).items)
<1>. DEFINE n == Len(items)
<1>0. \A c \in Item : c.type \in DOMAIN Layer /\ c.score \in Nat /\ c.size \in Nat
  BY DEF Rankable
<1>1. n \in Nat /\ Precedence(items) \in [1..n -> DOMAIN items]
  BY <1>0, PrecedenceSorts
<1>2. PICK walk \in [0..n -> Trimming(Item)] :
        Trims(items, budget, limit, n, walk) /\ Trim(items, budget, limit) = walk[n]
  <2>1. \A c \in Item : c.size \in Nat
    BY <1>0
  <2>2. IsWalked(Item, items, budget, limit, n)
    BY <1>1, <2>1, TrimWalks
  <2>. QED BY <2>2 DEF IsWalked
<1>3. Drawn(items, n, walk, n) /\ Distinct(walk[n].items)
  <2>1. n \in 0..n
    BY <1>1
  <2>2. \A k \in 0..n : Drawn(items, n, walk, k)
    BY <1>0, <1>1, <1>2, TrimDraws
  <2>3. \A k \in 0..n : Distinct(walk[k].items)
    BY <1>1, <1>2, TrimDistinct
  <2>. QED BY <2>1, <2>2, <2>3
<1>4. walk[n] \in Trimming(Item)
  BY <1>1
<1>5. \A j \in DOMAIN walk[n].items : \E i \in DOMAIN items : walk[n].items[j] = items[i]
  BY <1>1, <1>3 DEF Drawn
<1>. HIDE DEF n
<1>. QED BY <1>2, <1>3, <1>4, <1>5

\* An item is missing only if it did not fit beside its own and higher layers,
\* when one of a lower layer is there.
LEMMA TrimByLayer ==
    ASSUME NEW Item, Rankable(Item), NEW items \in Seq(Item), Distinct(items),
           NEW budget \in Nat, NEW limit \in Nat,
           NEW answer, answer = Trim(items, budget, limit).items,
           NEW i \in DOMAIN items, NEW j \in DOMAIN answer,
           \A k \in DOMAIN answer : answer[k].id # items[i].id,
           Layer[items[i].type] < Layer[answer[j].type]
    PROVE  items[i].size
             + SumFunctionOnSet(Sizes(answer),
                 {k \in DOMAIN answer : Layer[answer[k].type] <= Layer[items[i].type]}) > budget
<1>. DEFINE n == Len(items)
            order == Precedence(items)
            layer(x) == Layer[items[x].type]
<1>0. \A c \in Item : c.type \in DOMAIN Layer /\ c.score \in Nat /\ c.size \in Nat
  BY DEF Rankable
<1>1. /\ n \in Nat /\ order \in [1..n -> DOMAIN items]
      /\ \A x \in DOMAIN items : \E k \in 1..n : order[k] = x
      /\ \A x, y \in 1..n : x < y => <<order[x], order[y]>> \in Precedes(items)
  BY <1>0, PrecedenceSorts
<1>2. PICK walk \in [0..n -> Trimming(Item)] :
        Trims(items, budget, limit, n, walk) /\ Trim(items, budget, limit) = walk[n]
  <2>1. \A c \in Item : c.size \in Nat
    BY <1>0
  <2>2. IsWalked(Item, items, budget, limit, n)
    BY <1>1, <2>1, TrimWalks
  <2>. QED BY <2>2 DEF IsWalked
<1>3. \A k \in 0..n : Drawn(items, n, walk, k)
  BY <1>0, <1>1, <1>2, TrimDraws
<1>4. \A x \in DOMAIN items : items[x] \in Item /\ layer(x) \in Nat
  BY <1>0, LayerType
<1>5. \A x, y \in 1..n : x < y => layer(order[x]) <= layer(order[y])
  <2> TAKE x \in 1..n, y \in 1..n
  <2> HAVE x < y
  <2>1. <<order[x], order[y]>> \in Precedes(items) /\ order[x] \in DOMAIN items /\ order[y] \in DOMAIN items
    BY <1>1
  <2>2. layer(order[x]) \in Nat /\ layer(order[y]) \in Nat
    BY <1>4, <2>1
  <2>3. layer(order[x]) < layer(order[y]) \/ layer(order[x]) = layer(order[y])
    BY <2>1 DEF Precedes
  <2>. HIDE DEF layer, order
  <2>. QED BY <2>2, <2>3
<1>6. n \in 0..n /\ answer = walk[n].items /\ walk[n] \in Trimming(Item)
  BY <1>1, <1>2
<1>. HIDE DEF n, order
<1>7. PICK p \in 1..n : order[p] = i
  BY <1>1
<1>8. PICK q \in 1..n : answer[j] = items[order[q]] /\ walk[q - 1].reason = "result_exhausted"
  BY <1>3, <1>6 DEF Drawn, order
<1>9. p < q
  <2>1. layer(order[p]) < layer(order[q])
    BY <1>7, <1>8
  <2>2. layer(order[p]) \in Nat /\ layer(order[q]) \in Nat
    BY <1>1, <1>4
  <2>3. ~(q < p) /\ p # q
    <3>. HIDE DEF layer
    <3>. QED BY <1>5, <2>1, <2>2
  <2>. QED BY <2>3, <1>1
<1>10. p \in 0..n /\ p - 1 \in 0..n /\ q - 1 \in 0..n /\ p \in 0..(q - 1) /\ p - 1 \in 0..p - 1
  BY <1>1, <1>9
<1>11. walk[p].reason = "result_exhausted"
  BY <1>3, <1>8, <1>10 DEF Drawn
<1>. DEFINE old == walk[p - 1]
            new == walk[p]
            item == items[i]
<1>12. old \in Trimming(Item) /\ new \in Trimming(Item) /\ item \in Item /\ item.size \in Nat
  BY <1>0, <1>4, <1>10
<1>13. new = Considered(old, item, budget, limit)
  BY <1>2, <1>7 DEF Trims, order
<1>14. new.items = Append(old.items, item) \/ old.used + item.size > budget
  <2>. HIDE DEF old, new, item
  <2>. QED BY <1>11, <1>12, <1>13, ConsideredSteps DEF new
<1>15. old.items \in Seq(Item) /\ new.items \in Seq(Item) /\ answer \in Seq(Item)
  BY <1>6, <1>12 DEF Trimming
<1>16. new.items # Append(old.items, item)
  <2>1. SUFFICES ASSUME new.items = Append(old.items, item) PROVE FALSE
    OBVIOUS
  <2>2. Len(old.items) + 1 \in DOMAIN new.items /\ new.items[Len(old.items) + 1] = item
    <3>. HIDE DEF old, new, item
    <3>. QED BY <1>12, <1>15, <2>1, Appended
  <2>3. /\ Len(new.items) <= Len(answer)
        /\ answer[Len(old.items) + 1] = item
    <3>1. Drawn(items, n, walk, n) /\ p \in 0..n
      BY <1>3, <1>6, <1>10
    <3>. QED BY <3>1, <2>2, <1>6 DEF Drawn
  <2>4. Len(old.items) + 1 \in DOMAIN answer
    <3>. HIDE DEF old, new, item
    <3>. QED BY <2>2, <2>3, <1>15
  <2>. QED BY <2>3, <2>4
<1>17. old.used + item.size > budget
  BY <1>14, <1>16
<1>18. /\ old.used = SumFunctionOnSet(Sizes(old.items), DOMAIN old.items)
       /\ Len(old.items) <= Len(answer)
       /\ \A k \in DOMAIN old.items : answer[k] = old.items[k]
  BY <1>3, <1>6, <1>10 DEF Drawn
<1>19. DOMAIN old.items \subseteq DOMAIN answer
  <2>. HIDE DEF old
  <2>. QED BY <1>15, <1>18
<1>. DEFINE higher == {k \in DOMAIN answer : Layer[answer[k].type] <= Layer[items[i].type]}
<1>20. \A k \in DOMAIN old.items : Layer[answer[k].type] <= Layer[items[i].type]
  <2> TAKE k \in DOMAIN old.items
  <2>1. PICK m \in 1..p - 1 : old.items[k] = items[order[m]]
    BY <1>3, <1>10 DEF Drawn, order
  <2>2. m \in 1..n /\ m < p
    BY <1>1, <1>7
  <2>3. layer(order[m]) <= layer(order[p])
    BY <1>5, <2>2
  <2>. QED BY <2>1, <2>3, <1>7, <1>18
<1>21. DOMAIN old.items \in SUBSET higher
  BY <1>19, <1>20
<1>22. IsFiniteSet(higher) /\ IsFiniteSet(DOMAIN old.items)
  <2>1. IsFiniteSet(DOMAIN answer) 
    <3>1. DOMAIN answer = 1..Len(answer) /\ Len(answer) \in Nat
      BY <1>15
    <3>2. IsFiniteSet(1..Len(answer))
      <4>. DEFINE m == Len(answer)
      <4>1. m \in Nat
        BY <3>1
      <4>. HIDE DEF m
      <4>2. IsFiniteSet(1..m)
        BY <4>1, FS_Interval
      <4>. QED BY <4>2 DEF m
    <3>. QED BY <3>1, <3>2
  <2>. QED BY <2>1, <1>21, FS_Subset
<1>23. \A k \in higher : Sizes(answer)[k] \in Nat
  BY <1>0, <1>15 DEF Sizes
<1>24. SumFunctionOnSet(Sizes(answer), DOMAIN old.items) <= SumFunctionOnSet(Sizes(answer), higher)
  <2>. HIDE DEF higher, old
  <2>. QED BY <1>21, <1>22, <1>23, SumSubset
<1>25. \A k \in DOMAIN old.items : Sizes(answer)[k] \in Nat /\ Sizes(answer)[k] = Sizes(old.items)[k]
  BY <1>18, <1>21, <1>23 DEF Sizes
<1>26. SumFunctionOnSet(Sizes(answer), DOMAIN old.items) = SumFunctionOnSet(Sizes(old.items), DOMAIN old.items)
  <2>. HIDE DEF old
  <2>. QED BY <1>22, <1>25, SumSame
<1>27. SumFunctionOnSet(Sizes(answer), higher) \in Nat /\ old.used \in Nat
  <2>. HIDE DEF higher
  <2>. QED BY <1>12, <1>22, <1>23, SumType DEF Trimming
<1>28. old.used <= SumFunctionOnSet(Sizes(answer), higher)
  BY <1>18, <1>24, <1>26
<1>29. item.size + SumFunctionOnSet(Sizes(answer), higher) > budget
  <2>. HIDE DEF old, item, higher
  <2>. QED BY <1>12, <1>17, <1>27, <1>28
<1>. QED BY <1>29

-----------------------------------------------------------------------------
(* Rows, units and scores                                                  *)

\* the rows that a search returns, with a score of its own
Scored ==
    {[id |-> c.id, type |-> c.type, source |-> c.source, size |-> c.size, score |-> n] :
       c \in Rows, n \in Nat}

\* The same row, whatever its score.
Alike(x, y) == x.id = y.id /\ x.type = y.type /\ x.source = y.source /\ x.size = y.size

\* A row with a score is a row with a score.
LEMMA RowScored ==
    ASSUME NEW c \in Rows, NEW n \in Nat
    PROVE  /\ [c EXCEPT !.score = n] \in Scored
           /\ Alike([c EXCEPT !.score = n], c) /\ [c EXCEPT !.score = n].score = n
           /\ c \in Scored
<1>1. c = [id |-> c.id, type |-> c.type, source |-> c.source, size |-> c.size, score |-> 0]
  BY RecallAssumption
<1>2. [c EXCEPT !.score = n]
        = [id |-> c.id, type |-> c.type, source |-> c.source, size |-> c.size, score |-> n]
  BY <1>1
<1>3. [c EXCEPT !.score = n] \in Scored
  <2>1. [id |-> c.id, type |-> c.type, source |-> c.source, size |-> c.size, score |-> n] \in Scored
    BY DEF Scored
  <2>. QED BY <1>2, <2>1, Zenon
<1>4. c \in Scored
  BY <1>1, 0 \in Nat DEF Scored
<1>5. Alike([c EXCEPT !.score = n], c) /\ [c EXCEPT !.score = n].score = n
  BY <1>2 DEF Alike
<1>. QED BY <1>3, <1>4, <1>5

\* What is scored is one of the rows, but for its score.
LEMMA ScoredIs ==
    ASSUME NEW x \in Scored
    PROVE  /\ \E c \in Rows : Alike(x, c)
           /\ x.score \in Nat /\ x.size \in Nat /\ x.type \in DOMAIN Layer /\ x.source \in Sources
<1>1. PICK c \in Rows, n \in Nat :
        x = [id |-> c.id, type |-> c.type, source |-> c.source, size |-> c.size, score |-> n]
  BY DEF Scored
<1>2. Alike(x, c) /\ x.score = n
  BY <1>1 DEF Alike
<1>3. c.source \in Sources /\ c.type \in DOMAIN Layer /\ c.size \in Nat
  BY RecallAssumption
<1>. QED BY <1>2, <1>3 DEF Alike

\* A new score keeps the row.
LEMMA Rescored ==
    ASSUME NEW x \in Scored, NEW n \in Nat
    PROVE  /\ [x EXCEPT !.score = n] \in Scored
           /\ Alike([x EXCEPT !.score = n], x) /\ [x EXCEPT !.score = n].score = n
<1>1. PICK c \in Rows, m \in Nat :
        x = [id |-> c.id, type |-> c.type, source |-> c.source, size |-> c.size, score |-> m]
  BY DEF Scored
<1>2. [x EXCEPT !.score = n]
        = [id |-> c.id, type |-> c.type, source |-> c.source, size |-> c.size, score |-> n]
  BY <1>1
<1>. QED BY <1>1, <1>2 DEF Scored, Alike

\* What is scored can be ranked.
LEMMA ScoredRankable == Rankable(Scored)
BY ScoredIs DEF Rankable

\* An id names one row.
LEMMA OneRow ==
    ASSUME NEW x \in Scored, NEW y \in Scored, x.id = y.id
    PROVE  Alike(x, y)
<1>1. PICK c \in Rows : Alike(x, c)
  BY ScoredIs
<1>2. PICK d \in Rows : Alike(y, d)
  BY ScoredIs
<1>3. c.id = d.id
  BY <1>1, <1>2 DEF Alike
<1>4. c = d
  BY <1>3, RecallAssumption
<1>. QED BY <1>1, <1>2, <1>4 DEF Alike

\* The key of the fusion does not depend on the score.
LEMMA AlikeKey ==
    ASSUME NEW x, NEW y, Alike(x, y)
    PROVE  FusionKey(x) = FusionKey(y)
BY DEF Alike, FusionKey

\* Two results show the same unit when their keys are equal.
LEMMA UnitKey ==
    ASSUME NEW x \in Scored, NEW y \in Scored
    PROVE  SameUnit(x, y) <=> FusionKey(x) = FusionKey(y)
<1>1. x.type \in {"canonical", "fact", "summary", "excerpt"} /\ y.type \in {"canonical", "fact", "summary", "excerpt"}
  BY ScoredIs, LayerType
<1>2. ASSUME x.id = y.id PROVE FusionKey(x) = FusionKey(y)
  BY <1>2, OneRow, AlikeKey
<1>3. ASSUME {x.type, y.type} \subseteq {"summary", "excerpt"}, x.source = y.source
      PROVE FusionKey(x) = FusionKey(y)
  BY <1>3 DEF FusionKey
<1>4. ASSUME FusionKey(x) = FusionKey(y), x.id # y.id
      PROVE {x.type, y.type} \subseteq {"summary", "excerpt"} /\ x.source = y.source
  BY <1>1, <1>4 DEF FusionKey
<1>. QED BY <1>2, <1>3, <1>4 DEF SameUnit

-----------------------------------------------------------------------------

\* The numbers of the fusion, and how far a list reaches.
LEMMA RanksPositive == /\ RRF_K \in Nat \ {0} /\ RRF_Worst \in Nat \ {0} /\ RRF_TopN \in Nat \ {0}
                       /\ MaxRank \in Nat \ {0} /\ MaxRank <= RRF_K + 1
BY RankingAssumption

\* Unit is divided by what the ranks divide by.
LEMMA UnitIs ==
    /\ Unit \in Nat \ {0}
    /\ \A rank \in 1..MaxRank : \E m \in Nat : Unit = (RRF_K + rank) * m
<1>. DEFINE S == {RRF_K + i : i \in 1..MaxRank}
<1>1. S \subseteq Nat \ {0} /\ S \in SUBSET (0..(RRF_K + MaxRank))
  BY RanksPositive
<1>2. IsFiniteSet(0..(RRF_K + MaxRank))
  <2>. DEFINE m == RRF_K + MaxRank
  <2>1. m \in Nat
    BY RanksPositive
  <2>. HIDE DEF m
  <2>2. IsFiniteSet(0..m)
    BY <2>1, FS_Interval
  <2>. QED BY <2>2 DEF m
<1>3. IsFiniteSet(S)
  <2>. HIDE DEF S
  <2>. QED BY <1>1, <1>2, FS_Subset
<1>4. \A i \in 1..MaxRank : RRF_K + i \in S
  OBVIOUS
<1>5. Unit = ProductSet(S)
  BY DEF Unit
<1>. HIDE DEF S
<1>6. Unit \in Nat \ {0} /\ \A x \in S : \E m \in Nat : Unit = x * m
  BY <1>1, <1>3, <1>5, ProductOf
<1>. QED BY <1>4, <1>6

\* Division of a multiple.
LEMMA DivExact ==
    ASSUME NEW d \in Nat \ {0}, NEW m \in Nat
    PROVE  (d * m) \div d = m
BY Z3

\* The scores of the model are the reciprocals of the code, none of them
\* rounded.
LEMMA ScoreExact ==
    ASSUME NEW rank \in 1..MaxRank
    PROVE  rrf_score(rank) \in Nat /\ rrf_score(rank) * (RRF_K + rank) = Unit
<1>1. PICK m \in Nat : Unit = (RRF_K + rank) * m
  BY UnitIs
<1>2. RRF_K + rank \in Nat \ {0}
  BY RanksPositive
<1>3. rrf_score(rank) = m
  BY <1>1, <1>2, DivExact DEF rrf_score
<1>. DEFINE d == RRF_K + rank
<1>. HIDE DEF d
<1>4. m * d = d * m
  <2>1. d \in Nat
    BY <1>2 DEF d
  <2>. QED BY <2>1
<1>. QED BY <1>1, <1>3, <1>4 DEF d

\* Two votes outweigh one.
LEMMA TwoOutweighOne ==
    ASSUME NEW i \in 1..MaxRank, NEW j \in 1..MaxRank, NEW k \in 1..MaxRank
    PROVE  rrf_score(i) + rrf_score(j) > rrf_score(k)
<1>. DEFINE p == rrf_score(i)
            q == rrf_score(j)
            s == rrf_score(k)
<1>1. /\ p \in Nat /\ q \in Nat /\ s \in Nat
      /\ p * (RRF_K + i) = Unit /\ q * (RRF_K + j) = Unit /\ s * (RRF_K + k) = Unit
  BY ScoreExact
<1>2. RRF_K \in Nat /\ Unit \in Nat /\ Unit > 0 /\ i <= RRF_K + 1 /\ j <= RRF_K + 1 /\ k >= 1
      /\ i \in Nat /\ j \in Nat /\ k \in Nat
  BY UnitIs, RanksPositive
<1>. HIDE DEF p, q, s
<1>3. ASSUME NEW a \in Nat, NEW x \in Nat, NEW y \in Nat, x <= y
      PROVE  a * x <= a * y
  <2>1. PICK e \in Nat : y = x + e
    <3>1. y - x \in Nat /\ y = x + (y - x)
      BY <1>3
    <3>. QED BY <3>1
  <2>2. a * (x + e) = a * x + a * e /\ a * e \in Nat /\ a * x \in Nat
    OBVIOUS
  <2>. QED BY <2>1, <2>2
<1>4. p * (RRF_K + RRF_K + 1) >= Unit
  <2>1. RRF_K + i <= RRF_K + RRF_K + 1 /\ RRF_K + i \in Nat /\ RRF_K + RRF_K + 1 \in Nat
    BY <1>2
  <2>2. p * (RRF_K + i) <= p * (RRF_K + RRF_K + 1)
    BY <1>1, <1>3, <2>1
  <2>3. p * (RRF_K + RRF_K + 1) \in Nat
    BY <1>1, <2>1
  <2>. QED BY <1>1, <1>2, <2>2, <2>3
<1>5. q * (RRF_K + RRF_K + 1) >= Unit
  <2>1. RRF_K + j <= RRF_K + RRF_K + 1 /\ RRF_K + j \in Nat /\ RRF_K + RRF_K + 1 \in Nat
    BY <1>2
  <2>2. q * (RRF_K + j) <= q * (RRF_K + RRF_K + 1)
    BY <1>1, <1>3, <2>1
  <2>3. q * (RRF_K + RRF_K + 1) \in Nat
    BY <1>1, <2>1
  <2>. QED BY <1>1, <1>2, <2>2, <2>3
<1>6. s * (RRF_K + 1) <= Unit
  <2>1. RRF_K + 1 <= RRF_K + k /\ RRF_K + k \in Nat /\ RRF_K + 1 \in Nat
    BY <1>2
  <2>2. s * (RRF_K + 1) <= s * (RRF_K + k)
    BY <1>1, <1>3, <2>1
  <2>. QED BY <1>1, <2>2
<1>7. SUFFICES ASSUME p + q <= s PROVE FALSE
  BY <1>1 DEF p, q, s
<1>. DEFINE c == RRF_K + RRF_K + 1
<1>8. c \in Nat /\ p + q \in Nat
  BY <1>1, <1>2
<1>9. c * (p + q) <= c * s
  BY <1>1, <1>3, <1>7, <1>8
<1>10. c * (p + q) = p * c + q * c
  <2>. HIDE DEF c
  <2>. QED BY <1>1, <1>8
<1>11. c * s + s = s * (RRF_K + 1) + s * (RRF_K + 1)
  <2>1. \A a, b \in Nat : (a + a + 1) * b + b = b * (a + 1) + b * (a + 1)
    OBVIOUS
  <2>. QED BY <2>1, <1>1, <1>2
<1>12. /\ c * s \in Nat /\ s * (RRF_K + 1) \in Nat /\ p * c \in Nat /\ q * c \in Nat
       /\ p * c >= Unit /\ q * c >= Unit
  BY <1>1, <1>2, <1>4, <1>5, <1>8
<1>13. s <= 0
  <2>. HIDE DEF c
  <2>. DEFINE t == s * (RRF_K + 1)
              u == c * s
              v == p * c
              w == q * c
  <2>1. v + w <= u /\ u + s = t + t /\ t <= Unit /\ v >= Unit /\ w >= Unit
    BY <1>6, <1>9, <1>10, <1>11, <1>12
  <2>2. t \in Nat /\ u \in Nat /\ v \in Nat /\ w \in Nat
    BY <1>12
  <2>. HIDE DEF t, u, v, w
  <2>. QED BY <1>1, <1>2, <2>1, <2>2
<1>14. s = 0
  BY <1>1, <1>13
<1>15. s * (RRF_K + k) = 0
  BY <1>2, <1>14
<1>. QED BY <1>1, <1>2, <1>15

-----------------------------------------------------------------------------
(* _merge_rrf: votes                                                       *)

\* what a search returns: no row twice, a unit perhaps
Listing(list) ==
    /\ list \in Seq(Scored)
    /\ Len(list) <= MaxRank
    /\ ListsRowsOnce(list)

\* a list that holds a unit once at most
Single(list, key) ==
    \A i, j \in DOMAIN list : FusionKey(list[i]) = key /\ FusionKey(list[j]) = key => i = j

\* What one list gives a unit.
Cast(list, key) == SumFunction([rank \in Votes(list, key) |-> rrf_score(rank)])

\* The sum over one element.
LEMMA SumSingle ==
    ASSUME NEW f, NEW x, f[x] \in Nat
    PROVE  SumFunctionOnSet(f, {x}) = f[x]
<1>1. IsFiniteSet({x}) /\ \A y \in {x} : f[y] \in Nat
  BY FS_Singleton
<1>2. SumFunctionOnSet(f, {x}) = f[x] + SumFunctionOnSet(f, {x} \ {x})
  BY <1>1, SumElement
<1>3. SumFunctionOnSet(f, {x} \ {x}) = 0
  BY SumEmpty, {x} \ {x} = {}
<1>. QED BY <1>2, <1>3

\* A list that holds a unit once gives it one vote, that of its rank.
LEMMA OneVote ==
    ASSUME NEW list, Listing(list), NEW rank \in DOMAIN list, NEW key, key = FusionKey(list[rank]),
           Single(list, key)
    PROVE  Cast(list, key) = rrf_score(rank)
<1>1. Votes(list, key) = {rank}
  BY DEF Votes, Single
<1>2. rank \in 1..MaxRank
  <2>1. rank \in 1..Len(list) /\ Len(list) \in Nat /\ MaxRank \in Nat
    BY RanksPositive DEF Listing
  <2>. QED BY <2>1 DEF Listing
<1>. DEFINE f == [r \in Votes(list, key) |-> rrf_score(r)]
<1>3. DOMAIN f = {rank} /\ f[rank] = rrf_score(rank) /\ f[rank] \in Nat
  BY <1>1, <1>2, ScoreExact
<1>4. Cast(list, key) = SumFunctionOnSet(f, DOMAIN f)
  BY DEF Cast, SumFunction
<1>. HIDE DEF f
<1>. QED BY <1>3, <1>4, SumSingle

\* A list that does not hold a unit gives it none.
LEMMA NoVote ==
    ASSUME NEW list, NEW key, key \notin Units(list)
    PROVE  Cast(list, key) = 0
<1>1. Votes(list, key) = {}
  BY DEF Votes, Units
<1>. DEFINE f == [r \in Votes(list, key) |-> rrf_score(r)]
<1>2. DOMAIN f = {}
  BY <1>1
<1>3. Cast(list, key) = SumFunctionOnSet(f, DOMAIN f)
  BY DEF Cast, SumFunction
<1>. HIDE DEF f
<1>. QED BY <1>2, <1>3, SumEmpty

\* The score of a unit is what both lists give it.
LEMMA FusedIs ==
    ASSUME NEW lexical, NEW semantic, NEW key
    PROVE  Fused(lexical, semantic, key) = Cast(lexical, key) + Cast(semantic, key)
BY DEF Fused, Cast

\* The votes of a list are finitely many natural numbers.
LEMMA CastSums ==
    ASSUME NEW list, Listing(list), NEW key,
           NEW f, f = [rank \in Votes(list, key) |-> rrf_score(rank)]
    PROVE  /\ IsFiniteSet(Votes(list, key)) /\ Votes(list, key) \subseteq DOMAIN list
           /\ \A rank \in Votes(list, key) : rank \in 1..MaxRank /\ f[rank] = rrf_score(rank) /\ f[rank] \in Nat
           /\ Cast(list, key) = SumFunctionOnSet(f, Votes(list, key))
<1>. DEFINE V == Votes(list, key)
            n == Len(list)
<1>1. n \in Nat /\ n <= MaxRank /\ MaxRank \in Nat /\ DOMAIN list = 1..n
  BY RanksPositive DEF Listing
<1>2. V \in SUBSET (1..n)
  BY <1>1 DEF Votes
<1>3. IsFiniteSet(V)
  <2>. HIDE DEF V, n
  <2>1. IsFiniteSet(1..n)
    BY <1>1, FS_Interval
  <2>. QED BY <1>2, <2>1, FS_Subset
<1>4. \A rank \in V : rank \in 1..MaxRank
  <2>. HIDE DEF V, n
  <2>. QED BY <1>1, <1>2
<1>5. \A rank \in V : f[rank] = rrf_score(rank) /\ f[rank] \in Nat
  BY <1>4, ScoreExact
<1>6. Cast(list, key) = SumFunctionOnSet(f, V)
  <2>1. DOMAIN f = V
    OBVIOUS
  <2>. QED BY <2>1 DEF Cast, SumFunction
<1>7. V \subseteq DOMAIN list
  BY DEF Votes
<1>. HIDE DEF n
<1>. QED BY <1>3, <1>4, <1>5, <1>6, <1>7, Zenon

\* Votes are natural numbers.
LEMMA CastType ==
    ASSUME NEW list, Listing(list), NEW key
    PROVE  Cast(list, key) \in Nat
<1>. DEFINE f == [rank \in Votes(list, key) |-> rrf_score(rank)]
<1>1. f = [rank \in Votes(list, key) |-> rrf_score(rank)]
  OBVIOUS
<1>. HIDE DEF f
<1>. QED BY <1>1, CastSums, SumType

\* A list that holds a unit gives it the vote of some rank, or more.
LEMMA SomeVote ==
    ASSUME NEW list, Listing(list), NEW key \in Units(list)
    PROVE  \E rank \in 1..MaxRank : Cast(list, key) >= rrf_score(rank)
<1>. DEFINE f == [rank \in Votes(list, key) |-> rrf_score(rank)]
            V == Votes(list, key)
<1>1. /\ IsFiniteSet(V)
      /\ \A rank \in V : rank \in 1..MaxRank /\ f[rank] = rrf_score(rank) /\ f[rank] \in Nat
      /\ Cast(list, key) = SumFunctionOnSet(f, V)
  BY CastSums
<1>2. PICK rank \in V : TRUE
  BY DEF Votes, Units
<1>. DEFINE rest == SumFunctionOnSet(f, V \ {rank})
<1>. HIDE DEF f, V
<1>3. SumFunctionOnSet(f, V) = f[rank] + rest
  BY <1>1, <1>2, SumElement
<1>4. rest \in Nat
  <2>1. IsFiniteSet(V \ {rank}) /\ \A x \in V \ {rank} : f[x] \in Nat
    BY <1>1, FS_RemoveElement
  <2>. QED BY <2>1, SumType
<1>. HIDE DEF rest
<1>5. rank \in 1..MaxRank /\ f[rank] = rrf_score(rank) /\ f[rank] \in Nat
  BY <1>1, <1>2
<1>6. Cast(list, key) >= rrf_score(rank)
  BY <1>1, <1>3, <1>4, <1>5
<1>. QED BY <1>5, <1>6

\* A list that holds a unit once at most gives it nothing or the vote of a rank.
LEMMA SingleVote ==
    ASSUME NEW list, Listing(list), NEW key, Single(list, key)
    PROVE  Cast(list, key) = 0 \/ \E rank \in 1..MaxRank : Cast(list, key) = rrf_score(rank)
<1>1. CASE key \notin Units(list)
  BY <1>1, NoVote
<1>2. CASE key \in Units(list)
  <2>1. PICK rank \in DOMAIN list : key = FusionKey(list[rank])
    BY <1>2 DEF Units
  <2>2. rank \in 1..MaxRank
    <3>1. rank \in 1..Len(list) /\ Len(list) \in Nat /\ MaxRank \in Nat
      BY RanksPositive DEF Listing
    <3>. QED BY <3>1 DEF Listing
  <2>. QED BY <2>1, <2>2, OneVote
<1>. QED BY <1>1, <1>2

\* What both searches found scores more than what one found and listed once.
LEMMA BothScoreMore ==
    ASSUME NEW lexical, NEW semantic, Listing(lexical), Listing(semantic),
           NEW both, both \in Units(lexical), both \in Units(semantic),
           NEW one, one \notin Units(lexical) \/ one \notin Units(semantic),
           Single(lexical, one), Single(semantic, one)
    PROVE  Fused(lexical, semantic, both) > Fused(lexical, semantic, one)
<1>1. PICK i \in 1..MaxRank : Cast(lexical, both) >= rrf_score(i)
  BY SomeVote
<1>2. PICK j \in 1..MaxRank : Cast(semantic, both) >= rrf_score(j)
  BY SomeVote
<1>3. Fused(lexical, semantic, one) = 0
      \/ \E k \in 1..MaxRank : Fused(lexical, semantic, one) = rrf_score(k)
  <2>1. Cast(lexical, one) \in Nat /\ Cast(semantic, one) \in Nat
    BY CastType
  <2>2. CASE one \notin Units(lexical)
    <3>1. Fused(lexical, semantic, one) = Cast(semantic, one)
      BY <2>1, <2>2, NoVote, FusedIs
    <3>. QED BY <3>1, SingleVote
  <2>3. CASE one \notin Units(semantic)
    <3>1. Fused(lexical, semantic, one) = Cast(lexical, one)
      BY <2>1, <2>3, NoVote, FusedIs
    <3>. QED BY <3>1, SingleVote
  <2>. QED BY <2>2, <2>3
<1>. DEFINE p == rrf_score(i)
            q == rrf_score(j)
            x == Cast(lexical, both)
            y == Cast(semantic, both)
            z == Fused(lexical, semantic, one)
<1>4. p \in Nat /\ q \in Nat /\ x \in Nat /\ y \in Nat /\ x >= p /\ y >= q
  BY <1>1, <1>2, ScoreExact, CastType
<1>5. z \in Nat /\ p + q > z
  <2>1. CASE z = 0
    <3>1. p + q > p
      BY TwoOutweighOne
    <3>. HIDE DEF p, q, z
    <3>. QED BY <2>1, <3>1, <1>4
  <2>2. CASE z # 0
    <3>1. PICK k \in 1..MaxRank : z = rrf_score(k)
      BY <2>2, <1>3
    <3>. QED BY <3>1, TwoOutweighOne, ScoreExact
  <2>. QED BY <2>1, <2>2
<1>6. Fused(lexical, semantic, both) = x + y
  BY FusedIs
<1>. HIDE DEF p, q, x, y
<1>7. x + y > z
  <2>. HIDE DEF z
  <2>. QED BY <1>4, <1>5
<1>. QED BY <1>6, <1>7

-----------------------------------------------------------------------------

\* A nonempty set of natural numbers has a least one.
LEMMA MinOfNaturals ==
    ASSUME NEW S \in SUBSET Nat, S # {}
    PROVE  Min(S) \in S /\ \A x \in S : Min(S) <= x
<1>. DEFINE T == {n \in Nat : \A m \in Nat : m <= n /\ m \in S => \E x \in S : \A y \in S : x <= y}
<1>1. 0 \in T
  OBVIOUS
<1>2. \A n \in Nat : n \in T => n + 1 \in T
  <2> SUFFICES ASSUME NEW n \in Nat, n \in T, NEW m \in Nat, m <= n + 1, m \in S
               PROVE  \E x \in S : \A y \in S : x <= y
    OBVIOUS
  <2>1. CASE \E y \in S : y < m
    <3>1. PICK y \in S : y < m
      BY <2>1
    <3>2. y \in Nat /\ y <= n
      BY <3>1
    <3>. QED BY <3>2
  <2>2. CASE ~\E y \in S : y < m
    <3>1. \A y \in S : m <= y
      BY <2>2
    <3>. QED BY <3>1
  <2>. QED BY <2>1, <2>2
<1>3. Nat \subseteq T
  <2>. HIDE DEF T
  <2>. QED BY <1>1, <1>2, CountUp
<1>4. \E x \in S : \A y \in S : x <= y
  <2>1. PICK m \in S : m \in Nat
    OBVIOUS
  <2>. QED BY <2>1, <1>3
<1>. QED BY <1>4 DEF Min

\* A unit is shown by a result that one of the searches found.
LEMMA RepresentativeIs ==
    ASSUME NEW both \in Seq(Scored), NEW key \in Units(both)
    PROVE  \E i \in DOMAIN both : Representative(both, key) = both[i] /\ FusionKey(both[i]) = key
<1>. DEFINE V == Votes(both, key)
            layers == {Layer[both[i].type] : i \in V}
<1>1. V \in SUBSET Nat /\ V # {} /\ V \subseteq DOMAIN both
  BY DEF Votes, Units
<1>2. \A i \in DOMAIN both : Layer[both[i].type] \in Nat
  BY ScoredIs, LayerType
<1>3. layers \in SUBSET Nat /\ layers # {}
  BY <1>1, <1>2
<1>. DEFINE best == Min(layers)
            first == {i \in V : Layer[both[i].type] = best}
<1>4. best \in layers /\ \A l \in layers : best <= l
  <2>. HIDE DEF layers
  <2>. QED BY <1>3, MinOfNaturals
<1>5. first \in SUBSET Nat /\ first # {}
  BY <1>1, <1>4
<1>. DEFINE i == Min(first)
<1>6. i \in first /\ \A j \in first : i <= j
  <2>. HIDE DEF first
  <2>. QED BY <1>5, MinOfNaturals
<1>7. i \in V /\ \A j \in V : \/ Layer[both[i].type] < Layer[both[j].type]
                              \/ Layer[both[i].type] = Layer[both[j].type] /\ i <= j
  <2>1. i \in V /\ Layer[both[i].type] = best
    BY <1>6
  <2>2. ASSUME NEW j \in V
        PROVE  \/ Layer[both[i].type] < Layer[both[j].type]
               \/ Layer[both[i].type] = Layer[both[j].type] /\ i <= j
    <3>1. Layer[both[j].type] \in layers /\ Layer[both[j].type] \in Nat /\ best \in Nat
      BY <1>1, <1>2, <2>1
    <3>2. best <= Layer[both[j].type]
      BY <1>4, <3>1
    <3>3. CASE best = Layer[both[j].type]
      BY <3>3, <1>6, <2>1
    <3>4. CASE best # Layer[both[j].type]
      <4>. HIDE DEF best
      <4>. QED BY <3>1, <3>2, <3>4, <2>1
    <3>. QED BY <3>3, <3>4
  <2>. QED BY <2>1, <2>2
<1>8. \E k \in V : Representative(both, key) = both[k]
  <2>. DEFINE k == CHOOSE x \in Votes(both, key) :
           \A j \in Votes(both, key) :
              \/ Layer[both[x].type] < Layer[both[j].type]
              \/ Layer[both[x].type] = Layer[both[j].type] /\ x <= j
  <2>1. k \in V
    BY <1>7
  <2>2. Representative(both, key) = both[k]
    BY DEF Representative
  <2>. QED BY <2>1, <2>2
<1>. QED BY <1>8 DEF Votes

-----------------------------------------------------------------------------
(* _merge_rrf: the result                                                  *)

\* What a joined list holds, and where.
LEMMA Joined ==
    ASSUME NEW T, NEW left \in Seq(T), NEW right \in Seq(T)
    PROVE  /\ left \o right \in Seq(T)
           /\ Len(left \o right) = Len(left) + Len(right)
           /\ \A i \in DOMAIN left : i \in DOMAIN (left \o right) /\ (left \o right)[i] = left[i]
           /\ \A i \in DOMAIN right : Len(left) + i \in DOMAIN (left \o right)
                                      /\ (left \o right)[Len(left) + i] = right[i]
           /\ \A k \in DOMAIN (left \o right) :
                \/ k \in DOMAIN left
                \/ \E i \in DOMAIN right : k = Len(left) + i
<1>1. /\ Len(left) \in Nat /\ Len(right) \in Nat /\ DOMAIN left = 1..Len(left) /\ DOMAIN right = 1..Len(right)
      /\ DOMAIN (left \o right) = 1..(Len(left) + Len(right))
  OBVIOUS
<1>2. \A k \in DOMAIN (left \o right) : k \in DOMAIN left \/ \E i \in DOMAIN right : k = Len(left) + i
  <2> TAKE k \in DOMAIN (left \o right)
  <2>1. k \in 1..(Len(left) + Len(right))
    BY <1>1
  <2>2. CASE k <= Len(left)
    BY <1>1, <2>1, <2>2
  <2>3. CASE ~(k <= Len(left))
    <3>. DEFINE i == k - Len(left)
    <3>1. i \in 1..Len(right) /\ k = Len(left) + i
      BY <1>1, <2>1, <2>3
    <3>. QED BY <1>1, <3>1
  <2>. QED BY <2>2, <2>3
<1>3. left \o right \in Seq(T) /\ Len(left \o right) = Len(left) + Len(right)
  OBVIOUS
<1>4. \A i \in DOMAIN left : i \in DOMAIN (left \o right) /\ (left \o right)[i] = left[i]
  BY <1>1
<1>5. \A i \in DOMAIN right : Len(left) + i \in DOMAIN (left \o right)
                                      /\ (left \o right)[Len(left) + i] = right[i]
  BY <1>1
<1>. QED BY <1>2, <1>3, <1>4, <1>5

\* An entry of the fusion: a unit, its score and the result that shows it.
IsUnit(u, both, lexical, semantic) ==
    /\ u.key \in Units(both)
    /\ u.score = Fused(lexical, semantic, u.key) /\ u.score \in Nat
    /\ u.seen \in DOMAIN both /\ FusionKey(both[u.seen]) = u.key
    /\ u = [key |-> u.key, score |-> u.score, seen |-> u.seen]

\* The entries of the fusion: one for each unit.
AreUnits(kept, both, lexical, semantic) ==
    /\ IsFiniteSet(kept)
    /\ \A u \in kept : IsUnit(u, both, lexical, semantic)
    /\ \A u, v \in kept : u.key = v.key \/ u.seen = v.seen => u = v

\* What the fusion keeps: one result of each unit, with the score of both
\* lists.
LEMMA KeptAre ==
    ASSUME NEW lexical, NEW semantic, Listing(lexical), Listing(semantic),
           NEW kept, kept = Kept(lexical, semantic), NEW both, both = lexical \o semantic
    PROVE  AreUnits(kept, both, lexical, semantic)
<1>1. lexical \in Seq(Scored) /\ semantic \in Seq(Scored)
  BY DEF Listing
<1>2. both \in Seq(Scored)
  BY <1>1
<1>3. ASSUME NEW u \in kept
      PROVE  IsUnit(u, both, lexical, semantic) /\ u.seen = Min(Votes(both, u.key))
  <2>1. PICK key \in Units(both) :
          u = [key |-> key, score |-> Fused(lexical, semantic, key), seen |-> Min(Votes(both, key))]
    BY DEF Kept, Scores
  <2>2. Votes(both, key) \in SUBSET Nat /\ Votes(both, key) # {}
    BY <1>2 DEF Votes, Units
  <2>3. Min(Votes(both, key)) \in Votes(both, key)
    BY <2>2, MinOfNaturals
  <2>4. Fused(lexical, semantic, key) \in Nat
    <3>1. Cast(lexical, key) \in Nat /\ Cast(semantic, key) \in Nat
      BY CastType
    <3>. QED BY <3>1, FusedIs
  <2>5. u.key = key /\ u.score = Fused(lexical, semantic, key) /\ u.seen = Min(Votes(both, key))
    BY <2>1
  <2>. QED BY <2>1, <2>3, <2>4, <2>5 DEF IsUnit, Votes
<1>4. \A u, v \in kept : u.key = v.key \/ u.seen = v.seen => u = v
  <2> SUFFICES ASSUME NEW u \in kept, NEW v \in kept, u.key = v.key \/ u.seen = v.seen
               PROVE  u = v
    OBVIOUS
  <2>1. u.key = v.key
    BY <1>3 DEF IsUnit
  <2>. QED BY <2>1, <1>3 DEF IsUnit
<1>. DEFINE place == [u \in kept |-> u.seen]
<1>5. place \in Injection(kept, DOMAIN both)
  <2>1. place \in [kept -> DOMAIN both]
    BY <1>3 DEF IsUnit
  <2>2. \A u, v \in kept : place[u] = place[v] => u = v
    BY <1>4
  <2>. QED BY <2>1, <2>2 DEF Injection, IsInjective
<1>6. IsFiniteSet(DOMAIN both)
  <2>. DEFINE n == Len(both)
  <2>1. n \in Nat /\ DOMAIN both = 1..n
    BY <1>2
  <2>. HIDE DEF n
  <2>. QED BY <2>1, FS_Interval
<1>7. IsFiniteSet(kept)
  <2>. HIDE DEF place
  <2>. QED BY <1>5, <1>6, FS_Injection
<1>. QED BY <1>3, <1>4, <1>7 DEF AreUnits

\* The fusion shows the units once each, the better score first.
LEMMA BestFirstSorts ==
    ASSUME NEW lexical, NEW semantic, Listing(lexical), Listing(semantic),
           NEW kept, kept = Kept(lexical, semantic), NEW order, order = InOrder(kept, BestFirst(kept))
    PROVE  /\ Cardinality(kept) \in Nat
           /\ order \in [1..Cardinality(kept) -> kept]
           /\ \A m, n \in 1..Cardinality(kept) : m < n =>
                order[m].score >= order[n].score /\ order[m].key # order[n].key
<1>. DEFINE both == lexical \o semantic
<1>1. /\ IsFiniteSet(kept)
      /\ \A u \in kept : IsUnit(u, both, lexical, semantic)
      /\ \A u, v \in kept : u.key = v.key \/ u.seen = v.seen => u = v
  <2>1. both = lexical \o semantic
    OBVIOUS
  <2>. HIDE DEF both
  <2>2. AreUnits(kept, both, lexical, semantic)
    BY <2>1, KeptAre
  <2>. QED BY <2>2 DEF AreUnits
<1>2. both \in Seq(Scored)
  BY DEF Listing
<1>3. \A u \in kept : u.score \in Nat /\ u.seen \in Nat
  BY <1>1, <1>2 DEF IsUnit
<1>4. \A u, v \in kept : <<u, v>> \in BestFirst(kept) <=>
         u.score > v.score \/ (u.score = v.score /\ u.seen < v.seen)
  BY DEF BestFirst
<1>5. \A u \in kept : <<u, u>> \notin BestFirst(kept)
  BY <1>3, <1>4
<1>6. \A u, v \in kept : u # v => <<u, v>> \in BestFirst(kept) \/ <<v, u>> \in BestFirst(kept)
  <2> TAKE u \in kept, v \in kept
  <2> HAVE u # v
  <2>1. u.seen # v.seen
    BY <1>1
  <2>. QED BY <2>1, <1>3, <1>4
<1>7. \A u, v, w \in kept :
        <<u, v>> \in BestFirst(kept) /\ <<v, w>> \in BestFirst(kept) => <<u, w>> \in BestFirst(kept)
  BY <1>3, <1>4
<1>8. /\ order \in [1..Cardinality(kept) -> kept]
      /\ \A m, n \in 1..Cardinality(kept) : m < n => <<order[m], order[n]>> \in BestFirst(kept)
  BY <1>1, <1>5, <1>6, <1>7, InOrderSorts
<1>9. Cardinality(kept) \in Nat
  BY <1>1, FS_CardinalityType
<1>10. ASSUME NEW m \in 1..Cardinality(kept), NEW n \in 1..Cardinality(kept), m < n
       PROVE  order[m].score >= order[n].score /\ order[m].key # order[n].key
  <2>1. <<order[m], order[n]>> \in BestFirst(kept) /\ order[m] \in kept /\ order[n] \in kept
    BY <1>8, <1>10
  <2>2. order[m] # order[n]
    BY <2>1, <1>5
  <2>. QED BY <2>1, <2>2, <1>1, <1>3, <1>4
<1>. QED BY <1>8, <1>9, <1>10

\* The lesser of two numbers.
LEMMA Lesser ==
    ASSUME NEW m \in Nat, NEW n \in Nat
    PROVE  Min({m, n}) \in {m, n} /\ Min({m, n}) <= m /\ Min({m, n}) <= n
BY MinOfNaturals

\* What the fusion returns: rows of the two lists, one for each unit, best first.
Merged(m, limit, lexical, semantic) ==
    /\ m \in Seq(Scored) /\ Len(m) <= limit
    /\ \A i \in DOMAIN m :
         /\ \E k \in DOMAIN (lexical \o semantic) : Alike(m[i], (lexical \o semantic)[k])
         /\ m[i].score = Fused(lexical, semantic, FusionKey(m[i]))
    /\ \A i, j \in DOMAIN m : i < j =>
         m[i].score >= m[j].score /\ FusionKey(m[i]) # FusionKey(m[j])

\* MergeRRF shows the first of the units kept, best first.
LEMMA Merges ==
    ASSUME NEW lexical, NEW semantic, Listing(lexical), Listing(semantic), NEW limit \in Nat
    PROVE  Merged(MergeRRF(lexical, semantic, limit), limit, lexical, semantic)
<1>. DEFINE both == lexical \o semantic
            kept == Kept(lexical, semantic)
            order == InOrder(kept, BestFirst(kept))
            n == Min({limit, Cardinality(kept)})
            m == MergeRRF(lexical, semantic, limit)
<1>1. m = [i \in 1..n |-> [Representative(both, order[i].key) EXCEPT !.score = order[i].score]]
  BY DEF MergeRRF
<1>2. both \in Seq(Scored)
  BY DEF Listing
<1>3. \A u \in kept : IsUnit(u, both, lexical, semantic)
  <2>1. AreUnits(kept, both, lexical, semantic)
    BY KeptAre
  <2>. QED BY <2>1 DEF AreUnits
<1>4. /\ Cardinality(kept) \in Nat
      /\ order \in [1..Cardinality(kept) -> kept]
      /\ \A i, j \in 1..Cardinality(kept) : i < j =>
           order[i].score >= order[j].score /\ order[i].key # order[j].key
  <2>. HIDE DEF kept, order
  <2>. QED BY BestFirstSorts DEF kept, order
<1>. HIDE DEF kept, order, both
<1>5. n \in Nat /\ n <= limit /\ n <= Cardinality(kept)
  <2>. DEFINE c == Cardinality(kept)
  <2>1. c \in Nat
    BY <1>4
  <2>. HIDE DEF c
  <2>2. Min({limit, c}) \in {limit, c} /\ Min({limit, c}) <= limit /\ Min({limit, c}) <= c
    BY <2>1, Lesser
  <2>. QED BY <2>1, <2>2 DEF c
<1>. HIDE DEF m, n
<1>6. ASSUME NEW i \in 1..n
      PROVE  /\ i \in 1..Cardinality(kept)
             /\ m[i] \in Scored /\ FusionKey(m[i]) = order[i].key /\ m[i].score = order[i].score
             /\ m[i].score = Fused(lexical, semantic, FusionKey(m[i]))
             /\ \E k \in DOMAIN both : Alike(m[i], both[k])
  <2>1. i \in 1..Cardinality(kept)
    BY <1>4, <1>5
  <2>. DEFINE u == order[i]
  <2>2. u \in kept
    BY <2>1, <1>4
  <2>. HIDE DEF u
  <2>3. IsUnit(u, both, lexical, semantic)
    BY <1>3, <2>2
  <2>4. PICK k \in DOMAIN both : Representative(both, u.key) = both[k] /\ FusionKey(both[k]) = u.key
    BY <2>3, <1>2, RepresentativeIs DEF IsUnit
  <2>5. m[i] = [both[k] EXCEPT !.score = u.score]
    BY <1>1, <2>4 DEF u
  <2>6. both[k] \in Scored /\ u.score \in Nat
    BY <2>3, <1>2 DEF IsUnit
  <2>7. m[i] \in Scored /\ Alike(m[i], both[k]) /\ m[i].score = u.score
    <3>. DEFINE x == both[k]
                s == u.score
    <3>1. x \in Scored /\ s \in Nat
      BY <2>6
    <3>. HIDE DEF x, s
    <3>2. [x EXCEPT !.score = s] \in Scored /\ Alike([x EXCEPT !.score = s], x) /\ [x EXCEPT !.score = s].score = s
      BY <3>1, Rescored
    <3>. QED BY <2>5, <3>2 DEF x, s
  <2>8. FusionKey(m[i]) = u.key
    BY <2>4, <2>7, AlikeKey
  <2>9. m[i].score = Fused(lexical, semantic, FusionKey(m[i]))
    BY <2>3, <2>7, <2>8 DEF IsUnit
  <2>. QED BY <2>1, <2>7, <2>8, <2>9 DEF u
<1>7. m \in Seq(Scored) /\ Len(m) = n /\ DOMAIN m = 1..n
  <2>1. m = [i \in 1..n |-> m[i]]
    BY <1>1
  <2>2. m \in [1..n -> Scored]
    BY <2>1, <1>6, Zenon
  <2>3. m \in Seq(Scored)
    BY <2>2, <1>5
  <2>. QED BY <2>2, <2>3, <1>5
<1>8. \A i, j \in DOMAIN m : i < j =>
        m[i].score >= m[j].score /\ FusionKey(m[i]) # FusionKey(m[j])
  BY <1>4, <1>6, <1>7
<1>9. Merged(m, limit, lexical, semantic)
  BY <1>5, <1>6, <1>7, <1>8 DEF Merged, both
<1>. QED BY <1>9 DEF m

\* A result is among those of a list when its unit is.
LEMMA AmongUnits ==
    ASSUME NEW c \in Scored, NEW list \in Seq(Scored)
    PROVE  Among(c, list) <=> FusionKey(c) \in Units(list)
<1>1. \A i \in DOMAIN list : SameUnit(c, list[i]) <=> FusionKey(c) = FusionKey(list[i])
  BY UnitKey
<1>. QED BY <1>1 DEF Among, Units

\* A unit that a list does not repeat is in it once at most.
LEMMA RepeatsUnits ==
    ASSUME NEW c \in Scored, NEW list \in Seq(Scored)
    PROVE  ~Repeats(c, list) => Single(list, FusionKey(c))
<1>1. \A i \in DOMAIN list : SameUnit(c, list[i]) <=> FusionKey(c) = FusionKey(list[i])
  BY UnitKey
<1>. QED BY <1>1 DEF Repeats, Single

\* No unit twice.
UnitsOnce(found) ==
    \A i, j \in DOMAIN found : i < j => ~SameUnit(found[i], found[j])

\* The order of the candidates: no row twice, and what both found before what
\* one found, unless that one repeats it.
FusedFirst(found, lexical, semantic) ==
    \A i, j \in DOMAIN found : i < j =>
        /\ found[i].id # found[j].id
        /\ Among(found[j], lexical) /\ Among(found[j], semantic)
           => \/ Among(found[i], lexical) /\ Among(found[i], semantic)
              \/ Repeats(found[i], lexical) \/ Repeats(found[i], semantic)

\* The fusion shows nothing twice, and what both searches found before what one
\* found and did not repeat.
LEMMA MergeRanks ==
    ASSUME NEW lexical, NEW semantic, Listing(lexical), Listing(semantic), NEW limit \in Nat,
           NEW m, Merged(m, limit, lexical, semantic)
    PROVE  FusedFirst(m, lexical, semantic) /\ UnitsOnce(m)
<1>1. m \in Seq(Scored) /\ lexical \in Seq(Scored) /\ semantic \in Seq(Scored)
  BY DEF Merged, Listing
<1>2. SUFFICES ASSUME NEW i \in DOMAIN m, NEW j \in DOMAIN m, i < j
               PROVE  /\ ~SameUnit(m[i], m[j])
                      /\ m[i].id # m[j].id
                      /\ Among(m[j], lexical) /\ Among(m[j], semantic)
                         => \/ Among(m[i], lexical) /\ Among(m[i], semantic)
                            \/ Repeats(m[i], lexical) \/ Repeats(m[i], semantic)
  BY DEF FusedFirst, UnitsOnce
<1>. DEFINE p == m[i]
            q == m[j]
<1>3. p \in Scored /\ q \in Scored /\ p.score \in Nat /\ q.score \in Nat
  BY <1>1, ScoredIs
<1>4. /\ p.score >= q.score /\ FusionKey(p) # FusionKey(q)
      /\ p.score = Fused(lexical, semantic, FusionKey(p))
      /\ q.score = Fused(lexical, semantic, FusionKey(q))
  BY <1>2 DEF Merged
<1>. HIDE DEF p, q
<1>5. ~SameUnit(p, q) /\ p.id # q.id
  <2>1. ~SameUnit(p, q)
    BY <1>3, <1>4, UnitKey
  <2>. QED BY <2>1 DEF SameUnit
<1>6. ASSUME Among(q, lexical), Among(q, semantic), ~(Among(p, lexical) /\ Among(p, semantic)),
             ~Repeats(p, lexical), ~Repeats(p, semantic)
      PROVE  FALSE
  <2>1. FusionKey(q) \in Units(lexical) /\ FusionKey(q) \in Units(semantic)
    BY <1>1, <1>3, <1>6, AmongUnits
  <2>2. FusionKey(p) \notin Units(lexical) \/ FusionKey(p) \notin Units(semantic)
    BY <1>1, <1>3, <1>6, AmongUnits
  <2>3. Single(lexical, FusionKey(p)) /\ Single(semantic, FusionKey(p))
    BY <1>1, <1>3, <1>6, RepeatsUnits
  <2>4. Fused(lexical, semantic, FusionKey(q)) > Fused(lexical, semantic, FusionKey(p))
    BY <2>1, <2>2, <2>3, BothScoreMore
  <2>. QED BY <2>4, <1>3, <1>4
<1>. QED BY <1>5, <1>6 DEF p, q

-----------------------------------------------------------------------------
(* The packet                                                              *)

\* A fold from left to right as the steps it takes.
Walks(base, n, step, walk) ==
    walk[0] = base /\ \A k \in 1..n : walk[k] = step[<<walk[k - 1], k>>]

\* A walk of n steps ends in the result.
EndsIn(V, base, n, step, result) ==
    \E walk \in [0..n -> V] : Walks(base, n, step, walk) /\ result = walk[n]

\* A fold over positions is what a walk along them ends in.
LEMMA FoldWalk ==
    ASSUME NEW V, NEW base \in V, NEW n \in Nat, NEW step \in [V \X (1..n) -> V],
           NEW iter, FoldsOver(base, n, step, iter)
    PROVE  EndsIn(V, base, n, step, iter[1..n])
<1>1. \A s \in SUBSET (1..n) : s # {} => Max(s) \in 1..n /\ s \ {Max(s)} \in SUBSET (1..n)
  BY MaxOfNaturals
<1>2. \A s \in SUBSET (1..n) : iter[s] \in V
  <2>1. iter[{}] \in V
    BY DEF FoldsOver
  <2>2. \A s \in SUBSET (1..n) : s # {} /\ iter[s \ {Max(s)}] \in V => iter[s] \in V
    BY <1>1 DEF FoldsOver
  <2>. QED BY <2>1, <2>2, FoldInto
<1>. DEFINE walk == [k \in 0..n |-> iter[1..k]]
<1>3. walk \in [0..n -> V]
  BY <1>2
<1>4. walk[0] = base
  <2>1. walk[0] = iter[1..0] /\ 1..0 = {}
    OBVIOUS
  <2>2. iter[{}] = base
    BY DEF FoldsOver
  <2>. HIDE DEF walk
  <2>. QED BY <2>1, <2>2
<1>5. ASSUME NEW k \in 1..n
      PROVE  walk[k] = step[<<walk[k - 1], k>>]
  <2>1. /\ Max(1..k) = k /\ (1..k) \ {k} = 1..k - 1
        /\ 1..k \in SUBSET (1..n) /\ 1..k # {}
    BY Prefix
  <2>2. iter[1..k] = step[<<iter[1..k - 1], k>>]
    BY <2>1 DEF FoldsOver
  <2>. QED BY <2>2
<1>6. iter[1..n] = walk[n]
  OBVIOUS
<1>. HIDE DEF walk
<1>. QED BY <1>3, <1>4, <1>5, <1>6 DEF Walks, EndsIn

-----------------------------------------------------------------------------

\* A packet in the making.
Packing(Item) == [selected : Seq(Item), excluded : Seq(Item), used : Nat]

\* A packet with nothing in it.
Unpacked == [selected |-> <<>>, excluded |-> <<>>, used |-> 0]

\* Tokens are natural numbers.
LEMMA TokensType ==
    ASSUME NEW item, item.size \in Nat
    PROVE  Tokens(item) \in Nat
<1>1. CharsPerToken \in Nat \ {0}
  BY HandoffAssumption
<1>. DEFINE d == CharsPerToken
            m == item.size + CharsPerToken - 1
<1>2. d \in Nat \ {0} /\ m \in Nat
  BY <1>1
<1>. HIDE DEF d, m
<1>3. m \div d \in Nat
  BY <1>2, Z3
<1>. QED BY <1>3 DEF Tokens, d, m

\* Packing an item keeps the packet one.
LEMMA PackedType ==
    ASSUME NEW Item, NEW p \in Packing(Item), NEW item \in Item, item.size \in Nat, NEW budget
    PROVE  Packed(p, item, budget) \in Packing(Item)
<1>1. Tokens(item) \in Nat
  BY TokensType
<1>2. Append(p.excluded, item) \in Seq(Item) /\ Append(p.selected, item) \in Seq(Item)
  BY DEF Packing
<1>3. \A list \in Seq(Item) : [p EXCEPT !.excluded = list] \in Packing(Item)
  BY DEF Packing
<1>4. \A list \in Seq(Item), u \in Nat : [p EXCEPT !.selected = list, !.used = u] \in Packing(Item)
  BY DEF Packing
<1>5. p.used + Tokens(item) \in Nat
  BY <1>1 DEF Packing
<1>. QED BY <1>2, <1>3, <1>4, <1>5 DEF Packed

\* One step of packing.
PackStep(V, items, n, budget) == [q \in V \X (1..n) |-> Packed(q[1], items[q[2]], budget)]

\* The packet is what packing the items one after the other ends in.
LEMMA FilledWalks ==
    ASSUME NEW Item, \A c \in Item : c.size \in Nat,
           NEW items \in Seq(Item), NEW budget, NEW n \in Nat, n = Len(items)
    PROVE  /\ PackStep(Packing(Item), items, n, budget) \in [Packing(Item) \X (1..n) -> Packing(Item)]
           /\ EndsIn(Packing(Item), Unpacked, n, PackStep(Packing(Item), items, n, budget),
                     Filled(items, budget))
<1>. DEFINE V == Packing(Item)
            step == PackStep(V, items, n, budget)
            Iter(f) == f = [s \in SUBSET DOMAIN items |->
                IF s = {} THEN Unpacked ELSE Packed(f[s \ {Max(s)}], items[Max(s)], budget)]
            iter == CHOOSE f : Iter(f)
<1>1. Unpacked \in V
  BY DEF Unpacked, Packing
<1>2. Filled(items, budget) = iter[DOMAIN items]
  BY DEF Filled, FoldLeft, MapThenFoldSet, Unpacked
<1>3. DOMAIN items = 1..n /\ \A k \in 1..n : items[k] \in Item
  OBVIOUS
<1>4. \A p \in V, k \in 1..n : Packed(p, items[k], budget) \in V
  BY <1>3, PackedType
<1>. HIDE DEF V
<1>5. step \in [V \X (1..n) -> V]
  BY <1>4 DEF PackStep
<1>6. \A p \in V, k \in 1..n : step[<<p, k>>] = Packed(p, items[k], budget)
  BY DEF PackStep
<1>. HIDE DEF step
<1>7. PICK F \in [SUBSET (1..n) -> V] : FoldsOver(Unpacked, n, step, F)
  BY <1>1, <1>5, FoldExists
<1>8. \A s \in SUBSET (1..n) : s # {} => Max(s) \in 1..n /\ s \ {Max(s)} \in SUBSET (1..n)
  BY MaxOfNaturals
<1>9. \A s \in SUBSET (1..n) : F[s] =
        IF s = {} THEN Unpacked ELSE Packed(F[s \ {Max(s)}], items[Max(s)], budget)
  BY <1>6, <1>7, <1>8 DEF FoldsOver
<1>10. Iter(F)
  <2>1. F = [s \in SUBSET (1..n) |-> F[s]]
    OBVIOUS
  <2>. QED BY <2>1, <1>3, <1>9
<1>11. Iter(iter)
  <2>. HIDE DEF Iter
  <2>. QED BY <1>10
<1>. HIDE DEF iter
<1>12. \A s \in SUBSET (1..n) : iter[s] =
        IF s = {} THEN Unpacked ELSE Packed(iter[s \ {Max(s)}], items[Max(s)], budget)
  BY <1>11, <1>3
<1>13. \A s \in SUBSET (1..n) : iter[s] \in V
  <2>1. iter[{}] \in V
    BY <1>1, <1>12
  <2>2. ASSUME NEW s \in SUBSET (1..n), s # {}, iter[s \ {Max(s)}] \in V
        PROVE  iter[s] \in V
    <3>1. iter[s] = Packed(iter[s \ {Max(s)}], items[Max(s)], budget)
      BY <1>12, <2>2
    <3>. QED BY <3>1, <1>4, <1>8, <2>2
  <2>3. \A s \in SUBSET (1..n) : s # {} /\ iter[s \ {Max(s)}] \in V => iter[s] \in V
    BY <2>2
  <2>. QED BY <2>1, <2>3, FoldInto
<1>14. FoldsOver(Unpacked, n, step, iter)
  BY <1>6, <1>8, <1>12, <1>13 DEF FoldsOver
<1>15. EndsIn(V, Unpacked, n, step, iter[1..n])
  BY <1>1, <1>5, <1>14, FoldWalk
<1>. QED BY <1>2, <1>3, <1>5, <1>15 DEF V, step

\* The ids of a list.
Ids(list) == {list[i].id : i \in DOMAIN list}

\* One more item adds its id.
LEMMA IdsOfMore ==
    ASSUME NEW Item, NEW list \in Seq(Item), NEW item \in Item
    PROVE  Ids(Append(list, item)) = Ids(list) \union {item.id}
<1>1. /\ DOMAIN Append(list, item) = DOMAIN list \union {Len(list) + 1}
      /\ Append(list, item)[Len(list) + 1] = item
      /\ \A j \in DOMAIN list : Append(list, item)[j] = list[j]
  BY Appended
<1>. QED BY <1>1 DEF Ids

\* One more item that is new repeats nothing.
LEMMA DistinctMore ==
    ASSUME NEW Item, NEW list \in Seq(Item), NEW item \in Item, Distinct(list), item.id \notin Ids(list)
    PROVE  Distinct(Append(list, item))
<1>1. /\ DOMAIN Append(list, item) = DOMAIN list \union {Len(list) + 1}
      /\ Append(list, item)[Len(list) + 1] = item
      /\ \A j \in DOMAIN list : Append(list, item)[j] = list[j]
  BY Appended
<1>. QED BY <1>1 DEF Ids, Distinct

\* the ids of the first k items
IdsUpTo(items, k) == {items[i].id : i \in 1..k}

\* The ids of one item more.
LEMMA IdsUpToNext ==
    ASSUME NEW items, NEW n \in Nat, n = Len(items), DOMAIN items = 1..n, Distinct(items), NEW k \in 1..n
    PROVE  /\ IdsUpTo(items, k) = IdsUpTo(items, k - 1) \union {items[k].id}
           /\ items[k].id \notin IdsUpTo(items, k - 1)
<1>1. 1..k = (1..k - 1) \union {k} /\ k \notin 1..k - 1 /\ 1..k - 1 \subseteq 1..n
  OBVIOUS
<1>. QED BY <1>1 DEF IdsUpTo, Distinct

\* What a packet holds of the first k items.
PackedSoFar(items, p, k) ==
    /\ Ids(p.selected) \union Ids(p.excluded) = IdsUpTo(items, k)
    /\ Distinct(p.selected)

\* Every item of the answer is selected or excluded, and none is selected
\* twice.
LEMMA FilledHolds ==
    ASSUME NEW Item, \A c \in Item : c.size \in Nat,
           NEW items \in Seq(Item), Distinct(items), NEW budget
    PROVE  /\ Filled(items, budget) \in Packing(Item)
           /\ Ids(Filled(items, budget).selected) \union Ids(Filled(items, budget).excluded) = Ids(items)
           /\ Distinct(Filled(items, budget).selected)
<1>. DEFINE n == Len(items)
            V == Packing(Item)
            step == PackStep(V, items, n, budget)
<1>1. n \in Nat /\ DOMAIN items = 1..n /\ \A k \in 1..n : items[k] \in Item
  OBVIOUS
<1>2. PICK walk \in [0..n -> V] : Walks(Unpacked, n, step, walk) /\ Filled(items, budget) = walk[n]
  <2>1. EndsIn(V, Unpacked, n, step, Filled(items, budget))
    <3>. HIDE DEF n
    <3>. QED BY <1>1, FilledWalks DEF n
  <2>. QED BY <2>1 DEF EndsIn
<1>3. \A p \in V, k \in 1..n : step[<<p, k>>] = Packed(p, items[k], budget)
  BY DEF PackStep
<1>. HIDE DEF step, n
<1>. DEFINE P == {k \in Nat : PackedSoFar(items, walk[k], k)}
<1>4. 0 \in P
  <2>1. walk[0] = Unpacked
    BY <1>2 DEF Walks
  <2>2. walk[0].selected = <<>> /\ walk[0].excluded = <<>>
    BY <2>1 DEF Unpacked
  <2>3. 1..0 = {}
    OBVIOUS
  <2>. QED BY <2>2, <2>3 DEF PackedSoFar, Ids, IdsUpTo, Distinct
<1>5. ASSUME NEW k \in 1..n, k - 1 \in P
      PROVE  k \in P
  <2>. DEFINE old == walk[k - 1]
              new == walk[k]
              item == items[k]
  <2>1. k - 1 \in 0..n /\ k \in 0..n /\ old \in V /\ item \in Item
    BY <1>1
  <2>2. new = Packed(old, item, budget)
    BY <1>2, <1>3, <2>1 DEF Walks
  <2>3. old.selected \in Seq(Item) /\ old.excluded \in Seq(Item)
    BY <2>1 DEF Packing
  <2>4. PackedSoFar(items, old, k - 1)
    BY <1>5
  <2>5. /\ IdsUpTo(items, k) = IdsUpTo(items, k - 1) \union {item.id}
        /\ item.id \notin IdsUpTo(items, k - 1)
    BY <1>1, IdsUpToNext DEF n
  <2>. HIDE DEF old, new, item
  <2>6. \/ new.selected = Append(old.selected, item) /\ new.excluded = old.excluded
        \/ new.selected = old.selected /\ new.excluded = Append(old.excluded, item)
    BY <2>1, <2>2 DEF Packed, Packing
  <2>7. ASSUME new.selected = Append(old.selected, item), new.excluded = old.excluded
        PROVE  PackedSoFar(items, new, k)
    <3>1. Ids(new.selected) = Ids(old.selected) \union {item.id}
      BY <2>1, <2>3, <2>7, IdsOfMore
    <3>2. item.id \notin Ids(old.selected)
      BY <2>4, <2>5 DEF PackedSoFar
    <3>3. Distinct(new.selected)
      BY <2>1, <2>3, <2>4, <2>7, <3>2, DistinctMore DEF PackedSoFar
    <3>. QED BY <3>1, <3>3, <2>4, <2>5, <2>7 DEF PackedSoFar
  <2>8. ASSUME new.selected = old.selected, new.excluded = Append(old.excluded, item)
        PROVE  PackedSoFar(items, new, k)
    <3>1. Ids(new.excluded) = Ids(old.excluded) \union {item.id}
      BY <2>1, <2>3, <2>8, IdsOfMore
    <3>. QED BY <3>1, <2>4, <2>5, <2>8 DEF PackedSoFar
  <2>9. PackedSoFar(items, walk[k], k)
    BY <2>6, <2>7, <2>8 DEF new
  <2>. QED BY <2>9
<1>6. \A k \in 0..n : k \in P
  <2>. HIDE DEF P
  <2>. QED BY <1>1, <1>4, <1>5, UpTo
<1>7. n \in P /\ walk[n] \in V
  BY <1>1, <1>6
<1>8. IdsUpTo(items, n) = Ids(items)
  BY <1>1 DEF IdsUpTo, Ids
<1>. QED BY <1>2, <1>7, <1>8 DEF PackedSoFar

-----------------------------------------------------------------------------
(* What a model is given: the selection                                    *)

\* The lengths of the blocks of a list.
BlockOf(list) == [i \in DOMAIN list |-> Block(list[i])]

\* One more item adds its block.
LEMMA BlocksOfMore ==
    ASSUME NEW Item, \A c \in Item : c.size \in Nat, NEW list \in Seq(Item), NEW item \in Item
    PROVE  /\ Blocks(list) \in Nat
           /\ Blocks(Append(list, item)) = Blocks(list) + Block(item)
<1>. DEFINE more == Append(list, item)
            n == Len(list)
            f == BlockOf(list)
            g == BlockOf(more)
<1>1. /\ n \in Nat /\ DOMAIN list = 1..n /\ DOMAIN more = 1..n + 1 /\ more[n + 1] = item
      /\ \A j \in 1..n : more[j] = list[j] /\ list[j] \in Item
  OBVIOUS
<1>2. Blocks(list) = SumFunctionOnSet(f, DOMAIN f) /\ Blocks(more) = SumFunctionOnSet(g, DOMAIN g)
  BY DEF Blocks, SumFunction, BlockOf
<1>. HIDE DEF more, n
<1>3. IsFiniteSet(1..n) /\ IsFiniteSet(1..n + 1)
  BY <1>1, FS_Interval
<1>4. /\ DOMAIN f = 1..n /\ DOMAIN g = 1..n + 1
      /\ g[n + 1] = Block(item)
      /\ \A j \in 1..n : f[j] = Block(list[j]) /\ g[j] = f[j]
  BY <1>1 DEF BlockOf
<1>5. \A c \in Item : Block(c) \in Nat
  BY DEF Block
<1>. HIDE DEF f, g
<1>6. \A j \in 1..n + 1 : g[j] \in Nat
  <2> TAKE j \in 1..n + 1
  <2>1. j \in 1..n \/ j = n + 1
    BY <1>1
  <2>. QED BY <2>1, <1>1, <1>4, <1>5
<1>7. SumFunctionOnSet(g, 1..n + 1) = g[n + 1] + SumFunctionOnSet(g, (1..n + 1) \ {n + 1})
  <2>1. n + 1 \in 1..n + 1
    BY <1>1
  <2>. QED BY <2>1, <1>3, <1>6, SumElement
<1>8. (1..n + 1) \ {n + 1} = 1..n
  BY <1>1
<1>9. \A j \in 1..n : g[j] \in Nat /\ g[j] = f[j]
  BY <1>1, <1>4, <1>5
<1>10. SumFunctionOnSet(g, 1..n) = SumFunctionOnSet(f, 1..n)
  BY <1>3, <1>9, SumSame
<1>11. SumFunctionOnSet(g, 1..n) \in Nat
  BY <1>3, <1>9, SumType
<1>12. Block(item) \in Nat
  BY <1>5
<1>13. Blocks(list) \in Nat /\ Blocks(more) = Blocks(list) + Block(item)
  <2>1. Blocks(list) = SumFunctionOnSet(f, 1..n) /\ Blocks(more) = SumFunctionOnSet(g, 1..n + 1)
    BY <1>2, <1>4
  <2>2. SumFunctionOnSet(g, 1..n + 1) = Block(item) + SumFunctionOnSet(f, 1..n)
    BY <1>4, <1>7, <1>8, <1>10
  <2>3. SumFunctionOnSet(f, 1..n) \in Nat
    BY <1>10, <1>11
  <2>. HIDE DEF f, g
  <2>. QED BY <2>1, <2>2, <2>3, <1>12
<1>. QED BY <1>13 DEF more

\* A selection in the making.
Selecting(Item) == [included : Seq(Item), omitted : Seq(Item), chars : Nat]

\* A selection with nothing in it.
Unselected(base) == [included |-> <<>>, omitted |-> <<>>, chars |-> base]

\* Selecting an item keeps the selection one.
LEMMA SelectedType ==
    ASSUME NEW Item, NEW s \in Selecting(Item), NEW item \in Item, item.size \in Nat, NEW max
    PROVE  Selected(s, item, max) \in Selecting(Item)
<1>1. Append(s.omitted, item) \in Seq(Item) /\ Append(s.included, item) \in Seq(Item)
  BY DEF Selecting
<1>2. \A list \in Seq(Item) : [s EXCEPT !.omitted = list] \in Selecting(Item)
  BY DEF Selecting
<1>3. \A list \in Seq(Item), u \in Nat : [s EXCEPT !.included = list, !.chars = u] \in Selecting(Item)
  BY DEF Selecting
<1>4. s.chars + Block(item) \in Nat
  BY DEF Selecting, Block
<1>. QED BY <1>1, <1>2, <1>3, <1>4 DEF Selected

\* One step of selecting.
SelectStep(V, items, n, max) == [q \in V \X (1..n) |-> Selected(q[1], items[q[2]], max)]

\* The selection is what selecting the items one after the other ends in.
LEMMA SelectWalks ==
    ASSUME NEW Item, \A c \in Item : c.size \in Nat,
           NEW items \in Seq(Item), NEW base \in Nat, NEW max, NEW n \in Nat, n = Len(items)
    PROVE  EndsIn(Selecting(Item), Unselected(base), n, SelectStep(Selecting(Item), items, n, max),
                  Select(items, base, max))
<1>. DEFINE V == Selecting(Item)
            step == SelectStep(V, items, n, max)
            Iter(f) == f = [s \in SUBSET DOMAIN items |->
                IF s = {} THEN Unselected(base) ELSE Selected(f[s \ {Max(s)}], items[Max(s)], max)]
            iter == CHOOSE f : Iter(f)
<1>1. Unselected(base) \in V
  BY DEF Unselected, Selecting
<1>2. Select(items, base, max) = iter[DOMAIN items]
  BY DEF Select, FoldLeft, MapThenFoldSet, Unselected
<1>3. DOMAIN items = 1..n /\ \A k \in 1..n : items[k] \in Item
  OBVIOUS
<1>4. \A p \in V, k \in 1..n : Selected(p, items[k], max) \in V
  BY <1>3, SelectedType
<1>. HIDE DEF V
<1>5. step \in [V \X (1..n) -> V]
  BY <1>4 DEF SelectStep
<1>6. \A p \in V, k \in 1..n : step[<<p, k>>] = Selected(p, items[k], max)
  BY DEF SelectStep
<1>. HIDE DEF step
<1>7. PICK F \in [SUBSET (1..n) -> V] : FoldsOver(Unselected(base), n, step, F)
  BY <1>1, <1>5, FoldExists
<1>8. \A s \in SUBSET (1..n) : s # {} => Max(s) \in 1..n /\ s \ {Max(s)} \in SUBSET (1..n)
  BY MaxOfNaturals
<1>9. \A s \in SUBSET (1..n) : F[s] =
        IF s = {} THEN Unselected(base) ELSE Selected(F[s \ {Max(s)}], items[Max(s)], max)
  BY <1>6, <1>7, <1>8 DEF FoldsOver
<1>10. Iter(F)
  <2>1. F = [s \in SUBSET (1..n) |-> F[s]]
    OBVIOUS
  <2>. QED BY <2>1, <1>3, <1>9
<1>11. Iter(iter)
  <2>. HIDE DEF Iter
  <2>. QED BY <1>10
<1>. HIDE DEF iter
<1>12. \A s \in SUBSET (1..n) : iter[s] =
        IF s = {} THEN Unselected(base) ELSE Selected(iter[s \ {Max(s)}], items[Max(s)], max)
  BY <1>11, <1>3
<1>13. \A s \in SUBSET (1..n) : iter[s] \in V
  <2>1. iter[{}] \in V
    BY <1>1, <1>12
  <2>2. ASSUME NEW s \in SUBSET (1..n), s # {}, iter[s \ {Max(s)}] \in V
        PROVE  iter[s] \in V
    <3>1. iter[s] = Selected(iter[s \ {Max(s)}], items[Max(s)], max)
      BY <1>12, <2>2
    <3>. QED BY <3>1, <1>4, <1>8, <2>2
  <2>3. \A s \in SUBSET (1..n) : s # {} /\ iter[s \ {Max(s)}] \in V => iter[s] \in V
    BY <2>2
  <2>. QED BY <2>1, <2>3, FoldInto
<1>14. FoldsOver(Unselected(base), n, step, iter)
  BY <1>6, <1>8, <1>12, <1>13 DEF FoldsOver
<1>15. EndsIn(V, Unselected(base), n, step, iter[1..n])
  BY <1>1, <1>5, <1>14, FoldWalk
<1>. QED BY <1>2, <1>3, <1>15 DEF V, step

\* one step of the walk, in terms of its fields
LEMMA SelectedSteps ==
    ASSUME NEW Item, NEW s \in Selecting(Item), NEW item \in Item, NEW max,
           NEW next, next = Selected(s, item, max)
    PROVE  \/ /\ s.chars + Block(item) <= max
              /\ next.included = Append(s.included, item) /\ next.omitted = s.omitted
              /\ next.chars = s.chars + Block(item)
           \/ /\ ~(s.chars + Block(item) <= max)
              /\ next.included = s.included /\ next.omitted = Append(s.omitted, item)
              /\ next.chars = s.chars
BY DEF Selected, Selecting

\* What the text holds of the first k items.
SelectedSoFar(items, base, max, s, k) ==
    /\ Ids(s.included) \union Ids(s.omitted) = IdsUpTo(items, k)
    /\ Ids(s.included) \intersect Ids(s.omitted) = {}
    /\ s.chars = base + Blocks(s.included)
    /\ base <= max => s.chars <= max

\* A selection accounts for all items, in characters too.
SelectsAll(items, base, max, s) ==
    /\ Ids(s.included) \union Ids(s.omitted) = Ids(items)
    /\ Ids(s.included) \intersect Ids(s.omitted) = {}
    /\ s.chars = base + Blocks(s.included)
    /\ base <= max => s.chars <= max

\* Every item is included or omitted, not both, and the characters are those of
\* the blocks.
LEMMA SelectHolds ==
    ASSUME NEW Item, \A c \in Item : c.size \in Nat,
           NEW items \in Seq(Item), Distinct(items), NEW base \in Nat, NEW max \in Nat,
           NEW s, s = Select(items, base, max)
    PROVE  SelectsAll(items, base, max, s)
<1>. DEFINE n == Len(items)
            V == Selecting(Item)
            step == SelectStep(V, items, n, max)
<1>1. n \in Nat /\ DOMAIN items = 1..n /\ \A k \in 1..n : items[k] \in Item
  OBVIOUS
<1>2. PICK walk \in [0..n -> V] : Walks(Unselected(base), n, step, walk) /\ s = walk[n]
  <2>1. EndsIn(V, Unselected(base), n, step, s)
    <3>. HIDE DEF n
    <3>. QED BY <1>1, SelectWalks DEF n
  <2>. QED BY <2>1 DEF EndsIn
<1>3. \A p \in V, k \in 1..n : step[<<p, k>>] = Selected(p, items[k], max)
  BY DEF SelectStep
<1>. HIDE DEF step, n
<1>. DEFINE P == {k \in Nat : SelectedSoFar(items, base, max, walk[k], k)}
<1>4. 0 \in P
  <2>1. walk[0] = Unselected(base)
    BY <1>2 DEF Walks
  <2>2. walk[0].included = <<>> /\ walk[0].omitted = <<>> /\ walk[0].chars = base
    BY <2>1 DEF Unselected
  <2>3. 1..0 = {} /\ Ids(<<>>) = {}
    BY DEF Ids
  <2>4. Blocks(<<>>) = 0
    <3>1. BlockOf(<<>>) = [i \in {} |-> Block(<<>>[i])] /\ DOMAIN BlockOf(<<>>) = {}
      BY DEF BlockOf
    <3>2. Blocks(<<>>) = SumFunctionOnSet(BlockOf(<<>>), DOMAIN BlockOf(<<>>))
      BY DEF Blocks, SumFunction, BlockOf
    <3>. QED BY <3>1, <3>2, SumEmpty
  <2>. QED BY <2>2, <2>3, <2>4 DEF SelectedSoFar, IdsUpTo
<1>5. ASSUME NEW k \in 1..n, k - 1 \in P
      PROVE  k \in P
  <2>. DEFINE old == walk[k - 1]
              new == walk[k]
              item == items[k]
  <2>1. k - 1 \in 0..n /\ k \in 0..n /\ old \in V /\ item \in Item /\ item.size \in Nat
    BY <1>1
  <2>2. new = Selected(old, item, max)
    BY <1>2, <1>3, <2>1 DEF Walks
  <2>3. old.included \in Seq(Item) /\ old.omitted \in Seq(Item) /\ old.chars \in Nat
    BY <2>1 DEF Selecting
  <2>4. SelectedSoFar(items, base, max, old, k - 1)
    BY <1>5
  <2>5. /\ IdsUpTo(items, k) = IdsUpTo(items, k - 1) \union {item.id}
        /\ item.id \notin IdsUpTo(items, k - 1)
    BY <1>1, IdsUpToNext DEF n
  <2>. HIDE DEF old, new, item
  <2>6. Block(item) \in Nat /\ Blocks(old.included) \in Nat
        /\ Blocks(Append(old.included, item)) = Blocks(old.included) + Block(item)
    <3>1. Block(item) \in Nat
      BY <2>1 DEF Block
    <3>. QED BY <3>1, <2>1, <2>3, BlocksOfMore
  <2>7. CASE /\ old.chars + Block(item) <= max
             /\ new.included = Append(old.included, item) /\ new.omitted = old.omitted
             /\ new.chars = old.chars + Block(item)
    <3>1. Ids(new.included) = Ids(old.included) \union {item.id}
      BY <2>1, <2>3, <2>7, IdsOfMore
    <3>2. new.chars = base + Blocks(new.included)
      BY <2>4, <2>6, <2>7 DEF SelectedSoFar
    <3>3. SelectedSoFar(items, base, max, new, k)
      BY <3>1, <3>2, <2>4, <2>5, <2>7 DEF SelectedSoFar
    <3>. QED BY <3>3 DEF new
  <2>8. CASE /\ new.included = old.included /\ new.omitted = Append(old.omitted, item)
             /\ new.chars = old.chars
    <3>1. Ids(new.omitted) = Ids(old.omitted) \union {item.id}
      BY <2>1, <2>3, <2>8, IdsOfMore
    <3>2. SelectedSoFar(items, base, max, new, k)
      BY <3>1, <2>4, <2>5, <2>8 DEF SelectedSoFar
    <3>. QED BY <3>2 DEF new
  <2>. QED BY <2>1, <2>2, <2>7, <2>8, SelectedSteps
<1>6. \A k \in 0..n : k \in P
  <2>. HIDE DEF P
  <2>. QED BY <1>1, <1>4, <1>5, UpTo
<1>7. n \in P /\ walk[n] \in V
  BY <1>1, <1>6
<1>8. IdsUpTo(items, n) = Ids(items)
  BY <1>1 DEF IdsUpTo, Ids
<1>. QED BY <1>2, <1>7, <1>8 DEF SelectedSoFar, SelectsAll

\* With less to carry besides, no more is left out.
LEMMA SelectsMore ==
    ASSUME NEW Item, \A c \in Item : c.size \in Nat,
           NEW items \in Seq(Item), NEW less \in Nat, NEW more \in Nat, less <= more, NEW max \in Nat,
           Select(items, more, max).omitted = <<>>
    PROVE  Select(items, less, max).omitted = <<>>
<1>. DEFINE n == Len(items)
            V == Selecting(Item)
            step == SelectStep(V, items, n, max)
<1>1. n \in Nat /\ DOMAIN items = 1..n /\ \A k \in 1..n : items[k] \in Item
  OBVIOUS
<1>2. PICK walk \in [0..n -> V] :
        Walks(Unselected(less), n, step, walk) /\ Select(items, less, max) = walk[n]
  <2>1. EndsIn(V, Unselected(less), n, step, Select(items, less, max))
    <3>. HIDE DEF n
    <3>. QED BY <1>1, SelectWalks DEF n
  <2>. QED BY <2>1 DEF EndsIn
<1>3. PICK slow \in [0..n -> V] :
        Walks(Unselected(more), n, step, slow) /\ Select(items, more, max) = slow[n]
  <2>1. EndsIn(V, Unselected(more), n, step, Select(items, more, max))
    <3>. HIDE DEF n
    <3>. QED BY <1>1, SelectWalks DEF n
  <2>. QED BY <2>1 DEF EndsIn
<1>4. \A p \in V, k \in 1..n : step[<<p, k>>] = Selected(p, items[k], max)
  BY DEF SelectStep
<1>. HIDE DEF step, n
<1>. DEFINE Ahead(k) == slow[k].omitted = <<>> =>
              walk[k].omitted = <<>> /\ walk[k].chars + more = slow[k].chars + less
            P == {k \in Nat : Ahead(k)}
<1>5. 0 \in P
  <2>1. walk[0] = Unselected(less) /\ slow[0] = Unselected(more)
    BY <1>2, <1>3 DEF Walks
  <2>2. walk[0].omitted = <<>> /\ walk[0].chars = less /\ slow[0].chars = more
    BY <2>1 DEF Unselected
  <2>. QED BY <2>2
<1>6. ASSUME NEW k \in 1..n, k - 1 \in P
      PROVE  k \in P
  <2>. DEFINE item == items[k]
              w == walk[k - 1]
              x == walk[k]
              u == slow[k - 1]
              v == slow[k]
  <2>1. /\ k - 1 \in 0..n /\ w \in V /\ u \in V /\ item \in Item /\ item.size \in Nat
    BY <1>1
  <2>2. x = Selected(w, item, max) /\ v = Selected(u, item, max)
    BY <1>2, <1>3, <1>4, <2>1 DEF Walks
  <2>3. Ahead(k - 1)
    BY <1>6
  <2>4. u.omitted = <<>> => w.omitted = <<>> /\ w.chars + more = u.chars + less
    BY <2>3
  <2>. HIDE DEF w, x, u, v, item
  <2>5. w.chars \in Nat /\ u.chars \in Nat /\ u.omitted \in Seq(Item) /\ Block(item) \in Nat
    BY <2>1 DEF Selecting, Block
  <2>6. \/ /\ w.chars + Block(item) <= max
           /\ x.omitted = w.omitted /\ x.chars = w.chars + Block(item)
        \/ ~(w.chars + Block(item) <= max)
    BY <2>1, <2>2, SelectedSteps
  <2>7. \/ /\ u.chars + Block(item) <= max
           /\ v.omitted = u.omitted /\ v.chars = u.chars + Block(item)
        \/ v.omitted = Append(u.omitted, item)
    BY <2>1, <2>2, SelectedSteps
  <2>8. Append(u.omitted, item) # <<>>
    BY <2>1, <2>5
  <2>9. ASSUME v.omitted = <<>>
        PROVE  x.omitted = <<>> /\ x.chars + more = v.chars + less
    <3>1. u.chars + Block(item) <= max /\ u.omitted = <<>> /\ v.chars = u.chars + Block(item)
      BY <2>7, <2>8, <2>9
    <3>2. w.omitted = <<>> /\ w.chars + more = u.chars + less
      BY <3>1, <2>4
    <3>3. w.chars + Block(item) <= max
      BY <3>1, <3>2, <2>5
    <3>4. x.omitted = w.omitted /\ x.chars = w.chars + Block(item)
      BY <3>3, <2>6
    <3>5. \A p, q, b \in Nat : p + more = q + less => (p + b) + more = (q + b) + less
      OBVIOUS
    <3>6. (w.chars + Block(item)) + more = (u.chars + Block(item)) + less
      BY <3>2, <3>5, <2>5
    <3>. QED BY <3>1, <3>2, <3>4, <3>6
  <2>10. Ahead(k)
    BY <2>9 DEF x, v
  <2>. QED BY <2>10
<1>7. \A k \in 0..n : k \in P
  <2>. HIDE DEF P
  <2>. QED BY <1>1, <1>5, <1>6, UpTo
<1>8. Ahead(n)
  BY <1>1, <1>7
<1>. QED BY <1>2, <1>3, <1>8

-----------------------------------------------------------------------------
(* What a model is given: lengths, warnings and the rendering              *)

\* The lengths of the mandatory and optional parts.
LEMMA HandoffNumbers ==
    /\ MandatoryChars \in Nat \ {0} /\ WarningChars \in Nat \ {0}
    /\ NoticeChars \in Nat /\ OverflowChars \in Nat /\ OptionalChars \in Seq(Nat)
BY HandoffAssumption

\* A packet with warnings is no shorter than one without.
LEMMA WarningsCost ==
    ASSUME NEW packet, Len(packet.excluded) \in Nat
    PROVE  /\ Mandatory(packet, FALSE) \in Nat /\ Mandatory(packet, TRUE) \in Nat
           /\ Mandatory(packet, FALSE) <= Mandatory(packet, TRUE)
<1>. DEFINE c == Critical(packet, FALSE)
            e == Len(packet.excluded)
            w == IF "upstream_budget" \in packet.warnings THEN 1 ELSE 0
            d == Critical(packet, TRUE)
            x == Mandatory(packet, FALSE)
            y == Mandatory(packet, TRUE)
<1>1. c \in Nat /\ d = c + 1
  <2>1. e \in Nat /\ w \in Nat
    OBVIOUS
  <2>2. c = e + w + 0 /\ d = e + w + 1
    BY DEF Critical
  <2>. HIDE DEF e, w, c, d
  <2>. QED BY <2>1, <2>2
<1>2. x = MandatoryChars + WarningChars * c
  BY DEF Mandatory
<1>3. y = MandatoryChars + WarningChars * (c + 1)
  BY <1>1 DEF Mandatory
<1>. HIDE DEF c, d, x, y
<1>4. WarningChars * (c + 1) = WarningChars * c + WarningChars /\ WarningChars * c \in Nat
  BY <1>1, HandoffNumbers
<1>. DEFINE p == WarningChars * c
<1>5. p \in Nat
  BY <1>4
<1>6. x = MandatoryChars + p /\ y = MandatoryChars + (p + WarningChars)
  BY <1>2, <1>3, <1>4
<1>. HIDE DEF p
<1>7. x \in Nat /\ y \in Nat /\ x <= y
  BY <1>5, <1>6, HandoffNumbers
<1>. QED BY <1>7 DEF x, y

\* What the model is given accounts for the packet.
Accounts(packet, given, max) ==
    given.status = "ok" =>
        /\ Ids(given.included) \union Ids(given.omitted) = Ids(packet.selected)
        /\ Ids(given.included) \intersect Ids(given.omitted) = {}
        /\ given.reduced <=> given.omitted # <<>>
        /\ given.chars = Mandatory(packet, given.omitted # <<>>) + Blocks(given.included)
        /\ given.chars <= max

\* What a model is given accounts for the packet within its budget.
LEMMA ConsumeAccounts ==
    ASSUME NEW Item, \A c \in Item : c.size \in Nat,
           NEW packet, packet.selected \in Seq(Item), Distinct(packet.selected),
           Len(packet.excluded) \in Nat, NEW max \in Nat
    PROVE  Accounts(packet, Consume(packet, max), max)
<1>. DEFINE plain  == Mandatory(packet, FALSE)
            warned == Mandatory(packet, TRUE)
            items == packet.selected
            first  == Select(items, plain, max)
            second == Select(items, warned, max)
            given == Consume(packet, max)
<1>1. plain \in Nat /\ warned \in Nat /\ plain <= warned
  BY WarningsCost
<1>2. given = IF plain > max THEN Refused
              ELSE IF first.omitted = <<>> THEN Given(first, FALSE)
              ELSE IF warned > max THEN Refused
              ELSE Given(second, TRUE)
  BY DEF Consume
<1>3. Refused.status # "ok"
  BY DEF Refused
<1>. HIDE DEF plain, warned, first, second, given
<1>4. SelectsAll(items, plain, max, first)
  BY <1>1, SelectHolds DEF first
<1>5. SelectsAll(items, warned, max, second)
  BY <1>1, SelectHolds DEF second
<1>6. second.omitted = <<>> => first.omitted = <<>>
  BY <1>1, SelectsMore DEF first, second
<1>7. \A s, reduced : /\ Given(s, reduced).included = s.included /\ Given(s, reduced).omitted = s.omitted
                      /\ Given(s, reduced).chars = s.chars /\ Given(s, reduced).reduced = reduced
  BY DEF Given
<1>8. CASE plain > max
  BY <1>2, <1>3, <1>8 DEF Accounts, given
<1>9. CASE ~(plain > max) /\ first.omitted = <<>>
  <2>1. given = Given(first, FALSE) /\ plain <= max
    BY <1>1, <1>2, <1>9
  <2>2. /\ given.included = first.included /\ given.omitted = <<>> /\ given.chars = first.chars
        /\ given.reduced = FALSE
    BY <1>7, <1>9, <2>1
  <2>3. Mandatory(packet, given.omitted # <<>>) = plain
    <3>1. (given.omitted # <<>>) = FALSE
      BY <2>2
    <3>. QED BY <3>1 DEF plain
  <2>4. Accounts(packet, given, max)
    BY <1>4, <1>9, <2>1, <2>2, <2>3 DEF Accounts, SelectsAll
  <2>. QED BY <2>4 DEF given
<1>10. CASE ~(plain > max) /\ first.omitted # <<>> /\ warned > max
  BY <1>2, <1>3, <1>10 DEF Accounts, given
<1>11. CASE ~(plain > max) /\ first.omitted # <<>> /\ ~(warned > max)
  <2>1. given = Given(second, TRUE) /\ warned <= max
    BY <1>1, <1>2, <1>11
  <2>2. /\ given.included = second.included /\ given.omitted = second.omitted /\ given.chars = second.chars
        /\ given.reduced = TRUE /\ second.omitted # <<>>
    BY <1>6, <1>7, <1>11, <2>1
  <2>3. Mandatory(packet, given.omitted # <<>>) = warned
    <3>1. (given.omitted # <<>>) = TRUE
      BY <2>2
    <3>. QED BY <3>1 DEF warned
  <2>4. Accounts(packet, given, max)
    BY <1>5, <2>1, <2>2, <2>3 DEF Accounts, SelectsAll
  <2>. QED BY <2>4 DEF given
<1>. QED BY <1>8, <1>9, <1>10, <1>11

-----------------------------------------------------------------------------

\* The sections begin with one for each item.
LEMMA SectionsAre ==
    ASSUME NEW Item, \A c \in Item : c.size \in Nat, NEW items \in Seq(Item)
    PROVE  /\ Sections(items) \in Seq(Nat)
           /\ DOMAIN items \subseteq DOMAIN Sections(items)
<1>. DEFINE blocks == [i \in DOMAIN items |-> Block(items[i])]
            n == Len(items)
<1>1. n \in Nat /\ DOMAIN items = 1..n /\ \A i \in 1..n : items[i] \in Item
  OBVIOUS
<1>2. blocks \in [1..n -> Nat]
  BY <1>1 DEF Block
<1>. HIDE DEF n
<1>3. blocks \in Seq(Nat) /\ DOMAIN blocks = DOMAIN items
  BY <1>1, <1>2
<1>4. Sections(items) = blocks \o OptionalChars
  BY DEF Sections
<1>. HIDE DEF blocks
<1>5. blocks \o OptionalChars \in Seq(Nat) /\ \A i \in DOMAIN blocks : i \in DOMAIN (blocks \o OptionalChars)
  BY <1>3, HandoffNumbers, Joined
<1>. QED BY <1>3, <1>4, <1>5

\* The text has a length.
LEMMA ComposedType ==
    ASSUME NEW Item, \A c \in Item : c.size \in Nat, NEW items \in Seq(Item),
           NEW chosen \in SUBSET DOMAIN Sections(items)
    PROVE  Composed(items, chosen) \in Nat
<1>. DEFINE sections == Sections(items)
            n == Len(sections)
<1>1. sections \in Seq(Nat)
  BY SectionsAre
<1>. HIDE DEF sections
<1>2. n \in Nat /\ DOMAIN sections = 1..n /\ \A i \in 1..n : sections[i] \in Nat
  BY <1>1
<1>. HIDE DEF n
<1>3. IsFiniteSet(1..n)
  BY <1>2, FS_Interval
<1>4. chosen \in SUBSET (1..n)
  BY <1>2 DEF sections
<1>5. IsFiniteSet(chosen) /\ \A i \in chosen : sections[i] \in Nat
  BY <1>2, <1>3, <1>4, FS_Subset
<1>6. SumFunctionOnSet(sections, chosen) \in Nat
  BY <1>5, SumType
<1>. QED BY <1>6, HandoffNumbers DEF Composed, sections

\* One step of the rendering.
TakeStep(V, items, n, max) == [q \in V \X (1..n) |-> Taken(items, max, q[1], q[2])]

\* The sections that the rendering takes.
TakenOf(items, max) ==
    FoldLeft(LAMBDA chosen, i : Taken(items, max, chosen, i),
             {}, [i \in 1..Len(Sections(items)) |-> i])

\* What the rendering takes is what taking the sections one after the other
\* ends in.
LEMMA TakenWalks ==
    ASSUME NEW items, NEW max, NEW n \in Nat, n = Len(Sections(items))
    PROVE  EndsIn(SUBSET (1..n), {}, n, TakeStep(SUBSET (1..n), items, n, max), TakenOf(items, max))
<1>. DEFINE V == SUBSET (1..n)
            order == [i \in 1..Len(Sections(items)) |-> i]
            step == TakeStep(V, items, n, max)
            Iter(f) == f = [s \in SUBSET DOMAIN order |->
                IF s = {} THEN {} ELSE Taken(items, max, f[s \ {Max(s)}], order[Max(s)])]
            iter == CHOOSE f : Iter(f)
<1>1. {} \in V
  OBVIOUS
<1>2. TakenOf(items, max) = iter[DOMAIN order]
  BY DEF TakenOf, FoldLeft, MapThenFoldSet
<1>3. DOMAIN order = 1..n /\ \A k \in 1..n : order[k] = k
  OBVIOUS
<1>4. \A p \in V, k \in 1..n : Taken(items, max, p, k) \in V
  BY DEF Taken
<1>. HIDE DEF V, order
<1>5. step \in [V \X (1..n) -> V]
  BY <1>4 DEF TakeStep
<1>6. \A p \in V, k \in 1..n : step[<<p, k>>] = Taken(items, max, p, k)
  BY DEF TakeStep
<1>. HIDE DEF step
<1>7. PICK F \in [SUBSET (1..n) -> V] : FoldsOver({}, n, step, F)
  BY <1>1, <1>5, FoldExists
<1>8. \A s \in SUBSET (1..n) : s # {} => Max(s) \in 1..n /\ s \ {Max(s)} \in SUBSET (1..n)
  BY MaxOfNaturals
<1>9. \A s \in SUBSET (1..n) : F[s] =
        IF s = {} THEN {} ELSE Taken(items, max, F[s \ {Max(s)}], order[Max(s)])
  <2> TAKE s \in SUBSET (1..n)
  <2>1. CASE s = {}
    BY <2>1, <1>7 DEF FoldsOver
  <2>2. CASE s # {}
    <3>. DEFINE k == Max(s)
                p == F[s \ {k}]
    <3>1. k \in 1..n /\ p \in V
      BY <2>2, <1>8
    <3>2. F[s] = step[<<p, k>>]
      BY <2>2, <1>7 DEF FoldsOver
    <3>. HIDE DEF p, k
    <3>3. F[s] = Taken(items, max, p, order[k])
      BY <1>3, <1>6, <3>1, <3>2
    <3>. QED BY <2>2, <3>3 DEF p, k
  <2>. QED BY <2>1, <2>2
<1>10. Iter(F)
  <2>1. F = [s \in SUBSET (1..n) |-> F[s]]
    OBVIOUS
  <2>. QED BY <2>1, <1>3, <1>9
<1>11. Iter(iter)
  <2>. HIDE DEF Iter
  <2>. QED BY <1>10
<1>. HIDE DEF iter
<1>12. \A s \in SUBSET (1..n) : iter[s] =
        IF s = {} THEN {} ELSE Taken(items, max, iter[s \ {Max(s)}], order[Max(s)])
  BY <1>11, <1>3
<1>13. \A s \in SUBSET (1..n) : iter[s] \in V
  <2>1. iter[{}] \in V
    BY <1>1, <1>12
  <2>2. ASSUME NEW s \in SUBSET (1..n), s # {}, iter[s \ {Max(s)}] \in V
        PROVE  iter[s] \in V
    <3>1. iter[s] = Taken(items, max, iter[s \ {Max(s)}], Max(s))
      BY <1>3, <1>8, <1>12, <2>2
    <3>. QED BY <3>1, <1>4, <1>8, <2>2
  <2>3. \A s \in SUBSET (1..n) : s # {} /\ iter[s \ {Max(s)}] \in V => iter[s] \in V
    BY <2>2
  <2>. QED BY <2>1, <2>3, FoldInto
<1>14. FoldsOver({}, n, step, iter)
  <2>1. ASSUME NEW s \in SUBSET (1..n), s # {}
        PROVE  iter[s] = step[<<iter[s \ {Max(s)}], Max(s)>>]
    <3>. DEFINE k == Max(s)
                p == iter[s \ {k}]
    <3>1. k \in 1..n /\ p \in V
      BY <2>1, <1>8, <1>13
    <3>2. iter[s] = Taken(items, max, p, order[k])
      BY <2>1, <1>12
    <3>. HIDE DEF p, k
    <3>3. iter[s] = step[<<p, k>>]
      BY <1>3, <1>6, <3>1, <3>2
    <3>. QED BY <3>3 DEF p, k
  <2>2. iter[{}] = {}
    BY <1>12
  <2>. QED BY <2>1, <2>2 DEF FoldsOver
<1>15. EndsIn(V, {}, n, step, iter[1..n])
  BY <1>1, <1>5, <1>14, FoldWalk
<1>. QED BY <1>2, <1>3, <1>15 DEF V, step

\* What was taken fits if the mandatory part does.
LEMMA TakenFits ==
    ASSUME NEW items, NEW max, NEW n \in Nat, n = Len(Sections(items)),
           Composed(items, {}) <= max
    PROVE  TakenOf(items, max) \in SUBSET (1..n) /\ Composed(items, TakenOf(items, max)) <= max
<1>. DEFINE V == SUBSET (1..n)
            step == TakeStep(V, items, n, max)
<1>1. PICK walk \in [0..n -> V] : Walks({}, n, step, walk) /\ TakenOf(items, max) = walk[n]
  <2>1. EndsIn(V, {}, n, step, TakenOf(items, max))
    BY TakenWalks
  <2>. QED BY <2>1 DEF EndsIn
<1>2. \A p \in V, k \in 1..n : step[<<p, k>>] = Taken(items, max, p, k)
  BY DEF TakeStep
<1>. HIDE DEF step, V
<1>. DEFINE P == {k \in Nat : Composed(items, walk[k]) <= max}
<1>3. 0 \in P
  BY <1>1 DEF Walks
<1>4. ASSUME NEW k \in 1..n, k - 1 \in P
      PROVE  k \in P
  <2>1. walk[k - 1] \in V
    <3>1. k - 1 \in 0..n
      OBVIOUS
    <3>. QED BY <3>1
  <2>2. walk[k] = Taken(items, max, walk[k - 1], k)
    BY <1>1, <1>2, <2>1 DEF Walks
  <2>3. Composed(items, walk[k]) <= max
    BY <2>2, <1>4 DEF Taken
  <2>. QED BY <2>3
<1>5. \A k \in 0..n : k \in P
  <2>. HIDE DEF P
  <2>. QED BY <1>3, <1>4, UpTo
<1>6. n \in P /\ walk[n] \in V
  BY <1>5
<1>. QED BY <1>1, <1>6 DEF V

\* The greater of two numbers.
LEMMA Greater ==
    ASSUME NEW m \in Nat, NEW n \in Nat
    PROVE  Max({m, n}) \in Nat /\ m <= Max({m, n}) /\ n <= Max({m, n})
<1>1. \E x \in {m, n} : \A y \in {m, n} : x >= y
  OBVIOUS
<1>2. Max({m, n}) \in {m, n} /\ \A y \in {m, n} : Max({m, n}) >= y
  BY <1>1 DEF Max
<1>. QED BY <1>2

\* What is rendered accounts for the items.
RendersAll(items, rendered, max) ==
    /\ rendered.chars <= Max({max, OverflowChars})
    /\ Cardinality(rendered.included) + rendered.omitted = Len(items)
    /\ rendered.omitted > 0 => rendered.truncated

\* What is rendered accounts for the items within its budget, or says that it
\* could not.
LEMMA RenderAccounts ==
    ASSUME NEW Item, \A c \in Item : c.size \in Nat, NEW items \in Seq(Item), NEW max \in Nat
    PROVE  RendersAll(items, Render(items, max), max)
<1>. DEFINE all == DOMAIN Sections(items)
            D == DOMAIN items
            Text(chosen) ==
              [included |-> chosen \intersect D, omitted |-> Cardinality(D \ chosen),
               truncated |-> chosen # all, chars |-> Composed(items, chosen)]
            rendered == Render(items, max)
            top == Max({max, OverflowChars})
<1>1. rendered = IF Composed(items, all) <= max THEN Text(all)
                 ELSE IF Composed(items, {}) > max
                        THEN [included |-> {}, omitted |-> Len(items), truncated |-> TRUE,
                              chars |-> OverflowChars]
                 ELSE Text(TakenOf(items, max))
  BY DEF Render, TakenOf
<1>2. Sections(items) \in Seq(Nat) /\ D \subseteq all
  BY SectionsAre
<1>3. \A chosen \in SUBSET all : Composed(items, chosen) \in Nat
  BY ComposedType
<1>4. top \in Nat /\ max <= top /\ OverflowChars <= top
  BY HandoffNumbers, Greater
<1>5. IsFiniteSet(D) /\ Cardinality(D) = Len(items) /\ Len(items) \in Nat
  <2>. DEFINE n == Len(items)
  <2>1. n \in Nat /\ D = 1..n
    OBVIOUS
  <2>. HIDE DEF n, D
  <2>2. IsFiniteSet(1..n) /\ Cardinality(1..n) = n
    BY <2>1, FS_Interval
  <2>. QED BY <2>1, <2>2 DEF n
<1>. HIDE DEF rendered, top, all, D
<1>6. ASSUME NEW chosen \in SUBSET all, Composed(items, chosen) <= max
      PROVE  RendersAll(items, Text(chosen), max)
  <2>1. Composed(items, chosen) <= top
    BY <1>3, <1>4, <1>6
  <2>2. /\ Cardinality(D \ chosen) = Cardinality(D) - Cardinality(D \intersect chosen)
        /\ IsFiniteSet(D \ chosen) /\ IsFiniteSet(D \intersect chosen)
    BY <1>5, FS_Difference, FS_Intersection
  <2>3. Cardinality(D \intersect chosen) \in Nat /\ Cardinality(D \ chosen) \in Nat
    BY <2>2, FS_CardinalityType
  <2>4. chosen \intersect D = D \intersect chosen
    OBVIOUS
  <2>5. Cardinality(chosen \intersect D) + Cardinality(D \ chosen) = Len(items)
    <3>. DEFINE a == Cardinality(D \intersect chosen)
                b == Cardinality(D \ chosen)
                c == Len(items)
    <3>1. a \in Nat /\ b \in Nat /\ c \in Nat /\ b = c - a
      BY <1>5, <2>2, <2>3
    <3>. HIDE DEF a, b, c
    <3>2. a + b = c
      BY <3>1
    <3>. QED BY <2>4, <3>2 DEF a, b, c
  <2>6. ASSUME Cardinality(D \ chosen) > 0 PROVE chosen # all
    <3>1. D \ chosen # {}
      <4>1. SUFFICES ASSUME D \ chosen = {} PROVE FALSE
        OBVIOUS
      <4>2. Cardinality(D \ chosen) = 0
        BY <4>1, FS_EmptySet
      <4>. QED BY <4>2, <2>6
    <3>. QED BY <3>1, <1>2
  <2>7. /\ Text(chosen).chars = Composed(items, chosen)
        /\ Text(chosen).included = chosen \intersect D
        /\ Text(chosen).omitted = Cardinality(D \ chosen)
        /\ Text(chosen).truncated = (chosen # all)
    OBVIOUS
  <2>. HIDE DEF Text
  <2>. QED BY <2>1, <2>5, <2>6, <2>7 DEF RendersAll, top
<1>7. CASE Composed(items, all) <= max
  <2>1. RendersAll(items, Text(all), max)
    BY <1>6, <1>7
  <2>. HIDE DEF Text
  <2>. QED BY <1>1, <1>7, <2>1 DEF rendered
<1>8. CASE ~(Composed(items, all) <= max) /\ Composed(items, {}) > max
  <2>. DEFINE over == [included |-> {}, omitted |-> Len(items), truncated |-> TRUE, chars |-> OverflowChars]
  <2>1. rendered = over
    BY <1>1, <1>8
  <2>2. /\ over.chars = OverflowChars /\ over.included = {} /\ over.omitted = Len(items)
        /\ over.truncated = TRUE
    OBVIOUS
  <2>3. Cardinality({}) = 0
    BY FS_EmptySet
  <2>. HIDE DEF over
  <2>4. RendersAll(items, over, max)
    BY <1>4, <1>5, <2>2, <2>3 DEF RendersAll, top
  <2>. QED BY <2>1, <2>4 DEF rendered
<1>9. CASE ~(Composed(items, all) <= max) /\ ~(Composed(items, {}) > max)
  <2>1. Composed(items, {}) <= max
    <3>1. Composed(items, {}) \in Nat
      BY <1>3
    <3>. QED BY <3>1, <1>9
  <2>2. TakenOf(items, max) \in SUBSET all /\ Composed(items, TakenOf(items, max)) <= max
    <3>. DEFINE n == Len(Sections(items))
    <3>1. n \in Nat /\ all = 1..n
      BY <1>2 DEF all
    <3>. HIDE DEF n
    <3>2. TakenOf(items, max) \in SUBSET (1..n) /\ Composed(items, TakenOf(items, max)) <= max
      BY <2>1, <3>1, TakenFits DEF n
    <3>. QED BY <3>1, <3>2
  <2>3. RendersAll(items, Text(TakenOf(items, max)), max)
    BY <1>6, <2>2
  <2>. HIDE DEF Text
  <2>. QED BY <1>1, <1>9, <2>3 DEF rendered
<1>. QED BY <1>7, <1>8, <1>9

-----------------------------------------------------------------------------
(* The searches of a request                                               *)

\* What a request may see, whether or not its source is live.
InScope(c, req) == Bound(c, req) /\ Passes(c, req)

\* A list of what a request may see.
AllInScope(list, req) == \A i \in DOMAIN list : InScope(list[i], req)

\* A score does not change what a request may see.
LEMMA AlikeInScope ==
    ASSUME NEW x, NEW y, Alike(x, y), NEW req
    PROVE  InScope(x, req) <=> InScope(y, req)
BY DEF Alike, InScope, Bound, Passes

\* A search lists rows once, in ranks the fusion knows, within the scope of
\* the request.
LEMMA FoundIs ==
    ASSUME NEW ranking, ranking \in Seq(Memory) \/ ranking \in Seq(Embedded), ListsRowsOnce(ranking), NEW req
    PROVE  Listing(Ranked(Found(ranking, req))) /\ AllInScope(Ranked(Found(ranking, req)), req)
<1>. DEFINE ranks == {i \in DOMAIN ranking : Visible(ranking[i], req)}
            before == {pair \in ranks \X ranks : pair[1] < pair[2]}
            seen == Seen(ranking, req)
            N == Cardinality(ranks)
            n == Min({MaxRank, Len(seen)})
            list == Ranked(Found(ranking, req))
<1>1. /\ DOMAIN ranking = 1..Len(ranking) /\ Len(ranking) \in Nat
      /\ \A i \in DOMAIN ranking : ranking[i] \in Rows
  BY DEF Rows
<1>2. IsFiniteSet(ranks) /\ ranks \in SUBSET Nat
  <2>. DEFINE m == Len(ranking)
  <2>1. m \in Nat /\ DOMAIN ranking = 1..m
    BY <1>1
  <2>. HIDE DEF m
  <2>2. IsFiniteSet(1..m)
    BY <2>1, FS_Interval
  <2>3. ranks \in SUBSET (1..m)
    BY <2>1
  <2>. HIDE DEF ranks
  <2>4. IsFiniteSet(ranks)
    BY <2>2, <2>3, FS_Subset
  <2>5. ranks \in SUBSET Nat
    BY <2>3
  <2>. QED BY <2>4, <2>5
<1>3. seen = InOrder(ranks, before)
  BY DEF Seen
<1>4. \A i, j \in ranks : <<i, j>> \in before <=> i < j
  OBVIOUS
<1>5. N \in Nat
  <2>. HIDE DEF ranks
  <2>. QED BY <1>2, FS_CardinalityType
<1>6. \A i \in ranks : i \in DOMAIN ranking /\ Visible(ranking[i], req)
  OBVIOUS
<1>. HIDE DEF ranks, before, seen
<1>7. /\ seen \in [1..N -> ranks]
      /\ \A i, j \in 1..N : i < j => <<seen[i], seen[j]>> \in before
  <2>1. \A i \in ranks : <<i, i>> \notin before
    BY <1>2, <1>4
  <2>2. \A i, j \in ranks : i # j => <<i, j>> \in before \/ <<j, i>> \in before
    BY <1>2, <1>4
  <2>3. \A i, j, k \in ranks : <<i, j>> \in before /\ <<j, k>> \in before => <<i, k>> \in before
    BY <1>2, <1>4
  <2>. QED BY <1>2, <1>3, <2>1, <2>2, <2>3, InOrderSorts
<1>. HIDE DEF N
<1>8. \A i, j \in 1..N : seen[i] = seen[j] => i = j
  <2> SUFFICES ASSUME NEW i \in 1..N, NEW j \in 1..N, seen[i] = seen[j], i < j PROVE FALSE
    BY <1>5
  <2>1. seen[i] < seen[j] /\ seen[i] \in Nat
    BY <1>2, <1>4, <1>7
  <2>. QED BY <2>1
<1>9. Len(seen) = N
  BY <1>5, <1>7
<1>10. n \in Nat /\ n <= MaxRank /\ n <= N
  <2>. DEFINE a == MaxRank
  <2>1. a \in Nat
    BY RanksPositive
  <2>. HIDE DEF a
  <2>2. Min({a, N}) \in {a, N} /\ Min({a, N}) <= a /\ Min({a, N}) <= N
    BY <1>5, <2>1, Lesser
  <2>. QED BY <1>5, <1>9, <2>1, <2>2 DEF a
<1>. DEFINE found == Found(ranking, req)
<1>11. found = [i \in 1..n |-> ranking[seen[i]]]
  BY DEF Found, seen
<1>. HIDE DEF n
<1>12. list = [i \in 1..n |-> [found[i] EXCEPT !.score = Unit \div (i + 1)]]
  BY <1>11 DEF Ranked
<1>. HIDE DEF found, list
<1>13. ASSUME NEW i \in 1..n
       PROVE  /\ i \in 1..N /\ seen[i] \in ranks /\ list[i] \in Scored
              /\ Alike(list[i], ranking[seen[i]])
  <2>1. i \in 1..N
    BY <1>5, <1>10
  <2>2. seen[i] \in ranks
    BY <2>1, <1>7
  <2>. DEFINE c == ranking[seen[i]]
              s == Unit \div (i + 1)
  <2>3. c \in Rows
    BY <1>1, <1>6, <2>2
  <2>4. s \in Nat
    <3>. DEFINE d == i + 1
    <3>1. d \in Nat \ {0} /\ Unit \in Nat
      BY <1>10, UnitIs
    <3>. HIDE DEF d
    <3>2. Unit \div d \in Nat
      BY <3>1, Z3
    <3>. QED BY <3>2 DEF d
  <2>5. list[i] = [c EXCEPT !.score = s]
    BY <1>11, <1>12
  <2>. HIDE DEF c, s
  <2>6. [c EXCEPT !.score = s] \in Scored /\ Alike([c EXCEPT !.score = s], c)
    BY <2>3, <2>4, RowScored
  <2>. QED BY <2>1, <2>2, <2>5, <2>6 DEF c
<1>14. list \in Seq(Scored) /\ Len(list) = n /\ DOMAIN list = 1..n
  <2>1. list = [i \in 1..n |-> list[i]]
    BY <1>12
  <2>2. list \in [1..n -> Scored]
    BY <2>1, <1>13, Zenon
  <2>3. list \in Seq(Scored)
    BY <2>2, <1>10
  <2>. QED BY <2>2, <2>3, <1>10
<1>15. ListsRowsOnce(list)
  <2> SUFFICES ASSUME NEW i \in 1..n, NEW j \in 1..n, list[i].id = list[j].id
               PROVE  i = j
    BY <1>14 DEF ListsRowsOnce
  <2>1. list[i].id = ranking[seen[i]].id /\ list[j].id = ranking[seen[j]].id
    BY <1>13 DEF Alike
  <2>2. seen[i] \in DOMAIN ranking /\ seen[j] \in DOMAIN ranking
    BY <1>6, <1>13
  <2>3. seen[i] = seen[j]
    BY <2>1, <2>2 DEF ListsRowsOnce
  <2>. QED BY <2>3, <1>8, <1>13
<1>16. AllInScope(list, req)
  <2> SUFFICES ASSUME NEW i \in 1..n PROVE InScope(list[i], req)
    BY <1>14 DEF AllInScope
  <2>1. Visible(ranking[seen[i]], req)
    BY <1>6, <1>13
  <2>2. InScope(ranking[seen[i]], req)
    BY <2>1 DEF Visible, InScope
  <2>. QED BY <2>2, <1>13, AlikeInScope
<1>17. Listing(list)
  BY <1>10, <1>14, <1>15 DEF Listing
<1>. QED BY <1>16, <1>17 DEF list

\* A finite set as a sequence: everything once.
LEMMA SequenceOfSet ==
    ASSUME NEW S, IsFiniteSet(S)
    PROVE  /\ SetToSeq(S) \in Seq(S)
           /\ \A i, j \in DOMAIN SetToSeq(S) : i # j => SetToSeq(S)[i] # SetToSeq(S)[j]
<1>. DEFINE n == Cardinality(S)
<1>1. n \in Nat /\ ExistsBijection(1..n, S)
  BY FS_CardinalityType
<1>. HIDE DEF n
<1>2. \E f \in [1..n -> S] : IsInjective(f)
  BY <1>1 DEF ExistsBijection, Bijection, Injection
<1>. DEFINE s == CHOOSE f \in [1..n -> S] : IsInjective(f)
<1>3. s \in [1..n -> S] /\ IsInjective(s)
  <2>. QED BY <1>2
<1>4. SetToSeq(S) = s
  BY DEF SetToSeq, n
<1>. HIDE DEF s
<1>5. s \in Seq(S)
  BY <1>1, <1>3
<1>6. \A i, j \in DOMAIN s : i # j => s[i] # s[j]
  BY <1>3 DEF IsInjective
<1>. QED BY <1>4, <1>5, <1>6

-----------------------------------------------------------------------------
(* Candidates and linked facts                                             *)

\* the candidates of a request, as Candidates(r)
CandidatesFor(req, lexical, semantic) ==
    IF req.mode = "keyword" \/ (req.mode = "hybrid" /\ semantic = <<>>) THEN lexical
    ELSE IF req.mode = "semantic" THEN semantic
    ELSE MergeRRF(lexical, semantic, IF Scoped(req) THEN MaxRank ELSE RRF_TopN)

\* One search alone shows no row twice, and nothing was found by both.
LEMMA ListingRanks ==
    ASSUME NEW list, Listing(list), NEW lexical, NEW semantic,
           lexical = <<>> \/ semantic = <<>>
    PROVE  FusedFirst(list, lexical, semantic)
<1>1. \A c : ~(Among(c, lexical) /\ Among(c, semantic))
  BY DEF Among
<1>2. list \in Seq(Scored)
  BY DEF Listing
<1>3. ASSUME NEW i \in DOMAIN list, NEW j \in DOMAIN list, i < j
      PROVE  list[i].id # list[j].id
  <2>1. i # j
    BY <1>2, <1>3
  <2>. QED BY <2>1 DEF Listing, ListsRowsOnce
<1>. QED BY <1>1, <1>3 DEF FusedFirst

\* The candidates are in scope, no row twice and no unit where the searches are
\* joined, what both found before what one found once.
LEMMA CandidatesAre ==
    ASSUME NEW req, NEW lexical, NEW semantic, Listing(lexical), Listing(semantic),
           AllInScope(lexical, req), AllInScope(semantic, req),
           req.mode = "keyword" => semantic = <<>>, req.mode = "semantic" => lexical = <<>>,
           NEW found, found = CandidatesFor(req, lexical, semantic)
    PROVE  /\ found \in Seq(Scored)
           /\ AllInScope(found, req)
           /\ FusedFirst(found, lexical, semantic)
           /\ req.mode = "hybrid" /\ semantic # <<>> => UnitsOnce(found)
<1>1. lexical \in Seq(Scored) /\ semantic \in Seq(Scored)
  BY DEF Listing
<1>2. CASE req.mode = "keyword" \/ (req.mode = "hybrid" /\ semantic = <<>>)
  <2>1. found = lexical /\ semantic = <<>>
    BY <1>2 DEF CandidatesFor
  <2>. QED BY <1>1, <2>1, ListingRanks
<1>3. CASE ~(req.mode = "keyword" \/ (req.mode = "hybrid" /\ semantic = <<>>)) /\ req.mode = "semantic"
  <2>1. found = semantic /\ lexical = <<>>
    BY <1>3 DEF CandidatesFor
  <2>2. FusedFirst(found, lexical, semantic)
    BY <2>1, ListingRanks
  <2>3. req.mode # "hybrid"
    BY <1>3
  <2>. QED BY <1>1, <2>1, <2>2, <2>3
<1>4. CASE ~(req.mode = "keyword" \/ (req.mode = "hybrid" /\ semantic = <<>>)) /\ req.mode # "semantic"
  <2>. DEFINE limit == IF Scoped(req) THEN MaxRank ELSE RRF_TopN
              both == lexical \o semantic
  <2>1. found = MergeRRF(lexical, semantic, limit)
    BY <1>4 DEF CandidatesFor
  <2>2. limit \in Nat
    BY RanksPositive
  <2>. HIDE DEF limit
  <2>3. Merged(found, limit, lexical, semantic)
    BY <2>1, <2>2, Merges
  <2>4. found \in Seq(Scored)
    BY <2>3 DEF Merged
  <2>5. AllInScope(both, req)
    <3>1. /\ \A i \in DOMAIN lexical : both[i] = lexical[i]
          /\ \A i \in DOMAIN semantic : both[Len(lexical) + i] = semantic[i]
          /\ \A k \in DOMAIN both : k \in DOMAIN lexical \/ \E i \in DOMAIN semantic : k = Len(lexical) + i
      BY <1>1, Joined
    <3>. HIDE DEF both
    <3>. QED BY <3>1 DEF AllInScope
  <2>6. AllInScope(found, req)
    <3> SUFFICES ASSUME NEW i \in DOMAIN found PROVE InScope(found[i], req)
      BY DEF AllInScope
    <3>1. PICK k \in DOMAIN both : Alike(found[i], both[k])
      BY <2>3 DEF Merged
    <3>2. InScope(both[k], req)
      BY <2>5, <3>1 DEF AllInScope
    <3>. QED BY <3>1, <3>2, AlikeInScope
  <2>7. FusedFirst(found, lexical, semantic) /\ UnitsOnce(found)
    BY <2>2, <2>3, MergeRanks
  <2>. QED BY <2>4, <2>6, <2>7
<1>. QED BY <1>2, <1>3, <1>4

\* No row twice is no id twice.
LEMMA FusedFirstDistinct ==
    ASSUME NEW list \in Seq(Scored), NEW lexical, NEW semantic, FusedFirst(list, lexical, semantic)
    PROVE  Distinct(list)
<1> SUFFICES ASSUME NEW i \in DOMAIN list, NEW j \in DOMAIN list, i # j
             PROVE  list[i].id # list[j].id
  BY DEF Distinct
<1>1. i \in Nat /\ j \in Nat
  OBVIOUS
<1>2. CASE i < j
  BY <1>2 DEF FusedFirst
<1>3. CASE j < i
  <2>1. list[j].id # list[i].id
    BY <1>3 DEF FusedFirst
  <2>. QED BY <2>1
<1>. QED BY <1>1, <1>2, <1>3

\* the linked facts of a request, as Linked(r, direct)
LinkedFor(req, direct) ==
    LET sources == {direct[i].source : i \in DOMAIN direct}
        facts   == {l[2] : l \in {l \in Links : l[1] \in sources /\ l[1] \in live
                                                /\ Linkable(l[2], req)}}
    IN SetToSeq({[c EXCEPT !.score = Unit \div 4] :
                   c \in {c \in facts : \A i \in DOMAIN direct : direct[i].id # c.id}})

\* Linked facts are in scope, once each, and none of them was found directly.
LEMMA LinkedIs ==
    ASSUME NEW req, NEW direct
    PROVE  /\ LinkedFor(req, direct) \in Seq(Scored)
           /\ AllInScope(LinkedFor(req, direct), req)
           /\ Distinct(LinkedFor(req, direct))
           /\ \A i \in DOMAIN direct, j \in DOMAIN LinkedFor(req, direct) :
                direct[i].id # LinkedFor(req, direct)[j].id
<1>. DEFINE sources == {direct[i].source : i \in DOMAIN direct}
            used == {l \in Links : l[1] \in sources /\ l[1] \in live /\ Linkable(l[2], req)}
            facts == {l[2] : l \in used}
            new == {c \in facts : \A i \in DOMAIN direct : direct[i].id # c.id}
            s == Unit \div 4
            S == {[c EXCEPT !.score = s] : c \in new}
            list == LinkedFor(req, direct)
<1>1. list = SetToSeq(S)
  BY DEF LinkedFor
<1>2. \A l \in Links : l[2] \in Memory
  BY RecallAssumption
<1>3. \A c \in new : c \in Rows /\ Linkable(c, req) /\ \A i \in DOMAIN direct : direct[i].id # c.id
  BY <1>2 DEF Rows
<1>4. IsFiniteSet(new)
  <2>1. IsFiniteSet(used)
    <3>1. IsFiniteSet(Links) /\ used \in SUBSET Links
      BY RecallAssumption
    <3>. HIDE DEF used
    <3>. QED BY <3>1, FS_Subset
  <2>. DEFINE f == [l \in used |-> l[2]]
  <2>2. f \in Surjection(used, facts)
    <3>1. f \in [used -> facts]
      OBVIOUS
    <3>2. \A c \in facts : \E l \in used : f[l] = c
      OBVIOUS
    <3>. QED BY <3>1, <3>2 DEF Surjection
  <2>3. new \in SUBSET facts
    OBVIOUS
  <2>. HIDE DEF f, used, facts, new
  <2>4. IsFiniteSet(facts)
    BY <2>1, <2>2, FS_Surjection
  <2>. QED BY <2>3, <2>4, FS_Subset
<1>5. s \in Nat
  <2>1. Unit \in Nat
    BY UnitIs
  <2>. QED BY <2>1, Z3
<1>. HIDE DEF s, new
<1>6. IsFiniteSet(S)
  <2>. DEFINE f == [c \in new |-> [c EXCEPT !.score = s]]
  <2>1. f \in Surjection(new, S)
    <3>1. f \in [new -> S]
      OBVIOUS
    <3>2. \A x \in S : \E c \in new : f[c] = x
      OBVIOUS
    <3>. QED BY <3>1, <3>2 DEF Surjection
  <2>. HIDE DEF f, S
  <2>. QED BY <2>1, <1>4, FS_Surjection
<1>7. ASSUME NEW x \in S
      PROVE  \E c \in new : x = [c EXCEPT !.score = s] /\ x \in Scored /\ Alike(x, c)
  <2>1. PICK c \in new : x = [c EXCEPT !.score = s]
    OBVIOUS
  <2>2. [c EXCEPT !.score = s] \in Scored /\ Alike([c EXCEPT !.score = s], c)
    BY <1>3, <1>5, RowScored
  <2>. QED BY <2>1, <2>2
<1>8. ASSUME NEW x \in S, NEW y \in S, x # y
      PROVE  x.id # y.id
  <2>1. PICK c \in new : x = [c EXCEPT !.score = s] /\ Alike(x, c)
    BY <1>7
  <2>2. PICK d \in new : y = [d EXCEPT !.score = s] /\ Alike(y, d)
    BY <1>7
  <2>3. c # d
    BY <2>1, <2>2, <1>8
  <2>4. c.id # d.id
    BY <2>3, <1>3, RecallAssumption
  <2>. QED BY <2>1, <2>2, <2>4 DEF Alike
<1>9. \A x \in S : InScope(x, req) /\ \A i \in DOMAIN direct : direct[i].id # x.id
  <2> SUFFICES ASSUME NEW x \in S
               PROVE  InScope(x, req) /\ \A i \in DOMAIN direct : direct[i].id # x.id
    OBVIOUS
  <2>1. PICK c \in new : Alike(x, c)
    BY <1>7
  <2>2. InScope(c, req)
    BY <1>3 DEF Linkable, InScope
  <2>. QED BY <2>1, <2>2, <1>3, AlikeInScope DEF Alike
<1>10. S \subseteq Scored
  BY <1>7
<1>. HIDE DEF S, list
<1>11. list \in Seq(S) /\ \A i, j \in DOMAIN list : i # j => list[i] # list[j]
  BY <1>1, <1>6, SequenceOfSet
<1>12. list \in Seq(Scored) /\ \A i \in DOMAIN list : list[i] \in S
  BY <1>10, <1>11
<1>13. AllInScope(list, req)
  BY <1>9, <1>12 DEF AllInScope
<1>14. Distinct(list)
  BY <1>8, <1>11, <1>12 DEF Distinct
<1>15. \A i \in DOMAIN direct, j \in DOMAIN list : direct[i].id # list[j].id
  BY <1>9, <1>12
<1>. QED BY <1>12, <1>13, <1>14, <1>15 DEF list

\* Candidates and linked facts together are in scope, once each.
LEMMA AllAre ==
    ASSUME NEW left \in Seq(Scored), NEW right \in Seq(Scored), NEW req,
           AllInScope(left, req), AllInScope(right, req), Distinct(left), Distinct(right),
           \A i \in DOMAIN left, j \in DOMAIN right : left[i].id # right[j].id
    PROVE  /\ left \o right \in Seq(Scored)
           /\ AllInScope(left \o right, req)
           /\ Distinct(left \o right)
<1>. DEFINE all == left \o right
            n == Len(left)
<1>1. /\ all \in Seq(Scored)
      /\ \A i \in DOMAIN left : all[i] = left[i]
      /\ \A i \in DOMAIN right : all[n + i] = right[i]
      /\ \A k \in DOMAIN all : k \in DOMAIN left \/ \E i \in DOMAIN right : k = n + i
  BY Joined
<1>. HIDE DEF all, n
<1>2. AllInScope(all, req)
  BY <1>1 DEF AllInScope
<1>3. Distinct(all)
  <2> SUFFICES ASSUME NEW i \in DOMAIN all, NEW j \in DOMAIN all, i # j
               PROVE  all[i].id # all[j].id
    BY DEF Distinct
  <2>1. CASE i \in DOMAIN left /\ j \in DOMAIN left
    BY <2>1, <1>1 DEF Distinct
  <2>2. CASE i \in DOMAIN left /\ j \notin DOMAIN left
    <3>1. PICK q \in DOMAIN right : j = n + q
      BY <2>2, <1>1
    <3>. QED BY <2>2, <3>1, <1>1
  <2>3. CASE i \notin DOMAIN left /\ j \in DOMAIN left
    <3>1. PICK p \in DOMAIN right : i = n + p
      BY <2>3, <1>1
    <3>2. all[i].id = right[p].id /\ all[j].id = left[j].id
      BY <2>3, <3>1, <1>1
    <3>. QED BY <2>3, <3>2
  <2>4. CASE i \notin DOMAIN left /\ j \notin DOMAIN left
    <3>1. PICK p \in DOMAIN right : i = n + p
      BY <2>4, <1>1
    <3>2. PICK q \in DOMAIN right : j = n + q
      BY <2>4, <1>1
    <3>3. p # q
      BY <3>1, <3>2
    <3>. QED BY <3>1, <3>2, <3>3, <1>1 DEF Distinct
  <2>. QED BY <2>1, <2>2, <2>3, <2>4
<1>. QED BY <1>1, <1>2, <1>3 DEF all

-----------------------------------------------------------------------------
(* The answer and the handoff                                              *)

\* An item is missing only if it did not fit beside its own and higher layers.
TrimmedByLayer(found, answer, budget) ==
    \A i \in DOMAIN found, j \in DOMAIN answer :
        /\ \A k \in DOMAIN answer : answer[k].id # found[i].id
        /\ Layer[found[i].type] < Layer[answer[j].type]
        => found[i].size + SumFunctionOnSet(Sizes(answer),
             {k \in DOMAIN answer : Layer[answer[k].type] <= Layer[found[i].type]})
           > budget

\* AnswersAreRanked, of one request
RankedFor(req, lexical, semantic, answer) ==
    LET found == CandidatesFor(req, lexical, semantic)
    IN /\ FusedFirst(found, lexical, semantic)
       /\ req.mode = "hybrid" /\ semantic # <<>> => UnitsOnce(found)
       /\ TrimmedByLayer(found, answer, req.budget)

\* No search is a search that found nothing.
LEMMA EmptyLists ==
    ASSUME NEW req
    PROVE  Listing(<<>>) /\ AllInScope(<<>>, req) /\ Distinct(<<>>)
BY RanksPositive DEF Listing, AllInScope, Distinct, ListsRowsOnce

\* The answer to a request holds what it may see, once each, by layers within
\* the budget.
LEMMA AnswerIs ==
    ASSUME NEW req, NEW lexical, NEW semantic, Listing(lexical), Listing(semantic),
           AllInScope(lexical, req), AllInScope(semantic, req),
           req.mode = "keyword" => semantic = <<>>, req.mode = "semantic" => lexical = <<>>,
           req.budget \in Nat,
           NEW found, found = CandidatesFor(req, lexical, semantic),
           NEW linked \in {<<>>, LinkedFor(req, found)},
           NEW answer,
           answer = Trim(found \o linked, req.budget, IF Scoped(req) THEN Limit ELSE Len(found \o linked)).items
    PROVE  /\ answer \in Seq(Scored) /\ Distinct(answer) /\ AllInScope(answer, req)
           /\ RankedFor(req, lexical, semantic, answer)
<1>. DEFINE all == found \o linked
            limit == IF Scoped(req) THEN Limit ELSE Len(all)
            budget == req.budget
<1>1. /\ found \in Seq(Scored) /\ AllInScope(found, req) /\ FusedFirst(found, lexical, semantic)
      /\ req.mode = "hybrid" /\ semantic # <<>> => UnitsOnce(found)
  BY CandidatesAre
<1>2. Distinct(found)
  BY <1>1, FusedFirstDistinct
<1>3. /\ linked \in Seq(Scored) /\ AllInScope(linked, req) /\ Distinct(linked)
      /\ \A i \in DOMAIN found, j \in DOMAIN linked : found[i].id # linked[j].id
  <2>1. CASE linked = <<>>
    BY <2>1, EmptyLists
  <2>2. CASE linked = LinkedFor(req, found)
    BY <2>2, LinkedIs
  <2>. QED BY <2>1, <2>2
<1>4. all \in Seq(Scored) /\ AllInScope(all, req) /\ Distinct(all)
  BY <1>1, <1>2, <1>3, AllAre
<1>5. \A i \in DOMAIN found : i \in DOMAIN all /\ all[i] = found[i]
  BY <1>1, <1>3, Joined
<1>6. limit \in Nat
  <2>1. Limit \in Nat /\ Len(all) \in Nat
    BY <1>4, RecallAssumption
  <2>. HIDE DEF all
  <2>. QED BY <2>1
<1>7. answer = Trim(all, budget, limit).items /\ budget \in Nat
  OBVIOUS
<1>. HIDE DEF all, limit, budget
<1>8. /\ Trim(all, budget, limit) \in Trimming(Scored)
      /\ \A j \in DOMAIN Trim(all, budget, limit).items :
                \E i \in DOMAIN all : Trim(all, budget, limit).items[j] = all[i]
      /\ Distinct(Trim(all, budget, limit).items)
  BY <1>4, <1>6, <1>7, ScoredRankable, TrimSelects
<1>9. answer \in Seq(Scored)
  BY <1>7, <1>8 DEF Trimming
<1>10. Distinct(answer)
  BY <1>7, <1>8
<1>11. AllInScope(answer, req)
  BY <1>4, <1>7, <1>8 DEF AllInScope
<1>12. ASSUME NEW i \in DOMAIN found, NEW j \in DOMAIN answer,
              \A k \in DOMAIN answer : answer[k].id # found[i].id,
              Layer[found[i].type] < Layer[answer[j].type]
       PROVE  found[i].size + SumFunctionOnSet(Sizes(answer),
                {k \in DOMAIN answer : Layer[answer[k].type] <= Layer[found[i].type]}) > budget
  <2>1. i \in DOMAIN all /\ all[i] = found[i]
    BY <1>5
  <2>2. \A k \in DOMAIN answer : answer[k].id # all[i].id
    BY <2>1, <1>12
  <2>3. Layer[all[i].type] < Layer[answer[j].type]
    BY <2>1, <1>12
  <2>4. all[i].size + SumFunctionOnSet(Sizes(answer),
                {k \in DOMAIN answer : Layer[answer[k].type] <= Layer[all[i].type]}) > budget
    BY <2>1, <2>2, <2>3, <1>4, <1>6, <1>7, ScoredRankable, TrimByLayer
  <2>. QED BY <2>1, <2>4
<1>13. TrimmedByLayer(found, answer, budget)
  BY <1>12 DEF TrimmedByLayer
<1>14. RankedFor(req, lexical, semantic, answer)
  BY <1>1, <1>13 DEF RankedFor, budget
<1>. QED BY <1>9, <1>10, <1>11, <1>14

\* HandoffAccounts, of one handoff
AccountsFor(answer, packet, payload, rendered) ==
    /\ Ids(packet.selected) \union Ids(packet.excluded) = Ids(answer.items)
    /\ Accounts(packet, payload.given, payload.max)
    /\ RendersAll(packet.selected, rendered.given, rendered.max)

\* The handoff accounts for the answer it was made of.
LEMMA HandoffIs ==
    ASSUME NEW answer, answer.items \in Seq(Scored), Distinct(answer.items),
           NEW tokens, NEW max \in Nat,
           NEW packet, packet = Packet(answer, tokens)
    PROVE  AccountsFor(answer, packet, [max |-> max, given |-> Consume(packet, max)],
                       [max |-> max, given |-> Render(packet.selected, max)])
<1>. DEFINE filled == Filled(answer.items, tokens)
<1>1. \A c \in Scored : c.size \in Nat
  BY ScoredIs
<1>2. /\ filled \in Packing(Scored)
      /\ Ids(filled.selected) \union Ids(filled.excluded) = Ids(answer.items)
      /\ Distinct(filled.selected)
  BY <1>1, FilledHolds
<1>3. packet.selected = filled.selected /\ packet.excluded = filled.excluded
  BY DEF Packet
<1>4. packet.selected \in Seq(Scored) /\ Len(packet.excluded) \in Nat /\ Distinct(packet.selected)
  BY <1>2, <1>3 DEF Packing
<1>5. Accounts(packet, Consume(packet, max), max)
  BY <1>1, <1>4, ConsumeAccounts
<1>6. RendersAll(packet.selected, Render(packet.selected, max), max)
  BY <1>1, <1>4, RenderAccounts
<1>. QED BY <1>2, <1>3, <1>5, <1>6 DEF AccountsFor

-----------------------------------------------------------------------------
(* The requests in progress                                                *)

\* The places of a request.
Places == {"idle", "lexical", "semantic", "links", "fill", "answered", "handed"}

\* What there is to a request in progress.
FieldNames ==
    {"at", "req", "since", "lexical", "semantic", "answer", "packet", "payload", "rendered"}

\* What a request in progress holds.
Sound(rd) ==
    /\ DOMAIN rd = FieldNames
    /\ rd.at \in Places
    /\ rd.req \in Asked \union {NoRequest}
    /\ rd.at # "idle" => rd.req \in Asked
    /\ Listing(rd.lexical) /\ AllInScope(rd.lexical, rd.req)
    /\ Listing(rd.semantic) /\ AllInScope(rd.semantic, rd.req)
    /\ rd.at = "lexical" => rd.req.mode # "semantic"
    /\ rd.at = "semantic" => rd.req.mode # "keyword"
    /\ rd.req.mode = "keyword" => rd.semantic = <<>>
    /\ rd.req.mode = "semantic" => rd.lexical = <<>>
    /\ rd.answer.items \in Seq(Scored) /\ Distinct(rd.answer.items)
    /\ AllInScope(rd.answer.items, rd.req)
    /\ rd.at = "fill" => RankedFor(rd.req, rd.lexical, rd.semantic, rd.answer.items)
    /\ rd.at = "handed" => AccountsFor(rd.answer, rd.packet, rd.payload, rd.rendered)

\* What the cache holds: answers to requests without memory spaces.  There were no
\* more changes since they were kept than there are still to be cleared for.
Cached(e, now, pending) ==
    /\ e.since \in Nat /\ e.kept \in Nat /\ e.since <= e.kept /\ e.kept <= now
    /\ now <= e.kept + pending
    /\ e.answer.items \in Seq(Scored) /\ Distinct(e.answer.items)
    /\ \A i \in DOMAIN e.answer.items : Passes(e.answer.items[i], e.key)

\* The counts, and a ranking that is one.
Counted ==
    /\ relevance \in Rankings /\ live \subseteq Sources
    /\ changes \in 0..MaxChanges /\ unflushed \in 0..changes /\ asked \in 0..MaxRequests

\* Every request in progress is sound.
Reading ==
    /\ reader = [r \in Readers |-> reader[r]]
    /\ \A r \in Readers : Sound(reader[r]) /\ reader[r].since \in 0..changes

\* Everything in the cache is sound.
Holding == \A e \in cache : Cached(e, changes, unflushed)

\* AnswersAreRanked and HandoffAccounts are about one place of a request each:
\* this is what every place keeps for the next, and the cache for requests to
\* come.
RecallInv == Counted /\ Reading /\ Holding

\* A request made is a request.
LEMMA RequestIs ==
    ASSUME NEW req \in Asked
    PROVE  /\ req \in Requests /\ req.mode \in {"keyword", "semantic", "hybrid"} /\ req.budget \in Nat
           /\ req \in Asked \union {NoRequest}
BY RecallAssumption DEF Requests

\* Between requests nothing is held.
LEMMA IdleIs == Sound(Idle) /\ Idle.since = 0 /\ Idle.at = "idle"
<1>1. /\ Idle.at = "idle" /\ Idle.req = NoRequest /\ Idle.lexical = <<>> /\ Idle.semantic = <<>>
      /\ Idle.answer.items = <<>> /\ Idle.since = 0
      /\ DOMAIN Idle = FieldNames
  BY DEF Idle, NoAnswer, FieldNames
<1>2. NoRequest.mode = "none"
  BY DEF NoRequest
<1>. QED BY <1>1, <1>2, EmptyLists DEF Sound, Places

\* a step of one request leaves the others alone
LEMMA OneReads ==
    ASSUME Reading, NEW r \in Readers, NEW new, reader' = [reader EXCEPT ![r] = new],
           changes' = changes, Sound(new), new.since \in 0..changes
    PROVE  Reading'
BY DEF Reading

\* An answer of the cache is in the scope of a request that may be given it;
\* otherwise the searches begin.
LEMMA AskReads ==
    ASSUME RecallInv, NEW r \in Readers, Ask(r)
    PROVE  Reading'
<1>1. PICK req \in Asked : LET hits == {e \in cache : Cacheable(req) /\ e.key = Key(req)}
         IN reader' = [reader EXCEPT ![r] =
              IF hits # {}
                THEN [Idle EXCEPT !.at = "answered", !.req = req,
                        !.answer = (CHOOSE e \in hits : TRUE).answer]
                ELSE [Idle EXCEPT !.req = req, !.since = changes,
                        !.at = IF req.mode = "semantic" THEN "semantic" ELSE "lexical"]]
  BY DEF Ask
<1>. DEFINE hits == {e \in cache : Cacheable(req) /\ e.key = Key(req)}
            hit == CHOOSE e \in hits : TRUE
            known == [Idle EXCEPT !.at = "answered", !.req = req, !.answer = hit.answer]
            fresh == [Idle EXCEPT !.req = req, !.since = changes,
                        !.at = IF req.mode = "semantic" THEN "semantic" ELSE "lexical"]
<1>2. Reading /\ Holding /\ changes' = changes /\ changes \in Nat
  BY DEF RecallInv, Ask, Counted
<1>3. /\ Idle.lexical = <<>> /\ Idle.semantic = <<>> /\ Idle.answer.items = <<>> /\ Idle.since = 0
      /\ DOMAIN Idle = {"at", "req", "since", "lexical", "semantic", "answer", "packet", "payload", "rendered"}
  BY DEF Idle, NoAnswer
<1>4. req.mode \in {"keyword", "semantic", "hybrid"}
  BY RequestIs
<1>5. CASE hits # {}
  <2>1. hit \in cache /\ Cacheable(req) /\ hit.key = Key(req)
    BY <1>5
  <2>2. reader' = [reader EXCEPT ![r] = known]
    BY <1>1, <1>5
  <2>. HIDE DEF hit
  <2>3. /\ known.at = "answered" /\ known.req = req /\ known.since = 0 /\ known.lexical = <<>>
        /\ known.semantic = <<>> /\ known.answer = hit.answer
        /\ DOMAIN known = FieldNames
    BY DEF Idle, FieldNames
  <2>. HIDE DEF known
  <2>4. hit.answer.items \in Seq(Scored) /\ Distinct(hit.answer.items)
        /\ \A i \in DOMAIN hit.answer.items : Passes(hit.answer.items[i], hit.key)
    BY <1>2, <2>1 DEF Holding, Cached
  <2>5. AllInScope(hit.answer.items, req)
    <3>1. hit.key.filter = req.filter /\ ~Scoped(req)
      BY <2>1 DEF Key, Cacheable
    <3>. QED BY <2>4, <3>1 DEF AllInScope, InScope, Bound, Passes
  <2>6. Sound(known)
    BY <2>3, <2>4, <2>5, EmptyLists DEF Sound, Places
  <2>7. known.since \in 0..changes
    BY <1>2, <2>3
  <2>. QED BY <1>2, <2>2, <2>6, <2>7, OneReads
<1>6. CASE hits = {}
  <2>2. reader' = [reader EXCEPT ![r] = fresh]
    BY <1>1, <1>6
  <2>3. /\ fresh.at = (IF req.mode = "semantic" THEN "semantic" ELSE "lexical")
        /\ fresh.req = req /\ fresh.since = changes /\ fresh.lexical = <<>>
        /\ fresh.semantic = <<>> /\ fresh.answer.items = <<>>
        /\ DOMAIN fresh = FieldNames
    BY DEF Idle, NoAnswer, FieldNames
  <2>. HIDE DEF fresh
  <2>4. fresh.at \in {"lexical", "semantic"}
        /\ (fresh.at = "lexical" => req.mode # "semantic") /\ (fresh.at = "semantic" => req.mode # "keyword")
    BY <2>3
  <2>6. Sound(fresh)
    BY <2>3, <2>4, EmptyLists DEF Sound, Places
  <2>7. fresh.since \in 0..changes
    BY <1>2, <2>3
  <2>. QED BY <1>2, <2>2, <2>6, <2>7, OneReads
<1>. QED BY <1>5, <1>6

\* The two rankings of the query list each row once.
LEMMA RankingIs ==
    ASSUME Counted
    PROVE  /\ relevance[1] \in Seq(Memory) /\ relevance[2] \in Seq(Embedded)
           /\ ListsRowsOnce(relevance[1]) /\ ListsRowsOnce(relevance[2])
BY RecallAssumption DEF Counted

\* The search by words keeps the requests in progress sound.
LEMMA SearchKeywordReads ==
    ASSUME RecallInv, NEW r \in Readers, SearchKeyword(r)
    PROVE  Reading'
<1>. DEFINE old == reader[r]
            req == old.req
            list == Ranked(Found(relevance[1], req))
            next == IF req.mode = "hybrid" THEN "semantic" ELSE "links"
            new == [old EXCEPT !.lexical = list, !.at = next]
<1>1. Reading /\ Sound(old) /\ old.since \in 0..changes /\ changes' = changes /\ old.at = "lexical"
  BY DEF RecallInv, Reading, SearchKeyword, At
<1>2. reader' = [reader EXCEPT ![r] = new]
  BY DEF SearchKeyword, Req
<1>3. Listing(list) /\ AllInScope(list, req)
  <2>1. relevance[1] \in Seq(Memory) /\ ListsRowsOnce(relevance[1])
    BY RankingIs DEF RecallInv
  <2>. QED BY <2>1, FoundIs
<1>. HIDE DEF list
<1>4. next \in Places /\ next # "fill" /\ next # "handed" /\ next # "lexical" /\ next # "idle"
      /\ (next = "semantic" => req.mode = "hybrid")
  BY DEF Places
<1>. HIDE DEF next
<1>5. /\ new.at = next /\ new.req = req /\ new.since = old.since /\ new.lexical = list
      /\ new.semantic = old.semantic /\ new.answer = old.answer
      /\ DOMAIN new = FieldNames
  BY <1>1 DEF Sound, FieldNames
<1>. HIDE DEF new, old, req
<1>6. Sound(new)
  BY <1>1, <1>3, <1>4, <1>5 DEF Sound, req
<1>. QED BY <1>1, <1>2, <1>5, <1>6, OneReads

\* The search by meaning keeps them so.
LEMMA SearchSemanticReads ==
    ASSUME RecallInv, NEW r \in Readers, SearchSemantic(r)
    PROVE  Reading'
<1>. DEFINE old == reader[r]
            req == old.req
<1>1. Reading /\ Sound(old) /\ old.since \in 0..changes /\ changes' = changes /\ old.at = "semantic"
  BY DEF RecallInv, Reading, SearchSemantic, At
<1>2. PICK list \in {<<>>, Ranked(Found(relevance[2], req))} :
        reader' = [reader EXCEPT ![r].semantic = list, ![r].at = "links"]
  BY DEF SearchSemantic, Req
<1>. DEFINE new == [old EXCEPT !.semantic = list, !.at = "links"]
<1>3. reader' = [reader EXCEPT ![r] = new]
  BY <1>2
<1>4. Listing(list) /\ AllInScope(list, req)
  <2>1. relevance[2] \in Seq(Embedded) /\ ListsRowsOnce(relevance[2])
    BY RankingIs DEF RecallInv
  <2>. QED BY <2>1, FoundIs, EmptyLists
<1>5. /\ new.at = "links" /\ new.req = req /\ new.since = old.since /\ new.lexical = old.lexical
      /\ new.semantic = list /\ new.answer = old.answer
      /\ DOMAIN new = FieldNames
  BY <1>1 DEF Sound, FieldNames
<1>. HIDE DEF new, old, req
<1>6. Sound(new)
  BY <1>1, <1>4, <1>5 DEF Sound, req, Places
<1>. QED BY <1>1, <1>3, <1>5, <1>6, OneReads

\* Linking and trimming keep them so, and leave the answer ranked.
LEMMA FollowLinksReads ==
    ASSUME RecallInv, NEW r \in Readers, FollowLinks(r)
    PROVE  Reading'
<1>. DEFINE old == reader[r]
            req == old.req
            found == CandidatesFor(req, old.lexical, old.semantic)
<1>1. Reading /\ Sound(old) /\ old.since \in 0..changes /\ changes' = changes /\ old.at = "links"
  BY DEF RecallInv, Reading, FollowLinks, At
<1>2. Candidates(r) = found
  BY DEF Candidates, CandidatesFor, Req
<1>3. Linked(r, found) = LinkedFor(req, found)
  BY DEF Linked, LinkedFor, Req
<1>4. PICK linked \in {<<>>, LinkedFor(req, found)} :
        LET all     == found \o linked
            trimmed == Trim(all, req.budget, IF Scoped(req) THEN Limit ELSE Len(all)) IN
        reader' = [reader EXCEPT ![r].at = "fill",
                     ![r].answer = [items |-> trimmed.items, used |-> trimmed.used,
                                    reason |-> trimmed.reason, degraded |-> Degraded(r)]]
  <2>. HIDE DEF found
  <2>. QED BY <1>2, <1>3 DEF FollowLinks, Req
<1>. DEFINE trimmed == Trim(found \o linked, req.budget,
                            IF Scoped(req) THEN Limit ELSE Len(found \o linked))
            answer == [items |-> trimmed.items, used |-> trimmed.used,
                       reason |-> trimmed.reason, degraded |-> Degraded(r)]
            new == [old EXCEPT !.at = "fill", !.answer = answer]
<1>5. req \in Asked /\ req.budget \in Nat
  BY <1>1, RequestIs DEF Sound
<1>6. /\ Listing(old.lexical) /\ Listing(old.semantic)
      /\ AllInScope(old.lexical, req) /\ AllInScope(old.semantic, req)
      /\ req.mode = "keyword" => old.semantic = <<>>
      /\ req.mode = "semantic" => old.lexical = <<>>
  BY <1>1 DEF Sound
<1>. HIDE DEF found, trimmed
<1>7. /\ trimmed.items \in Seq(Scored) /\ Distinct(trimmed.items) /\ AllInScope(trimmed.items, req)
      /\ RankedFor(req, old.lexical, old.semantic, trimmed.items)
  <2>1. trimmed.items = Trim(found \o linked, req.budget,
                             IF Scoped(req) THEN Limit ELSE Len(found \o linked)).items
    BY DEF trimmed
  <2>2. found = CandidatesFor(req, old.lexical, old.semantic)
    BY DEF found
  <2>. DEFINE lexical == old.lexical
              semantic == old.semantic
              items == trimmed.items
  <2>. HIDE DEF lexical, semantic, items
  <2>3. /\ items \in Seq(Scored) /\ Distinct(items) /\ AllInScope(items, req)
        /\ RankedFor(req, lexical, semantic, items)
    BY <1>4, <1>5, <1>6, <2>1, <2>2, AnswerIs DEF lexical, semantic, items
  <2>. QED BY <2>3 DEF lexical, semantic, items
<1>8. reader' = [reader EXCEPT ![r].at = "fill", ![r].answer = answer]
  BY <1>4 DEF trimmed
<1>9. answer.items = trimmed.items
  OBVIOUS
<1>. HIDE DEF answer
<1>10. reader' = [reader EXCEPT ![r] = new]
  BY <1>8
<1>11. /\ new.at = "fill" /\ new.req = req /\ new.since = old.since /\ new.lexical = old.lexical
       /\ new.semantic = old.semantic /\ new.answer = answer /\ DOMAIN new = FieldNames
  BY <1>1 DEF Sound, FieldNames
<1>. HIDE DEF new, old, req
<1>12. Sound(new)
  BY <1>1, <1>5, <1>6, <1>7, <1>9, <1>11 DEF Sound, Places, req
<1>. QED BY <1>1, <1>10, <1>11, <1>12, OneReads

\* Keeping the answer keeps them so.
LEMMA FillReads ==
    ASSUME RecallInv, NEW r \in Readers, Fill(r)
    PROVE  Reading'
<1>. DEFINE old == reader[r]
            new == [old EXCEPT !.at = "answered", !.lexical = <<>>, !.semantic = <<>>]
<1>1. Reading /\ Sound(old) /\ old.since \in 0..changes /\ changes' = changes /\ old.at = "fill"
  BY DEF RecallInv, Reading, Fill, At
<1>2. reader' = [reader EXCEPT ![r] = new]
  BY DEF Fill
<1>3. /\ new.at = "answered" /\ new.req = old.req /\ new.since = old.since /\ new.lexical = <<>>
      /\ new.semantic = <<>> /\ new.answer = old.answer /\ DOMAIN new = FieldNames
  BY <1>1 DEF Sound, FieldNames
<1>. HIDE DEF new, old
<1>4. Sound(new)
  BY <1>1, <1>3, EmptyLists DEF Sound, Places
<1>. QED BY <1>1, <1>2, <1>3, <1>4, OneReads

\* The handoff keeps them so, and accounts for the answer.
LEMMA HandOverReads ==
    ASSUME RecallInv, NEW r \in Readers, HandOver(r)
    PROVE  Reading'
<1>. DEFINE old == reader[r]
<1>1. Reading /\ Sound(old) /\ old.since \in 0..changes /\ changes' = changes /\ old.at = "answered"
  BY DEF RecallInv, Reading, HandOver, At
<1>2. PICK tokens \in TokenBudgets, max \in ModelBudgets :
        LET packet == Packet(old.answer, tokens) IN
        reader' = [reader EXCEPT ![r].at = "handed", ![r].packet = packet,
                     ![r].payload = [max |-> max, given |-> Consume(packet, max)],
                     ![r].rendered = [max |-> max, given |-> Render(packet.selected, max)]]
  BY DEF HandOver
<1>. DEFINE packet == Packet(old.answer, tokens)
            payload == [max |-> max, given |-> Consume(packet, max)]
            rendered == [max |-> max, given |-> Render(packet.selected, max)]
            new == [old EXCEPT !.at = "handed", !.packet = packet, !.payload = payload,
                      !.rendered = rendered]
<1>3. old.answer.items \in Seq(Scored) /\ Distinct(old.answer.items)
  BY <1>1 DEF Sound
<1>4. max \in Nat
  BY RecallAssumption
<1>5. AccountsFor(old.answer, packet, payload, rendered)
  BY <1>3, <1>4, HandoffIs
<1>. HIDE DEF packet
<1>6. reader' = [reader EXCEPT ![r] = new]
  BY <1>2 DEF packet
<1>. HIDE DEF payload, rendered
<1>7. /\ new.at = "handed" /\ new.req = old.req /\ new.since = old.since /\ new.lexical = old.lexical
      /\ new.semantic = old.semantic /\ new.answer = old.answer /\ new.packet = packet
      /\ new.payload = payload /\ new.rendered = rendered /\ DOMAIN new = FieldNames
  BY <1>1 DEF Sound, FieldNames
<1>. HIDE DEF new, old
<1>8. Sound(new)
  BY <1>1, <1>5, <1>7 DEF Sound, Places
<1>. QED BY <1>1, <1>6, <1>7, <1>8, OneReads

\* A request that ends leaves nothing behind.
LEMMA LeaveReads ==
    ASSUME RecallInv, NEW r \in Readers, Leave(r)
    PROVE  Reading'
<1>1. Reading /\ changes \in Nat /\ changes' = changes /\ reader' = [reader EXCEPT ![r] = Idle]
  BY DEF RecallInv, Leave, Counted
<1>2. Sound(Idle) /\ Idle.since \in 0..changes
  BY <1>1, IdleIs
<1>. QED BY <1>1, <1>2, OneReads

-----------------------------------------------------------------------------
(* The invariant and what follows from it                                  *)

\* Every step keeps the requests in progress sound.
LEMMA ReadingKept ==
    ASSUME RecallInv, [Next]_vars
    PROVE  Reading'
<1>1. ASSUME NEW r \in Readers, Step(r) PROVE Reading'
  BY <1>1, AskReads, SearchKeywordReads, SearchSemanticReads, FollowLinksReads, FillReads,
     HandOverReads, LeaveReads DEF Step
<1>2. ASSUME NEW visible, Change(visible) PROVE Reading'
  <2>1. Reading /\ changes \in Nat /\ changes' = changes + 1 /\ reader' = reader
    BY <1>2 DEF RecallInv, Change, Counted
  <2>2. reader' = [r \in Readers |-> reader'[r]]
    BY <2>1 DEF Reading
  <2>3. ASSUME NEW r \in Readers
        PROVE  Sound(reader'[r]) /\ reader'[r].since \in 0..changes'
    <3>1. Sound(reader[r]) /\ reader[r].since \in 0..changes
      BY <2>1 DEF Reading
    <3>. QED BY <2>1, <3>1
  <2>. QED BY <2>2, <2>3 DEF Reading
<1>3. CASE Invalidate \/ Expire \/ UNCHANGED vars
  <2>1. reader' = reader /\ changes' = changes
    BY <1>3 DEF Invalidate, Expire, vars
  <2>. QED BY <2>1 DEF RecallInv, Reading
<1>. QED BY <1>1, <1>2, <1>3 DEF Next, Publish, Withdraw

\* Every step keeps the counts.
LEMMA CountedKept ==
    ASSUME RecallInv, [Next]_vars
    PROVE  Counted'
<1>1. Counted /\ MaxRequests \in Nat /\ MaxChanges \in Nat
  BY RecallAssumption DEF RecallInv
<1>2. ASSUME NEW r \in Readers, Step(r) PROVE Counted'
  <2>1. /\ UNCHANGED <<relevance, live, changes, unflushed>>
        /\ asked' = asked \/ (asked < MaxRequests /\ asked' = asked + 1)
    BY <1>2 DEF Step, Ask, SearchKeyword, SearchSemantic, FollowLinks, Fill, HandOver, Leave
  <2>. QED BY <1>1, <2>1 DEF Counted
<1>3. ASSUME NEW s \in Sources, Publish(s) \/ Withdraw(s) PROVE Counted'
  <2>1. /\ relevance' = relevance /\ asked' = asked /\ live' \in {live \union {s}, live \ {s}}
        /\ changes < MaxChanges /\ changes' = changes + 1 /\ unflushed' = unflushed + 1
    BY <1>3 DEF Publish, Withdraw, Change
  <2>. QED BY <1>1, <2>1 DEF Counted
<1>4. CASE Invalidate \/ Expire
  <2>1. /\ UNCHANGED <<relevance, live, changes, asked>>
        /\ unflushed' = unflushed \/ (unflushed > 0 /\ unflushed' = unflushed - 1)
    BY <1>4 DEF Invalidate, Expire
  <2>. QED BY <1>1, <2>1 DEF Counted
<1>5. CASE UNCHANGED vars
  BY <1>1, <1>5 DEF Counted, vars
<1>. QED BY <1>2, <1>3, <1>4, <1>5 DEF Next

\* Every step keeps the cache: a change that it does not know of is one that
\* still clears it.
LEMMA HoldingKept ==
    ASSUME RecallInv, [Next]_vars
    PROVE  Holding'
<1>1. Holding /\ Reading /\ changes \in Nat /\ unflushed \in Nat
  BY DEF RecallInv, Counted
<1>2. ASSUME cache' \subseteq cache, changes' = changes, unflushed' = unflushed
      PROVE  Holding'
  BY <1>1, <1>2 DEF Holding
<1>3. ASSUME NEW r \in Readers, Fill(r) PROVE Holding'
  <2>. DEFINE old == reader[r]
              new == [key |-> Key(old.req), answer |-> old.answer, since |-> old.since, kept |-> changes]
  <2>1. changes' = changes /\ unflushed' = unflushed
    BY <1>3 DEF Fill
  <2>2. cache' \subseteq cache \/ (Cacheable(old.req) /\ cache' \subseteq cache \union {new})
    BY <1>3 DEF Fill, Req
  <2>3. Sound(old) /\ old.since \in 0..changes
    BY <1>1 DEF Reading
  <2>4. /\ new.since = old.since /\ new.kept = changes /\ new.answer = old.answer
        /\ new.key.filter = old.req.filter
    BY DEF Key
  <2>. HIDE DEF new, old
  <2>5. ASSUME Cacheable(old.req) PROVE Cached(new, changes, unflushed)
    <3>1. /\ old.answer.items \in Seq(Scored) /\ Distinct(old.answer.items)
          /\ \A i \in DOMAIN old.answer.items : Passes(old.answer.items[i], old.req)
      BY <2>3 DEF Sound, AllInScope, InScope
    <3>2. \A i \in DOMAIN new.answer.items : Passes(new.answer.items[i], new.key)
      BY <3>1, <2>4 DEF Passes
    <3>3. new.since \in Nat /\ new.since <= new.kept /\ new.kept <= changes /\ changes <= new.kept + unflushed
          /\ new.kept \in Nat
      BY <1>1, <2>3, <2>4
    <3>. QED BY <2>4, <3>1, <3>2, <3>3 DEF Cached
  <2>. QED BY <1>1, <1>2, <2>1, <2>2, <2>5 DEF Holding
<1>4. ASSUME NEW r \in Readers, Step(r), ~Fill(r) PROVE Holding'
  <2>1. cache' = cache /\ changes' = changes /\ unflushed' = unflushed
    BY <1>4 DEF Step, Ask, SearchKeyword, SearchSemantic, FollowLinks, HandOver, Leave
  <2>. QED BY <1>2, <2>1
<1>5. ASSUME NEW visible, Change(visible) PROVE Holding'
  <2>1. cache' = cache /\ changes' = changes + 1 /\ unflushed' = unflushed + 1
    BY <1>5 DEF Change
  <2>2. ASSUME NEW e \in cache, Cached(e, changes, unflushed)
        PROVE  Cached(e, changes + 1, unflushed + 1)
    BY <1>1, <2>2 DEF Cached
  <2>. QED BY <1>1, <2>1, <2>2 DEF Holding
<1>6. ASSUME Invalidate PROVE Holding'
  BY <1>6 DEF Invalidate, Cleared, Holding
<1>7. ASSUME Expire PROVE Holding'
  <2>1. cache' \subseteq cache /\ changes' = changes /\ unflushed' = unflushed
    BY <1>7 DEF Expire
  <2>. QED BY <1>2, <2>1
<1>8. ASSUME UNCHANGED vars PROVE Holding'
  BY <1>2, <1>8 DEF vars
<1>. QED BY <1>3, <1>4, <1>5, <1>6, <1>7, <1>8 DEF Next, Publish, Withdraw

\* Nothing is held in the beginning.
LEMMA Begins ==
    ASSUME Init PROVE RecallInv
<1>1. Counted
  BY RecallAssumption DEF Init, Counted
<1>2. Reading
  <2>1. \A r \in Readers : reader[r] = Idle
    BY DEF Init
  <2>. QED BY <2>1, IdleIs DEF Init, Reading
<1>. QED BY <1>1, <1>2 DEF Init, Holding, RecallInv

\* The requests, the cache and the counts are sound in every behaviour.
LEMMA Invariance == Spec => []RecallInv
<1>1. Init => RecallInv
  BY Begins
<1>2. RecallInv /\ [Next]_vars => RecallInv'
  BY ReadingKept, CountedKept, HoldingKept DEF RecallInv
<1>. QED BY <1>1, <1>2, PTL DEF Spec

\* Every variable of Recall keeps its type.
THEOREM RecallTypes == Spec => []TypeOK
<1>1. ASSUME RecallInv PROVE TypeOK
  <2>1. ASSUME NEW r \in Readers
        PROVE  /\ At(r) \in {"idle", "lexical", "semantic", "links", "fill", "answered", "handed"}
               /\ Req(r) \in Requests \union {NoRequest}
               /\ reader[r].since \in 0..changes
    <3>1. Sound(reader[r]) /\ reader[r].since \in 0..changes
      BY <1>1 DEF RecallInv, Reading
    <3>2. Asked \subseteq Requests
      BY RecallAssumption
    <3>. QED BY <3>1, <3>2 DEF Sound, Places, At, Req
  <2>2. ASSUME NEW e \in cache PROVE e.since \in 0..e.kept /\ e.kept \in 0..changes
    BY <1>1 DEF RecallInv, Holding, Cached, Counted
  <2>3. /\ relevance \in Rankings /\ live \subseteq Sources /\ changes \in 0..MaxChanges
        /\ unflushed \in 0..MaxChanges /\ asked \in 0..MaxRequests
    BY <1>1, RecallAssumption DEF RecallInv, Counted
  <2>. QED BY <2>1, <2>2, <2>3 DEF TypeOK
<1>. QED BY <1>1, Invariance, PTL

\* No answer, fresh or cached, shows anything from outside the spaces of its
\* request or that its filters leave out, whatever is linked to what was found.
THEOREM StaysInScope == Spec => []AnswersStayInScope
<1>1. ASSUME RecallInv PROVE AnswersStayInScope
  <2>1. ASSUME NEW r \in Readers, NEW i \in DOMAIN reader[r].answer.items
        PROVE  Bound(reader[r].answer.items[i], Req(r)) /\ Passes(reader[r].answer.items[i], Req(r))
    <3>1. AllInScope(reader[r].answer.items, reader[r].req)
      BY <1>1 DEF RecallInv, Reading, Sound
    <3>. QED BY <3>1 DEF AllInScope, InScope, Req
  <2>. QED BY <2>1 DEF AnswersStayInScope
<1>. QED BY <1>1, Invariance, PTL

\* Once every writer has cleared the cache, a stale answer in it was read
\* before a change and kept after it.
THEOREM StaleOverlap == Spec => []StaleOnlyByOverlap
<1>1. ASSUME RecallInv PROVE StaleOnlyByOverlap
  BY <1>1 DEF RecallInv, Holding, Cached, Counted, StaleOnlyByOverlap
<1>. QED BY <1>1, Invariance, PTL

\* Where the searches are joined an answer shows a unit once, what both found
\* comes before what one found and listed once, and an item is left out in
\* favour of a lower layer only if it did not fit: for every pair of rankings,
\* whatever rows of a source they list, every budget and every result limit.
THEOREM AnswersRanked == Spec => []AnswersAreRanked
<1>1. ASSUME RecallInv PROVE AnswersAreRanked
  <2> SUFFICES ASSUME NEW r \in Readers, At(r) = "fill"
               PROVE  LET found  == Candidates(r)
                          answer == reader[r].answer.items
        IN /\ \A i, j \in DOMAIN found : i < j =>
                /\ found[i].id # found[j].id
                /\ Fuses(r) => ~SameUnit(found[i], found[j])
                /\ FoundByBoth(r, found[j]) =>
                     \/ FoundByBoth(r, found[i])
                     \/ Repeats(found[i], reader[r].lexical) \/ Repeats(found[i], reader[r].semantic)
           /\ \A i \in DOMAIN found, j \in DOMAIN answer :
                /\ \A k \in DOMAIN answer : answer[k].id # found[i].id
                /\ Layer[found[i].type] < Layer[answer[j].type]
                => found[i].size + SumFunctionOnSet([k \in DOMAIN answer |-> answer[k].size],
                     {k \in DOMAIN answer : Layer[answer[k].type] <= Layer[found[i].type]})
                   > Req(r).budget
    BY DEF AnswersAreRanked
  <2>. DEFINE found == Candidates(r)
              answer == reader[r].answer.items
              lexical == reader[r].lexical
              semantic == reader[r].semantic
  <2>1. found = CandidatesFor(Req(r), lexical, semantic)
    BY DEF Candidates, CandidatesFor
  <2>2. RankedFor(Req(r), lexical, semantic, answer)
    BY <1>1 DEF RecallInv, Reading, Sound, At, Req
  <2>3. /\ FusedFirst(found, lexical, semantic) /\ TrimmedByLayer(found, answer, Req(r).budget)
        /\ Fuses(r) => UnitsOnce(found)
    BY <2>1, <2>2 DEF RankedFor, Fuses
  <2>4. ASSUME NEW i \in DOMAIN found, NEW j \in DOMAIN found, i < j
        PROVE  /\ found[i].id # found[j].id
               /\ Fuses(r) => ~SameUnit(found[i], found[j])
               /\ FoundByBoth(r, found[j]) =>
                    \/ FoundByBoth(r, found[i])
                    \/ Repeats(found[i], lexical) \/ Repeats(found[i], semantic)
    <3>1. \A c : FoundByBoth(r, c) <=> Among(c, lexical) /\ Among(c, semantic)
      BY DEF FoundByBoth
    <3>. HIDE DEF found, lexical, semantic
    <3>. QED BY <3>1, <2>3, <2>4 DEF FusedFirst, UnitsOnce
  <2>. HIDE DEF found, answer, lexical, semantic
  <2>5. ASSUME NEW i \in DOMAIN found, NEW j \in DOMAIN answer,
               \A k \in DOMAIN answer : answer[k].id # found[i].id,
               Layer[found[i].type] < Layer[answer[j].type]
        PROVE  found[i].size + SumFunctionOnSet([k \in DOMAIN answer |-> answer[k].size],
                 {k \in DOMAIN answer : Layer[answer[k].type] <= Layer[found[i].type]})
               > Req(r).budget
    BY <2>3, <2>5 DEF TrimmedByLayer, Sizes
  <2>. QED BY <2>4, <2>5 DEF found, answer, lexical, semantic
<1>. QED BY <1>1, Invariance, PTL

\* What a model is given accounts for every item of the answer within its
\* budget, and says so when something was left out.
THEOREM HandoffAccounted == Spec => []HandoffAccounts
<1>1. ASSUME RecallInv PROVE HandoffAccounts
  <2>1. ASSUME NEW r \in Readers, At(r) = "handed"
        PROVE  AccountsFor(reader[r].answer, reader[r].packet, reader[r].payload, reader[r].rendered)
    BY <1>1, <2>1 DEF RecallInv, Reading, Sound, At
  <2>. QED BY <2>1 DEF HandoffAccounts, AccountsFor, Accounts, RendersAll, Ids
<1>. QED BY <1>1, Invariance, PTL
=============================================================================
