--------------------------- MODULE LocalInference ---------------------------
(***************************************************************************)
(* The lane of local inference (app/infrastructure/local_inference.py):    *)
(* of all requests that the processes of Recalium send to one Ollama       *)
(* server, at most one at a time is sent, and only when no model is        *)
(* resident.                                                               *)
(*                                                                         *)
(* A request takes the lock of its process, then the advisory lock of the  *)
(* database with a connection of its own, checks the model's identity,     *)
(* polls until nothing is resident, sends the prompt, and polls again      *)
(* until its model has left.  If that last step fails the process is       *)
(* unhealthy and keeps the connection, and so the advisory lock, until it  *)
(* ends.  The server loads and unloads models on its own; it notices only  *)
(* later that a client has gone.  Prompts, answers and digests are left    *)
(* out: a resident model is the expected one or it is not.                 *)
(***************************************************************************)
EXTENDS Naturals, FiniteSets

CONSTANTS
    Procs,       \* processes of Recalium: the API and the worker
    Slots,       \* tasks of a process that may ask for the lane
    Models,      \* models a request or another client may name
    Attempts,    \* residency_attempts
    MaxPrompts, \* bound: requests made
    MaxFaults    \* bound: restarts, lost connections, loads by other clients

ASSUME LocalInferenceAssumption ==
    /\ Attempts \in Nat \ {0} /\ MaxPrompts \in Nat /\ MaxFaults \in Nat
    /\ "none" \notin Procs

VARIABLES
    task,      \* what each task is at
    inside,    \* the task that holds the asyncio lock of each process
    lock,      \* the task whose connection holds the advisory lock
    unhealthy, \* _unhealthy_reason is set
    late,      \* models of prompts whose client is gone, unknown to the server
    resident,  \* models in the server's memory
    made,      \* requests made
    faults,    \* faults so far
    lost       \* whether a connection with the advisory lock was ever lost

owner  == <<inside, lock, unhealthy>>
server == <<late, resident>>
counts == <<made, faults, lost>>
laneVars == <<task, owner, server, counts>>

-----------------------------------------------------------------------------

Tasks   == Procs \X Slots
Proc(r) == r[1]
Nobody  == <<"none", "none">>

Stages == {"idle", "queued", "connecting", "waiting", "identity", "preflight",
           "body", "cleanup", "release"}

AtRest == [at |-> "idle", model |-> "none", polls |-> 0]

LaneTypeOK ==
    /\ task \in [Tasks -> [at : Stages, model : Models \union {"none"}, polls : 0..Attempts]]
    /\ inside \in [Procs -> Tasks \union {Nobody}]
    /\ lock \in Tasks \union {Nobody}
    /\ unhealthy \in [Procs -> BOOLEAN]
    /\ late \subseteq Models
    /\ resident \subseteq Models
    /\ made \in 0..MaxPrompts
    /\ faults \in 0..MaxFaults
    /\ lost \in BOOLEAN
    /\ \A p \in Procs : inside[p] # Nobody => Proc(inside[p]) = p
    /\ \A r \in Tasks :
         task[r].at \in {"preflight", "cleanup"} => task[r].polls < Attempts

StageOf(r)     == task[r].at
Goto(r, stage) == task' = [task EXCEPT ![r] = [@ EXCEPT !.at = stage, !.polls = 0]]

\* the stages in which a task must hold the advisory lock
Owning == {"identity", "preflight", "body", "cleanup", "release"}

-----------------------------------------------------------------------------
(* acquire, up to the critical section *)

AskLane(r) ==
    /\ StageOf(r) = "idle"
    /\ made < MaxPrompts
    /\ made' = made + 1
    /\ \E m \in Models : task' = [task EXCEPT ![r] = [AtRest EXCEPT !.at = "queued", !.model = m]]
    /\ UNCHANGED <<owner, server, faults, lost>>

LeaveProcess(r) == inside' = [inside EXCEPT ![Proc(r)] = Nobody]

NoHealthCheck_Bug(r) == TRUE

\* the check that follows the process lock
Healthy(r) == ~unhealthy[Proc(r)]

EnterProcess(r) ==
    /\ StageOf(r) = "queued"
    /\ inside[Proc(r)] = Nobody
    /\ IF Healthy(r)
         THEN /\ inside' = [inside EXCEPT ![Proc(r)] = r]
              /\ Goto(r, "connecting")
         ELSE /\ task' = [task EXCEPT ![r] = AtRest]
              /\ UNCHANGED inside
    /\ UNCHANGED <<lock, unhealthy, server, counts>>

\* leaving with an error before the advisory lock is held
GiveUp(r) ==
    /\ StageOf(r) \in {"connecting", "waiting"}
    /\ task' = [task EXCEPT ![r] = AtRest]
    /\ LeaveProcess(r)
    /\ UNCHANGED <<lock, unhealthy, server, counts>>

Connect(r) ==
    /\ StageOf(r) = "connecting"
    /\ Goto(r, "waiting")
    /\ UNCHANGED <<owner, server, counts>>

ProcessLockOnly_Bug(r) == TRUE

\* pg_advisory_lock waits for the connection of any process
LockFree(r) == lock = Nobody

TakeLock(r) ==
    /\ StageOf(r) = "waiting"
    /\ LockFree(r)
    /\ lock' = r
    /\ Goto(r, "identity")
    /\ UNCHANGED <<inside, unhealthy, server, counts>>

\* _assert_identity: the model is not installed, or has another digest
CheckIdentity(r) ==
    /\ StageOf(r) = "identity"
    /\ \E stage \in {"preflight", "release"} : Goto(r, stage)
    /\ UNCHANGED <<owner, server, counts>>

-----------------------------------------------------------------------------
(* _wait_until_unloaded: one poll *)

Unexpected(r) == resident \ {task[r].model} # {}

OnePollMore_Bug(r) == task[r].polls = Attempts

LastPoll(r) == task[r].polls + 1 = Attempts

Confirmed(r)   == resident = {}
Unconfirmed(r) == resident # {} /\ (Unexpected(r) \/ LastPoll(r))

PollAgain(r) ==
    /\ ~Confirmed(r) /\ ~Unconfirmed(r)
    /\ task' = [task EXCEPT ![r].polls = @ + 1]

\* a poll before the prompt is sent
Preflight(r) ==
    /\ StageOf(r) = "preflight"
    /\ \/ Confirmed(r) /\ Goto(r, "body")
       \/ PollAgain(r)
       \/ Unconfirmed(r) /\ Goto(r, "release")
    /\ UNCHANGED <<owner, server, counts>>

\* a probe fails, or the task is cancelled
PreflightFails(r) ==
    /\ StageOf(r) \in {"identity", "preflight"}
    /\ Goto(r, "release")
    /\ UNCHANGED <<owner, server, counts>>

FreesLane_Bug(r) ==
    /\ unhealthy' = [unhealthy EXCEPT ![Proc(r)] = TRUE]
    /\ task' = [task EXCEPT ![r] = AtRest]
    /\ LeaveProcess(r)
    /\ lock' = IF lock = r THEN Nobody ELSE lock

\* cleanup is not confirmed: the connection is put aside with its lock
Quarantine(r) ==
    /\ unhealthy' = [unhealthy EXCEPT ![Proc(r)] = TRUE]
    /\ task' = [task EXCEPT ![r] = AtRest]
    /\ LeaveProcess(r)
    /\ UNCHANGED lock

Cleanup(r) ==
    /\ StageOf(r) = "cleanup"
    /\ \/ Confirmed(r) /\ Goto(r, "release") /\ UNCHANGED owner
       \/ PollAgain(r) /\ UNCHANGED owner
       \/ Unconfirmed(r) /\ Quarantine(r)
    /\ UNCHANGED <<server, counts>>

\* the probe fails, or the task is cancelled while it polls
CleanupFails(r) ==
    /\ StageOf(r) = "cleanup"
    /\ Quarantine(r)
    /\ UNCHANGED <<server, counts>>

\* _release_advisory, close and the end of the process lock
Release(r) ==
    /\ StageOf(r) = "release"
    /\ lock' = IF lock = r THEN Nobody ELSE lock
    /\ task' = [task EXCEPT ![r] = AtRest]
    /\ LeaveProcess(r)
    /\ UNCHANGED <<unhealthy, server, counts>>

-----------------------------------------------------------------------------
(* The critical section, and the server *)

Send(r) ==
    /\ StageOf(r) = "body" /\ task[r].polls = 0
    /\ task' = [task EXCEPT ![r].polls = 1]
    /\ UNCHANGED <<owner, server, counts>>

Sent(r) == StageOf(r) = "body" /\ task[r].polls = 1

Answer(r) ==
    /\ Sent(r) /\ task[r].model \in resident
    /\ Goto(r, "cleanup")
    /\ UNCHANGED <<owner, server, counts>>

\* the server goes on with the prompts of clients that are gone until it looks
Forsaken(R) == late' = late \union {task[r].model : r \in {q \in R : Sent(q)}}

\* a timeout, an error of the transport, or a cancelled task
StopWaiting(r) ==
    /\ StageOf(r) = "body"
    /\ Goto(r, "cleanup")
    /\ Forsaken({r})
    /\ UNCHANGED <<owner, resident, counts>>

Notice(m) ==
    /\ m \in late
    /\ late' = late \ {m}
    /\ UNCHANGED <<task, owner, resident, counts>>

Load(m) ==
    /\ m \in late \/ \E r \in Tasks : Sent(r) /\ task[r].model = m
    /\ m \notin resident
    /\ resident' = resident \union {m}
    /\ UNCHANGED <<task, owner, late, counts>>

\* keep_alive is zero: a model no client waits for leaves
Unload(m) ==
    /\ m \in resident
    /\ \A r \in Tasks : Sent(r) => task[r].model # m
    /\ resident' = resident \ {m}
    /\ UNCHANGED <<task, owner, late, counts>>

-----------------------------------------------------------------------------
(* Faults *)

Fault == faults < MaxFaults /\ faults' = faults + 1

\* a client that is not Recalium's
OthersLoad(m) ==
    /\ Fault
    /\ resident' = resident \union {m}
    /\ UNCHANGED <<task, owner, late, made, lost>>

\* the database forgets the connection, and with it the lock
LoseConnection ==
    /\ Fault
    /\ lock # Nobody
    /\ lock' = Nobody
    /\ lost' = TRUE
    /\ UNCHANGED <<task, inside, unhealthy, server, made>>

Restart(p) ==
    /\ Fault
    /\ task' = [r \in Tasks |-> IF Proc(r) = p THEN AtRest ELSE task[r]]
    /\ inside' = [inside EXCEPT ![p] = Nobody]
    /\ lock' = IF lock # Nobody /\ Proc(lock) = p THEN Nobody ELSE lock
    /\ unhealthy' = [unhealthy EXCEPT ![p] = FALSE]
    /\ Forsaken({r \in Tasks : Proc(r) = p})
    /\ UNCHANGED <<resident, made, lost>>

-----------------------------------------------------------------------------

LaneInit ==
    /\ task = [r \in Tasks |-> AtRest]
    /\ inside = [p \in Procs |-> Nobody]
    /\ lock = Nobody
    /\ unhealthy = [p \in Procs |-> FALSE]
    /\ late = {} /\ resident = {}
    /\ made = 0 /\ faults = 0 /\ lost = FALSE

TaskStep(r) ==
    \/ EnterProcess(r) \/ Connect(r) \/ CheckIdentity(r) \/ Preflight(r)
    \/ Send(r) \/ Answer(r) \/ StopWaiting(r) \/ Cleanup(r) \/ Release(r)

LaneNext ==
    \/ \E r \in Tasks :
         \/ AskLane(r) \/ TaskStep(r) \/ GiveUp(r) \/ TakeLock(r) \/ PreflightFails(r)
         \/ CleanupFails(r)
    \/ \E m \in Models : Load(m) \/ Unload(m) \/ Notice(m) \/ OthersLoad(m)
    \/ \E p \in Procs : Restart(p)
    \/ LoseConnection

LaneSpec == LaneInit /\ [][LaneNext]_laneVars

\* Tasks run and their timeouts expire, both locks are granted in the order of
\* requests, and the server unloads what it no longer needs.
Fairness ==
    /\ \A r \in Tasks : WF_laneVars(TaskStep(r)) /\ SF_laneVars(EnterProcess(r)) /\ SF_laneVars(TakeLock(r))
    /\ \A m \in Models : WF_laneVars(Notice(m)) /\ WF_laneVars(Unload(m))

FairLaneSpec == LaneSpec /\ Fairness
=============================================================================
