------------------------------ MODULE RequestFlow ------------------------------
(***************************************************************************)
(* The way of a request through the server: a client's thread gives it an  *)
(* id and puts it on the task queue, a worker takes it, performs it and    *)
(* puts the response, under the same id, on the response queue, where the  *)
(* thread waits for that id.  Both queues are bounded, and they are the    *)
(* kernel's: they outlive the server, and so do its workers when only the  *)
(* server's own process dies.  Also modelled: the orderly end of the       *)
(* server, which signals its workers, waits for them and only then removes *)
(* the queues.                                                             *)
(*                                                                         *)
(* process_task is one step here; module WorkerPool is about its inside.   *)
(***************************************************************************)
EXTENDS Integers, FiniteSets, SequencesExt

CONSTANTS
    Thread,         \* threads of connected clients
    Worker,         \* worker processes, of all the servers of a behaviour
    Servers,        \* bound: how many times the server is started
    Crew,           \* the workers each of them forks
    FirstId,        \* 100: the first request id
    LastId,         \* 99999: the last one before they start again
    QueueRoom,      \* messages that fit into a queue
    MaxRequests,    \* bound: requests in a behaviour
    MaxMishaps      \* bound: workers or servers killed, servers started twice

ASSUME FlowAssumption ==
    /\ Servers \in Nat \ {0}
    /\ Crew \in [1 .. Servers -> SUBSET Worker]
    /\ \A g, h \in 1 .. Servers : g # h => Crew[g] \cap Crew[h] = {}
    /\ FirstId \in Nat \ {0} /\ LastId \in Nat /\ FirstId <= LastId
    /\ QueueRoom \in Nat \ {0}
    /\ MaxRequests \in Nat /\ MaxMishaps \in Nat

VARIABLES
    server,     \* "up", "stopping" (its handler waits for the workers),
                \* "leaving" (the queues are removed) or "down"
    start,      \* which start of the server this is
    base,       \* requests made before it (history)
    counter,    \* request_counter
    issued,     \* requests made so far, which are numbered from 1 (history)
    open,       \* whether the server's queues exist
    tasks,      \* the task queue
    answers,    \* the response queue
    at,         \* control point of each client thread
    call,       \* its TaskMessage
    given,      \* number of the request whose response it has just forwarded, or 0
    job,        \* control point of each worker
    held,       \* the task it works on, or the response to it
    told,       \* worker_running = 0
    cut,        \* workers whose queue ids name queues that were removed
    performed,  \* numbers of the requests process_task was run for (history)
    mishaps     \* mishaps still to come

flowVars   == <<counter, issued, base>>
threadVars == <<at, call, given>>
workerVars == <<job, held, told>>
vars == <<server, start, open, tasks, answers, cut, performed, mishaps,
          flowVars, threadVars, workerVars>>

-----------------------------------------------------------------------------
(* A message carries the request's id and, for the properties, its number. *)
Ids     == FirstId .. LastId
Message == [id: Ids, no: Nat \ {0}]
NoMessage == [id |-> 0, no |-> 0]

Waiting(t) == at[t] \in {"send", "wait"}
Alive(w)   == job[w] \in {"receive", "work", "reply"}

\* The logger thread, which reads the pipe the workers of this server opened,
\* lives as long as the server.
PipeIsRead(w) == w \in Crew[start] /\ server # "down"

-----------------------------------------------------------------------------
(* handle_client                                                           *)

\* A client connects and signs in.
Connect(t) ==
    /\ server = "up" /\ at[t] = "off"
    /\ at' = [at EXCEPT ![t] = "recv"]
    /\ UNCHANGED <<server, start, open, tasks, answers, cut, performed, mishaps,
                   flowVars, call, given, workerVars>>

\* EXIT, or the client is gone.
Leave(t) ==
    /\ at[t] = "recv"
    /\ at' = [at EXCEPT ![t] = "off"]
    /\ given' = [given EXCEPT ![t] = 0]
    /\ UNCHANGED <<server, start, open, tasks, answers, cut, performed, mishaps,
                   flowVars, call, workerVars>>

\* get_next_request_id, and two mutants of its test.
NextCounterLate(c)  == IF c + 1 > LastId + 1 THEN FirstId ELSE c + 1
NextCounterEarly(c) == IF c + 1 >= LastId THEN FirstId ELSE c + 1
NextCounter(c)      == IF c + 1 > LastId THEN FirstId ELSE c + 1

\* A request check_permission lets through gets its id.
Ask(t) ==
    /\ at[t] = "recv" /\ issued < MaxRequests
    /\ at' = [at EXCEPT ![t] = "send"]
    /\ call' = [call EXCEPT ![t] = [id |-> counter, no |-> issued + 1]]
    /\ given' = [given EXCEPT ![t] = 0]
    /\ counter' = NextCounter(counter)
    /\ issued' = issued + 1
    /\ UNCHANGED <<server, start, open, tasks, answers, cut, performed, mishaps,
                   base, workerVars>>

\* An answer is forwarded to the client, and server_running is tested.
Forward(t, n) ==
    /\ at' = [at EXCEPT ![t] = IF server = "up" THEN "recv" ELSE "off"]
    /\ call' = [call EXCEPT ![t] = NoMessage]
    /\ given' = [given EXCEPT ![t] = n]

\* send_task: msgsnd blocks while the queue is full and fails when it is gone.
SendTask(t) ==
    /\ at[t] = "send"
    /\ \/ /\ open /\ Len(tasks) < QueueRoom
          /\ tasks' = Append(tasks, call[t])
          /\ at' = [at EXCEPT ![t] = "wait"]
          /\ UNCHANGED <<call, given>>
       \/ /\ ~ open
          /\ Forward(t, 0)
          /\ UNCHANGED tasks
    /\ UNCHANGED <<server, start, open, answers, cut, performed, mishaps, flowVars, workerVars>>

\* The responses msgrcv lets thread t have; the mutant asks for any type.
AnyResponse(t)  == DOMAIN answers
ResponsesTo(t)  == {i \in DOMAIN answers : answers[i].id = call[t].id}

\* receive_response: msgrcv takes the first response with the thread's id.
ReceiveResponse(t) ==
    /\ at[t] = "wait"
    /\ \/ \E i \in ResponsesTo(t) :
             /\ \A j \in ResponsesTo(t) : i <= j
             /\ Forward(t, answers[i].no)
             /\ answers' = RemoveAt(answers, i)
       \/ /\ ~ open
          /\ Forward(t, 0)
          /\ UNCHANGED answers
    /\ UNCHANGED <<server, start, open, tasks, cut, performed, mishaps, flowVars, workerVars>>

-----------------------------------------------------------------------------
(* worker_main                                                             *)
Gone(w) ==
    /\ job' = [job EXCEPT ![w] = "gone"]
    /\ held' = [held EXCEPT ![w] = NoMessage]

\* while (worker_running)
Loop(w) ==
    /\ job' = [job EXCEPT ![w] = IF told[w] THEN "gone" ELSE "receive"]
    /\ held' = [held EXCEPT ![w] = NoMessage]

\* What msgrcv leaves on the task queue; the mutant only looks at the task.
TasksKept == tasks
TasksLeft == Tail(tasks)

\* On a queue that is gone the worker loops until it is told to stop; the
\* mutant tries again without testing worker_running.
TriesForEver(w) == FALSE
GivesUp(w)      == w \in cut /\ told[w]

\* receive_task.  A worker told to stop after it tested worker_running still
\* takes a task.
ReceiveTask(w) ==
    /\ job[w] = "receive"
    /\ \/ /\ w \notin cut /\ tasks # << >>
          /\ held' = [held EXCEPT ![w] = Head(tasks)]
          /\ tasks' = TasksLeft
          /\ job' = [job EXCEPT ![w] = "work"]
       \/ /\ GivesUp(w)
          /\ Gone(w)
          /\ UNCHANGED tasks
    /\ UNCHANGED <<server, start, open, answers, cut, performed, mishaps, flowVars,
                   threadVars, told>>

\* process_task, which ends with the audit entry.  Nobody reads the pipe of a
\* server that is gone: SIGPIPE, unless the operation is one that audits nothing.
ProcessTask(w) ==
    /\ job[w] = "work"
    /\ performed' = performed \cup {held[w].no}
    /\ \/ /\ job' = [job EXCEPT ![w] = "reply"]
          /\ UNCHANGED held
       \/ /\ ~ PipeIsRead(w)
          /\ Gone(w)
    /\ UNCHANGED <<server, start, open, tasks, answers, cut, mishaps, flowVars, threadVars, told>>

\* Whether msgsnd has room for a response; the mutant keeps tasks and responses
\* on one queue.
RoomOnOneQueue  == Len(tasks) + Len(answers) < QueueRoom
RoomForResponse == Len(answers) < QueueRoom

\* send_response: blocks while the queue is full; a failure is only logged.
SendResponse(w) ==
    /\ job[w] = "reply"
    /\ \/ /\ w \notin cut /\ RoomForResponse
          /\ answers' = Append(answers, held[w])
       \/ /\ w \in cut
          /\ UNCHANGED answers
    /\ Loop(w)
    /\ UNCHANGED <<server, start, open, tasks, cut, performed, mishaps, flowVars, threadVars, told>>

WorkerStep(w) == ReceiveTask(w) \/ ProcessTask(w) \/ SendResponse(w)

Mishap == mishaps > 0 /\ mishaps' = mishaps - 1

\* A worker crashes or is killed.  Nobody forks another one.
Die(w) ==
    /\ Alive(w) /\ Mishap
    /\ Gone(w)
    /\ UNCHANGED <<server, start, open, tasks, answers, cut, performed, flowVars, threadVars, told>>

-----------------------------------------------------------------------------
(* server_signal_handler, and the ends of the server without it.           *)
StopServer ==
    /\ server = "up"
    /\ server' = "stopping"
    /\ UNCHANGED <<start, open, tasks, answers, cut, performed, mishaps, flowVars,
                   threadVars, workerVars>>

\* kill(worker_pids[i], SIGTERM).  A msgrcv or msgsnd that is blocked fails
\* with EINTR; a worker that is not inside the call yet only notes the signal.
SignalWorker(w) ==
    /\ server = "stopping" /\ w \in Crew[start] /\ Alive(w) /\ ~ told[w]
    /\ told' = [told EXCEPT ![w] = TRUE]
    /\ \/ UNCHANGED <<job, held>>
       \/ /\ \/ job[w] = "receive" /\ w \notin cut
             \/ job[w] = "reply" /\ w \notin cut /\ ~ RoomForResponse
          /\ Gone(w)
    /\ UNCHANGED <<server, start, open, tasks, answers, cut, performed, mishaps, flowVars, threadVars>>

\* The queues are removed with all that is in them.  A worker blocked in
\* msgrcv leaves (EIDRM); one that enters it later gets EINVAL and loops.
RemoveQueues ==
    /\ open' = FALSE /\ tasks' = << >> /\ answers' = << >>
    /\ cut' = cut \cup {w \in Worker : Alive(w)}
    /\ \E out \in SUBSET {w \in Worker : job[w] = "receive" /\ w \notin cut} :
          job' = [w \in Worker |-> IF w \in out THEN "gone" ELSE job[w]]
    /\ UNCHANGED held

\* waitpid has returned for every worker, and the rest is cleaned up.
CleanUp ==
    /\ server = "stopping"
    /\ \A w \in Crew[start] : job[w] = "gone"
    /\ server' = "leaving"
    /\ RemoveQueues
    /\ UNCHANGED <<start, performed, mishaps, flowVars, threadVars, told>>

Quit ==
    /\ at' = [t \in Thread |-> "off"]
    /\ call' = [t \in Thread |-> NoMessage]
    /\ given' = [t \in Thread |-> 0]

Exit ==
    /\ server = "leaving"
    /\ server' = "down"
    /\ Quit
    /\ UNCHANGED <<start, open, tasks, answers, cut, performed, mishaps, flowVars, workerVars>>

\* The server's process dies, and some of its workers with it.  The queues
\* stay, with what is in them.
Crash ==
    /\ server \in {"up", "stopping"} /\ Mishap
    /\ server' = "down"
    /\ \E dead \in SUBSET Crew[start] :
          /\ job' = [w \in Worker |-> IF w \in dead THEN "gone" ELSE job[w]]
          /\ held' = [w \in Worker |-> IF w \in dead THEN NoMessage ELSE held[w]]
    /\ Quit
    /\ UNCHANGED <<start, open, tasks, answers, cut, performed, flowVars, told>>

\* A second server is started by mistake: it opens the same queues before it
\* finds the port taken, and its handler removes them.
StartTwice ==
    /\ server = "up" /\ open /\ Mishap
    /\ RemoveQueues
    /\ UNCHANGED <<server, start, performed, flowVars, threadVars, told>>

\* main: msgget finds the queues that are there or makes new ones; the request
\* counter starts again.
StartServer ==
    /\ server = "down" /\ start < Servers
    /\ server' = "up"
    /\ start' = start + 1
    /\ open' = TRUE
    /\ base' = issued
    /\ counter' = FirstId
    /\ job' = [w \in Worker |-> IF w \in Crew[start + 1] THEN "receive" ELSE job[w]]
    /\ UNCHANGED <<tasks, answers, cut, performed, mishaps, issued, threadVars, held, told>>

-----------------------------------------------------------------------------
Init ==
    /\ server = "up" /\ start = 1 /\ open = TRUE
    /\ base = 0 /\ counter = FirstId /\ issued = 0
    /\ tasks = << >> /\ answers = << >>
    /\ at = [t \in Thread |-> "off"]
    /\ call = [t \in Thread |-> NoMessage]
    /\ given = [t \in Thread |-> 0]
    /\ job = [w \in Worker |-> IF w \in Crew[1] THEN "receive" ELSE "unborn"]
    /\ held = [w \in Worker |-> NoMessage]
    /\ told = [w \in Worker |-> FALSE]
    /\ cut = {} /\ performed = {} /\ mishaps = MaxMishaps

Next ==
    \/ \E t \in Thread : Connect(t) \/ Leave(t) \/ Ask(t) \/ SendTask(t) \/ ReceiveResponse(t)
    \/ \E w \in Worker : WorkerStep(w) \/ Die(w) \/ SignalWorker(w)
    \/ StopServer \/ CleanUp \/ Exit \/ Crash \/ StartTwice \/ StartServer

\* A process or thread that can take a step of its own is scheduled, a signal
\* that was sent is delivered, and the handler carries on.  Nothing makes a
\* client ask or leave, and nothing makes a process die or start.
Fairness ==
    /\ \A t \in Thread : WF_vars(SendTask(t)) /\ WF_vars(ReceiveResponse(t))
    /\ \A w \in Worker : WF_vars(WorkerStep(w)) /\ WF_vars(SignalWorker(w))
    /\ WF_vars(CleanUp) /\ WF_vars(Exit)

Spec == Init /\ [][Next]_vars /\ Fairness
=============================================================================
