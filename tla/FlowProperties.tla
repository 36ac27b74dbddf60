---------------------------- MODULE FlowProperties ----------------------------
(***************************************************************************)
(* What the queues between client threads and workers are meant to         *)
(* guarantee, and exactly when they do not: ids repeat after a cycle and   *)
(* after a start of the server, messages outlive servers, and a message is *)
(* lost with the worker that holds it.                                     *)
(***************************************************************************)
EXTENDS RequestFlow

Queued   == Range(tasks) \cup Range(answers)
InFlight == Queued \cup {held[w] : w \in {v \in Worker : job[v] \in {"work", "reply"}}}
                   \cup {call[t] : t \in {u \in Thread : at[u] = "send"}}

\* The type invariant; a worker that holds no message and a thread that has
\* asked nothing have none, and queues that were removed are empty.
FlowTypeOK ==
    /\ server \in {"up", "stopping", "leaving", "down"}
    /\ start \in 1 .. Servers
    /\ counter \in Ids /\ issued \in Nat /\ base \in 0 .. issued
    /\ open \in BOOLEAN
    /\ tasks \in Seq(Message) /\ Len(tasks) <= QueueRoom
    /\ answers \in Seq(Message) /\ Len(answers) <= QueueRoom
    /\ at \in [Thread -> {"off", "recv", "send", "wait"}]
    /\ call \in [Thread -> Message \cup {NoMessage}]
    /\ given \in [Thread -> Nat]
    /\ job \in [Worker -> {"unborn", "receive", "work", "reply", "gone"}]
    /\ held \in [Worker -> Message \cup {NoMessage}]
    /\ told \in [Worker -> BOOLEAN]
    /\ cut \in SUBSET Worker
    /\ performed \in SUBSET Nat
    /\ mishaps \in Nat
    /\ \A t \in Thread : Waiting(t) <=> call[t] # NoMessage
    /\ \A w \in Worker : job[w] \in {"work", "reply"} <=> held[w] # NoMessage

-----------------------------------------------------------------------------
(* Whose answer it is.                                                     *)

\* A request of this server that fewer requests followed than there are ids.
Current(n) == n > base /\ issued - n <= LastId - FirstId

\* An answer, a task or a job that carries the id a thread waits for is that
\* thread's, unless it or the thread's request was left behind by an earlier
\* server or outlived by a whole cycle of ids.
IdsTellApart ==
    \A t \in Thread : Waiting(t) /\ Current(call[t].no) =>
        \A m \in InFlight : m.id = call[t].id /\ Current(m.no) => m.no = call[t].no

\* The server implements CallReturn: a request is performed at most once, an
\* answer is forwarded once, and by the thread that asked.
Calls == INSTANCE CallReturn WITH
    distinct <- {n \in 1 .. issued : Current(n)},
    asking   <- [t \in Thread |-> call[t].no],
    results  <- {m.no : m \in Range(answers)}
                \cup {held[w].no : w \in {v \in Worker : job[v] = "reply"}}
ImplementsCallReturn == Calls!Spec

-----------------------------------------------------------------------------
(* That there is an answer.                                                *)

\* A thread waits with something on its way to it that carries its id, as
\* long as no worker is gone and no queue was removed: nothing else loses a
\* message, also when ids collide and servers crash.
OnItsWay(t) == \E m \in InFlight : m.id = call[t].id
NothingElseLoses ==
    \A t \in Thread : Waiting(t) => OnItsWay(t) \/ ~ open \/ cut # {}
                                    \/ \E w \in Worker : job[w] = "gone"

\* The response queue is full of responses nobody waits for.
Clogged ==
    /\ Len(answers) = QueueRoom
    /\ \A i \in DOMAIN answers : \A t \in Thread :
          at[t] = "wait" => call[t].id # answers[i].id

Served == \E w \in Worker : Alive(w) /\ w \notin cut

\* Every request is answered in the end, or its thread told that it will not
\* be, unless its message is lost, no worker is left, the response queue is
\* full of a previous server's responses, or the server ends.  In particular
\* the two bounded queues do not deadlock, however full they are.
EveryRequestAnswered ==
    \A t \in Thread :
        Waiting(t) ~> \/ ~ Waiting(t)
                      \/ open /\ ~ OnItsWay(t)
                      \/ open /\ ~ Served
                      \/ Clogged
                      \/ server # "up"

\* A worker that was told to stop between its test of worker_running and the
\* call that blocks: only another message, which may never come, ends it.
Missed(w) ==
    /\ w \in Crew[start] /\ told[w] /\ w \notin cut
    /\ \/ job[w] = "receive"
       \/ job[w] = "reply" /\ Len(answers) = QueueRoom

\* The handler comes to its end, and with it the removal of the queues, unless
\* a worker missed its signal in that way.
ShutdownEnds ==
    server = "stopping" ~> server = "down" \/ \E w \in Worker : Missed(w)
=============================================================================
