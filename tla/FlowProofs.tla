------------------------------ MODULE FlowProofs ------------------------------
(***************************************************************************)
(* For any number of threads, workers, servers, ids and any queue length:  *)
(* the request flow keeps its type invariant, ids tell the requests of one *)
(* server apart until one is outlived by a cycle of ids, the flow          *)
(* implements CallReturn, and nothing but a gone worker or a removed queue *)
(* loses a request.                                                        *)
(*                                                                         *)
(* The inductive invariant of the first part says more than IdsTellApart,  *)
(* which speaks of pairs: it ties the id of every message on its way to    *)
(* the message's number and to the request counter, so that two current    *)
(* messages with one id have one number.                                   *)
(***************************************************************************)
EXTENDS FlowProperties, SequenceTheorems, TLAPS

\* The id the counter gave to request n, counted back from what it gives next.
IdOf(n) ==
    LET back == counter - 1 - (issued - n)
    IN  IF back >= FirstId THEN back ELSE back + (LastId - FirstId + 1)

Known(m) == m.no <= issued /\ (Current(m.no) => m.id = IdOf(m.no))

AllKnown ==
    /\ \A i \in 1 .. Len(tasks) : Known(tasks[i])
    /\ \A i \in 1 .. Len(answers) : Known(answers[i])
    /\ \A w \in Worker : held[w] # NoMessage => Known(held[w])
    /\ \A t \in Thread : call[t] # NoMessage => Known(call[t])

\* The workers of a server that was not started yet are not there yet.
LaterUnborn ==
    \A g \in 1 .. Servers : g > start => \A w \in Crew[g] : job[w] = "unborn"

IInv == FlowTypeOK /\ AllKnown /\ LaterUnborn

-----------------------------------------------------------------------------
(* Messages and queues.                                                    *)

\* NoMessage is not a message: its id is not one of the server's.
LEMMA NoMessageIsNone == NoMessage \notin Message
BY FlowAssumption DEF NoMessage, Message, Ids

\* What is left of a queue when message i is taken: the ones after it move up.
LEMMA RemoveAtElements ==
    ASSUME NEW S, NEW s \in Seq(S), NEW i \in 1 .. Len(s)
    PROVE  /\ RemoveAt(s, i) \in Seq(S)
           /\ Len(RemoveAt(s, i)) = Len(s) - 1
           /\ \A j \in 1 .. Len(RemoveAt(s, i)) :
                 RemoveAt(s, i)[j] = s[IF j < i THEN j ELSE j + 1]
<1> DEFINE a == SubSeq(s, 1, i - 1)
           b == SubSeq(s, i + 1, Len(s))
           r == a \o b
<1>1. Len(s) \in Nat /\ i \in 1 .. Len(s)
    BY LenProperties
<1>2. a \in Seq(S) /\ Len(a) = i - 1 /\ \A j \in 1 .. i - 1 : a[j] = s[j]
    BY <1>1, SubSeqProperties
<1>3. /\ b \in Seq(S) /\ Len(b) = Len(s) - i
      /\ \A j \in 1 .. Len(s) - i : b[j] = s[i + j]
    BY <1>1, SubSeqProperties
<1>4. RemoveAt(s, i) = r
    BY DEF RemoveAt
<1> HIDE DEF a, b
<1>5. /\ r \in Seq(S) /\ Len(r) = Len(a) + Len(b)
      /\ \A j \in 1 .. Len(a) + Len(b) :
            r[j] = IF j <= Len(a) THEN a[j] ELSE b[j - Len(a)]
    BY <1>2, <1>3, ConcatProperties
<1> HIDE DEF r
<1>6. Len(r) = Len(s) - 1
    BY <1>1, <1>2, <1>3, <1>5
<1>7. ASSUME NEW j \in 1 .. Len(s) - 1
      PROVE  r[j] = s[IF j < i THEN j ELSE j + 1]
    <2>1. j \in 1 .. Len(a) + Len(b)
        BY <1>1, <1>2, <1>3
    <2>2. CASE j < i
        <3>1. r[j] = a[j]
            BY <1>1, <1>2, <1>5, <2>1, <2>2
        <3>2. a[j] = s[j]
            BY <1>1, <1>2, <2>1, <2>2
        <3> QED
            BY <2>2, <3>1, <3>2
    <2>3. CASE ~ (j < i)
        <3>1. r[j] = b[j - (i - 1)]
            BY <1>1, <1>2, <1>5, <2>1, <2>3
        <3>2. b[j - (i - 1)] = s[i + (j - (i - 1))] /\ i + (j - (i - 1)) = j + 1
            BY <1>1, <1>3, <2>1, <2>3
        <3> QED
            BY <2>3, <3>1, <3>2
    <2> QED
        BY <2>2, <2>3
<1> QED
    BY <1>4, <1>5, <1>6, <1>7

\* Whatever is left of a queue was on it before.
LEMMA RemoveAtType ==
    ASSUME NEW S, NEW s \in Seq(S), NEW i \in 1 .. Len(s)
    PROVE  /\ RemoveAt(s, i) \in Seq(S)
           /\ Len(RemoveAt(s, i)) = Len(s) - 1
           /\ \A j \in 1 .. Len(RemoveAt(s, i)) :
                 \E k \in 1 .. Len(s) : RemoveAt(s, i)[j] = s[k]
<1> DEFINE r == RemoveAt(s, i)
<1>1. /\ Len(s) \in Nat /\ i \in Nat /\ r \in Seq(S) /\ Len(r) = Len(s) - 1
      /\ \A j \in 1 .. Len(r) : r[j] = s[IF j < i THEN j ELSE j + 1]
    BY RemoveAtElements, LenProperties
<1> HIDE DEF r
<1>2. \A j \in 1 .. Len(r) : (IF j < i THEN j ELSE j + 1) \in 1 .. Len(s)
    BY <1>1
<1>3. \A j \in 1 .. Len(r) : \E k \in 1 .. Len(s) : r[j] = s[k]
    BY <1>1, <1>2
<1> QED
    BY <1>1, <1>3 DEF r

\* The same of any queue of messages and any place in it, as one statement.
LEMMA RemoveAtMessage ==
    \A s \in Seq(Message) : \A k \in 1 .. Len(s) :
        /\ RemoveAt(s, k) \in Seq(Message)
        /\ Len(RemoveAt(s, k)) = Len(s) - 1
        /\ \A j \in 1 .. Len(RemoveAt(s, k)) :
              \E l \in 1 .. Len(s) : RemoveAt(s, k)[j] = s[l]
<1> TAKE s \in Seq(Message)
<1> TAKE k \in 1 .. Len(s)
<1> QED
    BY RemoveAtType, SMT

\* What is known of a message depends on the counters only.
LEMMA KnownSame == UNCHANGED flowVars => \A m : Known(m)' <=> Known(m)
BY DEF Known, Current, IdOf, flowVars

-----------------------------------------------------------------------------
(* The steps of a client's thread.                                         *)

\* A thread that connects has asked nothing.
LEMMA ConnectKeeps ==
    ASSUME IInv, NEW t \in Thread, Connect(t)
    PROVE  IInv'
<1>1. FlowTypeOK'
    BY FlowAssumption, NoMessageIsNone DEF IInv, FlowTypeOK, Connect, flowVars, workerVars, Waiting
<1>2. AllKnown'
    BY FlowAssumption, KnownSame DEF IInv, FlowTypeOK, AllKnown, Connect, flowVars, workerVars, Waiting
<1>3. LaterUnborn'
    BY FlowAssumption DEF IInv, FlowTypeOK, LaterUnborn, Connect, flowVars, workerVars, Waiting
<1> QED
    BY <1>1, <1>2, <1>3 DEF IInv

\* A thread leaves between two requests.
LEMMA LeaveKeeps ==
    ASSUME IInv, NEW t \in Thread, Leave(t)
    PROVE  IInv'
<1>1. FlowTypeOK'
    BY FlowAssumption, NoMessageIsNone DEF IInv, FlowTypeOK, Leave, flowVars, workerVars, Waiting
<1>2. AllKnown'
    BY FlowAssumption, KnownSame DEF IInv, FlowTypeOK, AllKnown, Leave, flowVars, workerVars, Waiting
<1>3. LaterUnborn'
    BY FlowAssumption DEF IInv, FlowTypeOK, LaterUnborn, Leave, flowVars, workerVars, Waiting
<1> QED
    BY <1>1, <1>2, <1>3 DEF IInv

\* The task goes to the end of the queue, with what is known of it.
LEMMA SendTaskKeeps ==
    ASSUME IInv, NEW t \in Thread, SendTask(t)
    PROVE  IInv'
<1>1. CASE open
    <2>0. /\ Len(tasks) < QueueRoom /\ tasks' = Append(tasks, call[t])
          /\ at' = [at EXCEPT ![t] = "wait"] /\ UNCHANGED <<call, given>>
        BY <1>1 DEF SendTask
    <2>1. call[t] \in Message /\ Known(call[t]) /\ tasks \in Seq(Message)
        BY DEF SendTask, IInv, FlowTypeOK, Waiting, AllKnown
    <2>2. /\ tasks' \in Seq(Message) /\ Len(tasks') = Len(tasks) + 1
          /\ \A i \in 1 .. Len(tasks) : tasks'[i] = tasks[i]
          /\ tasks'[Len(tasks) + 1] = call[t]
        BY <2>0, <2>1, AppendProperties
    <2>3. FlowTypeOK'
        BY <2>0, <2>2, FlowAssumption
        DEF SendTask, IInv, FlowTypeOK, flowVars, workerVars, Waiting
    <2>4. \A i \in 1 .. Len(tasks') : Known(tasks'[i])
        BY <2>1, <2>2, LenProperties DEF IInv, AllKnown
    <2>5. AllKnown'
        BY <2>0, <2>4, KnownSame DEF SendTask, IInv, AllKnown, workerVars
    <2>6. LaterUnborn'
        BY DEF SendTask, IInv, LaterUnborn, workerVars
    <2> QED
        BY <2>3, <2>5, <2>6 DEF IInv
<1>2. CASE ~ open
    <2>1. Forward(t, 0) /\ UNCHANGED tasks
        BY <1>2 DEF SendTask
    <2>2. FlowTypeOK'
        BY <2>1, NoMessageIsNone
        DEF SendTask, Forward, IInv, FlowTypeOK, flowVars, workerVars, Waiting
    <2>3. AllKnown'
        BY <2>1, KnownSame DEF SendTask, Forward, IInv, FlowTypeOK, AllKnown, workerVars
    <2>4. LaterUnborn'
        BY DEF SendTask, IInv, LaterUnborn, workerVars
    <2> QED
        BY <2>2, <2>3, <2>4 DEF IInv
<1> QED
    BY <1>1, <1>2

\* A response taken from the queue leaves the others as they were.
LEMMA ReceiveResponseKeeps ==
    ASSUME IInv, NEW t \in Thread, ReceiveResponse(t)
    PROVE  IInv'
<1>1. ASSUME NEW i \in ResponsesTo(t),
             Forward(t, answers[i].no), answers' = RemoveAt(answers, i)
      PROVE  IInv'
    <2>1. answers \in Seq(Message) /\ i \in 1 .. Len(answers)
        BY <1>1, LenProperties DEF ResponsesTo, IInv, FlowTypeOK
    <2>2. /\ answers' \in Seq(Message) /\ Len(answers') = Len(answers) - 1
          /\ \A j \in 1 .. Len(answers') : \E k \in 1 .. Len(answers) : answers'[j] = answers[k]
        <3> DEFINE rest == RemoveAt(answers, i)
        <3>1. /\ rest \in Seq(Message) /\ Len(rest) = Len(answers) - 1
              /\ \A j \in 1 .. Len(rest) : \E k \in 1 .. Len(answers) : rest[j] = answers[k]
            BY <2>1, RemoveAtMessage, Zenon
        <3>2. answers' = rest
            BY <1>1
        <3> HIDE DEF rest
        <3> QED
            BY <3>1, <3>2
    <2>a. answers[i] \in Message
        BY <2>1
    <2>3. answers[i].no \in Nat
        BY <2>a DEF Message
    <2>4. FlowTypeOK'
        BY <1>1, <2>1, <2>2, <2>3, NoMessageIsNone, FlowAssumption
        DEF ReceiveResponse, Forward, IInv, FlowTypeOK, flowVars, workerVars, Waiting
    <2>5. \A j \in 1 .. Len(answers') : Known(answers'[j])
        BY <2>2 DEF IInv, AllKnown
    <2>6. AllKnown'
        BY <1>1, <2>5, KnownSame
        DEF ReceiveResponse, Forward, IInv, FlowTypeOK, AllKnown, workerVars
    <2>7. LaterUnborn'
        BY DEF ReceiveResponse, IInv, LaterUnborn, workerVars
    <2> QED
        BY <2>4, <2>6, <2>7 DEF IInv
<1>2. ASSUME Forward(t, 0), UNCHANGED answers
      PROVE  IInv'
    <2>1. FlowTypeOK'
        BY <1>2, NoMessageIsNone
        DEF ReceiveResponse, Forward, IInv, FlowTypeOK, flowVars, workerVars, Waiting
    <2>2. AllKnown'
        BY <1>2, KnownSame
        DEF ReceiveResponse, Forward, IInv, FlowTypeOK, AllKnown, workerVars
    <2>3. LaterUnborn'
        BY DEF ReceiveResponse, IInv, LaterUnborn, workerVars
    <2> QED
        BY <2>1, <2>2, <2>3 DEF IInv
<1> QED
    BY <1>1, <1>2 DEF ReceiveResponse

\* The request gets the next id; the id of every other current request is
\* still where the counter says, also when the counter starts again.
LEMMA AskKeeps ==
    ASSUME IInv, NEW t \in Thread, Ask(t)
    PROVE  IInv'
<1> DEFINE new == [id |-> counter, no |-> issued + 1]
<1>0. /\ FirstId \in Nat /\ LastId \in Nat /\ FirstId <= LastId
      /\ counter \in FirstId .. LastId /\ issued \in Nat /\ base \in 0 .. issued
      /\ counter' = (IF counter + 1 > LastId THEN FirstId ELSE counter + 1)
      /\ issued' = issued + 1 /\ base' = base
    BY FlowAssumption DEF IInv, FlowTypeOK, Ask, NextCounter, Ids
<1>1. new \in Message
    BY <1>0 DEF Message, Ids
<1>2. counter' \in FirstId .. LastId /\ base' \in 0 .. issued' /\ issued' \in Nat
    BY <1>0
<1>3. FlowTypeOK'
    BY <1>1, <1>2, NoMessageIsNone
    DEF IInv, FlowTypeOK, Ask, Ids, workerVars, Waiting
<1>4. ASSUME NEW m, m = new
      PROVE  Known(m)'
    <2>1. m.no = issued + 1 /\ m.id = counter
        BY <1>4
    <2>2. IdOf(m.no)' = counter
        BY <1>0, <2>1 DEF IdOf
    <2> QED
        BY <1>0, <2>1, <2>2 DEF Known
<1>5. ASSUME NEW m \in Message, Known(m)
      PROVE  Known(m)'
    <2>1. m.no \in Nat
        BY DEF Message
    <2>2. m.no <= issued'
        BY <1>0, <1>5, <2>1 DEF Known
    <2>3. ASSUME Current(m.no)'
          PROVE  m.id = IdOf(m.no)'
        <3>1. m.no > base /\ issued + 1 - m.no <= LastId - FirstId
            BY <1>0, <2>1, <2>3 DEF Current
        <3>2. m.id = IdOf(m.no)
            BY <1>0, <1>5, <2>1, <3>1 DEF Known, Current
        <3>3. IdOf(m.no)' = IdOf(m.no)
            BY <1>0, <1>5, <2>1, <3>1 DEF IdOf, Known
        <3> QED
            BY <3>2, <3>3
    <2> QED
        BY <2>2, <2>3 DEF Known
<1>6. AllKnown'
    <2>1. /\ \A i \in 1 .. Len(tasks) : tasks[i] \in Message /\ Known(tasks[i])
          /\ \A i \in 1 .. Len(answers) : answers[i] \in Message /\ Known(answers[i])
          /\ \A w \in Worker : held[w] # NoMessage => held[w] \in Message /\ Known(held[w])
          /\ \A u \in Thread : call[u] # NoMessage => call[u] \in Message /\ Known(call[u])
        BY DEF IInv, FlowTypeOK, AllKnown
    <2>2. UNCHANGED <<tasks, answers, held>>
        BY DEF Ask, workerVars
    <2>3. \A u \in Thread : call'[u] = IF u = t THEN new ELSE call[u]
        BY DEF Ask, IInv, FlowTypeOK
    <2> HIDE DEF new
    <2>4. (\A i \in 1 .. Len(tasks) : Known(tasks[i]))'
        BY <1>5, <2>1, <2>2
    <2>5. (\A i \in 1 .. Len(answers) : Known(answers[i]))'
        BY <1>5, <2>1, <2>2
    <2>6. (\A w \in Worker : held[w] # NoMessage => Known(held[w]))'
        BY <1>5, <2>1, <2>2
    <2>7. (\A u \in Thread : call[u] # NoMessage => Known(call[u]))'
        BY <1>4, <1>5, <2>1, <2>3
    <2> QED
        BY <2>4, <2>5, <2>6, <2>7 DEF AllKnown
<1>7. LaterUnborn'
    BY DEF IInv, LaterUnborn, Ask, workerVars
<1> QED
    BY <1>3, <1>6, <1>7 DEF IInv

-----------------------------------------------------------------------------
(* The steps of a worker.                                                  *)

\* The task leaves the queue for the worker.
LEMMA ReceiveTaskKeeps ==
    ASSUME IInv, NEW w \in Worker, ReceiveTask(w)
    PROVE  IInv'
<1>1. CASE /\ tasks # << >> /\ held' = [held EXCEPT ![w] = Head(tasks)]
           /\ tasks' = TasksLeft /\ job' = [job EXCEPT ![w] = "work"]
    <2>1. tasks \in Seq(Message)
        BY DEF IInv, FlowTypeOK
    <2>2. /\ tasks' \in Seq(Message) /\ Len(tasks') = Len(tasks) - 1
          /\ \A i \in 1 .. Len(tasks') : tasks'[i] = tasks[i + 1]
          /\ Head(tasks) \in Message /\ Head(tasks) = tasks[1]
          /\ Len(tasks) \in Nat \ {0}
        BY <1>1, <2>1, HeadTailProperties, EmptySeq DEF TasksLeft
    <2>3. FlowTypeOK'
        BY <1>1, <2>2, NoMessageIsNone, FlowAssumption
        DEF ReceiveTask, IInv, FlowTypeOK, flowVars, threadVars, Waiting
    <2>4. /\ \A i \in 1 .. Len(tasks') : Known(tasks'[i])
          /\ Known(Head(tasks))
        BY <2>2 DEF IInv, AllKnown
    <2>5. AllKnown'
        BY <1>1, <2>4, KnownSame
        DEF ReceiveTask, IInv, FlowTypeOK, AllKnown, threadVars
    <2>6. LaterUnborn'
        BY <1>1, FlowAssumption DEF ReceiveTask, IInv, FlowTypeOK, LaterUnborn
    <2> QED
        BY <2>3, <2>5, <2>6 DEF IInv
<1>2. CASE Gone(w) /\ UNCHANGED tasks
    <2>1. FlowTypeOK'
        BY <1>2, NoMessageIsNone
        DEF ReceiveTask, Gone, IInv, FlowTypeOK, flowVars, threadVars, Waiting
    <2>2. AllKnown'
        BY <1>2, KnownSame
        DEF ReceiveTask, Gone, IInv, FlowTypeOK, AllKnown, threadVars
    <2>3. LaterUnborn'
        BY <1>2, FlowAssumption DEF ReceiveTask, Gone, IInv, FlowTypeOK, LaterUnborn
    <2> QED
        BY <2>1, <2>2, <2>3 DEF IInv
<1> QED
    BY <1>1, <1>2 DEF ReceiveTask

\* The response goes to the end of the queue, or nowhere.
LEMMA SendResponseKeeps ==
    ASSUME IInv, NEW w \in Worker, SendResponse(w)
    PROVE  IInv'
<1>1. /\ answers' \in Seq(Message) /\ Len(answers') <= QueueRoom
      /\ \A i \in 1 .. Len(answers') : Known(answers'[i])
    <2>1. /\ held[w] \in Message /\ Known(held[w]) /\ answers \in Seq(Message)
          /\ Len(answers) <= QueueRoom /\ \A i \in 1 .. Len(answers) : Known(answers[i])
        BY DEF SendResponse, IInv, FlowTypeOK, AllKnown
    <2>2. CASE RoomForResponse /\ answers' = Append(answers, held[w])
        <3>1. /\ answers' \in Seq(Message) /\ Len(answers') = Len(answers) + 1
              /\ \A i \in 1 .. Len(answers) : answers'[i] = answers[i]
              /\ answers'[Len(answers) + 1] = held[w]
            BY <2>1, <2>2, AppendProperties
        <3>2. Len(answers) \in Nat /\ Len(answers) < QueueRoom
            BY <2>1, <2>2, LenProperties DEF RoomForResponse
        <3> QED
            BY <2>1, <3>1, <3>2, FlowAssumption
    <2>3. CASE UNCHANGED answers
        BY <2>1, <2>3
    <2> QED
        BY <2>2, <2>3 DEF SendResponse
<1>2. FlowTypeOK'
    BY <1>1, NoMessageIsNone
    DEF SendResponse, Loop, IInv, FlowTypeOK, flowVars, threadVars, Waiting
<1>3. AllKnown'
    BY <1>1, KnownSame
    DEF SendResponse, Loop, IInv, FlowTypeOK, AllKnown, threadVars
<1>4. LaterUnborn'
    BY FlowAssumption DEF SendResponse, Loop, IInv, FlowTypeOK, LaterUnborn
<1> QED
    BY <1>2, <1>3, <1>4 DEF IInv

\* The task becomes the response, or is lost.
LEMMA ProcessTaskKeeps ==
    ASSUME IInv, NEW w \in Worker, ProcessTask(w)
    PROVE  IInv'
<1>1. /\ job[w] = "work" /\ performed' = performed \cup {held[w].no}
      /\ UNCHANGED <<server, start, open, tasks, answers, cut, mishaps, flowVars, threadVars, told>>
      /\ \/ job' = [job EXCEPT ![w] = "reply"] /\ UNCHANGED held
         \/ job' = [job EXCEPT ![w] = "gone"] /\ held' = [held EXCEPT ![w] = NoMessage]
    BY DEF ProcessTask, Gone
<1>2. held[w] \in Message
    BY <1>1 DEF IInv, FlowTypeOK
<1>3. performed' \in SUBSET Nat
    BY <1>1, <1>2 DEF IInv, FlowTypeOK, Message
<1>4. /\ job' \in [Worker -> {"unborn", "receive", "work", "reply", "gone"}]
      /\ held' \in [Worker -> Message \cup {NoMessage}]
      /\ \A v \in Worker : (job[v] \in {"work", "reply"} <=> held[v] # NoMessage)'
    BY <1>1 DEF IInv, FlowTypeOK
<1>5. FlowTypeOK'
    BY <1>1, <1>3, <1>4 DEF IInv, FlowTypeOK, flowVars, threadVars, Waiting
<1>6. AllKnown'
    BY <1>1, KnownSame DEF IInv, FlowTypeOK, AllKnown, threadVars
<1>7. LaterUnborn'
    BY <1>1, FlowAssumption DEF IInv, FlowTypeOK, LaterUnborn
<1> QED
    BY <1>5, <1>6, <1>7 DEF IInv

\* The message of a worker that dies is lost.
LEMMA DieKeeps ==
    ASSUME IInv, NEW w \in Worker, Die(w)
    PROVE  IInv'
<1>1. FlowTypeOK'
    BY FlowAssumption, NoMessageIsNone DEF IInv, FlowTypeOK, Die, Alive, Gone, Mishap, flowVars, threadVars, Waiting
<1>2. AllKnown'
    BY FlowAssumption, KnownSame DEF IInv, FlowTypeOK, AllKnown, Die, Alive, Gone, Mishap, flowVars, threadVars, Waiting
<1>3. LaterUnborn'
    BY FlowAssumption DEF IInv, FlowTypeOK, LaterUnborn, Die, Alive, Gone, Mishap, flowVars, threadVars, Waiting
<1> QED
    BY <1>1, <1>2, <1>3 DEF IInv

\* The handler touches no message.
LEMMA StopServerKeeps ==
    ASSUME IInv, StopServer
    PROVE  IInv'
<1>1. FlowTypeOK'
    BY FlowAssumption, NoMessageIsNone DEF IInv, FlowTypeOK, StopServer, flowVars, threadVars, workerVars, Waiting
<1>2. AllKnown'
    BY FlowAssumption, KnownSame DEF IInv, FlowTypeOK, AllKnown, StopServer, flowVars, threadVars, workerVars, Waiting
<1>3. LaterUnborn'
    BY FlowAssumption DEF IInv, FlowTypeOK, LaterUnborn, StopServer, flowVars, threadVars, workerVars, Waiting
<1> QED
    BY <1>1, <1>2, <1>3 DEF IInv

\* A worker that a signal ends loses its message.
LEMMA SignalWorkerKeeps ==
    ASSUME IInv, NEW w \in Worker, SignalWorker(w)
    PROVE  IInv'
<1>a. /\ told' \in [Worker -> BOOLEAN]
      /\ job' \in [Worker -> {"unborn", "receive", "work", "reply", "gone"}]
      /\ held' \in [Worker -> Message \cup {NoMessage}]
    BY DEF IInv, FlowTypeOK, SignalWorker, Gone
<1>b. \A v \in Worker : (job[v] \in {"work", "reply"} <=> held[v] # NoMessage)'
    BY DEF IInv, FlowTypeOK, SignalWorker, Gone
<1>1. FlowTypeOK'
    BY <1>a, <1>b DEF IInv, FlowTypeOK, SignalWorker, flowVars, threadVars, Waiting
<1>2. AllKnown'
    BY FlowAssumption, KnownSame DEF IInv, FlowTypeOK, AllKnown, SignalWorker, Alive, Gone, flowVars, threadVars, Waiting
<1>3. LaterUnborn'
    BY FlowAssumption DEF IInv, FlowTypeOK, LaterUnborn, SignalWorker, Alive, Gone, flowVars, threadVars, Waiting
<1> QED
    BY <1>1, <1>2, <1>3 DEF IInv

\* Queues are emptied.
LEMMA CleanUpKeeps ==
    ASSUME IInv, CleanUp
    PROVE  IInv'
<1>a. /\ tasks' \in Seq(Message) /\ (Len(tasks) <= QueueRoom)'
      /\ answers' \in Seq(Message) /\ (Len(answers) <= QueueRoom)'
    BY FlowAssumption DEF CleanUp, RemoveQueues
<1>b. job' \in [Worker -> {"unborn", "receive", "work", "reply", "gone"}]
    BY DEF IInv, FlowTypeOK, CleanUp, RemoveQueues
<1>c. \A v \in Worker : (job[v] \in {"work", "reply"} <=> held[v] # NoMessage)'
    BY DEF IInv, FlowTypeOK, CleanUp, RemoveQueues
<1>1. FlowTypeOK'
    BY <1>a, <1>b, <1>c DEF IInv, FlowTypeOK, CleanUp, RemoveQueues, flowVars, threadVars, Waiting
<1>2. AllKnown'
    BY FlowAssumption, KnownSame DEF IInv, FlowTypeOK, AllKnown, CleanUp, RemoveQueues, flowVars, threadVars, Waiting, Alive
<1>3. LaterUnborn'
    BY FlowAssumption DEF IInv, FlowTypeOK, LaterUnborn, CleanUp, RemoveQueues, flowVars, threadVars, Waiting, Alive
<1> QED
    BY <1>1, <1>2, <1>3 DEF IInv

\* The threads end with the server.
LEMMA ExitKeeps ==
    ASSUME IInv, Exit
    PROVE  IInv'
<1>1. FlowTypeOK'
    BY FlowAssumption, NoMessageIsNone DEF IInv, FlowTypeOK, Exit, Quit, flowVars, workerVars, Waiting
<1>2. AllKnown'
    BY FlowAssumption, KnownSame DEF IInv, FlowTypeOK, AllKnown, Exit, Quit, flowVars, workerVars, Waiting
<1>3. LaterUnborn'
    BY FlowAssumption DEF IInv, FlowTypeOK, LaterUnborn, Exit, Quit, flowVars, workerVars, Waiting
<1> QED
    BY <1>1, <1>2, <1>3 DEF IInv

\* The server dies with its threads and some of its workers.
LEMMA CrashKeeps ==
    ASSUME IInv, Crash
    PROVE  IInv'
<1>1. FlowTypeOK'
    BY FlowAssumption, NoMessageIsNone DEF IInv, FlowTypeOK, Crash, Quit, Mishap, flowVars, Waiting
<1>2. AllKnown'
    BY FlowAssumption, KnownSame DEF IInv, FlowTypeOK, AllKnown, Crash, Quit, Mishap, flowVars, Waiting
<1>3. LaterUnborn'
    BY FlowAssumption DEF IInv, FlowTypeOK, LaterUnborn, Crash, Quit, Mishap, flowVars, Waiting
<1> QED
    BY <1>1, <1>2, <1>3 DEF IInv

\* Queues are emptied.
LEMMA StartTwiceKeeps ==
    ASSUME IInv, StartTwice
    PROVE  IInv'
<1>a. /\ tasks' \in Seq(Message) /\ (Len(tasks) <= QueueRoom)'
      /\ answers' \in Seq(Message) /\ (Len(answers) <= QueueRoom)'
    BY FlowAssumption DEF StartTwice, Mishap, RemoveQueues
<1>b. job' \in [Worker -> {"unborn", "receive", "work", "reply", "gone"}]
    BY DEF IInv, FlowTypeOK, StartTwice, Mishap, RemoveQueues
<1>c. \A v \in Worker : (job[v] \in {"work", "reply"} <=> held[v] # NoMessage)'
    BY DEF IInv, FlowTypeOK, StartTwice, Mishap, RemoveQueues
<1>d. mishaps' \in Nat
    BY DEF IInv, FlowTypeOK, StartTwice, Mishap
<1>1. FlowTypeOK'
    BY <1>a, <1>b, <1>c, <1>d DEF IInv, FlowTypeOK, StartTwice, RemoveQueues, flowVars, threadVars, Waiting
<1>2. AllKnown'
    BY FlowAssumption, KnownSame DEF IInv, FlowTypeOK, AllKnown, StartTwice, RemoveQueues, Mishap, flowVars, threadVars, Waiting, Alive
<1>3. LaterUnborn'
    BY FlowAssumption DEF IInv, FlowTypeOK, LaterUnborn, StartTwice, RemoveQueues, Mishap, flowVars, threadVars, Waiting, Alive
<1> QED
    BY <1>1, <1>2, <1>3 DEF IInv

\* A new server finds the messages of the one before it, all of requests
\* that are not current any more, and its workers hold none.
LEMMA StartServerKeeps ==
    ASSUME IInv, StartServer
    PROVE  IInv'
<1>0. /\ start + 1 \in 1 .. Servers /\ start' = start + 1
      /\ counter' \in Ids /\ base' \in 0 .. issued
    BY FlowAssumption DEF IInv, FlowTypeOK, StartServer, Ids
<1>1. \A w \in Crew[start + 1] : w \in Worker /\ held[w] = NoMessage
    <2>1. start \in Nat /\ start + 1 > start
        BY DEF IInv, FlowTypeOK
    <2>2. \A w \in Crew[start + 1] : w \in Worker /\ job[w] = "unborn"
        BY <1>0, <2>1, FlowAssumption DEF IInv, LaterUnborn
    <2> QED
        BY <2>2 DEF IInv, FlowTypeOK
<1>2. FlowTypeOK'
    BY <1>0, <1>1 DEF IInv, FlowTypeOK, StartServer, threadVars, Waiting
<1>3. ASSUME NEW m \in Message, Known(m)
      PROVE  Known(m)'
    BY <1>3 DEF Known, Current, StartServer, IInv, FlowTypeOK, Message
<1>4. AllKnown'
    BY <1>3 DEF IInv, FlowTypeOK, AllKnown, StartServer, threadVars
<1>5. LaterUnborn'
    <2> SUFFICES ASSUME NEW g \in 1 .. Servers, g > start + 1, NEW w \in Crew[g]
                 PROVE  job'[w] = "unborn"
        BY <1>0 DEF LaterUnborn
    <2>1. g > start /\ g # start + 1
        BY DEF IInv, FlowTypeOK
    <2>2. w \in Worker /\ w \notin Crew[start + 1]
        BY <1>0, <2>1, FlowAssumption
    <2> QED
        BY <2>1, <2>2 DEF IInv, LaterUnborn, StartServer
<1> QED
    BY <1>2, <1>4, <1>5 DEF IInv

-----------------------------------------------------------------------------
(* The theorems.                                                           *)

\* The invariant holds before the first request.
LEMMA InitIInv == Init => IInv
<1> SUFFICES ASSUME Init PROVE IInv
    OBVIOUS
<1>1. FlowTypeOK
    BY FlowAssumption DEF Init, FlowTypeOK, Ids, Waiting
<1>2. AllKnown
    BY DEF Init, AllKnown
<1>3. LaterUnborn
    BY FlowAssumption DEF Init, LaterUnborn
<1> QED
    BY <1>1, <1>2, <1>3 DEF IInv

\* Every step keeps it.
LEMMA StepKeeps == IInv /\ [Next]_vars => IInv'
<1> SUFFICES ASSUME IInv, [Next]_vars PROVE IInv'
    OBVIOUS
<1>1. ASSUME NEW t \in Thread,
             Connect(t) \/ Leave(t) \/ Ask(t) \/ SendTask(t) \/ ReceiveResponse(t)
      PROVE  IInv'
    BY <1>1, ConnectKeeps, LeaveKeeps, AskKeeps, SendTaskKeeps, ReceiveResponseKeeps
<1>2. ASSUME NEW w \in Worker, WorkerStep(w) \/ Die(w) \/ SignalWorker(w)
      PROVE  IInv'
    BY <1>2, ReceiveTaskKeeps, ProcessTaskKeeps, SendResponseKeeps, DieKeeps, SignalWorkerKeeps
    DEF WorkerStep
<1>3. CASE StopServer \/ CleanUp \/ Exit \/ Crash \/ StartTwice \/ StartServer
    BY <1>3, StopServerKeeps, CleanUpKeeps, ExitKeeps, CrashKeeps, StartTwiceKeeps,
       StartServerKeeps
<1>4. CASE UNCHANGED vars
    BY <1>4, KnownSame
    DEF vars, flowVars, threadVars, workerVars, IInv, FlowTypeOK, AllKnown, LaterUnborn, Waiting
<1> QED
    BY <1>1, <1>2, <1>3, <1>4 DEF Next

\* IInv is invariant.
LEMMA IInvHolds == Spec => []IInv
BY InitIInv, StepKeeps, PTL DEF Spec

\* The queues never hold more than they have room for, threads and workers
\* have a message exactly while they are busy with one, and the counter stays
\* among the ids.
THEOREM FlowTypeCorrect == Spec => []FlowTypeOK
<1>1. IInv => FlowTypeOK
    BY DEF IInv
<1> QED
    BY <1>1, IInvHolds, PTL

\* In a state of IInv what carries a thread's id is the thread's.
LEMMA KnownTellsApart == IInv => IdsTellApart
<1> SUFFICES ASSUME IInv,
                    NEW t \in Thread, Waiting(t), Current(call[t].no),
                    NEW m \in InFlight, m.id = call[t].id, Current(m.no)
             PROVE  m.no = call[t].no
    BY DEF IdsTellApart
<1> DEFINE c == call[t]
<1>1. c \in Message /\ Known(c)
    BY DEF IInv, FlowTypeOK, AllKnown, Waiting
<1>2. m \in Message /\ Known(m)
    <2>1. CASE m \in Range(tasks)
        <3>1. PICK i \in DOMAIN tasks : m = tasks[i]
            BY <2>1 DEF Range
        <3>2. tasks \in Seq(Message) /\ i \in 1 .. Len(tasks)
            BY <3>1, LenProperties DEF IInv, FlowTypeOK
        <3> QED
            BY <3>1, <3>2 DEF IInv, AllKnown
    <2>2. CASE m \in Range(answers)
        <3>1. PICK i \in DOMAIN answers : m = answers[i]
            BY <2>2 DEF Range
        <3>2. answers \in Seq(Message) /\ i \in 1 .. Len(answers)
            BY <3>1, LenProperties DEF IInv, FlowTypeOK
        <3> QED
            BY <3>1, <3>2 DEF IInv, AllKnown
    <2>3. ASSUME NEW w \in Worker, job[w] \in {"work", "reply"}, m = held[w]
          PROVE  m \in Message /\ Known(m)
        BY <2>3 DEF IInv, FlowTypeOK, AllKnown
    <2>4. ASSUME NEW u \in Thread, at[u] = "send", m = call[u]
          PROVE  m \in Message /\ Known(m)
        BY <2>4 DEF IInv, FlowTypeOK, AllKnown, Waiting
    <2> QED
        BY <2>1, <2>2, <2>3, <2>4 DEF InFlight, Queued
<1>3. m.no \in Nat /\ c.no \in Nat
    BY <1>1, <1>2 DEF Message
<1>4. IdOf(m.no) = IdOf(c.no) /\ m.no <= issued /\ c.no <= issued
    BY <1>1, <1>2 DEF Known
<1> HIDE DEF c
<1>5. /\ issued - m.no <= LastId - FirstId /\ issued - c.no <= LastId - FirstId
    BY DEF Current, c
<1>6. counter \in FirstId .. LastId /\ issued \in Nat /\ FirstId \in Nat /\ LastId \in Nat
    BY FlowAssumption DEF IInv, FlowTypeOK, Ids
<1>7. m.no = c.no
    BY <1>3, <1>4, <1>5, <1>6 DEF IdOf
<1> QED
    BY <1>7 DEF c

\* Ids tell the requests of one server apart, for any range of ids: whatever
\* carries the id a thread waits for is that thread's, unless it is from
\* before the server's start or a whole cycle of ids old.
THEOREM IdsStayApart == Spec => []IdsTellApart
BY KnownTellsApart, IInvHolds, PTL

-----------------------------------------------------------------------------
(* The flow implements CallReturn: a request is performed at most once, a  *)
(* result is handed out at most once, and to the thread that asked for it. *)
(*                                                                         *)
(* The step from a message on a queue to a request performed or answered   *)
(* once needs that a request is in one place only: Separate says so, and   *)
(* that it was performed when it is on its way back and not before.        *)

\* The numbers of the requests on a queue, and that no request is on it twice.
Nos(s)   == {s[i].no : i \in 1 .. Len(s)}
Apart(s) == \A i, j \in 1 .. Len(s) : s[i].no = s[j].no => i = j

Holds(w) == job[w] \in {"work", "reply"}

Separate ==
    /\ Apart(tasks) /\ Apart(answers)
    /\ Nos(tasks) \cap performed = {}
    /\ Nos(answers) \subseteq performed
    /\ performed \subseteq 1 .. issued
    /\ \A w \in Worker : Holds(w) =>
          /\ held[w].no \notin Nos(tasks) /\ held[w].no \notin Nos(answers)
          /\ held[w].no \in performed <=> job[w] = "reply"
    /\ \A v, w \in Worker : Holds(v) /\ Holds(w) /\ held[v].no = held[w].no => v = w
    /\ \A t \in Thread : at[t] = "send" =>
          /\ call[t].no \notin Nos(tasks) /\ call[t].no \notin performed
          /\ \A w \in Worker : Holds(w) => held[w].no # call[t].no
    /\ \A t, u \in Thread : Waiting(t) /\ Waiting(u) /\ call[t].no = call[u].no => t = u

Results == Nos(answers) \cup {held[w].no : w \in {v \in Worker : job[v] = "reply"}}

-----------------------------------------------------------------------------
(* Queues as sets of numbers.                                              *)

\* An empty queue holds nothing.
LEMMA NothingQueued == Nos(<< >>) = {} /\ Apart(<< >>)
BY DEF Nos, Apart

\* A message put on a queue adds its number.
LEMMA AppendNos ==
    ASSUME NEW s \in Seq(Message), NEW m \in Message
    PROVE  /\ Nos(Append(s, m)) = Nos(s) \cup {m.no}
           /\ Apart(s) /\ m.no \notin Nos(s) => Apart(Append(s, m))
<1> DEFINE r == Append(s, m)
<1>1. /\ Len(s) \in Nat /\ Len(r) = Len(s) + 1
      /\ \A i \in 1 .. Len(s) : r[i] = s[i]
      /\ r[Len(s) + 1] = m
    BY AppendProperties, LenProperties
<1> HIDE DEF r
<1>2. \A i \in 1 .. Len(r) : i \in 1 .. Len(s) \/ i = Len(s) + 1
    BY <1>1
<1>3. 1 .. Len(s) \subseteq 1 .. Len(r) /\ Len(s) + 1 \in 1 .. Len(r)
    BY <1>1
<1>4. Nos(r) = Nos(s) \cup {m.no}
    BY <1>1, <1>2, <1>3 DEF Nos
<1>5. ASSUME Apart(s), m.no \notin Nos(s)
      PROVE  Apart(r)
    BY <1>1, <1>2, <1>5 DEF Apart, Nos
<1> QED
    BY <1>4, <1>5 DEF r

\* The head taken from a queue takes its number away.
LEMMA TailNos ==
    ASSUME NEW s \in Seq(Message), s # << >>, Apart(s)
    PROVE  /\ Nos(Tail(s)) = Nos(s) \ {Head(s).no} /\ Head(s).no \in Nos(s)
           /\ Apart(Tail(s))
<1> DEFINE r == Tail(s)
<1>1. /\ Len(s) \in Nat \ {0} /\ Len(r) = Len(s) - 1
      /\ \A i \in 1 .. Len(r) : r[i] = s[i + 1]
      /\ Head(s) = s[1]
    BY HeadTailProperties, EmptySeq
<1> HIDE DEF r
<1>2. \A i \in 1 .. Len(r) : i + 1 \in 1 .. Len(s) /\ i + 1 # 1
    BY <1>1
<1>3. \A i \in 1 .. Len(s) : i # 1 => i - 1 \in 1 .. Len(r) /\ r[i - 1] = s[i]
    BY <1>1
<1>4. Head(s).no \in Nos(s)
    BY <1>1 DEF Nos
<1>5. Nos(r) \subseteq Nos(s) \ {Head(s).no}
    BY <1>1, <1>2 DEF Nos, Apart
<1>6. Nos(s) \ {Head(s).no} \subseteq Nos(r)
    BY <1>1, <1>3 DEF Nos
<1>7. Apart(r)
    BY <1>1, <1>2 DEF Apart
<1> QED
    BY <1>4, <1>5, <1>6, <1>7 DEF r

\* The messages of a queue that stay when message i is taken.
LEMMA RemoveAtOthers ==
    ASSUME NEW s \in Seq(Message), NEW i \in 1 .. Len(s)
    PROVE  \A k \in 1 .. Len(s) :
              k # i => \E j \in 1 .. Len(RemoveAt(s, i)) : RemoveAt(s, i)[j] = s[k]
<1> DEFINE r == RemoveAt(s, i)
<1>1. /\ Len(s) \in Nat /\ i \in Nat /\ Len(r) = Len(s) - 1
      /\ \A j \in 1 .. Len(r) : r[j] = s[IF j < i THEN j ELSE j + 1]
    BY RemoveAtElements, LenProperties
<1> HIDE DEF r
<1>2. ASSUME NEW k \in 1 .. Len(s), k # i
      PROVE  \E j \in 1 .. Len(r) : r[j] = s[k]
    <2>1. CASE k < i
        <3>1. k \in 1 .. Len(r)
            BY <1>1, <2>1
        <3> QED
            BY <1>1, <2>1, <3>1
    <2>2. CASE ~ (k < i)
        <3>1. k - 1 \in 1 .. Len(r) /\ ~ (k - 1 < i) /\ (k - 1) + 1 = k
            BY <1>1, <1>2, <2>2
        <3> QED
            BY <1>1, <3>1
    <2> QED
        BY <2>1, <2>2
<1> QED
    BY <1>2 DEF r

\* A message taken from anywhere on a queue takes its number away.
LEMMA RemoveNos ==
    ASSUME NEW s \in Seq(Message), NEW i \in 1 .. Len(s), Apart(s)
    PROVE  /\ Nos(RemoveAt(s, i)) = Nos(s) \ {s[i].no} /\ s[i].no \in Nos(s)
           /\ Apart(RemoveAt(s, i))
<1> DEFINE r == RemoveAt(s, i)
<1>1. /\ Len(s) \in Nat /\ i \in Nat /\ Len(r) = Len(s) - 1
      /\ \A j \in 1 .. Len(r) : r[j] = s[IF j < i THEN j ELSE j + 1]
    BY RemoveAtElements, LenProperties
<1> HIDE DEF r
<1>2. \A j \in 1 .. Len(r) : /\ (IF j < i THEN j ELSE j + 1) \in 1 .. Len(s)
                             /\ (IF j < i THEN j ELSE j + 1) # i
    BY <1>1
<1>3. \A k \in 1 .. Len(s) : k # i => \E j \in 1 .. Len(r) : r[j] = s[k]
    BY RemoveAtOthers DEF r
<1>4. s[i].no \in Nos(s)
    BY DEF Nos
<1>5. Nos(r) \subseteq Nos(s) \ {s[i].no}
    BY <1>1, <1>2 DEF Nos, Apart
<1>6. Nos(s) \ {s[i].no} \subseteq Nos(r)
    BY <1>3 DEF Nos
<1>7. ASSUME NEW j \in 1 .. Len(r), NEW k \in 1 .. Len(r), r[j].no = r[k].no
      PROVE  j = k
    <2>1. (IF j < i THEN j ELSE j + 1) = (IF k < i THEN k ELSE k + 1)
        BY <1>1, <1>2, <1>7 DEF Apart
    <2> QED
        BY <1>1, <2>1
<1>8. Apart(r)
    BY <1>7 DEF Apart
<1> QED
    BY <1>4, <1>5, <1>6, <1>8 DEF r

-----------------------------------------------------------------------------
(* The steps CallReturn sees.                                              *)

Asking == [t \in Thread |-> call[t].no]
Handed == {m.no : m \in Range(answers)}
          \cup {held[w].no : w \in {v \in Worker : job[v] = "reply"}}

\* The mapping's results, with the queue as a set of numbers.
LEMMA HandedIs == IInv => Handed = Results
<1> SUFFICES ASSUME IInv PROVE Handed = Results
    OBVIOUS
<1>1. DOMAIN answers = 1 .. Len(answers)
    BY LenProperties DEF IInv, FlowTypeOK
<1>2. {m.no : m \in Range(answers)} = Nos(answers)
    BY <1>1 DEF Range, Nos
<1> QED
    BY <1>2 DEF Handed, Results

\* Threads of T are told that there is no result, and results may be lost.
LEMMA GivesUpStep ==
    ASSUME NEW T \in SUBSET Thread,
           \A t \in Thread : call'[t].no = IF t \in T THEN 0 ELSE call[t].no,
           given' = [t \in Thread |-> IF t \in T THEN 0 ELSE given[t]],
           Handed' \subseteq Handed, UNCHANGED <<issued, performed>>
    PROVE  Calls!Next
<1>1. Asking' = [t \in Thread |-> IF t \in T THEN 0 ELSE Asking[t]]
    BY DEF Asking
<1>2. Calls!GiveUp
    <2>1. \E U \in SUBSET Thread :
             /\ Asking' = [t \in Thread |-> IF t \in U THEN 0 ELSE Asking[t]]
             /\ given' = [t \in Thread |-> IF t \in U THEN 0 ELSE given[t]]
        BY <1>1
    <2> QED
        BY <2>1 DEF Calls!GiveUp, Asking, Handed
<1> QED
    BY <1>2 DEF Calls!Next

\* Nothing happens to a call but that results may be lost.
LEMMA LosesStep ==
    ASSUME given \in [Thread -> Nat],
           Handed' \subseteq Handed, UNCHANGED <<call, given, issued, performed>>
    PROVE  Calls!Next
<1>1. PICK T \in SUBSET Thread : T = {}
    OBVIOUS
<1>2. /\ \A t \in Thread : call'[t].no = IF t \in T THEN 0 ELSE call[t].no
      /\ given' = [t \in Thread |-> IF t \in T THEN 0 ELSE given[t]]
    BY <1>1
<1> QED
    BY <1>2, GivesUpStep

\* What every step below starts from: the invariants, and the parts of the
\* type that are used throughout.
Both == IInv /\ Separate

\* A busy worker and a waiting thread have a message; the others have none.
LEMMA WhoHasOne ==
    ASSUME IInv
    PROVE  /\ \A w \in Worker : Holds(w) => held[w] \in Message
           /\ \A t \in Thread : Waiting(t) => call[t] \in Message
           /\ \A t \in Thread : ~ Waiting(t) => call[t] = NoMessage
           /\ tasks \in Seq(Message) /\ answers \in Seq(Message)
           /\ given \in [Thread -> Nat]
BY DEF IInv, FlowTypeOK, Holds

\* In a step that moves no message, though some may vanish, requests stay
\* apart and no result appears.
LEMMA VanishKeeps ==
    ASSUME Both, UNCHANGED <<performed, issued>>,
           tasks' = tasks \/ tasks' = << >>,
           answers' = answers \/ answers' = << >>,
           \A w \in Worker : job'[w] \in {"work", "reply"} =>
              job'[w] = job[w] /\ held'[w] = held[w],
           \A t \in Thread : at'[t] \in {"send", "wait"} =>
              at'[t] = at[t] /\ call'[t] = call[t]
    PROVE  Separate' /\ Handed' \subseteq Handed
<1>1. Nos(tasks') \subseteq Nos(tasks) /\ Apart(tasks')
    BY NothingQueued DEF Both, Separate
<1>2. Nos(answers') \subseteq Nos(answers) /\ Apart(answers')
    BY NothingQueued DEF Both, Separate
<1>3. \A w \in Worker : Holds(w)' => Holds(w) /\ held'[w] = held[w] /\ job'[w] = job[w]
    BY DEF Holds
<1>4. \A t \in Thread : Waiting(t)' => Waiting(t) /\ at'[t] = at[t] /\ call'[t] = call[t]
    BY DEF Waiting
<1>5. (\A w \in Worker : Holds(w) =>
          /\ held[w].no \notin Nos(tasks) /\ held[w].no \notin Nos(answers)
          /\ held[w].no \in performed <=> job[w] = "reply")'
    BY <1>1, <1>2, <1>3 DEF Both, Separate
<1>6. (\A v, w \in Worker : Holds(v) /\ Holds(w) /\ held[v].no = held[w].no => v = w)'
    BY <1>3 DEF Both, Separate
<1>7. (\A t \in Thread : at[t] = "send" =>
          /\ call[t].no \notin Nos(tasks) /\ call[t].no \notin performed
          /\ \A w \in Worker : Holds(w) => held[w].no # call[t].no)'
    <2> SUFFICES ASSUME NEW t \in Thread, at'[t] = "send"
                 PROVE  /\ call'[t].no \notin Nos(tasks') /\ call'[t].no \notin performed
                        /\ \A w \in Worker : Holds(w)' => held'[w].no # call'[t].no
        OBVIOUS
    <2>1. at[t] = "send" /\ call'[t] = call[t]
        OBVIOUS
    <2> QED
        BY <1>1, <1>3, <2>1 DEF Both, Separate
<1>8. (\A t, u \in Thread : Waiting(t) /\ Waiting(u) /\ call[t].no = call[u].no => t = u)'
    BY <1>4 DEF Both, Separate
<1>9. Separate'
    BY <1>1, <1>2, <1>5, <1>6, <1>7, <1>8 DEF Both, Separate
<1>10. Range(answers') \subseteq Range(answers)
    BY DEF Range
<1>11. Handed' \subseteq Handed
    BY <1>3, <1>10 DEF Handed, Holds
<1> QED
    BY <1>9, <1>11

\* The server's promise sees nothing of a client that connects.
LEMMA ConnectRefines ==
    ASSUME Both, NEW t \in Thread, Connect(t)
    PROVE  Separate' /\ Calls!Next
<1>1. Separate' /\ Handed' \subseteq Handed
    BY VanishKeeps DEF Both, IInv, FlowTypeOK, Connect, workerVars, flowVars
<1> QED
    BY <1>1, LosesStep, WhoHasOne DEF Both, Connect, flowVars

\* A client that leaves waits for nothing.
LEMMA LeaveRefines ==
    ASSUME Both, NEW t \in Thread, Leave(t)
    PROVE  Separate' /\ Calls!Next
<1>1. Separate' /\ Handed' \subseteq Handed
    BY VanishKeeps DEF Both, IInv, FlowTypeOK, Leave, workerVars, flowVars
<1>2. \A u \in Thread : call'[u].no = IF u \in {t} THEN 0 ELSE call[u].no
    BY WhoHasOne DEF Both, Leave, Waiting, NoMessage
<1>3. given' = [u \in Thread |-> IF u \in {t} THEN 0 ELSE given[u]]
    BY WhoHasOne DEF Both, Leave
<1> QED
    BY <1>1, <1>2, <1>3, GivesUpStep DEF Leave, flowVars

\* The signal that stops the server changes no request.
LEMMA StopServerRefines ==
    ASSUME Both, StopServer
    PROVE  Separate' /\ Calls!Next
<1>1. Separate' /\ Handed' \subseteq Handed
    BY VanishKeeps DEF StopServer, workerVars, threadVars, flowVars
<1> QED
    BY <1>1, LosesStep, WhoHasOne DEF Both, StopServer, flowVars, threadVars

\* With the server's process all its threads give up.
LEMMA QuitGivesUp ==
    ASSUME Quit, Handed' \subseteq Handed, UNCHANGED <<issued, performed>>
    PROVE  Calls!Next
<1>1. /\ \A u \in Thread : call'[u].no = IF u \in Thread THEN 0 ELSE call[u].no
      /\ given' = [u \in Thread |-> IF u \in Thread THEN 0 ELSE given[u]]
    BY DEF Quit, NoMessage
<1> QED
    BY <1>1, GivesUpStep

\* The server's orderly end ends its threads.
LEMMA ExitRefines ==
    ASSUME Both, Exit
    PROVE  Separate' /\ Calls!Next
<1>1. Separate' /\ Handed' \subseteq Handed
    BY VanishKeeps DEF Exit, Quit, workerVars, flowVars
<1> QED
    BY <1>1, QuitGivesUp DEF Exit, flowVars

\* So does its crash, and some workers end with it.
LEMMA CrashRefines ==
    ASSUME Both, Crash
    PROVE  Separate' /\ Calls!Next
<1>1. \A w \in Worker : job'[w] \in {"work", "reply"} =>
         job'[w] = job[w] /\ held'[w] = held[w]
    BY DEF Crash
<1>2. Separate' /\ Handed' \subseteq Handed
    BY <1>1, VanishKeeps DEF Crash, Quit, flowVars
<1> QED
    BY <1>2, QuitGivesUp DEF Crash, flowVars

\* The removal of the queues loses what is on them.
LEMMA RemovalLoses ==
    ASSUME Both, RemoveQueues, UNCHANGED <<performed, flowVars, threadVars>>
    PROVE  Separate' /\ Calls!Next
<1>1. \A w \in Worker : job'[w] \in {"work", "reply"} =>
         job'[w] = job[w] /\ held'[w] = held[w]
    BY DEF RemoveQueues
<1>2. Separate' /\ Handed' \subseteq Handed
    BY <1>1, VanishKeeps DEF RemoveQueues, flowVars, threadVars
<1> QED
    BY <1>2, LosesStep, WhoHasOne DEF Both, flowVars, threadVars

\* A start of the server finds the results its predecessor left.
LEMMA StartServerRefines ==
    ASSUME Both, StartServer
    PROVE  Separate' /\ Calls!Next
<1>1. \A w \in Worker : job'[w] \in {"work", "reply"} =>
         job'[w] = job[w] /\ held'[w] = held[w]
    BY DEF StartServer
<1>2. Separate' /\ Handed' \subseteq Handed
    BY <1>1, VanishKeeps DEF StartServer, threadVars
<1> QED
    BY <1>2, LosesStep, WhoHasOne DEF Both, StartServer, threadVars

\* What a worker holds is lost with it, when it dies or when the signal finds
\* it with a response it cannot send.
LEMMA GoneRefines ==
    ASSUME Both, NEW w \in Worker, \/ Gone(w)
                                   \/ UNCHANGED <<job, held>>,
           UNCHANGED <<tasks, answers, performed, flowVars, threadVars>>
    PROVE  Separate' /\ Calls!Next
<1>1. \A v \in Worker : job'[v] \in {"work", "reply"} =>
         job'[v] = job[v] /\ held'[v] = held[v]
    BY DEF Gone, Both, IInv, FlowTypeOK
<1>2. Separate' /\ Handed' \subseteq Handed
    BY <1>1, VanishKeeps DEF flowVars, threadVars
<1> QED
    BY <1>2, LosesStep, WhoHasOne DEF Both, flowVars, threadVars

\* A thread whose queue is gone tells its client that there is no result.
LEMMA ForwardNothing ==
    ASSUME Both, NEW t \in Thread, Forward(t, 0),
           UNCHANGED <<tasks, answers, performed, flowVars, workerVars>>
    PROVE  Separate' /\ Calls!Next
<1>1. Separate' /\ Handed' \subseteq Handed
    BY VanishKeeps DEF Both, IInv, FlowTypeOK, Forward, workerVars, flowVars
<1>2. /\ \A u \in Thread : call'[u].no = IF u \in {t} THEN 0 ELSE call[u].no
      /\ given' = [u \in Thread |-> IF u \in {t} THEN 0 ELSE given[u]]
    BY DEF Forward, NoMessage, Both, IInv, FlowTypeOK
<1> QED
    BY <1>1, <1>2, GivesUpStep DEF flowVars

\* A request gets a number nobody has.
LEMMA AskRefines ==
    ASSUME Both, NEW t \in Thread, Ask(t)
    PROVE  Separate' /\ Calls!Next
<1> DEFINE n == issued + 1
<1>0. issued \in Nat /\ n \notin 1 .. issued
    BY DEF Both, IInv, FlowTypeOK
<1>1. /\ call'[t].no = n /\ at'[t] = "send"
      /\ \A u \in Thread : u # t => call'[u] = call[u] /\ at'[u] = at[u]
      /\ UNCHANGED <<tasks, answers, performed, job, held>> /\ issued' = n
    BY DEF Both, IInv, FlowTypeOK, Ask, workerVars
<1>2. /\ \A m \in Message : Known(m) => m.no # n
      /\ n \notin performed
    BY <1>0 DEF Both, Separate, Known, Message
<1>3. n \notin Nos(tasks)
    BY <1>2 DEF Nos, Both, IInv, FlowTypeOK, AllKnown
<1>4. \A w \in Worker : Holds(w) => held[w].no # n
    BY <1>2, WhoHasOne DEF Both, IInv, FlowTypeOK, AllKnown, Holds
<1>5. \A u \in Thread : Waiting(u) => call[u].no # n
    BY <1>2, WhoHasOne DEF Both, IInv, FlowTypeOK, AllKnown
<1>6. performed' \subseteq 1 .. issued'
    BY <1>0, <1>1 DEF Both, Separate
<1>7. \A u \in Thread : u # t => (Waiting(u)' <=> Waiting(u))
    BY <1>1 DEF Waiting
<1> HIDE DEF n
<1>8. Separate'
    BY <1>1, <1>2, <1>3, <1>4, <1>5, <1>6, <1>7 DEF Both, Separate, Holds
<1>9. Calls!Ask(t)
    <2>1. call[t].no = 0
        BY WhoHasOne DEF Both, Ask, Waiting, NoMessage
    <2>2. Asking[t] = 0 /\ Asking' = [Asking EXCEPT ![t] = n]
        BY <1>1, <2>1 DEF Asking
    <2>3. Handed' = Handed
        BY <1>1 DEF Handed
    <2> QED
        BY <1>1, <2>2, <2>3 DEF Calls!Ask, Asking, Handed, Ask, n
<1> QED
    BY <1>8, <1>9 DEF Calls!Next

\* A task on its way to the worker is not performed yet.
LEMMA SendTaskRefines ==
    ASSUME Both, NEW t \in Thread, SendTask(t)
    PROVE  Separate' /\ Calls!Next
<1>1. ASSUME tasks' = Append(tasks, call[t]), at' = [at EXCEPT ![t] = "wait"],
             UNCHANGED <<call, given>>
      PROVE  Separate' /\ Calls!Next
    <2>1. call[t] \in Message /\ tasks \in Seq(Message) /\ at[t] = "send"
        BY WhoHasOne DEF Both, SendTask, Waiting
    <2>2. UNCHANGED <<answers, performed, issued, job, held>>
        BY DEF SendTask, workerVars, flowVars
    <2>3. /\ call[t].no \notin Nos(tasks) /\ call[t].no \notin performed
          /\ \A w \in Worker : Holds(w) => held[w].no # call[t].no
        BY <2>1 DEF Both, Separate
    <2>4. Nos(tasks') = Nos(tasks) \cup {call[t].no} /\ Apart(tasks')
        BY <1>1, <2>1, <2>3, AppendNos DEF Both, Separate
    <2>5. /\ at'[t] = "wait"
          /\ \A u \in Thread : u # t => at'[u] = at[u]
          /\ \A u \in Thread : Waiting(u)' <=> Waiting(u)
        BY <1>1, <2>1 DEF Both, IInv, FlowTypeOK, Waiting
    <2>6. \A u \in Thread : at'[u] = "send" => at[u] = "send" /\ call[u].no # call[t].no
        BY <2>1, <2>5 DEF Both, Separate, Waiting
    <2>7. Separate'
        BY <1>1, <2>2, <2>3, <2>4, <2>5, <2>6 DEF Both, Separate, Holds
    <2>8. Handed' = Handed
        BY <2>2 DEF Handed
    <2> QED
        BY <1>1, <2>2, <2>7, <2>8, LosesStep, WhoHasOne DEF Both
<1>2. ASSUME Forward(t, 0), UNCHANGED tasks
      PROVE  Separate' /\ Calls!Next
    BY <1>2, ForwardNothing DEF SendTask
<1> QED
    BY <1>1, <1>2 DEF SendTask

\* A response is handed out once, and to the thread that asked if ids are
\* distinct.
LEMMA ReceiveResponseRefines ==
    ASSUME Both, NEW t \in Thread, ReceiveResponse(t)
    PROVE  Separate' /\ Calls!Next
<1>1. ASSUME NEW i \in ResponsesTo(t),
             Forward(t, answers[i].no), answers' = RemoveAt(answers, i)
      PROVE  Separate' /\ Calls!Next
    <2> DEFINE m == answers[i]
               c == call[t]
    <2>1. /\ i \in 1 .. Len(answers) /\ i \in DOMAIN answers
          /\ m \in Message /\ m.id = c.id
          /\ c \in Message /\ Waiting(t) /\ answers \in Seq(Message)
        BY LenProperties, WhoHasOne DEF ResponsesTo, Both, ReceiveResponse, Waiting
    <2>2. UNCHANGED <<tasks, performed, issued, job, held>>
        BY DEF ReceiveResponse, workerVars, flowVars
    <2>3. /\ Nos(answers') = Nos(answers) \ {m.no} /\ m.no \in Nos(answers)
          /\ Apart(answers')
        BY <1>1, <2>1, RemoveNos DEF Both, Separate
    <2>4. /\ call'[t] = NoMessage /\ given' = [given EXCEPT ![t] = m.no]
          /\ \A u \in Thread : u # t => call'[u] = call[u] /\ at'[u] = at[u]
          /\ ~ Waiting(t)' /\ at'[t] # "send"
        BY <1>1 DEF Forward, Both, IInv, FlowTypeOK, Waiting
    <2> HIDE DEF m, c
    <2>5. Separate'
        BY <2>2, <2>3, <2>4 DEF Both, Separate, Holds, Waiting
    <2>6. Results' = Results \ {m.no} /\ m.no \in Results
        BY <2>2, <2>3 DEF Both, Separate, Results, Holds
    <2>7. Handed = Results /\ Handed' = Results'
        <3>1. DOMAIN answers' = 1 .. Len(answers')
            BY <1>1, <2>1, RemoveAtElements, LenProperties
        <3>2. {x.no : x \in Range(answers')} = Nos(answers')
            BY <3>1 DEF Range, Nos
        <3> QED
            BY <3>2, HandedIs DEF Both, Handed, Results
    <2>8. {m.no, c.no} \subseteq {n \in 1 .. issued : Current(n)} => m.no = c.no
        <3>1. m \in InFlight
            BY <2>1 DEF InFlight, Queued, Range, m
        <3> QED
            BY <2>1, <3>1, KnownTellsApart DEF Both, IdsTellApart, c
    <2>9. c.no # 0
        BY <2>1 DEF Message
    <2>10. Asking[t] = c.no /\ Asking' = [Asking EXCEPT ![t] = 0]
        <3>1. \A u \in Thread : call'[u].no = IF u = t THEN 0 ELSE call[u].no
            BY <2>4 DEF NoMessage
        <3>2. Asking' = [u \in Thread |-> IF u = t THEN 0 ELSE Asking[u]]
            BY <3>1 DEF Asking
        <3> QED
            BY <3>2 DEF Asking, c
    <2>11. Calls!Return(t)
        BY <2>2, <2>4, <2>6, <2>7, <2>8, <2>9, <2>10 DEF Calls!Return, Asking, Handed
    <2> QED
        BY <2>5, <2>11 DEF Calls!Next
<1>2. ASSUME Forward(t, 0), UNCHANGED answers
      PROVE  Separate' /\ Calls!Next
    BY <1>2, ForwardNothing DEF ReceiveResponse
<1> QED
    BY <1>1, <1>2 DEF ReceiveResponse

\* A task a worker takes is in its hands only, and still to be performed.
LEMMA ReceiveTaskRefines ==
    ASSUME Both, NEW w \in Worker, ReceiveTask(w)
    PROVE  Separate' /\ Calls!Next
<1>1. ASSUME tasks # << >>, held' = [held EXCEPT ![w] = Head(tasks)],
             tasks' = TasksLeft, job' = [job EXCEPT ![w] = "work"]
      PROVE  Separate' /\ Calls!Next
    <2> DEFINE n == Head(tasks).no
    <2>1. UNCHANGED <<answers, performed, issued, at, call, given>> /\ job[w] = "receive"
        BY DEF ReceiveTask, threadVars, flowVars
    <2>2. Nos(tasks') = Nos(tasks) \ {n} /\ n \in Nos(tasks) /\ Apart(tasks')
        BY <1>1, TailNos, WhoHasOne DEF Both, Separate, TasksLeft
    <2>3. /\ held'[w].no = n /\ job'[w] = "work" /\ ~ Holds(w)
          /\ \A v \in Worker : v # w => held'[v] = held[v] /\ job'[v] = job[v]
        BY <1>1, <2>1 DEF Both, IInv, FlowTypeOK, Holds
    <2> HIDE DEF n
    <2>4. n \notin performed /\ n \notin Nos(answers)
        BY <2>2 DEF Both, Separate
    <2>5. \A v \in Worker : v # w => (Holds(v)' <=> Holds(v))
        BY <2>3 DEF Holds
    <2>6. /\ \A v \in Worker : Holds(v) => held[v].no # n
          /\ \A t \in Thread : at[t] = "send" => call[t].no # n
        BY <2>2 DEF Both, Separate
    <2>7. (\A v \in Worker : Holds(v) =>
              /\ held[v].no \notin Nos(tasks) /\ held[v].no \notin Nos(answers)
              /\ held[v].no \in performed <=> job[v] = "reply")'
        BY <2>1, <2>2, <2>3, <2>4, <2>5 DEF Both, Separate
    <2>8. (\A u, v \in Worker : Holds(u) /\ Holds(v) /\ held[u].no = held[v].no => u = v)'
        BY <2>3, <2>5, <2>6 DEF Both, Separate
    <2>9. (\A t \in Thread : at[t] = "send" =>
              /\ call[t].no \notin Nos(tasks) /\ call[t].no \notin performed
              /\ \A v \in Worker : Holds(v) => held[v].no # call[t].no)'
        BY <2>1, <2>2, <2>3, <2>5, <2>6 DEF Both, Separate
    <2>10. Separate'
        BY <2>1, <2>2, <2>7, <2>8, <2>9 DEF Both, Separate, Waiting
    <2>11. Handed' \subseteq Handed
        BY <2>1, <2>3 DEF Handed
    <2> QED
        BY <2>1, <2>10, <2>11, LosesStep, WhoHasOne DEF Both
<1>2. ASSUME Gone(w), UNCHANGED tasks
      PROVE  Separate' /\ Calls!Next
    BY <1>2, GoneRefines DEF ReceiveTask
<1> QED
    BY <1>1, <1>2 DEF ReceiveTask

\* A task is performed once, and its result is then on its way back or gone
\* with its worker.
LEMMA ProcessTaskRefines ==
    ASSUME Both, NEW w \in Worker, ProcessTask(w)
    PROVE  Separate' /\ Calls!Next
<1> DEFINE n == held[w].no
<1>1. /\ performed' = performed \cup {n} /\ job[w] = "work"
      /\ UNCHANGED <<tasks, answers, issued, at, call, given>>
    BY DEF ProcessTask, threadVars, flowVars
<1>2. held[w] \in Message /\ Known(held[w]) /\ Holds(w)
    BY <1>1, WhoHasOne DEF Both, IInv, AllKnown, FlowTypeOK, Holds
<1>3. /\ n \in 1 .. issued /\ n \notin performed
      /\ n \notin Nos(tasks) /\ n \notin Nos(answers)
      /\ \A v \in Worker : v # w /\ Holds(v) => held[v].no # n
      /\ \A t \in Thread : at[t] = "send" => call[t].no # n
    <2>1. n \in Nat \ {0} /\ n <= issued /\ issued \in Nat
        BY <1>2 DEF Known, Message, Both, IInv, FlowTypeOK
    <2> QED
        BY <1>1, <1>2, <2>1 DEF Both, Separate
<1>4. \/ job'[w] = "reply" /\ held' = held
      \/ job'[w] = "gone"
    BY DEF ProcessTask, Gone, Both, IInv, FlowTypeOK
<1>5. \A v \in Worker : v # w => held'[v] = held[v] /\ job'[v] = job[v]
    BY DEF ProcessTask, Gone, Both, IInv, FlowTypeOK
<1> HIDE DEF n
<1>6. Separate'
    <2>1. (\A v \in Worker : Holds(v) =>
              /\ held[v].no \notin Nos(tasks) /\ held[v].no \notin Nos(answers)
              /\ held[v].no \in performed <=> job[v] = "reply")'
        <3> SUFFICES ASSUME NEW v \in Worker, Holds(v)'
                     PROVE  /\ held'[v].no \notin Nos(tasks) /\ held'[v].no \notin Nos(answers)
                            /\ held'[v].no \in performed' <=> job'[v] = "reply"
            BY <1>1
        <3>1. CASE v = w
            BY <1>1, <1>3, <1>4, <3>1 DEF Holds, n
        <3>2. CASE v # w
            BY <1>1, <1>3, <1>5, <3>2 DEF Holds, Both, Separate
        <3> QED
            BY <3>1, <3>2
    <2>2. (\A u, v \in Worker : Holds(u) /\ Holds(v) /\ held[u].no = held[v].no => u = v)'
        BY <1>2, <1>3, <1>4, <1>5 DEF Both, Separate, Holds, n
    <2>3. (\A t \in Thread : at[t] = "send" =>
              /\ call[t].no \notin Nos(tasks) /\ call[t].no \notin performed
              /\ \A v \in Worker : Holds(v) => held[v].no # call[t].no)'
        BY <1>1, <1>2, <1>3, <1>4, <1>5 DEF Both, Separate, Holds, n
    <2>4. performed' \subseteq 1 .. issued'
        BY <1>1, <1>3 DEF Both, Separate
    <2> QED
        BY <1>1, <1>3, <2>1, <2>2, <2>3, <2>4 DEF Both, Separate, Waiting
<1>7. Handed' \in {Handed, Handed \cup {n}}
    <2>1. CASE job'[w] = "reply" /\ held' = held
        <3>1. {held'[v].no : v \in {u \in Worker : job'[u] = "reply"}}
                 = {held[v].no : v \in {u \in Worker : job[u] = "reply"}} \cup {n}
            BY <1>5, <2>1 DEF n
        <3> QED
            BY <1>1, <3>1 DEF Handed
    <2>2. CASE job'[w] = "gone"
        <3>1. {held'[v].no : v \in {u \in Worker : job'[u] = "reply"}}
                 = {held[v].no : v \in {u \in Worker : job[u] = "reply"}}
            BY <1>1, <1>5, <2>2
        <3> QED
            BY <1>1, <3>1 DEF Handed
    <2> QED
        BY <1>4, <2>1, <2>2
<1>8. PICK k \in 1 .. issued : k = n
    BY <1>3
<1>9. Calls!Perform(k)
    BY <1>1, <1>3, <1>7, <1>8 DEF Calls!Perform, Asking, Handed
<1> QED
    BY <1>6, <1>9 DEF Calls!Next

\* A response put on the queue is the one the worker held; on a queue that is
\* gone it is lost.
LEMMA SendResponseRefines ==
    ASSUME Both, NEW w \in Worker, SendResponse(w)
    PROVE  Separate' /\ Calls!Next
<1>1. /\ job[w] = "reply" /\ Loop(w)
      /\ UNCHANGED <<tasks, performed, issued, at, call, given>>
    BY DEF SendResponse, threadVars, flowVars
<1>2. /\ job'[w] \notin {"work", "reply"}
      /\ \A v \in Worker : v # w => job'[v] = job[v] /\ held'[v] = held[v]
    BY <1>1 DEF Loop, Both, IInv, FlowTypeOK
<1>3. CASE UNCHANGED answers
    <2>1. \A v \in Worker : job'[v] \in {"work", "reply"} =>
             job'[v] = job[v] /\ held'[v] = held[v]
        BY <1>2
    <2>2. Separate' /\ Handed' \subseteq Handed
        BY <1>1, <1>3, <2>1, VanishKeeps
    <2> QED
        BY <1>1, <2>2, LosesStep, WhoHasOne DEF Both
<1>4. CASE answers' = Append(answers, held[w])
    <2> DEFINE n == held[w].no
    <2>1. held[w] \in Message /\ answers \in Seq(Message) /\ Holds(w)
        BY <1>1, WhoHasOne DEF Both, Holds
    <2>2. /\ n \notin Nos(answers) /\ n \notin Nos(tasks) /\ n \in performed
          /\ \A v \in Worker : v # w /\ Holds(v) => held[v].no # n
        BY <1>1, <2>1 DEF Both, Separate
    <2>3. Nos(answers') = Nos(answers) \cup {n} /\ Apart(answers')
        BY <1>4, <2>1, <2>2, AppendNos DEF Both, Separate
    <2> HIDE DEF n
    <2>4. \A v \in Worker : Holds(v)' => /\ v # w /\ Holds(v)
                                         /\ held'[v] = held[v] /\ job'[v] = job[v]
        BY <1>2 DEF Holds
    <2>5. (\A v \in Worker : Holds(v) =>
              /\ held[v].no \notin Nos(tasks) /\ held[v].no \notin Nos(answers)
              /\ held[v].no \in performed <=> job[v] = "reply")'
        BY <1>1, <2>2, <2>3, <2>4 DEF Both, Separate
    <2>6. (\A u, v \in Worker : Holds(u) /\ Holds(v) /\ held[u].no = held[v].no => u = v)'
        BY <2>4 DEF Both, Separate
    <2>7. (\A t \in Thread : at[t] = "send" =>
              /\ call[t].no \notin Nos(tasks) /\ call[t].no \notin performed
              /\ \A v \in Worker : Holds(v) => held[v].no # call[t].no)'
        BY <1>1, <2>4 DEF Both, Separate
    <2>8. Separate'
        BY <1>1, <2>2, <2>3, <2>5, <2>6, <2>7 DEF Both, Separate, Waiting
    <2>9. Handed' \subseteq Handed
        <3>1. {m.no : m \in Range(answers')} \subseteq {m.no : m \in Range(answers)} \cup {n}
            <4>1. Range(answers') \subseteq Range(answers) \cup {held[w]}
                BY <1>4, <2>1, AppendProperties, LenProperties DEF Range
            <4> QED
                BY <4>1 DEF n
        <3>2. n \in {held[v].no : v \in {u \in Worker : job[u] = "reply"}}
            BY <1>1 DEF n
        <3>3. {held'[v].no : v \in {u \in Worker : job'[u] = "reply"}}
                 \subseteq {held[v].no : v \in {u \in Worker : job[u] = "reply"}}
            BY <1>2
        <3> QED
            BY <3>1, <3>2, <3>3 DEF Handed
    <2> QED
        BY <1>1, <2>8, <2>9, LosesStep, WhoHasOne DEF Both
<1> QED
    BY <1>3, <1>4 DEF SendResponse

-----------------------------------------------------------------------------
(* The refinement.                                                         *)

\* The initial state is one of the promise's.
LEMMA InitRefines == Init => Separate /\ Calls!Init
<1> SUFFICES ASSUME Init PROVE Separate /\ Calls!Init
    OBVIOUS
<1>1. Separate
    BY NothingQueued DEF Init, Separate, Holds, Waiting
<1>2. Asking = [t \in Thread |-> 0]
    BY DEF Init, Asking, NoMessage
<1>3. Handed = {}
    BY DEF Init, Handed, Range
<1> QED
    BY <1>1, <1>2, <1>3 DEF Init, Calls!Init, Asking, Handed

\* Every step of the request flow is a step of the promise or none.
LEMMA StepRefines ==
    IInv /\ Separate /\ [Next]_vars => Separate' /\ [Calls!Next]_(Calls!vars)
<1> SUFFICES ASSUME Both, [Next]_vars
             PROVE  Separate' /\ [Calls!Next]_(Calls!vars)
    BY DEF Both
<1>1. ASSUME NEW t \in Thread,
             Connect(t) \/ Leave(t) \/ Ask(t) \/ SendTask(t) \/ ReceiveResponse(t)
      PROVE  Separate' /\ Calls!Next
    BY <1>1, ConnectRefines, LeaveRefines, AskRefines, SendTaskRefines, ReceiveResponseRefines
<1>2. ASSUME NEW w \in Worker, WorkerStep(w)
      PROVE  Separate' /\ Calls!Next
    BY <1>2, ReceiveTaskRefines, ProcessTaskRefines, SendResponseRefines DEF WorkerStep
<1>3. ASSUME NEW w \in Worker, Die(w) \/ SignalWorker(w)
      PROVE  Separate' /\ Calls!Next
    <2>1. Gone(w) \/ UNCHANGED <<job, held>>
        BY <1>3 DEF Die, SignalWorker
    <2>2. UNCHANGED <<tasks, answers, performed, flowVars, threadVars>>
        BY <1>3 DEF Die, SignalWorker
    <2> QED
        BY <2>1, <2>2, GoneRefines
<1>4. CASE StopServer \/ Exit \/ Crash \/ StartServer
    BY <1>4, StopServerRefines, ExitRefines, CrashRefines, StartServerRefines
<1>5. CASE CleanUp \/ StartTwice
    BY <1>5, RemovalLoses DEF CleanUp, StartTwice
<1>6. CASE UNCHANGED vars
    <2>1. Separate'
        BY <1>6, VanishKeeps DEF vars, flowVars, threadVars, workerVars
    <2>2. UNCHANGED Calls!vars
        BY <1>6 DEF vars, flowVars, threadVars, workerVars, Calls!vars, Current
    <2> QED
        BY <2>1, <2>2
<1> QED
    BY <1>1, <1>2, <1>3, <1>4, <1>5, <1>6 DEF Next

\* For any number of threads, workers, starts of the server, ids and any queue
\* length a request is performed at most once, a response is handed out at
\* most once, and, among distinct requests, to the thread that asked: also
\* when servers crash, workers die and the queues are removed or outlive them.
THEOREM FlowImplementsCalls == Spec => ImplementsCallReturn
BY InitRefines, InitIInv, StepRefines, StepKeeps, PTL DEF Spec, ImplementsCallReturn, Calls!Spec
-----------------------------------------------------------------------------
(* Nothing else loses a message.                                           *)

Waiters == {t \in Thread : at[t] = "wait"}

\* The messages between the thread that sent one and the thread that gets it.
Moving ==
    {tasks[i] : i \in 1 .. Len(tasks)} \cup {answers[i] : i \in 1 .. Len(answers)}
    \cup {held[w] : w \in {v \in Worker : Holds(v)}}

\* Each thread that waits has a message of its own on the way that carries its
\* id: two threads with one id have two.
Matches(f) ==
    /\ \A t \in Waiters : f[t] \in Moving /\ f[t].id = call[t].id
    /\ \A t, u \in Waiters : f[t] = f[u] => t = u

Faultless == open /\ cut = {} /\ \A w \in Worker : job[w] # "gone"

Matched == Faultless => \E f \in [Waiters -> Moving] : Matches(f)

\* The threads end with the server.
OffWhenDown == server = "down" => \A t \in Thread : at[t] = "off"

\* With no thread waiting there is nothing to match.
LEMMA NobodyWaits ==
    ASSUME \A t \in Thread : at[t] # "wait"
    PROVE  Matched
<1>1. Waiters = {}
    BY DEF Waiters
<1> DEFINE none == [t \in Waiters |-> NoMessage]
<1>2. none \in [Waiters -> Moving] /\ Matches(none)
    BY <1>1 DEF Matches
<1> HIDE DEF none
<1> QED
    BY <1>2 DEF Matched

\* A matching with the messages of the next state, given thread by thread.
LEMMA Rematch ==
    ASSUME NEW f,
           \A t \in Waiters' : f[t] \in Moving' /\ f[t].id = call'[t].id,
           \A t, u \in Waiters' : f[t] = f[u] => t = u
    PROVE  Matched'
<1>1. PICK g \in [Waiters' -> Moving'] : g = [t \in Waiters' |-> f[t]]
    OBVIOUS
<1>2. \A t \in Waiters' : g[t] = f[t]
    BY <1>1
<1>3. Matches(g)'
    BY <1>2 DEF Matches
<1> QED
    BY <1>3 DEF Matched

\* With no thread waiting in the next state there is nothing to match in it.
LEMMA NobodyWaitsNext ==
    ASSUME \A t \in Thread : at'[t] # "wait"
    PROVE  Matched'
<1>1. Waiters' = {}
    BY DEF Waiters
<1> QED
    BY <1>1, Rematch

\* A step in which every waiting thread waited before and no message leaves.
LEMMA MatchKept ==
    ASSUME Matched, Faultless, Moving \subseteq Moving',
           \A t \in Waiters' : t \in Waiters /\ call'[t] = call[t]
    PROVE  Matched'
<1>1. PICK f \in [Waiters -> Moving] : Matches(f)
    BY DEF Matched
<1> QED
    BY <1>1, Rematch DEF Matches

\* What every step below starts from.
All == Both /\ Matched /\ OffWhenDown

\* The task a thread sends is its own: no other message has its number.
LEMMA SendTaskMatches ==
    ASSUME All, Faultless, NEW t \in Thread, SendTask(t)
    PROVE  Matched'
<1>1. /\ tasks' = Append(tasks, call[t]) /\ at' = [at EXCEPT ![t] = "wait"]
      /\ at[t] = "send" /\ UNCHANGED <<call, answers, job, held>>
    BY DEF SendTask, Faultless, workerVars
<1>2. call[t] \in Message /\ tasks \in Seq(Message)
    BY <1>1, WhoHasOne DEF All, Both, Waiting
<1>3. Moving' = Moving \cup {call[t]}
    <2>1. /\ Len(tasks) \in Nat /\ Len(tasks') = Len(tasks) + 1
          /\ \A i \in 1 .. Len(tasks) : tasks'[i] = tasks[i]
          /\ tasks'[Len(tasks) + 1] = call[t]
        BY <1>1, <1>2, AppendProperties, LenProperties
    <2>2. {tasks'[i] : i \in 1 .. Len(tasks')}
             = {tasks[i] : i \in 1 .. Len(tasks)} \cup {call[t]}
        <3>1. 1 .. Len(tasks') = (1 .. Len(tasks)) \cup {Len(tasks) + 1}
            BY <2>1
        <3> QED
            BY <2>1, <3>1
    <2> QED
        BY <1>1, <2>2 DEF Moving, Holds
<1>4. call[t] \notin Moving
    <2>1. /\ call[t].no \notin Nos(tasks) /\ call[t].no \notin performed
          /\ \A w \in Worker : Holds(w) => held[w].no # call[t].no
          /\ Nos(answers) \subseteq performed
        BY <1>1 DEF All, Both, Separate
    <2> QED
        BY <2>1 DEF Moving, Nos
<1>5. Waiters' = Waiters \cup {t} /\ t \notin Waiters
    BY <1>1 DEF Waiters, All, Both, IInv, FlowTypeOK
<1>6. PICK f \in [Waiters -> Moving] : Matches(f)
    BY DEF All, Matched
<1> DEFINE g == [u \in Waiters' |-> IF u = t THEN call[t] ELSE f[u]]
<1>7. \A u \in Waiters' : g[u] \in Moving' /\ g[u].id = call'[u].id
    BY <1>1, <1>3, <1>5, <1>6 DEF Matches
<1>8. \A u, v \in Waiters' : g[u] = g[v] => u = v
    BY <1>4, <1>5, <1>6 DEF Matches
<1> QED
    BY <1>7, <1>8, Rematch

\* A thread that is given a response another thread with its id was matched
\* with leaves that thread its own.
LEMMA ReceiveResponseMatches ==
    ASSUME All, Faultless, NEW t \in Thread, ReceiveResponse(t)
    PROVE  Matched'
<1>1. PICK i \in ResponsesTo(t) :
         Forward(t, answers[i].no) /\ answers' = RemoveAt(answers, i)
    BY DEF ReceiveResponse, Faultless
<1> DEFINE m == answers[i]
<1>2. /\ i \in 1 .. Len(answers) /\ m.id = call[t].id /\ t \in Waiters
      /\ answers \in Seq(Message)
    BY LenProperties, WhoHasOne DEF ResponsesTo, All, Both, ReceiveResponse, Waiters
<1>3. UNCHANGED <<tasks, job, held>>
    BY DEF ReceiveResponse, workerVars
<1>4. Moving \ {m} \subseteq Moving'
    <2>1. \A k \in 1 .. Len(answers) :
             k # i => \E j \in 1 .. Len(answers') : answers'[j] = answers[k]
        BY <1>1, <1>2, RemoveAtOthers
    <2> QED
        BY <1>3, <2>1 DEF Moving, Holds
<1>5. /\ Waiters' = Waiters \ {t}
      /\ \A u \in Waiters' : call'[u] = call[u]
    BY <1>1 DEF Forward, Waiters, All, Both, IInv, FlowTypeOK
<1>6. PICK f \in [Waiters -> Moving] : Matches(f)
    BY DEF All, Matched
<1> HIDE DEF m
<1> DEFINE g == [u \in Waiters' |-> IF f[u] = m THEN f[t] ELSE f[u]]
<1>7. \A u \in Waiters' : g[u] \in Moving' /\ g[u].id = call'[u].id
    BY <1>2, <1>4, <1>5, <1>6 DEF Matches
<1>8. \A u, v \in Waiters' : g[u] = g[v] => u = v
    BY <1>2, <1>5, <1>6 DEF Matches
<1> QED
    BY <1>7, <1>8, Rematch

\* Between the queues and a worker's hands no message leaves, unless the worker
\* does.
LEMMA WorkerMatches ==
    ASSUME All, Faultless, Faultless', NEW w \in Worker, WorkerStep(w)
    PROVE  Matched'
<1>1. UNCHANGED <<at, call>> /\ w \notin cut
    BY DEF WorkerStep, ReceiveTask, ProcessTask, SendResponse, threadVars, Faultless
<1>2. job'[w] # "gone"
    BY DEF Faultless
<1>3. CASE ReceiveTask(w)
    <2>1. /\ tasks # << >> /\ held' = [held EXCEPT ![w] = Head(tasks)]
          /\ tasks' = Tail(tasks) /\ job' = [job EXCEPT ![w] = "work"]
          /\ job[w] = "receive" /\ answers' = answers
        BY <1>1, <1>3 DEF ReceiveTask, TasksLeft, GivesUp
    <2>2. /\ Len(tasks) \in Nat \ {0} /\ Len(tasks') = Len(tasks) - 1
          /\ \A i \in 1 .. Len(tasks') : tasks'[i] = tasks[i + 1]
          /\ Head(tasks) = tasks[1]
        BY <2>1, HeadTailProperties, EmptySeq, WhoHasOne DEF All, Both
    <2>3. \A i \in 1 .. Len(tasks) : i # 1 => i - 1 \in 1 .. Len(tasks') /\ tasks'[i - 1] = tasks[i]
        BY <2>2
    <2>4. /\ Holds(w)' /\ held'[w] = tasks[1] /\ ~ Holds(w)
          /\ \A v \in Worker : v # w => held'[v] = held[v] /\ (Holds(v)' <=> Holds(v))
        BY <2>1, <2>2 DEF Holds, All, Both, IInv, FlowTypeOK
    <2>5. {tasks[i] : i \in 1 .. Len(tasks)} \subseteq Moving'
        BY <2>3, <2>4 DEF Moving
    <2>6. {held[v] : v \in {u \in Worker : Holds(u)}} \subseteq Moving'
        BY <2>4 DEF Moving
    <2>7. Moving \subseteq Moving'
        BY <2>1, <2>5, <2>6 DEF Moving
    <2> QED
        BY <1>1, <2>7, MatchKept DEF All, Waiters
<1>4. CASE ProcessTask(w)
    <2>1. job' = [job EXCEPT ![w] = "reply"] /\ UNCHANGED <<held, tasks, answers>>
        BY <1>2, <1>4 DEF ProcessTask, Gone, All, Both, IInv, FlowTypeOK
    <2>2. \A v \in Worker : Holds(v) => Holds(v)'
        BY <2>1 DEF Holds, All, Both, IInv, FlowTypeOK
    <2>3. Moving \subseteq Moving'
        BY <2>1, <2>2 DEF Moving
    <2> QED
        BY <1>1, <2>3, MatchKept DEF All, Waiters
<1>5. CASE SendResponse(w)
    <2>1. answers' = Append(answers, held[w]) /\ Loop(w) /\ UNCHANGED tasks
        BY <1>1, <1>5 DEF SendResponse
    <2>2. held[w] \in Message /\ answers \in Seq(Message)
        BY <1>5, WhoHasOne DEF All, Both, Holds, SendResponse
    <2>3. /\ Len(answers) \in Nat /\ Len(answers') = Len(answers) + 1
          /\ \A i \in 1 .. Len(answers) : answers'[i] = answers[i]
          /\ answers'[Len(answers) + 1] = held[w]
        BY <2>1, <2>2, AppendProperties, LenProperties
    <2>4. 1 .. Len(answers) \subseteq 1 .. Len(answers') /\ Len(answers) + 1 \in 1 .. Len(answers')
        BY <2>3
    <2>5. \A v \in Worker : v # w => held'[v] = held[v] /\ (Holds(v)' <=> Holds(v))
        BY <2>1 DEF Loop, Holds, All, Both, IInv, FlowTypeOK
    <2>6. Moving \subseteq Moving'
        BY <2>1, <2>3, <2>4, <2>5 DEF Moving
    <2> QED
        BY <1>1, <2>6, MatchKept DEF All, Waiters
<1> QED
    BY <1>3, <1>4, <1>5 DEF WorkerStep

\* A step after which nothing is lost, but for a start of the server, is one
\* before which nothing was.
LEMMA FaultsStay ==
    ASSUME IInv, [Next]_vars, ~ StartServer, Faultless'
    PROVE  Faultless
<1>1. ASSUME NEW w \in Worker, job[w] = "gone"
      PROVE  job'[w] = "gone"
    <2>1. ASSUME NEW v \in Worker, WorkerStep(v) \/ Die(v) \/ SignalWorker(v)
          PROVE  job'[w] = "gone"
        BY <1>1, <2>1
        DEF WorkerStep, ReceiveTask, ProcessTask, SendResponse, Die, SignalWorker, Gone, Loop,
            Alive, IInv, FlowTypeOK
    <2>2. ASSUME NEW t \in Thread,
                 Connect(t) \/ Leave(t) \/ Ask(t) \/ SendTask(t) \/ ReceiveResponse(t)
          PROVE  job'[w] = "gone"
        BY <1>1, <2>2 DEF Connect, Leave, Ask, SendTask, ReceiveResponse, workerVars
    <2>3. CASE StopServer \/ CleanUp \/ Exit \/ Crash \/ StartTwice \/ UNCHANGED vars
        BY <1>1, <2>3
        DEF StopServer, CleanUp, Exit, Crash, StartTwice, vars, workerVars, RemoveQueues
    <2> QED
        BY <2>1, <2>2, <2>3 DEF Next
<1>2. (open' => open) /\ cut \subseteq cut'
    <2>1. ASSUME NEW v \in Worker, WorkerStep(v) \/ Die(v) \/ SignalWorker(v)
          PROVE  open' = open /\ cut' = cut
        BY <2>1 DEF WorkerStep, ReceiveTask, ProcessTask, SendResponse, Die, SignalWorker
    <2>2. ASSUME NEW t \in Thread,
                 Connect(t) \/ Leave(t) \/ Ask(t) \/ SendTask(t) \/ ReceiveResponse(t)
          PROVE  open' = open /\ cut' = cut
        BY <2>2 DEF Connect, Leave, Ask, SendTask, ReceiveResponse
    <2>3. CASE StopServer \/ CleanUp \/ Exit \/ Crash \/ StartTwice \/ UNCHANGED vars
        BY <2>3 DEF StopServer, CleanUp, Exit, Crash, StartTwice, vars, RemoveQueues
    <2> QED
        BY <2>1, <2>2, <2>3 DEF Next
<1> QED
    BY <1>1, <1>2 DEF Faultless

\* Each step keeps the matching.
LEMMA StepMatches ==
    ASSUME All, [Next]_vars
    PROVE  Matched' /\ OffWhenDown'
<1>1. OffWhenDown'
    <2>1. ASSUME NEW t \in Thread,
                 Connect(t) \/ Leave(t) \/ Ask(t) \/ SendTask(t) \/ ReceiveResponse(t)
          PROVE  OffWhenDown'
        BY <2>1 DEF Connect, Leave, Ask, SendTask, ReceiveResponse, All, OffWhenDown
    <2>2. ASSUME NEW w \in Worker, WorkerStep(w) \/ Die(w) \/ SignalWorker(w)
          PROVE  OffWhenDown'
        BY <2>2 DEF WorkerStep, ReceiveTask, ProcessTask, SendResponse, Die, SignalWorker,
                    threadVars, All, OffWhenDown
    <2>3. CASE StopServer \/ CleanUp \/ StartTwice \/ StartServer \/ UNCHANGED vars
        BY <2>3 DEF StopServer, CleanUp, StartTwice, StartServer, vars, threadVars, All, OffWhenDown
    <2>4. CASE Exit \/ Crash
        BY <2>4 DEF Exit, Crash, Quit, OffWhenDown
    <2> QED
        BY <2>1, <2>2, <2>3, <2>4 DEF Next
<1>2. CASE StartServer
    <2>1. \A t \in Thread : at'[t] # "wait"
        BY <1>2 DEF StartServer, threadVars, All, OffWhenDown
    <2> QED
        BY <1>1, <2>1, NobodyWaitsNext
<1>3. CASE ~ Faultless'
    BY <1>1, <1>3 DEF Matched
<1>4. CASE ~ StartServer /\ Faultless'
    <2>0. Faultless
        BY <1>4, FaultsStay DEF All, Both
    <2>1. ASSUME NEW t \in Thread, SendTask(t) \/ ReceiveResponse(t)
          PROVE  Matched'
        BY <2>0, <2>1, SendTaskMatches, ReceiveResponseMatches
    <2>2. ASSUME NEW t \in Thread, Connect(t) \/ Leave(t) \/ Ask(t)
          PROVE  Matched'
        <3>1. UNCHANGED <<tasks, answers, job, held>>
            BY <2>2 DEF Connect, Leave, Ask, workerVars
        <3>2. Moving' = Moving
            BY <3>1 DEF Moving, Holds
        <3>3. \A u \in Waiters' : u \in Waiters /\ call'[u] = call[u]
            BY <2>2 DEF Connect, Leave, Ask, Waiters, All, Both, IInv, FlowTypeOK
        <3> QED
            BY <2>0, <3>2, <3>3, MatchKept DEF All
    <2>3. ASSUME NEW w \in Worker, WorkerStep(w)
          PROVE  Matched'
        BY <1>4, <2>0, <2>3, WorkerMatches
    <2>4. ASSUME NEW w \in Worker, Die(w) \/ SignalWorker(w)
          PROVE  Matched'
        <3>1. UNCHANGED <<tasks, answers, job, held, at, call>>
            <4>1. ~ Gone(w)
                BY <1>4 DEF Gone, Faultless, All, Both, IInv, FlowTypeOK
            <4> QED
                BY <2>4, <4>1 DEF Die, SignalWorker, threadVars
        <3>2. Moving' = Moving /\ Waiters' = Waiters
            BY <3>1 DEF Moving, Holds, Waiters
        <3>3. \A u \in Waiters' : u \in Waiters /\ call'[u] = call[u]
            BY <3>1, <3>2
        <3> QED
            BY <2>0, <3>2, <3>3, MatchKept DEF All
    <2>5. CASE StopServer \/ UNCHANGED vars
        <3>1. UNCHANGED <<tasks, answers, job, held, at, call>>
            BY <2>5 DEF StopServer, vars, workerVars, threadVars
        <3>2. Moving' = Moving /\ Waiters' = Waiters
            BY <3>1 DEF Moving, Holds, Waiters
        <3>3. \A u \in Waiters' : u \in Waiters /\ call'[u] = call[u]
            BY <3>1, <3>2
        <3> QED
            BY <1>1, <2>0, <3>2, <3>3, MatchKept DEF All
    <2>6. CASE Exit \/ Crash
        <3>1. \A t \in Thread : at'[t] # "wait"
            BY <2>6 DEF Exit, Crash, Quit
        <3> QED
            BY <1>1, <3>1, NobodyWaitsNext
    <2>7. ~ CleanUp /\ ~ StartTwice
        BY <1>4 DEF CleanUp, StartTwice, RemoveQueues, Faultless
    <2> QED
        BY <1>1, <1>4, <2>1, <2>2, <2>3, <2>4, <2>5, <2>6, <2>7 DEF Next
<1> QED
    BY <1>1, <1>2, <1>3, <1>4

\* The matching in the initial state, and what it says of a thread.
LEMMA InitMatches == Init => Matched /\ OffWhenDown
<1> SUFFICES ASSUME Init PROVE Matched /\ OffWhenDown
    OBVIOUS
<1>1. \A t \in Thread : at[t] # "wait"
    BY DEF Init
<1> QED
    BY <1>1, NobodyWaits DEF Init, OffWhenDown

\* A thread waits with a message on its way to it, however many share its id
\* and whatever became of the server: only a worker that is gone and a removal
\* of the queues lose or take away a message.
THEOREM OnlyEndsLose == Spec => []NothingElseLoses
<1>1. All => NothingElseLoses
    <2> SUFFICES ASSUME All, NEW t \in Thread, Waiting(t), Faultless
                 PROVE  OnItsWay(t)
        BY DEF NothingElseLoses, Faultless
    <2>1. CASE at[t] = "send"
        BY <2>1 DEF OnItsWay, InFlight
    <2>2. CASE at[t] = "wait"
        <3>1. PICK f \in [Waiters -> Moving] : Matches(f)
            BY DEF All, Matched
        <3>2. f[t] \in Moving /\ f[t].id = call[t].id
            BY <2>2, <3>1 DEF Matches, Waiters
        <3>3. DOMAIN tasks = 1 .. Len(tasks) /\ DOMAIN answers = 1 .. Len(answers)
            BY LenProperties, WhoHasOne DEF All, Both
        <3>4. f[t] \in InFlight
            BY <3>2, <3>3 DEF Moving, InFlight, Queued, Range, Holds
        <3> QED
            BY <3>2, <3>4 DEF OnItsWay
    <2> QED
        BY <2>1, <2>2 DEF Waiting
<1>2. Init => All
    BY InitIInv, InitRefines, InitMatches DEF All, Both
<1>3. All /\ [Next]_vars => All'
    BY StepKeeps, StepRefines, StepMatches DEF All, Both
<1> QED
    BY <1>1, <1>2, <1>3, PTL DEF Spec
=============================================================================
