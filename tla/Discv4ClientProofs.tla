------------------------ MODULE Discv4ClientProofs ------------------------
(***************************************************************************)
(* For any endpoints, any number of coroutines and any replies: an entry   *)
(* of pending_replies_ belongs to a coroutine that makes that request now, *)
(* and an endpoint is bonded only by a PING of its own or by a PONG that   *)
(* carried the hash of a PING sent to it.                                  *)
(*                                                                         *)
(* The keys are shared: a coroutine overwrites another's entry and erases  *)
(* whatever is under its key.  What makes this safe is that a coroutine is *)
(* never entered anywhere but under the key of what it does.  For the bond *)
(* the invariant follows the hash of a PING from its coroutine to the      *)
(* reply slot: the PING was sent, and a filled slot means an answer.       *)
(***************************************************************************)
EXTENDS Discv4Client, TLAPS

TaskType ==
    [ep : Endpoints, does : Doing, stage : {"send", "refused", "wait"}, hash : Nat, slot : BOOLEAN, woken : BOOLEAN]

\* The PING of a coroutine was sent, and its slot is filled only by an answer to it.
Proven(r) ==
    RequestOf(r.does) = "ping" => <<r.ep, r.hash>> \in pinged /\ (r.slot => r.ep \in answered)

\* The inductive invariant.
IInv ==
    /\ DOMAIN pending_replies_ = Endpoints \X Requests
    /\ clock \in Nat
    /\ \A t \in Alive : tasks[t] \in TaskType /\ Proven(tasks[t])
    /\ NoDanglingEntries

\* What BondIsProven allows in a step.
Bonded ==
    \A e \in bonded_set_' \ bonded_set_ :
        \/ e \in answered
        \/ \E t \in DOMAIN tasks' \ Alive : tasks'[t].ep = e /\ tasks'[t].does = "start_answer"

\* Before start() there is no coroutine and no entry.
LEMMA InitInv == ClientInit => IInv
<1>1. DOMAIN <<>> = {}
    OBVIOUS
<1> QED
    BY <1>1 DEF ClientInit, IInv, Alive, NoDanglingEntries

\* spawn adds a coroutine that was not there and leaves the others.
LEMMA SpawnAdds ==
    ASSUME NEW e, NEW p, Spawn(e, p)
    PROVE  \E t \in Tasks \ Alive :
              /\ DOMAIN tasks' = Alive \cup {t}
              /\ tasks'[t] = Task(e, p)
              /\ \A u \in Alive : tasks'[u] = tasks[u]
<1> DEFINE new == CHOOSE t \in Free : TRUE
<1>1. new \in Tasks \ Alive
    BY DEF Spawn, Free
<1>2. tasks' = [t \in Alive \cup {new} |-> IF t = new THEN Task(e, p) ELSE tasks[t]]
    BY DEF Spawn
<1> HIDE DEF new
<1> QED
    BY <1>1, <1>2

\* What does not touch the tables: coroutines keep endpoint, request and proof, new ones start.
LEMMA TasksChange ==
    ASSUME IInv,
           UNCHANGED <<pending_replies_, pinged>>, clock' \in Nat, answered \subseteq answered',
           Alive \subseteq DOMAIN tasks',
           \A t \in DOMAIN tasks' : tasks'[t] \in TaskType,
           \A t \in Alive :
              /\ tasks'[t].ep = tasks[t].ep /\ tasks'[t].does = tasks[t].does /\ tasks'[t].hash = tasks[t].hash
              /\ RequestOf(tasks[t].does) = "ping" /\ tasks'[t].slot => tasks[t].slot \/ tasks[t].ep \in answered',
           \A t \in DOMAIN tasks' \ Alive : tasks'[t].does \in Starts
    PROVE  IInv'
<1>1. \A t \in DOMAIN tasks' : Proven(tasks[t])'
    <2> SUFFICES ASSUME NEW t \in DOMAIN tasks' PROVE Proven(tasks[t])'
        OBVIOUS
    <2>1. CASE t \in Alive
        BY <2>1 DEF IInv, Proven
    <2>2. CASE t \notin Alive
        BY <2>2 DEF Proven, RequestOf, Starts
    <2> QED
        BY <2>1, <2>2
<1>2. NoDanglingEntries'
    BY DEF IInv, NoDanglingEntries, Alive
<1> QED
    BY <1>1, <1>2 DEF IInv, Alive

\* A coroutine goes on to a request, to a PONG, or ends.
LEMMA AfterType ==
    ASSUME NEW p \in Doing, NEW e, NEW bonded
    PROVE  After(p, e, bonded) \in {"pong", "bond", "rebond", "enr", "find", "done"}
BY DEF After, EnterFind, EnterEnr, EnterExplore, Doing, Starts

\* Proceed: the coroutine is taken from under its old key and entered under its new one.
LEMMA ProceedKeeps ==
    ASSUME IInv, NEW t \in Alive, NEW bonded, Proceed(t, bonded), UNCHANGED <<clock, answered>>
    PROVE  IInv'
<1> DEFINE e == tasks[t].ep
           p == tasks[t].does
           n == After(p, e, bonded)
           new == [Task(e, n) EXCEPT !.hash = clock, !.stage = Sending]
           erased == Erasing(pending_replies_, e, p)
<1>1. tasks[t] \in TaskType /\ e \in Endpoints /\ p \in Doing
    BY DEF IInv, TaskType
<1>2. n \in {"pong", "bond", "rebond", "enr", "find", "done"}
    BY <1>1, AfterType
<1>3. /\ tasks' = IF n = "done" THEN Without(tasks, t) ELSE [tasks EXCEPT ![t] = new]
      /\ pending_replies_' = Entering(erased, t, e, n)
      /\ pinged' = IF RequestOf(n) = "ping" THEN pinged \cup {<<e, clock>>} ELSE pinged
    BY DEF Proceed
<1>4. clock \in Nat /\ clock' = clock
    BY DEF IInv
<1>5. n # "done" => new \in TaskType /\ new.ep = e /\ new.does = n /\ new.hash = clock /\ new.slot = FALSE
    BY <1>1, <1>2, <1>4 DEF TaskType, Task, Doing, Starts, Sending
<1>6. DOMAIN pending_replies_' = Endpoints \X Requests
    BY <1>3 DEF Entering, Erasing, IInv
<1>7. \A u \in DOMAIN tasks' : (u = t /\ n # "done" /\ tasks'[u] = new) \/ (u # t /\ u \in Alive /\ tasks'[u] = tasks[u])
    BY <1>3 DEF Without, Alive
<1>8. \A u \in Alive : u # t => u \in DOMAIN tasks'
    BY <1>3 DEF Without, Alive
<1>9. n # "done" => t \in DOMAIN tasks' /\ tasks'[t] = new
    BY <1>3 DEF Alive
<1> HIDE DEF new, n
<1>10. \A u \in DOMAIN tasks' : tasks'[u] \in TaskType /\ Proven(tasks[u])'
    <2> SUFFICES ASSUME NEW u \in DOMAIN tasks' PROVE tasks'[u] \in TaskType /\ Proven(tasks[u])'
        OBVIOUS
    <2>1. CASE u = t /\ n # "done" /\ tasks'[u] = new
        BY <1>3, <1>5, <2>1 DEF Proven
    <2>2. CASE u # t /\ u \in Alive /\ tasks'[u] = tasks[u]
        BY <1>3, <2>2 DEF Proven, IInv
    <2> QED
        BY <1>7, <2>1, <2>2
<1>11. NoDanglingEntries'
    <2> SUFFICES ASSUME NEW k \in Endpoints \X Requests, NEW u, u = pending_replies_'[k], u # NoTask
                 PROVE  u \in DOMAIN tasks' /\ tasks'[u].ep = k[1] /\ RequestOf(tasks'[u].does) = k[2]
        BY <1>6 DEF NoDanglingEntries, Alive
    <2>1. CASE n \notin {"pong", "done"} /\ k = <<e, RequestOf(n)>>
        <3>1. u = t
            BY <1>3, <2>1 DEF Entering, Erasing, IInv
        <3> QED
            BY <3>1, <2>1, <1>5, <1>9
    <2>2. CASE ~(n \notin {"pong", "done"} /\ k = <<e, RequestOf(n)>>)
        <3>1. u = erased[k]
            BY <1>3, <2>2 DEF Entering, Erasing, IInv
        <3>2. u = pending_replies_[k] /\ (p \in Starts \cup {"pong"} \/ k # <<e, RequestOf(p)>>)
            BY <3>1 DEF Erasing, IInv
        <3>3. u \in Alive /\ tasks[u].ep = k[1] /\ RequestOf(tasks[u].does) = k[2]
            BY <3>2 DEF IInv, NoDanglingEntries
        <3>4. u # t
            BY <3>2, <3>3 DEF Requests, Starts, RequestOf
        <3> QED
            BY <3>3, <3>4, <1>7, <1>8
    <2> QED
        BY <2>1, <2>2
<1> QED
    BY <1>4, <1>6, <1>10, <1>11 DEF IInv, Alive

\* The steps of a coroutine.
LEMMA TaskStep ==
    ASSUME IInv, NEW t \in Alive,
           TaskStarts(t) \/ SendFails(t) \/ SendDone(t) \/ TimerExpires(t) \/ TaskResumes(t)
    PROVE  IInv' /\ Bonded
<1>0. tasks[t] \in TaskType /\ Proven(tasks[t])
    BY DEF IInv
<1>1. CASE TaskStarts(t)
    BY <1>1, ProceedKeeps DEF TaskStarts, Proceed, Bonded
<1>2. CASE SendFails(t)
    <2>1. CASE tasks[t].does = "pong"
        <3>1. /\ tasks' = Without(tasks, t)
              /\ UNCHANGED <<bonded_set_, pending_replies_, pinged, answered, clock>>
            BY <1>2, <2>1 DEF SendFails
        <3>2. \A k \in DOMAIN pending_replies_ : pending_replies_[k] # NoTask => pending_replies_[k] # t
            BY <2>1 DEF IInv, NoDanglingEntries, Requests, RequestOf
        <3>3. NoDanglingEntries'
            BY <3>1, <3>2 DEF IInv, NoDanglingEntries, Alive, Without
        <3>4. \A u \in DOMAIN tasks' : u \in Alive /\ tasks'[u] = tasks[u]
            BY <3>1 DEF Without, Alive
        <3> QED
            BY <3>1, <3>3, <3>4 DEF IInv, Alive, Proven, Bonded
    <2>2. CASE tasks[t].does # "pong"
        BY <1>2, <2>2, ProceedKeeps DEF SendFails, Proceed, Bonded
    <2> QED
        BY <2>1, <2>2
<1>3. CASE SendDone(t)
    <2>1. CASE tasks[t].does = "pong"
        BY <1>3, <2>1, ProceedKeeps DEF SendDone, Proceed, Bonded
    <2>2. CASE tasks[t].does # "pong"
        <3>1. /\ tasks' = [tasks EXCEPT ![t].stage = "wait"]
              /\ UNCHANGED <<bonded_set_, pending_replies_, pinged, answered, clock>>
            BY <1>3, <2>2 DEF SendDone
        <3>2. /\ DOMAIN tasks' = Alive
              /\ \A u \in Alive : u # t => tasks'[u] = tasks[u]
              /\ tasks'[t] = [tasks[t] EXCEPT !.stage = "wait"]
            BY <3>1 DEF Alive
        <3>3. /\ tasks'[t] \in TaskType
              /\ tasks'[t].ep = tasks[t].ep /\ tasks'[t].does = tasks[t].does
              /\ tasks'[t].hash = tasks[t].hash /\ tasks'[t].slot = tasks[t].slot
            BY <1>0, <3>2 DEF TaskType
        <3>4. IInv'
            BY <3>1, <3>2, <3>3, TasksChange DEF IInv
        <3> QED
            BY <3>1, <3>4 DEF Bonded
    <2> QED
        BY <2>1, <2>2
<1>4. CASE TimerExpires(t)
    <2>1. /\ tasks' = [tasks EXCEPT ![t].woken = TRUE]
          /\ UNCHANGED <<bonded_set_, pending_replies_, pinged, answered, clock>>
        BY <1>4 DEF TimerExpires
    <2>2. /\ DOMAIN tasks' = Alive
          /\ \A u \in Alive : u # t => tasks'[u] = tasks[u]
          /\ tasks'[t] = [tasks[t] EXCEPT !.woken = TRUE]
        BY <2>1 DEF Alive
    <2>3. /\ tasks'[t] \in TaskType
          /\ tasks'[t].ep = tasks[t].ep /\ tasks'[t].does = tasks[t].does
          /\ tasks'[t].hash = tasks[t].hash /\ tasks'[t].slot = tasks[t].slot
        BY <1>0, <2>2 DEF TaskType
    <2>4. IInv'
        BY <2>1, <2>2, <2>3, TasksChange DEF IInv
    <2> QED
        BY <2>1, <2>4 DEF Bonded
<1>5. CASE TaskResumes(t)
    <2>1. IInv'
        BY <1>5, ProceedKeeps DEF TaskResumes
    <2>2. Bonded
        BY <1>0, <1>5 DEF TaskResumes, Proceed, Proven, Bonded
    <2> QED
        BY <2>1, <2>2
<1> QED
    BY <1>1, <1>2, <1>3, <1>4, <1>5

\* A coroutine whose timer is cancelled and whose slot is filled is the same otherwise.
LEMMA CancelledSame ==
    ASSUME NEW t \in Alive, tasks[t] \in TaskType, NEW s \in BOOLEAN
    PROVE  LET c == [Cancelled(t) EXCEPT !.slot = s] IN
           /\ Cancelled(t) \in TaskType
           /\ Cancelled(t).ep = tasks[t].ep /\ Cancelled(t).does = tasks[t].does
           /\ Cancelled(t).hash = tasks[t].hash /\ Cancelled(t).slot = tasks[t].slot
           /\ c \in TaskType
           /\ c.ep = tasks[t].ep /\ c.does = tasks[t].does /\ c.hash = tasks[t].hash /\ c.slot = s
<1>1. /\ Cancelled(t) \in TaskType
      /\ Cancelled(t).ep = tasks[t].ep /\ Cancelled(t).does = tasks[t].does
      /\ Cancelled(t).hash = tasks[t].hash /\ Cancelled(t).slot = tasks[t].slot
    BY DEF Cancelled, TaskType
<1> QED
    BY <1>1 DEF TaskType

\* A spawned coroutine has no entry yet, and those that were there are as they were.
LEMMA SpawnKeeps ==
    ASSUME IInv, NEW e \in Endpoints, NEW p \in Starts, Spawn(e, p),
           UNCHANGED <<pending_replies_, pinged, clock, answered>>
    PROVE  IInv' /\ \E t \in DOMAIN tasks' \ Alive : tasks'[t].ep = e /\ tasks'[t].does = p
<1>1. PICK t \in Tasks \ Alive :
          /\ DOMAIN tasks' = Alive \cup {t}
          /\ tasks'[t] = Task(e, p)
          /\ \A u \in Alive : tasks'[u] = tasks[u]
    BY SpawnAdds
<1>2. Task(e, p) \in TaskType /\ Task(e, p).ep = e /\ Task(e, p).does = p
    BY DEF Task, TaskType, Doing
<1>3. \A u \in DOMAIN tasks' : tasks'[u] \in TaskType
    BY <1>1, <1>2 DEF IInv
<1>4. IInv'
    BY <1>1, <1>2, <1>3, TasksChange DEF IInv
<1> QED
    BY <1>1, <1>2, <1>4

\* The packet handlers.  An entry names a coroutine that is alive and makes that request.
LEMMA HandlerStep ==
    ASSUME IInv, NEW e \in Endpoints, NEW h, NEW ns \in SUBSET Endpoints,
           HandlePing(e) \/ HandlePong(e, h) \/ HandleEnrResponse(e, h) \/ HandleNeighbours(e, ns)
    PROVE  IInv' /\ Bonded
<1>0. \A r \in Requests : pending_replies_[<<e, r>>] # NoTask =>
          LET t == pending_replies_[<<e, r>>] IN t \in Alive /\ tasks[t].ep = e /\ RequestOf(tasks[t].does) = r
    BY DEF IInv, NoDanglingEntries
<1>1. CASE HandlePing(e)
    <2>1. Spawn(e, "start_answer") /\ bonded_set_' = bonded_set_ \cup {e}
          /\ UNCHANGED <<pending_replies_, pinged, clock, answered>>
        BY <1>1 DEF HandlePing
    <2>2. "start_answer" \in Starts
        BY DEF Starts
    <2> QED
        BY <2>1, <2>2, SpawnKeeps DEF Bonded
<1>2. CASE HandlePong(e, h)
    <2> DEFINE t == pending_replies_[<<e, "ping">>]
    <2>1. t \in Alive /\ tasks[t].ep = e /\ RequestOf(tasks[t].does) = "ping" /\ tasks[t].hash = h
        BY <1>0, <1>2 DEF HandlePong, Expected, Requests
    <2>2. PICK filled \in BOOLEAN :
              /\ tasks' = [tasks EXCEPT ![t] = [Cancelled(t) EXCEPT !.slot = filled]]
              /\ answered' = IF filled /\ <<e, h>> \in pinged THEN answered \cup {e} ELSE answered
        BY <1>2 DEF HandlePong
    <2>3. UNCHANGED <<pending_replies_, bonded_set_, clock, pinged>>
        BY <1>2 DEF HandlePong
    <2> HIDE DEF t
    <2>4. tasks[t] \in TaskType /\ <<e, h>> \in pinged
        BY <2>1 DEF IInv, Proven
    <2> DEFINE c == [Cancelled(t) EXCEPT !.slot = filled]
    <2>5. c \in TaskType /\ c.ep = tasks[t].ep /\ c.does = tasks[t].does /\ c.hash = tasks[t].hash /\ c.slot = filled
        BY <2>1, <2>4, CancelledSame
    <2>6. DOMAIN tasks' = Alive /\ tasks'[t] = c /\ \A u \in Alive : u # t => tasks'[u] = tasks[u]
        BY <2>1, <2>2 DEF Alive
    <2>7. answered \subseteq answered' /\ (filled => e \in answered')
        BY <2>2, <2>4
    <2> HIDE DEF c
    <2>8. \A u \in DOMAIN tasks' : tasks'[u] \in TaskType
        BY <2>5, <2>6 DEF IInv
    <2>9. \A u \in Alive :
            /\ tasks'[u].ep = tasks[u].ep /\ tasks'[u].does = tasks[u].does /\ tasks'[u].hash = tasks[u].hash
            /\ RequestOf(tasks[u].does) = "ping" /\ tasks'[u].slot => tasks[u].slot \/ tasks[u].ep \in answered'
        <3> SUFFICES ASSUME NEW u \in Alive
                     PROVE  /\ tasks'[u].ep = tasks[u].ep /\ tasks'[u].does = tasks[u].does /\ tasks'[u].hash = tasks[u].hash
                            /\ tasks'[u].slot => tasks[u].slot \/ tasks[u].ep \in answered'
            OBVIOUS
        <3>1. CASE u = t
            BY <3>1, <2>1, <2>5, <2>6, <2>7
        <3>2. CASE u # t
            BY <3>2, <2>6
        <3> QED
            BY <3>1, <3>2
    <2>10. IInv'
        BY <2>3, <2>6, <2>7, <2>8, <2>9, TasksChange DEF IInv
    <2> QED
        BY <2>3, <2>10 DEF Bonded
<1>3. CASE HandleEnrResponse(e, h)
    <2> DEFINE t == pending_replies_[<<e, "enr">>]
    <2>1. t \in Alive /\ tasks[t].ep = e /\ RequestOf(tasks[t].does) = "enr"
        BY <1>0, <1>3 DEF HandleEnrResponse, Requests
    <2>2. /\ tasks' = [tasks EXCEPT ![t] = [Cancelled(t) EXCEPT !.slot = TRUE]]
          /\ UNCHANGED <<pending_replies_, bonded_set_, clock, pinged, answered>>
        BY <1>3 DEF HandleEnrResponse
    <2> HIDE DEF t
    <2>3. tasks[t] \in TaskType
        BY <2>1 DEF IInv
    <2> DEFINE c == [Cancelled(t) EXCEPT !.slot = TRUE]
    <2>4. c \in TaskType /\ c.ep = tasks[t].ep /\ c.does = tasks[t].does /\ c.hash = tasks[t].hash
        BY <2>1, <2>3, CancelledSame
    <2>5. DOMAIN tasks' = Alive /\ tasks'[t] = c /\ \A u \in Alive : u # t => tasks'[u] = tasks[u]
        BY <2>1, <2>2 DEF Alive
    <2> HIDE DEF c
    <2>6. \A u \in DOMAIN tasks' : tasks'[u] \in TaskType
        BY <2>4, <2>5 DEF IInv
    <2>7. IInv'
        BY <2>1, <2>2, <2>4, <2>5, <2>6, TasksChange DEF IInv
    <2> QED
        BY <2>2, <2>7 DEF Bonded
<1>4. CASE HandleNeighbours(e, ns)
    <2> DEFINE t == pending_replies_[<<e, "find">>]
               new == IF running_ THEN ns \ discovered_set_ ELSE {}
               f == CHOOSE g \in [new -> Free] : IsInjective(g)
               From(u) == CHOOSE x \in new : f[x] = u
    <2>1. t \in Alive
        BY <1>0, <1>4 DEF HandleNeighbours, Requests
    <2>2. /\ tasks' = [u \in Alive \cup {f[x] : x \in new} |->
                          IF u = t THEN Cancelled(t) ELSE IF u \in Alive THEN tasks[u] ELSE Task(From(u), "start_explore")]
          /\ UNCHANGED <<pending_replies_, bonded_set_, clock, pinged, answered>>
        BY <1>4 DEF HandleNeighbours
    <2>3. new \subseteq Endpoints
        OBVIOUS
    <2> HIDE DEF t, f, new
    <2>4. \A u \in {f[x] : x \in new} : From(u) \in Endpoints
        BY <2>3
    <2> HIDE DEF From
    <2>5. \A u \in {f[x] : x \in new} : Task(From(u), "start_explore") \in TaskType /\ Task(From(u), "start_explore").does \in Starts
        BY <2>4 DEF Task, TaskType, Doing, Starts
    <2>6. /\ Cancelled(t) \in TaskType
          /\ Cancelled(t).ep = tasks[t].ep /\ Cancelled(t).does = tasks[t].does
          /\ Cancelled(t).hash = tasks[t].hash /\ Cancelled(t).slot = tasks[t].slot
        BY <2>1, CancelledSame DEF IInv
    <2>7. /\ Alive \subseteq DOMAIN tasks'
          /\ \A u \in DOMAIN tasks' : tasks'[u] \in TaskType
          /\ \A u \in DOMAIN tasks' \ Alive : tasks'[u].does \in Starts
        BY <2>1, <2>2, <2>5, <2>6 DEF IInv
    <2>8. \A u \in Alive :
            /\ tasks'[u].ep = tasks[u].ep /\ tasks'[u].does = tasks[u].does /\ tasks'[u].hash = tasks[u].hash
            /\ tasks'[u].slot = tasks[u].slot
        BY <2>2, <2>6
    <2>9. IInv'
        BY <2>2, <2>7, <2>8, TasksChange DEF IInv
    <2> QED
        BY <2>2, <2>9 DEF Bonded
<1> QED
    BY <1>1, <1>2, <1>3, <1>4

\* The application's calls and the clock; stop() leaves no entry.
LEMMA ApplicationStep ==
    ASSUME IInv, Start \/ Stop \/ (\E e \in Endpoints : FindNode(e)) \/ Tick
    PROVE  IInv' /\ Bonded
<1>1. CASE Start
    BY <1>1 DEF Start, IInv, NoDanglingEntries, Proven, Alive, Bonded
<1>2. CASE Stop
    <2>1. /\ pending_replies_' = [k \in DOMAIN pending_replies_ |-> NoTask]
          /\ tasks' = [t \in Alive |-> IF \E k \in DOMAIN pending_replies_ : pending_replies_[k] = t
                                      THEN Cancelled(t) ELSE tasks[t]]
          /\ UNCHANGED <<bonded_set_, clock, pinged, answered>>
        BY <1>2 DEF Stop
    <2>2. \A t \in Alive :
            /\ tasks'[t] \in TaskType
            /\ tasks'[t].ep = tasks[t].ep /\ tasks'[t].does = tasks[t].does
            /\ tasks'[t].hash = tasks[t].hash /\ tasks'[t].slot = tasks[t].slot
        BY <2>1, CancelledSame DEF IInv
    <2>3. \A t \in DOMAIN tasks' : tasks'[t] \in TaskType /\ Proven(tasks[t])'
        BY <2>1, <2>2 DEF IInv, Proven
    <2>4. NoDanglingEntries' /\ DOMAIN pending_replies_' = Endpoints \X Requests
        BY <2>1 DEF NoDanglingEntries, IInv
    <2> QED
        BY <2>1, <2>3, <2>4 DEF IInv, Alive, Bonded
<1>3. CASE \E e \in Endpoints : FindNode(e)
    <2>1. PICK e \in Endpoints : FindNode(e)
        BY <1>3
    <2>2. "start_find" \in Starts
        BY DEF Starts
    <2> QED
        BY <2>1, <2>2, SpawnKeeps DEF FindNode, Bonded
<1>4. CASE Tick
    BY <1>4 DEF Tick, IInv, NoDanglingEntries, Proven, Alive, Bonded
<1> QED
    BY <1>1, <1>2, <1>3, <1>4

\* Every step keeps the invariant, and bonds only as BondIsProven allows.
LEMMA NextStep ==
    ASSUME IInv, [ClientNext]_clientVars
    PROVE  IInv' /\ [Bonded]_clientVars
<1>1. CASE UNCHANGED clientVars
    BY <1>1 DEF clientVars, IInv, NoDanglingEntries, Proven, Alive
<1>2. CASE \E t \in Alive : TaskStarts(t) \/ SendFails(t) \/ SendDone(t) \/ TimerExpires(t) \/ TaskResumes(t)
    BY <1>2, TaskStep
<1>3. CASE \E e \in Endpoints, h \in 0 .. MaxClock, ns \in SUBSET Endpoints :
              HandlePing(e) \/ HandlePong(e, h) \/ HandleEnrResponse(e, h) \/ HandleNeighbours(e, ns)
    BY <1>3, HandlerStep
<1>4. CASE \E e \in Endpoints : HandlePing(e)
    BY <1>4, HandlerStep
<1>5. CASE \E e \in Endpoints, ns \in SUBSET Endpoints : HandleNeighbours(e, ns)
    BY <1>5, HandlerStep
<1>6. CASE Start \/ Stop \/ (\E e \in Endpoints : FindNode(e)) \/ Tick
    BY <1>6, ApplicationStep
<1> QED
    BY <1>1, <1>2, <1>3, <1>4, <1>5, <1>6 DEF ClientNext

\* No entry of pending_replies_ outlives the request it was made for: every way out of
\* ensure_bond, request_enr and find_node erases its key, and stop() erases them all.
THEOREM EntriesAreLive == ClientSafety => []NoDanglingEntries
<1>1. ClientInit => IInv
    BY InitInv
<1>2. IInv /\ [ClientNext]_clientVars => IInv'
    BY NextStep
<1>3. IInv => NoDanglingEntries
    BY DEF IInv
<1> QED
    BY <1>1, <1>2, <1>3, PTL DEF ClientSafety

\* bonded_set_ grows only by the sender of a PING (handle_ping) or by an endpoint whose PONG
\* carried the hash of a PING sent to it (handle_pong, ensure_bond).
THEOREM BondsAreProven == ClientSafety => BondIsProven
<1>1. ClientInit => IInv
    BY InitInv
<1>2. IInv /\ [ClientNext]_clientVars => IInv'
    BY NextStep
<1>3. IInv /\ [ClientNext]_clientVars => [Bonded]_clientVars
    BY NextStep
<1> QED
    BY <1>1, <1>2, <1>3, PTL DEF ClientSafety, BondIsProven, Bonded

=============================================================================
