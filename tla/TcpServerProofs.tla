--------------------------- MODULE TcpServerProofs ---------------------------
(***************************************************************************)
(* Theorems about TcpServer with its pool and its acceptor, for any number *)
(* of threads and connections and any limit on descriptors.  Inv holds     *)
(* whatever the program does.  QuietInv adds the life of a connection from *)
(* hand-over to hand-over, for programs that do not destroy a server with  *)
(* a pool while connections are left.                                      *)
(***************************************************************************)
EXTENDS TcpServer, SequenceTheorems, FiniteSetTheorems, TLAPS

T == 1..MaxThreads
Ops == {"connectEstablished", "connectDestroyed", "removeConnectionInLoop"}
Tasks == [op : Ops, conn : Conn]

\* The functors of loop l that have not run yet.
Size(l) == Len(queue[l]) - ran[l]
Todo(l, i) == queue[l][ran[l] + i]

\* A batch is a part of the queue, and none of it is left outside "run".
Batches ==
    /\ ran \in [Loop -> Nat]
    /\ \A l \in Loop :
          IF phase[l] = "run" THEN ran[l] < batch[l] /\ batch[l] <= Len(queue[l])
                              ELSE ran[l] = 0 /\ batch[l] = 0

\* The owner thread is in start(); it has called quit() on loop t.
Building == owner \in {"spawn", "wait", "asleep", "push"}
Told(t) ==
    \/ owner = "done"
    \/ owner = "quit" /\ t < cur
    \/ owner \in {"wakeup", "join"} /\ t <= cur

\* Where the owner thread is in its loops over the threads.
OwnerInv ==
    /\ owner \in {"setup", "deal"} => cur = 1
    /\ Building \/ owner \in {"quit", "wakeup", "join"} => cur <= numThreads
    /\ owner = "setup" => next = 0 /\ numThreads \in {0, program.threads}
    /\ owner # "setup" => numThreads = program.threads
    /\ \A i \in DOMAIN loops : loops[i] = i
    /\ Len(loops) = IF owner = "setup" THEN 0 ELSE IF Building THEN cur - 1 ELSE numThreads

\* What the step of a thread says of its loop.
ThreadInv(t) ==
    /\ loop[t] <=> thread[t] \in {"enter", "test", "poll", "leave"}
    /\ alive[t] <=> thread[t] \in {"publish", "enter", "test", "poll", "leave", "unwind"}
    /\ quit[t] \/ thread[t] \in {"leave", "unwind", "done"} => Told(t)
    /\ thread[t] # "none" =>
          /\ owner # "setup" /\ t <= numThreads
          /\ Building => t <= cur
          /\ owner = "spawn" => t < cur
    /\ (\/ owner \notin {"setup"} /\ ~Building /\ t <= numThreads
        \/ Building /\ t < cur
        \/ owner = "push" /\ t = cur) =>
             thread[t] \notin {"none", "construct", "publish"}

\* Which threads and which step of the server go with the phase of a loop.
Phases ==
    /\ \A t \in T : phase[t] # "poll" => thread[t] = "test" /\ phase[t] # "accept"
    /\ phase[0] # "poll" => (owner = "deal" /\ listening) \/ (owner = "done" /\ ~listening)
    /\ phase[0] = "accept" => listening
    /\ shed # "no" => phase[0] = "accept"
    /\ shed = "accept" => backlog > 0
    /\ listening => owner # "setup" /\ ~Building

\* Connections are numbered in the order in which they arrive.
Numbers ==
    /\ nextConnId + backlog <= arrived + 1 /\ arrived <= program.arrivals
    /\ \A c \in connections : c < nextConnId
    /\ \A c \in Conn : home[c] <= numThreads
    /\ \A l \in Loop : \A i \in DOMAIN queue[l] :
          LET f == queue[l][i] IN
          /\ f.conn < nextConnId
          /\ l = IF f.op = "removeConnectionInLoop" THEN 0 ELSE home[f.conn]
          /\ f.op # "connectDestroyed" => home[f.conn] > 0

\* A channel that the poller knows belongs to a connection that is in the map
\* or has its connectDestroyed ahead, unless its loop is gone.
Destined(c) ==
    \/ c \in connections
    \/ \E i \in 1..Size(home[c]) : Todo(home[c], i) = Task("connectDestroyed", c)
Held ==
    /\ \A c \in Conn : channel[c] = "reading" =>
          Destined(c) \/ (home[c] > 0 /\ thread[home[c]] = "done")
    /\ \A l \in Loop : \A i \in 1..Size(l) :
          Todo(l, i).op = "connectEstablished" =>
              \/ Todo(l, i).conn \in connections
              \/ \E j \in 1..Size(l) : j > i /\ Todo(l, j) = Task("connectDestroyed", Todo(l, i).conn)

\* The descriptors in use, without idleFd_ and with it.
AliveSet == {c \in Conn : Alive(c)}
Others == Cardinality(AliveSet) + others
Used == (IF idleFd THEN 1 ELSE 0) + Cardinality(AliveSet) + others

\* While idleFd_ is given up, its place is kept unless another thread took it.
Descriptors ==
    /\ Used <= program.descriptors
    /\ shed = "open" => ~idleFd
    /\ program.idleOpens /\ ~stolen =>
          /\ shed = "no" /\ (listening \/ owner # "done") => idleFd
          /\ shed # "no" => Others < program.descriptors

\* The inductive invariant for every program.
Inv ==
    /\ TypeOK /\ Batches /\ OwnerInv /\ (\A t \in T : ThreadInv(t)) /\ Phases
    /\ Numbers /\ Held /\ Descriptors

\* The programs that do not destroy a busy server that has a pool.
AllQuiet == \A p \in Programs : p.teardown # "any"

\* A functor that has not run yet finds the connection as it needs it.
Expected(l, i) ==
    LET c == Todo(l, i).conn IN
    CASE Todo(l, i).op = "connectEstablished" ->
           c \in connections /\ state[c] = "KConnecting" /\ channel[c] = "new"
      [] Todo(l, i).op = "removeConnectionInLoop" ->
           c \in connections /\ state[c] = "KDisconnected" /\ channel[c] = "off"
      [] Todo(l, i).op = "connectDestroyed" ->
           c \notin connections /\ state[c] = "KDisconnected" /\ channel[c] = "off"

\* A connection is up, or not there, or waits for one functor.
Settled(c) ==
    \/ c \in connections /\ state[c] = "KConnected" /\ channel[c] = "reading"
    \/ c \notin connections /\ state[c] = "KDisconnected" /\ channel[c] = "new"
Awaited(c) == \E l \in Loop : \E i \in 1..Size(l) : Todo(l, i).conn = c

Life ==
    /\ \A l \in Loop : \A i \in 1..Size(l) : Expected(l, i)
    /\ \A l \in Loop : \A i, j \in 1..Size(l) : Todo(l, i).conn = Todo(l, j).conn => i = j
    /\ \A c \in Conn : Settled(c) \/ Awaited(c)

\* What is left of the server when the pool is torn down.
Teardown ==
    /\ connections # {} => owner = "deal"
    /\ \A c \in Conn : Alive(c) => owner = "deal" \/ (owner = "done" /\ numThreads = 0)

\* The inductive invariant for quiet programs.
QuietInv == Inv /\ fault \in {"none", "abort"} /\ Life /\ Teardown
-----------------------------------------------------------------------------
(* Types, queues and descriptors.                                          *)

\* The types of the pool's and the acceptor's variables.
LEMMA PoolTypes ==
    ASSUME TypeOK
    PROVE  /\ MaxThreads \in Nat /\ MaxConns \in Nat
           /\ program.threads \in 0..MaxThreads /\ program.arrivals \in 0..MaxConns
           /\ program.descriptors \in Nat \ {0} /\ program.others \in Nat
           /\ owner \in {"setup", "spawn", "wait", "asleep", "push", "deal", "quit", "wakeup",
                         "join", "done"}
           /\ numThreads \in 0..MaxThreads /\ cur \in 1..(MaxThreads + 1)
           /\ loops \in Seq(T) /\ next \in Nat /\ (numThreads > 0 => next < numThreads)
           /\ thread \in [T -> {"none", "construct", "publish", "enter", "test", "poll",
                                "leave", "unwind", "done"}]
           /\ loop \in [T -> BOOLEAN] /\ alive \in [T -> BOOLEAN]
           /\ quit \in [T -> BOOLEAN] /\ wakeup \in [T -> BOOLEAN]
           /\ failed \in {"none", "null", "dangling"}
           /\ listening \in BOOLEAN /\ idleFd \in BOOLEAN /\ backlog \in Nat
           /\ shed \in {"no", "accept", "close", "open"}
BY ProgramsAssumption DEF TypeOK, Pool!TypeOK, Acc!TypeOK, Pool!T, T

\* Loops and threads.
LEMMA LoopFacts == /\ 0 \in Loop /\ T \subseteq Loop /\ \A l \in Loop : l = 0 \/ l \in T
                   /\ \A t \in T : t \in Nat /\ t > 0
BY ProgramsAssumption DEF Loop, T

\* The queues are sequences of tasks.
LEMMA QueueFacts ==
    ASSUME TypeOK, Batches, NEW l \in Loop
    PROVE  /\ queue \in [Loop -> Seq(Tasks)] /\ queue[l] \in Seq(Tasks)
           /\ Len(queue[l]) \in Nat /\ DOMAIN queue[l] = 1..Len(queue[l])
           /\ \A i \in 1..Len(queue[l]) : queue[l][i] \in Tasks
           /\ batch[l] \in Nat /\ ran[l] \in Nat /\ ran[l] <= Len(queue[l]) /\ Size(l) \in Nat
           /\ \A i \in 1..Size(l) : ran[l] + i \in DOMAIN queue[l] /\ Todo(l, i) \in Tasks
<1>1. queue \in [Loop -> Seq(Tasks)] /\ queue[l] \in Seq(Tasks) /\ batch[l] \in Nat
  BY DEF TypeOK, Tasks, Ops
<1>2. /\ Len(queue[l]) \in Nat /\ DOMAIN queue[l] = 1..Len(queue[l])
      /\ \A i \in 1..Len(queue[l]) : queue[l][i] \in Tasks
  BY <1>1, LenProperties, ElementOfSeq
<1>3. ran[l] \in Nat /\ ran[l] <= Len(queue[l])
  BY <1>1, <1>2 DEF Batches
<1>4. Size(l) \in Nat
  BY <1>2, <1>3 DEF Size
<1>5. \A i \in 1..Size(l) : ran[l] + i \in DOMAIN queue[l] /\ Todo(l, i) \in Tasks
  BY <1>2, <1>3 DEF Size, Todo
<1> QED BY <1>1, <1>2, <1>3, <1>4, <1>5

\* A task is its operation and its connection.
LEMMA TaskFacts ==
    ASSUME NEW f \in Tasks
    PROVE  f.op \in Ops /\ f.conn \in Conn /\ f = Task(f.op, f.conn)
BY DEF Tasks, Task

LEMMA TaskType ==
    ASSUME NEW op \in Ops, NEW c \in Conn
    PROVE  Task(op, c) \in Tasks /\ Task(op, c).op = op /\ Task(op, c).conn = c
BY DEF Tasks, Task

\* How many descriptors are in use and free.
LEMMA UsedFacts ==
    ASSUME TypeOK
    PROVE  /\ IsFiniteSet(AliveSet) /\ Cardinality(AliveSet) \in Nat /\ others \in Nat
           /\ Used \in Nat /\ Others \in Nat
           /\ Used = IF idleFd THEN Others + 1 ELSE Others
           /\ Free \in Nat /\ (Free > 0 <=> Used < program.descriptors)
<1>1. IsFiniteSet(Conn)
  BY ProgramsAssumption, FS_Interval DEF Conn
<1>2. IsFiniteSet(AliveSet) /\ Cardinality(AliveSet) \in Nat
  BY <1>1, FS_Subset, FS_CardinalityType DEF AliveSet
<1>3. others \in Nat /\ idleFd \in BOOLEAN /\ program.descriptors \in Nat
  BY PoolTypes DEF TypeOK
<1>4. Others \in Nat /\ Others = Cardinality(AliveSet) + others
  BY <1>2, <1>3 DEF Others
<1>5. Used = IF idleFd THEN Others + 1 ELSE Others
  BY <1>2, <1>3, <1>4 DEF Used
<1>6. Free = IF program.descriptors > Used THEN program.descriptors - Used ELSE 0
  BY DEF Free, Used, AliveSet
<1>7. Used \in Nat
  BY <1>4, <1>5
<1> QED BY <1>2, <1>3, <1>4, <1>5, <1>6, <1>7

\* Fewer connections need no more descriptors.
LEMMA AliveShrinks ==
    ASSUME TypeOK, AliveSet' \subseteq AliveSet, others' = others
    PROVE  /\ Others' \in Nat /\ Others' <= Others
           /\ Used' = IF idleFd' THEN Others' + 1 ELSE Others'
<1>1. IsFiniteSet(AliveSet) /\ Cardinality(AliveSet) \in Nat /\ others \in Nat
  BY UsedFacts
<1>2. /\ IsFiniteSet(AliveSet') /\ Cardinality(AliveSet') <= Cardinality(AliveSet)
  BY <1>1, FS_Subset
<1>3. Cardinality(AliveSet') \in Nat
  BY <1>2, FS_CardinalityType
<1>4. Others' \in Nat /\ Others' <= Others
  BY <1>1, <1>2, <1>3 DEF Others
<1>5. Used' = IF idleFd' THEN Others' + 1 ELSE Others'
  BY <1>1, <1>3 DEF Used, Others
<1> QED BY <1>4, <1>5

LEMMA DescriptorsKept ==
    ASSUME Inv, TypeOK', AliveSet' \subseteq AliveSet,
           UNCHANGED <<program, idleFd, shed, others, stolen>>,
           listening' \/ owner' # "done" => listening \/ owner # "done"
    PROVE  Descriptors'
<1>1. Others' \in Nat /\ Others' <= Others /\ Others \in Nat
  BY AliveShrinks, UsedFacts DEF Inv
<1>2. Used' = IF idleFd THEN Others' + 1 ELSE Others'
  BY AliveShrinks DEF Inv
<1>3. Used = IF idleFd THEN Others + 1 ELSE Others
  BY UsedFacts DEF Inv
<1>4. program.descriptors \in Nat
  BY PoolTypes DEF Inv
<1>5. Used' <= program.descriptors
  BY <1>1, <1>2, <1>3, <1>4 DEF Inv, Descriptors
<1>6. Others < program.descriptors => Others' < program.descriptors
  BY <1>1, <1>4
<1> QED BY <1>5, <1>6 DEF Inv, Descriptors

\* Steps that leave the connections and their functors alone.
LEMMA ConnsKept ==
    ASSUME Inv, UNCHANGED <<queue, ran, connections, channel, home>>,
           \A t \in T : thread[t] = "done" => thread'[t] = "done"
    PROVE  Held' /\ AliveSet' = AliveSet
<1>1. \A l, i : Todo(l, i)' = Todo(l, i) /\ Size(l)' = Size(l)
  BY DEF Todo, Size
<1>2. AliveSet' = AliveSet
  BY DEF AliveSet, Alive
<1>3. \A c : Destined(c)' <=> Destined(c)
  BY <1>1 DEF Destined
<1>4. \A c \in Conn : home[c] > 0 => home[c] \in T
  BY LoopFacts DEF Inv, TypeOK
<1>5. \A c \in Conn : channel'[c] = "reading" =>
          Destined(c)' \/ (home'[c] > 0 /\ thread'[home'[c]] = "done")
  BY <1>3, <1>4 DEF Inv, Held
<1>6. \A l \in Loop : \A i \in 1..Size(l)' :
          Todo(l, i)'.op = "connectEstablished" =>
              \/ Todo(l, i)'.conn \in connections'
              \/ \E j \in 1..Size(l)' : j > i /\ Todo(l, j)' = Task("connectDestroyed", Todo(l, i)'.conn)
  BY <1>1 DEF Inv, Held
<1> QED BY <1>2, <1>5, <1>6 DEF Held
-----------------------------------------------------------------------------
(* The pool: what its steps keep.                                          *)

PoolInv == Pool!TypeOK /\ OwnerInv /\ \A t \in T : ThreadInv(t)

\* setThreadNum() and the beginning of start().
LEMMA StartPool ==
    ASSUME Inv, program' = program,
           \/ numThreads # program.threads /\ Pool!SetThreadNum(program.threads)
           \/ numThreads = program.threads /\ Pool!Start
    PROVE  PoolInv'
<1>1. /\ owner = "setup" /\ numThreads' = program.threads
      /\ owner' \in {"setup", "deal", "spawn"}
      /\ owner' = "spawn" => numThreads' > 0
      /\ owner' = "deal" => numThreads' = 0
      /\ UNCHANGED <<cur, thread, loop, alive, quit, wakeup, loops, next, failed>>
  <2>1. CASE Pool!SetThreadNum(program.threads)
    BY <2>1 DEF Pool!SetThreadNum, Pool!At, Pool!loopVars
  <2>2. CASE numThreads = program.threads /\ Pool!Start
    BY <2>2, PoolTypes DEF Inv, Pool!Start, Pool!At, Pool!loopVars, Pool!poolVars
  <2> QED BY <2>1, <2>2
<1>2. /\ program.threads \in 0..MaxThreads /\ MaxThreads \in Nat
      /\ cur = 1 /\ next = 0 /\ Len(loops) = 0 /\ \A i \in DOMAIN loops : loops[i] = i
  BY <1>1, PoolTypes DEF Inv, OwnerInv, Building
<1>3. Pool!TypeOK'
  BY <1>1, <1>2, PoolTypes DEF Inv, TypeOK, Pool!TypeOK
<1>4. OwnerInv'
  BY <1>1, <1>2 DEF OwnerInv, Building
<1>5. \A t \in T : ThreadInv(t)'
  <2> SUFFICES ASSUME NEW t \in T PROVE ThreadInv(t)'
    OBVIOUS
  <2>1. thread[t] = "none"
    BY <1>1 DEF Inv, ThreadInv
  <2>2. ~Told(t) /\ ~quit[t]
    BY <1>1 DEF Inv, ThreadInv, Told
  <2>3. t \in Nat /\ t > 0
    BY LoopFacts
  <2>4. ~(owner' # "setup" /\ ~Building' /\ t <= numThreads')
    BY <1>1, <2>3 DEF Building
  <2> QED BY <1>1, <1>2, <2>1, <2>2, <2>3, <2>4 DEF Inv, ThreadInv, Told, Building
<1> QED BY <1>3, <1>4, <1>5 DEF PoolInv

\* The steps of start().
LEMMA BuildPool ==
    ASSUME Inv, program' = program, Pool!Spawn \/ Pool!Wait \/ Pool!PushLoop
    PROVE  PoolInv' /\ Building /\ \A t \in T : thread[t] # "none" => thread'[t] = thread[t]
<1>1. /\ Building /\ cur \in T /\ cur <= numThreads /\ numThreads \in 1..MaxThreads /\ MaxThreads \in Nat
      /\ cur \in Nat /\ numThreads \in Nat
      /\ owner # "setup" /\ numThreads = program.threads
      /\ Len(loops) = cur - 1 /\ \A i \in DOMAIN loops : loops[i] = i
  <2>1. Building
    BY DEF Pool!Spawn, Pool!Wait, Pool!PushLoop, Pool!At, Building
  <2>2. cur <= numThreads /\ owner # "setup"
    BY <2>1 DEF Inv, OwnerInv, Building
  <2>3. numThreads = program.threads /\ Len(loops) = cur - 1 /\ \A i \in DOMAIN loops : loops[i] = i
    BY <2>1, <2>2 DEF Inv, OwnerInv
  <2> QED BY <2>1, <2>2, <2>3, PoolTypes DEF Inv, T
<1>2. \A t \in T : ~quit[t] /\ thread[t] \notin {"leave", "unwind", "done"}
  BY <1>1 DEF Inv, ThreadInv, Told, Building
<1>3. CASE Pool!Spawn
  <2>1. /\ owner = "spawn" /\ owner' = "wait" /\ thread' = [thread EXCEPT ![cur] = "construct"]
        /\ UNCHANGED <<cur, loop, alive, quit, wakeup, numThreads, loops, next, failed>>
    BY <1>3 DEF Pool!Spawn, Pool!At, Pool!poolVars
  <2>2. thread[cur] = "none"
    BY <1>1, <2>1 DEF Inv, ThreadInv
  <2>3. Pool!TypeOK'
    BY <1>1, <2>1, PoolTypes DEF Inv, TypeOK, Pool!TypeOK, Pool!T, T
  <2>4. OwnerInv'
    BY <1>1, <2>1 DEF OwnerInv, Building
  <2>5. \A t \in T : ThreadInv(t)'
    <3> SUFFICES ASSUME NEW t \in T PROVE ThreadInv(t)'
      OBVIOUS
    <3>1. CASE t = cur
      <4>1. thread'[t] = "construct" /\ ~loop[t] /\ ~alive[t]
        BY <3>1, <1>1, <2>1, <2>2, PoolTypes DEF Inv, ThreadInv
      <4>2. t <= numThreads /\ t <= cur /\ ~(t < cur)
        BY <3>1, <1>1
      <4> QED BY <4>1, <4>2, <1>2, <2>1 DEF ThreadInv, Told, Building
    <3>2. CASE t # cur
      <4>1. thread'[t] = thread[t]
        BY <3>2, <1>1, <2>1, PoolTypes DEF Inv
      <4> QED BY <3>2, <4>1, <1>1, <1>2, <2>1 DEF Inv, ThreadInv, Told, Building
    <3> QED BY <3>1, <3>2
  <2>6. \A t \in T : thread[t] # "none" => thread'[t] = thread[t]
    BY <2>1, <2>2, PoolTypes DEF Inv
  <2> QED BY <1>1, <2>3, <2>4, <2>5, <2>6 DEF PoolInv
<1>4. CASE Pool!Wait
  <2>1. /\ owner = "wait" /\ owner' = IF loop[cur] THEN "push" ELSE "asleep"
        /\ UNCHANGED <<cur, thread, loop, alive, quit, wakeup, numThreads, loops, next, failed>>
    BY <1>4 DEF Pool!Wait, Pool!At, Pool!poolVars, Pool!loopVars
  <2>2. owner' \in {"push", "asleep"} /\ (owner' = "push" => loop[cur])
    BY <2>1
  <2>3. Pool!TypeOK'
    BY <2>1, <2>2 DEF Inv, TypeOK, Pool!TypeOK
  <2>4. OwnerInv'
    BY <1>1, <2>1, <2>2 DEF OwnerInv, Building
  <2>5. \A t \in T : ThreadInv(t)'
    <3> SUFFICES ASSUME NEW t \in T PROVE ThreadInv(t)'
      OBVIOUS
    <3>1. owner' = "push" /\ t = cur => thread[t] \notin {"none", "construct", "publish"}
      BY <2>2 DEF Inv, ThreadInv
    <3> QED BY <3>1, <1>1, <1>2, <2>1, <2>2 DEF Inv, ThreadInv, Told, Building
  <2> QED BY <1>1, <2>1, <2>3, <2>4, <2>5 DEF PoolInv
<1>5. CASE Pool!PushLoop
  <2>1. /\ owner = "push" /\ loops' = Append(loops, cur)
        /\ owner' = IF cur = numThreads THEN "deal" ELSE "spawn"
        /\ cur' = IF cur = numThreads THEN 1 ELSE cur + 1
        /\ UNCHANGED <<thread, loop, alive, quit, wakeup, numThreads, next, failed>>
    BY <1>5 DEF Pool!PushLoop, Pool!At, Pool!loopVars
  <2>2. loops \in Seq(T) /\ DOMAIN loops = 1..Len(loops)
    BY PoolTypes, LenProperties DEF Inv
  <2>3. /\ loops' \in Seq(T) /\ Len(loops') = cur /\ DOMAIN loops' = 1..cur
        /\ \A i \in DOMAIN loops' : loops'[i] = i
    <3>1. /\ loops' \in Seq(T) /\ Len(loops') = Len(loops) + 1
          /\ \A i \in 1..Len(loops) : loops'[i] = loops[i]
          /\ loops'[Len(loops) + 1] = cur
      BY <1>1, <2>1, <2>2, AppendProperties
    <3>2. DOMAIN loops' = 1..Len(loops')
      BY <3>1, LenProperties
    <3>3. Len(loops) + 1 = cur
      BY <1>1
    <3> QED BY <1>1, <2>2, <3>1, <3>2, <3>3
  <2>4. \/ cur = numThreads /\ owner' = "deal" /\ cur' = 1
        \/ cur < numThreads /\ owner' = "spawn" /\ cur' = cur + 1
    BY <1>1, <2>1
  <2>5. Pool!TypeOK'
    <3>1. cur' \in 1..(MaxThreads + 1) /\ owner' \in {"deal", "spawn"}
      BY <1>1, <2>4
    <3> QED BY <2>1, <2>3, <3>1 DEF Inv, TypeOK, Pool!TypeOK, Pool!T, T
  <2>6. OwnerInv'
    <3>1. cur' \in Nat /\ cur' <= numThreads /\ (owner' = "deal" => cur' = 1)
      BY <1>1, <2>4
    <3>2. Len(loops') = IF owner' = "spawn" THEN cur' - 1 ELSE numThreads
      BY <1>1, <2>3, <2>4
    <3>3. owner' \in {"deal", "spawn"}
      BY <2>4
    <3> QED BY <1>1, <2>1, <2>3, <3>1, <3>2, <3>3 DEF OwnerInv, Building
  <2>7. \A t \in T : ThreadInv(t)'
    <3> SUFFICES ASSUME NEW t \in T PROVE ThreadInv(t)'
      OBVIOUS
    <3>1. t \in Nat
      BY LoopFacts
    <3>2. thread[t] # "none" => t <= cur /\ t <= numThreads
      BY <1>1, <2>1 DEF Inv, ThreadInv
    <3>3. t <= cur => thread[t] \notin {"none", "construct", "publish"}
      BY <1>1, <2>1, <3>1 DEF Inv, ThreadInv
    <3>4. owner' \in {"deal", "spawn"} /\ (owner' = "spawn" => cur' = cur + 1)
          /\ (owner' = "deal" => cur = numThreads)
      BY <2>4
    <3>5. /\ owner' = "deal" /\ t <= numThreads => t <= cur
          /\ owner' = "spawn" /\ t < cur' => t <= cur
          /\ owner' = "spawn" /\ t <= cur => t <= cur' /\ t < cur'
      BY <1>1, <3>1, <3>4
    <3>6. /\ loop'[t] <=> thread'[t] \in {"enter", "test", "poll", "leave"}
          /\ alive'[t] <=> thread'[t] \in {"publish", "enter", "test", "poll", "leave", "unwind"}
      BY <2>1 DEF Inv, ThreadInv
    <3> QED BY <1>2, <2>1, <3>2, <3>3, <3>4, <3>5, <3>6 DEF ThreadInv, Told, Building
  <2> QED BY <1>1, <2>1, <2>5, <2>6, <2>7 DEF PoolInv
<1> QED BY <1>3, <1>4, <1>5

\* The destructor of the pool: every loop is told to quit, then joined.
LEMMA QuitPool ==
    ASSUME Inv, program' = program,
           \/ Pool!Destroy /\ wakeup' \in [T -> BOOLEAN]
           \/ Pool!Quit \/ Pool!Wakeup \/ Pool!Join
    PROVE  PoolInv' /\ owner' \in {"quit", "wakeup", "join", "done"} /\ thread' = thread
<1>1. /\ owner \in {"deal", "quit", "wakeup", "join"} /\ ~Building /\ owner # "setup"
      /\ numThreads = program.threads /\ Len(loops) = numThreads /\ \A i \in DOMAIN loops : loops[i] = i
  <2>1. owner \in {"deal", "quit", "wakeup", "join"}
    BY DEF Pool!Destroy, Pool!Quit, Pool!Wakeup, Pool!Join, Pool!At
  <2> QED BY <2>1 DEF Inv, OwnerInv, Building
<1>2. /\ numThreads \in Nat /\ cur \in Nat /\ cur > 0 /\ MaxThreads \in Nat /\ numThreads <= MaxThreads
      /\ owner # "deal" => cur <= numThreads
      /\ owner = "deal" => cur = 1
  BY <1>1, PoolTypes DEF Inv, OwnerInv
<1>3. /\ thread' = thread /\ UNCHANGED <<loop, alive, numThreads, loops, next>>
      /\ owner' \in {"quit", "wakeup", "join", "done"}
  BY DEF Pool!Destroy, Pool!Quit, Pool!Wakeup, Pool!Join, Pool!loopVars, Pool!poolVars
<1>4. /\ cur' \in Nat /\ cur' > 0 /\ (owner' # "done" => cur' <= numThreads) /\ cur' <= MaxThreads + 1
      /\ \A t \in T : Told(t) => Told(t)'
      /\ \A t \in T : quit'[t] => Told(t)'
      /\ quit' \in [T -> BOOLEAN] /\ wakeup' \in [T -> BOOLEAN] /\ failed' \in {"none", "null", "dangling"}
  <2>0. \A t \in T : t \in Nat
    BY LoopFacts
  <2>t. quit \in [T -> BOOLEAN] /\ wakeup \in [T -> BOOLEAN] /\ failed \in {"none", "null", "dangling"}
        /\ cur \in 1..(MaxThreads + 1)
    BY PoolTypes DEF Inv
  <2>q. \A t \in T : quit[t] => Told(t)
    BY DEF Inv, ThreadInv
  <2>1. CASE Pool!Destroy /\ wakeup' \in [T -> BOOLEAN]
    <3>1. /\ owner = "deal" /\ owner' = IF numThreads = 0 THEN "done" ELSE "quit"
          /\ wakeup' \in [T -> BOOLEAN] /\ UNCHANGED <<cur, quit, failed>>
      BY <2>1 DEF Pool!Destroy, Pool!At
    <3>2. owner' # "done" => cur' <= numThreads
      BY <3>1, <1>2
    <3> QED BY <3>1, <3>2, <1>2, <2>t, <2>q DEF Told
  <2>2. CASE Pool!Quit
    <3>1. /\ owner = "quit" /\ owner' = "wakeup" /\ quit' = [quit EXCEPT ![cur] = TRUE]
          /\ failed' \in {"none", "null"} /\ UNCHANGED <<cur, wakeup>>
      BY <2>2 DEF Pool!Quit, Pool!At
    <3>2. \A t \in T : t < cur \/ t = cur => t <= cur
      BY <1>2, <2>0
    <3>3. \A t \in T : Told(t) => Told(t)'
      BY <3>1, <3>2 DEF Told
    <3>4. \A t \in T : quit'[t] => quit[t] \/ t = cur
      BY <3>1, <2>t
    <3>5. \A t \in T : quit'[t] => Told(t)'
      BY <3>1, <3>2, <3>3, <3>4, <2>q DEF Told
    <3>6. quit' \in [T -> BOOLEAN]
      BY <3>1, <2>t
    <3> QED BY <3>1, <3>3, <3>5, <3>6, <1>1, <1>2, <2>t
  <2>3. CASE Pool!Wakeup
    <3>1. /\ owner = "wakeup" /\ owner' = "join" /\ wakeup' = [wakeup EXCEPT ![cur] = TRUE]
          /\ failed' \in {"none", "dangling"} /\ UNCHANGED <<cur, quit>>
      BY <2>3 DEF Pool!Wakeup, Pool!At
    <3>2. wakeup' \in [T -> BOOLEAN]
      BY <3>1, <2>t
    <3> QED BY <3>1, <3>2, <1>1, <1>2, <2>t, <2>q DEF Told
  <2>4. CASE Pool!Join
    <3>1. /\ owner = "join" /\ owner' = IF cur = numThreads THEN "done" ELSE "quit"
          /\ cur' = IF cur = numThreads THEN cur ELSE cur + 1
          /\ UNCHANGED <<quit, wakeup, failed>>
      BY <2>4 DEF Pool!Join, Pool!At, Pool!loopVars
    <3>2. \/ owner' = "done" /\ cur' = cur
          \/ owner' = "quit" /\ cur' = cur + 1 /\ cur < numThreads
      BY <3>1, <1>1, <1>2
    <3>3. \A t \in T : t <= cur => t < cur + 1
      BY <1>2, <2>0
    <3>4. \A t \in T : Told(t) => Told(t)'
      BY <3>1, <3>2, <3>3 DEF Told
    <3>5. cur' \in Nat /\ cur' > 0 /\ (owner' # "done" => cur' <= numThreads) /\ cur' <= MaxThreads + 1
      BY <3>2, <1>2, <2>t
    <3> QED BY <3>1, <3>4, <3>5, <2>t, <2>q
  <2> QED BY <2>1, <2>2, <2>3, <2>4
<1>5. Pool!TypeOK'
  <2>1. cur' \in 1..(MaxThreads + 1)
    BY <1>2, <1>4
  <2> QED BY <1>3, <1>4, <2>1 DEF Inv, TypeOK, Pool!TypeOK, Pool!T, T
<1>6. OwnerInv'
  BY <1>1, <1>3, <1>4 DEF OwnerInv, Building
<1>7. \A t \in T : ThreadInv(t)'
  <2> SUFFICES ASSUME NEW t \in T PROVE ThreadInv(t)'
    OBVIOUS
  <2>1. /\ loop'[t] <=> thread'[t] \in {"enter", "test", "poll", "leave"}
        /\ alive'[t] <=> thread'[t] \in {"publish", "enter", "test", "poll", "leave", "unwind"}
    BY <1>3 DEF Inv, ThreadInv
  <2>2. quit'[t] \/ thread'[t] \in {"leave", "unwind", "done"} => Told(t)'
    BY <1>3, <1>4 DEF Inv, ThreadInv
  <2>3. thread'[t] # "none" => t <= numThreads'
    BY <1>3 DEF Inv, ThreadInv
  <2>4. t <= numThreads' => thread'[t] \notin {"none", "construct", "publish"}
    BY <1>1, <1>3 DEF Inv, ThreadInv
  <2> QED BY <1>3, <2>1, <2>2, <2>3, <2>4 DEF ThreadInv, Building
<1> QED BY <1>3, <1>5, <1>6, <1>7 DEF PoolInv

\* The steps of a loop thread.
LEMMA ThreadPool ==
    ASSUME Inv, program' = program, NEW t \in T,
           Pool!ThreadStep(t) \/ Pool!PollWoken(t) \/ Pool!PollOther(t)
    PROVE  /\ PoolInv' /\ UNCHANGED <<cur, numThreads, loops, next, failed>>
           /\ owner' = owner \/ (Building /\ Building')
           /\ \A u \in T : u # t => thread'[u] = thread[u]
           /\ thread[t] # "done"
           /\ Pool!PollWoken(t) \/ Pool!PollOther(t) => thread[t] = "poll" /\ thread'[t] = "test"
<1> USE DEF Pool!Step, Pool!poolVars
<1>a. /\ thread \in [T -> {"none", "construct", "publish", "enter", "test", "poll",
                           "leave", "unwind", "done"}]
      /\ loop \in [T -> BOOLEAN] /\ alive \in [T -> BOOLEAN]
      /\ quit \in [T -> BOOLEAN] /\ wakeup \in [T -> BOOLEAN]
  BY PoolTypes DEF Inv
<1>b. \A u \in T : ThreadInv(u)
  BY DEF Inv
<1>1. UNCHANGED <<cur, numThreads, loops, next, failed>>
  BY DEF Pool!ThreadStep, Pool!Construct, Pool!Publish, Pool!EnterLoop, Pool!TestQuit, Pool!Leave,
         Pool!Unwind, Pool!PollWoken, Pool!PollOther
<1>2. owner' = owner \/ (owner = "asleep" /\ owner' = "wait")
  BY DEF Pool!ThreadStep, Pool!Construct, Pool!Publish, Pool!EnterLoop, Pool!TestQuit, Pool!Leave,
         Pool!Unwind, Pool!PollWoken, Pool!PollOther
<1>3. /\ (Building' <=> Building) /\ (owner' = "setup" <=> owner = "setup")
      /\ (owner' = "spawn" <=> owner = "spawn") /\ (owner' = "push" <=> owner = "push")
      /\ \A u \in T : Told(u)' <=> Told(u)
  BY <1>1, <1>2 DEF Building, Told
<1>4. OwnerInv'
  <2>1. /\ owner' \in {"setup", "deal"} <=> owner \in {"setup", "deal"}
        /\ owner' \in {"quit", "wakeup", "join"} <=> owner \in {"quit", "wakeup", "join"}
    BY <1>2
  <2> QED BY <1>1, <1>3, <2>1 DEF Inv, OwnerInv
<1>5. ASSUME thread[t] \notin {"none", "done"}, \A u \in T : u # t => thread'[u] = thread[u],
             thread' \in [T -> {"none", "construct", "publish", "enter", "test", "poll",
                                "leave", "unwind", "done"}],
             thread'[t] \notin {"none", "construct"},
             thread'[t] = "publish" => thread[t] = "construct",
             thread'[t] \in {"leave", "unwind", "done"} => Told(t),
             loop' \in [T -> BOOLEAN], alive' \in [T -> BOOLEAN], quit' \in [T -> BOOLEAN],
             wakeup' \in [T -> BOOLEAN],
             \A u \in T : u # t => loop'[u] = loop[u] /\ alive'[u] = alive[u] /\ quit'[u] = quit[u],
             loop'[t] <=> thread'[t] \in {"enter", "test", "poll", "leave"},
             alive'[t] <=> thread'[t] \in {"publish", "enter", "test", "poll", "leave", "unwind"},
             quit'[t] => Told(t)
      PROVE  PoolInv' /\ (\A u \in T : u # t => thread'[u] = thread[u]) /\ thread[t] # "done"
  <2>1. Pool!TypeOK'
    BY <1>1, <1>2, <1>5 DEF Inv, TypeOK, Pool!TypeOK, Pool!T, T
  <2>2. ThreadInv(t)'
    <3>1. /\ owner # "setup" /\ t <= numThreads /\ (Building => t <= cur) /\ (owner = "spawn" => t < cur)
      BY <1>b, <1>5 DEF ThreadInv
    <3>2. thread[t] = "construct" =>
              ~(\/ owner # "setup" /\ ~Building /\ t <= numThreads
                \/ Building /\ t < cur
                \/ owner = "push" /\ t = cur)
      BY <1>b, <1>5 DEF ThreadInv
    <3> QED BY <1>1, <1>3, <1>5, <3>1, <3>2 DEF ThreadInv
  <2>3. ASSUME NEW u \in T, u # t PROVE ThreadInv(u)'
    <3>1. /\ thread'[u] = thread[u] /\ loop'[u] = loop[u] /\ alive'[u] = alive[u] /\ quit'[u] = quit[u]
      BY <1>5, <2>3
    <3> QED BY <1>1, <1>3, <1>b, <3>1 DEF ThreadInv
  <2> QED BY <1>4, <1>5, <2>1, <2>2, <2>3 DEF PoolInv
<1>c. Pool!PollWoken(t) \/ Pool!PollOther(t) => thread[t] = "poll" /\ thread'[t] = "test"
  BY <1>a DEF Pool!PollWoken, Pool!PollOther
<1>d. owner' = owner \/ (Building /\ Building')
  BY <1>2 DEF Building
<1>6. CASE Pool!Construct(t)
  <2>1. /\ thread[t] = "construct" /\ thread' = [thread EXCEPT ![t] = "publish"]
        /\ loop' = loop /\ alive' = [alive EXCEPT ![t] = TRUE] /\ quit' = quit /\ wakeup' = wakeup
    BY <1>6 DEF Pool!Construct
  <2>2. thread'[t] = "publish" /\ \A u \in T : u # t => thread'[u] = thread[u]
    BY <1>a, <2>1
  <2>3. thread' \in [T -> {"none", "construct", "publish", "enter", "test", "poll",
                           "leave", "unwind", "done"}]
    BY <1>a, <2>1
  <2>4. /\ loop' \in [T -> BOOLEAN] /\ alive' \in [T -> BOOLEAN]
        /\ quit' \in [T -> BOOLEAN] /\ wakeup' \in [T -> BOOLEAN]
    BY <1>a, <2>1
  <2>5. \A u \in T : u # t => loop'[u] = loop[u] /\ alive'[u] = alive[u] /\ quit'[u] = quit[u]
    BY <1>a, <2>1
  <2>6. /\ loop'[t] <=> "publish" \in {"enter", "test", "poll", "leave"}
        /\ alive'[t] <=> "publish" \in {"publish", "enter", "test", "poll", "leave", "unwind"}
        /\ quit'[t] => quit[t]
    BY <1>a, <1>b, <2>1 DEF ThreadInv
  <2>7. (quit'[t] => Told(t)) /\ (thread'[t] \in {"leave", "unwind", "done"} => Told(t))
    BY <1>b, <2>1, <2>2, <2>6 DEF ThreadInv
  <2> QED BY <1>1, <1>c, <1>d, <1>5, <2>1, <2>2, <2>3, <2>4, <2>5, <2>6, <2>7
<1>7. CASE Pool!Publish(t)
  <2>1. /\ thread[t] = "publish" /\ thread' = [thread EXCEPT ![t] = "enter"]
        /\ loop' = [loop EXCEPT ![t] = TRUE] /\ alive' = alive /\ quit' = quit /\ wakeup' = wakeup
    BY <1>7 DEF Pool!Publish
  <2>2. thread'[t] = "enter" /\ \A u \in T : u # t => thread'[u] = thread[u]
    BY <1>a, <2>1
  <2>3. thread' \in [T -> {"none", "construct", "publish", "enter", "test", "poll",
                           "leave", "unwind", "done"}]
    BY <1>a, <2>1
  <2>4. /\ loop' \in [T -> BOOLEAN] /\ alive' \in [T -> BOOLEAN]
        /\ quit' \in [T -> BOOLEAN] /\ wakeup' \in [T -> BOOLEAN]
    BY <1>a, <2>1
  <2>5. \A u \in T : u # t => loop'[u] = loop[u] /\ alive'[u] = alive[u] /\ quit'[u] = quit[u]
    BY <1>a, <2>1
  <2>6. /\ loop'[t] <=> "enter" \in {"enter", "test", "poll", "leave"}
        /\ alive'[t] <=> "enter" \in {"publish", "enter", "test", "poll", "leave", "unwind"}
        /\ quit'[t] => quit[t]
    BY <1>a, <1>b, <2>1 DEF ThreadInv
  <2>7. (quit'[t] => Told(t)) /\ (thread'[t] \in {"leave", "unwind", "done"} => Told(t))
    BY <1>b, <2>1, <2>2, <2>6 DEF ThreadInv
  <2> QED BY <1>1, <1>c, <1>d, <1>5, <2>1, <2>2, <2>3, <2>4, <2>5, <2>6, <2>7
<1>8. CASE Pool!EnterLoop(t)
  <2>1. /\ thread[t] = "enter" /\ thread' = [thread EXCEPT ![t] = "test"]
        /\ loop' = loop /\ alive' = alive /\ quit' = [quit EXCEPT ![t] = FALSE] /\ wakeup' = wakeup
    BY <1>8 DEF Pool!EnterLoop
  <2>2. thread'[t] = "test" /\ \A u \in T : u # t => thread'[u] = thread[u]
    BY <1>a, <2>1
  <2>3. thread' \in [T -> {"none", "construct", "publish", "enter", "test", "poll",
                           "leave", "unwind", "done"}]
    BY <1>a, <2>1
  <2>4. /\ loop' \in [T -> BOOLEAN] /\ alive' \in [T -> BOOLEAN]
        /\ quit' \in [T -> BOOLEAN] /\ wakeup' \in [T -> BOOLEAN]
    BY <1>a, <2>1
  <2>5. \A u \in T : u # t => loop'[u] = loop[u] /\ alive'[u] = alive[u] /\ quit'[u] = quit[u]
    BY <1>a, <2>1
  <2>6. /\ loop'[t] <=> "test" \in {"enter", "test", "poll", "leave"}
        /\ alive'[t] <=> "test" \in {"publish", "enter", "test", "poll", "leave", "unwind"}
        /\ quit'[t] => quit[t]
    BY <1>a, <1>b, <2>1 DEF ThreadInv
  <2>7. (quit'[t] => Told(t)) /\ (thread'[t] \in {"leave", "unwind", "done"} => Told(t))
    BY <1>b, <2>1, <2>2, <2>6 DEF ThreadInv
  <2> QED BY <1>1, <1>c, <1>d, <1>5, <2>1, <2>2, <2>3, <2>4, <2>5, <2>6, <2>7
<1>9. CASE Pool!TestQuit(t)
  <2>1. /\ thread[t] = "test" /\ thread' = [thread EXCEPT ![t] = IF quit[t] THEN "leave" ELSE "poll"]
        /\ loop' = loop /\ alive' = alive /\ quit' = quit /\ wakeup' = wakeup
    BY <1>9 DEF Pool!TestQuit
  <2>2. thread'[t] = (IF quit[t] THEN "leave" ELSE "poll") /\ \A u \in T : u # t => thread'[u] = thread[u]
    BY <1>a, <2>1
  <2>3. thread' \in [T -> {"none", "construct", "publish", "enter", "test", "poll",
                           "leave", "unwind", "done"}]
    BY <1>a, <2>1
  <2>4. /\ loop' \in [T -> BOOLEAN] /\ alive' \in [T -> BOOLEAN]
        /\ quit' \in [T -> BOOLEAN] /\ wakeup' \in [T -> BOOLEAN]
    BY <1>a, <2>1
  <2>5. \A u \in T : u # t => loop'[u] = loop[u] /\ alive'[u] = alive[u] /\ quit'[u] = quit[u]
    BY <1>a, <2>1
  <2>6. /\ loop'[t] <=> thread'[t] \in {"enter", "test", "poll", "leave"}
        /\ alive'[t] <=> thread'[t] \in {"publish", "enter", "test", "poll", "leave", "unwind"}
        /\ quit'[t] => quit[t]
    BY <1>a, <1>b, <2>1, <2>2 DEF ThreadInv
  <2>7. (quit'[t] => Told(t)) /\ (thread'[t] \in {"leave", "unwind", "done"} => Told(t))
    BY <1>b, <2>1, <2>2, <2>6 DEF ThreadInv
  <2> QED BY <1>1, <1>c, <1>d, <1>5, <2>1, <2>2, <2>3, <2>4, <2>5, <2>6, <2>7
<1>10. CASE Pool!Leave(t)
  <2>1. /\ thread[t] = "leave" /\ thread' = [thread EXCEPT ![t] = "unwind"]
        /\ loop' = [loop EXCEPT ![t] = FALSE] /\ alive' = alive /\ quit' = quit /\ wakeup' = wakeup
    BY <1>10 DEF Pool!Leave
  <2>2. thread'[t] = "unwind" /\ \A u \in T : u # t => thread'[u] = thread[u]
    BY <1>a, <2>1
  <2>3. thread' \in [T -> {"none", "construct", "publish", "enter", "test", "poll",
                           "leave", "unwind", "done"}]
    BY <1>a, <2>1
  <2>4. /\ loop' \in [T -> BOOLEAN] /\ alive' \in [T -> BOOLEAN]
        /\ quit' \in [T -> BOOLEAN] /\ wakeup' \in [T -> BOOLEAN]
    BY <1>a, <2>1
  <2>5. \A u \in T : u # t => loop'[u] = loop[u] /\ alive'[u] = alive[u] /\ quit'[u] = quit[u]
    BY <1>a, <2>1
  <2>6. /\ loop'[t] <=> "unwind" \in {"enter", "test", "poll", "leave"}
        /\ alive'[t] <=> "unwind" \in {"publish", "enter", "test", "poll", "leave", "unwind"}
        /\ quit'[t] => quit[t]
    BY <1>a, <1>b, <2>1 DEF ThreadInv
  <2>7. (quit'[t] => Told(t)) /\ (thread'[t] \in {"leave", "unwind", "done"} => Told(t))
    BY <1>b, <2>1, <2>2, <2>6 DEF ThreadInv
  <2> QED BY <1>1, <1>c, <1>d, <1>5, <2>1, <2>2, <2>3, <2>4, <2>5, <2>6, <2>7
<1>11. CASE Pool!Unwind(t)
  <2>1. /\ thread[t] = "unwind" /\ thread' = [thread EXCEPT ![t] = "done"]
        /\ loop' = loop /\ alive' = [alive EXCEPT ![t] = FALSE] /\ quit' = quit /\ wakeup' = wakeup
    BY <1>11 DEF Pool!Unwind
  <2>2. thread'[t] = "done" /\ \A u \in T : u # t => thread'[u] = thread[u]
    BY <1>a, <2>1
  <2>3. thread' \in [T -> {"none", "construct", "publish", "enter", "test", "poll",
                           "leave", "unwind", "done"}]
    BY <1>a, <2>1
  <2>4. /\ loop' \in [T -> BOOLEAN] /\ alive' \in [T -> BOOLEAN]
        /\ quit' \in [T -> BOOLEAN] /\ wakeup' \in [T -> BOOLEAN]
    BY <1>a, <2>1
  <2>5. \A u \in T : u # t => loop'[u] = loop[u] /\ alive'[u] = alive[u] /\ quit'[u] = quit[u]
    BY <1>a, <2>1
  <2>6. /\ loop'[t] <=> "done" \in {"enter", "test", "poll", "leave"}
        /\ alive'[t] <=> "done" \in {"publish", "enter", "test", "poll", "leave", "unwind"}
        /\ quit'[t] => quit[t]
    BY <1>a, <1>b, <2>1 DEF ThreadInv
  <2>7. (quit'[t] => Told(t)) /\ (thread'[t] \in {"leave", "unwind", "done"} => Told(t))
    BY <1>b, <2>1, <2>2, <2>6 DEF ThreadInv
  <2> QED BY <1>1, <1>c, <1>d, <1>5, <2>1, <2>2, <2>3, <2>4, <2>5, <2>6, <2>7
<1>12. CASE Pool!PollWoken(t)
  <2>1. /\ thread[t] = "poll" /\ thread' = [thread EXCEPT ![t] = "test"]
        /\ loop' = loop /\ alive' = alive /\ quit' = quit /\ wakeup' = [wakeup EXCEPT ![t] = FALSE]
    BY <1>12 DEF Pool!PollWoken
  <2>2. thread'[t] = "test" /\ \A u \in T : u # t => thread'[u] = thread[u]
    BY <1>a, <2>1
  <2>3. thread' \in [T -> {"none", "construct", "publish", "enter", "test", "poll",
                           "leave", "unwind", "done"}]
    BY <1>a, <2>1
  <2>4. /\ loop' \in [T -> BOOLEAN] /\ alive' \in [T -> BOOLEAN]
        /\ quit' \in [T -> BOOLEAN] /\ wakeup' \in [T -> BOOLEAN]
    BY <1>a, <2>1
  <2>5. \A u \in T : u # t => loop'[u] = loop[u] /\ alive'[u] = alive[u] /\ quit'[u] = quit[u]
    BY <1>a, <2>1
  <2>6. /\ loop'[t] <=> "test" \in {"enter", "test", "poll", "leave"}
        /\ alive'[t] <=> "test" \in {"publish", "enter", "test", "poll", "leave", "unwind"}
        /\ quit'[t] => quit[t]
    BY <1>a, <1>b, <2>1 DEF ThreadInv
  <2>7. (quit'[t] => Told(t)) /\ (thread'[t] \in {"leave", "unwind", "done"} => Told(t))
    BY <1>b, <2>1, <2>2, <2>6 DEF ThreadInv
  <2> QED BY <1>1, <1>c, <1>d, <1>5, <2>1, <2>2, <2>3, <2>4, <2>5, <2>6, <2>7
<1>13. CASE Pool!PollOther(t)
  <2>1. /\ thread[t] = "poll" /\ thread' = [thread EXCEPT ![t] = "test"]
        /\ loop' = loop /\ alive' = alive /\ quit' = quit /\ wakeup' = wakeup
    BY <1>13 DEF Pool!PollOther
  <2>2. thread'[t] = "test" /\ \A u \in T : u # t => thread'[u] = thread[u]
    BY <1>a, <2>1
  <2>3. thread' \in [T -> {"none", "construct", "publish", "enter", "test", "poll",
                           "leave", "unwind", "done"}]
    BY <1>a, <2>1
  <2>4. /\ loop' \in [T -> BOOLEAN] /\ alive' \in [T -> BOOLEAN]
        /\ quit' \in [T -> BOOLEAN] /\ wakeup' \in [T -> BOOLEAN]
    BY <1>a, <2>1
  <2>5. \A u \in T : u # t => loop'[u] = loop[u] /\ alive'[u] = alive[u] /\ quit'[u] = quit[u]
    BY <1>a, <2>1
  <2>6. /\ loop'[t] <=> "test" \in {"enter", "test", "poll", "leave"}
        /\ alive'[t] <=> "test" \in {"publish", "enter", "test", "poll", "leave", "unwind"}
        /\ quit'[t] => quit[t]
    BY <1>a, <1>b, <2>1 DEF ThreadInv
  <2>7. (quit'[t] => Told(t)) /\ (thread'[t] \in {"leave", "unwind", "done"} => Told(t))
    BY <1>b, <2>1, <2>2, <2>6 DEF ThreadInv
  <2> QED BY <1>1, <1>c, <1>d, <1>5, <2>1, <2>2, <2>3, <2>4, <2>5, <2>6, <2>7
<1> QED
  BY <1>6, <1>7, <1>8, <1>9, <1>10, <1>11, <1>12, <1>13 DEF Pool!ThreadStep
-----------------------------------------------------------------------------
(* Steps of one component: what they keep of the others.                   *)

\* Steps that only turn the pool over.
LEMMA PoolStepInv ==
    ASSUME Inv, SetThreadNum \/ Start \/ OwnerStep
    PROVE  Inv'
<1>1. UNCHANGED <<program, listening, idleFd, backlog, shed, phase, queue, batch, ran, state, channel,
                  home, connections, nextConnId, arrived, others, stolen, fault>>
  BY DEF SetThreadNum, Start, OwnerStep, accVars, loopVars, connVars, envVars
<1>2. /\ PoolInv' /\ owner \notin {"deal", "done"} /\ numThreads' >= numThreads
      /\ \A t \in T : thread[t] # "none" => thread'[t] = thread[t]
      /\ listening => owner' # "setup" /\ ~Building'
  <2>0. numThreads \in Nat /\ program.threads \in Nat
    BY PoolTypes DEF Inv
  <2>1. CASE SetThreadNum \/ Start
    <3>1. \/ numThreads # program.threads /\ Pool!SetThreadNum(program.threads)
          \/ numThreads = program.threads /\ Pool!Start
      BY <2>1 DEF SetThreadNum, Start
    <3>2. PoolInv'
      BY <1>1, <3>1, StartPool
    <3>3. owner = "setup" /\ thread' = thread /\ numThreads' = program.threads
      BY <3>1 DEF Pool!SetThreadNum, Pool!Start, Pool!At, Pool!loopVars, Pool!poolVars
    <3>4. numThreads \in {0, program.threads} /\ ~listening
      BY <3>3 DEF Inv, OwnerInv, Phases
    <3> QED BY <2>0, <3>2, <3>3, <3>4
  <2>2. CASE Pool!Spawn \/ Pool!Wait \/ Pool!PushLoop
    <3>1. PoolInv' /\ Building /\ \A t \in T : thread[t] # "none" => thread'[t] = thread[t]
      BY <1>1, <2>2, BuildPool
    <3>2. numThreads' = numThreads
      BY <2>2 DEF Pool!Spawn, Pool!Wait, Pool!PushLoop, Pool!poolVars
    <3>3. owner \notin {"deal", "done"} /\ ~listening
      BY <3>1 DEF Inv, Phases, Building
    <3> QED BY <2>0, <3>1, <3>2, <3>3
  <2>3. CASE Pool!Quit \/ Pool!Wakeup \/ Pool!Join
    <3>1. PoolInv' /\ owner' \in {"quit", "wakeup", "join", "done"} /\ thread' = thread
      BY <1>1, <2>3, QuitPool
    <3>2. numThreads' = numThreads /\ owner \in {"quit", "wakeup", "join"}
      BY <2>3 DEF Pool!Quit, Pool!Wakeup, Pool!Join, Pool!At, Pool!poolVars
    <3> QED BY <2>0, <3>1, <3>2 DEF Building
  <2> QED BY <2>1, <2>2, <2>3 DEF OwnerStep, Pool!OwnerStep
<1>3. TypeOK'
  BY <1>1, <1>2 DEF Inv, TypeOK, PoolInv, Acc!TypeOK
<1>4. Batches'
  BY <1>1 DEF Inv, Batches
<1>5. Phases'
  <2>1. phase[0] = "poll" /\ shed = "no"
    BY <1>2 DEF Inv, Phases
  <2>2. \A t \in T : phase'[t] # "poll" => thread'[t] = "test" /\ phase'[t] # "accept"
    BY <1>1, <1>2 DEF Inv, Phases
  <2> QED BY <1>1, <1>2, <2>1, <2>2 DEF Phases
<1>6. Held' /\ AliveSet' = AliveSet
  BY <1>1, <1>2, ConnsKept
<1>7. Descriptors'
  BY <1>1, <1>2, <1>3, <1>6, DescriptorsKept
<1>8. Numbers'
  <2>1. \A c \in Conn : home'[c] <= numThreads'
    <3>1. \A c \in Conn : home[c] \in Nat /\ home[c] <= numThreads
      BY LoopFacts DEF Inv, Numbers, TypeOK, Loop
    <3>2. numThreads \in Nat /\ numThreads' \in Nat
      BY <1>2, ProgramsAssumption, PoolTypes DEF Inv, PoolInv, Pool!TypeOK
    <3> QED BY <1>1, <1>2, <3>1, <3>2
  <2> QED BY <1>1, <2>1 DEF Inv, Numbers
<1> QED BY <1>2, <1>3, <1>4, <1>5, <1>6, <1>7, <1>8 DEF Inv, PoolInv

\* A thread of the pool goes on, or its poll returns.  ~EventLoop drops the
\* functors that are left.
LEMMA ThreadInvStep ==
    ASSUME Inv, NEW t \in T, ThreadStep(t) \/ PollThread(t)
    PROVE  Inv' /\ AliveSet' \subseteq AliveSet
<1>1. UNCHANGED <<program, listening, idleFd, backlog, shed, batch, ran, state, channel,
                  home, connections, nextConnId, arrived, others, stolen, fault>>
  BY DEF ThreadStep, PollThread, accVars, connVars, envVars
<1>2. /\ PoolInv' /\ UNCHANGED <<cur, numThreads, loops, next, failed>>
      /\ owner' = owner \/ (Building /\ Building')
      /\ \A u \in T : u # t => thread'[u] = thread[u]
      /\ thread[t] # "done"
      /\ Pool!PollWoken(t) \/ Pool!PollOther(t) => thread[t] = "poll" /\ thread'[t] = "test"
  BY <1>1, ThreadPool DEF ThreadStep, PollThread
<1>3. t \in Loop /\ t # 0 /\ t \in Nat
  BY LoopFacts
<1>4. phase[t] = "poll" /\ ran[t] = 0 /\ batch[t] = 0
  <2>1. phase[t] = "poll"
    BY <1>2 DEF ThreadStep, PollThread, Inv, Phases
  <2> QED BY <1>3, <2>1 DEF Inv, Batches
<1>5. /\ \A l \in Loop : l # t => phase'[l] = phase[l] /\ queue'[l] = queue[l]
      /\ phase' \in [Loop -> {"poll", "accept", "handle", "run"}]
      /\ phase'[t] \in {"poll", "handle"}
      /\ phase'[t] = "handle" => thread'[t] = "test"
      /\ queue'[t] \in {queue[t], <<>>} /\ (queue'[t] # queue[t] => thread'[t] = "done")
      /\ queue' \in [Loop -> Seq(Tasks)]
  <2>0. phase \in [Loop -> {"poll", "accept", "handle", "run"}] /\ queue \in [Loop -> Seq(Tasks)]
    BY DEF Inv, TypeOK, Tasks, Ops
  <2>1. CASE PollThread(t)
    BY <1>2, <1>3, <2>0, <2>1 DEF PollThread
  <2>2. CASE ThreadStep(t)
    <3>1. /\ phase' = phase
          /\ queue' = [queue EXCEPT ![t] = IF alive'[t] \/ ~alive[t] THEN @ ELSE <<>>]
      BY <2>2 DEF ThreadStep
    <3>2. <<>> \in Seq(Tasks)
      BY EmptySeq
    <3>3. ~alive'[t] /\ alive[t] => thread'[t] = "done"
      <4>1. alive \in [T -> BOOLEAN] /\ thread \in [T -> {"none", "construct", "publish", "enter", "test",
                                                          "poll", "leave", "unwind", "done"}]
        BY PoolTypes DEF Inv
      <4>2. ASSUME ~alive'[t], alive[t] PROVE Pool!Unwind(t)
        BY <2>2, <4>1, <4>2 DEF ThreadStep, Pool!ThreadStep, Pool!Construct, Pool!Publish,
           Pool!EnterLoop, Pool!TestQuit, Pool!Leave
      <4> QED BY <4>1, <4>2 DEF Pool!Unwind, Pool!Step
    <3>4. queue'[t] = IF alive'[t] \/ ~alive[t] THEN queue[t] ELSE <<>>
      BY <1>3, <2>0, <3>1
    <3>5. queue'[t] \in {queue[t], <<>>} /\ (queue'[t] # queue[t] => thread'[t] = "done")
      BY <3>3, <3>4
    <3>6. queue' \in [Loop -> Seq(Tasks)] /\ \A l \in Loop : l # t => queue'[l] = queue[l]
      BY <1>3, <2>0, <3>1, <3>2
    <3> QED BY <1>4, <2>0, <3>1, <3>5, <3>6
  <2> QED BY <2>1, <2>2
<1>6. TypeOK'
  BY <1>1, <1>2, <1>5 DEF Inv, TypeOK, PoolInv, Acc!TypeOK, Tasks, Ops
<1>7. Batches'
  <2>1. \A l \in Loop : l # t =>
          IF phase'[l] = "run" THEN ran'[l] < batch'[l] /\ batch'[l] <= Len(queue'[l])
                               ELSE ran'[l] = 0 /\ batch'[l] = 0
    BY <1>1, <1>5 DEF Inv, Batches
  <2>2. phase'[t] # "run" /\ ran'[t] = 0 /\ batch'[t] = 0
    BY <1>1, <1>4, <1>5
  <2>3. ran' \in [Loop -> Nat]
    BY <1>1 DEF Inv, Batches
  <2> QED BY <2>1, <2>2, <2>3 DEF Batches
<1>8. Phases'
  <2>1. \A u \in T : phase'[u] # "poll" => thread'[u] = "test" /\ phase'[u] # "accept"
    <3> SUFFICES ASSUME NEW u \in T, phase'[u] # "poll"
                 PROVE  thread'[u] = "test" /\ phase'[u] # "accept"
      OBVIOUS
    <3>1. CASE u = t
      BY <3>1, <1>5
    <3>2. CASE u # t
      BY <3>2, <1>2, <1>5, LoopFacts DEF Inv, Phases
    <3> QED BY <3>1, <3>2
  <2>2. phase'[0] = phase[0]
    BY <1>3, <1>5, LoopFacts
  <2>3. phase[0] # "poll" \/ listening => owner' = owner
    BY <1>2 DEF Inv, Phases, Building
  <2> QED BY <1>1, <2>1, <2>2, <2>3 DEF Inv, Phases, Building
<1>9. \A l \in Loop : \A i : queue'[l] # queue[l] => l = t /\ queue'[l] = <<>>
  BY <1>5
<1>10. AliveSet' \subseteq AliveSet
  <2>1. \A l \in Loop : \A i \in DOMAIN queue'[l] : i \in DOMAIN queue[l] /\ queue'[l][i] = queue[l][i]
    BY <1>9, EmptySeq
  <2> QED BY <1>1, <2>1 DEF AliveSet, Alive
<1>11. Numbers'
  <2>1. \A l \in Loop : \A i \in DOMAIN queue'[l] : i \in DOMAIN queue[l] /\ queue'[l][i] = queue[l][i]
    BY <1>9, EmptySeq
  <2> QED BY <1>1, <1>2, <2>1 DEF Inv, Numbers
<1>12. Held'
  <2>1. \A l \in Loop : queue'[l] = queue[l] =>
          Size(l)' = Size(l) /\ \A i : Todo(l, i)' = Todo(l, i)
    BY <1>1 DEF Size, Todo
  <2>2. ASSUME NEW c \in Conn, channel'[c] = "reading"
        PROVE  Destined(c)' \/ (home'[c] > 0 /\ thread'[home'[c]] = "done")
    <3>1. home[c] \in Loop /\ home'[c] = home[c] /\ channel[c] = "reading"
      BY <1>1, <2>2 DEF Inv, TypeOK
    <3>2. CASE queue'[home[c]] = queue[home[c]]
      <4>1. Destined(c)' <=> Destined(c)
        BY <1>1, <2>1, <3>1, <3>2 DEF Destined
      <4>2. home[c] > 0 /\ thread[home[c]] = "done" => thread'[home[c]] = "done"
        BY <1>2, <3>1, LoopFacts
      <4> QED BY <3>1, <4>1, <4>2 DEF Inv, Held
    <3>3. CASE queue'[home[c]] # queue[home[c]]
      BY <3>1, <3>3, <1>3, <1>5, LoopFacts
    <3> QED BY <3>2, <3>3
  <2>3. ASSUME NEW l \in Loop, NEW i \in 1..Size(l)', Todo(l, i)'.op = "connectEstablished"
        PROVE  \/ Todo(l, i)'.conn \in connections'
               \/ \E j \in 1..Size(l)' :
                     j > i /\ Todo(l, j)' = Task("connectDestroyed", Todo(l, i)'.conn)
    <3>1. CASE queue'[l] = queue[l]
      BY <1>1, <2>1, <2>3, <3>1 DEF Inv, Held
    <3>2. CASE queue'[l] # queue[l]
      <4>1. l = t /\ queue'[l] = <<>> /\ ran'[l] = 0
        BY <1>1, <1>4, <1>9, <3>2
      <4>2. Size(l)' = 0
        BY <4>1, EmptySeq DEF Size
      <4> QED BY <2>3, <4>2
    <3> QED BY <3>1, <3>2
  <2> QED BY <2>2, <2>3 DEF Held
<1>13. Descriptors'
  <2>1. listening' \/ owner' # "done" => listening \/ owner # "done"
    BY <1>1, <1>2 DEF Building
  <2> QED BY <1>1, <1>6, <1>10, <2>1, DescriptorsKept
<1> QED BY <1>2, <1>6, <1>7, <1>8, <1>10, <1>11, <1>12, <1>13 DEF Inv, PoolInv

\* Steps that leave the pool alone.
LEMMA PoolKept ==
    ASSUME Inv, program' = program, UNCHANGED poolVars
    PROVE  PoolInv'
<1>1. UNCHANGED <<numThreads, owner, cur, thread, loop, alive, quit, wakeup, loops, next, failed>>
  BY DEF poolVars
<1>2. Pool!TypeOK'
  BY <1>1 DEF Inv, TypeOK, Pool!TypeOK
<1>3. OwnerInv'
  BY <1>1 DEF Inv, OwnerInv, Building
<1>4. \A t \in T : ThreadInv(t)'
  BY <1>1 DEF Inv, ThreadInv, Told, Building
<1> QED BY <1>2, <1>3, <1>4 DEF PoolInv

\* The base loop polls, and a loop takes its functors.
LEMMA PollSwapInv ==
    ASSUME Inv, PollBase \/ \E l \in Loop : Swap(l)
    PROVE  Inv'
<1>1. /\ UNCHANGED <<program, poolVars, listening, idleFd, backlog, shed, queue, ran, state, channel,
                     home, connections, nextConnId, arrived, others, stolen, fault>>
  BY DEF PollBase, Swap, accVars, connVars, envVars
<1>2. UNCHANGED <<numThreads, owner, thread>>
  BY <1>1 DEF poolVars
<1>3. PoolInv'
  BY <1>1, PoolKept
<1>4. Held' /\ AliveSet' = AliveSet
  BY <1>1, <1>2, ConnsKept
<1>5. Numbers'
  BY <1>1, <1>2 DEF Inv, Numbers
<1>6. TypeOK' /\ Batches' /\ Phases'
  <2>0. /\ phase \in [Loop -> {"poll", "accept", "handle", "run"}]
        /\ batch \in [Loop -> Nat] /\ ran \in [Loop -> Nat]
    BY DEF Inv, TypeOK, Batches
  <2>1. CASE PollBase
    <3>2. /\ phase' = [phase EXCEPT ![0] = IF Acc!Pending THEN "accept" ELSE "handle"]
          /\ batch' = batch
      BY <2>1 DEF PollBase
    <3>3. /\ phase'[0] \in {"accept", "handle"} /\ (phase'[0] = "accept" => Acc!Pending)
          /\ \A l \in Loop : l # 0 => phase'[l] = phase[l]
      BY <2>0, <3>2, LoopFacts
    <3>4. phase' \in [Loop -> {"poll", "accept", "handle", "run"}]
      BY <2>0, <3>2
    <3>5. shed = "no"
      BY <2>1 DEF PollBase, Inv, Phases
    <3>6. TypeOK'
      BY <1>1, <1>3, <3>2, <3>4 DEF Inv, TypeOK, PoolInv, Acc!TypeOK
    <3>7. Batches'
      <4>1. ran[0] = 0 /\ batch[0] = 0
        BY <2>1, LoopFacts DEF PollBase, Inv, Batches
      <4>2. ASSUME NEW l \in Loop
            PROVE IF phase'[l] = "run" THEN ran'[l] < batch'[l] /\ batch'[l] <= Len(queue'[l])
                                       ELSE ran'[l] = 0 /\ batch'[l] = 0
        <5>1. CASE l = 0
          BY <5>1, <1>1, <3>2, <3>3, <4>1
        <5>2. CASE l # 0
          BY <5>2, <1>1, <3>2, <3>3 DEF Inv, Batches
        <5> QED BY <5>1, <5>2
      <4> QED BY <1>1, <2>0, <4>2 DEF Batches
    <3>8. Phases'
      <4>1. \A t \in T : phase'[t] = phase[t]
        BY <3>3, LoopFacts
      <4> QED BY <1>1, <1>2, <2>1, <3>3, <3>5, <4>1 DEF Inv, Phases, PollBase, Acc!Pending, Building
    <3> QED BY <3>6, <3>7, <3>8
  <2>2. ASSUME NEW l \in Loop, Swap(l) PROVE TypeOK' /\ Batches' /\ Phases'
    <3>1. /\ phase[l] = "handle" /\ batch' = [batch EXCEPT ![l] = Len(queue[l])]
          /\ phase' = [phase EXCEPT ![l] = IF queue[l] = <<>> THEN "poll" ELSE "run"]
      BY <2>2 DEF Swap
    <3>2. /\ batch'[l] = Len(queue[l]) /\ phase'[l] \in {"poll", "run"}
          /\ phase'[l] = "poll" <=> queue[l] = <<>>
          /\ \A m \in Loop : m # l => phase'[m] = phase[m] /\ batch'[m] = batch[m]
      BY <2>0, <3>1
    <3>3. Len(queue[l]) \in Nat /\ (queue[l] # <<>> => Len(queue[l]) > 0) /\ (queue[l] = <<>> => Len(queue[l]) = 0)
      BY QueueFacts, EmptySeq DEF Inv
    <3>4. /\ phase' \in [Loop -> {"poll", "accept", "handle", "run"}] /\ batch' \in [Loop -> Nat]
      BY <2>0, <3>1, <3>3
    <3>5. ran[l] = 0
      BY <3>1 DEF Inv, Batches
    <3>6. TypeOK'
      <4>1. \A m \in Loop : ran'[m] \in 0..batch'[m]
        BY <1>1, <3>2, <3>3, <3>5 DEF Inv, TypeOK
      <4> QED BY <1>1, <1>3, <3>4, <4>1 DEF Inv, TypeOK, PoolInv, Acc!TypeOK
    <3>7. Batches'
      <4>1. ASSUME NEW m \in Loop
            PROVE IF phase'[m] = "run" THEN ran'[m] < batch'[m] /\ batch'[m] <= Len(queue'[m])
                                       ELSE ran'[m] = 0 /\ batch'[m] = 0
        <5>1. CASE m = l
          BY <5>1, <1>1, <3>2, <3>3, <3>5
        <5>2. CASE m # l
          BY <5>2, <1>1, <3>2 DEF Inv, Batches
        <5> QED BY <5>1, <5>2
      <4> QED BY <1>1, <2>0, <4>1 DEF Batches
    <3>8. Phases'
      <4>1. \A m \in Loop : phase'[m] # "poll" => phase[m] # "poll"
        BY <3>1, <3>2
      <4>2. \A m \in Loop : phase'[m] = "accept" <=> phase[m] = "accept"
        BY <3>1, <3>2
      <4> QED BY <1>1, <1>2, <4>1, <4>2, LoopFacts DEF Inv, Phases, Building
    <3> QED BY <3>6, <3>7, <3>8
  <2> QED BY <2>1, <2>2
<1>7. Descriptors'
  BY <1>1, <1>2, <1>4, <1>6, DescriptorsKept
<1> QED BY <1>3, <1>4, <1>5, <1>6, <1>7 DEF Inv, PoolInv

\* Counting when only idleFd_ and the descriptors of others change.
LEMMA UsedAfter ==
    ASSUME TypeOK, AliveSet' = AliveSet, others' \in Nat
    PROVE  \E n \in Nat :
             /\ Others = n + others /\ Others' = n + others'
             /\ Used' = IF idleFd' THEN Others' + 1 ELSE Others'
<1>1. Cardinality(AliveSet) \in Nat /\ others \in Nat
  BY UsedFacts
<1>2. Others = Cardinality(AliveSet) + others /\ Others' = Cardinality(AliveSet) + others'
  BY DEF Others
<1>3. Used' = IF idleFd' THEN Others' + 1 ELSE Others'
  BY <1>1, <1>2 DEF Used
<1> QED BY <1>1, <1>2, <1>3

\* The numbers that the steps of the acceptor count with.
LEMMA AcceptorFacts ==
    ASSUME Inv
    PROVE  /\ backlog \in Nat /\ arrived \in Nat /\ nextConnId \in Nat /\ others \in Nat
           /\ program.arrivals \in Nat /\ program.descriptors \in Nat
           /\ nextConnId + backlog <= arrived + 1 /\ arrived <= program.arrivals
           /\ Others \in Nat /\ Used \in Nat /\ Used <= program.descriptors /\ Free \in Nat
           /\ idleFd => Used = Others + 1
           /\ ~idleFd => Used = Others
           /\ Free > 0 <=> Used < program.descriptors
<1>1. /\ backlog \in Nat /\ program.arrivals \in Nat /\ program.descriptors \in Nat
  BY PoolTypes DEF Inv
<1>2. arrived \in Nat /\ nextConnId \in Nat /\ others \in Nat
  BY PoolTypes DEF Inv, TypeOK
<1>3. nextConnId + backlog <= arrived + 1 /\ arrived <= program.arrivals
  BY DEF Inv, Numbers
<1>4. /\ Others \in Nat /\ Used \in Nat /\ Used <= program.descriptors /\ Free \in Nat
      /\ Free > 0 <=> Used < program.descriptors
  BY UsedFacts DEF Inv, Descriptors
<1>5. (idleFd => Used = Others + 1) /\ (~idleFd => Used = Others)
  BY UsedFacts DEF Inv
<1> QED BY <1>1, <1>2, <1>3, <1>4, <1>5

\* What the steps of the acceptor and of the surroundings have in common.
LEMMA AcceptorFrame ==
    ASSUME Inv, UNCHANGED <<program, poolVars, queue, batch, ran, connVars>>,
           Acc!TypeOK', others' \in Nat, stolen' \in BOOLEAN,
           \A l \in Loop : l # 0 => phase'[l] = phase[l],
           phase' = phase \/ phase' = [phase EXCEPT ![0] = "handle"],
           phase[0] = "run" => phase'[0] = "run",
           phase'[0] # "poll" => (owner = "deal" /\ listening') \/ (owner = "done" /\ ~listening'),
           phase'[0] = "accept" => listening',
           shed' # "no" => phase'[0] = "accept",
           shed' = "accept" => backlog' > 0,
           listening' => owner # "setup" /\ ~Building,
           nextConnId + backlog' <= arrived' + 1, arrived' \in Nat, arrived' <= program.arrivals
    PROVE  /\ TypeOK' /\ Batches' /\ PoolInv' /\ Phases' /\ Numbers' /\ Held' /\ AliveSet' = AliveSet
<1>1. UNCHANGED <<numThreads, owner, cur, thread, state, channel, home, connections, nextConnId>>
  BY DEF poolVars, connVars
<1>2. PoolInv'
  BY PoolKept
<1>3. phase' \in [Loop -> {"poll", "accept", "handle", "run"}]
  BY DEF Inv, TypeOK
<1>4. TypeOK'
  <2>1. arrived' \in 0..MaxConns
    BY PoolTypes DEF Inv
  <2> QED BY <1>1, <1>2, <1>3, <2>1 DEF Inv, TypeOK, PoolInv
<1>5. Batches'
  <2>1. phase[0] # "run" => phase'[0] # "run"
    BY LoopFacts DEF Inv, TypeOK
  <2>2. \A l \in Loop : phase'[l] = "run" <=> phase[l] = "run"
    BY <2>1
  <2> QED BY <2>2 DEF Inv, Batches
<1>6. Phases'
  <2>1. \A t \in T : phase'[t] = phase[t]
    BY LoopFacts
  <2> QED BY <1>1, <2>1 DEF Inv, Phases, Building
<1>7. Numbers'
  BY <1>1 DEF Inv, Numbers
<1>8. Held' /\ AliveSet' = AliveSet
  BY <1>1, ConnsKept
<1> QED BY <1>2, <1>4, <1>5, <1>6, <1>7, <1>8

\* The acceptor starts and stops, connections arrive, and other threads open
\* and close descriptors.
LEMMA SurroundingsInv ==
    ASSUME Inv, Listen \/ DestroyAcceptor \/ Arrive \/ OtherOpens \/ OtherCloses
    PROVE  Inv'
<1>1. /\ UNCHANGED <<program, poolVars, phase, queue, batch, ran, connVars, shed, fault>>
  BY DEF Listen, DestroyAcceptor, Arrive, OtherOpens, OtherCloses, loopVars, accVars, Acc!Listen,
         Acc!Destroy, Acc!Arrive
<1>n. /\ backlog \in Nat /\ arrived \in Nat /\ nextConnId \in Nat /\ others \in Nat
      /\ program.arrivals \in Nat /\ program.descriptors \in Nat
      /\ nextConnId + backlog <= arrived + 1 /\ arrived <= program.arrivals
      /\ Others \in Nat /\ Used \in Nat /\ Used <= program.descriptors
      /\ Free > 0 <=> Used < program.descriptors
  BY AcceptorFacts
<1>2. /\ listening \in BOOLEAN /\ idleFd \in BOOLEAN /\ stolen \in BOOLEAN
      /\ shed \in {"no", "accept", "close", "open"}
  BY PoolTypes DEF Inv, TypeOK
<1>3. owner' = owner
  BY <1>1 DEF poolVars
<1>4. (idleFd => Used = Others + 1) /\ (~idleFd => Used = Others)
  BY AcceptorFacts
<1>5. CASE Listen
  <2>1. /\ owner = "deal" /\ ~listening /\ listening' = TRUE
        /\ UNCHANGED <<idleFd, backlog, arrived, others, stolen>>
    BY <1>5 DEF Listen, Acc!Listen, envVars
  <2>2. phase[0] = "poll" /\ shed = "no"
    BY <2>1 DEF Inv, Phases
  <2>3. TypeOK' /\ Batches' /\ PoolInv' /\ Phases' /\ Numbers' /\ Held' /\ AliveSet' = AliveSet
    <3>1. Acc!TypeOK'
      BY <1>n, <1>1, <1>2, <2>1 DEF Acc!TypeOK
    <3> QED BY <1>n, <1>1, <1>2, <2>1, <2>2, <3>1, AcceptorFrame DEF Building
  <2>4. Descriptors'
    BY <1>1, <1>3, <2>1, <2>3, DescriptorsKept
  <2> QED BY <2>3, <2>4 DEF Inv, PoolInv
<1>6. CASE DestroyAcceptor
  <2>1. /\ owner = "done" /\ listening /\ listening' = FALSE /\ idleFd' = FALSE /\ backlog' = 0
        /\ UNCHANGED <<arrived, others, stolen>>
    BY <1>6 DEF DestroyAcceptor, Acc!Destroy, envVars
  <2>2. phase[0] = "poll" /\ shed = "no"
    BY <2>1 DEF Inv, Phases
  <2>3. nextConnId + backlog' <= arrived' + 1
    BY <1>n, <2>1
  <2>4. TypeOK' /\ Batches' /\ PoolInv' /\ Phases' /\ Numbers' /\ Held' /\ AliveSet' = AliveSet
    <3>1. Acc!TypeOK'
      BY <1>1, <1>2, <2>1 DEF Acc!TypeOK
    <3> QED BY <1>n, <1>1, <1>2, <2>1, <2>2, <2>3, <3>1, AcceptorFrame
  <2>5. Used' <= program.descriptors
    <3>1. PICK n \in Nat : /\ Others = n + others /\ Others' = n + others'
                           /\ Used' = IF idleFd' THEN Others' + 1 ELSE Others'
      BY <1>n, <2>1, <2>4, UsedAfter DEF Inv
    <3>2. Used' = Others
      BY <2>1, <3>1
    <3>3. Others <= Used
      BY <1>n, <1>4
    <3> QED BY <1>n, <3>2, <3>3
  <2>6. Descriptors'
    BY <1>1, <1>3, <2>1, <2>2, <2>5 DEF Descriptors
  <2> QED BY <2>4, <2>6 DEF Inv, PoolInv
<1>7. CASE Arrive
  <2>1. /\ arrived < program.arrivals /\ listening /\ backlog' = backlog + 1 /\ arrived' = arrived + 1
        /\ UNCHANGED <<listening, idleFd, others, stolen>>
    BY <1>7 DEF Arrive, Acc!Arrive
  <2>2. /\ nextConnId + backlog' <= arrived' + 1 /\ arrived' \in Nat /\ arrived' <= program.arrivals
        /\ backlog' \in Nat /\ backlog' > 0
    BY <1>n, <2>1
  <2>3. TypeOK' /\ Batches' /\ PoolInv' /\ Phases' /\ Numbers' /\ Held' /\ AliveSet' = AliveSet
    <3>1. Acc!TypeOK'
      BY <1>1, <1>2, <2>1, <2>2 DEF Acc!TypeOK
    <3>2. /\ phase[0] # "poll" => (owner = "deal" /\ listening) \/ (owner = "done" /\ ~listening)
          /\ phase[0] = "accept" => listening
          /\ shed # "no" => phase[0] = "accept"
          /\ listening => owner # "setup" /\ ~Building
      BY DEF Inv, Phases
    <3> QED BY <1>n, <1>1, <1>2, <2>1, <2>2, <3>1, <3>2, AcceptorFrame
  <2>4. Descriptors'
    BY <1>1, <1>3, <2>1, <2>3, DescriptorsKept
  <2> QED BY <2>3, <2>4 DEF Inv, PoolInv
<1>8. ASSUME OtherOpens \/ OtherCloses, stolen' \in BOOLEAN, others' \in Nat,
             UNCHANGED <<listening, idleFd, backlog, arrived>>
      PROVE  TypeOK' /\ Batches' /\ PoolInv' /\ Phases' /\ Numbers' /\ Held' /\ AliveSet' = AliveSet
  <2>1. Acc!TypeOK'
    BY <1>n, <1>1, <1>2, <1>8 DEF Acc!TypeOK
  <2>2. /\ phase[0] # "poll" => (owner = "deal" /\ listening) \/ (owner = "done" /\ ~listening)
        /\ phase[0] = "accept" => listening
        /\ shed # "no" => phase[0] = "accept"
        /\ shed = "accept" => backlog > 0
        /\ listening => owner # "setup" /\ ~Building
    BY DEF Inv, Phases
  <2> QED BY <1>n, <1>1, <1>2, <1>8, <2>1, <2>2, AcceptorFrame
<1>9. CASE OtherOpens
  <2>1. /\ Free > 0 /\ others' = others + 1 /\ stolen' = (stolen \/ shed # "no")
        /\ UNCHANGED <<listening, idleFd, backlog, arrived>>
    BY <1>9 DEF OtherOpens, accVars
  <2>2. stolen' \in BOOLEAN /\ (~stolen' => ~stolen /\ shed = "no")
    BY <1>2, <2>1
  <2>3. others' \in Nat
    BY <1>n, <2>1
  <2>4. TypeOK' /\ Batches' /\ PoolInv' /\ Phases' /\ Numbers' /\ Held' /\ AliveSet' = AliveSet
    BY <1>8, <1>9, <2>1, <2>2, <2>3
  <2>5. Used' <= program.descriptors
    <3>1. PICK n \in Nat : /\ Others = n + others /\ Others' = n + others'
                           /\ Used' = IF idleFd' THEN Others' + 1 ELSE Others'
      BY <2>3, <2>4, UsedAfter DEF Inv
    <3>2. Others' = Others + 1
      BY <1>n, <2>1, <3>1
    <3>3. Used' = Used + 1
      BY <1>n, <1>4, <2>1, <3>1, <3>2
    <3>4. Used < program.descriptors
      BY <1>n, <2>1
    <3> QED BY <1>n, <3>3, <3>4
  <2>6. Descriptors'
    BY <1>1, <1>3, <2>1, <2>2, <2>5 DEF Inv, Descriptors
  <2> QED BY <2>4, <2>6 DEF Inv, PoolInv
<1>10. CASE OtherCloses
  <2>1. /\ others > 0 /\ others' = others - 1 /\ UNCHANGED <<listening, idleFd, backlog, arrived, stolen>>
    BY <1>10 DEF OtherCloses, accVars
  <2>2. others' \in Nat
    BY <1>n, <2>1
  <2>3. TypeOK' /\ Batches' /\ PoolInv' /\ Phases' /\ Numbers' /\ Held' /\ AliveSet' = AliveSet
    BY <1>2, <1>8, <1>10, <2>1, <2>2
  <2>4. PICK n \in Nat : /\ Others = n + others /\ Others' = n + others'
                         /\ Used' = IF idleFd' THEN Others' + 1 ELSE Others'
    BY <2>2, <2>3, UsedAfter DEF Inv
  <2>5. Others' = Others - 1 /\ Others' \in Nat
    BY <1>n, <2>1, <2>4
  <2>6. Used' = Used - 1
    BY <1>n, <1>4, <2>1, <2>4, <2>5
  <2>7. Used' <= program.descriptors /\ (Others < program.descriptors => Others' < program.descriptors)
    BY <1>n, <2>5, <2>6
  <2>8. Descriptors'
    BY <1>1, <1>3, <2>1, <2>7 DEF Inv, Descriptors
  <2> QED BY <2>3, <2>8 DEF Inv, PoolInv
<1> QED BY <1>5, <1>6, <1>7, <1>9, <1>10

\* handleRead of the acceptor, when accept gives no connection.
LEMMA NoConnectionInv ==
    ASSUME Inv, AcceptFails \/ AcceptFatal \/ Emfile \/ Shed
    PROVE  Inv'
<1>1. /\ phase[0] = "accept"
      /\ UNCHANGED <<program, poolVars, queue, batch, ran, connVars, arrived, others, stolen, listening>>
  BY DEF AcceptFails, AcceptFatal, Emfile, Shed, AcceptStep, envVars, accVars, Acc!AcceptFails,
         Acc!Emfile, Acc!Shed, Acc!ShedAccept, Acc!ShedAcceptFails, Acc!ShedClose, Acc!Reopen
<1>n. /\ backlog \in Nat /\ arrived \in Nat /\ nextConnId \in Nat /\ others \in Nat
      /\ program.arrivals \in Nat /\ program.descriptors \in Nat
      /\ nextConnId + backlog <= arrived + 1 /\ arrived <= program.arrivals
      /\ Others \in Nat /\ Used \in Nat /\ Used <= program.descriptors
      /\ Free \in Nat /\ (Free > 0 <=> Used < program.descriptors)
  BY AcceptorFacts
<1>2. /\ listening \in BOOLEAN /\ idleFd \in BOOLEAN /\ stolen \in BOOLEAN
      /\ shed \in {"no", "accept", "close", "open"}
      /\ phase \in [Loop -> {"poll", "accept", "handle", "run"}]
  BY PoolTypes DEF Inv, TypeOK
<1>3. owner' = owner /\ owner = "deal" /\ listening
  BY <1>1 DEF poolVars, Inv, Phases
<1>4. (idleFd => Used = Others + 1) /\ (~idleFd => Used = Others)
  BY AcceptorFacts
<1>5. ASSUME Acc!TypeOK', backlog' <= backlog,
             phase' = phase \/ (phase' = [phase EXCEPT ![0] = "handle"] /\ shed' = "no"),
             shed' = "accept" => backlog' > 0
      PROVE  TypeOK' /\ Batches' /\ PoolInv' /\ Phases' /\ Numbers' /\ Held' /\ AliveSet' = AliveSet
  <2>1. phase'[0] \in {"accept", "handle"} /\ \A l \in Loop : l # 0 => phase'[l] = phase[l]
    BY <1>1, <1>2, <1>5, LoopFacts
  <2>2. shed' # "no" => phase'[0] = "accept"
    BY <1>1, <1>5
  <2>3. nextConnId + backlog' <= arrived + 1
    <3>1. backlog' \in Nat
      BY <1>5 DEF Acc!TypeOK
    <3>2. backlog' <= backlog
      BY <1>5
    <3>3. /\ backlog \in Nat /\ nextConnId \in Nat /\ arrived \in Nat
          /\ nextConnId + backlog <= arrived + 1
      BY <1>n
    <3>4. \A n, b, d, a \in Nat : n + b <= a + 1 /\ d <= b => n + d <= a + 1
      OBVIOUS
    <3> QED BY <3>1, <3>2, <3>3, <3>4
  <2> QED BY <1>n, <1>1, <1>2, <1>3, <1>5, <2>1, <2>2, <2>3, AcceptorFrame DEF Building
<1>6. ASSUME AliveSet' = AliveSet
      PROVE  Others' = Others /\ (idleFd' => Used' = Others + 1) /\ (~idleFd' => Used' = Others)
  <2>1. PICK n \in Nat : /\ Others = n + others /\ Others' = n + others'
                         /\ Used' = IF idleFd' THEN Others' + 1 ELSE Others'
    BY <1>n, <1>1, <1>6, UsedAfter DEF Inv
  <2>2. Others' = Others
    BY <1>1, <2>1
  <2> QED BY <2>1, <2>2
<1>7. CASE AcceptFails \/ AcceptFatal
  <2>1. /\ backlog' \in {backlog, backlog - 1} /\ backlog > 0 /\ UNCHANGED <<idleFd, shed>> /\ shed = "no"
        /\ phase' = phase \/ phase' = [phase EXCEPT ![0] = "handle"]
    BY <1>7 DEF AcceptFails, AcceptFatal, Acc!AcceptFails, Acc!Pending, accVars
  <2>2. backlog' \in Nat /\ backlog' <= backlog
    BY <1>n, <2>1
  <2>3. TypeOK' /\ Batches' /\ PoolInv' /\ Phases' /\ Numbers' /\ Held' /\ AliveSet' = AliveSet
    <3>1. Acc!TypeOK'
      BY <1>1, <1>2, <2>1, <2>2 DEF Acc!TypeOK
    <3> QED BY <1>5, <2>1, <2>2, <3>1
  <2>4. Descriptors'
    BY <1>1, <1>3, <2>1, <2>3, DescriptorsKept
  <2> QED BY <2>3, <2>4 DEF Inv, PoolInv
<1>8. CASE Emfile
  <2>1. /\ shed = "no" /\ backlog > 0 /\ idleFd' = FALSE /\ shed' = "accept"
        /\ backlog' = backlog /\ phase' = phase
    BY <1>8 DEF Emfile, Acc!Emfile, Acc!Pending
  <2>2. TypeOK' /\ Batches' /\ PoolInv' /\ Phases' /\ Numbers' /\ Held' /\ AliveSet' = AliveSet
    <3>1. backlog' <= backlog
      BY <1>n, <2>1
    <3>2. backlog' \in Nat
      BY <1>n, <2>1
    <3>3. Acc!TypeOK'
      BY <1>1, <1>2, <2>1, <3>2, Zenon DEF Acc!TypeOK
    <3> QED BY <1>5, <2>1, <3>1, <3>3
  <2>3. Others' = Others /\ Used' = Others
    BY <1>6, <2>1, <2>2
  <2>4. program.idleOpens /\ ~stolen => idleFd
    BY <1>3, <2>1 DEF Inv, Descriptors
  <2>5. idleFd => Others < program.descriptors
    BY <1>n, <1>4
  <2>6. Used' <= program.descriptors
    <3>1. Others <= Used
      BY <1>n, <1>4
    <3> QED BY <1>n, <2>3, <3>1
  <2>7. Descriptors'
    BY <1>1, <2>1, <2>3, <2>4, <2>5, <2>6 DEF Descriptors
  <2> QED BY <2>2, <2>7 DEF Inv, PoolInv
<1>9. CASE Shed
  <2>1. /\ Acc!ShedAccept(Free) \/ Acc!ShedAcceptFails(Free) \/ Acc!ShedClose \/ Acc!Reopen(Free)
        /\ phase' = [phase EXCEPT ![0] = IF shed' = "no" THEN "handle" ELSE @]
    BY <1>9 DEF Shed, Acc!Shed
  <2>2. /\ shed # "no" /\ shed' \in {"no", "close", "open"} /\ idleFd' \in BOOLEAN
        /\ shed' = "open" => ~idleFd'
    <3>1. idleFd' = FALSE \/ idleFd' = (Free > 0)
      BY <2>1, Zenon DEF Acc!ShedAccept, Acc!ShedAcceptFails, Acc!ShedClose, Acc!Reopen
    <3>0. (Free > 0) \in BOOLEAN
      OBVIOUS
    <3>2. idleFd' \in BOOLEAN
      BY <3>0, <3>1, Zenon
    <3>3. shed' = "open" => idleFd' = FALSE
      BY <2>1 DEF Acc!ShedAccept, Acc!ShedAcceptFails, Acc!ShedClose, Acc!Reopen
    <3>4. shed # "no" /\ shed' \in {"no", "close", "open"}
      BY <2>1 DEF Acc!ShedAccept, Acc!ShedAcceptFails, Acc!ShedClose, Acc!Reopen
    <3> QED BY <3>2, <3>3, <3>4, Zenon
  <2>3. /\ idleFd' => Free > 0
        /\ shed' = "no" => shed = "open" /\ (Free > 0 => idleFd')
    BY <2>1 DEF Acc!ShedAccept, Acc!ShedAcceptFails, Acc!ShedClose, Acc!Reopen
  <2>4. backlog' = backlog \/ (shed = "accept" /\ backlog' = backlog - 1)
    BY <2>1 DEF Acc!ShedAccept, Acc!ShedAcceptFails, Acc!ShedClose, Acc!Reopen
  <2>5. shed = "accept" => backlog > 0
    BY DEF Inv, Phases
  <2>6. backlog' \in Nat /\ backlog' <= backlog
    BY <1>n, <2>4, <2>5
  <2>7. phase' = phase \/ (phase' = [phase EXCEPT ![0] = "handle"] /\ shed' = "no")
    BY <1>2, <2>1
  <2>8. TypeOK' /\ Batches' /\ PoolInv' /\ Phases' /\ Numbers' /\ Held' /\ AliveSet' = AliveSet
    <3>1. Acc!TypeOK'
      BY <1>1, <1>2, <2>2, <2>6 DEF Acc!TypeOK
    <3> QED BY <1>5, <2>2, <2>6, <2>7, <3>1
  <2>9. Others' = Others /\ (idleFd' => Used' = Others + 1) /\ (~idleFd' => Used' = Others)
    BY <1>6, <2>8
  <2>10. Others <= Used
    BY <1>n, <1>4
  <2>11. Used' <= program.descriptors
    <3>1. CASE idleFd'
      BY <1>n, <2>3, <2>9, <2>10, <3>1
    <3>2. CASE ~idleFd'
      BY <1>n, <2>9, <2>10, <3>2
    <3> QED BY <3>1, <3>2
  <2>12. program.idleOpens /\ ~stolen => Others < program.descriptors
    BY <2>2 DEF Inv, Descriptors
  <2>13. shed' = "no" /\ Others < program.descriptors => idleFd'
    <3>1. shed = "open" => ~idleFd
      BY DEF Inv, Descriptors
    <3>2. shed = "open" /\ Others < program.descriptors => Free > 0
      BY <1>n, <1>4, <3>1
    <3> QED BY <2>3, <3>2
  <2>14. Descriptors'
    BY <1>1, <2>2, <2>9, <2>11, <2>12, <2>13 DEF Descriptors
  <2> QED BY <2>8, <2>14 DEF Inv, PoolInv
<1> QED BY <1>7, <1>8, <1>9

-----------------------------------------------------------------------------
(* The hand-overs: functors leave at the front of a queue and enter at its *)
(* end.                                                                    *)

\* Steps that write an eventfd and may deal a loop out.
LEMMA PoolWoken ==
    ASSUME Inv, program' = program, wakeup' \in [T -> BOOLEAN],
           UNCHANGED <<numThreads, owner, cur, thread, loop, alive, quit, loops, failed>>,
           next' = next \/ (owner # "setup" /\ next' \in Nat /\ (numThreads > 0 => next' < numThreads))
    PROVE  PoolInv'
<1>0. T = Pool!T
  BY DEF T, Pool!T
<1>1. next' \in Nat /\ (numThreads > 0 => next' < numThreads)
  BY PoolTypes DEF Inv
<1>2. Pool!TypeOK'
  BY <1>0, <1>1 DEF Inv, TypeOK, Pool!TypeOK
<1>3. owner = "setup" => next' = 0
  BY DEF Inv, OwnerInv
<1>4. OwnerInv'
  BY <1>3 DEF Inv, OwnerInv, Building
<1>5. \A t \in T : ThreadInv(t)'
  BY DEF Inv, ThreadInv, Told, Building
<1> QED BY <1>2, <1>4, <1>5 DEF PoolInv

\* queueInLoop adds one functor, at the end of one queue.
LEMMA PushedFacts ==
    ASSUME NEW q \in [Loop -> Seq(Tasks)], NEW h \in Loop, NEW f \in Tasks
    PROVE  /\ Pushed(q, h, f) \in [Loop -> Seq(Tasks)]
           /\ Pushed(q, h, f)[h] = Append(q[h], f)
           /\ \A m \in Loop : m # h => Pushed(q, h, f)[m] = q[m]
           /\ Len(q[h]) \in Nat /\ Len(Pushed(q, h, f)[h]) = Len(q[h]) + 1
           /\ \A i \in 1..Len(q[h]) : Pushed(q, h, f)[h][i] = q[h][i]
           /\ Pushed(q, h, f)[h][Len(q[h]) + 1] = f
<1>1. q[h] \in Seq(Tasks)
  OBVIOUS
<1>2. Append(q[h], f) \in Seq(Tasks) /\ Len(Append(q[h], f)) = Len(q[h]) + 1
  BY <1>1, AppendProperties
<1>3. (\A i \in 1..Len(q[h]) : Append(q[h], f)[i] = q[h][i]) /\ Append(q[h], f)[Len(q[h]) + 1] = f
  BY <1>1, AppendProperties
<1>4. /\ Pushed(q, h, f) \in [Loop -> Seq(Tasks)]
      /\ Pushed(q, h, f)[h] = Append(q[h], f)
      /\ \A m \in Loop : m # h => Pushed(q, h, f)[m] = q[m]
  BY <1>2 DEF Pushed
<1>5. Len(q[h]) \in Nat
  BY <1>1, LenProperties
<1> QED BY <1>2, <1>3, <1>4, <1>5

\* Running a functor: the loop's position, and its queue.
LEMMA RunFacts ==
    ASSUME Inv, NEW l \in Loop, NEW op \in Ops, NEW c \in Conn, Run(l, op, c)
    PROVE  /\ phase[l] = "run" /\ ran[l] < batch[l] /\ batch[l] <= Len(queue[l])
           /\ Size(l) >= 1 /\ Todo(l, 1) = Task(op, c)
           /\ phase' \in [Loop -> {"poll", "accept", "handle", "run"}]
           /\ ran' \in [Loop -> Nat] /\ batch' \in [Loop -> Nat]
           /\ \A m \in Loop : m # l => phase'[m] = phase[m] /\ ran'[m] = ran[m] /\ batch'[m] = batch[m]
           /\ EndsBatch(l) => phase'[l] = "poll" /\ ran'[l] = 0 /\ batch'[l] = 0
           /\ ~EndsBatch(l) => phase'[l] = "run" /\ ran'[l] = ran[l] + 1 /\ batch'[l] = batch[l]
<1>1. phase[l] = "run" /\ queue[l][ran[l] + 1] = Task(op, c)
  BY DEF Run
<1>2. ran[l] < batch[l] /\ batch[l] <= Len(queue[l])
  BY <1>1 DEF Inv, Batches
<1>3. ran[l] \in Nat /\ batch[l] \in Nat /\ Len(queue[l]) \in Nat
  BY QueueFacts DEF Inv
<1>4. Size(l) >= 1
  BY <1>2, <1>3 DEF Size
<1>5. Todo(l, 1) = Task(op, c)
  BY <1>1 DEF Todo
<1>6. /\ phase \in [Loop -> {"poll", "accept", "handle", "run"}]
      /\ ran \in [Loop -> Nat] /\ batch \in [Loop -> Nat]
  BY DEF Inv, TypeOK, Batches
<1>7. /\ ran' = [ran EXCEPT ![l] = IF EndsBatch(l) THEN 0 ELSE ran[l] + 1]
      /\ batch' = [batch EXCEPT ![l] = IF EndsBatch(l) THEN 0 ELSE batch[l]]
      /\ phase' = [phase EXCEPT ![l] = IF EndsBatch(l) THEN "poll" ELSE phase[l]]
  BY DEF Run
<1>8. ran[l] + 1 \in Nat
  BY <1>3
<1>9. /\ phase' \in [Loop -> {"poll", "accept", "handle", "run"}]
      /\ ran' \in [Loop -> Nat] /\ batch' \in [Loop -> Nat]
  BY <1>3, <1>6, <1>7, <1>8
<1>10. \A m \in Loop : m # l => phase'[m] = phase[m] /\ ran'[m] = ran[m] /\ batch'[m] = batch[m]
  BY <1>6, <1>7
<1>11. /\ EndsBatch(l) => phase'[l] = "poll" /\ ran'[l] = 0 /\ batch'[l] = 0
       /\ ~EndsBatch(l) => phase'[l] = "run" /\ ran'[l] = ran[l] + 1 /\ batch'[l] = batch[l]
  BY <1>1, <1>6, <1>7
<1> QED BY <1>1, <1>2, <1>4, <1>5, <1>9, <1>10, <1>11

LEMMA LeftFacts ==
    ASSUME Inv, NEW l \in Loop, NEW op \in Ops, NEW c \in Conn, Run(l, op, c)
    PROVE  /\ Left(l) \in [Loop -> Seq(Tasks)]
           /\ \A m \in Loop : m # l => Left(l)[m] = queue[m]
           /\ ran'[l] <= Len(Left(l)[l])
           /\ Len(Left(l)[l]) - ran'[l] = Size(l) - 1
           /\ \A i \in 1..(Size(l) - 1) : Left(l)[l][ran'[l] + i] = Todo(l, i + 1)
           /\ phase'[l] = "run" => ran'[l] < batch'[l] /\ batch'[l] <= Len(Left(l)[l])
           /\ \A i \in DOMAIN Left(l)[l] : \E j \in DOMAIN queue[l] : Left(l)[l][i] = queue[l][j]
<1>1. /\ ran[l] < batch[l] /\ batch[l] <= Len(queue[l]) /\ Size(l) >= 1
      /\ EndsBatch(l) => phase'[l] = "poll" /\ ran'[l] = 0 /\ batch'[l] = 0
      /\ ~EndsBatch(l) => phase'[l] = "run" /\ ran'[l] = ran[l] + 1 /\ batch'[l] = batch[l]
  BY RunFacts
<1>2. /\ queue \in [Loop -> Seq(Tasks)] /\ queue[l] \in Seq(Tasks)
      /\ Len(queue[l]) \in Nat /\ ran[l] \in Nat /\ batch[l] \in Nat
      /\ DOMAIN queue[l] = 1..Len(queue[l])
  BY QueueFacts DEF Inv
<1>3. CASE ~EndsBatch(l)
  <2>1. Left(l) = queue
    BY <1>2, <1>3 DEF Left
  <2>2. ran'[l] = ran[l] + 1 /\ batch'[l] = batch[l] /\ ran[l] + 1 # batch[l]
    BY <1>1, <1>3 DEF EndsBatch
  <2>3. ran'[l] < batch'[l] /\ batch'[l] <= Len(queue[l]) /\ ran'[l] <= Len(queue[l])
    BY <1>1, <1>2, <2>2
  <2>4. Len(queue[l]) - ran'[l] = Size(l) - 1
    BY <1>2, <2>2 DEF Size
  <2>5. \A i \in 1..(Size(l) - 1) : ran'[l] + i = ran[l] + (i + 1)
    <3>1. \A n \in Nat, i \in Int : (n + 1) + i = n + (i + 1)
      OBVIOUS
    <3>2. \A i \in 1..(Size(l) - 1) : i \in Int
      BY <1>2 DEF Size
    <3> QED BY <1>2, <2>2, <3>1, <3>2
  <2> QED BY <1>2, <2>1, <2>3, <2>4, <2>5 DEF Todo
<1>4. CASE EndsBatch(l)
  <2> DEFINE s == SubSeq(queue[l], batch[l] + 1, Len(queue[l]))
  <2>1. Left(l) = [queue EXCEPT ![l] = s]
    BY <1>2, <1>4 DEF Left
  <2>2. ran'[l] = 0 /\ phase'[l] = "poll" /\ batch[l] = ran[l] + 1
    BY <1>1, <1>4 DEF EndsBatch
  <2>3. batch[l] + 1 \in 1..(Len(queue[l]) + 1)
    BY <1>1, <1>2
  <2>4. /\ s \in Seq(Tasks) /\ Len(s) = Len(queue[l]) - batch[l]
        /\ \A i \in 1..Len(s) : s[i] = queue[l][batch[l] + i]
    <3>1. batch[l] + 1 \in Int /\ Len(queue[l]) \in Int
      BY <1>2
    <3>2. \A i \in (batch[l] + 1)..Len(queue[l]) : queue[l][i] \in Tasks
      <4>1. \A i \in (batch[l] + 1)..Len(queue[l]) : i \in 1..Len(queue[l])
        BY <1>2
      <4> QED BY <1>2, <4>1, ElementOfSeq
    <3>3. /\ s \in Seq(Tasks)
          /\ Len(s) = IF batch[l] + 1 <= Len(queue[l]) THEN Len(queue[l]) - (batch[l] + 1) + 1 ELSE 0
          /\ \A i \in 1..(Len(queue[l]) - (batch[l] + 1) + 1) : s[i] = queue[l][batch[l] + 1 + i - 1]
      BY <3>1, <3>2, SubSeqProperties
    <3> HIDE DEF s
    <3>4. Len(queue[l]) - (batch[l] + 1) + 1 = Len(queue[l]) - batch[l]
      BY <1>2
    <3>5. Len(s) = Len(queue[l]) - batch[l]
      BY <1>1, <1>2, <3>3
    <3>6. \A i \in 1..Len(s) : i \in Int /\ batch[l] + 1 + i - 1 = batch[l] + i
      <4>1. \A n \in Nat, i \in Int : n + 1 + i - 1 = n + i
        OBVIOUS
      <4>2. \A i \in 1..Len(s) : i \in Int
        BY <1>2, <3>5
      <4> QED BY <1>2, <4>1, <4>2
    <3> QED BY <3>3, <3>4, <3>5, <3>6
  <2> HIDE DEF s
  <2>5. Left(l)[l] = s /\ Left(l) \in [Loop -> Seq(Tasks)] /\ \A m \in Loop : m # l => Left(l)[m] = queue[m]
    BY <1>2, <2>1, <2>4
  <2>6. Len(s) - ran'[l] = Size(l) - 1 /\ ran'[l] <= Len(s) /\ Len(s) = Size(l) - 1
    BY <1>1, <1>2, <2>2, <2>4 DEF Size
  <2>7. \A i \in 1..(Size(l) - 1) : ran'[l] + i \in 1..Len(s) /\ ran'[l] + i = i /\ batch[l] + i = ran[l] + (i + 1)
    BY <1>1, <1>2, <2>2, <2>4, <2>6
  <2>8. \A i \in 1..(Size(l) - 1) : s[ran'[l] + i] = Todo(l, i + 1)
    BY <2>4, <2>7 DEF Todo
  <2>9. \A i \in DOMAIN s : \E j \in DOMAIN queue[l] : s[i] = queue[l][j]
    <3>1. DOMAIN s = 1..Len(s)
      BY <2>4, LenProperties
    <3>2. \A i \in 1..Len(s) : batch[l] + i \in DOMAIN queue[l]
      BY <1>2, <2>4
    <3> QED BY <2>4, <3>1, <3>2
  <2> QED BY <2>2, <2>5, <2>6, <2>8, <2>9
<1> QED BY <1>3, <1>4

\* A step runs the first d[l] functors of each loop l; q is what it leaves of
\* the queues, before it pushes anything.
Basis(q, d) ==
    /\ q \in [Loop -> Seq(Tasks)] /\ d \in [Loop -> {0, 1}]
    /\ ran' \in [Loop -> Nat] /\ batch' \in [Loop -> Nat]
    /\ \A m \in Loop :
          /\ ran'[m] <= Len(q[m]) /\ Len(q[m]) - ran'[m] = Size(m) - d[m]
          /\ \A i \in 1..(Size(m) - d[m]) : q[m][ran'[m] + i] = Todo(m, i + d[m])
          /\ IF phase'[m] = "run" THEN ran'[m] < batch'[m] /\ batch'[m] <= Len(q[m])
                                  ELSE ran'[m] = 0 /\ batch'[m] = 0
          /\ \A i \in DOMAIN q[m] : \E j \in DOMAIN queue[m] : q[m][i] = queue[m][j]

\* What is then ahead of each loop begins with what was ahead before.
Follows(d) ==
    /\ d \in [Loop -> {0, 1}]
    /\ \A l \in Loop :
          /\ d[l] <= Size(l) /\ Size(l)' \in Nat /\ Size(l) - d[l] <= Size(l)'
          /\ \A i \in 1..(Size(l) - d[l]) : Todo(l, i)' = Todo(l, i + d[l])

NoneRun == [m \in Loop |-> 0]
OneRun(l) == [m \in Loop |-> IF m = l THEN 1 ELSE 0]

LEMMA LeftBasis ==
    ASSUME Inv, NEW l \in Loop, NEW op \in Ops, NEW c \in Conn, Run(l, op, c)
    PROVE  Basis(Left(l), OneRun(l))
<1>1. /\ OneRun(l) \in [Loop -> {0, 1}] /\ OneRun(l)[l] = 1
      /\ \A m \in Loop : m # l => OneRun(l)[m] = 0
  BY DEF OneRun
<1>2. ran' \in [Loop -> Nat] /\ batch' \in [Loop -> Nat] /\ Left(l) \in [Loop -> Seq(Tasks)]
  BY RunFacts, LeftFacts
<1>3. ASSUME NEW m \in Loop
      PROVE  /\ ran'[m] <= Len(Left(l)[m]) /\ Len(Left(l)[m]) - ran'[m] = Size(m) - OneRun(l)[m]
             /\ \A i \in 1..(Size(m) - OneRun(l)[m]) :
                   Left(l)[m][ran'[m] + i] = Todo(m, i + OneRun(l)[m])
             /\ IF phase'[m] = "run" THEN ran'[m] < batch'[m] /\ batch'[m] <= Len(Left(l)[m])
                                     ELSE ran'[m] = 0 /\ batch'[m] = 0
             /\ \A i \in DOMAIN Left(l)[m] : \E j \in DOMAIN queue[m] : Left(l)[m][i] = queue[m][j]
  <2>1. CASE m = l
    <3>1. phase'[l] # "run" => ran'[l] = 0 /\ batch'[l] = 0
      BY RunFacts
    <3> QED BY <2>1, <1>1, <3>1, LeftFacts
  <2>2. CASE m # l
    <3>1. /\ phase'[m] = phase[m] /\ ran'[m] = ran[m] /\ batch'[m] = batch[m]
          /\ Left(l)[m] = queue[m] /\ OneRun(l)[m] = 0
      BY <1>1, <2>2, RunFacts, LeftFacts
    <3>2. ran[m] <= Len(queue[m]) /\ Len(queue[m]) \in Nat /\ ran[m] \in Nat /\ Size(m) \in Nat
      BY QueueFacts DEF Inv
    <3>3. Len(queue[m]) - ran[m] = Size(m) - 0
      BY <3>2 DEF Size
    <3>4. \A i \in 1..(Size(m) - 0) : i + 0 = i
      BY <3>2
    <3>5. IF phase[m] = "run" THEN ran[m] < batch[m] /\ batch[m] <= Len(queue[m])
                              ELSE ran[m] = 0 /\ batch[m] = 0
      BY DEF Inv, Batches
    <3> QED BY <3>1, <3>2, <3>3, <3>4, <3>5 DEF Todo
  <2> QED BY <2>1, <2>2
<1> QED BY <1>1, <1>2, <1>3 DEF Basis

LEMMA QueueBasis ==
    ASSUME Inv, UNCHANGED <<ran, batch>>, \A m \in Loop : phase'[m] = "run" <=> phase[m] = "run"
    PROVE  Basis(queue, NoneRun)
<1>1. NoneRun \in [Loop -> {0, 1}] /\ \A m \in Loop : NoneRun[m] = 0
  BY DEF NoneRun
<1>2. /\ ran' \in [Loop -> Nat] /\ batch' \in [Loop -> Nat] /\ queue \in [Loop -> Seq(Tasks)]
  BY DEF Inv, TypeOK, Batches, Tasks, Ops
<1>3. ASSUME NEW m \in Loop
      PROVE  /\ ran'[m] <= Len(queue[m]) /\ Len(queue[m]) - ran'[m] = Size(m) - NoneRun[m]
             /\ \A i \in 1..(Size(m) - NoneRun[m]) : queue[m][ran'[m] + i] = Todo(m, i + NoneRun[m])
             /\ IF phase'[m] = "run" THEN ran'[m] < batch'[m] /\ batch'[m] <= Len(queue[m])
                                     ELSE ran'[m] = 0 /\ batch'[m] = 0
  <2>1. ran[m] <= Len(queue[m]) /\ Len(queue[m]) \in Nat /\ ran[m] \in Nat /\ Size(m) \in Nat
    BY QueueFacts DEF Inv
  <2>2. Len(queue[m]) - ran[m] = Size(m) - 0
    BY <2>1 DEF Size
  <2>3. \A i \in 1..(Size(m) - 0) : i + 0 = i
    BY <2>1
  <2>4. IF phase[m] = "run" THEN ran[m] < batch[m] /\ batch[m] <= Len(queue[m])
                            ELSE ran[m] = 0 /\ batch[m] = 0
    BY DEF Inv, Batches
  <2> QED BY <1>1, <2>1, <2>2, <2>3, <2>4 DEF Todo
<1> QED BY <1>1, <1>2, <1>3 DEF Basis

\* With nothing pushed, or with f pushed for loop h.
LEMMA BasisFollows ==
    ASSUME Inv, NEW q, NEW d, Basis(q, d), NEW h \in Loop, NEW f \in Tasks,
           queue' = q \/ queue' = Pushed(q, h, f)
    PROVE  /\ Follows(d) /\ Batches' /\ queue' \in [Loop -> Seq(Tasks)]
           /\ \A m \in Loop : Size(m)' <= Size(m) - d[m] + 1
           /\ \A m \in Loop : \A i \in 1..Size(m)' : i > Size(m) - d[m] =>
                 queue' = Pushed(q, h, f) /\ m = h /\ Todo(m, i)' = f
           /\ queue' = Pushed(q, h, f) =>
                 \E i \in 1..Size(h)' : i > Size(h) - d[h] /\ Todo(h, i)' = f
           /\ \A m \in Loop : \A i \in DOMAIN queue'[m] :
                 \/ \E j \in DOMAIN queue[m] : queue'[m][i] = queue[m][j]
                 \/ queue' = Pushed(q, h, f) /\ m = h /\ queue'[m][i] = f
<1>1. /\ q \in [Loop -> Seq(Tasks)] /\ d \in [Loop -> {0, 1}]
      /\ ran' \in [Loop -> Nat] /\ batch' \in [Loop -> Nat]
  BY DEF Basis
<1>2. queue' \in [Loop -> Seq(Tasks)]
  BY <1>1, PushedFacts
<1>3. \A m \in Loop : \/ queue'[m] = q[m]
                      \/ queue' = Pushed(q, h, f) /\ m = h /\ queue'[m] = Append(q[m], f)
  <2>1. CASE queue' = q
    BY <2>1
  <2>2. CASE queue' = Pushed(q, h, f)
    <3>1. /\ Pushed(q, h, f)[h] = Append(q[h], f)
          /\ \A m \in Loop : m # h => Pushed(q, h, f)[m] = q[m]
      <4>1. q \in [Loop -> Seq(Tasks)]
        BY <1>1
      <4> QED BY <4>1, PushedFacts, SMTT(30)
    <3> QED BY <2>2, <3>1, Zenon
  <2> QED BY <2>1, <2>2
<1>4. ASSUME NEW m \in Loop
      PROVE  /\ Len(q[m]) \in Nat /\ Len(queue'[m]) \in Nat
             /\ queue'[m] = q[m] \/ Len(queue'[m]) = Len(q[m]) + 1
             /\ DOMAIN queue'[m] = 1..Len(queue'[m]) /\ DOMAIN q[m] = 1..Len(q[m])
             /\ \A i \in 1..Len(q[m]) : queue'[m][i] = q[m][i]
             /\ Len(queue'[m]) = Len(q[m]) + 1 =>
                   queue' = Pushed(q, h, f) /\ m = h /\ queue'[m][Len(q[m]) + 1] = f
  <2>1. q[m] \in Seq(Tasks) /\ queue'[m] \in Seq(Tasks)
    BY <1>1, <1>2
  <2>2. /\ Len(q[m]) \in Nat /\ Len(queue'[m]) \in Nat
        /\ DOMAIN queue'[m] = 1..Len(queue'[m]) /\ DOMAIN q[m] = 1..Len(q[m])
    BY <2>1, LenProperties
  <2>3. CASE queue'[m] = q[m]
    <3>1. Len(queue'[m]) # Len(q[m]) + 1
      BY <2>2, <2>3
    <3> QED BY <2>2, <2>3, <3>1
  <2>4. CASE queue' = Pushed(q, h, f) /\ m = h /\ queue'[m] = Append(q[m], f)
    <3>1. /\ Len(queue'[m]) = Len(q[m]) + 1 /\ queue'[m][Len(q[m]) + 1] = f
          /\ \A i \in 1..Len(q[m]) : queue'[m][i] = q[m][i]
      BY <1>1, <2>4, PushedFacts
    <3> QED BY <2>2, <2>4, <3>1
  <2> QED BY <1>3, <2>3, <2>4
<1>5. ASSUME NEW m \in Loop
      PROVE  /\ ran'[m] \in Nat /\ batch'[m] \in Nat /\ ran'[m] <= Len(q[m])
             /\ Len(q[m]) - ran'[m] = Size(m) - d[m] /\ d[m] \in {0, 1} /\ Size(m) \in Nat
             /\ d[m] <= Size(m)
             /\ Size(m)' = Len(queue'[m]) - ran'[m] /\ Size(m)' \in Nat
             /\ Size(m)' = Size(m) - d[m] \/ Size(m)' = Size(m) - d[m] + 1
             /\ Size(m)' = Size(m) - d[m] + 1 => Len(queue'[m]) = Len(q[m]) + 1
             /\ Len(queue'[m]) = Len(q[m]) + 1 => Size(m)' = Size(m) - d[m] + 1
             /\ ran'[m] + (Size(m) - d[m] + 1) = Len(q[m]) + 1
  <2>1. /\ ran'[m] \in Nat /\ batch'[m] \in Nat /\ ran'[m] <= Len(q[m])
        /\ Len(q[m]) - ran'[m] = Size(m) - d[m] /\ d[m] \in {0, 1}
    BY <1>1 DEF Basis
  <2>2. Size(m) \in Nat
    BY QueueFacts DEF Inv
  <2>3. Size(m)' = Len(queue'[m]) - ran'[m]
    BY DEF Size
  <2>4. Len(q[m]) \in Nat /\ Len(queue'[m]) \in Nat
        /\ (Len(queue'[m]) = Len(q[m]) \/ Len(queue'[m]) = Len(q[m]) + 1)
    BY <1>4
  <2> DEFINE a == Len(q[m])
             b == Len(queue'[m])
             r == ran'[m]
             s == Size(m)
             t == Size(m)'
             e == d[m]
  <2>5. /\ a \in Nat /\ b \in Nat /\ r \in Nat /\ s \in Nat /\ e \in {0, 1}
        /\ r <= a /\ a - r = s - e /\ t = b - r /\ (b = a \/ b = a + 1)
    BY <2>1, <2>2, <2>3, <2>4
  <2> HIDE DEF a, b, r, s, t, e
  <2>6. /\ e <= s /\ t \in Nat /\ (t = s - e \/ t = s - e + 1)
        /\ (t = s - e + 1 <=> b = a + 1) /\ r + (s - e + 1) = a + 1
    BY <2>5
  <2> QED BY <2>1, <2>2, <2>3, <2>6 DEF a, b, r, s, t, e
<1>6. ASSUME NEW m \in Loop, NEW i \in 1..(Size(m) - d[m])
      PROVE  Todo(m, i)' = Todo(m, i + d[m])
  <2>1. ran'[m] + i \in 1..Len(q[m])
    <3> DEFINE a == Len(q[m])
               r == ran'[m]
               n == Size(m) - d[m]
    <3>1. a \in Nat /\ r \in Nat /\ n = a - r /\ i \in 1..n
      BY <1>4, <1>5
    <3> HIDE DEF a, r, n
    <3>2. r + i \in 1..a
      BY <3>1
    <3> QED BY <3>2 DEF a, r
  <2>2. q[m][ran'[m] + i] = Todo(m, i + d[m])
    BY DEF Basis
  <2> QED BY <1>4, <2>1, <2>2 DEF Todo
<1>7. Follows(d)
  <2>1. \A l \in Loop : d[l] <= Size(l) /\ Size(l)' \in Nat /\ Size(l) - d[l] <= Size(l)'
    <3> SUFFICES ASSUME NEW l \in Loop
                 PROVE  d[l] <= Size(l) /\ Size(l)' \in Nat /\ Size(l) - d[l] <= Size(l)'
      OBVIOUS
    <3>1. /\ d[l] <= Size(l) /\ Size(l)' \in Nat /\ d[l] \in {0, 1} /\ Size(l) \in Nat
          /\ Size(l)' = Size(l) - d[l] \/ Size(l)' = Size(l) - d[l] + 1
      BY <1>5
    <3> QED BY <3>1
  <2> QED BY <1>1, <1>6, <2>1 DEF Follows
<1>8. Batches'
  <2>1. ASSUME NEW m \in Loop
        PROVE  IF phase'[m] = "run" THEN ran'[m] < batch'[m] /\ batch'[m] <= Len(queue'[m])
                                    ELSE ran'[m] = 0 /\ batch'[m] = 0
    <3>1. IF phase'[m] = "run" THEN ran'[m] < batch'[m] /\ batch'[m] <= Len(q[m])
                               ELSE ran'[m] = 0 /\ batch'[m] = 0
      BY DEF Basis
    <3>2. Len(queue'[m]) = Len(q[m]) \/ Len(queue'[m]) = Len(q[m]) + 1
      BY <1>4
    <3>3. Len(q[m]) \in Nat /\ batch'[m] \in Nat
      BY <1>4, <1>5
    <3>4. batch'[m] <= Len(q[m]) => batch'[m] <= Len(queue'[m])
      BY <3>2, <3>3
    <3> QED BY <3>1, <3>4
  <2> QED BY <1>1, <2>1 DEF Batches
<1>9. ASSUME NEW m \in Loop, NEW i \in 1..Size(m)', i > Size(m) - d[m]
      PROVE  queue' = Pushed(q, h, f) /\ m = h /\ Todo(m, i)' = f
  <2>1. i = Size(m) - d[m] + 1 /\ Size(m)' = Size(m) - d[m] + 1
    <3>1. /\ Size(m) \in Nat /\ d[m] \in {0, 1} /\ Size(m)' \in Nat
          /\ Size(m)' = Size(m) - d[m] \/ Size(m)' = Size(m) - d[m] + 1
      BY <1>5
    <3>2. i > Size(m) - d[m]
      BY <1>9
    <3> QED BY <3>1, <3>2
  <2>2. ran'[m] + i = Len(q[m]) + 1 /\ Len(queue'[m]) = Len(q[m]) + 1
    BY <1>5, <2>1
  <2> QED BY <1>4, <2>2 DEF Todo
<1>10. ASSUME queue' = Pushed(q, h, f)
       PROVE  \E i \in 1..Size(h)' : i > Size(h) - d[h] /\ Todo(h, i)' = f
  <2>1. Len(queue'[h]) = Len(q[h]) + 1
    BY <1>1, <1>10, PushedFacts
  <2>2. Size(h)' = Size(h) - d[h] + 1 /\ Size(h)' \in Nat /\ Size(h) \in Nat /\ d[h] \in {0, 1}
    BY <1>5, <2>1
  <2>3. Size(h)' \in 1..Size(h)' /\ Size(h)' > Size(h) - d[h]
    <3>1. d[h] <= Size(h)
      BY <1>5
    <3> QED BY <2>2, <3>1
  <2> QED BY <1>9, <2>3
<1>11. ASSUME NEW m \in Loop, NEW i \in DOMAIN queue'[m]
       PROVE  \/ \E j \in DOMAIN queue[m] : queue'[m][i] = queue[m][j]
              \/ queue' = Pushed(q, h, f) /\ m = h /\ queue'[m][i] = f
  <2>1. CASE i \in 1..Len(q[m])
    <3>1. queue'[m][i] = q[m][i] /\ i \in DOMAIN q[m]
      BY <1>4, <2>1
    <3> QED BY <3>1 DEF Basis
  <2>2. CASE i \notin 1..Len(q[m])
    <3>1. Len(queue'[m]) = Len(q[m]) + 1 /\ i = Len(q[m]) + 1
      BY <1>4, <2>2
    <3> QED BY <1>4, <3>1
  <2> QED BY <2>1, <2>2
<1>12. ASSUME NEW m \in Loop PROVE Size(m)' <= Size(m) - d[m] + 1
  <2>1. /\ Size(m) \in Nat /\ d[m] \in {0, 1}
        /\ Size(m)' = Size(m) - d[m] \/ Size(m)' = Size(m) - d[m] + 1
    BY <1>5
  <2> QED BY <2>1
<1> QED BY <1>2, <1>7, <1>8, <1>9, <1>10, <1>11, <1>12

\* A functor that stays ahead moves up; one that is ahead was ahead or is new.
LEMMA Moves ==
    ASSUME Inv, NEW d, Follows(d), NEW l \in Loop
    PROVE  /\ Size(l) \in Nat /\ Size(l)' \in Nat /\ d[l] \in {0, 1} /\ d[l] <= Size(l)
           /\ \A i \in 1..Size(l) : i > d[l] =>
                 i - d[l] \in 1..Size(l)' /\ i - d[l] <= Size(l) - d[l] /\ Todo(l, i - d[l])' = Todo(l, i)
           /\ \A i \in 1..Size(l)' : ~(i > Size(l) - d[l]) =>
                 i + d[l] \in 1..Size(l) /\ i + d[l] > d[l] /\ Todo(l, i)' = Todo(l, i + d[l])
<1>1. Size(l) \in Nat
  BY QueueFacts DEF Inv
<1>2. /\ d[l] \in {0, 1} /\ Size(l)' \in Nat /\ d[l] <= Size(l) /\ Size(l) - d[l] <= Size(l)'
      /\ \A i \in 1..(Size(l) - d[l]) : Todo(l, i)' = Todo(l, i + d[l])
  BY DEF Follows
<1>3. ASSUME NEW i \in 1..Size(l), i > d[l]
      PROVE  i - d[l] \in 1..Size(l)' /\ i - d[l] <= Size(l) - d[l] /\ Todo(l, i - d[l])' = Todo(l, i)
  <2>1. /\ i - d[l] \in 1..(Size(l) - d[l]) /\ i - d[l] \in 1..Size(l)' /\ (i - d[l]) + d[l] = i
        /\ i - d[l] <= Size(l) - d[l]
    BY <1>1, <1>2, <1>3
  <2>2. Todo(l, i - d[l])' = Todo(l, (i - d[l]) + d[l])
    BY <1>2, <2>1
  <2> QED BY <2>1, <2>2
<1>4. ASSUME NEW i \in 1..Size(l)', ~(i > Size(l) - d[l])
      PROVE  i + d[l] \in 1..Size(l) /\ i + d[l] > d[l] /\ Todo(l, i)' = Todo(l, i + d[l])
  <2>1. i \in 1..(Size(l) - d[l]) /\ i + d[l] \in 1..Size(l) /\ i + d[l] > d[l]
    BY <1>1, <1>2, <1>4
  <2> QED BY <1>2, <2>1
<1> QED BY <1>1, <1>2, <1>3, <1>4

\* A connection that leaves the map has its connectDestroyed pushed for its
\* loop, or loses its channel.
Parted(c, d) ==
    \/ c \in connections'
    \/ home[c] = 0 /\ channel'[c] # "reading"
    \/ \E l \in Loop : \E i \in 1..Size(l)' :
          l = home[c] /\ i > Size(l) - d[l] /\ Todo(l, i)' = Task("connectDestroyed", c)

LEMMA HeldStep ==
    ASSUME Inv, NEW d, Follows(d), thread' = thread,
           \A c \in Conn : home'[c] = home[c] \/ c \in connections',
           \A l \in Loop : \A i \in 1..Size(l)' :
              i > Size(l) - d[l] /\ Todo(l, i)'.op = "connectEstablished" =>
                 Todo(l, i)'.conn \in connections',
           \A c \in connections : Parted(c, d),
           \A c \in Conn : channel'[c] = "reading" => channel[c] = "reading" \/ Destined(c)',
           \A l \in Loop, c \in Conn : d[l] = 1 /\ Todo(l, 1) = Task("connectDestroyed", c) =>
                 channel'[c] # "reading"
    PROVE  Held'
<1>1. ASSUME NEW c \in Conn, channel'[c] = "reading"
      PROVE  Destined(c)' \/ (home'[c] > 0 /\ thread'[home'[c]] = "done")
  <2>1. CASE c \in connections'
    BY <2>1 DEF Destined
  <2>2. CASE c \notin connections'
    <3>1. home'[c] = home[c] /\ home[c] \in Loop
      BY <2>2 DEF Inv, TypeOK
    <3>2. CASE channel[c] # "reading"
      BY <1>1, <3>2
    <3>3. CASE home[c] > 0 /\ thread[home[c]] = "done"
      BY <3>1, <3>3
    <3>4. CASE c \in connections
      <4>1. PICK l \in Loop : /\ l = home[c]
                             /\ \E i \in 1..Size(l)' : Todo(l, i)' = Task("connectDestroyed", c)
        BY <1>1, <2>2, <3>4 DEF Parted
      <4>2. l = home'[c]
        BY <3>1, <4>1
      <4> QED BY <4>1, <4>2 DEF Destined, Size, Todo
    <3>5. ASSUME NEW l \in Loop, l = home[c], NEW i \in 1..Size(l), Todo(l, i) = Task("connectDestroyed", c)
          PROVE  Destined(c)'
      <4>1. i > d[l]
        <5>1. d[l] \in {0, 1} /\ Size(l) \in Nat
          BY Moves
        <5>2. CASE i = 1 /\ d[l] = 1
          BY <1>1, <3>5, <5>2
        <5>3. CASE ~(i = 1 /\ d[l] = 1)
          BY <5>1, <5>3
        <5> QED BY <5>2, <5>3
      <4>2. i - d[l] \in 1..Size(l)' /\ Todo(l, i - d[l])' = Task("connectDestroyed", c)
        BY <3>5, <4>1, Moves
      <4>3. l = home'[c]
        BY <3>1, <3>5
      <4> QED BY <4>2, <4>3 DEF Destined, Size, Todo
    <3> QED BY <1>1, <3>1, <3>2, <3>3, <3>4, <3>5 DEF Inv, Held, Destined
  <2> QED BY <2>1, <2>2
<1>2. ASSUME NEW l \in Loop, NEW i \in 1..Size(l)', Todo(l, i)'.op = "connectEstablished"
      PROVE  \/ Todo(l, i)'.conn \in connections'
             \/ \E j \in 1..Size(l)' : j > i /\ Todo(l, j)' = Task("connectDestroyed", Todo(l, i)'.conn)
  <2>1. CASE i > Size(l) - d[l]
    BY <1>2, <2>1
  <2>2. CASE ~(i > Size(l) - d[l])
    <3> DEFINE k == i + d[l]
    <3>1. k \in 1..Size(l) /\ k > d[l] /\ Todo(l, i)' = Todo(l, k)
      BY <2>2, Moves
    <3>2. /\ Size(l) \in Nat /\ Size(l)' \in Nat /\ d[l] \in {0, 1} /\ d[l] <= Size(l)
      BY Moves
    <3>a. Todo(l, k) \in Tasks /\ Todo(l, k).op = "connectEstablished" /\ Todo(l, k).conn \in Conn
      BY <1>2, <3>1, QueueFacts, TaskFacts DEF Inv
    <3>3. PICK e \in Conn : e = Todo(l, k).conn
      BY <3>a
    <3>b. Todo(l, i)'.conn = e
      BY <3>1, <3>3
    <3> HIDE DEF k
    <3>4. l = home[e] /\ home[e] > 0
      <4>1. ran[l] + k \in DOMAIN queue[l] /\ queue[l][ran[l] + k] = Todo(l, k)
        BY <3>1, QueueFacts DEF Inv, Todo
      <4> QED BY <3>a, <3>3, <4>1 DEF Inv, Numbers
    <3>5. CASE e \in connections
      <4>1. CASE e \in connections'
        BY <3>b, <4>1
      <4>2. CASE \E m \in Loop : \E j \in 1..Size(m)' :
                   m = home[e] /\ j > Size(m) - d[m] /\ Todo(m, j)' = Task("connectDestroyed", e)
        <5>1. PICK j \in 1..Size(l)' : j > Size(l) - d[l] /\ Todo(l, j)' = Task("connectDestroyed", e)
          BY <3>4, <4>2
        <5>2. j > i
          BY <2>2, <3>2, <5>1
        <5> QED BY <3>b, <5>1, <5>2
      <4>3. ~(home[e] = 0)
        BY <3>4
      <4> QED BY <3>5, <4>1, <4>2, <4>3 DEF Parted
    <3>6. ASSUME NEW j \in 1..Size(l), j > k, Todo(l, j) = Task("connectDestroyed", e)
          PROVE  \E m \in 1..Size(l)' : m > i /\ Todo(l, m)' = Task("connectDestroyed", Todo(l, i)'.conn)
      <4>1. j > d[l] /\ j - d[l] > i
        BY <3>1, <3>2, <3>6 DEF k
      <4>2. j - d[l] \in 1..Size(l)' /\ Todo(l, j - d[l])' = Todo(l, j)
        BY <4>1, Moves
      <4> QED BY <3>b, <3>6, <4>1, <4>2
    <3>7. e \in connections \/ \E j \in 1..Size(l) : j > k /\ Todo(l, j) = Task("connectDestroyed", e)
      BY <3>a, <3>1, <3>3 DEF Inv, Held
    <3> QED BY <3>5, <3>6, <3>7
  <2> QED BY <2>1, <2>2
<1> QED BY <1>1, <1>2 DEF Held

\* Steps that make no connection: a functor that enters a queue is about a
\* connection that somebody holds.
LEMMA ConnFrame ==
    ASSUME Inv, Batches', queue' \in [Loop -> Seq(Tasks)], batch' \in [Loop -> Nat], PoolInv', Held',
           Phases', phase' \in [Loop -> {"poll", "accept", "handle", "run"}],
           UNCHANGED <<program, accVars, home, nextConnId, envVars, numThreads>>,
           owner = "done" => owner' = "done",
           state' \in [Conn -> {"KConnecting", "KConnected", "KDisconnected"}],
           channel' \in [Conn -> {"new", "reading", "off"}],
           connections' \subseteq connections,
           \A l \in Loop : \A i \in DOMAIN queue'[l] :
              \/ \E j \in DOMAIN queue[l] : queue'[l][i] = queue[l][j]
              \/ /\ Alive(queue'[l][i].conn) /\ queue'[l][i].op # "connectEstablished"
                 /\ l = IF queue'[l][i].op = "removeConnectionInLoop" THEN 0 ELSE home[queue'[l][i].conn]
                 /\ queue'[l][i].op # "connectDestroyed" => home[queue'[l][i].conn] > 0
    PROVE  Inv' /\ AliveSet' \subseteq AliveSet
<1>1. TypeOK'
  <2>1. \A l \in Loop : ran'[l] \in 0..batch'[l]
    BY DEF Batches
  <2>2. Acc!TypeOK'
    BY DEF accVars, Inv, TypeOK, Acc!TypeOK
  <2> QED BY <2>1, <2>2 DEF Inv, TypeOK, PoolInv, envVars, Tasks, Ops
<1>2. ASSUME NEW c, Alive(c) PROVE c < nextConnId
  BY <1>2 DEF Alive, Inv, Numbers
<1>3. Numbers'
  <2>1. ASSUME NEW l \in Loop, NEW i \in DOMAIN queue'[l]
        PROVE  LET f == queue'[l][i] IN
               /\ f.conn < nextConnId
               /\ l = IF f.op = "removeConnectionInLoop" THEN 0 ELSE home[f.conn]
               /\ f.op # "connectDestroyed" => home[f.conn] > 0
    <3>1. CASE \E j \in DOMAIN queue[l] : queue'[l][i] = queue[l][j]
      BY <3>1 DEF Inv, Numbers
    <3>2. CASE ~ \E j \in DOMAIN queue[l] : queue'[l][i] = queue[l][j]
      BY <1>2, <3>2
    <3> QED BY <3>1, <3>2
  <2> QED BY <2>1 DEF Inv, Numbers, accVars, envVars
<1>4. AliveSet' \subseteq AliveSet
  <2>1. ASSUME NEW c \in Conn, Alive(c)' PROVE Alive(c)
    <3>1. CASE c \in connections'
      BY <3>1 DEF Alive
    <3>2. ASSUME NEW l \in Loop, NEW i \in DOMAIN queue'[l], queue'[l][i].conn = c PROVE Alive(c)
      <4>1. CASE \E j \in DOMAIN queue[l] : queue'[l][i] = queue[l][j]
        BY <3>2, <4>1 DEF Alive
      <4>2. CASE ~ \E j \in DOMAIN queue[l] : queue'[l][i] = queue[l][j]
        BY <3>2, <4>2
      <4> QED BY <4>1, <4>2
    <3> QED BY <2>1, <3>1, <3>2 DEF Alive
  <2> QED BY <2>1 DEF AliveSet
<1>5. Descriptors'
  BY <1>1, <1>4, DescriptorsKept DEF accVars, envVars
<1> QED BY <1>1, <1>3, <1>4, <1>5 DEF Inv, PoolInv

\* What the functors have in common.
LEMMA RunFrame ==
    ASSUME Inv, NEW l \in Loop, NEW op \in Ops, NEW c \in Conn, Run(l, op, c),
           NEW h \in Loop, h = home[c],
           \/ queue' = Left(l) \/ queue' = Pushed(Left(l), h, Task("connectDestroyed", c)),
           state' \in [Conn -> {"KConnecting", "KConnected", "KDisconnected"}],
           channel' \in [Conn -> {"new", "reading", "off"}],
           connections' \subseteq connections, wakeup' \in [T -> BOOLEAN], Held'
    PROVE  Inv' /\ AliveSet' \subseteq AliveSet
<1>1. UNCHANGED <<program, poolButWakeup, accVars, home, nextConnId, envVars>>
  BY DEF Run
<1>2. UNCHANGED <<numThreads, owner, cur, thread, loop, alive, quit, loops, next, failed>>
  BY <1>1 DEF poolButWakeup
<1>3. PoolInv'
  BY <1>1, <1>2, PoolWoken
<1>4. Task("connectDestroyed", c) \in Tasks
  BY TaskType DEF Ops
<1>5. Basis(Left(l), OneRun(l))
  BY LeftBasis
<1>6. /\ Batches' /\ queue' \in [Loop -> Seq(Tasks)]
      /\ \A m \in Loop : \A i \in DOMAIN queue'[m] :
            \/ \E j \in DOMAIN queue[m] : queue'[m][i] = queue[m][j]
            \/ m = h /\ queue'[m][i] = Task("connectDestroyed", c)
  BY <1>4, <1>5, BasisFollows
<1>7. /\ phase' \in [Loop -> {"poll", "accept", "handle", "run"}] /\ batch' \in [Loop -> Nat]
      /\ phase[l] = "run" /\ phase'[l] \in {"poll", "run"}
      /\ \A m \in Loop : m # l => phase'[m] = phase[m]
  BY RunFacts
<1>8. Phases'
  <2>1. \A m \in Loop : phase'[m] # "poll" => phase'[m] = phase[m]
    BY <1>7
  <2>2. phase[0] = "accept" <=> phase'[0] = "accept"
    BY <1>7, LoopFacts
  <2>3. \A t \in T : phase'[t] # "poll" => thread'[t] = "test" /\ phase'[t] # "accept"
    BY <1>2, <2>1, LoopFacts DEF Inv, Phases
  <2>4. phase'[0] # "poll" => phase[0] # "poll"
    BY <2>1, LoopFacts
  <2> QED BY <1>1, <1>2, <2>2, <2>3, <2>4 DEF Inv, Phases, Building, accVars
<1>9. Alive(c)
  <2>1. Size(l) >= 1 /\ Todo(l, 1) = Task(op, c)
    BY RunFacts
  <2>2. Size(l) \in Nat /\ \A i \in 1..Size(l) : ran[l] + i \in DOMAIN queue[l]
    BY QueueFacts DEF Inv
  <2>3. ran[l] + 1 \in DOMAIN queue[l]
    BY <2>1, <2>2
  <2>4. queue[l][ran[l] + 1].conn = c
    BY <2>1, TaskType DEF Todo
  <2> QED BY <2>3, <2>4 DEF Alive
<1>10. /\ Task("connectDestroyed", c).op = "connectDestroyed" /\ Task("connectDestroyed", c).conn = c
  BY TaskType DEF Ops
<1>11. \A m \in Loop : \A i \in DOMAIN queue'[m] :
              \/ \E j \in DOMAIN queue[m] : queue'[m][i] = queue[m][j]
              \/ /\ Alive(queue'[m][i].conn) /\ queue'[m][i].op # "connectEstablished"
                 /\ m = IF queue'[m][i].op = "removeConnectionInLoop" THEN 0 ELSE home[queue'[m][i].conn]
                 /\ queue'[m][i].op # "connectDestroyed" => home[queue'[m][i].conn] > 0
  BY <1>6, <1>9, <1>10
<1> QED BY <1>1, <1>2, <1>3, <1>6, <1>7, <1>8, <1>11, ConnFrame

\* connectEstablished and connectDestroyed on the connection's loop.
LEMMA EstablishedInv ==
    ASSUME Inv, NEW l \in Loop, NEW c \in Conn,
           ConnectEstablished(l, c) \/ ConnectDestroyed(l, c)
    PROVE  Inv' /\ AliveSet' \subseteq AliveSet
<1>1. PICK op \in Ops : Run(l, op, c) /\ op = IF ConnectEstablished(l, c) THEN "connectEstablished" ELSE "connectDestroyed"
  BY DEF ConnectEstablished, ConnectDestroyed, Ops
<1>2. UNCHANGED <<connections, wakeup, thread, home>> /\ queue' = Left(l)
  BY DEF ConnectEstablished, ConnectDestroyed, Run, poolButWakeup
<1>3. /\ state \in [Conn -> {"KConnecting", "KConnected", "KDisconnected"}]
      /\ channel \in [Conn -> {"new", "reading", "off"}] /\ home \in [Conn -> Loop]
      /\ wakeup \in [T -> BOOLEAN]
  BY PoolTypes DEF Inv, TypeOK
<1>4. /\ state' \in [Conn -> {"KConnecting", "KConnected", "KDisconnected"}]
      /\ channel' \in [Conn -> {"new", "reading", "off"}]
  BY <1>3 DEF ConnectEstablished, ConnectDestroyed
<1>5. Follows(OneRun(l)) /\ \A m \in Loop : \A i \in 1..Size(m)' : ~(i > Size(m) - OneRun(l)[m])
  <2>1. Basis(Left(l), OneRun(l))
    BY <1>1, LeftBasis
  <2>2. Size(l)' = Size(l) - 1
    BY <1>1, <1>2, LeftFacts DEF Size
  <2>3. \A m \in Loop : m # l => Size(m)' = Size(m)
    BY <1>1, <1>2, LeftFacts, RunFacts DEF Size
  <2>4. Follows(OneRun(l))
    BY <1>2, <2>1, BasisFollows, TaskType DEF Ops
  <2>5. ASSUME NEW m \in Loop, NEW i \in 1..Size(m)' PROVE ~(i > Size(m) - OneRun(l)[m])
    <3>1. Size(m)' = Size(m) - OneRun(l)[m]
      <4>1. Size(m) \in Nat
        BY QueueFacts DEF Inv
      <4>2. CASE m = l
        BY <2>2, <4>2 DEF OneRun
      <4>3. CASE m # l
        BY <2>3, <4>1, <4>3 DEF OneRun
      <4> QED BY <4>2, <4>3
    <3>2. Size(m) \in Nat /\ OneRun(l)[m] \in {0, 1} /\ Size(m)' \in Nat
      BY <2>4, Moves
    <3> QED BY <3>1, <3>2
  <2> QED BY <2>4, <2>5
<1>6. Size(l) >= 1 /\ Todo(l, 1) = Task(op, c) /\ Size(l) \in Nat
  BY <1>1, RunFacts, QueueFacts DEF Inv
<1>7. \A m \in Loop, e \in Conn : OneRun(l)[m] = 1 /\ Todo(m, 1) = Task("connectDestroyed", e) =>
                 channel'[e] # "reading"
  <2> SUFFICES ASSUME NEW m \in Loop, NEW e \in Conn, OneRun(l)[m] = 1,
                      Todo(m, 1) = Task("connectDestroyed", e)
               PROVE  channel'[e] # "reading"
    OBVIOUS
  <2>1. m = l
    BY DEF OneRun
  <2>2. op = "connectDestroyed" /\ e = c
    BY <1>6, <2>1 DEF Task
  <2>3. ConnectDestroyed(l, c)
    BY <1>1, <2>2
  <2> QED BY <1>3, <2>2, <2>3 DEF ConnectDestroyed
<1>8. \A e \in Conn : channel'[e] = "reading" => channel[e] = "reading" \/ Destined(e)'
  <2>1. CASE ConnectDestroyed(l, c)
    BY <1>3, <2>1 DEF ConnectDestroyed
  <2>2. CASE ConnectEstablished(l, c)
    <3>1. \A e \in Conn : e # c => channel'[e] = channel[e]
      BY <1>3, <2>2 DEF ConnectEstablished
    <3>2. op = "connectEstablished"
      BY <1>1, <2>2
    <3>3. Todo(l, 1).op = "connectEstablished" /\ Todo(l, 1).conn = c
      BY <1>6, <3>2, TaskType
    <3>4. l = home[c]
      <4>1. ran[l] + 1 \in DOMAIN queue[l] /\ queue[l][ran[l] + 1] = Todo(l, 1)
        BY <1>6, QueueFacts DEF Inv, Todo
      <4> QED BY <3>3, <4>1 DEF Inv, Numbers
    <3>5. Destined(c)'
      <4>1. \/ c \in connections
            \/ \E j \in 1..Size(l) : j > 1 /\ Todo(l, j) = Task("connectDestroyed", c)
        BY <1>6, <3>3 DEF Inv, Held
      <4>2. CASE c \in connections
        BY <1>2, <4>2 DEF Destined
      <4>3. ASSUME NEW j \in 1..Size(l), j > 1, Todo(l, j) = Task("connectDestroyed", c)
            PROVE  Destined(c)'
        <5>1. j > OneRun(l)[l]
          BY <4>3 DEF OneRun
        <5>2. j - OneRun(l)[l] \in 1..Size(l)' /\ Todo(l, j - OneRun(l)[l])' = Task("connectDestroyed", c)
          BY <1>5, <4>3, <5>1, Moves
        <5>3. l = home'[c]
          BY <1>2, <3>4
        <5> QED BY <5>2, <5>3 DEF Destined, Size, Todo
      <4> QED BY <4>1, <4>2, <4>3
    <3> QED BY <3>1, <3>5
  <2> QED BY <2>1, <2>2
<1>9. Held'
  <2>1. \A e \in connections : Parted(e, OneRun(l))
    BY <1>2 DEF Parted
  <2> QED BY <1>2, <1>5, <1>7, <1>8, <2>1, HeldStep
<1>10. home[c] \in Loop
  BY <1>3
<1> QED BY <1>1, <1>2, <1>3, <1>4, <1>9, <1>10, RunFrame

\* removeConnectionInLoop on the base loop, for a connection of another loop.
LEMMA RemoveInv ==
    ASSUME Inv, NEW c \in Conn, RemoveConnectionInLoop(c)
    PROVE  Inv' /\ AliveSet' \subseteq AliveSet
<1> DEFINE f == Task("connectDestroyed", c)
<1>1. "removeConnectionInLoop" \in Ops /\ Run(0, "removeConnectionInLoop", c)
  BY DEF RemoveConnectionInLoop, Ops
<1>2. 0 \in Loop
  BY LoopFacts
<1>3. /\ home \in [Conn -> Loop] /\ wakeup \in [T -> BOOLEAN]
      /\ state \in [Conn -> {"KConnecting", "KConnected", "KDisconnected"}]
      /\ channel \in [Conn -> {"new", "reading", "off"}]
  BY PoolTypes DEF Inv, TypeOK
<1>4. PICK h \in Loop : h = home[c]
  BY <1>3
<1>5. /\ UNCHANGED <<state, channel, home, thread>> /\ connections' = connections \ {c}
      /\ queue' = Pushed(Left(0), h, f)
  BY <1>4 DEF RemoveConnectionInLoop, Farewell, Run, poolButWakeup
<1>6. wakeup' \in [T -> BOOLEAN]
  BY <1>3, <1>4 DEF RemoveConnectionInLoop, Wake
<1>7. f \in Tasks /\ f.op = "connectDestroyed" /\ f.conn = c
  BY TaskType DEF Ops
<1> HIDE DEF f
<1>8. Basis(Left(0), OneRun(0))
  BY <1>1, <1>2, LeftBasis
<1>9. /\ Follows(OneRun(0))
      /\ \A m \in Loop : \A i \in 1..Size(m)' : i > Size(m) - OneRun(0)[m] => Todo(m, i)' = f
      /\ \E i \in 1..Size(h)' : i > Size(h) - OneRun(0)[h] /\ Todo(h, i)' = f
  BY <1>5, <1>7, <1>8, BasisFollows
<1>10. \A m \in Loop, e \in Conn : OneRun(0)[m] = 1 => Todo(m, 1) # Task("connectDestroyed", e)
  <2> SUFFICES ASSUME NEW m \in Loop, NEW e \in Conn, OneRun(0)[m] = 1
               PROVE  Todo(m, 1) # Task("connectDestroyed", e)
    OBVIOUS
  <2>1. m = 0
    BY DEF OneRun
  <2>2. Todo(0, 1) = Task("removeConnectionInLoop", c)
    BY <1>1, <1>2, RunFacts
  <2> QED BY <2>1, <2>2 DEF Task
<1>11. \A e \in connections : Parted(e, OneRun(0))
  <2> SUFFICES ASSUME NEW e \in connections PROVE Parted(e, OneRun(0))
    OBVIOUS
  <2>1. CASE e = c
    BY <1>4, <1>9, <2>1 DEF Parted, f
  <2>2. CASE e # c
    BY <1>5, <2>2 DEF Parted
  <2> QED BY <2>1, <2>2
<1>12. \A m \in Loop : \A i \in 1..Size(m)' :
              i > Size(m) - OneRun(0)[m] /\ Todo(m, i)'.op = "connectEstablished" =>
                 Todo(m, i)'.conn \in connections'
  BY <1>7, <1>9
<1>13. Held'
  BY <1>5, <1>9, <1>10, <1>11, <1>12, HeldStep
<1>14. queue' = Pushed(Left(0), h, Task("connectDestroyed", c))
  BY <1>5 DEF f
<1> QED BY <1>1, <1>2, <1>3, <1>4, <1>5, <1>6, <1>13, <1>14, RunFrame

\* A connection whose channel is reading and whose loop works is held.
LEMMA ReadingAlive ==
    ASSUME Inv, NEW c \in Conn, channel[c] = "reading", phase[home[c]] = "handle"
    PROVE  Alive(c) /\ Destined(c)
<1>1. home[c] \in Loop
  BY DEF Inv, TypeOK
<1>2. ~(home[c] > 0 /\ thread[home[c]] = "done")
  <2>1. CASE home[c] \in T
    BY <2>1 DEF Inv, Phases
  <2>2. CASE home[c] = 0
    BY <2>2
  <2> QED BY <1>1, <2>1, <2>2, LoopFacts
<1>3. Destined(c)
  BY <1>2 DEF Inv, Held
<1>4. ASSUME NEW i \in 1..Size(home[c]), Todo(home[c], i) = Task("connectDestroyed", c)
      PROVE  Alive(c)
  <2>1. ran[home[c]] + i \in DOMAIN queue[home[c]]
    BY <1>1, QueueFacts DEF Inv
  <2>2. queue[home[c]][ran[home[c]] + i].conn = c
    BY <1>4, TaskType DEF Todo, Ops
  <2> QED BY <1>1, <2>1, <2>2 DEF Alive
<1> QED BY <1>3, <1>4 DEF Destined, Alive

\* handleClose on the connection's loop.
LEMMA HandleCloseInv ==
    ASSUME Inv, NEW c \in Conn, HandleClose(c)
    PROVE  Inv' /\ AliveSet' \subseteq AliveSet
<1>1. /\ channel[c] = "reading" /\ phase[home[c]] = "handle"
      /\ UNCHANGED <<program, poolVars, accVars, phase, batch, ran, home, nextConnId, envVars>>
  BY DEF HandleClose, poolButWakeup, poolVars
<1>2. UNCHANGED <<numThreads, owner, thread>>
  BY <1>1 DEF poolVars
<1>3. /\ home \in [Conn -> Loop]
      /\ state \in [Conn -> {"KConnecting", "KConnected", "KDisconnected"}]
      /\ channel \in [Conn -> {"new", "reading", "off"}]
      /\ phase \in [Loop -> {"poll", "accept", "handle", "run"}] /\ batch \in [Loop -> Nat]
  BY DEF Inv, TypeOK
<1>4. /\ state' \in [Conn -> {"KConnecting", "KConnected", "KDisconnected"}]
      /\ channel' \in [Conn -> {"new", "reading", "off"}]
      /\ channel'[c] = "off" /\ \A e \in Conn : e # c => channel'[e] = channel[e]
  BY <1>3 DEF HandleClose
<1>5. 0 \in Loop
  BY LoopFacts
<1>6. Alive(c)
  BY <1>1, ReadingAlive
<1>7. PICK f \in Tasks : /\ queue' = Pushed(queue, 0, f) /\ f.conn = c
                         /\ home[c] = 0 => f = Task("connectDestroyed", c) /\ connections' = connections \ {c}
                         /\ home[c] # 0 => f.op = "removeConnectionInLoop" /\ connections' = connections
  <2>1. CASE home[c] = 0
    <3>1. queue' = Pushed(queue, 0, Task("connectDestroyed", c)) /\ connections' = connections \ {c}
      BY <2>1 DEF HandleClose, Farewell
    <3> QED BY <2>1, <3>1, TaskType DEF Ops
  <2>2. CASE home[c] # 0
    <3>1. queue' = Pushed(queue, 0, Task("removeConnectionInLoop", c)) /\ connections' = connections
      BY <2>2 DEF HandleClose
    <3> QED BY <2>2, <3>1, TaskType DEF Ops
  <2> QED BY <2>1, <2>2
<1>8. f.op = IF home[c] = 0 THEN "connectDestroyed" ELSE "removeConnectionInLoop"
  BY <1>7, TaskType DEF Ops
<1>9. Basis(queue, NoneRun)
  BY <1>1, QueueBasis
<1>10. /\ Follows(NoneRun) /\ Batches' /\ queue' \in [Loop -> Seq(Tasks)]
       /\ \A m \in Loop : \A i \in 1..Size(m)' : i > Size(m) - NoneRun[m] => Todo(m, i)' = f
       /\ \E i \in 1..Size(0)' : i > Size(0) - NoneRun[0] /\ Todo(0, i)' = f
       /\ \A m \in Loop : \A i \in DOMAIN queue'[m] :
             \/ \E j \in DOMAIN queue[m] : queue'[m][i] = queue[m][j]
             \/ m = 0 /\ queue'[m][i] = f
  BY <1>5, <1>7, <1>9, BasisFollows
<1>11. \A e \in connections : Parted(e, NoneRun)
  <2> SUFFICES ASSUME NEW e \in connections PROVE Parted(e, NoneRun)
    OBVIOUS
  <2>1. CASE e = c /\ home[c] = 0
    BY <1>5, <1>7, <1>10, <2>1 DEF Parted
  <2>2. CASE ~(e = c /\ home[c] = 0)
    BY <1>7, <2>2 DEF Parted
  <2> QED BY <2>1, <2>2
<1>12. \A m \in Loop : NoneRun[m] = 0
  BY DEF NoneRun
<1>13. \A e \in Conn : channel'[e] = "reading" => channel[e] = "reading"
  BY <1>4
<1>14. \A m \in Loop : \A i \in 1..Size(m)' :
              i > Size(m) - NoneRun[m] /\ Todo(m, i)'.op = "connectEstablished" =>
                 Todo(m, i)'.conn \in connections'
  BY <1>8, <1>10
<1>15. Held'
  BY <1>1, <1>2, <1>10, <1>11, <1>12, <1>13, <1>14, HeldStep
<1>16. PoolInv'
  BY <1>1, PoolKept
<1>17. Phases'
  BY <1>1, <1>2 DEF Inv, Phases, Building, accVars
<1>18. \A m \in Loop : \A i \in DOMAIN queue'[m] :
              \/ \E j \in DOMAIN queue[m] : queue'[m][i] = queue[m][j]
              \/ /\ Alive(queue'[m][i].conn) /\ queue'[m][i].op # "connectEstablished"
                 /\ m = IF queue'[m][i].op = "removeConnectionInLoop" THEN 0 ELSE home[queue'[m][i].conn]
                 /\ queue'[m][i].op # "connectDestroyed" => home[queue'[m][i].conn] > 0
  <2>1. home[c] \in Nat
    BY <1>3 DEF Loop
  <2>2. /\ Alive(f.conn) /\ f.op # "connectEstablished"
        /\ 0 = IF f.op = "removeConnectionInLoop" THEN 0 ELSE home[f.conn]
        /\ f.op # "connectDestroyed" => home[f.conn] > 0
    BY <1>6, <1>7, <1>8, <2>1
  <2> QED BY <1>10, <2>2
<1>19. connections' \subseteq connections
  BY <1>7
<1> QED BY <1>1, <1>2, <1>3, <1>4, <1>10, <1>15, <1>16, <1>17, <1>18, <1>19, ConnFrame

\* newConnection: the connection gets a number that nobody has, a descriptor
\* that was free, and a loop of the pool.
LEMMA NewConnectionFacts ==
    ASSUME Inv, NEW l \in Loop, NewConnection(l)
    PROVE  /\ nextConnId \in Conn /\ nextConnId \notin connections /\ ~Alive(nextConnId)
           /\ l <= numThreads /\ Used < program.descriptors /\ shed = "no" /\ owner = "deal" /\ listening
           /\ next' \in Nat /\ (numThreads > 0 => next' < numThreads)
           /\ backlog' \in Nat /\ nextConnId' + backlog' <= arrived + 1 /\ nextConnId' = nextConnId + 1
           /\ numThreads > 0 => l > 0
<1>1. /\ owner = "deal" /\ l = IF numThreads = 0 THEN 0 ELSE loops[next + 1]
      /\ next' = IF numThreads = 0 THEN next ELSE Pool!Following
      /\ listening /\ backlog > 0 /\ shed = "no" /\ Free > 0 /\ backlog' = backlog - 1
      /\ nextConnId' = nextConnId + 1
  BY DEF NewConnection, NextName, Pool!Deal, Pool!At, Acc!Accept, Acc!Pending
<1>2. /\ backlog \in Nat /\ arrived \in Nat /\ nextConnId \in Nat /\ program.arrivals \in Nat
      /\ nextConnId + backlog <= arrived + 1 /\ arrived <= program.arrivals
      /\ Free > 0 <=> Used < program.descriptors
  BY AcceptorFacts
<1>3. /\ numThreads \in Nat /\ next \in Nat /\ (numThreads > 0 => next < numThreads)
      /\ program.arrivals \in 0..MaxConns /\ MaxConns \in Nat /\ loops \in Seq(T)
  BY PoolTypes DEF Inv
<1>4. nextConnId \in Conn
  <2>1. nextConnId <= arrived
    BY <1>1, <1>2
  <2>2. nextConnId >= 1
    BY DEF Inv, TypeOK
  <2>3. arrived <= MaxConns
    BY <1>2, <1>3
  <2> QED BY <1>2, <1>3, <2>1, <2>2, <2>3 DEF Conn
<1>5. \A c : Alive(c) => c < nextConnId
  BY DEF Alive, Inv, Numbers
<1>6. ~Alive(nextConnId)
  BY <1>2, <1>5
<1>7. numThreads > 0 => l = next + 1
  <2>1. Len(loops) = numThreads /\ \A i \in DOMAIN loops : loops[i] = i
    BY <1>1 DEF Inv, OwnerInv, Building
  <2>2. DOMAIN loops = 1..Len(loops)
    BY <1>3, LenProperties
  <2>3. numThreads > 0 => next + 1 \in DOMAIN loops
    BY <1>3, <2>1, <2>2
  <2> QED BY <1>1, <1>3, <2>1, <2>3
<1>8. l <= numThreads /\ (numThreads > 0 => l > 0)
  BY <1>1, <1>3, <1>7
<1>9. next' \in Nat /\ (numThreads > 0 => next' < numThreads)
  BY <1>1, <1>3 DEF Pool!Following
<1>10. backlog' \in Nat /\ nextConnId' + backlog' <= arrived + 1
  <2>1. \A n, b, a \in Nat : b > 0 /\ n + b <= a + 1 => b - 1 \in Nat /\ (n + 1) + (b - 1) <= a + 1
    OBVIOUS
  <2> QED BY <1>1, <1>2, <2>1
<1>11. Used < program.descriptors
  BY <1>1, <1>2
<1> QED BY <1>1, <1>4, <1>6, <1>8, <1>9, <1>10, <1>11 DEF Alive

\* The step in terms of the queues and of the connections.
Made(l, c) ==
    /\ UNCHANGED <<program, numThreads, owner, cur, thread, loop, alive, quit, loops, failed, batch,
                   ran, arrived, others, stolen, listening, idleFd, shed, fault>>
    /\ phase[0] = "accept" /\ phase'[0] = "handle" /\ phase' \in [Loop -> {"poll", "accept", "handle", "run"}]
    /\ \A m \in Loop : m # 0 => phase'[m] = phase[m]
    /\ connections' = connections \cup {c} /\ wakeup' \in [T -> BOOLEAN]
    /\ home' \in [Conn -> Loop] /\ home'[c] = l /\ \A e \in Conn : e # c => home'[e] = home[e]
    /\ state' \in [Conn -> {"KConnecting", "KConnected", "KDisconnected"}]
    /\ state'[c] = (IF l = 0 THEN "KConnected" ELSE "KConnecting")
    /\ \A e \in Conn : e # c => state'[e] = state[e] /\ channel'[e] = channel[e]
    /\ channel' \in [Conn -> {"new", "reading", "off"}]
    /\ channel'[c] = (IF l = 0 THEN "reading" ELSE "new")
    /\ Follows(NoneRun) /\ Batches' /\ queue' \in [Loop -> Seq(Tasks)]
    /\ \A m \in Loop : Size(m)' <= Size(m) - NoneRun[m] + 1
    /\ \A m \in Loop : \A i \in 1..Size(m)' : i > Size(m) - NoneRun[m] =>
          l # 0 /\ m = l /\ Todo(m, i)' = Task("connectEstablished", c)
    /\ l # 0 => \E i \in 1..Size(l)' : i > Size(l) /\ Todo(l, i)' = Task("connectEstablished", c)
    /\ \A m \in Loop : \A i \in DOMAIN queue'[m] :
          \/ \E j \in DOMAIN queue[m] : queue'[m][i] = queue[m][j]
          \/ l # 0 /\ m = l /\ queue'[m][i] = Task("connectEstablished", c)

LEMMA NewConnectionStep ==
    ASSUME Inv, NEW l \in Loop, NEW c \in Conn, c = nextConnId, NewConnection(l)
    PROVE  Made(l, c)
<1> DEFINE f == Task("connectEstablished", c)
<1>1. /\ UNCHANGED <<program, numThreads, owner, cur, thread, loop, alive, quit, loops, failed, batch,
                     ran, arrived, others, stolen, listening, idleFd, shed, fault>>
      /\ phase[0] = "accept" /\ phase' = [phase EXCEPT ![0] = "handle"]
      /\ connections' = connections \cup {c}
      /\ home' = [home EXCEPT ![c] = l]
      /\ state' = [state EXCEPT ![c] = IF l = 0 THEN "KConnected" ELSE "KConnecting"]
      /\ channel' = [channel EXCEPT ![c] = IF l = 0 THEN "reading" ELSE "new"]
      /\ queue' = IF l = 0 THEN queue ELSE Pushed(queue, l, f)
      /\ wakeup' = IF l = 0 THEN wakeup ELSE [wakeup EXCEPT ![l] = TRUE]
  BY DEF NewConnection, NextName, AcceptStep, Pool!Deal, Acc!Accept, envVars, Wake
<1>2. /\ home \in [Conn -> Loop] /\ wakeup \in [T -> BOOLEAN]
      /\ state \in [Conn -> {"KConnecting", "KConnected", "KDisconnected"}]
      /\ channel \in [Conn -> {"new", "reading", "off"}]
      /\ phase \in [Loop -> {"poll", "accept", "handle", "run"}] /\ 0 \in Loop
      /\ queue \in [Loop -> Seq(Tasks)]
  BY PoolTypes, LoopFacts, QueueFacts DEF Inv, TypeOK
<1>3. f \in Tasks
  BY TaskType DEF Ops
<1> HIDE DEF f
<1>4. /\ phase'[0] = "handle" /\ phase' \in [Loop -> {"poll", "accept", "handle", "run"}]
      /\ \A m \in Loop : m # 0 => phase'[m] = phase[m]
  BY <1>1, <1>2
<1>5. Basis(queue, NoneRun)
  BY <1>1, <1>2, <1>4, QueueBasis
<1>6. queue' = queue \/ queue' = Pushed(queue, l, f)
  BY <1>1
<1>7. queue' = Pushed(queue, l, f) => l # 0
  <2>1. Len(Pushed(queue, l, f)[l]) = Len(queue[l]) + 1 /\ Len(queue[l]) \in Nat
    <3>1. queue \in [Loop -> Seq(Tasks)]
      BY <1>2
    <3> QED BY <1>3, <3>1, PushedFacts, Zenon
  <2>2. Pushed(queue, l, f) # queue
    BY <2>1
  <2> QED BY <1>1, <2>2
<1>8. /\ Follows(NoneRun) /\ Batches' /\ queue' \in [Loop -> Seq(Tasks)]
      /\ \A m \in Loop : Size(m)' <= Size(m) - NoneRun[m] + 1
      /\ \A m \in Loop : \A i \in 1..Size(m)' : i > Size(m) - NoneRun[m] =>
            l # 0 /\ m = l /\ Todo(m, i)' = f
      /\ queue' = Pushed(queue, l, f) =>
                 \E i \in 1..Size(l)' : i > Size(l) - NoneRun[l] /\ Todo(l, i)' = f
      /\ \A m \in Loop : \A i \in DOMAIN queue'[m] :
            \/ \E j \in DOMAIN queue[m] : queue'[m][i] = queue[m][j]
            \/ l # 0 /\ m = l /\ queue'[m][i] = f
  BY <1>3, <1>5, <1>6, <1>7, BasisFollows
<1>9. l # 0 => \E i \in 1..Size(l)' : i > Size(l) /\ Todo(l, i)' = f
  <2>1. NoneRun[l] = 0 /\ Size(l) \in Nat
    BY QueueFacts DEF NoneRun, Inv
  <2>2. Size(l) - NoneRun[l] = Size(l)
    BY <2>1
  <2> QED BY <1>1, <1>8, <2>2
<1>10. /\ home' \in [Conn -> Loop] /\ home'[c] = l /\ \A e \in Conn : e # c => home'[e] = home[e]
       /\ state' \in [Conn -> {"KConnecting", "KConnected", "KDisconnected"}]
       /\ state'[c] = (IF l = 0 THEN "KConnected" ELSE "KConnecting")
       /\ \A e \in Conn : e # c => state'[e] = state[e] /\ channel'[e] = channel[e]
       /\ channel' \in [Conn -> {"new", "reading", "off"}]
       /\ channel'[c] = (IF l = 0 THEN "reading" ELSE "new")
  BY <1>1, <1>2
<1>11. wakeup' \in [T -> BOOLEAN]
  BY <1>1, <1>2
<1> QED BY <1>1, <1>4, <1>8, <1>9, <1>10, <1>11 DEF f, Made

LEMMA NewConnectionInv ==
    ASSUME Inv, NEW l \in Loop, NewConnection(l)
    PROVE  Inv'
<1>1. /\ nextConnId \in Conn /\ nextConnId \notin connections /\ ~Alive(nextConnId)
      /\ l <= numThreads /\ Used < program.descriptors /\ shed = "no" /\ owner = "deal" /\ listening
      /\ next' \in Nat /\ (numThreads > 0 => next' < numThreads)
      /\ backlog' \in Nat /\ nextConnId' + backlog' <= arrived + 1 /\ nextConnId' = nextConnId + 1
  BY NewConnectionFacts
<1>2. PICK c \in Conn : c = nextConnId
  BY <1>1
<1>3. /\ UNCHANGED <<program, numThreads, owner, cur, thread, loop, alive, quit, loops, failed, batch,
                     ran, arrived, others, stolen, listening, idleFd, shed, fault>>
      /\ phase[0] = "accept" /\ phase'[0] = "handle" /\ phase' \in [Loop -> {"poll", "accept", "handle", "run"}]
      /\ \A m \in Loop : m # 0 => phase'[m] = phase[m]
      /\ connections' = connections \cup {c} /\ wakeup' \in [T -> BOOLEAN]
      /\ home' \in [Conn -> Loop] /\ home'[c] = l /\ \A e \in Conn : e # c => home'[e] = home[e]
      /\ state' \in [Conn -> {"KConnecting", "KConnected", "KDisconnected"}]
      /\ \A e \in Conn : e # c => channel'[e] = channel[e]
      /\ channel' \in [Conn -> {"new", "reading", "off"}]
      /\ Follows(NoneRun) /\ Batches' /\ queue' \in [Loop -> Seq(Tasks)]
      /\ \A m \in Loop : \A i \in 1..Size(m)' : i > Size(m) - NoneRun[m] =>
            l # 0 /\ m = l /\ Todo(m, i)' = Task("connectEstablished", c)
      /\ \A m \in Loop : \A i \in DOMAIN queue'[m] :
            \/ \E j \in DOMAIN queue[m] : queue'[m][i] = queue[m][j]
            \/ l # 0 /\ m = l /\ queue'[m][i] = Task("connectEstablished", c)
  <2>1. Made(l, c)
    BY <1>2, NewConnectionStep
  <2> QED BY <2>1 DEF Made
<1>4. Task("connectEstablished", c).op = "connectEstablished" /\ Task("connectEstablished", c).conn = c
  BY TaskType DEF Ops
<1>5. PoolInv'
  BY <1>1, <1>3, PoolWoken
<1>6. nextConnId \in Nat /\ arrived \in Nat /\ MaxConns \in Nat /\ numThreads \in Nat
  <2>1. nextConnId \in Nat /\ arrived \in Nat
    BY AcceptorFacts
  <2>2. MaxConns \in Nat /\ numThreads \in Nat
    BY PoolTypes DEF Inv
  <2> QED BY <2>1, <2>2
<1>7. TypeOK'
  <2>1. \A m \in Loop : ran'[m] \in 0..batch'[m]
    BY <1>3 DEF Inv, TypeOK
  <2>2. Acc!TypeOK'
    BY <1>1, <1>3 DEF Inv, TypeOK, Acc!TypeOK
  <2>3. nextConnId' \in 1..(MaxConns + 1)
    BY <1>1, <1>6 DEF Conn
  <2>4. connections' \subseteq Conn
    BY <1>3 DEF Inv, TypeOK
  <2>5. queue' \in [Loop -> Seq([op : {"connectEstablished", "connectDestroyed",
                                       "removeConnectionInLoop"}, conn : Conn])]
    BY <1>3 DEF Tasks, Ops
  <2>6. batch' \in [Loop -> Nat] /\ program' \in Programs /\ arrived' \in 0..MaxConns
        /\ others' \in Nat /\ stolen' \in BOOLEAN
    BY <1>3 DEF Inv, TypeOK
  <2> QED BY <1>3, <1>5, <2>1, <2>2, <2>3, <2>4, <2>5, <2>6 DEF TypeOK, PoolInv
<1>8. Phases'
  <2>1. \A t \in T : phase'[t] = phase[t]
    BY <1>3, LoopFacts
  <2> QED BY <1>1, <1>3, <2>1 DEF Inv, Phases, Building
<1>9. Numbers'
  <2>1. \A e \in connections' : e < nextConnId'
    <3>1. \A e \in connections : e \in Nat /\ e < nextConnId
      BY DEF Inv, Numbers, TypeOK, Conn
    <3> QED BY <1>1, <1>2, <1>3, <1>6, <3>1
  <2>2. \A e \in Conn : home'[e] <= numThreads'
    BY <1>1, <1>3 DEF Inv, Numbers
  <2>3. ASSUME NEW m \in Loop, NEW i \in DOMAIN queue'[m]
        PROVE  LET f == queue'[m][i] IN
               /\ f.conn < nextConnId'
               /\ m = IF f.op = "removeConnectionInLoop" THEN 0 ELSE home'[f.conn]
               /\ f.op # "connectDestroyed" => home'[f.conn] > 0
    <3>1. ASSUME NEW j \in DOMAIN queue[m], queue'[m][i] = queue[m][j]
          PROVE  LET f == queue'[m][i] IN
                 /\ f.conn < nextConnId'
                 /\ m = IF f.op = "removeConnectionInLoop" THEN 0 ELSE home'[f.conn]
                 /\ f.op # "connectDestroyed" => home'[f.conn] > 0
      <4>1. PICK f \in Tasks : f = queue[m][j]
        BY QueueFacts DEF Inv
      <4>2. f.conn \in Conn
        BY TaskFacts
      <4>3. /\ f.conn < nextConnId
            /\ m = IF f.op = "removeConnectionInLoop" THEN 0 ELSE home[f.conn]
            /\ f.op # "connectDestroyed" => home[f.conn] > 0
        BY <4>1 DEF Inv, Numbers
      <4>4. f.conn \in Nat
        BY <4>2 DEF Conn
      <4>5. f.conn # c /\ f.conn < nextConnId'
        BY <1>1, <1>2, <1>6, <4>3, <4>4
      <4>6. home'[f.conn] = home[f.conn]
        BY <1>3, <4>2, <4>5
      <4> QED BY <3>1, <4>1, <4>3, <4>5, <4>6
    <3>2. CASE l # 0 /\ m = l /\ queue'[m][i] = Task("connectEstablished", c)
      <4>1. l > 0
        BY <3>2, LoopFacts
      <4>2. c < nextConnId'
        BY <1>1, <1>2, <1>6
      <4> QED BY <1>3, <1>4, <3>2, <4>1, <4>2
    <3> QED BY <1>3, <3>1, <3>2
  <2>4. nextConnId' + backlog' <= arrived' + 1 /\ arrived' <= program'.arrivals
    BY <1>1, <1>3 DEF Inv, Numbers
  <2> QED BY <2>1, <2>2, <2>3, <2>4 DEF Numbers
<1>10. Held'
  <2>1. \A e \in connections : Parted(e, NoneRun)
    BY <1>3 DEF Parted
  <2>2. \A e \in Conn : home'[e] = home[e] \/ e \in connections'
    BY <1>3
  <2>3. \A m \in Loop : \A i \in 1..Size(m)' :
              i > Size(m) - NoneRun[m] /\ Todo(m, i)'.op = "connectEstablished" =>
                 Todo(m, i)'.conn \in connections'
    BY <1>3, <1>4
  <2>4. \A e \in Conn : channel'[e] = "reading" => channel[e] = "reading" \/ Destined(e)'
    BY <1>3 DEF Destined
  <2>5. \A m \in Loop : NoneRun[m] # 1
    BY DEF NoneRun
  <2> QED BY <1>3, <2>1, <2>2, <2>3, <2>4, <2>5, HeldStep
<1>11. Descriptors'
  <2>1. AliveSet' \subseteq AliveSet \cup {c}
    <3>1. ASSUME NEW e \in Conn, e # c, Alive(e)' PROVE Alive(e)
      <4>1. CASE e \in connections'
        BY <1>3, <3>1, <4>1 DEF Alive
      <4>2. ASSUME NEW m \in Loop, NEW i \in DOMAIN queue'[m], queue'[m][i].conn = e PROVE Alive(e)
        <5>1. queue'[m][i] # Task("connectEstablished", c)
          BY <1>4, <3>1, <4>2
        <5>2. \E j \in DOMAIN queue[m] : queue'[m][i] = queue[m][j]
          BY <1>3, <5>1
        <5> QED BY <4>2, <5>2 DEF Alive
      <4> QED BY <3>1, <4>1, <4>2 DEF Alive
    <3> QED BY <3>1 DEF AliveSet
  <2>2. IsFiniteSet(AliveSet) /\ Cardinality(AliveSet) \in Nat /\ others \in Nat
    BY UsedFacts DEF Inv
  <2>3. /\ IsFiniteSet(AliveSet \cup {c}) /\ Cardinality(AliveSet \cup {c}) \in Nat
        /\ Cardinality(AliveSet \cup {c}) <= Cardinality(AliveSet) + 1
    <3>1. /\ IsFiniteSet(AliveSet \cup {c})
          /\ Cardinality(AliveSet \cup {c}) = IF c \in AliveSet THEN Cardinality(AliveSet) ELSE Cardinality(AliveSet) + 1
      BY <2>2, FS_AddElement, Zenon
    <3> QED BY <2>2, <3>1
  <2>4. IsFiniteSet(AliveSet') /\ Cardinality(AliveSet') <= Cardinality(AliveSet \cup {c})
    BY <2>1, <2>3, FS_Subset
  <2>5. Cardinality(AliveSet') \in Nat
    BY <2>4, FS_CardinalityType
  <2>6. /\ Used = (IF idleFd THEN 1 ELSE 0) + Cardinality(AliveSet) + others
        /\ Used' = (IF idleFd THEN 1 ELSE 0) + Cardinality(AliveSet') + others
    BY <1>3 DEF Used
  <2>7. Used' <= Used + 1
    <3>1. PICK n \in {0, 1} : n = IF idleFd THEN 1 ELSE 0
      OBVIOUS
    <3> QED BY <2>2, <2>3, <2>4, <2>5, <2>6, <3>1
  <2>8. Used \in Nat /\ program.descriptors \in Nat /\ Used' \in Nat
    BY <2>2, <2>5, <2>6, AcceptorFacts
  <2>9. Used' <= program'.descriptors
    BY <1>1, <1>3, <2>7, <2>8
  <2> QED BY <1>1, <1>3, <2>9 DEF Inv, Descriptors
<1> QED BY <1>3, <1>5, <1>7, <1>8, <1>9, <1>10, <1>11 DEF Inv, PoolInv

-----------------------------------------------------------------------------
(* The destructor of the server.                                           *)

\* A finite set as a sequence of its elements.
LEMMA SetToSeqFacts ==
    ASSUME NEW S, IsFiniteSet(S)
    PROVE  /\ Cardinality(S) \in Nat /\ SetToSeq(S) \in [1..Cardinality(S) -> S]
           /\ \A x \in S : \E i \in 1..Cardinality(S) : SetToSeq(S)[i] = x
<1> DEFINE n == Cardinality(S)
           s == SetToSeq(S)
<1>1. n \in Nat /\ ExistsBijection(1..n, S)
  BY FS_CardinalityType
<1>2. \E f \in [1..n -> S] : IsInjective(f)
  BY <1>1 DEF ExistsBijection, Bijection, Injection, IsInjective
<1>3. s \in [1..n -> S] /\ IsInjective(s)
  BY <1>2 DEF SetToSeq
<1>4. IsFiniteSet(1..n) /\ Cardinality(1..n) = n
  <2>1. 1 \in Int /\ n \in Int
    BY <1>1
  <2>2. IsFiniteSet(1..n) /\ Cardinality(1..n) = IF 1 > n THEN 0 ELSE n - 1 + 1
    BY <2>1, FS_Interval
  <2> QED BY <1>1, <2>2
<1> HIDE DEF n, s
<1>5. s \in Injection(1..n, S)
  BY <1>3 DEF Injection, IsInjective
<1>6. Cardinality(1..n) = Cardinality(S)
  BY <1>4 DEF n
<1>7. s \in Surjection(1..n, S)
  BY <1>5, <1>6, FS_Injection
<1>8. \A x \in S : \E i \in 1..n : s[i] = x
  BY <1>7 DEF Surjection
<1> QED BY <1>1, <1>3, <1>8 DEF n, s

\* The functors that the destructor gives to loop l.
Given(l) ==
    LET s == SetToSeq({c \in connections : home[c] = l})
    IN  [i \in DOMAIN s |-> Task("connectDestroyed", s[i])]

LEMMA GivenFacts ==
    ASSUME Inv, NEW l \in Loop
    PROVE  /\ Given(l) \in Seq(Tasks) /\ Len(Given(l)) \in Nat
           /\ \A i \in 1..Len(Given(l)) :
                 \E c \in connections : home[c] = l /\ Given(l)[i] = Task("connectDestroyed", c)
           /\ \A c \in connections : home[c] = l =>
                 \E i \in 1..Len(Given(l)) : Given(l)[i] = Task("connectDestroyed", c)
           /\ (\A c \in connections : home[c] # l) => Given(l) = <<>>
<1> DEFINE S == {c \in connections : home[c] = l}
           s == SetToSeq(S)
           n == Cardinality(S)
<1>1. IsFiniteSet(S)
  <2>1. IsFiniteSet(Conn)
    BY ProgramsAssumption, FS_Interval DEF Conn
  <2>2. S \subseteq Conn
    BY DEF Inv, TypeOK
  <2> QED BY <2>1, <2>2, FS_Subset
<1>2. /\ n \in Nat /\ s \in [1..n -> S]
      /\ \A x \in S : \E i \in 1..n : s[i] = x
  <2> HIDE DEF S
  <2> QED BY <1>1, SetToSeqFacts
<1>3. Given(l) = [i \in 1..n |-> Task("connectDestroyed", s[i])]
  <2>1. DOMAIN s = 1..n
    BY <1>2
  <2>2. Given(l) = [i \in DOMAIN s |-> Task("connectDestroyed", s[i])]
    BY DEF Given
  <2> QED BY <2>1, <2>2
<1>4. S \subseteq Conn
  BY DEF Inv, TypeOK
<1>5. S = {} => n = 0
  BY FS_EmptySet
<1>6. (\A c \in connections : home[c] # l) => S = {}
  OBVIOUS
<1>7. \A c \in S : c \in connections /\ home[c] = l
  OBVIOUS
<1>8. \A c \in connections : home[c] = l => c \in S
  OBVIOUS
<1> HIDE DEF S, s, n
<1>9. \A i \in 1..n : s[i] \in S
  BY <1>2
<1>10. \A i \in 1..n : Task("connectDestroyed", s[i]) \in Tasks
  BY <1>4, <1>9, TaskType DEF Ops
<1>11. Given(l) \in Seq(Tasks) /\ Len(Given(l)) = n
  BY <1>2, <1>3, <1>10
<1>12. \A i \in 1..n : Given(l)[i] = Task("connectDestroyed", s[i])
  BY <1>3
<1>13. S = {} => Given(l) = <<>>
  BY <1>5, <1>11, EmptySeq
<1> QED BY <1>2, <1>6, <1>7, <1>8, <1>9, <1>11, <1>12, <1>13

LEMMA DestroyInv ==
    ASSUME Inv, Destroy
    PROVE  Inv' /\ AliveSet' \subseteq AliveSet
<1>1. /\ listening /\ phase[0] = "poll" /\ connections' = {}
      /\ queue' = [l \in Loop |-> IF l = 0 THEN queue[0] ELSE queue[l] \o Given(l)]
      /\ wakeup' = [l \in Pool!T |-> wakeup[l] \/ Given(l) # <<>>]
      /\ state' = [c \in Conn |-> IF c \in connections /\ home[c] = 0 THEN "KDisconnected" ELSE state[c]]
      /\ channel' = [c \in Conn |-> IF c \in connections /\ home[c] = 0 THEN "new" ELSE channel[c]]
      /\ Pool!Destroy
      /\ UNCHANGED <<program, accVars, phase, batch, ran, home, nextConnId, envVars, fault>>
  BY DEF Destroy, Given
<1>2. owner = "deal" /\ UNCHANGED <<numThreads, thread>>
  BY <1>1 DEF Pool!Destroy, Pool!At, Pool!poolVars
<1>3. wakeup' \in [T -> BOOLEAN]
  <2>1. \A l \in T : (wakeup[l] \/ Given(l) # <<>>) \in BOOLEAN
    OBVIOUS
  <2> QED BY <1>1, <2>1 DEF T, Pool!T
<1>4. PoolInv' /\ owner' \in {"quit", "wakeup", "join", "done"}
  BY <1>1, <1>3, QuitPool
<1>5. /\ state' \in [Conn -> {"KConnecting", "KConnected", "KDisconnected"}]
      /\ channel' \in [Conn -> {"new", "reading", "off"}]
  BY <1>1 DEF Inv, TypeOK
<1>6. /\ batch' \in [Loop -> Nat] /\ phase' \in [Loop -> {"poll", "accept", "handle", "run"}]
  BY <1>1 DEF Inv, TypeOK
<1>7. Phases'
  BY <1>1, <1>2, <1>4 DEF Inv, Phases, Building, accVars
<1>8. \A l \in Loop : queue'[l] = IF l = 0 THEN queue[0] ELSE queue[l] \o Given(l)
  BY <1>1
<1>9. ASSUME NEW l \in Loop, l # 0
      PROVE  /\ queue'[l] \in Seq(Tasks) /\ Len(queue'[l]) = Len(queue[l]) + Len(Given(l))
             /\ \A i \in 1..Len(queue[l]) : queue'[l][i] = queue[l][i]
             /\ \A i \in 1..Len(Given(l)) : queue'[l][Len(queue[l]) + i] = Given(l)[i]
             /\ Len(queue[l]) \in Nat /\ Len(Given(l)) \in Nat
  <2>1. queue'[l] = queue[l] \o Given(l) /\ queue[l] \in Seq(Tasks) /\ Given(l) \in Seq(Tasks)
    BY <1>8, <1>9, QueueFacts, GivenFacts DEF Inv
  <2>2. Len(queue[l]) \in Nat /\ Len(Given(l)) \in Nat
    BY <2>1, LenProperties
  <2>3. queue'[l] \in Seq(Tasks) /\ Len(queue'[l]) = Len(queue[l]) + Len(Given(l))
    BY <2>1, ConcatProperties
  <2>4. \A i \in 1..(Len(queue[l]) + Len(Given(l))) :
           queue'[l][i] = IF i <= Len(queue[l]) THEN queue[l][i] ELSE Given(l)[i - Len(queue[l])]
    BY <2>1, ConcatProperties
  <2>5. \A i \in 1..Len(queue[l]) : queue'[l][i] = queue[l][i]
    BY <2>2, <2>4
  <2>6. ASSUME NEW i \in 1..Len(Given(l)) PROVE queue'[l][Len(queue[l]) + i] = Given(l)[i]
    <3>1. /\ Len(queue[l]) + i \in 1..(Len(queue[l]) + Len(Given(l)))
          /\ ~(Len(queue[l]) + i <= Len(queue[l])) /\ (Len(queue[l]) + i) - Len(queue[l]) = i
      BY <2>2
    <3> QED BY <2>4, <3>1
  <2> QED BY <2>2, <2>3, <2>5, <2>6
<1>10. ASSUME NEW l \in Loop
       PROVE  /\ queue'[l] \in Seq(Tasks) /\ Len(queue[l]) \in Nat /\ Len(queue'[l]) \in Nat
              /\ Len(queue[l]) <= Len(queue'[l])
              /\ \A i \in 1..Len(queue[l]) : queue'[l][i] = queue[l][i]
              /\ \A i \in 1..Len(queue'[l]) : i > Len(queue[l]) =>
                    \E c \in connections : l = home[c] /\ l # 0 /\ queue'[l][i] = Task("connectDestroyed", c)
  <2>1. CASE l = 0
    <3>1. queue[l] \in Seq(Tasks) /\ Len(queue[l]) \in Nat /\ queue'[l] = queue[l]
      BY <1>8, <2>1, QueueFacts DEF Inv
    <3> QED BY <3>1
  <2>2. CASE l # 0
    <3>1. ASSUME NEW i \in 1..Len(queue'[l]), i > Len(queue[l])
          PROVE  \E c \in connections : l = home[c] /\ l # 0 /\ queue'[l][i] = Task("connectDestroyed", c)
      <4>1. PICK k \in 1..Len(Given(l)) : i = Len(queue[l]) + k
        <5>1. i - Len(queue[l]) \in 1..Len(Given(l)) /\ i = Len(queue[l]) + (i - Len(queue[l]))
          BY <1>9, <2>2, <3>1
        <5> QED BY <5>1
      <4>2. queue'[l][i] = Given(l)[k]
        BY <1>9, <2>2, <4>1
      <4> QED BY <2>2, <4>2, GivenFacts
    <3>2. Len(queue'[l]) \in Nat /\ Len(queue[l]) <= Len(queue'[l])
      BY <1>9, <2>2
    <3> QED BY <1>9, <2>2, <3>1, <3>2
  <2> QED BY <2>1, <2>2
<1>11. queue' \in [Loop -> Seq(Tasks)]
  BY <1>1, <1>10
<1>12. Batches'
  <2>1. ASSUME NEW m \in Loop
        PROVE  IF phase'[m] = "run" THEN ran'[m] < batch'[m] /\ batch'[m] <= Len(queue'[m])
                                    ELSE ran'[m] = 0 /\ batch'[m] = 0
    <3>1. IF phase[m] = "run" THEN ran[m] < batch[m] /\ batch[m] <= Len(queue[m])
                              ELSE ran[m] = 0 /\ batch[m] = 0
      BY DEF Inv, Batches
    <3>2. batch[m] \in Nat
      BY QueueFacts DEF Inv
    <3>3. batch[m] <= Len(queue[m]) => batch[m] <= Len(queue'[m])
      BY <1>10, <3>2
    <3> QED BY <1>1, <3>1, <3>3
  <2> QED BY <1>1, <2>1 DEF Inv, Batches
<1>13. \A m \in Loop : NoneRun[m] = 0
  BY DEF NoneRun
<1>14. ASSUME NEW l \in Loop
       PROVE  /\ Size(l) \in Nat /\ Size(l)' \in Nat /\ Size(l) <= Size(l)'
              /\ \A i \in 1..Size(l) : Todo(l, i)' = Todo(l, i)
              /\ \A i \in 1..Size(l)' : i > Size(l) =>
                    \E c \in connections : l = home[c] /\ l # 0 /\ Todo(l, i)' = Task("connectDestroyed", c)
              /\ ran[l] \in Nat /\ ran[l] <= Len(queue[l])
              /\ Size(l)' = Len(queue'[l]) - ran[l]
  <2>1. /\ Size(l) \in Nat /\ ran[l] \in Nat /\ ran[l] <= Len(queue[l]) /\ ran'[l] = ran[l]
        /\ Size(l) = Len(queue[l]) - ran[l] /\ Size(l)' = Len(queue'[l]) - ran[l]
    BY <1>1, QueueFacts DEF Inv, Size
  <2>2. Len(queue[l]) \in Nat /\ Len(queue'[l]) \in Nat /\ Len(queue[l]) <= Len(queue'[l])
    BY <1>10
  <2> HIDE DEF Size
  <2>3. Size(l)' \in Nat /\ Size(l) <= Size(l)'
    BY <2>1, <2>2
  <2>4. \A i \in 1..Size(l) : ran[l] + i \in 1..Len(queue[l])
    BY <2>1, <2>2
  <2>5. \A i \in 1..Size(l)' : ran[l] + i \in 1..Len(queue'[l]) /\ (i > Size(l) => ran[l] + i > Len(queue[l]))
    BY <2>1, <2>2
  <2>6. \A i : Todo(l, i)' = queue'[l][ran[l] + i] /\ Todo(l, i) = queue[l][ran[l] + i]
    BY <2>1 DEF Todo
  <2>7. \A i \in 1..Size(l) : Todo(l, i)' = Todo(l, i)
    BY <1>10, <2>4, <2>6
  <2>8. \A i \in 1..Size(l)' : i > Size(l) =>
           \E c \in connections : l = home[c] /\ l # 0 /\ queue'[l][ran[l] + i] = Task("connectDestroyed", c)
    BY <1>10, <2>5
  <2>9. \A i \in 1..Size(l)' : i > Size(l) =>
           \E c \in connections : l = home[c] /\ l # 0 /\ Todo(l, i)' = Task("connectDestroyed", c)
    BY <2>6, <2>8
  <2> QED BY <2>1, <2>3, <2>7, <2>9
<1>15. Follows(NoneRun)
  <2>1. \A l \in Loop : Size(l) - NoneRun[l] = Size(l) /\ NoneRun[l] <= Size(l)
    BY <1>13, <1>14
  <2>2. \A l \in Loop : \A i \in 1..Size(l) : i + NoneRun[l] = i
    BY <1>13, <1>14
  <2>3. NoneRun \in [Loop -> {0, 1}]
    BY DEF NoneRun
  <2> QED BY <1>14, <2>1, <2>2, <2>3 DEF Follows
<1>16. \A c \in connections : Parted(c, NoneRun)
  <2> SUFFICES ASSUME NEW c \in connections PROVE Parted(c, NoneRun)
    OBVIOUS
  <2>1. c \in Conn /\ home[c] \in Loop
    BY DEF Inv, TypeOK
  <2>2. CASE home[c] = 0
    BY <1>1, <2>1, <2>2 DEF Parted
  <2>3. CASE home[c] # 0
    <3>1. PICK l \in Loop : l = home[c]
      BY <2>1
    <3>2. PICK k \in 1..Len(Given(l)) : Given(l)[k] = Task("connectDestroyed", c)
      BY <3>1, GivenFacts
    <3>3. /\ Len(queue'[l]) = Len(queue[l]) + Len(Given(l)) /\ Len(Given(l)) \in Nat /\ Len(queue[l]) \in Nat
          /\ queue'[l][Len(queue[l]) + k] = Task("connectDestroyed", c)
      BY <1>9, <2>3, <3>1, <3>2
    <3>4. Size(l) = Len(queue[l]) - ran[l] /\ ran'[l] = ran[l]
      BY <1>1 DEF Size
    <3>5. /\ Size(l) + k \in 1..Size(l)' /\ Size(l) + k > Size(l) - NoneRun[l]
          /\ ran[l] + (Size(l) + k) = Len(queue[l]) + k
      <4>1. /\ Size(l) \in Nat /\ ran[l] \in Nat /\ ran[l] <= Len(queue[l])
            /\ Size(l)' = Len(queue'[l]) - ran[l] /\ NoneRun[l] = 0
        BY <1>13, <1>14
      <4>2. Size(l)' = Size(l) + Len(Given(l))
        BY <3>3, <3>4, <4>1
      <4> QED BY <3>3, <3>4, <4>1, <4>2
    <3>6. PICK j \in 1..Size(l)' : j = Size(l) + k
      BY <3>5
    <3>7. Todo(l, j)' = Task("connectDestroyed", c)
      BY <3>3, <3>4, <3>5, <3>6 DEF Todo
    <3>8. j > Size(l) - NoneRun[l]
      BY <3>5, <3>6
    <3> QED BY <3>1, <3>7, <3>8 DEF Parted
  <2> QED BY <2>2, <2>3
<1>17. \A l \in Loop : \A i \in 1..Size(l)' :
              i > Size(l) - NoneRun[l] => Todo(l, i)'.op # "connectEstablished"
  <2> SUFFICES ASSUME NEW l \in Loop, NEW i \in 1..Size(l)', i > Size(l) - NoneRun[l]
               PROVE  Todo(l, i)'.op # "connectEstablished"
    OBVIOUS
  <2>1. i > Size(l)
    BY <1>13, <1>14
  <2>2. PICK c \in connections : Todo(l, i)' = Task("connectDestroyed", c)
    BY <1>14, <2>1
  <2> QED BY <2>2 DEF Task
<1>18. \A c \in Conn : channel'[c] = "reading" => channel[c] = "reading"
  BY <1>1
<1>19. Held'
  BY <1>1, <1>2, <1>13, <1>15, <1>16, <1>17, <1>18, HeldStep
<1>20. ASSUME NEW l \in Loop, NEW i \in DOMAIN queue'[l]
       PROVE  \/ \E j \in DOMAIN queue[l] : queue'[l][i] = queue[l][j]
              \/ /\ Alive(queue'[l][i].conn) /\ queue'[l][i].op # "connectEstablished"
                 /\ l = IF queue'[l][i].op = "removeConnectionInLoop" THEN 0 ELSE home[queue'[l][i].conn]
                 /\ queue'[l][i].op # "connectDestroyed" => home[queue'[l][i].conn] > 0
  <2>1. DOMAIN queue'[l] = 1..Len(queue'[l]) /\ DOMAIN queue[l] = 1..Len(queue[l])
    BY <1>10, QueueFacts, LenProperties DEF Inv
  <2>2. CASE i \in 1..Len(queue[l])
    BY <1>10, <2>1, <2>2
  <2>3. CASE i \notin 1..Len(queue[l])
    <3>1. i > Len(queue[l])
      BY <1>10, <2>1, <2>3
    <3>2. PICK c \in connections : l = home[c] /\ queue'[l][i] = Task("connectDestroyed", c)
      BY <1>10, <2>1, <3>1
    <3>3. Task("connectDestroyed", c).op = "connectDestroyed" /\ Task("connectDestroyed", c).conn = c
      BY DEF Task
    <3> QED BY <3>2, <3>3 DEF Alive
  <2> QED BY <2>2, <2>3
<1>21. connections' \subseteq connections /\ (owner = "done" => owner' = "done")
  BY <1>1, <1>2
<1> QED BY <1>1, <1>2, <1>4, <1>5, <1>6, <1>7, <1>11, <1>12, <1>19, <1>20, <1>21, ConnFrame

-----------------------------------------------------------------------------
(* Every program.                                                          *)

LEMMA InitInv == Init => Inv
<1> SUFFICES ASSUME Init PROVE Inv
  OBVIOUS
<1> USE DEF Init, Pool!Init, Acc!Init
<1>0. /\ program \in Programs /\ MaxThreads \in Nat /\ MaxConns \in Nat
      /\ program.threads \in 0..MaxThreads /\ program.arrivals \in 0..MaxConns
      /\ program.descriptors \in Nat \ {0} /\ program.idleOpens \in BOOLEAN
  BY ProgramsAssumption
<1>1. 0 \in Loop /\ \A l \in Loop : queue[l] = <<>> /\ batch[l] = 0 /\ ran[l] = 0 /\ phase[l] = "poll"
  BY LoopFacts
<1>2. <<>> \in Seq(T) /\ <<>> \in Seq(Tasks) /\ Len(<<>>) = 0 /\ DOMAIN <<>> = {}
  <2>1. DOMAIN <<>> = 1..0
    BY EmptySeq, LenProperties
  <2> QED BY <2>1, EmptySeq
<1>3. Pool!TypeOK
  BY <1>0, <1>2 DEF Pool!TypeOK, Pool!T, T
<1>4. Acc!TypeOK
  BY <1>0 DEF Acc!TypeOK
<1>5. TypeOK
  <2>1. queue \in [Loop -> Seq(Tasks)]
    BY <1>2
  <2>2. nextConnId \in 1..(MaxConns + 1) /\ arrived \in 0..MaxConns
    BY <1>0
  <2>3. batch \in [Loop -> Nat] /\ \A l \in Loop : ran[l] \in 0..batch[l]
    BY <1>1
  <2>4. home \in [Conn -> Loop]
    BY <1>1
  <2> QED BY <1>0, <1>3, <1>4, <2>1, <2>2, <2>3, <2>4 DEF TypeOK, Tasks, Ops
<1>6. Batches
  BY <1>1 DEF Batches
<1>7. OwnerInv
  BY <1>2 DEF OwnerInv, Building
<1>8. \A t \in T : ThreadInv(t)
  BY DEF ThreadInv, Told, Building, Pool!T, T
<1>9. Phases
  BY <1>1, LoopFacts DEF Phases
<1>10. Numbers
  BY <1>0, <1>1, <1>2 DEF Numbers
<1>11. Held
  <2>1. \A l \in Loop : Size(l) = 0
    BY <1>1, <1>2 DEF Size
  <2>2. \A l \in Loop : 1..Size(l) = {}
    BY <2>1
  <2>3. \A c \in Conn : channel[c] # "reading"
    OBVIOUS
  <2> QED BY <2>2, <2>3 DEF Held
<1>12. Descriptors
  <2>1. AliveSet = {}
    BY <1>1, <1>2 DEF AliveSet, Alive
  <2>2. Cardinality(AliveSet) = 0
    BY <2>1, FS_EmptySet
  <2>3. Used = IF idleFd THEN 1 ELSE 0
    BY <2>2 DEF Used
  <2>4. Used <= program.descriptors
    BY <1>0, <2>3
  <2> QED BY <2>4 DEF Descriptors
<1> QED BY <1>5, <1>6, <1>7, <1>8, <1>9, <1>10, <1>11, <1>12 DEF Inv

LEMMA NextInv == Inv /\ [Next]_vars => Inv'
<1> SUFFICES ASSUME Inv, [Next]_vars PROVE Inv'
  OBVIOUS
<1>0. T = Pool!T /\ \A t \in T : t \in Loop
  BY LoopFacts DEF T, Pool!T
<1>1. CASE UNCHANGED vars
  <2>1. UNCHANGED <<program, numThreads, owner, cur, thread, loop, alive, quit, wakeup, loops, next, failed,
                    listening, idleFd, backlog, shed, phase, queue, batch, ran, state, channel, home,
                    connections, nextConnId, arrived, others, stolen, fault>>
    BY <1>1 DEF vars, poolVars, accVars, loopVars, connVars, envVars
  <2>2. PoolInv'
    BY <2>1, PoolKept DEF poolVars
  <2>3. Held' /\ AliveSet' = AliveSet
    BY <2>1, ConnsKept
  <2>4. TypeOK'
    BY <2>1, <2>2 DEF Inv, TypeOK, PoolInv, Acc!TypeOK
  <2>5. Batches' /\ Phases' /\ Numbers'
    BY <2>1 DEF Inv, Batches, Phases, Numbers, Building
  <2>6. Descriptors'
    BY <2>1, <2>3, <2>4, DescriptorsKept
  <2> QED BY <2>2, <2>3, <2>4, <2>5, <2>6 DEF Inv, PoolInv
<1>2. CASE SetThreadNum \/ Start \/ OwnerStep
  BY <1>2, PoolStepInv
<1>3. CASE Listen \/ DestroyAcceptor \/ Arrive \/ OtherOpens \/ OtherCloses
  BY <1>3, SurroundingsInv
<1>4. CASE PollBase \/ \E l \in Loop : Swap(l)
  BY <1>4, PollSwapInv
<1>5. CASE AcceptFails \/ AcceptFatal \/ Emfile \/ Shed
  BY <1>5, NoConnectionInv
<1>6. CASE \E l \in Loop : NewConnection(l)
  BY <1>6, NewConnectionInv
<1>7. CASE \E l \in Loop : Functor(l)
  BY <1>7, EstablishedInv, RemoveInv DEF Functor
<1>8. CASE Destroy
  BY <1>8, DestroyInv
<1>9. CASE \E t \in T : ThreadStep(t) \/ PollThread(t)
  BY <1>9, ThreadInvStep
<1>10. CASE \E c \in Conn : HandleClose(c)
  BY <1>10, HandleCloseInv
<1> QED BY <1>0, <1>1, <1>2, <1>3, <1>4, <1>5, <1>6, <1>7, <1>8, <1>9, <1>10, LoopFacts
        DEF Next, BaseStep, PoolStep, AcceptNext

\* Whatever the program does and however the loops interleave, the variables of
\* the server, of its pool and of its acceptor keep their types: in particular
\* a functor is never about a connection that was not accepted, and never more
\* functors have run than the loop has taken.
THEOREM TypeCorrect == Spec => []TypeOK
<1>1. Inv => TypeOK
  BY DEF Inv
<1> QED BY InitInv, NextInv, <1>1, PTL DEF Spec

\* Between two calls of Acceptor::handleRead idleFd_ is open, for any limit on
\* descriptors, any number of connections and any other threads, unless one of
\* them took a descriptor while the reserve was given up or the constructor
\* could not open it.
THEOREM ReserveKept == Spec => []IdleKept
<1>1. Inv => IdleKept
  BY DEF Inv, Descriptors, IdleKept
<1> QED BY InitInv, NextInv, <1>1, PTL DEF Spec

-----------------------------------------------------------------------------
(* Quiet programs.                                                         *)

\* A functor that is ahead is about a connection that somebody holds.
LEMMA AheadAlive ==
    ASSUME Inv, NEW l \in Loop, NEW i \in 1..Size(l)
    PROVE  /\ Todo(l, i) \in Tasks /\ Alive(Todo(l, i).conn)
           /\ Todo(l, i).conn \in Conn /\ Todo(l, i).op \in Ops
           /\ l = IF Todo(l, i).op = "removeConnectionInLoop" THEN 0 ELSE home[Todo(l, i).conn]
           /\ Todo(l, i).op # "connectDestroyed" => home[Todo(l, i).conn] > 0
<1>1. ran[l] + i \in DOMAIN queue[l] /\ Todo(l, i) \in Tasks /\ Todo(l, i) = queue[l][ran[l] + i]
  BY QueueFacts DEF Inv, Todo
<1>2. Alive(Todo(l, i).conn)
  BY <1>1 DEF Alive
<1>3. /\ l = IF Todo(l, i).op = "removeConnectionInLoop" THEN 0 ELSE home[Todo(l, i).conn]
      /\ Todo(l, i).op # "connectDestroyed" => home[Todo(l, i).conn] > 0
  BY <1>1 DEF Inv, Numbers
<1> QED BY <1>1, <1>2, <1>3, TaskFacts

\* What a functor expects, by operation.
LEMMA ExpectedFacts ==
    ASSUME QuietInv, NEW l \in Loop, NEW i \in 1..Size(l)
    PROVE  LET c == Todo(l, i).conn IN
           /\ Todo(l, i).op = "connectEstablished" =>
                 c \in connections /\ state[c] = "KConnecting" /\ channel[c] = "new"
           /\ Todo(l, i).op = "removeConnectionInLoop" =>
                 c \in connections /\ state[c] = "KDisconnected" /\ channel[c] = "off"
           /\ Todo(l, i).op = "connectDestroyed" =>
                 c \notin connections /\ state[c] = "KDisconnected" /\ channel[c] = "off"
           /\ channel[c] # "reading"
<1>1. Todo(l, i).op \in Ops
  BY AheadAlive DEF QuietInv
<1>2. Expected(l, i)
  BY DEF QuietInv, Life
<1> QED BY <1>1, <1>2 DEF Expected, Ops

\* A connection waits for one functor at most.
LEMMA Alone ==
    ASSUME QuietInv, NEW l \in Loop, NEW i \in 1..Size(l), NEW m \in Loop, NEW j \in 1..Size(m),
           Todo(l, i).conn = Todo(m, j).conn
    PROVE  l = m /\ i = j
<1>1. l = m => i = j
  BY DEF QuietInv, Life
<1>2. /\ Todo(l, i).op \in Ops /\ Todo(m, j).op \in Ops
      /\ l = IF Todo(l, i).op = "removeConnectionInLoop" THEN 0 ELSE home[Todo(l, i).conn]
      /\ m = IF Todo(m, j).op = "removeConnectionInLoop" THEN 0 ELSE home[Todo(m, j).conn]
  BY AheadAlive DEF QuietInv
<1>3. Todo(l, i).op = Todo(m, j).op
  <2> DEFINE c == Todo(l, i).conn
  <2>1. /\ Todo(l, i).op = "connectEstablished" =>
              c \in connections /\ state[c] = "KConnecting"
        /\ Todo(l, i).op = "removeConnectionInLoop" =>
              c \in connections /\ state[c] = "KDisconnected"
        /\ Todo(l, i).op = "connectDestroyed" => c \notin connections
    BY ExpectedFacts
  <2>2. /\ Todo(m, j).op = "connectEstablished" =>
              c \in connections /\ state[c] = "KConnecting"
        /\ Todo(m, j).op = "removeConnectionInLoop" =>
              c \in connections /\ state[c] = "KDisconnected"
        /\ Todo(m, j).op = "connectDestroyed" => c \notin connections
    BY ExpectedFacts
  <2> QED BY <1>2, <2>1, <2>2 DEF Ops
<1>4. l = m
  BY <1>2, <1>3
<1> QED BY <1>1, <1>4

\* A step about one connection c, whose functor, if it waits for one, runs.
LEMMA LifeStep ==
    ASSUME QuietInv, NEW d, Follows(d), NEW c \in Conn,
           \A l \in Loop : Size(l)' <= Size(l) - d[l] + 1,
           \A l \in Loop : d[l] = 1 => Todo(l, 1).conn = c,
           \A l \in Loop : \A i \in 1..Size(l)' : i > Size(l) - d[l] =>
              Todo(l, i)'.conn = c /\ Expected(l, i)',
           \A e \in Conn : e # c => state'[e] = state[e] /\ channel'[e] = channel[e]
                                    /\ (e \in connections' <=> e \in connections),
           \A l \in Loop : \A i \in 1..Size(l) : Todo(l, i).conn = c => ~(i > d[l]),
           Settled(c)' \/ Awaited(c)'
    PROVE  Life'
<1>0. Inv
  BY DEF QuietInv
<1>1. ASSUME NEW l \in Loop, NEW i \in 1..Size(l)', ~(i > Size(l) - d[l])
      PROVE  /\ i + d[l] \in 1..Size(l) /\ Todo(l, i)' = Todo(l, i + d[l])
             /\ Todo(l, i)'.conn \in Conn /\ Todo(l, i)'.conn # c
  <2>1. i + d[l] \in 1..Size(l) /\ i + d[l] > d[l] /\ Todo(l, i)' = Todo(l, i + d[l])
    BY <1>0, <1>1, Moves
  <2>2. Todo(l, i + d[l]).conn \in Conn
    BY <1>0, <2>1, AheadAlive
  <2>3. Todo(l, i + d[l]).conn # c
    BY <2>1
  <2> QED BY <2>1, <2>2, <2>3
<1>2. ASSUME NEW l \in Loop, NEW i \in 1..Size(l)' PROVE Expected(l, i)'
  <2>1. CASE i > Size(l) - d[l]
    BY <2>1
  <2>2. CASE ~(i > Size(l) - d[l])
    <3>1. PICK k \in 1..Size(l) : k = i + d[l]
      BY <1>1, <2>2
    <3>2. PICK f : f = Todo(l, k)
      OBVIOUS
    <3>3. Todo(l, i)' = f /\ f.conn \in Conn /\ f.conn # c /\ f.op \in Ops
      <4>1. Todo(l, i)' = f /\ f.conn # c
        BY <1>1, <2>2, <3>1, <3>2
      <4> QED BY <1>0, <3>2, <4>1, AheadAlive
    <3>4. LET e == f.conn IN
           /\ f.op = "connectEstablished" =>
                 e \in connections /\ state[e] = "KConnecting" /\ channel[e] = "new"
           /\ f.op = "removeConnectionInLoop" =>
                 e \in connections /\ state[e] = "KDisconnected" /\ channel[e] = "off"
           /\ f.op = "connectDestroyed" =>
                 e \notin connections /\ state[e] = "KDisconnected" /\ channel[e] = "off"
      BY <3>2, ExpectedFacts
    <3>5. PICK e \in Conn : e = f.conn
      BY <3>3
    <3>6. state'[e] = state[e] /\ channel'[e] = channel[e] /\ (e \in connections' <=> e \in connections)
      BY <3>3, <3>5
    <3> QED BY <3>3, <3>4, <3>5, <3>6 DEF Expected, Ops
  <2> QED BY <2>1, <2>2
<1>3. ASSUME NEW l \in Loop, NEW i \in 1..Size(l)', NEW j \in 1..Size(l)',
             Todo(l, i)'.conn = Todo(l, j)'.conn
      PROVE  i = j
  <2>0. Size(l) \in Nat /\ d[l] \in {0, 1} /\ Size(l)' \in Nat /\ Size(l)' <= Size(l) - d[l] + 1
    BY <1>0, Moves
  <2>1. CASE i > Size(l) - d[l] /\ j > Size(l) - d[l]
    BY <2>0, <2>1
  <2>2. CASE ~(i > Size(l) - d[l]) /\ ~(j > Size(l) - d[l])
    <3>1. i + d[l] \in 1..Size(l) /\ j + d[l] \in 1..Size(l)
          /\ Todo(l, i + d[l]).conn = Todo(l, j + d[l]).conn
      BY <1>1, <1>3, <2>2
    <3>2. i + d[l] = j + d[l]
      BY <3>1, Alone
    <3> QED BY <2>0, <3>2
  <2>3. CASE i > Size(l) - d[l] /\ ~(j > Size(l) - d[l])
    BY <1>1, <1>3, <2>3
  <2>4. CASE ~(i > Size(l) - d[l]) /\ j > Size(l) - d[l]
    BY <1>1, <1>3, <2>4
  <2> QED BY <2>1, <2>2, <2>3, <2>4
<1>4. ASSUME NEW e \in Conn PROVE Settled(e)' \/ Awaited(e)'
  <2>1. CASE e = c
    BY <2>1
  <2>2. CASE e # c /\ Settled(e)
    BY <2>2 DEF Settled
  <2>3. CASE e # c /\ Awaited(e)
    <3>a. PICK l \in Loop : \E i \in 1..Size(l) : Todo(l, i).conn = e
      BY <2>3 DEF Awaited
    <3>1. PICK i \in 1..Size(l) : Todo(l, i).conn = e
      BY <3>a
    <3>2. Size(l) \in Nat /\ d[l] \in {0, 1}
      BY <1>0, Moves
    <3>3. ~(i = 1 /\ d[l] = 1)
      BY <2>3, <3>1
    <3>4. i > d[l]
      BY <3>2, <3>3
    <3>5. i - d[l] \in 1..Size(l)' /\ Todo(l, i - d[l])' = Todo(l, i)
      BY <1>0, <3>4, Moves
    <3>6. PICK k \in 1..Size(l)' : Todo(l, k)' = Todo(l, i)
      BY <3>5
    <3> QED BY <3>1, <3>6 DEF Awaited
  <2>4. Settled(e) \/ Awaited(e)
    BY DEF QuietInv, Life
  <2> QED BY <2>1, <2>2, <2>3, <2>4
<1> QED BY <1>2, <1>3, <1>4 DEF Life

\* Steps that leave the connections and their functors alone.
LEMMA LifeKept ==
    ASSUME QuietInv, UNCHANGED <<queue, ran, connections, state, channel>>
    PROVE  Life' /\ \A c : Alive(c)' <=> Alive(c)
<1>1. \A l, i : Todo(l, i)' = Todo(l, i) /\ Size(l)' = Size(l)
  BY DEF Todo, Size
<1>2. \A l, i : Expected(l, i)' <=> Expected(l, i)
  BY <1>1 DEF Expected
<1>3. \A c : (Settled(c)' <=> Settled(c)) /\ (Awaited(c)' <=> Awaited(c))
  BY <1>1 DEF Settled, Awaited
<1>4. \A c : Alive(c)' <=> Alive(c)
  BY DEF Alive
<1> QED BY <1>1, <1>2, <1>3, <1>4 DEF QuietInv, Life

\* While a connection is in the map the server and its pool stand.
LEMMA TeardownKept ==
    ASSUME QuietInv, connections' \subseteq connections, \A c \in Conn : Alive(c)' => Alive(c),
           UNCHANGED <<owner, numThreads>>
    PROVE  Teardown'
BY DEF QuietInv, Teardown

\* The steps that do not touch a connection.
LEMMA QuietPoolStep ==
    ASSUME QuietInv, SetThreadNum \/ Start \/ OwnerStep
    PROVE  Life' /\ Teardown' /\ fault' = fault
<1>1. UNCHANGED <<queue, ran, connections, state, channel, fault>>
  BY DEF SetThreadNum, Start, OwnerStep, loopVars, connVars
<1>2. owner \notin {"deal", "done"}
  BY DEF SetThreadNum, Start, OwnerStep, Pool!SetThreadNum, Pool!Start, Pool!OwnerStep, Pool!Spawn,
         Pool!Wait, Pool!PushLoop, Pool!Quit, Pool!Wakeup, Pool!Join, Pool!At
<1>3. connections = {} /\ \A c \in Conn : ~Alive(c)
  BY <1>2 DEF QuietInv, Teardown
<1>4. Life' /\ \A c : Alive(c)' <=> Alive(c)
  BY <1>1, LifeKept
<1> QED BY <1>1, <1>3, <1>4 DEF Teardown

LEMMA QuietOtherStep ==
    ASSUME QuietInv,
           \/ Listen \/ DestroyAcceptor \/ Arrive \/ OtherOpens \/ OtherCloses
           \/ PollBase \/ AcceptFails \/ AcceptFatal \/ Emfile \/ Shed
           \/ \E l \in Loop : Swap(l)
    PROVE  Life' /\ Teardown' /\ fault' \in {fault, "abort"}
<1>1. /\ UNCHANGED <<poolVars, queue, ran, connVars>> /\ fault' \in {fault, "abort"}
  <2>1. CASE Listen \/ DestroyAcceptor \/ Arrive \/ OtherOpens \/ OtherCloses
    BY <2>1 DEF Listen, DestroyAcceptor, Arrive, OtherOpens, OtherCloses, loopVars
  <2>2. CASE PollBase \/ \E l \in Loop : Swap(l)
    BY <2>2 DEF PollBase, Swap
  <2>3. CASE AcceptFails \/ AcceptFatal \/ Emfile \/ Shed
    BY <2>3 DEF AcceptFails, AcceptFatal, Emfile, Shed, AcceptStep
  <2> QED BY <2>1, <2>2, <2>3
<1>2. UNCHANGED <<owner, numThreads, connections, state, channel>>
  BY <1>1 DEF poolVars, connVars
<1>3. Life' /\ \A c : Alive(c)' <=> Alive(c)
  BY <1>1, <1>2, LifeKept
<1> QED BY <1>1, <1>2, <1>3, TeardownKept

\* A thread that unwinds its stack has no functor left.
LEMMA QuietThreadStep ==
    ASSUME QuietInv, NEW t \in T, ThreadStep(t) \/ PollThread(t)
    PROVE  Life' /\ Teardown' /\ fault' = fault
<1>0. Inv
  BY DEF QuietInv
<1>1. UNCHANGED <<program, ran, connections, state, channel, fault>>
  BY DEF ThreadStep, PollThread, connVars
<1>2. UNCHANGED numThreads /\ (owner' = owner \/ (Building /\ Building'))
  BY <1>0, <1>1, ThreadPool DEF ThreadStep, PollThread
<1>3. t \in Loop
  BY LoopFacts
<1>4. queue' = queue
  <2>1. CASE PollThread(t)
    BY <2>1 DEF PollThread
  <2>2. CASE ThreadStep(t) /\ (alive'[t] \/ ~alive[t])
    BY <1>0, <1>3, <2>2 DEF ThreadStep, Inv, TypeOK
  <2>3. CASE ThreadStep(t) /\ ~(alive'[t] \/ ~alive[t])
    <3>1. alive \in [T -> BOOLEAN] /\ thread \in [T -> {"none", "construct", "publish", "enter", "test",
                                                        "poll", "leave", "unwind", "done"}]
      BY <1>0, PoolTypes DEF Inv
    <3>2. thread[t] = "unwind"
      <4>1. Pool!ThreadStep(t)
        BY <2>3 DEF ThreadStep
      <4>2. CASE Pool!Unwind(t)
        BY <4>2 DEF Pool!Unwind, Pool!Step
      <4>3. CASE Pool!Construct(t)
        BY <2>3, <3>1, <4>3 DEF Pool!Construct
      <4>4. CASE Pool!Publish(t) \/ Pool!EnterLoop(t) \/ Pool!TestQuit(t) \/ Pool!Leave(t)
        BY <2>3, <4>4 DEF Pool!Publish, Pool!EnterLoop, Pool!TestQuit, Pool!Leave
      <4> QED BY <4>1, <4>2, <4>3, <4>4 DEF Pool!ThreadStep
    <3>3. Told(t) /\ t <= numThreads
      BY <1>0, <3>2 DEF Inv, ThreadInv
    <3>4. owner # "deal" /\ numThreads # 0
      <4>1. numThreads \in Nat /\ t > 0
        BY <1>0, PoolTypes, LoopFacts DEF Inv
      <4> QED BY <3>3, <4>1, LoopFacts DEF Told
    <3>5. \A c \in Conn : ~Alive(c)
      BY <3>4 DEF QuietInv, Teardown
    <3>6. /\ queue[t] \in Seq(Tasks) /\ Len(queue[t]) \in Nat /\ DOMAIN queue[t] = 1..Len(queue[t])
          /\ \A i \in 1..Len(queue[t]) : queue[t][i] \in Tasks
      BY <1>0, <1>3, QueueFacts DEF Inv
    <3>7. Len(queue[t]) = 0
      <4>1. ASSUME NEW i \in DOMAIN queue[t] PROVE FALSE
        <5>1. queue[t][i].conn \in Conn
          BY <3>6, TaskFacts
        <5>2. Alive(queue[t][i].conn)
          BY <1>3 DEF Alive
        <5> QED BY <3>5, <5>1, <5>2
      <4>2. 1 \notin 1..Len(queue[t])
        BY <3>6, <4>1
      <4> QED BY <3>6, <4>2
    <3>8. queue[t] = <<>>
      BY <3>6, <3>7, EmptySeq
    <3>9. queue \in [Loop -> Seq(Tasks)]
      BY <1>0, <1>3, QueueFacts DEF Inv
    <3> QED BY <1>3, <2>3, <3>8, <3>9 DEF ThreadStep
  <2> QED BY <2>1, <2>2, <2>3
<1>5. Life' /\ \A c : Alive(c)' <=> Alive(c)
  BY <1>1, <1>4, LifeKept
<1>6. Teardown'
  <2>1. CASE owner' = owner
    BY <1>1, <1>2, <1>5, <2>1, TeardownKept
  <2>2. CASE Building /\ Building'
    <3>1. connections = {} /\ \A c \in Conn : ~Alive(c)
      BY <2>2 DEF QuietInv, Teardown, Building
    <3> QED BY <1>1, <1>5, <3>1 DEF Teardown
  <2> QED BY <1>2, <2>1, <2>2
<1> QED BY <1>1, <1>5, <1>6

\* A connection begins its life.
LEMMA QuietNewConnection ==
    ASSUME QuietInv, NEW l \in Loop, NewConnection(l)
    PROVE  Life' /\ Teardown' /\ fault' = fault
<1>0. Inv
  BY DEF QuietInv
<1>1. nextConnId \in Conn /\ nextConnId \notin connections /\ ~Alive(nextConnId) /\ owner = "deal"
  BY <1>0, NewConnectionFacts
<1>2. PICK c \in Conn : c = nextConnId
  BY <1>1
<1>3. Made(l, c)
  BY <1>0, <1>2, NewConnectionStep
<1>4. /\ owner' = owner /\ fault' = fault /\ connections' = connections \cup {c}
      /\ state'[c] = (IF l = 0 THEN "KConnected" ELSE "KConnecting")
      /\ \A e \in Conn : e # c => state'[e] = state[e] /\ channel'[e] = channel[e]
      /\ channel'[c] = (IF l = 0 THEN "reading" ELSE "new")
      /\ Follows(NoneRun)
      /\ \A m \in Loop : Size(m)' <= Size(m) - NoneRun[m] + 1
      /\ \A m \in Loop : \A i \in 1..Size(m)' : i > Size(m) - NoneRun[m] =>
            l # 0 /\ m = l /\ Todo(m, i)' = Task("connectEstablished", c)
      /\ l # 0 => \E i \in 1..Size(l)' : i > Size(l) /\ Todo(l, i)' = Task("connectEstablished", c)
  BY <1>3 DEF Made
<1>5. Task("connectEstablished", c).op = "connectEstablished" /\ Task("connectEstablished", c).conn = c
  BY TaskType DEF Ops
<1>6. \A m \in Loop : \A i \in 1..Size(m)' : i > Size(m) - NoneRun[m] =>
              Todo(m, i)'.conn = c /\ Expected(m, i)'
  BY <1>4, <1>5 DEF Expected
<1>7. \A m \in Loop : \A i \in 1..Size(m) : Todo(m, i).conn # c
  BY <1>0, <1>1, <1>2, AheadAlive
<1>8. \A m \in Loop : NoneRun[m] # 1
  BY DEF NoneRun
<1>9. Settled(c)' \/ Awaited(c)'
  <2>1. CASE l = 0
    BY <1>4, <2>1 DEF Settled
  <2>2. CASE l # 0
    BY <1>4, <1>5, <2>2 DEF Awaited
  <2> QED BY <2>1, <2>2
<1>10. \A e \in Conn : e # c => state'[e] = state[e] /\ channel'[e] = channel[e]
                                /\ (e \in connections' <=> e \in connections)
  BY <1>4
<1>11. Life'
  BY <1>4, <1>6, <1>7, <1>8, <1>9, <1>10, LifeStep
<1>12. Teardown'
  BY <1>1, <1>4 DEF Teardown
<1> QED BY <1>4, <1>11, <1>12

\* A connection that reads is in the map, and waits for nothing.
LEMMA ReadingSettled ==
    ASSUME QuietInv, NEW c \in Conn, channel[c] = "reading"
    PROVE  /\ c \in connections /\ state[c] = "KConnected" /\ owner = "deal"
           /\ \A l \in Loop : \A i \in 1..Size(l) : Todo(l, i).conn # c
<1>1. \A l \in Loop : \A i \in 1..Size(l) : Todo(l, i).conn # c
  BY ExpectedFacts
<1>2. Settled(c)
  BY <1>1 DEF QuietInv, Life, Awaited
<1> QED BY <1>1, <1>2 DEF Settled, QuietInv, Teardown

LEMMA QuietHandleClose ==
    ASSUME QuietInv, NEW c \in Conn, HandleClose(c)
    PROVE  Life' /\ Teardown' /\ fault' \in {fault, "none"}
<1>0. Inv
  BY DEF QuietInv
<1>1. /\ channel[c] = "reading" /\ phase[home[c]] = "handle"
      /\ UNCHANGED <<poolVars, phase, batch, ran, home>>
  BY DEF HandleClose, poolButWakeup, poolVars
<1>2. /\ c \in connections /\ state[c] = "KConnected" /\ owner = "deal"
      /\ \A l \in Loop : \A i \in 1..Size(l) : Todo(l, i).conn # c
  BY <1>1, ReadingSettled
<1>3. /\ state \in [Conn -> {"KConnecting", "KConnected", "KDisconnected"}]
      /\ channel \in [Conn -> {"new", "reading", "off"}] /\ 0 \in Loop
  BY <1>0, LoopFacts DEF Inv, TypeOK
<1>4. /\ state'[c] = "KDisconnected" /\ channel'[c] = "off"
      /\ \A e \in Conn : e # c => state'[e] = state[e] /\ channel'[e] = channel[e]
  BY <1>3 DEF HandleClose
<1>5. PICK f \in Tasks : /\ queue' = Pushed(queue, 0, f) /\ f.conn = c
                         /\ home[c] = 0 => f.op = "connectDestroyed" /\ connections' = connections \ {c}
                         /\ home[c] # 0 => f.op = "removeConnectionInLoop" /\ connections' = connections
  <2>1. CASE home[c] = 0
    <3>1. queue' = Pushed(queue, 0, Task("connectDestroyed", c)) /\ connections' = connections \ {c}
      BY <2>1 DEF HandleClose, Farewell
    <3> QED BY <2>1, <3>1, TaskType DEF Ops
  <2>2. CASE home[c] # 0
    <3>1. queue' = Pushed(queue, 0, Task("removeConnectionInLoop", c)) /\ connections' = connections
      BY <2>2 DEF HandleClose
    <3> QED BY <2>2, <3>1, TaskType DEF Ops
  <2> QED BY <2>1, <2>2
<1>6. Basis(queue, NoneRun)
  BY <1>0, <1>1, QueueBasis
<1>7. /\ Follows(NoneRun)
      /\ \A m \in Loop : Size(m)' <= Size(m) - NoneRun[m] + 1
      /\ \A m \in Loop : \A i \in 1..Size(m)' : i > Size(m) - NoneRun[m] => Todo(m, i)' = f
      /\ \E i \in 1..Size(0)' : i > Size(0) - NoneRun[0] /\ Todo(0, i)' = f
  BY <1>0, <1>3, <1>5, <1>6, BasisFollows
<1>8. \A m \in Loop : \A i \in 1..Size(m)' : i > Size(m) - NoneRun[m] =>
              Todo(m, i)'.conn = c /\ Expected(m, i)'
  BY <1>2, <1>4, <1>5, <1>7 DEF Expected
<1>9. \A e \in Conn : e # c => state'[e] = state[e] /\ channel'[e] = channel[e]
                               /\ (e \in connections' <=> e \in connections)
  BY <1>4, <1>5
<1>10. Awaited(c)'
  BY <1>3, <1>5, <1>7 DEF Awaited
<1>11. \A m \in Loop : NoneRun[m] # 1
  BY DEF NoneRun
<1>12. Life'
  BY <1>2, <1>7, <1>8, <1>9, <1>10, <1>11, LifeStep
<1>13. AliveSet' \subseteq AliveSet
  BY <1>0, HandleCloseInv
<1>14. Teardown'
  <2>1. connections' \subseteq connections /\ UNCHANGED <<owner, numThreads>>
    BY <1>1, <1>5 DEF poolVars
  <2> QED BY <1>13, <2>1, TeardownKept DEF AliveSet
<1>15. fault' \in {fault, "none"}
  BY <1>2 DEF HandleClose, Destroyed
<1> QED BY <1>12, <1>14, <1>15

\* The functors.
LEMMA QuietFunctor ==
    ASSUME QuietInv, NEW l \in Loop, NEW c \in Conn,
           ConnectEstablished(l, c) \/ ConnectDestroyed(l, c) \/ (l = 0 /\ RemoveConnectionInLoop(c))
    PROVE  Life' /\ Teardown' /\ fault' = "none"
<1>0. Inv
  BY DEF QuietInv
<1>1. PICK op \in Ops : /\ Run(l, op, c)
                        /\ op = "connectEstablished" => ConnectEstablished(l, c)
                        /\ op = "connectDestroyed" => ConnectDestroyed(l, c)
                        /\ op = "removeConnectionInLoop" => RemoveConnectionInLoop(c) /\ l = 0
  BY DEF ConnectEstablished, ConnectDestroyed, RemoveConnectionInLoop, Ops
<1>2. UNCHANGED <<owner, numThreads, home>>
  BY <1>1 DEF Run, poolButWakeup
<1>3. /\ state \in [Conn -> {"KConnecting", "KConnected", "KDisconnected"}]
      /\ channel \in [Conn -> {"new", "reading", "off"}] /\ home \in [Conn -> Loop]
  BY <1>0 DEF Inv, TypeOK
<1>4. Size(l) >= 1 /\ Todo(l, 1) = Task(op, c) /\ Size(l) \in Nat /\ 1 \in 1..Size(l)
  <2>1. Size(l) >= 1 /\ Todo(l, 1) = Task(op, c)
    BY <1>0, <1>1, RunFacts
  <2>2. Size(l) \in Nat
    BY <1>0, QueueFacts DEF Inv
  <2> QED BY <2>1, <2>2
<1>5. Todo(l, 1).op = op /\ Todo(l, 1).conn = c
  BY <1>4, TaskType
<1>6. /\ op = "connectEstablished" =>
            c \in connections /\ state[c] = "KConnecting" /\ channel[c] = "new"
      /\ op = "removeConnectionInLoop" =>
            c \in connections /\ state[c] = "KDisconnected" /\ channel[c] = "off"
      /\ op = "connectDestroyed" =>
            c \notin connections /\ state[c] = "KDisconnected" /\ channel[c] = "off"
  BY <1>4, <1>5, ExpectedFacts
<1>7. c \in connections => owner = "deal"
  BY DEF QuietInv, Teardown
<1>8. /\ OneRun(l)[l] = 1 /\ \A m \in Loop : OneRun(l)[m] = 1 => m = l
      /\ Basis(Left(l), OneRun(l))
  BY <1>0, <1>1, LeftBasis DEF OneRun
<1>9. \A m \in Loop : OneRun(l)[m] = 1 => Todo(m, 1).conn = c
  BY <1>5, <1>8
<1>10. \A m \in Loop : \A i \in 1..Size(m) : Todo(m, i).conn = c => ~(i > OneRun(l)[m])
  <2> SUFFICES ASSUME NEW m \in Loop, NEW i \in 1..Size(m), Todo(m, i).conn = c
               PROVE  ~(i > OneRun(l)[m])
    OBVIOUS
  <2>1. m = l /\ i = 1
    BY <1>4, <1>5, Alone
  <2> QED BY <1>8, <2>1
<1>11. CASE op = "connectEstablished" \/ op = "connectDestroyed"
  <2>1. ConnectEstablished(l, c) \/ ConnectDestroyed(l, c)
    BY <1>1, <1>11
  <2>2. queue' = Left(l) /\ connections' = connections
    BY <2>1 DEF ConnectEstablished, ConnectDestroyed
  <2>3. Task(op, c) \in Tasks
    BY TaskType
  <2>4. /\ Follows(OneRun(l))
        /\ \A m \in Loop : Size(m)' <= Size(m) - OneRun(l)[m] + 1
        /\ \A m \in Loop : \A i \in 1..Size(m)' : i > Size(m) - OneRun(l)[m] =>
              queue' = Pushed(Left(l), l, Task(op, c)) /\ m = l
    BY <1>0, <1>8, <2>2, <2>3, BasisFollows
  <2>5. Left(l) # Pushed(Left(l), l, Task(op, c))
    <3>1. Left(l) \in [Loop -> Seq(Tasks)]
      BY <1>0, <1>1, LeftFacts
    <3>2. /\ Len(Left(l)[l]) \in Nat
          /\ Len(Pushed(Left(l), l, Task(op, c))[l]) = Len(Left(l)[l]) + 1
      BY <2>3, <3>1, PushedFacts, SMTT(30)
    <3>3. Len(Pushed(Left(l), l, Task(op, c))[l]) # Len(Left(l)[l])
      BY <3>2
    <3> QED BY <3>3
  <2>6. \A m \in Loop : \A i \in 1..Size(m)' : ~(i > Size(m) - OneRun(l)[m])
    BY <2>2, <2>4, <2>5
  <2>7. /\ \A e \in Conn : e # c => state'[e] = state[e] /\ channel'[e] = channel[e]
        /\ op = "connectEstablished" => state'[c] = "KConnected" /\ channel'[c] = "reading" /\ fault' = "none"
        /\ op = "connectDestroyed" => state'[c] = "KDisconnected" /\ channel'[c] = "new" /\ fault' = "none"
    <3>1. CASE op = "connectEstablished"
      BY <1>1, <1>3, <1>6, <3>1 DEF ConnectEstablished
    <3>2. CASE op = "connectDestroyed"
      BY <1>1, <1>3, <1>6, <3>2 DEF ConnectDestroyed
    <3> QED BY <1>11, <3>1, <3>2
  <2>8. Settled(c)'
    BY <1>6, <1>11, <2>2, <2>7 DEF Settled
  <2>9. Life'
    BY <1>9, <1>10, <2>2, <2>4, <2>6, <2>7, <2>8, LifeStep
  <2>10. AliveSet' \subseteq AliveSet
    BY <1>0, <2>1, EstablishedInv
  <2>11. Teardown'
    BY <1>2, <2>2, <2>10, TeardownKept DEF AliveSet
  <2> QED BY <1>11, <2>7, <2>9, <2>11
<1>12. CASE op = "removeConnectionInLoop"
  <2>1. RemoveConnectionInLoop(c) /\ l = 0
    BY <1>1, <1>12
  <2>2. PICK h \in Loop : h = home[c]
    BY <1>3
  <2>3. PICK f \in Tasks : f = Task("connectDestroyed", c)
    BY TaskType DEF Ops
  <2>4. f.op = "connectDestroyed" /\ f.conn = c
    BY <2>3, TaskType DEF Ops
  <2>5. /\ queue' = Pushed(Left(l), h, f) /\ connections' = connections \ {c}
        /\ UNCHANGED <<state, channel>> /\ fault' = "none"
    BY <1>6, <1>7, <1>12, <2>1, <2>2, <2>3 DEF RemoveConnectionInLoop, Farewell, Destroyed
  <2>6. /\ Follows(OneRun(l))
        /\ \A m \in Loop : Size(m)' <= Size(m) - OneRun(l)[m] + 1
        /\ \A m \in Loop : \A i \in 1..Size(m)' : i > Size(m) - OneRun(l)[m] => Todo(m, i)' = f
        /\ \E i \in 1..Size(h)' : i > Size(h) - OneRun(l)[h] /\ Todo(h, i)' = f
    BY <1>0, <1>8, <2>5, BasisFollows
  <2>7. \A m \in Loop : \A i \in 1..Size(m)' : i > Size(m) - OneRun(l)[m] =>
              Todo(m, i)'.conn = c /\ Expected(m, i)'
    BY <1>6, <1>12, <2>4, <2>5, <2>6 DEF Expected
  <2>8. Awaited(c)'
    BY <2>4, <2>6 DEF Awaited
  <2>9. \A e \in Conn : e # c => state'[e] = state[e] /\ channel'[e] = channel[e]
                                 /\ (e \in connections' <=> e \in connections)
    BY <2>5
  <2>10. Life'
    BY <1>9, <1>10, <2>6, <2>7, <2>8, <2>9, LifeStep
  <2>11. AliveSet' \subseteq AliveSet
    BY <1>0, <2>1, RemoveInv
  <2>12. Teardown'
    BY <1>2, <2>5, <2>11, TeardownKept DEF AliveSet
  <2> QED BY <2>5, <2>10, <2>12
<1> QED BY <1>11, <1>12 DEF Ops

\* The destructor of a quiet server gives no functor to another loop.
LEMMA QuietDestroy ==
    ASSUME QuietInv, program.teardown # "any", Destroy
    PROVE  Life' /\ Teardown' /\ fault' = fault
<1>0. Inv
  BY DEF QuietInv
<1>1. /\ program.threads = 0 \/ \A c \in Conn : ~Alive(c)
      /\ connections' = {} /\ UNCHANGED <<ran, fault>>
      /\ queue' = [l \in Loop |-> IF l = 0 THEN queue[0] ELSE queue[l] \o Given(l)]
      /\ state' = [c \in Conn |-> IF c \in connections /\ home[c] = 0 THEN "KDisconnected" ELSE state[c]]
      /\ channel' = [c \in Conn |-> IF c \in connections /\ home[c] = 0 THEN "new" ELSE channel[c]]
      /\ Pool!Destroy
  BY DEF Destroy, Given
<1>2. /\ owner = "deal" /\ numThreads' = numThreads /\ owner' = (IF numThreads = 0 THEN "done" ELSE "quit")
  BY <1>1 DEF Pool!Destroy, Pool!At, Pool!poolVars
<1>3. numThreads = program.threads
  BY <1>0, <1>2 DEF Inv, OwnerInv
<1>4. \A c \in connections : c \in Conn /\ home[c] = 0
  <2> SUFFICES ASSUME NEW c \in connections PROVE c \in Conn /\ home[c] = 0
    OBVIOUS
  <2>1. c \in Conn /\ Alive(c)
    BY <1>0 DEF Inv, TypeOK, Alive
  <2>2. numThreads = 0
    BY <1>1, <1>3, <2>1
  <2>3. home[c] <= 0 /\ home[c] \in Loop
    BY <1>0, <2>1, <2>2 DEF Inv, Numbers, TypeOK
  <2> QED BY <2>1, <2>3 DEF Loop
<1>5. queue' = queue
  <2>1. queue \in [Loop -> Seq(Tasks)]
    BY <1>0 DEF Inv, TypeOK, Tasks, Ops
  <2>2. \A l \in Loop : l # 0 => Given(l) = <<>>
    BY <1>0, <1>4, GivenFacts
  <2>3. \A l \in Loop : queue[l] \o <<>> = queue[l]
    BY <2>1, ConcatEmptySeq
  <2> QED BY <1>1, <2>1, <2>2, <2>3
<1>6. ASSUME NEW l \in Loop, NEW i \in 1..Size(l)
      PROVE  Todo(l, i).conn \in Conn /\ Todo(l, i).conn \notin connections /\ Todo(l, i).op = "connectDestroyed"
  <2>1. /\ Todo(l, i).conn \in Conn /\ Todo(l, i).op \in Ops /\ Alive(Todo(l, i).conn)
        /\ Todo(l, i).op # "connectDestroyed" => home[Todo(l, i).conn] > 0
    BY <1>0, AheadAlive
  <2>2. numThreads = 0
    BY <1>1, <1>3, <2>1
  <2>3. ~(home[Todo(l, i).conn] > 0)
    <3>1. home[Todo(l, i).conn] <= 0 /\ home[Todo(l, i).conn] \in Loop
      BY <1>0, <2>1, <2>2 DEF Inv, Numbers, TypeOK
    <3> QED BY <3>1 DEF Loop
  <2>4. Todo(l, i).op = "connectDestroyed"
    BY <2>1, <2>3
  <2> QED BY <2>1, <2>4, ExpectedFacts
<1>7. \A l, i : Todo(l, i)' = Todo(l, i) /\ Size(l)' = Size(l)
  BY <1>1, <1>5 DEF Todo, Size
<1>8. \A c \in Conn : IF c \in connections THEN state'[c] = "KDisconnected" /\ channel'[c] = "new"
                                          ELSE state'[c] = state[c] /\ channel'[c] = channel[c]
  BY <1>1, <1>4
<1>9. Life'
  <2>1. ASSUME NEW l \in Loop, NEW i \in 1..Size(l)' PROVE Expected(l, i)'
    <3>1. PICK f : f = Todo(l, i)
      OBVIOUS
    <3>2. i \in 1..Size(l) /\ Todo(l, i)' = f
      BY <1>7, <2>1, <3>1
    <3>3. f.conn \in Conn /\ f.conn \notin connections /\ f.op = "connectDestroyed"
      BY <1>6, <3>1, <3>2
    <3>4. state[f.conn] = "KDisconnected" /\ channel[f.conn] = "off"
      BY <3>1, <3>2, <3>3, ExpectedFacts
    <3>5. state'[f.conn] = "KDisconnected" /\ channel'[f.conn] = "off" /\ f.conn \notin connections'
      BY <1>1, <1>8, <3>3, <3>4
    <3> QED BY <3>2, <3>3, <3>5 DEF Expected
  <2>2. \A l \in Loop : \A i, j \in 1..Size(l)' : Todo(l, i)'.conn = Todo(l, j)'.conn => i = j
    BY <1>7 DEF QuietInv, Life
  <2>3. ASSUME NEW c \in Conn PROVE Settled(c)' \/ Awaited(c)'
    <3>1. CASE c \in connections
      BY <1>1, <1>8, <3>1 DEF Settled
    <3>2. CASE c \notin connections /\ Settled(c)
      BY <1>1, <1>8, <3>2 DEF Settled
    <3>3. CASE Awaited(c)
      BY <1>7, <3>3 DEF Awaited
    <3>4. Settled(c) \/ Awaited(c)
      BY DEF QuietInv, Life
    <3> QED BY <3>1, <3>2, <3>3, <3>4
  <2> QED BY <2>1, <2>2, <2>3 DEF Life
<1>10. Teardown'
  <2>1. \A c \in Conn : Alive(c)' => Alive(c)
    BY <1>1, <1>5 DEF Alive
  <2>2. \A c \in Conn : Alive(c)' => numThreads = 0
    BY <1>1, <1>3, <2>1
  <2> QED BY <1>1, <1>2, <2>2 DEF Teardown
<1> QED BY <1>1, <1>9, <1>10

LEMMA InitQuiet == Init => QuietInv
<1> SUFFICES ASSUME Init PROVE QuietInv
  OBVIOUS
<1>1. Inv
  BY InitInv
<1>2. \A l \in Loop : queue[l] = <<>> /\ ran[l] = 0
  BY DEF Init
<1>3. Len(<<>>) = 0 /\ DOMAIN <<>> = {}
  <2>1. DOMAIN <<>> = 1..0
    BY EmptySeq, LenProperties
  <2> QED BY <2>1, EmptySeq
<1>4. \A l \in Loop : 1..Size(l) = {}
  <2>1. \A l \in Loop : Size(l) = 0
    BY <1>2, <1>3 DEF Size
  <2> QED BY <2>1
<1>5. Life
  BY <1>4 DEF Life, Settled, Init
<1>6. Teardown
  BY <1>2, <1>3 DEF Teardown, Alive, Init
<1> QED BY <1>1, <1>5, <1>6 DEF QuietInv, Init

LEMMA NextQuiet == AllQuiet /\ QuietInv /\ [Next]_vars => QuietInv'
<1> SUFFICES ASSUME AllQuiet, QuietInv, [Next]_vars PROVE QuietInv'
  OBVIOUS
<1>0. Inv'
  BY NextInv DEF QuietInv
<1>1. program.teardown # "any"
  BY DEF AllQuiet, QuietInv, Inv, TypeOK
<1>2. T = Pool!T /\ \A t \in T : t \in Loop
  BY LoopFacts DEF T, Pool!T
<1>3. CASE UNCHANGED vars
  <2>1. UNCHANGED <<queue, ran, connections, state, channel, fault, owner, numThreads>>
    BY <1>3 DEF vars, poolVars, loopVars, connVars
  <2>2. Life' /\ \A c : Alive(c)' <=> Alive(c)
    BY <2>1, LifeKept
  <2>3. Teardown'
    BY <2>1, <2>2, TeardownKept
  <2> QED BY <1>0, <2>1, <2>2, <2>3 DEF QuietInv
<1>4. CASE SetThreadNum \/ Start \/ OwnerStep
  BY <1>0, <1>4, QuietPoolStep DEF QuietInv
<1>5. CASE \/ Listen \/ DestroyAcceptor \/ Arrive \/ OtherOpens \/ OtherCloses
           \/ PollBase \/ AcceptFails \/ AcceptFatal \/ Emfile \/ Shed
           \/ \E l \in Loop : Swap(l)
  BY <1>0, <1>5, QuietOtherStep DEF QuietInv
<1>6. CASE \E l \in Loop : NewConnection(l)
  BY <1>0, <1>6, QuietNewConnection DEF QuietInv
<1>7. CASE \E l \in Loop : Functor(l)
  BY <1>0, <1>7, QuietFunctor DEF QuietInv, Functor
<1>8. CASE Destroy
  BY <1>0, <1>1, <1>8, QuietDestroy DEF QuietInv
<1>9. CASE \E t \in T : ThreadStep(t) \/ PollThread(t)
  BY <1>0, <1>9, QuietThreadStep DEF QuietInv
<1>10. CASE \E c \in Conn : HandleClose(c)
  BY <1>0, <1>10, QuietHandleClose DEF QuietInv
<1> QED BY <1>2, <1>3, <1>4, <1>5, <1>6, <1>7, <1>8, <1>9, <1>10, LoopFacts
        DEF Next, BaseStep, PoolStep, AcceptNext

\* QuietInv is an invariant of the programs that let their connections go
\* before they destroy a server with a pool.
THEOREM QuietInvHolds == AllQuiet => (Spec => []QuietInv)
<1> SUFFICES ASSUME AllQuiet PROVE Spec => []QuietInv
  OBVIOUS
<1>1. Init => QuietInv
  BY InitQuiet
<1>2. QuietInv /\ [Next]_vars => QuietInv'
  BY NextQuiet
<1> QED BY <1>1, <1>2, PTL DEF Spec

\* For such programs no assertion of TcpServer, TcpConnection or Channel fails
\* on a connection's way through its loops, removeConnectionInLoop finds its
\* server, and a TcpConnection dies disconnected and out of the poller.
THEOREM AssertionsHold == AllQuiet => (Spec => []NoAssertFails)
<1> SUFFICES ASSUME AllQuiet PROVE Spec => []NoAssertFails
  OBVIOUS
<1>1. QuietInv => NoAssertFails
  <2> SUFFICES ASSUME QuietInv PROVE NoAssertFails
    OBVIOUS
  <2>1. ASSUME NEW c \in Conn, ~Alive(c) PROVE state[c] = "KDisconnected" /\ channel[c] = "new"
    <3>1. ~Awaited(c)
      BY <2>1, AheadAlive DEF Awaited, QuietInv
    <3>2. c \notin connections
      BY <2>1 DEF Alive
    <3> QED BY <3>1, <3>2 DEF QuietInv, Life, Settled
  <2> QED BY <2>1 DEF QuietInv, NoAssertFails
<1>2. Spec => []QuietInv
  BY QuietInvHolds
<1> QED BY <1>1, <1>2, PTL

\* A loop that start() has collected is alive until its thread is told to quit.
LEMMA LoopStands ==
    ASSUME Inv, NEW t \in T, t <= numThreads, ~Told(t), owner # "setup", ~Building
    PROVE  loop[t] /\ alive[t]
<1>1. thread[t] \in {"enter", "test", "poll"}
  <2>1. thread[t] \notin {"none", "construct", "publish", "leave", "unwind", "done"}
    BY DEF Inv, ThreadInv
  <2> QED BY <2>1, PoolTypes DEF Inv
<1> QED BY <1>1 DEF Inv, ThreadInv

\* For every program: getNextLoop() returns no loop that is gone, and the
\* destructor of each EventLoopThread finds its loop_ set.
THEOREM PoolLoopsAlive == Spec => []Pool!LoopsAlive
<1>1. Inv => Pool!LoopsAlive
  <2> SUFFICES ASSUME Inv, NEW i \in DOMAIN loops,
                      \/ owner = "deal"
                      \/ owner = "quit" /\ loops[i] >= cur
                      \/ owner \in {"wakeup", "join"} /\ loops[i] > cur
               PROVE  loop[loops[i]] /\ alive[loops[i]]
    BY DEF Pool!LoopsAlive
  <2>1. owner # "setup" /\ ~Building
    BY DEF Building
  <2>2. loops \in Seq(T) /\ numThreads \in Nat /\ cur \in Nat
    BY PoolTypes DEF Inv
  <2>3. Len(loops) = numThreads /\ loops[i] = i
    BY <2>1 DEF Inv, OwnerInv
  <2>4. i \in 1..Len(loops) /\ i \in T
    BY <2>2, <2>3, LenProperties, ElementOfSeq
  <2>5. i <= numThreads /\ i \in Nat
    BY <2>2, <2>3, <2>4
  <2>6. ~Told(i)
    BY <2>2, <2>3, <2>5 DEF Told
  <2> QED BY <2>1, <2>3, <2>4, <2>5, <2>6, LoopStands
<1> QED BY InitInv, NextInv, <1>1, PTL DEF Spec

\* For quiet programs also no connection outlives the EventLoop it was dealt to.
THEOREM LoopsOutlive == AllQuiet => (Spec => []LoopsAlive)
<1> SUFFICES ASSUME AllQuiet PROVE Spec => []LoopsAlive
  OBVIOUS
<1>1. QuietInv => \A c \in Conn : Alive(c) /\ home[c] > 0 => alive[home[c]]
  <2> SUFFICES ASSUME QuietInv, NEW c \in Conn, Alive(c), home[c] > 0
               PROVE  alive[home[c]]
    OBVIOUS
  <2>1. home[c] \in T /\ home[c] <= numThreads /\ numThreads # 0
    <3>1. home[c] \in Loop /\ home[c] <= numThreads
      BY DEF QuietInv, Inv, TypeOK, Numbers
    <3>2. home[c] \in T
      BY <3>1, LoopFacts
    <3>3. home[c] \in Nat /\ home[c] > 0 /\ numThreads \in Nat
      BY <3>2, LoopFacts, PoolTypes DEF QuietInv, Inv
    <3>4. numThreads # 0
      BY <3>1, <3>3
    <3> QED BY <3>1, <3>2, <3>4
  <2>2. owner = "deal"
    BY <2>1 DEF QuietInv, Teardown
  <2> QED BY <2>1, <2>2, LoopStands DEF QuietInv, Told, Building
<1>2. Spec => []QuietInv
  BY QuietInvHolds
<1>3. Spec => []Pool!LoopsAlive
  BY PoolLoopsAlive
<1>4. LoopsAlive <=> Pool!LoopsAlive /\ \A c \in Conn : Alive(c) /\ home[c] > 0 => alive[home[c]]
  BY DEF LoopsAlive
<1> QED BY <1>1, <1>2, <1>3, <1>4, PTL
-----------------------------------------------------------------------------
(* The connections of a server keep the promise of ConnectionLife.         *)

Was == {"KConnecting", "KConnected", "KDisconnected"}

\* A connection not accepted yet has no pointer, and one that is not down has.
InOrder ==
    /\ nextConnId \in Nat
    /\ \A c \in Conn : /\ Alive(c) \in BOOLEAN /\ state[c] \in Was /\ c \in Nat
                       /\ nextConnId <= c => ~Alive(c)
                       /\ c < nextConnId /\ state[c] # "KDisconnected" => Alive(c)

LEMMA OrderFacts == QuietInv => InOrder
<1> SUFFICES ASSUME QuietInv PROVE InOrder
  OBVIOUS
<1>1. nextConnId \in Nat /\ connections \subseteq Conn /\ state \in [Conn -> Was] /\ Conn \subseteq Nat
  BY ProgramsAssumption DEF QuietInv, Inv, TypeOK, Conn, Was
<1>2. ASSUME NEW c \in Conn PROVE nextConnId <= c => ~Alive(c)
  <2>1. c \in connections => c < nextConnId
    BY DEF QuietInv, Inv, Numbers
  <2>2. \A l \in Loop : \A i \in DOMAIN queue[l] : queue[l][i].conn = c => c < nextConnId
    BY DEF QuietInv, Inv, Numbers
  <2>3. Alive(c) => c < nextConnId
    BY <2>1, <2>2 DEF Alive
  <2> QED BY <1>1, <2>3
<1>3. ASSUME NEW c \in Conn, ~Alive(c) PROVE state[c] = "KDisconnected"
  <2>1. ~Awaited(c)
    BY <1>3, AheadAlive DEF Awaited, QuietInv
  <2>2. c \notin connections
    BY <1>3 DEF Alive
  <2> QED BY <2>1, <2>2 DEF QuietInv, Life, Settled
<1>4. \A c \in Conn : Alive(c) \in BOOLEAN /\ state[c] \in Was
  BY <1>1 DEF Alive
<1> QED BY <1>1, <1>2, <1>3, <1>4 DEF InOrder

\* What a step does to a connection: it may be accepted; it goes up, then
\* down; and once nobody has a pointer to it nobody gets one.
Goes(c) ==
    \/ state'[c] = state[c]
    \/ state[c] = "KConnecting" /\ state'[c] = "KConnected"
    \/ state[c] = "KConnected" /\ state'[c] = "KDisconnected"
Advances ==
    /\ nextConnId' \in {nextConnId, nextConnId + 1}
    /\ \A c \in Conn : /\ c # nextConnId \/ nextConnId' = nextConnId => Goes(c) /\ (Alive(c)' => Alive(c))
                       /\ c = nextConnId /\ nextConnId' # nextConnId =>
                             state'[c] \in {"KConnecting", "KConnected"}

LEMMA NewConnectionAdvances ==
    ASSUME QuietInv, NEW l \in Loop, NewConnection(l)
    PROVE  Advances
<1>0. Inv
  BY DEF QuietInv
<1>1. nextConnId \in Conn /\ nextConnId' = nextConnId + 1
  BY <1>0, NewConnectionFacts
<1>2. Made(l, nextConnId)
  BY <1>0, <1>1, NewConnectionStep
<1>3. state'[nextConnId] \in {"KConnecting", "KConnected"}
  BY <1>2 DEF Made
<1>4. ASSUME NEW c \in Conn, c # nextConnId, Alive(c)' PROVE Alive(c)
  <2>1. CASE c \in connections'
    BY <2>1, <1>2, <1>4 DEF Made, Alive
  <2>2. ASSUME NEW m \in Loop, NEW i \in DOMAIN queue'[m], queue'[m][i].conn = c PROVE Alive(c)
    <3>1. Task("connectEstablished", nextConnId).conn = nextConnId
      BY <1>1, TaskType DEF Ops
    <3>2. PICK j \in DOMAIN queue[m] : queue'[m][i] = queue[m][j]
      BY <1>2, <1>4, <2>2, <3>1 DEF Made
    <3> QED BY <2>2, <3>2 DEF Alive
  <2> QED BY <1>4, <2>1, <2>2 DEF Alive
<1>5. \A c \in Conn : c # nextConnId => Goes(c)
  BY <1>2 DEF Made, Goes
<1>6. nextConnId' # nextConnId
  BY <1>1, ProgramsAssumption DEF Conn
<1> QED BY <1>1, <1>3, <1>4, <1>5, <1>6 DEF Advances

\* Steps that accept nothing.
LEMMA ServedAdvances ==
    ASSUME AliveSet' \subseteq AliveSet, nextConnId' = nextConnId, \A c \in Conn : Goes(c)
    PROVE  Advances
<1>1. \A c \in Conn : Alive(c)' => Alive(c)
  BY DEF AliveSet
<1> QED BY <1>1 DEF Advances

\* connectEstablished, connectDestroyed and removeConnectionInLoop.
LEMMA FunctorAdvances ==
    ASSUME QuietInv, NEW l \in Loop, NEW c \in Conn,
           ConnectEstablished(l, c) \/ ConnectDestroyed(l, c) \/ (l = 0 /\ RemoveConnectionInLoop(c))
    PROVE  Advances
<1>0. Inv /\ state \in [Conn -> Was]
  BY DEF QuietInv, Inv, TypeOK, Was
<1>1. AliveSet' \subseteq AliveSet
  BY <1>0, EstablishedInv, RemoveInv
<1>2. nextConnId' = nextConnId
  BY DEF ConnectEstablished, ConnectDestroyed, RemoveConnectionInLoop, Run
<1>3. CASE ConnectEstablished(l, c)
  <2>1. "connectEstablished" \in Ops /\ Run(l, "connectEstablished", c)
    BY <1>3 DEF ConnectEstablished, Ops
  <2>2. Size(l) >= 1 /\ Todo(l, 1) = Task("connectEstablished", c) /\ Size(l) \in Nat
    BY <1>0, <2>1, RunFacts, QueueFacts DEF Inv
  <2>3. 1 \in 1..Size(l) /\ Todo(l, 1).op = "connectEstablished" /\ Todo(l, 1).conn = c
    BY <2>1, <2>2, TaskType
  <2>4. state[c] = "KConnecting"
    BY <2>3, ExpectedFacts
  <2>5. state' = [state EXCEPT ![c] = "KConnected"]
    BY <1>3 DEF ConnectEstablished
  <2>6. \A e \in Conn : Goes(e)
    BY <1>0, <2>4, <2>5 DEF Goes
  <2> QED BY <1>1, <1>2, <2>6, ServedAdvances
<1>4. CASE ConnectDestroyed(l, c)
  <2>1. \A e \in Conn : Goes(e)
    BY <1>0, <1>4 DEF ConnectDestroyed, Goes
  <2> QED BY <1>1, <1>2, <2>1, ServedAdvances
<1>5. CASE RemoveConnectionInLoop(c)
  <2>1. \A e \in Conn : Goes(e)
    BY <1>5 DEF RemoveConnectionInLoop, Goes
  <2> QED BY <1>1, <1>2, <2>1, ServedAdvances
<1> QED BY <1>3, <1>4, <1>5

\* handleClose: only a connection that is up has its channel read.
LEMMA HandleCloseAdvances ==
    ASSUME QuietInv, NEW c \in Conn, HandleClose(c)
    PROVE  Advances
<1>0. Inv /\ state \in [Conn -> Was]
  BY DEF QuietInv, Inv, TypeOK, Was
<1>1. AliveSet' \subseteq AliveSet
  BY <1>0, HandleCloseInv
<1>2. nextConnId' = nextConnId /\ channel[c] = "reading" /\ state' = [state EXCEPT ![c] = "KDisconnected"]
  BY DEF HandleClose
<1>3. state[c] = "KConnected"
  BY <1>2, ReadingSettled
<1>4. \A e \in Conn : Goes(e)
  BY <1>0, <1>2, <1>3 DEF Goes
<1> QED BY <1>1, <1>2, <1>4, ServedAdvances

\* The destructor: the connections of the base loop are established.
LEMMA DestroyAdvances ==
    ASSUME QuietInv, Destroy
    PROVE  Advances
<1>0. Inv /\ state \in [Conn -> Was] /\ home \in [Conn -> Loop]
  BY DEF QuietInv, Inv, TypeOK, Was
<1>1. AliveSet' \subseteq AliveSet
  BY <1>0, DestroyInv
<1>2. /\ nextConnId' = nextConnId
      /\ state' = [c \in Conn |-> IF c \in connections /\ home[c] = 0 THEN "KDisconnected" ELSE state[c]]
  BY DEF Destroy
<1>3. ASSUME NEW c \in Conn, home[c] = 0 PROVE state[c] # "KConnecting"
  <2>1. ASSUME NEW l \in Loop, NEW i \in 1..Size(l), Todo(l, i).conn = c PROVE state[c] = "KDisconnected"
    <3>1. /\ Todo(l, i).op \in Ops
          /\ Todo(l, i).op # "connectDestroyed" => home[Todo(l, i).conn] > 0
      BY <1>0, AheadAlive
    <3>2. Todo(l, i).op = "connectDestroyed"
      BY <1>3, <2>1, <3>1
    <3> QED BY <2>1, <3>2, ExpectedFacts
  <2>2. Awaited(c) => state[c] = "KDisconnected"
    BY <2>1 DEF Awaited
  <2> QED BY <2>2 DEF QuietInv, Life, Settled
<1>4. \A e \in Conn : Goes(e)
  BY <1>0, <1>2, <1>3 DEF Goes, Was
<1> QED BY <1>1, <1>2, <1>4, ServedAdvances

\* Every step of a quiet program.
LEMMA NextAdvances ==
    ASSUME QuietInv, [Next]_vars
    PROVE  Advances
<1>0. Inv /\ T = Pool!T
  BY DEF QuietInv, T, Pool!T
<1>1. CASE UNCHANGED <<queue, connections, state, nextConnId>>
  <2>1. AliveSet' \subseteq AliveSet
    BY <1>1 DEF AliveSet, Alive
  <2> QED BY <1>1, <2>1, ServedAdvances DEF Goes
<1>2. CASE UNCHANGED vars \/ SetThreadNum \/ Start \/ OwnerStep \/ Listen \/ DestroyAcceptor
           \/ Arrive \/ OtherOpens \/ OtherCloses
  BY <1>1, <1>2 DEF vars, SetThreadNum, Start, OwnerStep, Listen, DestroyAcceptor, Arrive, OtherOpens,
     OtherCloses, loopVars, connVars
<1>3. CASE PollBase \/ AcceptFails \/ AcceptFatal \/ Emfile \/ Shed \/ \E l \in Loop : Swap(l)
  BY <1>1, <1>3 DEF PollBase, AcceptFails, AcceptFatal, Emfile, Shed, Swap, connVars
<1>4. CASE \E t \in T : ThreadStep(t) \/ PollThread(t)
  <2>1. AliveSet' \subseteq AliveSet
    BY <1>0, <1>4, ThreadInvStep
  <2>2. UNCHANGED <<state, nextConnId>>
    BY <1>4 DEF ThreadStep, PollThread, connVars
  <2> QED BY <2>1, <2>2, ServedAdvances DEF Goes
<1>5. CASE \E l \in Loop : NewConnection(l)
  BY <1>5, NewConnectionAdvances
<1>6. CASE \E l \in Loop : Functor(l)
  BY <1>6, FunctorAdvances DEF Functor
<1>7. CASE Destroy
  BY <1>7, DestroyAdvances
<1>8. CASE \E c \in Conn : HandleClose(c)
  BY <1>8, HandleCloseAdvances
<1> QED BY <1>0, <1>2, <1>3, <1>4, <1>5, <1>6, <1>7, <1>8, LoopFacts
        DEF Next, BaseStep, PoolStep, AcceptNext

\* As long as a server with a pool is not destroyed while it has connections,
\* each connection that it accepts has the life that ConnectionLife promises,
\* whatever loops it passes through: up once, then down once, and not gone
\* before; and no functor or map brings back one that is gone.
THEOREM ServerImplementsLife == AllQuiet => (Spec => ImplementsLife)
<1> SUFFICES ASSUME AllQuiet PROVE Spec => ImplementsLife
  OBVIOUS
<1> DEFINE E == [c \in Conn |-> Alive(c)]
           S == [c \in Conn |-> Said(c)]
<1>1. Init => CL!Init
  <2> SUFFICES ASSUME Init, NEW c \in Conn
               PROVE  E[c] \in BOOLEAN /\ S[c] = "nothing" /\ Silent[c] = <<>>
    BY DEF CL!Init
  <2>1. nextConnId <= c
    BY ProgramsAssumption DEF Init, Conn
  <2> QED BY <2>1 DEF Said, Alive, Silent
<1>2. InOrder /\ InOrder' /\ Advances => CL!Next
  <2> SUFFICES ASSUME InOrder, InOrder', Advances, NEW c \in Conn
               PROVE  \/ CL!Make(c) \/ CL!Establish(c) \/ CL!Stream(c) \/ CL!Close(c) \/ CL!Destroy(c)
                      \/ CL!Rest(c)
    BY DEF CL!Next
  <2>1. /\ nextConnId \in Nat /\ nextConnId' \in Nat /\ c \in Nat
        /\ Alive(c) \in BOOLEAN /\ Alive(c)' \in BOOLEAN
        /\ state[c] \in Was /\ state'[c] \in Was
        /\ nextConnId <= c => ~Alive(c)
        /\ nextConnId' <= c => ~Alive(c)'
        /\ c < nextConnId /\ state[c] # "KDisconnected" => Alive(c)
        /\ c < nextConnId' /\ state'[c] # "KDisconnected" => Alive(c)'
    BY DEF InOrder
  <2>2. /\ E[c] = Alive(c) /\ E'[c] = Alive(c)' /\ S[c] = Said(c) /\ S'[c] = Said(c)'
        /\ Silent[c] = <<>> /\ Silent'[c] = <<>>
    BY DEF Silent
  <2>3. CL!IsPrefix(<<>>, <<>>)
    BY DEF CL!IsPrefix
  <2>4. nextConnId' \in {nextConnId, nextConnId + 1}
    BY DEF Advances
  <2>5. CASE c < nextConnId
    <3>1. c < nextConnId' /\ Goes(c) /\ (Alive(c)' => Alive(c))
      BY <2>1, <2>4, <2>5 DEF Advances
    <3>2. Said(c) = (IF state[c] = "KConnecting" THEN "nothing" ELSE IF state[c] = "KConnected" THEN "up" ELSE "down")
      BY <2>1, <2>5 DEF Said, Was
    <3>3. Said(c)' = (IF state'[c] = "KConnecting" THEN "nothing" ELSE IF state'[c] = "KConnected" THEN "up" ELSE "down")
      BY <2>1, <3>1 DEF Said, Was
    <3>4. CASE state'[c] = state[c]
      BY <2>1, <2>2, <2>5, <3>1, <3>2, <3>3, <3>4 DEF CL!Rest, CL!Destroy
    <3>5. CASE state[c] = "KConnecting" /\ state'[c] = "KConnected"
      BY <2>1, <2>2, <2>5, <3>1, <3>2, <3>3, <3>5 DEF CL!Establish
    <3>6. CASE state[c] = "KConnected" /\ state'[c] = "KDisconnected"
      BY <2>1, <2>2, <2>3, <2>5, <3>1, <3>2, <3>3, <3>6 DEF CL!Close, CL!Flows
    <3> QED BY <3>1, <3>4, <3>5, <3>6 DEF Goes
  <2>6. CASE nextConnId <= c /\ nextConnId' <= c
    BY <2>1, <2>2, <2>6 DEF CL!Rest, Said
  <2>7. CASE nextConnId <= c /\ c < nextConnId'
    <3>1. c = nextConnId /\ nextConnId' # nextConnId
      BY <2>1, <2>4, <2>7
    <3>2. state'[c] \in {"KConnecting", "KConnected"}
      BY <3>1 DEF Advances
    <3>3. Said(c) = "nothing" /\ Said(c)' \in {"nothing", "up"} /\ ~Alive(c) /\ Alive(c)'
      BY <2>1, <2>7, <3>2 DEF Said
    <3> QED BY <2>1, <2>2, <3>3 DEF CL!Make
  <2> QED BY <2>1, <2>5, <2>6, <2>7
<1>3. QuietInv /\ [Next]_vars => Advances
  BY NextAdvances
<1>4. QuietInv => InOrder
  BY OrderFacts
<1>5. Spec => []QuietInv
  BY QuietInvHolds
<1> QED BY <1>1, <1>2, <1>3, <1>4, <1>5, PTL DEF Spec, ImplementsLife, CL!Spec
=============================================================================
