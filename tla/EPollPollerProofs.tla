-------------------------- MODULE EPollPollerProofs --------------------------
(***************************************************************************)
(* Theorems about EPollPoller, for any sets of channels and descriptors:   *)
(* under arbitrary calls of the owners the kernel's list and the program's *)
(* records agree, and no raw pointer dangles.                              *)
(***************************************************************************)
EXTENDS EPollPoller, TLAPS

\* Two live channels are on different descriptors.
DistinctFds == \A c, d \in Channels : Alive(c) /\ fd[c] = fd[d] => c = d

\* What loop() still has to call is registered, and the channel being called
\* has had its turn.
Batch ==
    /\ \A c \in todo : Alive(c) /\ addedToLoop[c]
    /\ current # None => eventHandling /\ current \notin todo
    /\ ~eventHandling => todo = {}

\* The assertions in updateChannel hold for every sequence of calls.
UpdateNeverAborts == failed # "updateChannel"

\* The inductive invariant.
Inv ==
    /\ TypeOK /\ KernelAgrees /\ NoDanglingPointer /\ RecordsAgree
    /\ DistinctFds /\ Batch /\ UpdateNeverAborts
-----------------------------------------------------------------------------
\* An empty poller satisfies it.
LEMMA InitInv == Init => Inv
BY NoneAssumption
   DEF Init, Inv, TypeOK, KernelAgrees, NoDanglingPointer, RecordsAgree, DistinctFds, Batch,
       UpdateNeverAborts, Alive, Events, Registration, kNew, kAdded, kDeleted

\* What the invariant says of one live channel: its descriptor is watched for
\* it exactly when it is kAdded, and nobody else's pointer is in its place.
LEMMA LiveChannel ==
    ASSUME Inv, NEW c \in Channels, Alive(c)
    PROVE  /\ fd[c] \in Fds
           /\ index[c] = kAdded => epoll[fd[c]] = [ptr |-> c, events |-> events[c]]
                                   /\ epoll[fd[c]] # None
           /\ index[c] # kAdded => epoll[fd[c]] = None
           /\ index[c] = kNew => channels[fd[c]] = None
           /\ index[c] # kNew => channels[fd[c]] = c
           /\ addedToLoop[c] <=> index[c] # kNew
<1> USE NoneAssumption
<1>1. fd[c] \in Fds
  BY DEF Inv, TypeOK, Alive
<1>2. ASSUME index[c] = kAdded
      PROVE  epoll[fd[c]] = [ptr |-> c, events |-> events[c]] /\ epoll[fd[c]] # None
  <2>1. [ptr |-> c, events |-> events[c]] \in Registration
    BY DEF Inv, TypeOK, Registration
  <2> QED BY <1>1, <1>2, <2>1 DEF Inv, KernelAgrees
<1>3. ASSUME index[c] # kAdded PROVE epoll[fd[c]] = None
  <2> SUFFICES ASSUME epoll[fd[c]] # None PROVE FALSE
    OBVIOUS
  <2>1. epoll[fd[c]].ptr \in Channels
    BY <1>1 DEF Inv, TypeOK, Registration
  <2>2. fd[epoll[fd[c]].ptr] = fd[c] /\ index[epoll[fd[c]].ptr] = kAdded
    BY <1>1 DEF Inv, KernelAgrees
  <2>3. epoll[fd[c]].ptr = c
    BY <2>1, <2>2 DEF Inv, DistinctFds
  <2> QED BY <1>3, <2>2, <2>3
<1>4. addedToLoop[c] <=> index[c] # kNew
  BY DEF Inv, RecordsAgree
<1>5. index[c] # kNew => channels[fd[c]] = c
  BY <1>4 DEF Inv, RecordsAgree
<1>6. ASSUME index[c] = kNew PROVE channels[fd[c]] = None
  <2> SUFFICES ASSUME channels[fd[c]] # None PROVE FALSE
    OBVIOUS
  <2>1. channels[fd[c]] \in Channels /\ fd[channels[fd[c]]] = fd[c]
    BY <1>1 DEF Inv, TypeOK, NoDanglingPointer
  <2>2. channels[fd[c]] = c
    BY <2>1 DEF Inv, DistinctFds
  <2> QED BY <1>4, <1>6, <2>2 DEF Inv, RecordsAgree
<1> QED BY <1>1, <1>2, <1>3, <1>4, <1>5, <1>6

\* Every call that ends in Channel::update().
LEMMA UpdateInv ==
    ASSUME Inv, NEW c \in Channels, NEW ev \in Events, Update(c, ev)
    PROVE  Inv'
<1> DEFINE f == fd[c]
           deleted == index[c] = kAdded /\ ev = {}
           entry == [ptr |-> c, events |-> ev]
<1> USE NoneAssumption DEF kNew, kAdded, kDeleted
<1>1. Alive(c) /\ UNCHANGED <<fd, loopVars>>
  BY DEF Update
<1>2. /\ f \in Fds
      /\ index[c] = kAdded => epoll[f] # None
      /\ index[c] # kAdded => epoll[f] = None
      /\ index[c] = kNew => channels[f] = None
      /\ index[c] # kNew => channels[f] = c
  BY <1>1, LiveChannel
<1>3. index[c] \in {kNew, kAdded, kDeleted} /\ entry \in Registration
  BY DEF Inv, TypeOK, Registration
<1>4. /\ events' = [events EXCEPT ![c] = ev]
      /\ addedToLoop' = [addedToLoop EXCEPT ![c] = TRUE]
      /\ channels' = [channels EXCEPT ![f] = c]
      /\ index' = [index EXCEPT ![c] = IF deleted THEN kDeleted ELSE kAdded]
      /\ failed' = "none"
  <2>1. channels' = [channels EXCEPT ![f] = c]
    BY <1>2 DEF Update, Inv, TypeOK
  <2>2. UpdateAsserts(c)
    BY <1>2 DEF UpdateAsserts
  <2>3. CtlOp(index[c], ev) = "DEL" <=> deleted
    BY <1>3 DEF CtlOp
  <2> QED BY <2>1, <2>2, <2>3 DEF Update
<1>5. epoll' = [epoll EXCEPT ![f] = IF deleted THEN None ELSE entry]
  <2> DEFINE op == CtlOp(index[c], ev)
  <2>1. EpollCtl(op, f, c, ev)
    BY DEF Update
  <2>2. CASE deleted
    <3>1. op = "DEL"
      BY <2>2 DEF CtlOp
    <3> HIDE DEF op
    <3> QED BY <2>1, <2>2, <3>1 DEF EpollCtl
  <2>3. CASE index[c] = kAdded /\ ev # {}
    <3>1. op = "MOD" /\ epoll[f] # None /\ ~deleted
      BY <1>2, <2>3 DEF CtlOp
    <3> HIDE DEF op, deleted
    <3> QED BY <2>1, <3>1 DEF EpollCtl
  <2>4. CASE index[c] # kAdded
    <3>1. op = "ADD" /\ epoll[f] = None /\ ~deleted
      BY <1>2, <1>3, <2>4 DEF CtlOp
    <3> HIDE DEF op, deleted
    <3> QED BY <2>1, <3>1 DEF EpollCtl
  <2> QED BY <2>2, <2>3, <2>4
<1> HIDE DEF entry, deleted
<1>6. TypeOK'
  BY <1>1, <1>2, <1>3, <1>4, <1>5 DEF Inv, TypeOK, loopVars
<1>7. KernelAgrees'
  <2> SUFFICES ASSUME NEW g \in Fds, NEW d \in Channels
               PROVE  /\ epoll'[g] # None => fd[epoll'[g].ptr] = g /\ index'[epoll'[g].ptr] = kAdded
                      /\ fd[d] = g /\ index'[d] = kAdded =>
                             epoll'[g] = [ptr |-> d, events |-> events'[d]]
    BY <1>1 DEF KernelAgrees
  <2>1. CASE g = f
    <3>1. epoll'[g] = IF deleted THEN None ELSE entry
      BY <1>2, <1>5, <2>1 DEF Inv, TypeOK
    <3>2. fd[d] = g => d = c
      BY <1>1, <2>1 DEF Inv, DistinctFds
    <3>3. index'[c] = IF deleted THEN kDeleted ELSE kAdded
      BY <1>4 DEF Inv, TypeOK
    <3>4. events'[c] = ev
      BY <1>4 DEF Inv, TypeOK
    <3> QED BY <2>1, <3>1, <3>2, <3>3, <3>4 DEF entry
  <2>2. CASE g # f
    <3>1. epoll'[g] = epoll[g]
      BY <1>5, <2>2 DEF Inv, TypeOK
    <3>2. epoll[g] # None => epoll[g].ptr # c /\ epoll[g].ptr \in Channels
      BY <2>2 DEF Inv, TypeOK, KernelAgrees, Registration
    <3>3. fd[d] = g => d # c
      BY <2>2
    <3>4. \A e \in Channels : e # c => index'[e] = index[e] /\ events'[e] = events[e]
      BY <1>4 DEF Inv, TypeOK
    <3>5. /\ epoll[g] # None => fd[epoll[g].ptr] = g /\ index[epoll[g].ptr] = kAdded
          /\ fd[d] = g /\ index[d] = kAdded => epoll[g] = [ptr |-> d, events |-> events[d]]
      BY DEF Inv, KernelAgrees
    <3>6. epoll'[g] # None => fd[epoll'[g].ptr] = g /\ index'[epoll'[g].ptr] = kAdded
      BY <3>1, <3>2, <3>4, <3>5
    <3>7. fd[d] = g /\ index'[d] = kAdded => epoll'[g] = [ptr |-> d, events |-> events'[d]]
      BY <3>1, <3>3, <3>4, <3>5
    <3> QED BY <3>6, <3>7
  <2> QED BY <2>1, <2>2
<1>8. NoDanglingPointer'
  <2>1. \A g \in Fds : epoll'[g] # None => fd[epoll'[g].ptr] = g
    BY <1>1, <1>7 DEF KernelAgrees
  <2>2. \A g \in Fds : channels'[g] # None => fd[channels'[g]] = g
    BY <1>2, <1>4 DEF Inv, TypeOK, NoDanglingPointer
  <2> QED BY <1>1, <2>1, <2>2 DEF Inv, NoDanglingPointer, Alive, loopVars
<1>9. RecordsAgree'
  <2> SUFFICES ASSUME NEW d \in Channels, fd[d] # None
               PROVE  /\ addedToLoop'[d] <=> index'[d] # kNew
                      /\ addedToLoop'[d] <=> channels'[fd[d]] = d
    BY <1>1 DEF RecordsAgree, Alive
  <2>1. CASE d = c
    BY <1>2, <1>3, <1>4, <2>1 DEF Inv, TypeOK
  <2>2. CASE d # c
    <3>1. fd[d] # f
      BY <2>2 DEF Inv, DistinctFds, Alive
    <3>2. channels'[fd[d]] = channels[fd[d]] /\ index'[d] = index[d]
          /\ addedToLoop'[d] = addedToLoop[d]
      BY <1>4, <2>2, <3>1 DEF Inv, TypeOK
    <3> QED BY <3>2 DEF Inv, RecordsAgree, Alive
  <2> QED BY <2>1, <2>2
<1>10. DistinctFds' /\ Batch' /\ UpdateNeverAborts'
  <2>1. \A d \in Channels : addedToLoop[d] => addedToLoop'[d]
    BY <1>4 DEF Inv, TypeOK
  <2> QED BY <1>1, <1>4, <2>1 DEF Inv, TypeOK, DistinctFds, Batch, UpdateNeverAborts, Alive, loopVars
<1> QED BY <1>6, <1>7, <1>8, <1>9, <1>10 DEF Inv

\* A failing assertion leaves everything as it was.
LEMMA AbortInv ==
    ASSUME Inv, NEW g \in {"remove", "~Channel"}, Abort(g)
    PROVE  Inv'
BY DEF Abort, objVars, loopVars, Inv, TypeOK, KernelAgrees, NoDanglingPointer, RecordsAgree,
       DistinctFds, Batch, UpdateNeverAborts, Alive

\* A new channel, perhaps at an old address, on a descriptor nobody uses.
LEMMA ConstructInv ==
    ASSUME Inv, NEW c \in Channels, NEW f \in Fds, Construct(c, f)
    PROVE  Inv'
<1> USE NoneAssumption DEF kNew, kAdded, kDeleted
<1>1. /\ fd[c] = None /\ \A d \in Channels : fd[d] # f
      /\ fd' = [fd EXCEPT ![c] = f] /\ events' = [events EXCEPT ![c] = {}]
      /\ index' = [index EXCEPT ![c] = kNew]
      /\ addedToLoop' = [addedToLoop EXCEPT ![c] = FALSE]
      /\ UNCHANGED <<channels, epoll, activeChannels, todo, current, eventHandling, failed>>
  BY DEF Construct, Alive, loopVars
<1>2. epoll[f] = None /\ channels[f] = None
  BY <1>1 DEF Inv, TypeOK, NoDanglingPointer, Registration
<1>3. \A d \in Channels : d # c => /\ fd'[d] = fd[d] /\ events'[d] = events[d]
                                   /\ index'[d] = index[d] /\ addedToLoop'[d] = addedToLoop[d]
  BY <1>1 DEF Inv, TypeOK
<1>4. fd'[c] = f /\ index'[c] = kNew /\ addedToLoop'[c] = FALSE
  BY <1>1 DEF Inv, TypeOK
<1>5. TypeOK'
  BY <1>1 DEF Inv, TypeOK, Events
<1>6. KernelAgrees'
  <2> SUFFICES ASSUME NEW g \in Fds, NEW d \in Channels
               PROVE  /\ epoll[g] # None => fd'[epoll[g].ptr] = g /\ index'[epoll[g].ptr] = kAdded
                      /\ fd'[d] = g /\ index'[d] = kAdded =>
                             epoll[g] = [ptr |-> d, events |-> events'[d]]
    BY <1>1 DEF KernelAgrees
  <2>1. /\ epoll[g] # None => fd[epoll[g].ptr] = g /\ index[epoll[g].ptr] = kAdded
        /\ fd[d] = g /\ index[d] = kAdded => epoll[g] = [ptr |-> d, events |-> events[d]]
    BY DEF Inv, KernelAgrees
  <2>2. epoll[g] # None => epoll[g].ptr # c /\ epoll[g].ptr \in Channels
    BY <1>1, <2>1 DEF Inv, TypeOK, Registration
  <2>3. epoll[g] # None => fd'[epoll[g].ptr] = g /\ index'[epoll[g].ptr] = kAdded
    BY <1>3, <2>1, <2>2
  <2>4. fd'[d] = g /\ index'[d] = kAdded => epoll[g] = [ptr |-> d, events |-> events'[d]]
    BY <1>3, <1>4, <2>1
  <2> QED BY <2>3, <2>4
<1>7. NoDanglingPointer'
  <2>1. \A g \in Fds : epoll[g] # None => fd'[epoll[g].ptr] = g
    BY <1>1, <1>6 DEF KernelAgrees
  <2>2. \A g \in Fds : channels[g] # None => fd'[channels[g]] = g
    BY <1>1, <1>3 DEF Inv, TypeOK, NoDanglingPointer
  <2>3. (\A d \in todo : fd'[d] # None) /\ (current # None => fd'[current] # None)
    BY <1>1, <1>3 DEF Inv, TypeOK, NoDanglingPointer, Alive
  <2> QED BY <1>1, <2>1, <2>2, <2>3 DEF NoDanglingPointer, Alive
<1>8. RecordsAgree'
  <2>1. channels'[f] # c
    BY <1>1, <1>2
  <2> QED BY <1>1, <1>3, <1>4, <2>1 DEF Inv, RecordsAgree, Alive
<1>9. DistinctFds'
  BY <1>1, <1>3, <1>4 DEF Inv, DistinctFds, Alive
<1>10. Batch' /\ UpdateNeverAborts'
  BY <1>1, <1>3 DEF Inv, TypeOK, Batch, UpdateNeverAborts, Alive
<1> QED BY <1>5, <1>6, <1>7, <1>8, <1>9, <1>10 DEF Inv

\* Channel::remove().
LEMMA RemoveInv == ASSUME Inv, NEW c \in Channels, Remove(c) PROVE Inv'
<1> DEFINE f == fd[c]
<1> USE NoneAssumption DEF kNew, kAdded, kDeleted
<1>1. CASE Abort("remove")
  BY <1>1, AbortInv
<1>2. CASE ~Abort("remove")
  <2>1. /\ Alive(c) /\ RemoveInBatch(c) /\ channels[f] = c
        /\ addedToLoop' = [addedToLoop EXCEPT ![c] = FALSE]
        /\ channels' = [channels EXCEPT ![f] = None]
        /\ index' = [index EXCEPT ![c] = kNew]
        /\ UNCHANGED <<fd, events, activeChannels, todo, current, eventHandling, failed>>
    BY <1>2 DEF Remove, IndexAfterRemove, loopVars
  <2>2. f \in Fds /\ (index[c] # kAdded => epoll[f] = None)
    BY <2>1, LiveChannel
  <2>3. epoll' = [epoll EXCEPT ![f] = None]
    <3>1. CASE index[c] = kAdded
      BY <1>2, <3>1 DEF Remove, EpollCtl
    <3>2. CASE index[c] # kAdded
      BY <1>2, <2>2, <3>2 DEF Remove, Inv, TypeOK
    <3> QED BY <3>1, <3>2
  <2>4. c \notin todo
    BY <2>1 DEF RemoveInBatch, Inv, TypeOK, Batch
  <2>5. \A d \in Channels : d # c =>
            index'[d] = index[d] /\ addedToLoop'[d] = addedToLoop[d]
    BY <2>1 DEF Inv, TypeOK
  <2>6. index'[c] = kNew /\ addedToLoop'[c] = FALSE
    BY <2>1 DEF Inv, TypeOK
  <2>7. \A g \in Fds : g # f => epoll'[g] = epoll[g] /\ channels'[g] = channels[g]
    BY <2>1, <2>3 DEF Inv, TypeOK
  <2>8. epoll'[f] = None /\ channels'[f] = None
    BY <2>1, <2>2, <2>3 DEF Inv, TypeOK
  <2> HIDE DEF f
  <2>9. TypeOK'
    BY <2>1, <2>2, <2>3 DEF Inv, TypeOK
  <2>10. KernelAgrees'
    <3> SUFFICES ASSUME NEW g \in Fds, NEW d \in Channels
                 PROVE  /\ epoll'[g] # None => fd[epoll'[g].ptr] = g /\ index'[epoll'[g].ptr] = kAdded
                        /\ fd[d] = g /\ index'[d] = kAdded =>
                               epoll'[g] = [ptr |-> d, events |-> events[d]]
      BY <2>1 DEF KernelAgrees
    <3>1. /\ epoll[g] # None => fd[epoll[g].ptr] = g /\ index[epoll[g].ptr] = kAdded
          /\ fd[d] = g /\ index[d] = kAdded => epoll[g] = [ptr |-> d, events |-> events[d]]
      BY DEF Inv, KernelAgrees
    <3>2. CASE g = f
      <4>1. fd[d] = g => d = c
        BY <2>1, <3>2 DEF Inv, DistinctFds, f
      <4> QED BY <2>6, <2>8, <3>2, <4>1
    <3>3. CASE g # f
      <4>1. epoll[g] # None => epoll[g].ptr # c /\ epoll[g].ptr \in Channels
        BY <3>1, <3>3 DEF Inv, TypeOK, Registration, f
      <4>2. fd[d] = g => d # c
        BY <3>3 DEF f
      <4>3. epoll'[g] # None => fd[epoll'[g].ptr] = g /\ index'[epoll'[g].ptr] = kAdded
        BY <2>5, <2>7, <3>1, <3>3, <4>1
      <4>4. fd[d] = g /\ index'[d] = kAdded => epoll'[g] = [ptr |-> d, events |-> events[d]]
        BY <2>5, <2>7, <3>1, <3>3, <4>2
      <4> QED BY <4>3, <4>4
    <3> QED BY <3>2, <3>3
  <2>11. NoDanglingPointer'
    <3>1. \A g \in Fds : epoll'[g] # None => fd[epoll'[g].ptr] = g
      BY <2>1, <2>10 DEF KernelAgrees
    <3>2. \A g \in Fds : channels'[g] # None => fd[channels'[g]] = g
      BY <2>7, <2>8 DEF Inv, NoDanglingPointer
    <3> QED BY <2>1, <3>1, <3>2 DEF Inv, NoDanglingPointer, Alive
  <2>12. RecordsAgree'
    <3> SUFFICES ASSUME NEW d \in Channels, fd[d] # None
                 PROVE  /\ addedToLoop'[d] <=> index'[d] # kNew
                        /\ addedToLoop'[d] <=> channels'[fd[d]] = d
      BY <2>1 DEF RecordsAgree, Alive
    <3>1. CASE d = c
      BY <2>6, <2>8, <3>1 DEF f
    <3>2. CASE d # c
      <4>1. fd[d] # f /\ fd[d] \in Fds
        BY <3>2 DEF Inv, DistinctFds, Alive, TypeOK, f
      <4> QED BY <2>5, <2>7, <3>2, <4>1 DEF Inv, RecordsAgree, Alive
    <3> QED BY <3>1, <3>2
  <2>13. DistinctFds' /\ UpdateNeverAborts'
    BY <2>1 DEF Inv, DistinctFds, UpdateNeverAborts, Alive
  <2>14. Batch'
    BY <2>1, <2>4, <2>5 DEF Inv, TypeOK, Batch, Alive
  <2> QED BY <2>9, <2>10, <2>11, <2>12, <2>13, <2>14 DEF Inv
<1> QED BY <1>1, <1>2

\* ~Channel and the close of its descriptor.
LEMMA DestroyInv == ASSUME Inv, NEW c \in Channels, Destroy(c) PROVE Inv'
<1> USE NoneAssumption DEF kNew, kAdded, kDeleted
<1>1. CASE Abort("~Channel")
  BY <1>1, AbortInv
<1>2. CASE ~Abort("~Channel")
  <2>1. /\ Alive(c) /\ current # c /\ ~addedToLoop[c]
        /\ fd' = [fd EXCEPT ![c] = None]
        /\ epoll' = [epoll EXCEPT ![fd[c]] = None]
        /\ UNCHANGED <<events, index, addedToLoop, channels, activeChannels, todo, current,
                       eventHandling, failed>>
    BY <1>2 DEF Destroy, loopVars
  <2>2. index[c] = kNew /\ epoll[fd[c]] = None /\ channels[fd[c]] = None /\ fd[c] \in Fds
    <3>1. index[c] = kNew
      BY <2>1 DEF Inv, RecordsAgree
    <3>2. index[c] # kAdded
      BY <3>1
    <3>3. Alive(c)
      BY <2>1
    <3> HIDE DEF kNew, kAdded
    <3> QED BY <3>1, <3>2, <3>3, LiveChannel
  <2>3. epoll' = epoll
    BY <2>1, <2>2 DEF Inv, TypeOK
  <2>4. fd'[c] = None /\ \A d \in Channels : d # c => fd'[d] = fd[d]
    BY <2>1 DEF Inv, TypeOK
  <2>5. \A g \in Fds : /\ epoll[g] # None => epoll[g].ptr # c /\ epoll[g].ptr \in Channels
                       /\ channels[g] # None => channels[g] # c /\ channels[g] \in Channels
    BY <2>1, <2>2 DEF Inv, TypeOK, KernelAgrees, NoDanglingPointer, Registration
  <2>6. c \notin todo
    BY <2>1 DEF Inv, Batch
  <2>7. TypeOK'
    BY <2>1, <2>3 DEF Inv, TypeOK
  <2>8. KernelAgrees'
    <3> SUFFICES ASSUME NEW g \in Fds, NEW d \in Channels
                 PROVE  /\ epoll[g] # None => fd'[epoll[g].ptr] = g /\ index[epoll[g].ptr] = kAdded
                        /\ fd'[d] = g /\ index[d] = kAdded =>
                               epoll[g] = [ptr |-> d, events |-> events[d]]
      BY <2>1, <2>3 DEF KernelAgrees
    <3>1. /\ epoll[g] # None => fd[epoll[g].ptr] = g /\ index[epoll[g].ptr] = kAdded
          /\ fd[d] = g /\ index[d] = kAdded => epoll[g] = [ptr |-> d, events |-> events[d]]
      BY DEF Inv, KernelAgrees
    <3> QED BY <2>2, <2>4, <2>5, <3>1
  <2>9. NoDanglingPointer'
    <3>1. \A g \in Fds : /\ epoll[g] # None => fd'[epoll[g].ptr] = g
                         /\ channels[g] # None => fd'[channels[g]] = g
      BY <2>4, <2>5 DEF Inv, NoDanglingPointer
    <3>2. (\A d \in todo : fd'[d] # None) /\ (current # None => fd'[current] # None)
      BY <2>1, <2>4, <2>6 DEF Inv, TypeOK, NoDanglingPointer, Alive
    <3> QED BY <2>1, <2>3, <3>1, <3>2 DEF NoDanglingPointer, Alive
  <2>10. RecordsAgree' /\ DistinctFds'
    BY <2>1, <2>4 DEF Inv, RecordsAgree, DistinctFds, Alive
  <2>11. Batch' /\ UpdateNeverAborts'
    BY <2>1, <2>4, <2>6 DEF Inv, TypeOK, Batch, UpdateNeverAborts, Alive
  <2> QED BY <2>7, <2>8, <2>9, <2>10, <2>11 DEF Inv
<1> QED BY <1>1, <1>2

\* poll() and the dispatch: what the kernel reports is registered.
LEMMA LoopInv ==
    ASSUME Inv,
           \/ \E ready \in SUBSET Fds : Poll(ready)
           \/ \E c \in Channels : HandleEvent(c)
           \/ HandleEventReturns \/ HandlingDone
    PROVE  Inv'
<1> USE NoneAssumption DEF kNew, kAdded, kDeleted
<1>1. UNCHANGED <<objVars, failed>>
  BY DEF Poll, HandleEvent, HandleEventReturns, HandlingDone
<1>2. KernelAgrees' /\ RecordsAgree' /\ DistinctFds' /\ UpdateNeverAborts'
  BY <1>1 DEF Inv, KernelAgrees, RecordsAgree, DistinctFds, UpdateNeverAborts, Alive, objVars
<1>3. TypeOK' /\ Batch'
  <2>1. ASSUME NEW ready \in SUBSET Fds, Poll(ready) PROVE TypeOK' /\ Batch'
    <3>1. \A f \in ready : epoll[f].ptr \in Channels /\ fd[epoll[f].ptr] = f
                           /\ index[epoll[f].ptr] = kAdded
      BY <2>1 DEF Poll, Inv, TypeOK, KernelAgrees, Registration
    <3>2. \A c \in activeChannels' : c \in Channels /\ fd[c] # None /\ addedToLoop[c]
      BY <2>1, <3>1 DEF Poll, Inv, RecordsAgree, Alive
    <3>3. todo' = activeChannels' /\ eventHandling' = TRUE /\ current' = current /\ ~eventHandling
      BY <2>1 DEF Poll
    <3> QED BY <1>1, <3>2, <3>3 DEF Inv, TypeOK, Batch, Alive, objVars
  <2>2. ASSUME NEW c \in Channels, HandleEvent(c) PROVE TypeOK' /\ Batch'
    BY <2>2 DEF HandleEvent, Inv, TypeOK, Batch, Alive, objVars
  <2>3. CASE HandleEventReturns
    BY <2>3 DEF HandleEventReturns, Inv, TypeOK, Batch, Alive, objVars
  <2>4. CASE HandlingDone
    BY <2>4 DEF HandlingDone, Inv, TypeOK, Batch, Alive, objVars
  <2> QED BY <2>1, <2>2, <2>3, <2>4
<1>4. current' # None => Alive(current)'
  <2>1. current' # None => current' = current \/ current' \in todo
    BY DEF Poll, HandleEvent, HandleEventReturns, HandlingDone
  <2> QED BY <1>1, <2>1 DEF Inv, NoDanglingPointer, Alive, objVars
<1>5. NoDanglingPointer'
  BY <1>1, <1>3, <1>4 DEF Inv, NoDanglingPointer, Batch, Alive, objVars
<1> QED BY <1>2, <1>3, <1>5 DEF Inv

\* Every call of an owner and every step of the loop preserves the invariant.
THEOREM Invariance == Spec => []Inv
<1>1. Inv /\ [Next]_vars => Inv'
  <2> SUFFICES ASSUME Inv, [Next]_vars PROVE Inv'
    OBVIOUS
  <2>1. ASSUME NEW c \in Channels, ChannelCall(c) PROVE Inv'
    <3>1. /\ events[c] \cup {"read"} \in Events /\ events[c] \ {"read"} \in Events
          /\ events[c] \cup {"write"} \in Events /\ events[c] \ {"write"} \in Events
          /\ {} \in Events
      BY DEF Inv, TypeOK, Events
    <3> QED BY <2>1, <3>1, UpdateInv, RemoveInv, DestroyInv, ConstructInv
            DEF ChannelCall, EnableReading, DisableReading, EnableWriting, DisableWriting, DisableAll
  <2>2. CASE \/ \E c \in Channels : HandleEvent(c)
             \/ \E ready \in SUBSET Fds : Poll(ready)
             \/ HandleEventReturns \/ HandlingDone
    BY <2>2, LoopInv
  <2>3. CASE UNCHANGED vars
    BY <2>3 DEF vars, objVars, loopVars, Inv, TypeOK, KernelAgrees, NoDanglingPointer,
                RecordsAgree, DistinctFds, Batch, UpdateNeverAborts, Alive
  <2> QED BY <2>1, <2>2, <2>3 DEF Next
<1> QED BY InitInv, <1>1, PTL DEF Spec

\* The variables of EPollPoller keep their types.
THEOREM TypeCorrect == Spec => []TypeOK
<1>1. Inv => TypeOK
  BY DEF Inv
<1> QED BY Invariance, <1>1, PTL

\* epoll watches a descriptor exactly when its live channel is kAdded, for the
\* events of that channel: no epoll_ctl is ever refused for what update() asks.
THEOREM KernelAlwaysAgrees == Spec => []KernelAgrees
<1>1. Inv => KernelAgrees
  BY DEF Inv
<1> QED BY Invariance, <1>1, PTL

\* No raw Channel pointer outlives its channel, in channels_, in epoll, in the
\* rest of a batch or as the current channel.
THEOREM NothingDangles == Spec => []NoDanglingPointer
<1>1. Inv => NoDanglingPointer
  BY DEF Inv
<1> QED BY Invariance, <1>1, PTL

\* addedToLoop_, index_ and channels_ agree.
THEOREM RecordsAlwaysAgree == Spec => []RecordsAgree
<1>1. Inv => RecordsAgree
  BY DEF Inv
<1> QED BY Invariance, <1>1, PTL

\* The assertions in EPollPoller::updateChannel cannot fail, whatever the owners
\* of channels call.
THEOREM UpdateAssertsHold == Spec => []UpdateNeverAborts
<1>1. Inv => UpdateNeverAborts
  BY DEF Inv
<1> QED BY Invariance, <1>1, PTL
=============================================================================
