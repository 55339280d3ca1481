---------------------------- MODULE PollerProofs ----------------------------
(***************************************************************************)
(* For any set of channels and descriptors, any sharing of descriptors and *)
(* any event list size: the registration state stays consistent, epoll_ctl *)
(* never fails fatally and no destroyed channel is dispatched.             *)
(***************************************************************************)
EXTENDS Poller, SequenceTheorems, FiniteSetTheorems, TLAPS

LEMMA InitPInv == Init => PInv
  <1> SUFFICES ASSUME Init PROVE PInv
    OBVIOUS
  <1> USE DEF Init
  <1>1. activeChannels_ \in Seq([ch : Channels \cup {None}, revents : SUBSET Conditions])
    OBVIOUS
  <1>2. TypeOK
    BY <1>1, SizeAssumption DEF TypeOK, Interest
  <1>3. Consistent /\ NoFatal /\ NoDangling /\ FiledByFd /\ DispatchOnly
    BY ChannelAssumption DEF Consistent, NoFatal, NoDangling, FiledByFd, DispatchOnly
  <1> QED
    BY <1>2, <1>3 DEF PInv

\* While c's owner has the descriptor to itself, whatever the kernel or the map
\* holds for the descriptor is c.
LEMMA OwnerOnly ==
  ASSUME PInv, NEW c \in Channels, OwnsFd(c)
  PROVE  /\ epoll[fd_[c]] \in {c, None}
         /\ channels_[fd_[c]] \in {c, None}
         /\ fd_[c] \in Fds /\ c \in alive /\ c # None
  <1>1. fd_[c] \in Fds /\ c \in alive /\ c # None
    BY ChannelAssumption DEF OwnsFd
  <1>2. ASSUME epoll[fd_[c]] \notin {c, None} PROVE FALSE
    <2> DEFINE d == epoll[fd_[c]]
    <2>1. d \in alive /\ fd_[d] = fd_[c]
      BY <1>1, <1>2 DEF PInv, NoDangling, FiledByFd
    <2>2. index_[d] = KAdded
      BY <2>1 DEF PInv, Consistent
    <2> QED
      BY <1>2, <2>1, <2>2 DEF OwnsFd, KAdded, KNew
  <1>3. ASSUME channels_[fd_[c]] \notin {c, None} PROVE FALSE
    <2> DEFINE d == channels_[fd_[c]]
    <2>1. d \in alive /\ fd_[d] = fd_[c]
      BY <1>1, <1>3 DEF PInv, NoDangling, FiledByFd
    <2>2. index_[d] # KNew
      BY <2>1 DEF PInv, Consistent, HasChannel
    <2> QED
      BY <1>3, <2>1, <2>2 DEF OwnsFd
  <1> QED
    BY <1>1, <1>2, <1>3

\* updateChannel: whichever of ADD, MOD and DEL index_ selects succeeds, and
\* the three records agree again.
LEMMA StepUpdateChannel ==
  ASSUME PInv, NEW c \in Channels, NEW ev \in SUBSET Interest, OwnsFd(c),
         UpdateChannel(c, ev), loopUnchanged
  PROVE  PInv'
  <1>0. /\ epoll[fd_[c]] \in {c, None}
        /\ channels_[fd_[c]] \in {c, None}
        /\ fd_[c] \in Fds /\ c \in alive /\ c # None
    BY OwnerOnly
  <1> USE ChannelAssumption, <1>0 DEF PInv, loopUnchanged, KNew, KAdded, KDelete
  <1>1. CtlOk(IF index_[c] = KAdded THEN "MOD" ELSE "ADD", fd_[c])
    BY DEF CtlOk, Consistent
  <1>2. TypeOK'
    <2>1. fatal' \in BOOLEAN
      BY DEF UpdateChannel, Update
    <2>2. /\ epoll' \in [Fds -> Channels \cup {None}]
          /\ interest' \in [Fds -> SUBSET Interest]
      BY DEF TypeOK, UpdateChannel, Update
    <2>3. /\ events_' \in [Channels -> SUBSET Interest]
          /\ index_' \in [Channels -> {KNew, KAdded, KDelete}]
          /\ channels_' \in [Fds -> Channels \cup {None}]
      BY DEF TypeOK, UpdateChannel
    <2> QED
      BY <2>1, <2>2, <2>3 DEF TypeOK
  <1>3. NoFatal'
    BY <1>1 DEF NoFatal, UpdateChannel, Update, CtlOk
  <1>4. NoDangling'
    BY DEF NoDangling, UpdateChannel, Update, TypeOK
  <1>5. FiledByFd'
    BY DEF FiledByFd, UpdateChannel, Update, TypeOK
  <1>6. Consistent'
    <2> SUFFICES ASSUME NEW d \in alive
                 PROVE  /\ index_'[d] = KAdded <=> epoll'[fd_[d]] = d
                        /\ index_'[d] # KNew <=> channels_'[fd_[d]] = d
                        /\ index_'[d] = KAdded => interest'[fd_[d]] = events_'[d]
      BY DEF Consistent, HasChannel
    <2> USE <1>1 DEF UpdateChannel, Update, CtlOk, TypeOK, Consistent, HasChannel
    <2>1. CASE d = c
      BY <2>1
    <2>2. CASE d # c /\ fd_[d] = fd_[c]
      BY <2>2 DEF OwnsFd
    <2>3. CASE fd_[d] # fd_[c]
      <3>1. d \in Channels /\ fd_[d] \in Fds /\ d # c
        BY <2>3
      <3>2. /\ epoll'[fd_[d]] = epoll[fd_[d]]
            /\ interest'[fd_[d]] = interest[fd_[d]]
            /\ channels_'[fd_[d]] = channels_[fd_[d]]
        BY <2>3, <3>1
      <3>3. index_'[d] = index_[d] /\ events_'[d] = events_[d]
        BY <3>1
      <3> QED
        BY <3>2, <3>3
    <2> QED
      BY <2>1, <2>2, <2>3
  <1>7. DispatchOnly'
    BY DEF DispatchOnly
  <1> QED
    BY <1>2, <1>3, <1>4, <1>5, <1>6, <1>7

\* removeChannel: neither the map nor the kernel keeps a pointer to c.
LEMMA StepRemove ==
  ASSUME PInv, NEW c \in Channels, Remove(c)
  PROVE  PInv' /\ index_'[c] = KNew
  <1>0. OwnsFd(c)
    BY DEF Remove
  <1>1. /\ epoll[fd_[c]] \in {c, None}
        /\ channels_[fd_[c]] \in {c, None}
        /\ fd_[c] \in Fds /\ c \in alive /\ c # None
    BY <1>0, OwnerOnly
  <1> USE ChannelAssumption, <1>1 DEF PInv, Remove, RemoveChannel, loopUnchanged,
          KNew, KAdded, KDelete
  <1>2. TypeOK'
    BY DEF TypeOK, Update
  <1>3. NoFatal' /\ DispatchOnly'
    BY DEF NoFatal, DispatchOnly, Update
  <1>4. NoDangling'
    BY DEF NoDangling, Update, TypeOK
  <1>5. FiledByFd'
    BY DEF FiledByFd, Update, TypeOK
  <1>6. Consistent'
    <2> SUFFICES ASSUME NEW d \in alive
                 PROVE  /\ index_'[d] = KAdded <=> epoll'[fd_[d]] = d
                        /\ index_'[d] # KNew <=> channels_'[fd_[d]] = d
                        /\ index_'[d] = KAdded => interest'[fd_[d]] = events_'[d]
      BY DEF Consistent, HasChannel
    <2> USE DEF Update, CtlOk, TypeOK, Consistent, HasChannel
    <2>1. CASE d = c
      BY <2>1
    <2>2. CASE d # c /\ fd_[d] = fd_[c]
      BY <1>0, <2>2 DEF OwnsFd
    <2>3. CASE fd_[d] # fd_[c]
      <3>1. d \in Channels /\ fd_[d] \in Fds /\ d # c
        BY <2>3
      <3>2. /\ epoll'[fd_[d]] = epoll[fd_[d]]
            /\ interest'[fd_[d]] = interest[fd_[d]]
            /\ channels_'[fd_[d]] = channels_[fd_[d]]
        BY <2>3, <3>1
      <3>3. index_'[d] = index_[d] /\ events_'[d] = events_[d]
        BY <3>1
      <3> QED
        BY <3>2, <3>3
    <2> QED
      BY <2>1, <2>2, <2>3
  <1>7. index_'[c] = KNew
    BY DEF TypeOK
  <1> QED
    BY <1>2, <1>3, <1>4, <1>5, <1>6, <1>7

LEMMA StepCreate ==
  ASSUME PInv, NEW c \in Channels, Create(c)
  PROVE  PInv'
  <1> USE ChannelAssumption DEF PInv, Create
  <1>1. TypeOK'
    BY DEF TypeOK, Interest
  <1>2. NoFatal' /\ DispatchOnly' /\ FiledByFd' /\ NoDangling'
    BY DEF NoFatal, DispatchOnly, FiledByFd, NoDangling
  <1>3. Consistent'
    <2>1. fd_[c] \in Fds /\ epoll[fd_[c]] # c /\ channels_[fd_[c]] # c /\ index_'[c] = KNew
      BY DEF NoDangling, TypeOK
    <2>2. \A d \in alive : index_'[d] = index_[d] /\ events_'[d] = events_[d]
      BY DEF TypeOK
    <2> QED
      BY <2>1, <2>2 DEF Consistent, HasChannel, KNew, KAdded
  <1> QED
    BY <1>1, <1>2, <1>3

LEMMA StepDestroy ==
  ASSUME PInv, NEW c \in Channels, Destroy(c)
  PROVE  PInv'
  <1> USE ChannelAssumption DEF PInv, Destroy, chanVars
  <1>1. TypeOK'
    BY DEF TypeOK
  <1>2. NoFatal' /\ DispatchOnly' /\ FiledByFd' /\ Consistent'
    BY DEF NoFatal, DispatchOnly, FiledByFd, Consistent, HasChannel
  <1>3. NoDangling'
    <2>1. \A f \in Fds : epoll[f] # c /\ channels_[f] # c
      BY DEF FiledByFd, Consistent, HasChannel, KNew, KAdded
    <2>2. activeChannels_ = <<>>
      BY DEF DispatchOnly
    <2> QED
      BY <2>1, <2>2 DEF NoDangling
  <1> QED
    BY <1>1, <1>2, <1>3

\* The list epoll_wait fills holds live channels.
LEMMA StepPoll ==
  ASSUME PInv, Poll
  PROVE  PInv'
  <1> USE DEF PInv, Poll, chanVars
  <1>1. PICK s \in Reports :
          /\ activeChannels_' = [i \in 1..Len(s) |->
                                   [ch |-> epoll[s[i]], revents |-> Reported(s[i])]]
          /\ listSize' = IF Len(s) = listSize THEN 2 * listSize ELSE listSize
    OBVIOUS
  <1>2. s \in Seq(ReadyFds)
    <2>1. IsFiniteSet(ReadyFds)
      BY SizeAssumption, FS_Subset DEF ReadyFds
    <2>2. Cardinality(ReadyFds) \in Nat
      BY <2>1, FS_CardinalityType
    <2>3. PICK n \in Nat : s \in [1..n -> ReadyFds]
      BY <2>2 DEF Reports, TypeOK
    <2> QED
      BY <2>3
  <1>3. \A i \in 1..Len(s) : s[i] \in Fds /\ Reported(s[i]) # {}
    <2>1. \A i \in 1..Len(s) : s[i] \in ReadyFds
      BY <1>2
    <2> QED
      BY <2>1 DEF ReadyFds
  <1>4. \A i \in 1..Len(s) : epoll[s[i]] \in alive /\ Reported(s[i]) \in SUBSET Conditions
    BY <1>3 DEF Reported, NoDangling, TypeOK
  <1>5. activeChannels_' \in Seq([ch : Channels \cup {None}, revents : SUBSET Conditions])
    <2>1. Len(s) \in Nat
      BY <1>2
    <2>2. \A i \in 1..Len(s) : [ch |-> epoll[s[i]], revents |-> Reported(s[i])]
             \in [ch : Channels \cup {None}, revents : SUBSET Conditions]
      BY <1>4 DEF TypeOK
    <2> QED
      BY <1>1, <2>1, <2>2
  <1>6. TypeOK'
    BY <1>1, <1>5 DEF TypeOK
  <1>7. NoDangling'
    <2>1. Len(activeChannels_') = Len(s)
      BY <1>1, <1>2
    <2> QED
      BY <1>1, <1>4, <2>1 DEF NoDangling
  <1>8. Consistent' /\ NoFatal' /\ FiledByFd' /\ DispatchOnly'
    BY DEF Consistent, HasChannel, NoFatal, FiledByFd, DispatchOnly
  <1> QED
    BY <1>6, <1>7, <1>8

LEMMA StepHandleEvent ==
  ASSUME PInv, HandleEvent
  PROVE  PInv'
  <1> USE DEF PInv, HandleEvent, chanVars
  <1> DEFINE R == [ch : Channels \cup {None}, revents : SUBSET Conditions]
  <1>1. activeChannels_ \in Seq(R) /\ activeChannels_ # <<>>
    BY DEF TypeOK
  <1>2. /\ activeChannels_' \in Seq(R)
        /\ Len(activeChannels_') = Len(activeChannels_) - 1
        /\ \A i \in 1..Len(activeChannels_') : activeChannels_'[i] = activeChannels_[i + 1]
    BY <1>1, HeadTailProperties
  <1>3. TypeOK'
    BY <1>2 DEF TypeOK
  <1>4. NoDangling'
    <2>1. Len(activeChannels_) \in Nat
      BY <1>1
    <2> QED
      BY <1>2, <2>1 DEF NoDangling
  <1>5. Consistent' /\ NoFatal' /\ FiledByFd' /\ DispatchOnly'
    BY DEF Consistent, HasChannel, NoFatal, FiledByFd, DispatchOnly
  <1> QED
    BY <1>3, <1>4, <1>5

LEMMA StepOther ==
  ASSUME PInv,
         \/ UNCHANGED vars
         \/ BeginFunctors
         \/ EndFunctors
         \/ PollInterrupted
         \/ \E f \in Fds, conds \in SUBSET Conditions : KernelChange(f, conds)
  PROVE  PInv'
  <1> USE DEF PInv, vars, chanVars, BeginFunctors, EndFunctors, PollInterrupted,
             KernelChange
  <1>1. TypeOK'
    BY DEF TypeOK
  <1>2. Consistent' /\ NoFatal' /\ NoDangling' /\ FiledByFd' /\ DispatchOnly'
    BY DEF Consistent, HasChannel, NoFatal, NoDangling, FiledByFd, DispatchOnly
  <1> QED
    BY <1>1, <1>2

LEMMA NextPInv == PInv /\ [Next]_vars => PInv'
  <1> SUFFICES ASSUME PInv, [Next]_vars PROVE PInv'
    OBVIOUS
  <1>1. ASSUME NEW c \in Channels,
               \/ EnableReading(c) \/ DisableReading(c) \/ EnableWriting(c)
               \/ DisableWriting(c) \/ DisableAll(c)
        PROVE  PInv'
    <2>1. events_[c] \in SUBSET Interest
      BY DEF PInv, TypeOK
    <2>2. PICK ev \in SUBSET Interest : UpdateChannel(c, ev)
      BY <1>1, <2>1 DEF EnableReading, DisableReading, EnableWriting,
                        DisableWriting, DisableAll, Interest
    <2> QED
      BY <1>1, <2>2, StepUpdateChannel DEF EnableReading, DisableReading,
                        EnableWriting, DisableWriting, DisableAll
  <1> QED
    BY <1>1, StepRemove, StepCreate, StepDestroy, StepPoll, StepHandleEvent, StepOther
    DEF Next, ChannelOp, LoopStep

-----------------------------------------------------------------------------
\* PInv is an invariant of Poller.
THEOREM PollerInvariance == Spec => []PInv
  BY InitPInv, NextPInv, PTL DEF Spec

\* Types: Channel.h:67-74, Poller.h and EPollPoller.h keep theirs.
THEOREM PollerTypeCorrect == Spec => []TypeOK
  <1>1. PInv => TypeOK
    BY DEF PInv
  <1> QED
    BY <1>1, PollerInvariance, PTL

\* index_, channels_ and the kernel's interest list agree (EPollPoller.cc:114-162)
\* after any sequence of channel operations.
THEOREM RegistrationConsistent == Spec => []Consistent
  <1>1. PInv => Consistent
    BY DEF PInv
  <1> QED
    BY <1>1, PollerInvariance, PTL

\* No fatal epoll_ctl (EPollPoller.cc:65).
THEOREM NeverFatal == Spec => []NoFatal
  <1>1. PInv => NoFatal
    BY DEF PInv
  <1> QED
    BY <1>1, PollerInvariance, PTL

\* No raw Channel pointer outlives its channel (EPollPoller.cc:37).
THEOREM NeverDangling == Spec => []NoDangling
  <1>1. PInv => NoDangling
    BY DEF PInv
  <1> QED
    BY <1>1, PollerInvariance, PTL

=============================================================================
