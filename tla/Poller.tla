------------------------------- MODULE Poller -------------------------------
(***************************************************************************)
(* Channel and EPollPoller in one event loop: the registration state a     *)
(* channel carries (events_, index_), the poller's map from fd to channel, *)
(* the kernel's interest list, and the dispatch of what epoll_wait returns *)
(* through raw Channel pointers.                                           *)
(*                                                                         *)
(* Everything here runs in the loop's thread.  The callbacks and functors  *)
(* of the program are a window (MayOperate) in which any channel operation *)
(* may be called, on any channel, within the contract of the owners below. *)
(***************************************************************************)
EXTENDS Naturals, Sequences, FiniteSets

CONSTANTS
  Channels,       \* addresses a Channel object may have
  Fds,            \* file descriptor numbers
  fd_,            \* fd_[c]: the descriptor channel c is built for
  None,           \* "no channel"
  InitListSize,   \* kInitEventListSize
  Conditions      \* what the kernel may report: a subset of AllConditions

AllConditions == {"IN", "PRI", "OUT", "HUP", "ERR"}

ASSUME ChannelAssumption ==
  /\ None \notin Channels
  /\ fd_ \in [Channels -> Fds]
  /\ Conditions \subseteq AllConditions
ASSUME SizeAssumption == InitListSize \in Nat \ {0} /\ IsFiniteSet(Fds)

\* Channel::index_
KNew == "KNew"
KAdded == "KAdded"
KDelete == "KDelete"

\* Channel::events_ as a set: kReadEvent, kWriteEvent, kNoneEvent = {}.
Interest == {"read", "write"}

VARIABLES
  alive,           \* channels that are constructed and not destroyed
  events_,         \* Channel::events_
  index_,          \* Channel::index_
  channels_,       \* Poller::channels_, fd -> channel or None
  epoll,           \* kernel: fd -> channel pointer registered for it, or None
  interest,        \* kernel: fd -> events registered for it
  ready,           \* kernel: fd -> conditions that hold on it now
  pc,              \* where loop() is: "poll", "dispatch", "functors"
  activeChannels_, \* what poll() returned, front being handled: [ch, revents]
  listSize,        \* events_.size(), the room epoll_wait is given
  fatal            \* LOG_FATAL has ended the process

chanVars == <<events_, index_, channels_, epoll, interest, fatal>>
vars == <<alive, chanVars, ready, pc, activeChannels_, listSize>>

Init ==
  /\ alive = {}
  /\ events_ = [c \in Channels |-> {}]
  /\ index_ = [c \in Channels |-> KNew]
  /\ channels_ = [f \in Fds |-> None]
  /\ epoll = [f \in Fds |-> None]
  /\ interest = [f \in Fds |-> {}]
  /\ ready = [f \in Fds |-> {}]
  /\ pc = "poll"
  /\ activeChannels_ = <<>>
  /\ listSize = InitListSize
  /\ fatal = FALSE

-----------------------------------------------------------------------------
(***************************************************************************)
(* Kernel: epoll_ctl and what epoll_wait reports                           *)
(***************************************************************************)

\* epoll_ctl succeeds: ADD needs the fd absent, MOD and DEL need it present.
CtlOk(op, f) == (op = "ADD") <=> (epoll[f] = None)

\* Conditions reported for f: what is asked for, and HUP and ERR always.
Reported(f) ==
  IF epoll[f] = None THEN {}
  ELSE ready[f] \cap ( {"HUP", "ERR"}
                       \cup (IF "read" \in interest[f] THEN {"IN", "PRI"} ELSE {})
                       \cup (IF "write" \in interest[f] THEN {"OUT"} ELSE {}) )

ReadyFds == {f \in Fds : Reported(f) # {}}

\* The peer, the network or the socket's buffers change what holds on f.
KernelChange(f, conds) ==
  /\ ready' = [ready EXCEPT ![f] = conds]
  /\ UNCHANGED <<alive, chanVars, pc, activeChannels_, listSize>>

-----------------------------------------------------------------------------
(***************************************************************************)
(* EPollPoller                                                             *)
(***************************************************************************)

\* EPollPoller::update(operation, channel), with the interest ev: a failing
\* ADD or MOD is fatal, a failing DEL is only logged.
Update(op, c, ev) ==
  LET f == fd_[c] IN
  /\ epoll' = IF ~CtlOk(op, f) THEN epoll
              ELSE [epoll EXCEPT ![f] = IF op = "DEL" THEN None ELSE c]
  /\ interest' = IF ~CtlOk(op, f) THEN interest
                 ELSE [interest EXCEPT ![f] = IF op = "DEL" THEN {} ELSE ev]
  /\ fatal' = (op # "DEL" /\ ~CtlOk(op, f))

\* Mutant: a deleted channel is not added back but modified.
MutUpdateChannel(c, ev) ==
  /\ events_' = [events_ EXCEPT ![c] = ev]
  /\ \/ /\ index_[c] = KNew
        /\ channels_' = [channels_ EXCEPT ![fd_[c]] = c]
        /\ index_' = [index_ EXCEPT ![c] = KAdded]
        /\ Update("ADD", c, ev)
     \/ /\ index_[c] # KNew /\ ev = {}
        /\ index_' = [index_ EXCEPT ![c] = KDelete]
        /\ Update("DEL", c, ev)
        /\ UNCHANGED channels_
     \/ /\ index_[c] # KNew /\ ev # {}
        /\ Update("MOD", c, ev)
        /\ UNCHANGED <<channels_, index_>>

\* Mutant: a channel with no events left stays marked KAdded.
MutKeepIndex(c, ev) ==
  /\ events_' = [events_ EXCEPT ![c] = ev]
  /\ \/ /\ index_[c] \in {KNew, KDelete}
        /\ channels_' = IF index_[c] = KNew
                        THEN [channels_ EXCEPT ![fd_[c]] = c] ELSE channels_
        /\ index_' = [index_ EXCEPT ![c] = KAdded]
        /\ Update("ADD", c, ev)
     \/ /\ index_[c] = KAdded /\ ev = {}
        /\ Update("DEL", c, ev)
        /\ UNCHANGED <<channels_, index_>>
     \/ /\ index_[c] = KAdded /\ ev # {}
        /\ Update("MOD", c, ev)
        /\ UNCHANGED <<channels_, index_>>

\* EPollPoller::updateChannel, called by Channel::update through
\* EventLoop::updateChannel after events_ has become ev.
UpdateChannel(c, ev) ==
  /\ events_' = [events_ EXCEPT ![c] = ev]
  /\ \/ /\ index_[c] \in {KNew, KDelete}
        /\ channels_' = IF index_[c] = KNew
                        THEN [channels_ EXCEPT ![fd_[c]] = c] ELSE channels_
        /\ index_' = [index_ EXCEPT ![c] = KAdded]
        /\ Update("ADD", c, ev)
     \/ /\ index_[c] = KAdded /\ ev = {}
        /\ index_' = [index_ EXCEPT ![c] = KDelete]
        /\ Update("DEL", c, ev)
        /\ UNCHANGED channels_
     \/ /\ index_[c] = KAdded /\ ev # {}
        /\ Update("MOD", c, ev)
        /\ UNCHANGED <<channels_, index_>>

\* Mutant: the map entry goes, the kernel's stays.
MutRemoveChannel(c) ==
  /\ channels_' = [channels_ EXCEPT ![fd_[c]] = None]
  /\ index_' = [index_ EXCEPT ![c] = KNew]
  /\ UNCHANGED <<events_, epoll, interest, fatal>>

\* EPollPoller::removeChannel.
RemoveChannel(c) ==
  /\ channels_' = [channels_ EXCEPT ![fd_[c]] = None]
  /\ index_' = [index_ EXCEPT ![c] = KNew]
  /\ IF index_[c] = KAdded
     THEN Update("DEL", c, {})
     ELSE UNCHANGED <<epoll, interest, fatal>>
  /\ UNCHANGED events_

\* Poller::hasChannel.
HasChannel(c) == channels_[fd_[c]] = c

-----------------------------------------------------------------------------
(***************************************************************************)
(* Owners.  TcpConnection, Acceptor, Connector and EventLoop keep to this  *)
(* contract: a descriptor belongs to one channel of the poller at a time   *)
(* (Connector removes its channel before TcpConnection registers one for   *)
(* the same fd; a TcpConnection removes its channel before its fd is       *)
(* closed and can be reused), and a channel is destroyed by a functor,     *)
(* never by an I/O callback, and after remove().                           *)
(***************************************************************************)

\* The callbacks handleEventWithGuard makes for the reported conditions r.
\* EPOLLPRI, which kReadEvent asks for, leads to no callback.
Callbacks(r) ==
  {cb \in {"close", "error", "read", "write"} :
     CASE cb = "close" -> "HUP" \in r /\ "IN" \notin r
       [] cb = "error" -> "ERR" \in r
       [] cb = "read"  -> "IN" \in r
       [] OTHER        -> "OUT" \in r}

\* User code is running: in a channel's callback or in a functor.
MayOperate ==
  \/ pc = "functors"
  \/ /\ pc = "dispatch" /\ activeChannels_ # <<>>
     /\ Callbacks(Head(activeChannels_).revents) # {}

\* c's owner has the descriptor to itself.
OwnsFd(c) ==
  /\ c \in alive
  /\ \A d \in alive \ {c} : fd_[d] = fd_[c] => index_[d] = KNew

loopUnchanged == UNCHANGED <<alive, ready, pc, activeChannels_, listSize>>

\* Channel::Channel
Create(c) ==
  /\ MayOperate
  /\ c \notin alive
  /\ alive' = alive \cup {c}
  /\ events_' = [events_ EXCEPT ![c] = {}]
  /\ index_' = [index_ EXCEPT ![c] = KNew]
  /\ UNCHANGED <<channels_, epoll, interest, fatal, ready, pc, activeChannels_, listSize>>

\* enableReading, disableReading, enableWriting, disableWriting, disableAll
EnableReading(c) ==
  MayOperate /\ OwnsFd(c) /\ UpdateChannel(c, events_[c] \cup {"read"}) /\ loopUnchanged
DisableReading(c) ==
  MayOperate /\ OwnsFd(c) /\ UpdateChannel(c, events_[c] \ {"read"}) /\ loopUnchanged
EnableWriting(c) ==
  MayOperate /\ OwnsFd(c) /\ UpdateChannel(c, events_[c] \cup {"write"}) /\ loopUnchanged
DisableWriting(c) ==
  MayOperate /\ OwnsFd(c) /\ UpdateChannel(c, events_[c] \ {"write"}) /\ loopUnchanged
DisableAll(c) ==
  MayOperate /\ OwnsFd(c) /\ UpdateChannel(c, {}) /\ loopUnchanged

\* Channel::remove
Remove(c) == MayOperate /\ OwnsFd(c) /\ RemoveChannel(c) /\ loopUnchanged

\* Channel::~Channel, in the functor that drops the owner's last reference.
Destroy(c) ==
  /\ pc = "functors"
  /\ c \in alive
  /\ index_[c] = KNew
  /\ alive' = alive \ {c}
  /\ UNCHANGED <<chanVars, ready, pc, activeChannels_, listSize>>

-----------------------------------------------------------------------------
(***************************************************************************)
(* The loop: poll, dispatch, functors                                      *)
(***************************************************************************)

\* The ways epoll_wait can fill an event list that has room for listSize
\* entries: all ready descriptors if they fit, any choice of them otherwise,
\* in any order.
Reports ==
  LET n == IF Cardinality(ReadyFds) <= listSize
           THEN Cardinality(ReadyFds) ELSE listSize
  IN  {s \in [1..n -> ReadyFds] : \A i, j \in 1..n : s[i] = s[j] => i = j}

\* Mutant: the event list never grows.
MutPoll ==
  /\ pc = "poll"
  /\ \E s \in Reports :
       activeChannels_' = [i \in 1..Len(s) |->
                             [ch |-> epoll[s[i]], revents |-> Reported(s[i])]]
  /\ pc' = "dispatch"
  /\ UNCHANGED <<alive, chanVars, ready, listSize>>

\* EPollPoller::poll and fillActiveChannels; at the timeout nothing is ready.
Poll ==
  /\ pc = "poll"
  /\ \E s \in Reports :
       /\ activeChannels_' = [i \in 1..Len(s) |->
                                [ch |-> epoll[s[i]], revents |-> Reported(s[i])]]
       /\ listSize' = IF Len(s) = listSize THEN 2 * listSize ELSE listSize
  /\ pc' = "dispatch"
  /\ UNCHANGED <<alive, chanVars, ready>>

\* EPollPoller::poll, when epoll_wait is interrupted (EINTR).
PollInterrupted ==
  /\ pc = "poll"
  /\ pc' = "dispatch"
  /\ UNCHANGED <<alive, chanVars, ready, activeChannels_, listSize>>

\* Channel::handleEvent returns for the channel at the front.
HandleEvent ==
  /\ pc = "dispatch"
  /\ activeChannels_ # <<>>
  /\ activeChannels_' = Tail(activeChannels_)
  /\ UNCHANGED <<alive, chanVars, ready, pc, listSize>>

\* All channels are handled: doPendingFunctors is called ...
BeginFunctors ==
  /\ pc = "dispatch"
  /\ activeChannels_ = <<>>
  /\ pc' = "functors"
  /\ UNCHANGED <<alive, chanVars, ready, activeChannels_, listSize>>

\* ... and returns.
EndFunctors ==
  /\ pc = "functors"
  /\ pc' = "poll"
  /\ UNCHANGED <<alive, chanVars, ready, activeChannels_, listSize>>

-----------------------------------------------------------------------------
ChannelOp(c) ==
  \/ Create(c) \/ Destroy(c) \/ Remove(c)
  \/ EnableReading(c) \/ DisableReading(c)
  \/ EnableWriting(c) \/ DisableWriting(c) \/ DisableAll(c)

LoopStep == Poll \/ HandleEvent \/ BeginFunctors \/ EndFunctors

Next ==
  /\ ~fatal
  /\ \/ \E c \in Channels : ChannelOp(c)
     \/ \E f \in Fds, conds \in SUBSET Conditions : KernelChange(f, conds)
     \/ LoopStep
     \/ PollInterrupted

Spec == Init /\ [][Next]_vars

\* The loop's thread is scheduled, its callbacks and functors return, and not
\* every epoll_wait is interrupted.
FairSpec == Spec /\ WF_vars(~fatal /\ LoopStep) /\ SF_vars(~fatal /\ Poll)

-----------------------------------------------------------------------------
(***************************************************************************)
(* Properties                                                              *)
(***************************************************************************)

\* Channel.h:67-74, Poller.h and EPollPoller.h keep their types.
TypeOK ==
  /\ alive \subseteq Channels
  /\ events_ \in [Channels -> SUBSET Interest]
  /\ index_ \in [Channels -> {KNew, KAdded, KDelete}]
  /\ channels_ \in [Fds -> Channels \cup {None}]
  /\ epoll \in [Fds -> Channels \cup {None}]
  /\ interest \in [Fds -> SUBSET Interest]
  /\ ready \in [Fds -> SUBSET Conditions]
  /\ pc \in {"poll", "dispatch", "functors"}
  /\ activeChannels_ \in Seq([ch : Channels \cup {None}, revents : SUBSET Conditions])
  /\ listSize \in Nat \ {0}
  /\ fatal \in BOOLEAN

\* index_, channels_ and the kernel's interest list agree (EPollPoller.cc:114-162):
\* a channel is KAdded exactly when the kernel reports to it, in the map exactly
\* when it is KAdded or KDelete, and the kernel watches what events_ says.
Consistent ==
  \A c \in alive :
    /\ index_[c] = KAdded <=> epoll[fd_[c]] = c
    /\ index_[c] # KNew <=> HasChannel(c)
    /\ index_[c] = KAdded => interest[fd_[c]] = events_[c]

\* No sequence of channel operations makes epoll_ctl fail an ADD or a MOD,
\* which EPollPoller.cc:65 answers by ending the process.
NoFatal == ~fatal

\* Every pointer the kernel or the poller's map holds, and every pointer that
\* is still to be dispatched, is to a live channel: Channel::handleEvent
\* (EPollPoller.cc:37, EventLoop.cc loop()) never runs on a destroyed object.
NoDangling ==
  /\ \A f \in Fds : epoll[f] \in alive \cup {None} /\ channels_[f] \in alive \cup {None}
  /\ \A i \in 1..Len(activeChannels_) : activeChannels_[i].ch \in alive

\* c is in a callback for something other than urgent data.
Served(c) ==
  /\ pc = "dispatch" /\ activeChannels_ # <<>>
  /\ Head(activeChannels_).ch = c
  /\ Callbacks(Head(activeChannels_).revents) # {}

\* A channel with something to report is not starved by busier ones, whatever
\* order the kernel picks: the event list doubles whenever it was full
\* (EPollPoller.cc:87-90).
ReadyServed ==
  \A c \in Channels :
    (c \in alive /\ epoll[fd_[c]] = c /\ Callbacks(Reported(fd_[c])) # {})
      ~> (Served(c) \/ epoll[fd_[c]] # c \/ Callbacks(Reported(fd_[c])) = {})

-----------------------------------------------------------------------------
(***************************************************************************)
(* The inductive invariant: an entry of the map or of the kernel is filed  *)
(* under its own descriptor, and pointers wait for dispatch only while the *)
(* loop is dispatching (so no functor can destroy a channel under them).   *)
(***************************************************************************)
FiledByFd ==
  \A f \in Fds :
    /\ epoll[f] # None => fd_[epoll[f]] = f
    /\ channels_[f] # None => fd_[channels_[f]] = f

DispatchOnly == pc # "dispatch" => activeChannels_ = <<>>

\* The strengthening that every channel operation and every step of the loop
\* preserves (EPollPoller.cc:33-162): the safety properties together with
\* where the poller files its pointers and when it may hold some for dispatch.
PInv == TypeOK /\ Consistent /\ NoFatal /\ NoDangling /\ FiledByFd /\ DispatchOnly

=============================================================================
