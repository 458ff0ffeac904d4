---------------------------- MODULE SelectPoller ----------------------------
(****************************************************************************)
(* The channels of one event loop and its SelectPoller: registration, the     *)
(* call of select(), and the batch of ready channels whose callbacks          *)
(* register, change and remove channels while the batch is served.            *)
(*                                                                            *)
(* The order of a batch is the order of m_pollfds, which removals rearrange;  *)
(* here the channels of a batch are served in any order.                      *)
(****************************************************************************)
EXTENDS Integers, Sequences, FiniteSets

CONSTANTS
  Channels,   \* addresses of Channel objects
  Fds,        \* descriptors
  NoChannel,  \* no channel
  NoFd        \* the descriptor of an address with no Channel at it

ASSUME PollerAssumption ==
  /\ NoChannel \notin Channels
  /\ NoFd \notin Fds
  /\ IsFiniteSet(Channels) /\ IsFiniteSet(Fds)

Asked == {"read", "write"}         \* what a channel asks for
Ready == {"error", "read", "write"}

VARIABLES
  life,      \* of each address: "none", "new" (constructed), "added"
             \* (m_addedToLoop) or "removed"
  fd,        \* m_fd
  events,    \* m_events, the empty set is kNoneEvent
  index,     \* m_index
  revents,   \* m_revents
  pollfds,   \* m_pollfds
  channels,  \* m_channels
  fdset,     \* m_rfds, m_wfds and m_efds as select() leaves them
  handling,  \* EventLoop::m_eventHandling
  active,    \* m_activeChannels
  pending,   \* those of them not served yet
  current,   \* m_currentActiveChannel
  todo,      \* the callbacks handleEventWithGuard has yet to look at
  callback,  \* the callback of current that runs, or "none"
  fault      \* what has ended the program: "owner", an assert() that catches
             \* what an owner does with its channel; "assert", one that is
             \* about the poller itself; or "use after free"

pollerVars == <<life, fd, events, index, revents, pollfds, channels, fdset, handling,
                active, pending, current, todo, callback, fault>>
registration == <<life, fd, events, index, pollfds, channels>>
batch == <<handling, active, pending, current, todo, callback, fdset, revents>>

Slot == [fd : Fds, ev : SUBSET Asked]
NoneReady == [r \in Ready |-> {}]

PollerTypeOK ==
  /\ life \in [Channels -> {"none", "new", "added", "removed"}]
  /\ fd \in [Channels -> Fds \cup {NoFd}]
  /\ events \in [Channels -> SUBSET Asked]
  /\ index \in [Channels -> Nat \cup {-1}]
  /\ revents \in [Channels -> SUBSET Ready]
  /\ pollfds \in Seq(Slot)
  /\ channels \in [Fds -> Channels \cup {NoChannel}]
  /\ fdset \in [Ready -> SUBSET Fds]
  /\ handling \in BOOLEAN
  /\ active \in SUBSET Channels
  /\ pending \in SUBSET Channels
  /\ current \in Channels \cup {NoChannel}
  /\ todo \in SUBSET Ready
  /\ callback \in Ready \cup {"none"}
  /\ fault \in {"none", "owner", "assert", "use after free"}

PollerInit ==
  /\ life = [c \in Channels |-> "none"]
  /\ fd = [c \in Channels |-> NoFd]
  /\ events = [c \in Channels |-> {}]
  /\ index = [c \in Channels |-> -1]
  /\ revents = [c \in Channels |-> {}]
  /\ pollfds = <<>>
  /\ channels = [f \in Fds |-> NoChannel]
  /\ fdset = NoneReady
  /\ handling = FALSE
  /\ active = {}
  /\ pending = {}
  /\ current = NoChannel
  /\ todo = {}
  /\ callback = "none"
  /\ fault = "none"

Registered(c) == life[c] = "added"

\* An assert() fails on what an owner does with its channel, rightly or not.
Fails(rightly) ==
  /\ fault' = IF rightly THEN "owner" ELSE "assert"
  /\ UNCHANGED <<registration, batch>>

\* The loop thread executes code of the owners of channels: a timer or a functor
\* outside the batch, or a callback of the current channel.
InOwnersCode == handling => callback # "none"

------------------------------------------------------------------------------
(* What the owners of channels do.                                            *)

\* An owner makes a Channel for a descriptor that no channel in use has; one that
\* has been removed may still exist (Connector hands its descriptor on to a
\* TcpConnection and destroys its own channel later).
Construct(c, f) ==
  /\ InOwnersCode
  /\ life[c] = "none"
  /\ \A d \in Channels : fd[d] = f => life[d] = "removed"
  /\ life' = [life EXCEPT ![c] = "new"]
  /\ fd' = [fd EXCEPT ![c] = f]
  /\ UNCHANGED <<events, index, pollfds, channels, batch, fault>>

\* SelectPoller::updateChannel of a channel it has not seen.
Add(c, ev) ==
  /\ pollfds' = Append(pollfds, [fd |-> fd[c], ev |-> ev])
  /\ index' = [index EXCEPT ![c] = Len(pollfds)]
  /\ channels' = [channels EXCEPT ![fd[c]] = c]

\* SelectPoller::updateChannel of a channel it has seen.
Modify(c, ev) ==
  /\ pollfds' = [pollfds EXCEPT ![index[c] + 1].ev = ev]
  /\ UNCHANGED <<index, channels>>

\* The assertions of the two.
Updatable(c) ==
  IF index[c] < 0
  THEN channels[fd[c]] = NoChannel
  ELSE /\ channels[fd[c]] = c
       /\ index[c] + 1 \in DOMAIN pollfds
       /\ pollfds[index[c] + 1].fd = fd[c]

\* Channel::update after a change of m_events.  Nothing in Channel keeps an
\* owner from enabling or disabling a channel that it has removed.
Update(c, ev) ==
  /\ InOwnersCode
  /\ life[c] # "none"
  /\ IF Updatable(c)
     THEN /\ events' = [events EXCEPT ![c] = ev]
          /\ life' = [life EXCEPT ![c] = "added"]
          /\ IF index[c] < 0 THEN Add(c, ev) ELSE Modify(c, ev)
          /\ UNCHANGED <<fd, batch, fault>>
     ELSE Fails(life[c] = "removed")

\* enableReading and enableWriting.
Enable(c, e) == Update(c, events[c] \cup {e})

\* disableReading, disableWriting and disableAll, which register a channel that
\* has never been enabled.
Disable(c, es) == Update(c, events[c] \ es)

\* mutant: the last slot takes the place of the removed one and keeps its index.
TakeOutKeepsIndex(c) ==
  LET n == Len(pollfds)
      i == index[c] + 1
  IN /\ pollfds' = [k \in 1..(n - 1) |-> IF k = i THEN pollfds[n] ELSE pollfds[k]]
     /\ channels' = [channels EXCEPT ![fd[c]] = NoChannel]
     /\ UNCHANGED index

\* The last slot takes the place of the removed one.
TakeOut(c) ==
  LET n == Len(pollfds)
      i == index[c] + 1
  IN /\ pollfds' = [k \in 1..(n - 1) |-> IF k = i THEN pollfds[n] ELSE pollfds[k]]
     /\ index' = IF i = n THEN index ELSE [index EXCEPT ![channels[pollfds[n].fd]] = i - 1]
     /\ channels' = [channels EXCEPT ![fd[c]] = NoChannel]

\* mutant: a build in which nothing is asserted of a removal in a batch.
NotAsserted(c) == TRUE

\* What EventLoop::removeChannel asserts of a removal in a batch.  It compares
\* addresses: a channel made where one of the batch was is taken for that one.
NotInBatch(c) == handling => c = current \/ c \notin active

\* What SelectPoller::removeChannel asserts.
Removable(c) ==
  LET i == index[c] + 1
  IN /\ channels[fd[c]] = c
     /\ i \in DOMAIN pollfds /\ pollfds[i].ev = events[c]
     /\ channels[pollfds[Len(pollfds)].fd] # NoChannel

\* Channel::remove, EventLoop::removeChannel and SelectPoller::removeChannel, of
\* any channel in any callback.
RemoveChannel(c) ==
  /\ InOwnersCode
  /\ life[c] # "none"
  /\ IF events[c] = {} /\ NotInBatch(c) /\ Removable(c)
     THEN /\ life' = [life EXCEPT ![c] = "removed"]
          /\ TakeOut(c)
          /\ UNCHANGED <<fd, events, batch, fault>>
     ELSE Fails(~Registered(c) \/ events[c] # {} \/ ~NotInBatch(c))

\* Channel::~Channel, of any channel in any callback.
Destroy(c) ==
  /\ InOwnersCode
  /\ life[c] # "none"
  /\ IF c # current /\ ~Registered(c) /\ channels[fd[c]] # c
     THEN /\ life' = [life EXCEPT ![c] = "none"]
          /\ fd' = [fd EXCEPT ![c] = NoFd]
          /\ events' = [events EXCEPT ![c] = {}]
          /\ index' = [index EXCEPT ![c] = -1]
          /\ revents' = [revents EXCEPT ![c] = {}]
          /\ UNCHANGED <<pollfds, channels, fdset, handling, active, pending, current,
                         todo, callback, fault>>
     ELSE Fails(c = current \/ Registered(c))

------------------------------------------------------------------------------
(* The loop.                                                                  *)

\* The sets the slot's descriptor is put in.  (The test elem.ev & kNoneEvent
\* that would skip a slot is never true, kNoneEvent being 0.)
AskedFor(slot, r) == r = "error" \/ r \in slot.ev

\* What select() returns: each descriptor counts in each set that it is in.
NumEvents(s) ==
  Cardinality(s["read"]) + Cardinality(s["write"]) + Cardinality(s["error"])

ReadyIn(s, f) == {r \in Ready : f \in s[r]}

\* The channels that fillActiveChannels comes to before its count is used up.
Filled(s) ==
  LET ready == {i \in DOMAIN pollfds : ReadyIn(s, pollfds[i].fd) # {}}
  IN {i \in ready : Cardinality({j \in ready : j <= i}) <= NumEvents(s)}

\* SelectPoller::poll, when select() finds something: s is what it finds.
SelectPoll(s) ==
  LET found == {channels[pollfds[i].fd] : i \in Filled(s)}
      ok == \A i \in Filled(s) :
              LET c == channels[pollfds[i].fd]
              IN c # NoChannel /\ fd[c] = pollfds[i].fd
  IN /\ ~handling
     /\ \A r \in Ready : s[r] \subseteq {pollfds[i].fd : i \in {j \in DOMAIN pollfds : AskedFor(pollfds[j], r)}}
     /\ NumEvents(s) > 0
     /\ fdset' = s
     /\ fault' = IF ok THEN fault ELSE "assert"
     /\ revents' = IF ok THEN [c \in Channels |-> IF c \in found THEN ReadyIn(s, fd[c]) ELSE revents[c]]
                   ELSE revents
     /\ active' = IF ok THEN found ELSE {}
     /\ pending' = active'
     /\ handling' = TRUE
     /\ UNCHANGED <<registration, current, todo, callback>>

\* The loop takes a channel of the batch and enters handleEvent.
HandleEventOf(c) ==
  /\ handling /\ current = NoChannel
  /\ c \in pending
  /\ pending' = pending \ {c}
  /\ current' = c
  /\ todo' = revents[c]
  /\ fault' = IF life[c] = "none" THEN "use after free" ELSE fault
  /\ UNCHANGED <<registration, fdset, revents, handling, active, callback>>

\* handleEventWithGuard: error, read and write callback, in this order.
StartCallback(r) ==
  /\ current # NoChannel /\ callback = "none"
  /\ r \in todo
  /\ r = "read" => "error" \notin todo
  /\ r = "write" => todo = {"write"}
  /\ todo' = todo \ {r}
  /\ callback' = r
  /\ UNCHANGED <<registration, fdset, revents, handling, active, pending, current, fault>>

ReturnCallback ==
  /\ callback # "none"
  /\ callback' = "none"
  /\ UNCHANGED <<registration, fdset, revents, handling, active, pending, current, todo, fault>>

\* handleEventWithGuard clears m_eventHandling of the channel.
EndHandleEvent ==
  /\ current # NoChannel /\ callback = "none" /\ todo = {}
  /\ current' = NoChannel
  /\ fault' = IF life[current] = "none" THEN "use after free" ELSE fault
  /\ UNCHANGED <<registration, fdset, revents, handling, active, pending, todo, callback>>

\* The batch is served.  What it leaves in m_activeChannels, in the sets and in
\* m_revents is overwritten before it is read again, and forgotten here.
EndBatch ==
  /\ handling /\ current = NoChannel /\ pending = {}
  /\ handling' = FALSE
  /\ active' = {}
  /\ fdset' = NoneReady
  /\ revents' = [c \in Channels |-> {}]
  /\ UNCHANGED <<registration, pending, current, todo, callback, fault>>

Owners ==
  \E c \in Channels :
    \/ \E f \in Fds : Construct(c, f)
    \/ \E e \in Asked : Enable(c, e)
    \/ \E es \in SUBSET Asked \ {{}} : Disable(c, es)
    \/ RemoveChannel(c)
    \/ Destroy(c)

Serve ==
  \/ \E c \in Channels : HandleEventOf(c)
  \/ \E r \in Ready : StartCallback(r)
  \/ ReturnCallback \/ EndHandleEvent \/ EndBatch

\* After a fault the program has ended.
PollerNext ==
  /\ fault = "none"
  /\ \/ Owners
     \/ \E s \in [Ready -> SUBSET Fds] : SelectPoll(s)
     \/ Serve

PollerSpec == PollerInit /\ [][PollerNext]_pollerVars

------------------------------------------------------------------------------
(* Properties.                                                                *)

\* Each registered channel is in m_channels under its descriptor and its index
\* leads to its slot, which asks for what the channel asks for.
RegisteredHaveSlots ==
  \A c \in Channels : Registered(c) =>
    /\ fd[c] \in Fds
    /\ channels[fd[c]] = c
    /\ index[c] + 1 \in DOMAIN pollfds
    /\ pollfds[index[c] + 1] = [fd |-> fd[c], ev |-> events[c]]

\* Each slot is that of a registered channel whose index leads back to it, so
\* no two slots are for the same descriptor and none is left by a removal.
SlotsAreRegistered ==
  \A i \in DOMAIN pollfds :
    \E c \in Channels : Registered(c) /\ index[c] + 1 = i /\ fd[c] = pollfds[i].fd

\* m_channels, m_pollfds and the indices in the channels always agree, whatever
\* the order of registrations, changes and removals (updateChannel,
\* removeChannel).
SlotsAgree == RegisteredHaveSlots /\ SlotsAreRegistered

\* No assert() about the poller itself fails and no channel is used after its
\* destruction: what the owners do wrong is caught by the assertion on the very
\* call, before the tables are touched (Channel::remove, Channel::~Channel,
\* EventLoop::removeChannel, the first ones of updateChannel and removeChannel).
NoFault == fault \in {"none", "owner"}

\* Tables and indices agree with the channels there are, in the middle of a batch
\* too, so that nothing is looked up in vain or used after its end.
ChannelsAgree == SlotsAgree /\ NoFault

\* Whatever the callbacks before it do to any channel, a channel of the batch
\* whose turn has not come is still registered, for the descriptor select()
\* found, and still has the events found for it: the two assertions of
\* EventLoop::removeChannel and of ~Channel are enough (the loop over
\* m_activeChannels in EventLoop::loop).
BatchRegistered ==
  \A c \in pending : Registered(c) /\ revents[c] = ReadyIn(fdset, fd[c])
=============================================================================
