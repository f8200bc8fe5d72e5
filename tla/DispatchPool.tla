---------------------------- MODULE DispatchPool ----------------------------
(***************************************************************************)
(* dispatch.go: the pool of workers that run webhook handlers, together    *)
(* with the senders (HandleWebhook, which saves the subscription first)    *)
(* and with Manager.Close.                                                 *)
(*                                                                         *)
(* A channel is a bounded queue: a send blocks while it is full, a receive *)
(* while it is empty and open, and a send on a closed channel panics, even *)
(* one that was blocked before the close.                                  *)
(***************************************************************************)
EXTENDS Integers, Sequences, SequencesExt

CONSTANTS
  Senders,     \* goroutines that serve webhook requests
  Keys,        \* routing keys: provider subscription IDs
  Hash,        \* the 32-bit FNV hash of each key
  HashBits,    \* 32 in the code
  IntBits,     \* the width of Go's int: 64, or 32 on a 32-bit platform
  NumWorkers,  \* Options.DispatchWorkers
  QueueDepth,  \* Options.DispatchQueueDepth
  MaxEvents,   \* bound: events per key
  None

VARIABLES
  sender,   \* the event each sender has applied and not yet queued
  applied,  \* events applied to the subscription of each key so far
  queues,   \* the workers' channels
  current,  \* the event each worker is handling
  exited,   \* the workers that have returned
  closing,  \* Close: -1 before the call, then the number of closed channels
  abrupt,   \* history: a webhook request was served after Close was called
  panicked, \* a goroutine has panicked, which ends the process
  queued,   \* history: the events of each key in the order they were queued
  handled   \* history: the events of each key in the order they were handled

vars == <<sender, applied, queues, current, exited, closing, abrupt, panicked,
          queued, handled>>

Workers == 0 .. NumWorkers - 1

Events == [key : Keys, n : 1..MaxEvents]

ASSUME PoolAssumption ==
  /\ NumWorkers \in Nat \ {0} /\ QueueDepth \in Nat \ {0} /\ MaxEvents \in Nat
  /\ HashBits \in Nat \ {0} /\ IntBits \in Nat \ {0}
  /\ Hash \in [Keys -> 0 .. 2^HashBits - 1]
  /\ None \notin Events

PoolTypeOK ==
  /\ sender \in [Senders -> Events \cup {None}]
  /\ applied \in [Keys -> 0..MaxEvents]
  /\ queues \in [Workers -> Seq(Events)]
  /\ \A w \in Workers : Len(queues[w]) <= QueueDepth
  /\ current \in [Workers -> Events \cup {None}]
  /\ exited \subseteq Workers
  /\ closing \in -1 .. NumWorkers
  /\ abrupt \in BOOLEAN /\ panicked \in BOOLEAN
  /\ queued \in [Keys -> Seq(1..MaxEvents)]
  /\ handled \in [Keys -> Seq(1..MaxEvents)]

\* newDispatchPool; Manager.Close has not been called.
Init ==
  /\ sender = [s \in Senders |-> None]
  /\ applied = [k \in Keys |-> 0]
  /\ queues = [w \in Workers |-> <<>>]
  /\ current = [w \in Workers |-> None]
  /\ exited = {}
  /\ closing = -1
  /\ abrupt = FALSE /\ panicked = FALSE
  /\ queued = [k \in Keys |-> <<>>]
  /\ handled = [k \in Keys |-> <<>>]

\* close leaves the first channel open.
Closed_NotFirst(w) == 0 < w /\ w < closing

Closed(w) == w < closing

-----------------------------------------------------------------------------
(***************************************************************************)
(* Routing: int(h.Sum32()) % workers.                                      *)
(***************************************************************************)
\* int(h) on a platform whose int is as narrow as the hash.
ToInt_Narrow(h) == IF h >= 2^(HashBits - 1) THEN h - 2^HashBits ELSE h

\* The conversion keeps the low IntBits bits, in two's complement.
ToInt(h) ==
  LET low == h % 2^IntBits
  IN  IF low >= 2^(IntBits - 1) THEN low - 2^IntBits ELSE low

\* Go's remainder has the sign of the dividend.
Rem(a, b) == IF a >= 0 THEN a % b ELSE -((-a) % b)

\* Jobs are spread over the workers whatever their key.
Route_RoundRobin(k) == (Len(queued[k]) + 1) % NumWorkers

Route(k) == Rem(ToInt(Hash[k]), NumWorkers)

-----------------------------------------------------------------------------
(***************************************************************************)
(* HandleWebhook.                                                          *)
(***************************************************************************)
\* The subscription is looked up, changed and saved (see Lifecycle).
Apply(s, k) ==
  /\ ~panicked
  /\ sender[s] = None
  /\ applied[k] < MaxEvents
  /\ applied' = [applied EXCEPT ![k] = @ + 1]
  /\ sender' = [sender EXCEPT ![s] = [key |-> k, n |-> applied[k] + 1]]
  /\ abrupt' = (abrupt \/ closing # -1)
  /\ UNCHANGED <<queues, current, exited, closing, panicked, queued, handled>>

\* A job for a full channel is dropped.
Send_Drops(s) ==
  /\ ~panicked
  /\ sender[s] # None
  /\ LET k == sender[s].key IN
       /\ Route(k) \in Workers
       /\ ~Closed(Route(k))
       /\ IF Len(queues[Route(k)]) < QueueDepth
          THEN /\ queues' = [queues EXCEPT ![Route(k)] = Append(@, sender[s])]
               /\ queued' = [queued EXCEPT ![k] = Append(@, sender[s].n)]
          ELSE UNCHANGED <<queues, queued>>
  /\ sender' = [sender EXCEPT ![s] = None]
  /\ UNCHANGED <<applied, current, exited, closing, abrupt, panicked,
                 handled>>

\* The queue has no bound.
Send_Unbounded(s) ==
  /\ ~panicked
  /\ sender[s] # None
  /\ LET k == sender[s].key IN
       /\ Route(k) \in Workers
       /\ ~Closed(Route(k))
       /\ queues' = [queues EXCEPT ![Route(k)] = Append(@, sender[s])]
       /\ queued' = [queued EXCEPT ![k] = Append(@, sender[s].n)]
  /\ sender' = [sender EXCEPT ![s] = None]
  /\ UNCHANGED <<applied, current, exited, closing, abrupt, panicked,
                 handled>>

Send(s) ==
  /\ ~panicked
  /\ sender[s] # None
  /\ LET k == sender[s].key IN
       /\ Route(k) \in Workers
       /\ ~Closed(Route(k))
       /\ Len(queues[Route(k)]) < QueueDepth
       /\ queues' = [queues EXCEPT ![Route(k)] = Append(@, sender[s])]
       /\ queued' = [queued EXCEPT ![k] = Append(@, sender[s].n)]
  /\ sender' = [sender EXCEPT ![s] = None]
  /\ UNCHANGED <<applied, current, exited, closing, abrupt, panicked,
                 handled>>

\* A send on a closed channel, or to an index outside the slice.
SendPanics(s) ==
  /\ ~panicked
  /\ sender[s] # None
  /\ Route(sender[s].key) \notin Workers \/ Closed(Route(sender[s].key))
  /\ panicked' = TRUE
  /\ UNCHANGED <<sender, applied, queues, current, exited, closing,
                 abrupt, queued, handled>>

-----------------------------------------------------------------------------
(***************************************************************************)
(* runWorker.                                                              *)
(***************************************************************************)
Receive(w) ==
  /\ ~panicked
  /\ current[w] = None /\ queues[w] # <<>>
  /\ current' = [current EXCEPT ![w] = Head(queues[w])]
  /\ queues' = [queues EXCEPT ![w] = Tail(@)]
  /\ UNCHANGED <<sender, applied, exited, closing, abrupt, panicked,
                 queued, handled>>

\* dispatchSync returns; its error goes nowhere, since errC is never set.
Handled(w) ==
  /\ ~panicked
  /\ current[w] # None
  /\ handled' = [handled EXCEPT ![current[w].key] = Append(@, current[w].n)]
  /\ current' = [current EXCEPT ![w] = None]
  /\ UNCHANGED <<sender, applied, queues, exited, closing, abrupt,
                 panicked, queued>>

\* The worker leaves as soon as its channel is closed.
Exit_Early(w) ==
  /\ ~panicked
  /\ w \notin exited /\ current[w] = None /\ Closed(w)
  /\ exited' = exited \cup {w}
  /\ UNCHANGED <<sender, applied, queues, current, closing, abrupt,
                 panicked, queued, handled>>

\* range over the channel ends when it is closed and empty.
Exit(w) ==
  /\ ~panicked
  /\ w \notin exited /\ current[w] = None /\ Closed(w) /\ queues[w] = <<>>
  /\ exited' = exited \cup {w}
  /\ UNCHANGED <<sender, applied, queues, current, closing, abrupt,
                 panicked, queued, handled>>

-----------------------------------------------------------------------------
(***************************************************************************)
(* Manager.Close and dispatchPool.close.                                   *)
(***************************************************************************)
CloseBegin ==
  /\ ~panicked /\ closing = -1
  /\ closing' = 0
  /\ abrupt' = \E s \in Senders : sender[s] # None
  /\ UNCHANGED <<sender, applied, queues, current, exited, panicked, queued,
                 handled>>

CloseQueue ==
  /\ ~panicked /\ closing \in Workers
  /\ closing' = closing + 1
  /\ UNCHANGED <<sender, applied, queues, current, exited, abrupt,
                 panicked, queued, handled>>

\* close returns once the wait group has seen every worker leave.
CloseReturned == closing = NumWorkers /\ exited = Workers

-----------------------------------------------------------------------------
\* Nothing is left to do: Close has returned, or the process is gone.
Terminated == (CloseReturned \/ panicked) /\ UNCHANGED vars

Next ==
  \/ \E s \in Senders : (\E k \in Keys : Apply(s, k)) \/ Send(s) \/ SendPanics(s)
  \/ \E w \in Workers : Receive(w) \/ Handled(w) \/ Exit(w)
  \/ CloseBegin
  \/ CloseQueue
  \/ Terminated

Spec == Init /\ [][Next]_vars

\* Workers run and handlers return; the runtime serves blocked senders of a
\* channel in turn; Close, once called, goes on.
FairSpec ==
  /\ Spec
  /\ \A s \in Senders : SF_vars(Send(s)) /\ WF_vars(SendPanics(s))
  /\ \A w \in Workers : WF_vars(Receive(w)) /\ WF_vars(Handled(w)) /\ WF_vars(Exit(w))
  /\ WF_vars(CloseQueue)

-----------------------------------------------------------------------------
(***************************************************************************)
(* Properties.                                                             *)
(***************************************************************************)
\* No send meets a closed channel or an index outside the slice, however long
\* senders were blocked on full channels, unless webhooks were still served
\* when Close was called.
NeverPanics == panicked => abrupt

\* What worker w is handling and what is in its channel, oldest first.
Held(w) == (IF current[w] = None THEN <<>> ELSE <<current[w]>>) \o queues[w]

\* The numbers are those of the events of key k, in the order of events.
NumbersOf(k, numbers, events) ==
  \E at \in [1..Len(numbers) -> 1..Len(events)] :
    /\ \A i, j \in 1..Len(numbers) : i < j => at[i] < at[j]
    /\ \A i \in 1..Len(numbers) : events[at[i]] = [key |-> k, n |-> numbers[i]]
    /\ \A p \in 1..Len(events) :
         events[p].key = k => \E i \in 1..Len(numbers) : at[i] = p

\* The events of key k that were queued and not handled yet.
Waiting(k) == SubSeq(queued[k], Len(handled[k]) + 1, Len(queued[k]))

\* Every queued event of a subscription is handled once, in the order of
\* queueing: handled, then in the hands of its one worker, then in its channel.
HandledInOrder ==
  \A k \in Keys :
    Route(k) \in Workers =>
      /\ IsPrefix(handled[k], queued[k])
      /\ NumbersOf(k, Waiting(k), Held(Route(k)))

\* Close drains: when it has returned every queued event was handled.
DrainedByClose == CloseReturned => \A k \in Keys : handled[k] = queued[k]

\* A webhook that was applied is handled in the end, however full the queues,
\* unless the process panics.
EveryEventHandled ==
  \A k \in Keys, n \in 1..MaxEvents :
    applied[k] >= n ~> n \in ToSet(handled[k]) \/ panicked

\* Close returns, unless the process panics.
CloseReturns == closing >= 0 ~> CloseReturned \/ panicked
=============================================================================
