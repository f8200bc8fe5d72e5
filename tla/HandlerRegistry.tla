--------------------------- MODULE HandlerRegistry ---------------------------
(***************************************************************************)
(* manager.go: OnWebhookEvent, which replaces the handler map by a copy    *)
(* with one handler more and a compare-and-swap, and dispatch.go:          *)
(* dispatchSync, which runs the handlers of the map it has loaded.         *)
(*                                                                         *)
(* CompareAndSwap compares pointers.  A map is never changed once it is    *)
(* published and every new one is larger than the one it replaces, so two  *)
(* published maps are the same pointer exactly when they are equal.        *)
(***************************************************************************)
EXTENDS Naturals, Sequences

CONSTANTS
  Registrars,   \* calls of OnWebhookEvent, each with a handler of its own
  TypeOf,       \* the event type each registers its handler for
  Dispatchers,  \* goroutines that dispatch an event
  None          \* nothing loaded

VARIABLES
  handlersPtr,  \* the published map: event type -> handlers
  pc,           \* where each registration is: "load", "swap" or "done"
  old,          \* the map each registration has loaded
  todo          \* the handlers each dispatcher still has to call

vars == <<handlersPtr, pc, old, todo>>

HandlerTypes == {TypeOf[r] : r \in Registrars}

HandlerMap == [HandlerTypes -> Seq(Registrars)]

ASSUME RegistryAssumption ==
  /\ TypeOf = [r \in Registrars |-> TypeOf[r]]
  /\ None \notin HandlerMap
  /\ None \notin Seq(Registrars)

RegistryTypeOK ==
  /\ handlersPtr \in HandlerMap
  /\ pc \in [Registrars -> {"load", "swap", "done"}]
  /\ old \in [Registrars -> HandlerMap \cup {None}]
  /\ todo \in [Dispatchers -> Seq(Registrars) \cup {None}]

Init ==
  /\ handlersPtr = [t \in HandlerTypes |-> <<>>]
  /\ pc = [r \in Registrars |-> "load"]
  /\ old = [r \in Registrars |-> None]
  /\ todo = [d \in Dispatchers |-> None]

-----------------------------------------------------------------------------
Load(r) ==
  /\ pc[r] = "load"
  /\ old' = [old EXCEPT ![r] = handlersPtr]
  /\ pc' = [pc EXCEPT ![r] = "swap"]
  /\ UNCHANGED <<handlersPtr, todo>>

\* The copy is appended to a slice made with the length of the old one: as many
\* nil handlers come first.
NewMap_NilFirst(r) ==
  [t \in HandlerTypes |->
     LET copy == [i \in 1..Len(old[r][t]) |-> None] \o old[r][t]
     IN  IF t = TypeOf[r] THEN Append(copy, r) ELSE copy]

\* The copy of the loaded map with the handler of r appended.
NewMap(r) == [old[r] EXCEPT ![TypeOf[r]] = Append(@, r)]

\* The new map is published whatever happened since the load.
Swap_Unconditional(r) ==
  /\ pc[r] = "swap"
  /\ handlersPtr' = NewMap(r)
  /\ pc' = [pc EXCEPT ![r] = "done"]
  /\ UNCHANGED <<old, todo>>

Swap(r) ==
  /\ pc[r] = "swap"
  /\ handlersPtr = old[r]
  /\ handlersPtr' = NewMap(r)
  /\ pc' = [pc EXCEPT ![r] = "done"]
  /\ UNCHANGED <<old, todo>>

\* A failed comparison gives up instead of trying again.
Retry_GivesUp(r) ==
  /\ pc[r] = "swap"
  /\ handlersPtr # old[r]
  /\ pc' = [pc EXCEPT ![r] = "done"]
  /\ UNCHANGED <<handlersPtr, old, todo>>

\* The comparison is repeated with the map loaded first.
Retry_NoReload(r) ==
  /\ pc[r] = "swap"
  /\ handlersPtr # old[r]
  /\ UNCHANGED vars

\* Another goroutine registered meanwhile: start again with a fresh map.
Retry(r) ==
  /\ pc[r] = "swap"
  /\ handlersPtr # old[r]
  /\ pc' = [pc EXCEPT ![r] = "load"]
  /\ UNCHANGED <<handlersPtr, old, todo>>

-----------------------------------------------------------------------------
\* dispatchSync loads the map once and calls the handlers of the event's type.
DispatchLoad(d, t) ==
  /\ todo[d] = None
  /\ todo' = [todo EXCEPT ![d] = handlersPtr[t]]
  /\ UNCHANGED <<handlersPtr, pc, old>>

\* A handler returns; an error ends the dispatch.
CallHandler(d) ==
  /\ todo[d] # None /\ todo[d] # <<>>
  /\ todo' = [todo EXCEPT ![d] = Tail(todo[d])] \/ todo' = [todo EXCEPT ![d] = None]
  /\ UNCHANGED <<handlersPtr, pc, old>>

DispatchReturn(d) ==
  /\ todo[d] = <<>>
  /\ todo' = [todo EXCEPT ![d] = None]
  /\ UNCHANGED <<handlersPtr, pc, old>>

-----------------------------------------------------------------------------
Step(r) == Load(r) \/ Swap(r) \/ Retry(r)

Dispatch(d) ==
  \/ \E t \in HandlerTypes : DispatchLoad(d, t)
  \/ CallHandler(d)
  \/ DispatchReturn(d)

Next ==
  \/ \E r \in Registrars : Step(r)
  \/ \E d \in Dispatchers : Dispatch(d)

Spec == Init /\ [][Next]_vars

\* The Go scheduler runs every goroutine that can go on.
FairSpec == Spec /\ \A r \in Registrars : WF_vars(Step(r))

-----------------------------------------------------------------------------
registered == {r \in Registrars : pc[r] = "done"}

List == INSTANCE HandlerList WITH handlers <- handlersPtr

\* A registration takes effect in one step, exactly once, at the end of its
\* type's list: none is lost or repeated however many run concurrently, and
\* handlers stand "in registration order" (OnWebhookEvent).
ImplementsList == List!ListSpec

\* A dispatch only ever calls handlers that are registered, in the order of
\* registration: what is left to call is a tail of the published list or of
\* an earlier state of it.
DispatchInOrder ==
  \A d \in Dispatchers : todo[d] # None =>
    \E t \in HandlerTypes :
      \E i, j \in 0..Len(handlersPtr[t]) :
        todo[d] = SubSeq(handlersPtr[t], i + 1, j)

\* OnWebhookEvent returns although its compare-and-swap may fail: it fails
\* only because another registration succeeded.
EveryRegistrationReturns == \A r \in Registrars : <>(pc[r] = "done")
=============================================================================
