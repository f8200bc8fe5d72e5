------------------------ MODULE HandlerRegistryProofs ------------------------
(***************************************************************************)
(* OnWebhookEvent's compare-and-swap loop implements an atomic append, for *)
(* any number of concurrent registrations and dispatches.                  *)
(***************************************************************************)
EXTENDS HandlerRegistry, TLAPS

\* A registration that is about to swap has loaded a map.
Loaded == \A r \in Registrars : pc[r] = "swap" => old[r] \in HandlerMap

RegistryInv == RegistryTypeOK /\ Loaded

LEMMA NewMapType ==
  ASSUME NEW r \in Registrars, old[r] \in HandlerMap
  PROVE  NewMap(r) \in HandlerMap
<1>1. TypeOf[r] \in HandlerTypes
  BY DEF HandlerTypes
<1>2. Append(old[r][TypeOf[r]], r) \in Seq(Registrars)
  BY <1>1 DEF HandlerMap
<1> QED
  BY <1>1, <1>2 DEF NewMap, HandlerMap

LEMMA RegistryInvInit == Init => RegistryInv
BY DEF Init, RegistryInv, RegistryTypeOK, Loaded, HandlerMap

LEMMA RegistryInvStep ==
  ASSUME RegistryInv, [Next]_vars
  PROVE  RegistryInv'
<1>1. ASSUME NEW r \in Registrars, Load(r)
      PROVE  RegistryInv'
  BY <1>1 DEF Load, RegistryInv, RegistryTypeOK, Loaded
<1>2. ASSUME NEW r \in Registrars, Swap(r)
      PROVE  RegistryInv'
  <2>1. NewMap(r) \in HandlerMap
    BY <1>2, NewMapType DEF Swap, RegistryInv, Loaded
  <2> QED
    BY <1>2, <2>1 DEF Swap, RegistryInv, RegistryTypeOK, Loaded
<1>3. ASSUME NEW r \in Registrars, Retry(r)
      PROVE  RegistryInv'
  BY <1>3 DEF Retry, RegistryInv, RegistryTypeOK, Loaded
<1>4. ASSUME NEW d \in Dispatchers, NEW t \in HandlerTypes, DispatchLoad(d, t)
      PROVE  RegistryInv'
  BY <1>4 DEF DispatchLoad, RegistryInv, RegistryTypeOK, Loaded, HandlerMap
<1>5. ASSUME NEW d \in Dispatchers, CallHandler(d)
      PROVE  RegistryInv'
  <2>1. Tail(todo[d]) \in Seq(Registrars)
    BY <1>5 DEF CallHandler, RegistryInv, RegistryTypeOK
  <2> QED
    BY <1>5, <2>1 DEF CallHandler, RegistryInv, RegistryTypeOK, Loaded
<1>6. ASSUME NEW d \in Dispatchers, DispatchReturn(d)
      PROVE  RegistryInv'
  BY <1>6 DEF DispatchReturn, RegistryInv, RegistryTypeOK, Loaded
<1>7. CASE UNCHANGED vars
  BY <1>7 DEF vars, RegistryInv, RegistryTypeOK, Loaded
<1> QED
  BY <1>1, <1>2, <1>3, <1>4, <1>5, <1>6, <1>7 DEF Next, Step, Dispatch

\* A successful swap is the registration; every other step leaves the
\* published list and the set of finished registrations alone.
LEMMA RefinesStep ==
  ASSUME RegistryInv, [Next]_vars
  PROVE  [List!ListNext]_<<handlersPtr, registered>>
<1>1. ASSUME NEW r \in Registrars, Swap(r)
      PROVE  List!Register(r)
  <2>1. handlersPtr' = [handlersPtr EXCEPT ![TypeOf[r]] = Append(@, r)]
    BY <1>1 DEF Swap, NewMap
  <2>2. r \notin registered
    BY <1>1 DEF Swap, registered
  <2>3. registered' = registered \cup {r}
    BY <1>1 DEF Swap, registered, RegistryInv, RegistryTypeOK
  <2> QED
    BY <2>1, <2>2, <2>3 DEF List!Register
<1>2. ASSUME NEW r \in Registrars, Load(r) \/ Retry(r)
      PROVE  UNCHANGED <<handlersPtr, registered>>
  BY <1>2 DEF Load, Retry, registered, RegistryInv, RegistryTypeOK
<1>3. ASSUME NEW d \in Dispatchers, Dispatch(d)
      PROVE  UNCHANGED <<handlersPtr, registered>>
  BY <1>3 DEF Dispatch, DispatchLoad, CallHandler, DispatchReturn, registered
<1>4. CASE UNCHANGED vars
  BY <1>4 DEF vars, registered
<1> QED
  BY <1>1, <1>2, <1>3, <1>4 DEF Next, Step, List!ListNext

\* The published map, the loaded maps and the dispatches stay well typed.
THEOREM RegistryTypeCorrect == Spec => []RegistryTypeOK
<1>1. RegistryInv => RegistryTypeOK
  BY DEF RegistryInv
<1> QED
  BY RegistryInvInit, RegistryInvStep, <1>1, PTL DEF Spec

\* No registration is lost, repeated or put out of order.
THEOREM RegistryImplementsList == Spec => ImplementsList
<1>1. Init => List!ListInit
  BY DEF Init, List!ListInit, List!HandlerTypes, HandlerTypes, registered
<1> QED
  BY RegistryInvInit, RegistryInvStep, RefinesStep, <1>1, PTL
     DEF Spec, ImplementsList, List!ListSpec

-----------------------------------------------------------------------------
(***************************************************************************)
(* What a dispatcher has left to call is a run of consecutive handlers of  *)
(* one published list.                                                     *)
(***************************************************************************)
Run(s, list) == \E i, j \in 0..Len(list) : s = SubSeq(list, i + 1, j)

\* A list is a run of itself.
LEMMA RunWhole ==
  ASSUME NEW S, NEW list \in Seq(S)
  PROVE  Run(list, list)
<1>1. list = SubSeq(list, 0 + 1, Len(list))
  OBVIOUS
<1>2. 0 \in 0..Len(list) /\ Len(list) \in 0..Len(list)
  OBVIOUS
<1> QED
  BY <1>1, <1>2 DEF Run

\* A run without its first handler is a run.
LEMMA RunTail ==
  ASSUME NEW S, NEW list \in Seq(S), NEW s, s # <<>>, Run(s, list)
  PROVE  Run(Tail(s), list)
<1>1. PICK i, j \in 0..Len(list) : s = SubSeq(list, i + 1, j)
  BY DEF Run
<1>2. i < j
  BY <1>1
<1>3. Tail(s) = SubSeq(list, (i + 1) + 1, j)
  BY <1>1, <1>2
<1>4. i + 1 \in 0..Len(list)
  BY <1>2
<1> QED
  BY <1>3, <1>4 DEF Run

\* A run of a list is a run of the list with one handler more.
LEMMA RunAppend ==
  ASSUME NEW S, NEW list \in Seq(S), NEW x \in S, NEW s, Run(s, list)
  PROVE  Run(s, Append(list, x))
<1>1. PICK i, j \in 0..Len(list) : s = SubSeq(list, i + 1, j)
  BY DEF Run
<1>2. SubSeq(Append(list, x), i + 1, j) = SubSeq(list, i + 1, j)
  OBVIOUS
<1>3. i \in 0..Len(Append(list, x)) /\ j \in 0..Len(Append(list, x))
  OBVIOUS
<1> QED
  BY <1>1, <1>2, <1>3 DEF Run

LEMMA DispatchInOrderRuns ==
  DispatchInOrder <=>
    \A d \in Dispatchers : todo[d] # None =>
      \E t \in HandlerTypes : Run(todo[d], handlersPtr[t])
BY DEF DispatchInOrder, Run

\* Registrations extend the list that a dispatcher works on, and its own steps
\* shorten what it has left.
LEMMA DispatchInOrderStep ==
  ASSUME RegistryInv, DispatchInOrder, [Next]_vars
  PROVE  DispatchInOrder'
<1>1. RegistryTypeOK
  BY DEF RegistryInv
<1>2. \A d \in Dispatchers : todo[d] # None =>
        \E t \in HandlerTypes : Run(todo[d], handlersPtr[t])
  BY DispatchInOrderRuns
<1>3. SUFFICES ASSUME NEW d \in Dispatchers, todo'[d] # None
               PROVE  \E t \in HandlerTypes : Run(todo'[d], handlersPtr'[t])
  BY DEF DispatchInOrder, Run
<1>4. \A t \in HandlerTypes : handlersPtr[t] \in Seq(Registrars)
  BY <1>1 DEF RegistryTypeOK, HandlerMap
<1>5. CASE UNCHANGED <<handlersPtr, todo>>
  BY <1>2, <1>3, <1>5
<1>6. ASSUME NEW r \in Registrars, Swap(r)
      PROVE  \E t \in HandlerTypes : Run(todo'[d], handlersPtr'[t])
  <2>1. PICK t \in HandlerTypes : Run(todo[d], handlersPtr[t])
    BY <1>2, <1>3, <1>6 DEF Swap
  <2>2. PICK list \in Seq(Registrars) : list = handlersPtr[t]
    BY <1>4
  <2>3. handlersPtr'[t] \in {list, Append(list, r)}
    BY <1>1, <1>6, <2>2 DEF Swap, NewMap, RegistryTypeOK, HandlerMap
  <2>4. PICK s : s = todo[d]
    OBVIOUS
  <2>5. Run(s, list) /\ Run(s, Append(list, r))
    BY <2>1, <2>2, <2>4, RunAppend
  <2>6. todo'[d] = s
    BY <1>6, <2>4 DEF Swap
  <2> QED BY <2>3, <2>5, <2>6
<1>7. ASSUME NEW e \in Dispatchers, NEW t \in HandlerTypes, DispatchLoad(e, t)
      PROVE  \E u \in HandlerTypes : Run(todo'[d], handlersPtr'[u])
  <2>1. CASE e = d
    <3>1. PICK list \in Seq(Registrars) : list = handlersPtr[t]
      BY <1>4
    <3>2. todo'[d] = list /\ handlersPtr'[t] = list
      BY <1>1, <1>7, <2>1, <3>1 DEF DispatchLoad, RegistryTypeOK
    <3> QED BY <3>2, RunWhole
  <2>2. CASE e # d
    BY <1>1, <1>2, <1>3, <1>7, <2>2 DEF DispatchLoad, RegistryTypeOK
  <2> QED BY <2>1, <2>2
<1>8. ASSUME NEW e \in Dispatchers, CallHandler(e) \/ DispatchReturn(e)
      PROVE  \E u \in HandlerTypes : Run(todo'[d], handlersPtr'[u])
  <2>1. CASE e = d
    <3>1. todo[d] # None /\ todo[d] # <<>> /\ todo'[d] = Tail(todo[d])
      BY <1>1, <1>3, <1>8, <2>1 DEF CallHandler, DispatchReturn, RegistryTypeOK
    <3>2. PICK s : s = todo[d]
      OBVIOUS
    <3>3. PICK t \in HandlerTypes : Run(s, handlersPtr[t])
      BY <1>2, <3>1, <3>2
    <3>4. PICK list \in Seq(Registrars) : list = handlersPtr[t]
      BY <1>4
    <3>5. Run(Tail(s), list)
      BY <3>1, <3>2, <3>3, <3>4, RunTail
    <3> QED BY <1>8, <3>1, <3>2, <3>4, <3>5 DEF CallHandler, DispatchReturn
  <2>2. CASE e # d
    BY <1>1, <1>2, <1>3, <1>8, <2>2 DEF CallHandler, DispatchReturn, RegistryTypeOK
  <2> QED BY <2>1, <2>2
<1> QED
  BY <1>5, <1>6, <1>7, <1>8 DEF Next, Step, Dispatch, Load, Retry, vars

\* Whatever registrations run meanwhile, dispatchSync calls registered handlers
\* in the order of their registration, for any number of dispatchers.
THEOREM DispatchesInOrder == Spec => []DispatchInOrder
<1>1. Init => DispatchInOrder
  BY DEF Init, DispatchInOrder
<1> QED
  BY RegistryInvInit, RegistryInvStep, DispatchInOrderStep, <1>1, PTL DEF Spec
=============================================================================
