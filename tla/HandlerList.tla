----------------------------- MODULE HandlerList -----------------------------
(***************************************************************************)
(* What OnWebhookEvent promises: a list of handlers per event type, to     *)
(* which every registration appends its handler once, in one step.         *)
(***************************************************************************)
EXTENDS Sequences

CONSTANTS
  Registrars,  \* calls of OnWebhookEvent, each with a handler of its own
  TypeOf       \* the event type each registers its handler for

VARIABLES
  handlers,   \* event type -> the handlers in registration order
  registered  \* the calls that have returned

HandlerTypes == {TypeOf[r] : r \in Registrars}

ListInit ==
  /\ handlers = [t \in HandlerTypes |-> <<>>]
  /\ registered = {}

Register(r) ==
  /\ r \notin registered
  /\ handlers' = [handlers EXCEPT ![TypeOf[r]] = Append(@, r)]
  /\ registered' = registered \cup {r}

ListNext == \E r \in Registrars : Register(r)

ListSpec == ListInit /\ [][ListNext]_<<handlers, registered>>
=============================================================================
