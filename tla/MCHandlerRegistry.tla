-------------------------- MODULE MCHandlerRegistry --------------------------
(***************************************************************************)
(* TLC instance of HandlerRegistry: three registrations for one event type *)
(* and one for another.                                                    *)
(***************************************************************************)
EXTENDS HandlerRegistry, TLC

CONSTANTS r1, r2, r3, r4

MCTypeOf == (r1 :> "payment.failed") @@ (r2 :> "payment.failed")
              @@ (r3 :> "payment.failed") @@ (r4 :> "trial.ended")
=============================================================================
