----------------------------- MODULE MCEventBus -----------------------------
(* Instances of EventBus for TLC: each listener is its own receiver.        *)
EXTENDS EventBus, TLC

MCReceiverOf == [g \in Listeners |-> g]
=============================================================================
