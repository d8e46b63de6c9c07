---------------------------- MODULE OrderContract ----------------------------
(***************************************************************************)
(* What the gateway promises about one signal, whatever fails underneath:  *)
(* it is accepted or refused once, an accepted signal is recorded in the   *)
(* trades table before an order may go out, at most one order goes out,    *)
(* none does for a refused or closed signal, and a signal is reported as   *)
(* placed only when its order exists.  SignalPipeline implements it.       *)
(***************************************************************************)
EXTENDS Naturals

CONSTANT Signals

VARIABLES
    stage,   \* how far a signal has come
    placed   \* orders that went out for it

contractVars == <<stage, placed>>

Stages == {"pending", "refused", "accepted", "recorded", "rejected", "placed"}

Init ==
    /\ stage = [s \in Signals |-> "pending"]
    /\ placed = [s \in Signals |-> 0]

Move(s, from, to) ==
    /\ stage[s] = from
    /\ stage' = [stage EXCEPT ![s] = to]
    /\ UNCHANGED placed

Accept(s) == Move(s, "pending", "accepted")
Decline(s) == Move(s, "pending", "refused")
Record(s) == Move(s, "accepted", "recorded")
Reject(s) == Move(s, "accepted", "rejected") \/ Move(s, "recorded", "rejected")
Fulfil(s) == placed[s] = 1 /\ Move(s, "recorded", "placed")

Order(s) ==
    /\ stage[s] = "recorded"
    /\ placed[s] = 0
    /\ placed' = [placed EXCEPT ![s] = 1]
    /\ UNCHANGED stage

Next == \E s \in Signals : \/ Accept(s) \/ Decline(s) \/ Record(s) \/ Reject(s)
                           \/ Fulfil(s) \/ Order(s)

Spec == Init /\ [][Next]_contractVars
=============================================================================
