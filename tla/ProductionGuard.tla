-------------------------- MODULE ProductionGuard --------------------------
(***************************************************************************)
(* What the campaign platform promises the owner of production: it only    *)
(* stops serving under a guard (something that is bound to restore it),    *)
(* and the guard is given up only when production serves again or the      *)
(* owner has been asked for help.                                          *)
(***************************************************************************)
VARIABLES serving,   \* production answers
          guarded,   \* somebody is bound to restore it
          told       \* a verdict asks for a human

vars == <<serving, guarded, told>>

Init == serving = TRUE /\ guarded = FALSE /\ told = FALSE

TakeGuard == ~guarded /\ guarded' /\ UNCHANGED <<serving, told>>

Outage == guarded /\ serving /\ ~serving' /\ UNCHANGED <<guarded, told>>

Recover == guarded /\ ~serving /\ serving' /\ UNCHANGED <<guarded, told>>

\* The guard is released with its purpose met or handed to the owner.
Release ==
  /\ guarded /\ ~guarded'
  /\ told' \in BOOLEAN /\ (told => told')
  /\ serving \/ told'
  /\ UNCHANGED serving

\* The owner may be told while another guard remains.
Tell == guarded /\ ~told /\ told' /\ UNCHANGED <<serving, guarded>>

Next == TakeGuard \/ Outage \/ Recover \/ Release \/ Tell

\* An outage does not last without anyone knowing.
OutageResolved == ~serving ~> (serving \/ told)

\* What may happen at all.
Safe == Init /\ [][Next]_vars

Spec == Safe /\ OutageResolved
=============================================================================
