-------------------------- MODULE MCCampaignWindow --------------------------
(* Instances of CampaignWindow for TLC. *)
EXTENDS CampaignWindow

\* Every profile.
MCProfiles == ProfileType

\* Up to two kinds of fault in one window, each striking any number of times.
MCScenarios == {S \in SUBSET FaultKinds : Cardinality(S) <= 2}

\* The profiles whose target is not restarted by a permanent step.
MCSteadyProfiles == {p \in ProfileType : ~p.restart}

\* What the promise to the owner stands, two kinds of fault at a time.
MCGuardScenarios == {S \in MCScenarios : Guardable(S)}

\* One fault, for the runs that refute a document.
MCCrash      == {{}, {"crash"}}
MCStart      == {{}, {"start"}}
MCStopSignal == {{}, {"stopsignal"}}
=============================================================================
