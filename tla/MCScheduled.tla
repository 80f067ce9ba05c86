----------------------------- MODULE MCScheduled -----------------------------
(***************************************************************************)
(* What timers set off: the job queue of the email agent, its outreach     *)
(* sequence, and the tasks market with its hourly job. They are checked    *)
(* apart: the initial state chooses one of them, and the others rest.      *)
(***************************************************************************)
EXTENDS EaJobQueue, TaskMarket, EaOutreach, TLC

CONSTANTS one, two, lead1, job, ann, bob, offerA, offerB

VARIABLE part
allVars == <<part, vars, marketVars, outreachVars>>

OffersBy == (offerA :> ann @@ offerB :> bob)
OffersFor == [o \in {offerA, offerB} |-> job]

ScheduledInit ==
  /\ part \in {"jobs", "market", "outreach"}
  /\ Init /\ MarketInit /\ OutreachInit

\* A step of one part.
InJobs(A) == part = "jobs" /\ A /\ UNCHANGED <<part, marketVars, outreachVars>>
InMarket(A) == part = "market" /\ A /\ UNCHANGED <<part, vars, outreachVars>>
InOutreach(A) == part = "outreach" /\ A /\ UNCHANGED <<part, vars, marketVars>>

ScheduledNext == InJobs(Next) \/ InMarket(MarketNext) \/ InOutreach(OutreachNext)

\* The fairness of EaJobQueue and TaskMarket.
ScheduledSpec ==
  /\ ScheduledInit /\ [][ScheduledNext]_allVars
  /\ \A j \in Jobs : WF_allVars(InJobs(Ripen(j)))
  /\ \A w \in Workers :
       /\ WF_allVars(InJobs(ReadCandidates(w))) /\ WF_allVars(InJobs(Try(w)))
       /\ WF_allVars(InJobs(EndClaim(w))) /\ WF_allVars(InJobs(Finish(w)))
       /\ SF_allVars(InJobs(RunJob(w, "complete") \/ RunJob(w, "fail")))
  /\ WF_allVars(InMarket(FindDue)) /\ WF_allVars(InMarket(HandlerStep(hourly)))
  /\ \A t \in Tasks : WF_allVars(InMarket(GrowOld(t)))

\* The type invariants of the three parts.
ScheduledTypeOK == TypeOK /\ MarketTypeOK /\ OutreachTypeOK
=============================================================================
