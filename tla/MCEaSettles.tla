----------------------------- MODULE MCEaSettles -----------------------------
(***************************************************************************)
(* What the email agent's timers must bring about: emails leave the state  *)
(* sending, and the mailbox is read. The send path and the poll have no    *)
(* rows in common here: the initial state chooses one, the other rests.    *)
(***************************************************************************)
EXTENDS EaSendPath, EaPoll, TLC

CONSTANTS e1, a1, t1, f1, f2, u1, one, two

VARIABLE part
settleVars == <<part, vars, pollVars>>

SettlesInit == part \in {"send", "poll"} /\ Init /\ PollInit

InSend(A) == part = "send" /\ A /\ UNCHANGED <<part, pollVars>>

\* No mail is deleted here, and history does not expire.
InPoll(A) == part = "poll" /\ A /\ UNCHANGED <<part, vars, horizon, deleted>>

SettlesNext == InSend(Next) \/ InPoll(PollNext)

\* The fairness of EaSendPath and EaPoll.
SettlesSpec ==
  /\ SettlesInit /\ [][SettlesNext]_settleVars
  /\ \A e \in Emails : /\ WF_settleVars(InSend(GrowOld(e)))
                       /\ SF_settleVars(InSend(\E w \in Workers : Sweep(w, e)))
  /\ \A w \in Workers : WF_settleVars(InSend(Progress(w))) /\ SF_settleVars(InSend(RecordSent(w)))
  /\ WF_settleVars(InPoll(PollsSettle)) /\ WF_settleVars(InPoll(LeaseLapses))
  /\ WF_settleVars(InPoll(\E p \in Pollers : TakeLease(p)))
  /\ \A p \in Pollers : WF_settleVars(InPoll(PollProgress(p)))

MCProspectOf == [e \in Emails |-> NoProspect]
MCProspectAddress == [p \in Prospects |-> a1]
=============================================================================
