-------------------------- MODULE EaApprovalTickets --------------------------
(***************************************************************************)
(* What the send path promises a reviewer. An approval is a ticket for one *)
(* message with fixed terms. While it is open it can be withdrawn; claimed *)
(* once, it is spent for good; a spent ticket hands at most one message,   *)
(* on its own terms, to the provider.                                      *)
(***************************************************************************)
EXTENDS Sequences

CONSTANTS
  Emails,
  Nos,      \* the numbers of an email's approvals
  Terms,    \* what an approval can pin
  NoTerms

VARIABLES
  ticket,   \* ticket[e][n]: the state of the n-th approval of e
  terms,    \* terms[e][n]: what it pins
  out       \* out[e][n]: the messages handed to the provider on it

vars == <<ticket, terms, out>>

TicketStates == {"none", "open", "void", "spent", "used"}

Init ==
  /\ ticket = [e \in Emails |-> [n \in Nos |-> "none"]]
  /\ terms = [e \in Emails |-> [n \in Nos |-> NoTerms]]
  /\ out = [e \in Emails |-> [n \in Nos |-> <<>>]]

\* A reviewer approves e; no earlier approval of e is open.
Grant(e, n, h) ==
  /\ ticket[e][n] = "none"
  /\ \A m \in Nos : ticket[e][m] # "open"
  /\ ticket' = [ticket EXCEPT ![e][n] = "open"]
  /\ terms' = [terms EXCEPT ![e][n] = h]
  /\ UNCHANGED out

\* Edits, opt-outs, replies and cancellations void open tickets, of one email
\* or of several at once.
Withdraw(S) ==
  /\ \A s \in S : ticket[s[1]][s[2]] = "open"
  /\ ticket' = [e \in Emails |-> [n \in Nos |->
                  IF <<e, n>> \in S THEN "void" ELSE ticket[e][n]]]
  /\ UNCHANGED <<terms, out>>

Claim(e, n) ==
  /\ ticket[e][n] = "open"
  /\ ticket' = [ticket EXCEPT ![e][n] = "spent"]
  /\ UNCHANGED <<terms, out>>

HandOver(e, n) ==
  /\ ticket[e][n] = "spent"
  /\ ticket' = [ticket EXCEPT ![e][n] = "used"]
  /\ out' = [out EXCEPT ![e][n] = Append(@, terms[e][n])]
  /\ UNCHANGED terms

Next ==
  \/ \E e \in Emails, n \in Nos :
       \/ \E h \in Terms : Grant(e, n, h)
       \/ Claim(e, n) \/ HandOver(e, n)
  \/ \E S \in SUBSET (Emails \X Nos) : Withdraw(S)

Spec == Init /\ [][Next]_vars
=============================================================================
