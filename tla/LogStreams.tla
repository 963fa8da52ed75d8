----------------------------- MODULE LogStreams -----------------------------
(***************************************************************************)
(* The two kinds of streams that share the hub: build logs and domain      *)
(* verifications.                                                          *)
(***************************************************************************)
EXTENDS BuildLogs, DomainVerification

\* Deployment ids, "domain:<id>" topics and the clients of either are told apart.
ASSUME StreamsAssumption ==
    /\ Deployments \intersect Domains = {} /\ Pages \intersect Tails = {}
    /\ {None, Nobody} \intersect Topics = {}

vars == <<hubVars, logVars, domainVars>>

Init == HubInit /\ LogInit /\ DomainInit

\* Bound: a behaviour has builds or verifications.
Building == \E d \in Deployments : phase[d] # "untriggered"

BuildStep == LogNext /\ UNCHANGED domainVars
DomainStep(A) == ~Building /\ A /\ UNCHANGED logVars

Next == BuildStep \/ DomainStep(DomainNext)

(* The goroutine and the handlers run on; a page takes what arrives, its   *)
(* requests are answered and its timer fires.  Nothing obliges a user.     *)
Fairness ==
    /\ WF_vars(DomainStep(Verification))
    /\ \A p \in Visits :
         /\ WF_vars(DomainStep(ServeVerify(p)))
         /\ WF_vars(DomainStep(ReplyArrives(p)))
         /\ WF_vars(DomainStep(Minimise(p)))
         /\ \A d \in Domains :
              /\ WF_vars(DomainStep(HearEvent(p, d)))
              /\ WF_vars(DomainStep(Subscribe(d, p) /\ UNCHANGED domainVars))
              /\ WF_vars(DomainStep(Unsubscribe(d, p) /\ UNCHANGED domainVars))

Spec == Init /\ [][Next]_vars /\ Fairness

\* Every variable of the hub, the logs and the verifications has its type.
TypeOK == LogTypeOK /\ DomainTypeOK
=============================================================================
