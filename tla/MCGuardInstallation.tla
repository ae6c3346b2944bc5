------------------------- MODULE MCGuardInstallation -------------------------
(* MCInstallation.cfg: two hosts, two sets of rules, two pages, and one     *)
(* command the browser refuses.  MCInstallationRollback.cfg: two hosts and  *)
(* no refusal.  Hosts, pages and rules are interchangeable: instead of a    *)
(* symmetry set, which liveness forbids, they come in one order.            *)
EXTENDS GuardInstallation

NextInstall(i, p) ==
  /\ \A j \in 1..i - 1 : call[j] # "new"
  /\ i = 1 => p \in {1, NoRules}
  /\ Install(i, p)

NextPage(p) == 1..p - 1 \subseteq open \cup gone /\ PageOpens(p)

MCNext ==
  \/ \E i \in Installs :
       \/ \E p \in Rules \cup {NoRules} : NextInstall(i, p)
       \/ BrowserAnswers(i) \/ GuardMoves(i)
       \/ \E p \in Pages : Navigates(i, p)
  \/ \E p \in Pages : NextPage(p) \/ PageCloses(p)
  \/ ContextCloses

MCInit == Init /\ \A p \in open : 1..p - 1 \subseteq open
MCSpec == MCInit /\ [][MCNext]_vars
MCFairSpec == MCSpec /\ Fairness
=============================================================================
