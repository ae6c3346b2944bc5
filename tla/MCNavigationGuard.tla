--------------------------- MODULE MCNavigationGuard ---------------------------
(* MCNavigation.cfg: two overlapping calls, a popup and four requests, the  *)
(* browser attaching every page.  MCNavigationWatch.cfg: the browser may    *)
(* refuse to attach.  Hosts are h and its subdomain h.h: the policies deny   *)
(* the subdomains of h, allow nothing but them, or deny both hosts.         *)
EXTENDS NavigationGuard, ToolRegistry

Https(host, any) ==
  [protocol |-> "https", hostname |-> host, port |-> 443, wildcard |-> any]

SmallPolicies ==
  {[allow |-> {}, deny |-> {Https(<<"h">>, TRUE)}],
   [allow |-> {Https(<<"h">>, TRUE)}, deny |-> {}],
   [allow |-> {Https(<<"h">>, FALSE)}, deny |-> {Https(<<"h">>, FALSE)}]}

MCInit == policy \in SmallPolicies /\ GuardInit
MCGuardSpec == MCInit /\ [][GuardNext]_vars
MCFairGuardSpec == MCGuardSpec /\ GuardFairness

(* The gate against the sentences of README.md, for every policy without    *)
(* domain rules, category and answer.                                       *)
GatePolicies ==
  [mode : {"read-write", "read-only"}, actions : [Categories -> {"unset"}] \cup
     {[c \in Categories |-> IF c = k THEN d ELSE "unset"] : k \in Categories, d \in Decisions},
   ruled : {FALSE}, domains : {[allow |-> {}, deny |-> {}]}, approver : BOOLEAN]

ReadmeGate(p, k, answer) ==
  LET asked == p.actions[k] = "ask" \/ (p.actions[k] = "unset" /\ p.approver /\ k # "navigation")
  IN  /\ p.mode = "read-only" => k = "navigation"
      /\ p.actions[k] # "deny"
      /\ asked => p.approver /\ answer = "approved"

ASSUME GateFollowsReadme ==
  \A p \in GatePolicies, k \in Categories, answer \in Answers :
    Passes(p, [class |-> k, goto |-> FALSE, requested |-> NoAddress], answer)
      <=> ReadmeGate(p, k, answer)

(* The three tables of tools agree: PageProofs says what this means.      *)
ASSUME TablesAgree ==
  \A tool \in Tools :
    /\ PolicyClass(tool) \in Categories => tool \in TracedAsWrite
    /\ Trusted(tool) => PolicyClass(tool) = "read"
=============================================================================
