--------------------------- MODULE GuardInstallation ---------------------------
(***************************************************************************)
(* Installing the navigation guard on a browser context:                   *)
(* installNavigationPolicyGuard of src/tools/navigation-policy.ts, which   *)
(* every createBrowserTools awaits.  Several hosts may build tool sets on  *)
(* one context at once, pages open and close meanwhile, and an             *)
(* installation that fails is rolled back while its other parts are still  *)
(* under way.  NavigationGuard begins where this module ends: with one     *)
(* guard installed.                                                        *)
(*                                                                         *)
(* A guard is named by the install call that creates it.                   *)
(***************************************************************************)
EXTENDS Integers

CONSTANTS Installs,   \* calls of installNavigationPolicyGuard
          Rules,      \* fingerprints of the policies that have rules
          NoRules,    \* NO_DOMAIN_POLICY
          Pages,      \* every page there will ever be
          None,
          MaxRefusals \* bound: commands the browser refuses without a reason of ours

ASSUME NoRulesIsNoRule == NoRules \notin Rules
ASSUME NoneIsNothing == None \notin Installs \cup Rules \cup {NoRules}
ASSUME RefusalsAreNatural == MaxRefusals \in Nat

VARIABLES chromium,   \* whether the context's browser is Chromium
          registered, \* contextPolicies.get(context)
          guard,      \* guards.get(context): the call that made it, or None
          call,       \* install call -> how far it has come
          wants,      \* install call -> fingerprint of its policy
          on,         \* install call -> the guard it waits for or was given
          phase,      \* guard -> how far its `ready` has come
          route,      \* guard -> its route handler
          first,      \* guard -> pages whose attach its `ready` waits for
          watch,      \* guard -> page -> attachChromiumPage
          fetching,   \* guard -> pages the browser pauses requests of for it
          open,       \* pages that are open
          gone,       \* pages that have been closed
          closed,     \* the context is closed
          refusals    \* bound

hostVars == <<registered, guard, call, wants, on>>
browserVars == <<chromium, open, gone, closed>>
vars == <<hostVars, browserVars, phase, route, first, watch, fetching, refusals>>

Watch == {"none", "opening", "listed", "done"}

InstallTypeOK ==
  /\ chromium \in BOOLEAN /\ closed \in BOOLEAN
  /\ registered \in Rules \cup {NoRules, None}
  /\ guard \in Installs \cup {None}
  /\ call \in [Installs -> {"new", "waiting", "given", "noop", "thrown"}]
  /\ wants \in [Installs -> Rules \cup {NoRules, None}]
  /\ on \in [Installs -> Installs \cup {None}]
  /\ phase \in [Installs -> {"none", "starting", "ready", "unrouting", "detaching", "failed"}]
  /\ route \in [Installs -> {"off", "asked", "on"}]
  /\ first \in [Installs -> SUBSET Pages]
  /\ watch \in [Installs -> [Pages -> Watch]]
  /\ fetching \in [Installs -> SUBSET Pages]
  /\ open \subseteq Pages /\ gone \subseteq Pages /\ open \cap gone = {}
  /\ refusals \in 0..MaxRefusals

Init ==
  /\ chromium \in BOOLEAN
  /\ open \in SUBSET Pages /\ gone = {} /\ closed = FALSE
  /\ registered = None /\ guard = None
  /\ call = [i \in Installs |-> "new"]
  /\ wants = [i \in Installs |-> None]
  /\ on = [i \in Installs |-> None]
  /\ phase = [g \in Installs |-> "none"]
  /\ route = [g \in Installs |-> "off"]
  /\ first = [g \in Installs |-> {}]
  /\ watch = [g \in Installs |-> [p \in Pages |-> "none"]]
  /\ fetching = [g \in Installs |-> {}]
  /\ refusals = 0

-----------------------------------------------------------------------------
(* attachChromiumPage does nothing on a closed page, in a guard that its    *)
(* context's closing has closed, or when the page is listed; a second       *)
(* caller joins the attach under way.                                       *)
Attach(g, pages) ==
  watch' = [watch EXCEPT ![g] = [p \in Pages |->
              IF p \in pages \cap open /\ @[p] = "none" THEN "opening" ELSE @[p]]]

(* The part of an install call before its first await.                      *)
Answer(i, how) == call' = [call EXCEPT ![i] = how]

(* Faulty: the guard is handed out before it is ready.                      *)
SharesAtOnce(i) ==
  /\ guard # None
  /\ Answer(i, "given") /\ on' = [on EXCEPT ![i] = guard]
  /\ UNCHANGED <<registered, guard, phase, route, first, watch>>

Shares(i) ==
  /\ guard # None
  /\ IF phase[guard] = "ready" THEN Answer(i, "given") ELSE Answer(i, "waiting")
  /\ on' = [on EXCEPT ![i] = guard]
  /\ UNCHANGED <<registered, guard, phase, route, first, watch>>

Begins(i, p) ==
  /\ registered' = p /\ guard' = i
  /\ phase' = [phase EXCEPT ![i] = "starting"]
  /\ route' = [route EXCEPT ![i] = "asked"]
  /\ first' = [first EXCEPT ![i] = open]
  /\ Attach(i, open)
  /\ Answer(i, "waiting") /\ on' = [on EXCEPT ![i] = i]

Declines(i, how) ==
  /\ Answer(i, how)
  /\ UNCHANGED <<guard, on, phase, route, first, watch>>

Mixes(p) == registered # None /\ registered # p

Install(i, p) ==
  /\ call[i] = "new" /\ ~closed
  /\ wants' = [wants EXCEPT ![i] = p]
  /\ \/ Mixes(p) /\ Declines(i, "thrown") /\ UNCHANGED registered
     \/ ~Mixes(p) /\ Shares(i)
     \/ ~Mixes(p) /\ guard = None /\ p = NoRules /\ Declines(i, "noop") /\ registered' = NoRules
     \/ ~Mixes(p) /\ guard = None /\ p # NoRules /\ ~chromium
          /\ Declines(i, "thrown") /\ UNCHANGED registered
     \/ ~Mixes(p) /\ guard = None /\ p # NoRules /\ chromium /\ Begins(i, p)
  /\ UNCHANGED <<browserVars, fetching, refusals>>

-----------------------------------------------------------------------------
(* The route and the attaches that `ready` waits for.  The browser answers, *)
(* fails because page or context is gone, or refuses.                       *)
Refuses(excused) == IF excused THEN UNCHANGED refusals
                    ELSE refusals < MaxRefusals /\ refusals' = refusals + 1

(* The first failure rejects `ready` and runs its catch up to its await.    *)
RollsBack(g) ==
  /\ phase[g] = "starting"
  /\ phase' = [phase EXCEPT ![g] = "unrouting"]
  /\ guard' = None /\ registered' = None

(* A failure nobody waits for: in the page listener, after a rollback, or a *)
(* navigation whose request is dropped.                                     *)
Swallowed(g) == UNCHANGED <<phase, guard, registered>>

RouteAnswered(g) ==
  /\ route[g] = "asked"
  /\ \/ ~closed /\ route' = [route EXCEPT ![g] = "on"]
        /\ Swallowed(g) /\ UNCHANGED refusals
     \/ /\ route' = [route EXCEPT ![g] = "off"]
        /\ Refuses(closed)
        /\ IF phase[g] = "starting" THEN RollsBack(g) ELSE Swallowed(g)
  /\ UNCHANGED <<browserVars, call, wants, on, first, watch, fetching>>

AttachLists(g, p) ==
  /\ watch[g][p] = "opening" /\ p \in open
  /\ watch' = [watch EXCEPT ![g][p] = "listed"]
  /\ UNCHANGED <<hostVars, browserVars, phase, route, first, fetching, refusals>>

AttachEnds(g, p) ==
  /\ watch[g][p] = "listed" /\ p \in open
  /\ watch' = [watch EXCEPT ![g][p] = "done"]
  /\ fetching' = [fetching EXCEPT ![g] = @ \cup {p}]
  /\ UNCHANGED <<hostVars, browserVars, phase, route, first, refusals>>

(* A page that was listed stays listed when Fetch.enable is refused.        *)
AttachFails(g, p) ==
  /\ watch[g][p] \in {"opening", "listed"}
  /\ Refuses(p \notin open)
  /\ watch' = [watch EXCEPT ![g][p] =
                 IF @ = "listed" /\ p \in open THEN "done" ELSE "none"]
  /\ IF phase[g] = "starting" /\ p \in first[g] THEN RollsBack(g) ELSE Swallowed(g)
  /\ UNCHANGED <<browserVars, call, wants, on, route, first, fetching>>

(* Everybody who waits for `ready` is told at once.                         *)
Tell(g, how) ==
  call' = [i \in Installs |-> IF call[i] = "waiting" /\ on[i] = g THEN how ELSE call[i]]

Ready(g) ==
  /\ phase[g] = "starting" /\ route[g] = "on"
  /\ \A p \in first[g] : watch[g][p] \notin {"opening", "listed"}
  /\ phase' = [phase EXCEPT ![g] = "ready"]
  /\ Tell(g, "given")
  /\ UNCHANGED <<browserVars, registered, guard, wants, on, route, first, watch, fetching, refusals>>

-----------------------------------------------------------------------------
(* Rollback: unroute is awaited, then the pages listed by now are detached, *)
(* then the list is cleared and `ready` rejects.                            *)
Unroute(g) ==
  /\ phase[g] = "unrouting"
  /\ phase' = [phase EXCEPT ![g] = "detaching"]
  /\ route' = [route EXCEPT ![g] = "off"]
  /\ first' = [first EXCEPT ![g] = {p \in Pages : watch[g][p] \in {"listed", "done"}}]
  /\ UNCHANGED <<hostVars, browserVars, watch, fetching, refusals>>

(* Faulty: the rollback tells only the host that began the installation.    *)
DetachTellsOne(g) ==
  /\ phase[g] = "detaching"
  /\ phase' = [phase EXCEPT ![g] = "failed"]
  /\ fetching' = [fetching EXCEPT ![g] = @ \ first[g]]
  /\ watch' = [watch EXCEPT ![g] = [p \in Pages |-> IF p \in first[g] THEN "none" ELSE @[p]]]
  /\ call' = [call EXCEPT ![g] = "thrown"]
  /\ UNCHANGED <<browserVars, registered, guard, wants, on, route, first, refusals>>

Detach(g) ==
  /\ phase[g] = "detaching"
  /\ phase' = [phase EXCEPT ![g] = "failed"]
  /\ fetching' = [fetching EXCEPT ![g] = @ \ first[g]]
  /\ watch' = [watch EXCEPT ![g] = [p \in Pages |-> IF p \in first[g] THEN "none" ELSE @[p]]]
  /\ Tell(g, "thrown")
  /\ UNCHANGED <<browserVars, registered, guard, wants, on, route, first, refusals>>

-----------------------------------------------------------------------------
(* Pages come and go; a navigation that the handler lets pass attaches its  *)
(* page first.                                                              *)
Listening(g) == phase[g] \in {"starting", "ready"}

PageOpens(p) ==
  /\ ~closed /\ p \notin open \cup gone
  /\ open' = open \cup {p}
  /\ watch' = [g \in Installs |->
                 [watch[g] EXCEPT ![p] = IF Listening(g) THEN "opening" ELSE @]]
  /\ UNCHANGED <<chromium, gone, closed, hostVars, phase, route, first, fetching, refusals>>

Navigates(g, p) ==
  /\ route[g] = "on" /\ p \in open /\ watch[g][p] = "none"
  /\ Attach(g, {p})
  /\ UNCHANGED <<hostVars, browserVars, phase, route, first, fetching, refusals>>

Lose(pages) ==
  /\ open' = open \ pages /\ gone' = gone \cup pages
  /\ watch' = [g \in Installs |-> [p \in Pages |->
                 IF p \in pages /\ watch[g][p] = "done" THEN "none" ELSE watch[g][p]]]
  /\ fetching' = [g \in Installs |-> fetching[g] \ pages]

PageCloses(p) ==
  /\ p \in open
  /\ Lose({p})
  /\ UNCHANGED <<chromium, closed, hostVars, phase, route, first, refusals>>

(* onClose, or the close listener of a context without rules.               *)
ContextCloses ==
  /\ ~closed /\ closed' = TRUE
  /\ Lose(open)
  /\ guard' = None /\ registered' = None
  /\ UNCHANGED <<chromium, call, wants, on, phase, route, first, refusals>>

BrowserAnswers(g) ==
  RouteAnswered(g) \/ \E p \in Pages : AttachLists(g, p) \/ AttachEnds(g, p) \/ AttachFails(g, p)

GuardMoves(g) == Ready(g) \/ Unroute(g) \/ Detach(g)

Next ==
  \/ \E i \in Installs :
       \/ \E p \in Rules \cup {NoRules} : Install(i, p)
       \/ BrowserAnswers(i) \/ GuardMoves(i)
       \/ \E p \in Pages : Navigates(i, p)
  \/ \E p \in Pages : PageOpens(p) \/ PageCloses(p)
  \/ ContextCloses

Spec == Init /\ [][Next]_vars

(* The browser answers every command it is sent, and promises settle.       *)
Fairness ==
  \A g \in Installs :
    /\ WF_vars(RouteAnswered(g)) /\ WF_vars(GuardMoves(g))
    /\ \A p \in Pages :
         WF_vars(AttachLists(g, p) \/ AttachEnds(g, p) \/ AttachFails(g, p))

FairSpec == Spec /\ Fairness

-----------------------------------------------------------------------------
(* A tool set is handed out only when the rules it was asked for are those  *)
(* registered for the context and, if there are any, the guard is in force: *)
(* its route handler is on, and each page that was open when it was begun,  *)
(* and still is, has its session pausing requests, save where the browser   *)
(* refused one later.                                                       *)
InUse(i) == call[i] \in {"given", "noop"} /\ ~closed

InForce(g) ==
  /\ g = guard /\ phase[g] = "ready" /\ route[g] = "on"
  /\ first[g] \cap open \subseteq fetching[g]

HandedOutIsInForce ==
  \A i \in Installs : InUse(i) =>
    /\ registered = wants[i]
    /\ wants[i] # NoRules => InForce(on[i]) /\ wants[on[i]] = wants[i]

(* README.md on domain rules: "Tool sets that share a context must use the  *)
(* same rules, or must all omit rules; mixing policies fails setup."  Two   *)
(* hosts that both got their tool set while the context is open asked for   *)
(* the same rules, however their calls and a rollback overlapped.           *)
SharersAgree == \A i, j \in Installs : InUse(i) /\ InUse(j) => wants[i] = wants[j]

(* Setup ends: every host gets its tool set or an error, also the one that  *)
(* waits for an installation begun by another, when pages close or the      *)
(* rollback runs.                                                           *)
SetupEnds == \A i \in Installs : call[i] = "waiting" ~> call[i] # "waiting"

(* The same sentence for what is enforced: no session pauses requests under *)
(* rules other than those of a tool set in use.                             *)
OneRuleSet ==
  \A i, g \in Installs : InUse(i) /\ fetching[g] # {} => wants[g] = wants[i]
=============================================================================
