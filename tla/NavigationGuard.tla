---------------------------- MODULE NavigationGuard ----------------------------
(***************************************************************************)
(* The guard that a domain policy puts on a browser context, once it is    *)
(* installed: src/tools/navigation-policy.ts, with the checkpoints that    *)
(* context.record of src/create-tools.ts takes around every call.          *)
(*                                                                         *)
(* The first request of a navigation passes the context's route handler,   *)
(* which knows the page except for the first document of a popup.  Later   *)
(* hops of a redirect are seen only by a Fetch session attached to the     *)
(* page; attaching takes several round trips.  Both ask SafetyPolicy about  *)
(* the destination.                                                        *)
(***************************************************************************)
EXTENDS SafetyPolicy

CONSTANTS Calls,      \* tool calls
          Pages,      \* every page there will ever be
          FirstPage,  \* the page that is open when the guard is installed
          CdpFails,   \* whether the browser may refuse to attach a session
          None,
          MaxHops,    \* bound: requests made by all navigations
          MaxLabels   \* bound: labels in the host of a destination

ASSUME FirstPageIsAPage == FirstPage \in Pages
ASSUME CdpFailsIsBoolean == CdpFails \in BOOLEAN
ASSUME HopsAreBounded == MaxHops \in Nat
ASSUME LabelsAreBounded == MaxLabels \in Nat
ASSUME NoneIsNoPage == None \notin Pages

VARIABLES policy,    \* the compiled domain policy, the same for ever
          open,      \* the open pages
          openers,   \* page -> the page that opened it, or None
          watch,     \* page -> state of its Fetch session in the guard
          fetching,  \* pages on which the browser pauses requests
          nav,       \* page -> its navigation under way, or None
          loaded,    \* page -> the destination of its document
          telling,   \* openers of blocked pages that the guard is asking for
          check,     \* call -> its checkpoint, or None
          verdict,   \* call -> "none", "ok" or "denied"
          closed,    \* the context is closed
          hops,      \* bound
          due        \* history: calls on whose page a navigation was blocked

browserVars == <<policy, open, openers, nav, loaded, closed, hops>>
guardVars == <<watch, fetching>>
callVars == <<check, verdict, telling, due>>
vars == <<browserVars, guardVars, callVars>>

Destinations ==
  [scheme : {"https"}, host : UNION {[1..n -> Labels \ {""}] : n \in 1..MaxLabels}, port : {0}]
Violations == {"page", "popup", "opener"}   \* what a call is denied for
Checkpoint == [page : Pages, violation : Violations \cup {None}]
NavStates == [at : {"waiting", "going"}, to : Destinations]

ASSUME NoneIsNothing ==
  None \notin Violations /\ None \notin Checkpoint /\ None \notin NavStates

GuardTypeOK ==
  /\ policy \in DomainPolicies
  /\ open \subseteq Pages
  /\ openers \in [Pages -> Pages \cup {None}]
  /\ watch \in [Pages -> {"none", "attaching", "listed", "done"}]
  /\ fetching \subseteq Pages
  /\ nav \in [Pages -> NavStates \cup {None}]
  /\ \A p \in Pages : nav[p] # None /\ nav[p].at = "waiting" =>
       watch[p] \in {"attaching", "listed"}
  /\ loaded \in [Pages -> Destinations \cup {None}]
  /\ telling \subseteq Pages
  /\ check \in [Calls -> Checkpoint \cup {None}]
  /\ verdict \in [Calls -> {"none", "ok", "denied"}]
  /\ closed \in BOOLEAN
  /\ hops \in 0..MaxHops
  /\ due \subseteq Calls

(* installNavigationPolicyGuard has returned: the pages there were are      *)
(* attached.                                                                *)
GuardInit ==
  /\ policy \in DomainPolicies /\ policy.allow \cup policy.deny # {}
  /\ open = {FirstPage}
  /\ openers = [p \in Pages |-> None]
  /\ watch = [p \in Pages |-> IF p = FirstPage THEN "done" ELSE "none"]
  /\ fetching = {FirstPage}
  /\ nav = [p \in Pages |-> None]
  /\ loaded = [p \in Pages |-> None]
  /\ telling = {}
  /\ check = [c \in Calls |-> None]
  /\ verdict = [c \in Calls |-> "none"]
  /\ hops = 0 /\ closed = FALSE
  /\ due = {}

-----------------------------------------------------------------------------
(* Checkpoints.  The first violation of a call is the one it reports, and   *)
(* the call throws it whatever the tool itself did.                         *)
Pending(c) == check[c] # None /\ verdict[c] = "none"
PendingOn(p) == {c \in Calls : Pending(c) /\ check[c].page = p}

CheckpointBegins(c, p) ==
  /\ check[c] = None
  /\ p \in open
  /\ check' = [check EXCEPT ![c] = [page |-> p, violation |-> None]]
  /\ UNCHANGED <<browserVars, guardVars, verdict, telling, due>>

SettleViolation(c) ==
  /\ Pending(c)
  /\ verdict' = [verdict EXCEPT ![c] = IF check[c].violation = None THEN "ok" ELSE "denied"]
  /\ UNCHANGED <<browserVars, guardVars, check, telling, due>>

(* Faulty: one checkpoint of several on a page is told.                     *)
AssignedToOne(calls, via) ==
  [c \in Calls |-> IF calls # {} /\ c = CHOOSE x \in calls : TRUE
                   THEN [check[c] EXCEPT !.violation = via] ELSE check[c]]

Assigned(calls, via) ==
  [c \in Calls |-> IF c \in calls /\ check[c].violation = None
                   THEN [check[c] EXCEPT !.violation = via] ELSE check[c]]

(* recordViolation: the calls on the page at once, those on its opener when *)
(* the browser has said which page that is.                                 *)
RecordViolation(p) ==
  /\ check' = Assigned(PendingOn(p), "page")
  /\ due' = due \cup PendingOn(p)
  /\ telling' = telling \cup ({openers[p]} \ {None})
  /\ UNCHANGED verdict

RecordUnattributedViolation ==
  LET pending == {c \in Calls : Pending(c)}
  IN  /\ check' = Assigned(pending, "popup")
      /\ due' = due \cup pending
      /\ UNCHANGED <<telling, verdict>>

TellOpener(p) ==
  /\ p \in telling
  /\ telling' = telling \ {p}
  /\ check' = IF p \in open THEN Assigned(PendingOn(p), "opener") ELSE check
  /\ UNCHANGED <<browserVars, guardVars, verdict, due>>

-----------------------------------------------------------------------------
(* attachChromiumPage: session and frame tree are fetched, then the page is *)
(* listed and Fetch.enable is sent in one turn, then its answer comes.      *)
Attaching(p) == [watch EXCEPT ![p] = IF @ = "none" THEN "attaching" ELSE @]

AttachLists(p) ==
  /\ watch[p] = "attaching" /\ p \in open
  /\ watch' = [watch EXCEPT ![p] = "listed"]
  /\ \/ fetching' = fetching \cup {p}
     \/ CdpFails /\ UNCHANGED fetching
  /\ UNCHANGED <<browserVars, callVars>>

Waits(p) == nav[p] # None /\ nav[p].at = "waiting"

(* Faulty: a handler that waited is not resumed.                            *)
AttachEndsSilently(p) ==
  /\ watch[p] = "listed"
  /\ watch' = [watch EXCEPT ![p] = "done"]
  /\ UNCHANGED <<browserVars, fetching, callVars>>

(* A handler that waited goes on, or throws and the request is dropped.     *)
AttachEnds(p) ==
  /\ watch[p] = "listed"
  /\ watch' = [watch EXCEPT ![p] = "done"]
  /\ nav' = IF ~Waits(p) THEN nav
            ELSE [nav EXCEPT ![p] = IF p \in fetching THEN [@ EXCEPT !.at = "going"] ELSE None]
  /\ UNCHANGED <<policy, open, openers, loaded, closed, hops, fetching, callVars>>

AttachFails(p) ==
  /\ watch[p] = "attaching"
  /\ CdpFails \/ p \notin open
  /\ watch' = [watch EXCEPT ![p] = "none"]
  /\ nav' = [nav EXCEPT ![p] = None]
  /\ UNCHANGED <<policy, open, openers, loaded, closed, hops, fetching, callVars>>

-----------------------------------------------------------------------------
(* A navigation: by a tool, a click or a script.                            *)
Denies(p) ==
  /\ RecordViolation(p)
  /\ nav' = [nav EXCEPT ![p] = None]
  /\ UNCHANGED guardVars

(* Faulty: the handler does not wait for the page to be attached.           *)
PassesAtOnce(p, to) ==
  /\ nav' = [nav EXCEPT ![p] = [to |-> to, at |-> "going"]]
  /\ watch' = Attaching(p)
  /\ UNCHANGED <<fetching, callVars>>

(* The handler lets an allowed request pass when the page is attached.      *)
LetsPass(p, to) ==
  /\ nav' = [nav EXCEPT ![p] =
               [to |-> to,
                at |-> IF watch[p] \in {"listed", "done"} THEN "going" ELSE "waiting"]]
  /\ watch' = Attaching(p)
  /\ UNCHANGED <<fetching, callVars>>

Request == hops < MaxHops /\ hops' = hops + 1

Navigate(p) ==
  /\ p \in open /\ nav[p] = None
  /\ Request
  /\ \E to \in Destinations :
       IF DomainAllowed(policy, to) THEN LetsPass(p, to) ELSE Denies(p)
  /\ UNCHANGED <<policy, open, openers, loaded, closed>>

(* The server redirects: only the Fetch session of the page sees it.        *)
Redirect(p) ==
  /\ nav[p] # None /\ nav[p].at = "going"
  /\ Request
  /\ \E to \in Destinations :
       IF p \in fetching /\ ~DomainAllowed(policy, to) THEN Denies(p)
       ELSE nav' = [nav EXCEPT ![p].to = to] /\ UNCHANGED <<guardVars, callVars>>
  /\ UNCHANGED <<policy, open, openers, loaded, closed>>

Load(p) ==
  /\ nav[p] # None /\ nav[p].at = "going"
  /\ loaded' = [loaded EXCEPT ![p] = nav[p].to]
  /\ nav' = [nav EXCEPT ![p] = None]
  /\ UNCHANGED <<policy, open, openers, closed, hops, guardVars, callVars>>

(* A page opens another one.  The request of its first document has no page *)
(* yet and is refused, allowed or not; a blank page makes no request.       *)
Popup(p, q) ==
  /\ p \in open /\ q \notin open /\ openers[q] = None /\ q # FirstPage
  /\ open' = open \cup {q}
  /\ openers' = [openers EXCEPT ![q] = p]
  /\ watch' = Attaching(q)
  /\ \/ Request /\ RecordUnattributedViolation
     \/ UNCHANGED <<hops, callVars>>
  /\ UNCHANGED <<policy, nav, loaded, closed, fetching>>

(* The page's close listener is there only once the page is listed.         *)
CloseThem(gone) ==
  /\ open' = open \ gone
  /\ nav' = [p \in Pages |-> IF p \in gone /\ watch[p] # "attaching" THEN None ELSE nav[p]]
  /\ watch' = [p \in Pages |-> IF p \in gone /\ watch[p] # "attaching" THEN "none" ELSE watch[p]]
  /\ fetching' = fetching \ gone

PageCloses(p) ==
  /\ p \in open
  /\ CloseThem({p})
  /\ UNCHANGED <<policy, openers, loaded, closed, hops, callVars>>

(* Open checkpoints are dropped: their calls fail for another reason.       *)
ContextCloses ==
  /\ ~closed /\ closed' = TRUE
  /\ CloseThem(open)
  /\ check' = [c \in Calls |-> IF Pending(c) THEN [check[c] EXCEPT !.violation = None]
                               ELSE check[c]]
  /\ UNCHANGED <<policy, openers, loaded, hops, verdict, telling, due>>

AttachStep(p) == AttachLists(p) \/ AttachEnds(p) \/ AttachFails(p)

GuardNext ==
  \/ \E c \in Calls : SettleViolation(c) \/ \E p \in Pages : CheckpointBegins(c, p)
  \/ \E p \in Pages :
       \/ TellOpener(p) \/ AttachStep(p) \/ PageCloses(p)
       \/ Navigate(p) \/ Redirect(p) \/ Load(p)
       \/ \E q \in Pages : Popup(p, q)
  \/ ContextCloses

GuardSpec == GuardInit /\ [][GuardNext]_vars

(* The browser answers what the guard sends it.                             *)
GuardFairness == \A p \in Pages : WF_vars(AttachStep(p))

FairGuardSpec == GuardSpec /\ GuardFairness

-----------------------------------------------------------------------------
(* README.md on domain rules: every top-level redirect hop is checked, so   *)
(* no page ever shows a document the policy denies, whichever way the       *)
(* navigation and the attaching of its page interleave.                     *)
NoDeniedDocument ==
  \A p \in Pages : loaded[p] # None => DomainAllowed(policy, loaded[p])

(* A call during which a navigation of its page, or the first document of a *)
(* popup, was blocked is denied, also when calls overlap.                   *)
BlockedIsReported ==
  \A c \in due : verdict[c] = "ok" => closed

(* An allowed navigation does not hang on the attaching of its page.        *)
WaitersProceed == \A p \in Pages : Waits(p) ~> ~Waits(p)
=============================================================================
