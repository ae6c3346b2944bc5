------------------------------ MODULE PageProofs ------------------------------
(***************************************************************************)
(* What a page may show and what its references find.  First, what the     *)
(* policy of SafetyPolicy guarantees for every policy, address and call    *)
(* (the sentences of README.md on domain and action rules), how the tables *)
(* of ToolRegistry agree with each other and with the gate, and what       *)
(* NavigationGuard, which enforces the policy, promises for any calls,     *)
(* pages, policies and requests.  Then PageReferences: which element a ref *)
(* locates, for any elements, changes of the page and snapshots.           *)
(***************************************************************************)
EXTENDS NavigationGuard, ToolRegistry, PageReferences, SequenceTheorems, FiniteSetTheorems, TLAPS

(* A nonempty allow list denies what it does not match, and deny takes       *)
(* precedence: README.md on domain rules.                                    *)
THEOREM DenyTakesPrecedence ==
  ASSUME NEW rules \in DomainPolicies, NEW url \in Addresses, DomainAllowed(rules, url)
  PROVE  /\ \A pattern \in rules.deny : ~PatternMatches(pattern, url)
         /\ rules.allow # {} => \E pattern \in rules.allow : PatternMatches(pattern, url)
         /\ url.scheme # "other"
  BY DEF DomainAllowed

(* A stricter policy allows no address that a laxer one denies.  Stricter is *)
(* not only a longer deny list: a first allow rule narrows, a further one    *)
(* widens.                                                                   *)
Stricter(strict, lax) ==
  /\ lax.deny \subseteq strict.deny
  /\ lax.allow # {} => strict.allow # {} /\ strict.allow \subseteq lax.allow

THEOREM StricterAllowsLess ==
  ASSUME NEW strict \in DomainPolicies, NEW lax \in DomainPolicies, Stricter(strict, lax),
         NEW url \in Addresses, DomainAllowed(strict, url)
  PROVE  DomainAllowed(lax, url)
  BY DEF DomainAllowed, Stricter

LEMMA StrippedIsHost ==
  ASSUME NEW host \in Hosts
  PROVE  Stripped(host) \in Hosts
<1>1. CASE host # <<>> /\ host[Len(host)] = ""
  <2>1. Len(host) \in Nat /\ Len(host) > 0
    <3>1. host \in Seq(Labels) /\ host # <<>>
      BY <1>1 DEF Hosts
    <3>2. Len(host) \in Nat \ {0}
      BY <3>1, EmptySeq
    <3> QED  BY <3>2
  <2>2. SubSeq(host, 1, Len(host) - 1) \in Seq(Labels)
    BY <2>1, SubSeqProperties DEF Hosts
  <2> QED  BY <1>1, <2>2 DEF Stripped, Hosts
<1>2. CASE ~(host # <<>> /\ host[Len(host)] = "")
  BY <1>2 DEF Stripped
<1> QED  BY <1>1, <1>2

(* A rule matches the origin it names, in any spelling: a final dot and the  *)
(* default port make no difference, on either side.  A wildcard rule matches *)
(* no spelling of the host it is about.                                      *)
SameOrigin(u, v) ==
  /\ u.scheme = v.scheme
  /\ Stripped(u.host) = Stripped(v.host)
  /\ EffectivePort(u) = EffectivePort(v)

THEOREM SpellingIsIrrelevant ==
  ASSUME NEW rule \in Rules, Valid(rule), NEW url \in Addresses, SameOrigin(rule.url, url)
  PROVE  PatternMatches(Compiled(rule), url) <=> ~rule.wildcard
<1>1. Compiled(rule).hostname = Stripped(url.host) /\ Compiled(rule).protocol = url.scheme
      /\ Compiled(rule).port = EffectivePort(url) /\ Compiled(rule).wildcard = rule.wildcard
  BY DEF Compiled, SameOrigin
<1>2. ~EndsWith(Stripped(url.host), Stripped(url.host))
  <2>1. url.host \in Hosts
    BY DEF Addresses
  <2>2. Len(Stripped(url.host)) \in Nat
    BY <2>1, StrippedIsHost, LenProperties DEF Hosts
  <2> QED  BY <2>2 DEF EndsWith
<1>3. rule.wildcard \in BOOLEAN
  BY DEF Rules
<1> QED  BY <1>1, <1>2, <1>3 DEF PatternMatches

(* Compiling makes patterns.                                                 *)
LEMMA CompiledIsPattern ==
  ASSUME NEW rule \in Rules, Valid(rule)
  PROVE  Compiled(rule) \in Patterns
<1>1. Stripped(rule.url.host) \in Hosts
  BY StrippedIsHost DEF Rules, Addresses
<1>2. EffectivePort(rule.url) \in Nat
  BY DEF Rules, Addresses, EffectivePort, DefaultPort
<1> QED  BY <1>1, <1>2 DEF Compiled, Valid, Rules, Patterns

-----------------------------------------------------------------------------
(* In read-only mode no call that dispatches input passes, whatever the      *)
(* action rules and the approver say: README.md on read-only mode.           *)
THEOREM ReadOnlyDispatchesNothing ==
  ASSUME NEW rules \in SessionPolicies, NEW call \in GateCalls, NEW answer \in Answers,
         rules.mode = "read-only", Passes(rules, call, answer)
  PROVE  call.class \in {"navigation", "read", "batch"}
<1>1. call.class \in Classes
  BY DEF GateCalls
<1> QED  BY <1>1 DEF Passes, Gate, Interacts, Classes, Categories

(* A call of a category whose decision is to ask passes only when a callback *)
(* is there and says yes: a callback that is missing, throws, declines or    *)
(* answers nonsense denies.                                                  *)
THEOREM AskingFailsClosed ==
  ASSUME NEW rules \in SessionPolicies, NEW call \in GateCalls, NEW answer \in Answers,
         call.class \in Categories, Decision(rules, call.class) = "ask",
         Passes(rules, call, answer)
  PROVE  rules.approver /\ answer = "approved"
<1>1. call.class \notin {"none", "read", "batch"}
  BY DEF Categories
<1> QED  BY <1>1 DEF Passes, Gate

(* No approval lets browser_goto request a destination that the domain rules *)
(* deny, and no configured denial is lifted by a callback.                   *)
THEOREM ApprovalLiftsNoDenial ==
  ASSUME NEW rules \in SessionPolicies, NEW call \in GateCalls, NEW answer \in Answers,
         call.class \in Categories, Passes(rules, call, answer)
  PROVE  /\ call.goto /\ rules.ruled => DomainAllowed(rules.domains, call.requested)
         /\ rules.actions[call.class] # "deny"
<1>1. call.class \notin {"none", "read", "batch"}
  BY DEF Categories
<1>2. ~Misdirected(rules, call) /\ Decision(rules, call.class) # "deny"
  BY <1>1 DEF Passes, Gate
<1> QED  BY <1>2 DEF Misdirected, Decision

-----------------------------------------------------------------------------
(* Every tool has a class the gate knows, so that a call of a registered     *)
(* tool is never denied for want of one; and no other call gets past it.     *)
InputTools == PointerTools \cup KeyboardTools \cup FormTools \cup {"upload_file", "close_page"}
GatedTools == NavigationTools \cup InputTools

LEMMA GatedAreTools == GatedTools \subseteq Tools /\ "run_steps" \in Tools
  BY DEF GatedTools, InputTools, NavigationTools, PointerTools, KeyboardTools, FormTools,
         Tools, MixedKind

LEMMA ClassIsKnown ==
  ASSUME NEW tool
  PROVE  /\ PolicyClass(tool) \in Classes
         /\ PolicyClass(tool) = "none" <=> tool \notin Tools
<1>1. CASE tool \notin Tools
  <2>1. tool \notin GatedTools /\ tool # "run_steps"
    BY <1>1, GatedAreTools
  <2> QED  BY <1>1, <2>1 DEF PolicyClass, Classes, GatedTools, InputTools
<1>2. CASE tool \in Tools
  <2>1. PolicyClass(tool) \in Categories \cup {"batch", "read"}
    BY <1>2 DEF PolicyClass, Categories
  <2> QED  BY <1>2, <2>1 DEF Classes, Categories
<1> QED  BY <1>1, <1>2

LEMMA CallOfIsCall ==
  ASSUME NEW step \in BatchSteps
  PROVE  CallOf(step) \in GateCalls /\ CallOf(step).class = PolicyClass(step.tool)
  BY ClassIsKnown DEF CallOf, GateCalls, BatchSteps

(* The tables agree: every tool whose calls the policy may deny or an        *)
(* approver may see changes something according to the trace, which thereby  *)
(* shows what was approved as a change: docs/action-traces.md on read and    *)
(* write.                                                                    *)
THEOREM GatedIsTracedAsWrite ==
  ASSUME NEW tool \in Tools, PolicyClass(tool) \in Categories
  PROVE  tool \in TracedAsWrite
<1>1. tool \in GatedTools
  BY DEF PolicyClass, Categories, GatedTools, InputTools
<1> QED
  BY <1>1 DEF GatedTools, InputTools, NavigationTools, PointerTools, KeyboardTools,
              FormTools, TracedAsWrite

(* The classes of the input tools are those that read-only mode refuses.     *)
LEMMA InputInteracts ==
  ASSUME NEW tool \in InputTools
  PROVE  PolicyClass(tool) \notin {"navigation", "read", "batch"}
<1>1. tool \in Tools
  BY GatedAreTools DEF GatedTools
<1>2. tool \notin NavigationTools /\ tool # "run_steps"
  BY DEF InputTools, PointerTools, KeyboardTools, FormTools, NavigationTools
<1> QED  BY <1>1, <1>2 DEF PolicyClass, InputTools

(* What a read-only session may still change: the page's address, its size   *)
(* and which page is active, beside the session's own records.  None of the  *)
(* other tools that the trace calls a write passes the gate.                 *)
THEOREM ReadOnlyWrites ==
  ASSUME NEW rules \in SessionPolicies, rules.mode = "read-only",
         NEW step \in BatchSteps, step.tool \in TracedAsWrite,
         Passes(rules, CallOf(step), step.answer)
  PROVE  step.tool \in {"goto", "reload", "go_back", "go_forward", "set_viewport",
                        "select_page", "screenshot", "record_critical_point", "finish_test"}
<1>1. step.answer \in Answers
  BY DEF BatchSteps
<1>2. PolicyClass(step.tool) \in {"navigation", "read", "batch"}
  BY <1>1, CallOfIsCall, ReadOnlyDispatchesNothing
<1>3. step.tool \notin InputTools
  BY <1>2, InputInteracts
<1> QED
  BY <1>3 DEF TracedAsWrite, InputTools, PointerTools, KeyboardTools, FormTools

(* Nor does a batch get around it: of the steps that a batch of a read-only  *)
(* session runs, none that the trace calls a write does more than move the   *)
(* page, and none ends the test.                                             *)
THEOREM ReadOnlyBatchWrites ==
  ASSUME NEW rules \in SessionPolicies, rules.mode = "read-only",
         NEW steps \in Seq(BatchSteps), NEW i \in Ran(rules, steps),
         steps[i].tool \in TracedAsWrite
  PROVE  steps[i].tool \in {"goto", "reload", "go_back", "go_forward", "set_viewport",
                            "select_page", "screenshot", "record_critical_point"}
<1>1. /\ steps[i] \in BatchSteps /\ steps[i].tool # "finish_test"
      /\ Passes(rules, CallOf(steps[i]), steps[i].answer)
  BY DEF Ran, Dispatched, Excluded
<1> QED  BY <1>1, ReadOnlyWrites

(* A result that reaches a model as trusted is one of a tool that the policy *)
(* calls a read: nothing the page took part in is passed off as the          *)
(* harness's own words (README.md on content boundaries).                    *)
THEOREM TrustedIsNotGated ==
  ASSUME NEW tool \in Tools, Trusted(tool)
  PROVE  PolicyClass(tool) = "read"
<1>1. tool \notin GatedTools /\ tool # "run_steps"
  BY DEF Trusted, HarnessKind, GatedTools, InputTools, NavigationTools, PointerTools,
         KeyboardTools, FormTools
<1> QED  BY <1>1 DEF PolicyClass, GatedTools, InputTools

-----------------------------------------------------------------------------
(* The guard.  NoDeniedDocument is about documents, but a document may be   *)
(* the end of redirects that only a Fetch session sees.  So the invariant   *)
(* speaks of navigations: what is under way is allowed (NavIsAllowed), and  *)
(* what has left the route handler is on a page the guard has listed        *)
(* (GoingIsListed), which, as long as the browser attaches every page, is a *)
(* page whose requests are paused (ListedIsFetching).                       *)
(*                                                                          *)
(* BlockedIsReported needs to know that a call which is due keeps its       *)
(* violation until it settles (DueIsKept).                                  *)

Listed(p) == watch[p] \in {"listed", "done"}

GoingIsListed == \A p \in Pages : nav[p] # None /\ nav[p].at = "going" => Listed(p)

ListedIsFetching == \A p \in Pages : Listed(p) => p \in fetching

NavIsAllowed == \A p \in Pages : nav[p] # None => DomainAllowed(policy, nav[p].to)

Attended == ~CdpFails => ListedIsFetching /\ NavIsAllowed /\ NoDeniedDocument

DueIsKept ==
  \A c \in due :
    /\ check[c] # None
    /\ \/ closed
       \/ verdict[c] = "denied"
       \/ verdict[c] = "none" /\ check[c].violation # None

Watches == GoingIsListed /\ Attended

IInv == GuardTypeOK /\ Watches /\ DueIsKept

-----------------------------------------------------------------------------
(* Type correctness.                                                        *)
WatchStates == {"none", "attaching", "listed", "done"}

WaiterIsAttaching ==
  \A p \in Pages : nav[p] # None /\ nav[p].at = "waiting" => watch[p] \in {"attaching", "listed"}

LEMMA InitTypes == GuardInit => GuardTypeOK
<1> SUFFICES ASSUME GuardInit PROVE GuardTypeOK
  OBVIOUS
<1>1. /\ policy \in DomainPolicies /\ open \subseteq Pages /\ fetching \subseteq Pages
      /\ openers \in [Pages -> Pages \cup {None}]
      /\ loaded \in [Pages -> Destinations \cup {None}]
      /\ telling \subseteq Pages /\ due \subseteq Calls /\ closed \in BOOLEAN
  BY FirstPageIsAPage DEF GuardInit
<1>2. watch \in [Pages -> {"none", "attaching", "listed", "done"}]
  BY DEF GuardInit
<1>3. nav \in [Pages -> NavStates \cup {None}] /\ \A p \in Pages : nav[p] = None
  BY DEF GuardInit
<1>4. /\ check \in [Calls -> Checkpoint \cup {None}]
      /\ verdict \in [Calls -> {"none", "ok", "denied"}]
  BY DEF GuardInit
<1>5. hops \in 0..MaxHops
  BY HopsAreBounded DEF GuardInit
<1> QED BY <1>1, <1>2, <1>3, <1>4, <1>5 DEF GuardTypeOK

(* What recordViolation does to the calls.                                  *)
LEMMA AssignedTyped ==
  ASSUME check \in [Calls -> Checkpoint \cup {None}], NEW calls \in SUBSET Calls,
         \A c \in calls : Pending(c), NEW via \in Violations
  PROVE  /\ Assigned(calls, via) \in [Calls -> Checkpoint \cup {None}]
         /\ \A c \in Calls : check[c] = None => Assigned(calls, via)[c] = None
         /\ \A c \in calls : Assigned(calls, via)[c].violation # None
         /\ \A c \in Calls :
              check[c] # None =>
                /\ Assigned(calls, via)[c] # None
                /\ check[c].violation # None => Assigned(calls, via)[c].violation # None
<1> DEFINE new == [c \in Calls |-> IF c \in calls /\ check[c].violation = None
                                   THEN [check[c] EXCEPT !.violation = via] ELSE check[c]]
<1>1. \A c \in calls : check[c] \in Checkpoint
  BY DEF Pending
<1>2. \A c \in calls : /\ [check[c] EXCEPT !.violation = via] \in Checkpoint
                       /\ [check[c] EXCEPT !.violation = via].violation = via
  BY <1>1 DEF Checkpoint
<1>3. new \in [Calls -> Checkpoint \cup {None}]
  BY <1>1, <1>2
<1>4. \A c \in Calls : check[c] = None => new[c] = None
  BY DEF Pending
<1>5. \A c \in calls : new[c].violation # None
  BY <1>2, NoneIsNothing
<1>6. \A c \in Calls : check[c] # None => new[c] # None /\ (check[c].violation # None => new[c].violation # None)
  BY <1>1, <1>2, NoneIsNothing
<1> QED BY <1>3, <1>4, <1>5, <1>6 DEF Assigned

LEMMA RecordTyped ==
  ASSUME GuardTypeOK, NEW p \in Pages, RecordViolation(p)
  PROVE  /\ check' \in [Calls -> Checkpoint \cup {None}] /\ verdict' = verdict
         /\ telling' \subseteq Pages /\ due' \subseteq Calls
<1>1. /\ check \in [Calls -> Checkpoint \cup {None}] /\ PendingOn(p) \subseteq Calls
      /\ \A c \in PendingOn(p) : Pending(c)
      /\ telling \subseteq Pages /\ due \subseteq Calls /\ openers \in [Pages -> Pages \cup {None}]
  BY DEF GuardTypeOK, PendingOn
<1>2. "page" \in Violations
  BY DEF Violations
<1>3. Assigned(PendingOn(p), "page") \in [Calls -> Checkpoint \cup {None}]
  BY <1>1, <1>2, AssignedTyped
<1>4. {openers[p]} \ {None} \subseteq Pages
  BY <1>1
<1> QED BY <1>1, <1>3, <1>4 DEF RecordViolation

LEMMA UnattributedTyped ==
  ASSUME GuardTypeOK, RecordUnattributedViolation
  PROVE  /\ check' \in [Calls -> Checkpoint \cup {None}] /\ verdict' = verdict
         /\ telling' = telling /\ due' \subseteq Calls
<1> DEFINE pending == {c \in Calls : Pending(c)}
<1>1. /\ check \in [Calls -> Checkpoint \cup {None}] /\ pending \in SUBSET Calls
      /\ \A c \in pending : Pending(c) /\ due \subseteq Calls
  BY DEF GuardTypeOK
<1>2. "popup" \in Violations
  BY DEF Violations
<1> HIDE DEF pending
<1>3. Assigned(pending, "popup") \in [Calls -> Checkpoint \cup {None}]
  BY <1>1, <1>2, AssignedTyped
<1> QED BY <1>1, <1>3 DEF RecordUnattributedViolation, pending, GuardTypeOK

(* What a closing page or context leaves behind.                            *)
LEMMA CloseTyped ==
  ASSUME GuardTypeOK, NEW gone \in SUBSET Pages, CloseThem(gone)
  PROVE  /\ open' \subseteq Pages /\ fetching' \subseteq Pages
         /\ watch' \in [Pages -> WatchStates]
         /\ nav' \in [Pages -> NavStates \cup {None}]
         /\ \A p \in Pages : /\ nav'[p] \in {nav[p], None}
                             /\ nav'[p] # None => watch'[p] = watch[p]
<1>1. /\ open \subseteq Pages /\ fetching \subseteq Pages
      /\ watch \in [Pages -> WatchStates] /\ nav \in [Pages -> NavStates \cup {None}]
  BY DEF GuardTypeOK, WatchStates
<1>2. watch' \in [Pages -> WatchStates]
  BY <1>1 DEF CloseThem, WatchStates
<1>3. nav' \in [Pages -> NavStates \cup {None}]
  BY <1>1 DEF CloseThem
<1>4. \A p \in Pages : /\ nav'[p] \in {nav[p], None}
                       /\ nav'[p] # None => watch'[p] = watch[p]
  BY DEF CloseThem
<1> QED BY <1>1, <1>2, <1>3, <1>4 DEF CloseThem

(* The states of a page's watch and navigation, and how one step changes    *)
(* those of one page.                                                       *)
Watching == watch \in [Pages -> WatchStates] /\ nav \in [Pages -> NavStates \cup {None}]
              /\ WaiterIsAttaching

LEMMA TypesAreWatching == GuardTypeOK => Watching
BY DEF GuardTypeOK, Watching, WatchStates, WaiterIsAttaching

LEMMA PassTyped ==
  ASSUME GuardTypeOK, NEW p \in Pages, NEW to \in Destinations, LetsPass(p, to)
  PROVE  Watching' /\ \A q \in Pages : q # p => nav'[q] = nav[q] /\ watch'[q] = watch[q]
<1>1. watch \in [Pages -> WatchStates] /\ nav \in [Pages -> NavStates \cup {None}] /\ WaiterIsAttaching
  BY TypesAreWatching DEF Watching
<1> DEFINE n == [to |-> to, at |-> IF watch[p] \in {"listed", "done"} THEN "going" ELSE "waiting"]
<1>2. n \in NavStates
  BY DEF NavStates
<1>3. nav' = [nav EXCEPT ![p] = n] /\ nav'[p] = n
  BY <1>1 DEF LetsPass
<1>4. /\ watch' = [watch EXCEPT ![p] = IF @ = "none" THEN "attaching" ELSE @]
      /\ watch'[p] = IF watch[p] = "none" THEN "attaching" ELSE watch[p]
  BY <1>1 DEF LetsPass, Attaching
<1>5. n.at = "waiting" => watch'[p] \in {"attaching", "listed"}
  BY <1>1, <1>4 DEF WatchStates
<1> HIDE DEF n
<1>6. nav' \in [Pages -> NavStates \cup {None}] /\ watch' \in [Pages -> WatchStates]
  BY <1>1, <1>2, <1>3, <1>4 DEF WatchStates
<1>7. \A q \in Pages : q # p => nav'[q] = nav[q] /\ watch'[q] = watch[q]
  BY <1>1, <1>3, <1>4
<1> QED BY <1>1, <1>3, <1>5, <1>6, <1>7 DEF Watching, WaiterIsAttaching

LEMMA StepTypes == GuardTypeOK /\ [GuardNext]_vars => GuardTypeOK'
<1> SUFFICES ASSUME GuardTypeOK, [GuardNext]_vars PROVE GuardTypeOK'
  OBVIOUS
<1>1. /\ policy \in DomainPolicies /\ open \subseteq Pages
      /\ openers \in [Pages -> Pages \cup {None}] /\ fetching \subseteq Pages
      /\ loaded \in [Pages -> Destinations \cup {None}]
      /\ telling \subseteq Pages /\ due \subseteq Calls
      /\ check \in [Calls -> Checkpoint \cup {None}]
      /\ verdict \in [Calls -> {"none", "ok", "denied"}]
      /\ closed \in BOOLEAN /\ hops \in 0..MaxHops
      /\ watch \in [Pages -> WatchStates] /\ nav \in [Pages -> NavStates \cup {None}]
      /\ WaiterIsAttaching
  BY TypesAreWatching DEF GuardTypeOK, Watching
<1> DEFINE Others ==
             /\ policy \in DomainPolicies /\ open \subseteq Pages
             /\ openers \in [Pages -> Pages \cup {None}] /\ fetching \subseteq Pages
             /\ loaded \in [Pages -> Destinations \cup {None}]
             /\ telling \subseteq Pages /\ due \subseteq Calls
             /\ check \in [Calls -> Checkpoint \cup {None}]
             /\ verdict \in [Calls -> {"none", "ok", "denied"}]
             /\ closed \in BOOLEAN /\ hops \in 0..MaxHops
<1>2. ASSUME Others', Watching' PROVE GuardTypeOK'
  BY <1>2 DEF Watching, GuardTypeOK, WatchStates, WaiterIsAttaching
<1>3. ASSUME Request PROVE hops' \in 0..MaxHops
  BY <1>1, <1>3, HopsAreBounded DEF Request
<1>4. ASSUME UNCHANGED <<watch, nav>> PROVE Watching'
  BY <1>1, <1>4 DEF Watching, WaiterIsAttaching
<1>5. ASSUME NEW c \in Calls, SettleViolation(c) PROVE GuardTypeOK'
  <2>1. Watching'
    BY <1>4, <1>5 DEF SettleViolation, browserVars, guardVars
  <2>2. Others'
    BY <1>1, <1>5 DEF SettleViolation, browserVars, guardVars
  <2> QED BY <1>2, <2>1, <2>2
<1>6. ASSUME NEW c \in Calls, NEW p \in Pages, CheckpointBegins(c, p) PROVE GuardTypeOK'
  <2>1. Watching'
    BY <1>4, <1>6 DEF CheckpointBegins, browserVars, guardVars
  <2>2. [page |-> p, violation |-> None] \in Checkpoint
    BY DEF Checkpoint
  <2>3. Others'
    BY <1>1, <1>6, <2>2 DEF CheckpointBegins, browserVars, guardVars
  <2> QED BY <1>2, <2>1, <2>3
<1>7. ASSUME NEW p \in Pages, TellOpener(p) PROVE GuardTypeOK'
  <2>1. Watching'
    BY <1>4, <1>7 DEF TellOpener, browserVars, guardVars
  <2>2. Assigned(PendingOn(p), "opener") \in [Calls -> Checkpoint \cup {None}]
    <3>1. "opener" \in Violations /\ PendingOn(p) \in SUBSET Calls /\ \A c \in PendingOn(p) : Pending(c)
      BY DEF Violations, PendingOn
    <3> QED BY <1>1, <3>1, AssignedTyped
  <2>3. Others'
    BY <1>1, <1>7, <2>2 DEF TellOpener, browserVars, guardVars
  <2> QED BY <1>2, <2>1, <2>3
<1>8. ASSUME NEW p \in Pages, AttachStep(p) PROVE GuardTypeOK'
  <2>1. Others'
    BY <1>1, <1>8 DEF AttachStep, AttachLists, AttachEnds, AttachFails, browserVars, callVars
  <2>2. CASE AttachLists(p)
    <3>1. watch[p] = "attaching" /\ watch' = [watch EXCEPT ![p] = "listed"] /\ nav' = nav
      BY <2>2 DEF AttachLists, browserVars
    <3>2. Watching'
      BY <1>1, <3>1 DEF Watching, WaiterIsAttaching, WatchStates
    <3> QED BY <1>2, <2>1, <3>2
  <2>3. CASE AttachEnds(p)
    <3>1. /\ watch' = [watch EXCEPT ![p] = "done"]
          /\ nav' = IF ~Waits(p) THEN nav
                    ELSE [nav EXCEPT ![p] = IF p \in fetching THEN [@ EXCEPT !.at = "going"] ELSE None]
      BY <2>3 DEF AttachEnds
    <3>2. nav[p] # None => [nav[p] EXCEPT !.at = "going"] \in NavStates
                           /\ [nav[p] EXCEPT !.at = "going"].at = "going"
      BY <1>1 DEF NavStates
    <3>3. nav' \in [Pages -> NavStates \cup {None}]
      BY <1>1, <3>1, <3>2 DEF Waits
    <3>4. nav'[p] # None => nav'[p].at # "waiting"
      BY <1>1, <3>1, <3>2 DEF Waits
    <3>5. \A q \in Pages : q # p => nav'[q] = nav[q]
      BY <1>1, <3>1
    <3>6. Watching'
      BY <1>1, <3>1, <3>3, <3>4, <3>5 DEF Watching, WaiterIsAttaching, WatchStates
    <3> QED BY <1>2, <2>1, <3>6
  <2>4. CASE AttachFails(p)
    <3>1. watch' = [watch EXCEPT ![p] = "none"] /\ nav' = [nav EXCEPT ![p] = None]
      BY <2>4 DEF AttachFails
    <3>2. Watching'
      BY <1>1, <3>1 DEF Watching, WaiterIsAttaching, WatchStates
    <3> QED BY <1>2, <2>1, <3>2
  <2> QED BY <1>8, <2>2, <2>3, <2>4 DEF AttachStep
<1>9. ASSUME NEW p \in Pages, PageCloses(p) PROVE GuardTypeOK'
  <2>1. CloseThem({p}) /\ {p} \in SUBSET Pages
    BY <1>9 DEF PageCloses
  <2>2. /\ open' \subseteq Pages /\ fetching' \subseteq Pages
        /\ watch' \in [Pages -> WatchStates] /\ nav' \in [Pages -> NavStates \cup {None}]
        /\ \A q \in Pages : nav'[q] \in {nav[q], None} /\ (nav'[q] # None => watch'[q] = watch[q])
    BY <2>1, CloseTyped
  <2>3. Watching'
    BY <1>1, <2>2 DEF Watching, WaiterIsAttaching
  <2>4. Others'
    BY <1>1, <1>9, <2>2 DEF PageCloses, callVars
  <2> QED BY <1>2, <2>3, <2>4
<1>10. ASSUME NEW p \in Pages, Navigate(p) PROVE GuardTypeOK'
  <2>1. PICK to \in Destinations : LetsPass(p, to) \/ Denies(p)
    BY <1>10 DEF Navigate
  <2>2. /\ policy' = policy /\ open' = open /\ openers' = openers /\ loaded' = loaded
        /\ closed' = closed /\ hops' \in 0..MaxHops
    BY <1>3, <1>10 DEF Navigate
  <2>3. CASE LetsPass(p, to)
    <3>1. Watching'
      BY <2>3, PassTyped
    <3>2. Others'
      BY <1>1, <2>2, <2>3 DEF LetsPass, callVars
    <3> QED BY <1>2, <3>1, <3>2
  <2>4. CASE Denies(p)
    <3>1. watch' = watch /\ fetching' = fetching /\ nav' = [nav EXCEPT ![p] = None]
      BY <2>4 DEF Denies, guardVars
    <3>2. Watching'
      BY <1>1, <3>1 DEF Watching, WaiterIsAttaching
    <3>3. Others'
      BY <1>1, <2>2, <2>4, <3>1, RecordTyped DEF Denies
    <3> QED BY <1>2, <3>2, <3>3
  <2> QED BY <2>1, <2>3, <2>4
<1>11. ASSUME NEW p \in Pages, Redirect(p) PROVE GuardTypeOK'
  <2>1. PICK to \in Destinations :
          \/ Denies(p)
          \/ nav' = [nav EXCEPT ![p].to = to] /\ UNCHANGED <<guardVars, callVars>>
    BY <1>11 DEF Redirect
  <2>2. /\ policy' = policy /\ open' = open /\ openers' = openers /\ loaded' = loaded
        /\ closed' = closed /\ hops' \in 0..MaxHops /\ nav[p] # None /\ nav[p].at = "going"
    BY <1>3, <1>11 DEF Redirect
  <2>3. CASE nav' = [nav EXCEPT ![p].to = to] /\ UNCHANGED <<guardVars, callVars>>
    <3>1. nav'[p] = [nav[p] EXCEPT !.to = to]
      BY <1>1, <2>3
    <3>2. nav'[p] \in NavStates /\ nav'[p].at = "going"
      BY <1>1, <2>2, <3>1 DEF NavStates
    <3>3. \A q \in Pages : q # p => nav'[q] = nav[q]
      BY <1>1, <2>3
    <3>4. nav' \in [Pages -> NavStates \cup {None}]
      BY <1>1, <2>3, <3>1, <3>2
    <3>5. Watching'
      BY <1>1, <2>3, <3>2, <3>3, <3>4 DEF Watching, WaiterIsAttaching, guardVars
    <3>6. Others'
      BY <1>1, <2>2, <2>3 DEF guardVars, callVars
    <3> QED BY <1>2, <3>5, <3>6
  <2>4. CASE Denies(p)
    <3>1. watch' = watch /\ fetching' = fetching /\ nav' = [nav EXCEPT ![p] = None]
      BY <2>4 DEF Denies, guardVars
    <3>2. Watching'
      BY <1>1, <3>1 DEF Watching, WaiterIsAttaching
    <3>3. Others'
      BY <1>1, <2>2, <2>4, <3>1, RecordTyped DEF Denies
    <3> QED BY <1>2, <3>2, <3>3
  <2> QED BY <2>1, <2>3, <2>4
<1>12. ASSUME NEW p \in Pages, Load(p) PROVE GuardTypeOK'
  <2>1. nav[p] \in NavStates /\ nav[p].to \in Destinations
    BY <1>1, <1>12 DEF Load, NavStates
  <2>2. Watching'
    BY <1>1, <1>12 DEF Load, guardVars, Watching, WaiterIsAttaching
  <2>3. Others'
    BY <1>1, <1>12, <2>1 DEF Load, guardVars, callVars
  <2> QED BY <1>2, <2>2, <2>3
<1>13. ASSUME NEW p \in Pages, NEW q \in Pages, Popup(p, q) PROVE GuardTypeOK'
  <2>1. /\ policy' = policy /\ nav' = nav /\ loaded' = loaded /\ closed' = closed
        /\ fetching' = fetching /\ open' = open \cup {q} /\ openers' = [openers EXCEPT ![q] = p]
        /\ watch' = [watch EXCEPT ![q] = IF @ = "none" THEN "attaching" ELSE @]
    BY <1>13 DEF Popup, Attaching
  <2>2. \/ Request /\ RecordUnattributedViolation
        \/ UNCHANGED <<hops, callVars>>
    BY <1>13 DEF Popup
  <2>3. Watching'
    BY <1>1, <2>1 DEF Watching, WaiterIsAttaching, WatchStates
  <2>4. /\ hops' \in 0..MaxHops /\ check' \in [Calls -> Checkpoint \cup {None}]
        /\ verdict' = verdict /\ telling' = telling /\ due' \subseteq Calls
    BY <1>1, <1>3, <2>2, UnattributedTyped DEF callVars
  <2>5. Others'
    BY <1>1, <2>1, <2>4
  <2> QED BY <1>2, <2>3, <2>5
<1>14. CASE ContextCloses
  <2>1. CloseThem(open) /\ open \in SUBSET Pages
    BY <1>1, <1>14 DEF ContextCloses
  <2>2. /\ open' \subseteq Pages /\ fetching' \subseteq Pages
        /\ watch' \in [Pages -> WatchStates] /\ nav' \in [Pages -> NavStates \cup {None}]
        /\ \A q \in Pages : nav'[q] \in {nav[q], None} /\ (nav'[q] # None => watch'[q] = watch[q])
    BY <2>1, CloseTyped
  <2>3. Watching'
    BY <1>1, <2>2 DEF Watching, WaiterIsAttaching
  <2>4. \A c \in Calls : Pending(c) => [check[c] EXCEPT !.violation = None] \in Checkpoint
    BY <1>1 DEF Pending, Checkpoint
  <2>5. check' \in [Calls -> Checkpoint \cup {None}]
    BY <1>1, <1>14, <2>4 DEF ContextCloses
  <2>6. Others'
    BY <1>1, <1>14, <2>2, <2>5 DEF ContextCloses
  <2> QED BY <1>2, <2>3, <2>6
<1>15. CASE UNCHANGED vars
  BY <1>1, <1>2, <1>4, <1>15 DEF vars, browserVars, guardVars, callVars
<1> QED BY <1>5, <1>6, <1>7, <1>8, <1>9, <1>10, <1>11, <1>12, <1>13, <1>14, <1>15 DEF GuardNext

-----------------------------------------------------------------------------
(* The guard.                                                               *)
LEMMA PassWatches ==
  ASSUME GuardTypeOK, Watches, NEW p \in Pages, NEW to \in Destinations, LetsPass(p, to),
         DomainAllowed(policy, to), policy' = policy, loaded' = loaded
  PROVE  Watches'
<1>1. watch \in [Pages -> WatchStates] /\ nav \in [Pages -> NavStates \cup {None}]
  BY DEF GuardTypeOK, WatchStates
<1> DEFINE n == [to |-> to, at |-> IF watch[p] \in {"listed", "done"} THEN "going" ELSE "waiting"]
<1>2. /\ nav' = [nav EXCEPT ![p] = n] /\ nav'[p] = n
      /\ watch' = [watch EXCEPT ![p] = IF @ = "none" THEN "attaching" ELSE @]
      /\ fetching' = fetching
  BY <1>1 DEF LetsPass, Attaching
<1>3. n.to = to /\ (n.at = "going" => Listed(p))
  BY DEF Listed
<1> HIDE DEF n
<1>4. \A q \in Pages : Listed(q)' = Listed(q)
  BY <1>1, <1>2 DEF Listed
<1>5. GoingIsListed'
  BY <1>1, <1>2, <1>3, <1>4 DEF Watches, GoingIsListed
<1>6. Attended'
  <2> SUFFICES ASSUME ~CdpFails PROVE (ListedIsFetching /\ NavIsAllowed /\ NoDeniedDocument)'
    BY CdpFailsIsBoolean DEF Attended
  <2>1. ListedIsFetching /\ NavIsAllowed /\ NoDeniedDocument
    BY DEF Watches, Attended
  <2>2. ListedIsFetching'
    BY <1>2, <1>4, <2>1 DEF ListedIsFetching
  <2>3. NavIsAllowed'
    BY <1>1, <1>2, <1>3, <2>1 DEF NavIsAllowed
  <2> QED BY <2>1, <2>2, <2>3 DEF NoDeniedDocument
<1> QED BY <1>5, <1>6 DEF Watches

(* A step that starts no navigation, keeps the watch of the pages that have *)
(* one under way and pauses no fewer pages leaves the guard as good as it   *)
(* was.                                                                     *)
LEMMA LesserWatches ==
  ASSUME Watches, policy' = policy, loaded' = loaded,
         \A p \in Pages : \/ nav'[p] = None
                          \/ nav'[p] = nav[p] /\ (Listed(p) => Listed(p)'),
         \A p \in Pages : Listed(p)' => Listed(p) \/ p \in fetching',
         \A p \in Pages : Listed(p)' /\ p \in fetching => p \in fetching'
  PROVE  Watches'
<1>1. GoingIsListed'
  BY DEF Watches, GoingIsListed
<1>2. Attended'
  <2> SUFFICES ASSUME ~CdpFails PROVE (ListedIsFetching /\ NavIsAllowed /\ NoDeniedDocument)'
    BY CdpFailsIsBoolean DEF Attended
  <2>1. ListedIsFetching /\ NavIsAllowed /\ NoDeniedDocument
    BY DEF Watches, Attended
  <2>2. ListedIsFetching'
    BY <2>1 DEF ListedIsFetching
  <2>3. NavIsAllowed'
    BY <2>1 DEF NavIsAllowed
  <2> QED BY <2>1, <2>2, <2>3 DEF NoDeniedDocument
<1> QED BY <1>1, <1>2 DEF Watches

LEMMA CloseWatches ==
  ASSUME GuardTypeOK, Watches, NEW gone \in SUBSET Pages, CloseThem(gone),
         policy' = policy, loaded' = loaded
  PROVE  Watches'
<1>1. \A p \in Pages : \/ nav'[p] = None
                       \/ nav'[p] = nav[p] /\ (Listed(p) => Listed(p)')
  BY DEF CloseThem, Listed
<1>2. \A p \in Pages : Listed(p)' => Listed(p) /\ p \notin gone
  BY DEF CloseThem, Listed
<1>3. \A p \in Pages : p \notin gone => (p \in fetching) = (p \in fetching')
  BY DEF CloseThem
<1> QED BY <1>1, <1>2, <1>3, LesserWatches

LEMMA StepWatches == GuardTypeOK /\ Watches /\ [GuardNext]_vars => Watches'
<1> SUFFICES ASSUME GuardTypeOK, Watches, [GuardNext]_vars PROVE Watches'
  OBVIOUS
<1>1. /\ watch \in [Pages -> WatchStates] /\ nav \in [Pages -> NavStates \cup {None}]
      /\ loaded \in [Pages -> Destinations \cup {None}] /\ open \subseteq Pages
  BY DEF GuardTypeOK, WatchStates
<1>2. ASSUME UNCHANGED <<policy, loaded, nav, watch, fetching>> PROVE Watches'
  BY <1>2, LesserWatches DEF Listed
<1>3. ASSUME NEW p \in Pages, AttachLists(p) PROVE Watches'
  <2>1. /\ watch[p] = "attaching" /\ watch' = [watch EXCEPT ![p] = "listed"]
        /\ nav' = nav /\ policy' = policy /\ loaded' = loaded
        /\ \/ fetching' = fetching \cup {p}
           \/ CdpFails /\ fetching' = fetching
    BY <1>3 DEF AttachLists, browserVars
  <2>2. \A q \in Pages : Listed(q)' = (q = p \/ Listed(q))
    BY <1>1, <2>1 DEF Listed
  <2>3. GoingIsListed'
    BY <2>1, <2>2 DEF Watches, GoingIsListed
  <2>4. Attended'
    <3> SUFFICES ASSUME ~CdpFails PROVE (ListedIsFetching /\ NavIsAllowed /\ NoDeniedDocument)'
      BY CdpFailsIsBoolean DEF Attended
    <3>1. ListedIsFetching /\ NavIsAllowed /\ NoDeniedDocument
      BY DEF Watches, Attended
    <3> QED BY <2>1, <2>2, <3>1 DEF ListedIsFetching, NavIsAllowed, NoDeniedDocument
  <2> QED BY <2>3, <2>4 DEF Watches
<1>4. ASSUME NEW p \in Pages, AttachEnds(p) PROVE Watches'
  <2>1. /\ watch[p] = "listed" /\ watch' = [watch EXCEPT ![p] = "done"]
        /\ fetching' = fetching /\ policy' = policy /\ loaded' = loaded
        /\ nav' = IF ~Waits(p) THEN nav
                  ELSE [nav EXCEPT ![p] = IF p \in fetching THEN [@ EXCEPT !.at = "going"] ELSE None]
    BY <1>4 DEF AttachEnds
  <2>2. \A q \in Pages : Listed(q)' = Listed(q)
    BY <1>1, <2>1 DEF Listed
  <2>3. Listed(p)
    BY <2>1 DEF Listed
  <2>4. nav[p] # None => [nav[p] EXCEPT !.at = "going"].to = nav[p].to
    BY <1>1 DEF NavStates
  <2>5. \A q \in Pages : nav'[q] # None =>
          /\ nav[q] # None /\ nav'[q].to = nav[q].to
          /\ q # p => nav'[q] = nav[q]
    BY <1>1, <2>1, <2>4 DEF Waits
  <2>6. GoingIsListed'
    BY <2>2, <2>3, <2>5 DEF Watches, GoingIsListed
  <2>7. Attended'
    BY <2>1, <2>2, <2>5 DEF Watches, Attended, ListedIsFetching, NavIsAllowed, NoDeniedDocument
  <2> QED BY <2>6, <2>7 DEF Watches
<1>5. ASSUME NEW p \in Pages, AttachFails(p) PROVE Watches'
  <2>1. /\ watch[p] = "attaching" /\ watch' = [watch EXCEPT ![p] = "none"]
        /\ nav' = [nav EXCEPT ![p] = None]
        /\ fetching' = fetching /\ policy' = policy /\ loaded' = loaded
    BY <1>5 DEF AttachFails
  <2> QED BY <1>1, <2>1, LesserWatches DEF Listed
<1>6. ASSUME NEW p \in Pages, Denies(p), policy' = policy, loaded' = loaded PROVE Watches'
  BY <1>1, <1>6, LesserWatches DEF Denies, guardVars, Listed
<1>7. ASSUME NEW p \in Pages, Navigate(p) PROVE Watches'
  <2>1. PICK to \in Destinations : IF DomainAllowed(policy, to) THEN LetsPass(p, to) ELSE Denies(p)
    BY <1>7 DEF Navigate
  <2>2. policy' = policy /\ loaded' = loaded
    BY <1>7 DEF Navigate
  <2> QED BY <1>6, <2>1, <2>2, PassWatches
<1>8. ASSUME NEW p \in Pages, Redirect(p) PROVE Watches'
  <2>1. PICK to \in Destinations :
          IF p \in fetching /\ ~DomainAllowed(policy, to) THEN Denies(p)
          ELSE nav' = [nav EXCEPT ![p].to = to] /\ UNCHANGED <<guardVars, callVars>>
    BY <1>8 DEF Redirect
  <2>2. policy' = policy /\ loaded' = loaded /\ nav[p] # None /\ nav[p].at = "going"
    BY <1>8 DEF Redirect
  <2>3. CASE ~(p \in fetching /\ ~DomainAllowed(policy, to))
    <3>1. nav' = [nav EXCEPT ![p].to = to] /\ watch' = watch /\ fetching' = fetching
      BY <2>1, <2>3 DEF guardVars
    <3>2. nav'[p] = [nav[p] EXCEPT !.to = to] /\ nav[p] \in NavStates
      BY <1>1, <2>2, <3>1
    <3>3. nav'[p].to = to /\ nav'[p].at = nav[p].at
      BY <3>2 DEF NavStates
    <3>4. \A q \in Pages : q # p => nav'[q] = nav[q]
      BY <1>1, <3>1
    <3>5. \A q \in Pages : Listed(q)' = Listed(q)
      BY <3>1 DEF Listed
    <3>6. Listed(p)
      BY <2>2 DEF Watches, GoingIsListed
    <3>7. GoingIsListed'
      BY <3>4, <3>5, <3>6 DEF Watches, GoingIsListed
    <3>8. Attended'
      <4> SUFFICES ASSUME ~CdpFails PROVE (ListedIsFetching /\ NavIsAllowed /\ NoDeniedDocument)'
        BY CdpFailsIsBoolean DEF Attended
      <4>1. ListedIsFetching /\ NavIsAllowed /\ NoDeniedDocument
        BY DEF Watches, Attended
      <4>2. DomainAllowed(policy, to)
        BY <2>3, <3>6, <4>1 DEF ListedIsFetching
      <4>3. NavIsAllowed'
        BY <2>2, <3>3, <3>4, <4>1, <4>2 DEF NavIsAllowed
      <4> QED BY <2>2, <3>1, <3>5, <4>1, <4>3 DEF ListedIsFetching, NoDeniedDocument
    <3> QED BY <3>7, <3>8 DEF Watches
  <2> QED BY <1>6, <2>1, <2>2, <2>3
<1>9. ASSUME NEW p \in Pages, Load(p) PROVE Watches'
  <2>1. /\ nav[p] # None /\ loaded' = [loaded EXCEPT ![p] = nav[p].to]
        /\ nav' = [nav EXCEPT ![p] = None]
        /\ policy' = policy /\ watch' = watch /\ fetching' = fetching
    BY <1>9 DEF Load, guardVars
  <2>2. \A q \in Pages : Listed(q)' = Listed(q)
    BY <2>1 DEF Listed
  <2>3. GoingIsListed'
    BY <1>1, <2>1, <2>2 DEF Watches, GoingIsListed
  <2>4. Attended'
    <3> SUFFICES ASSUME ~CdpFails PROVE (ListedIsFetching /\ NavIsAllowed /\ NoDeniedDocument)'
      BY CdpFailsIsBoolean DEF Attended
    <3>1. ListedIsFetching /\ NavIsAllowed /\ NoDeniedDocument
      BY DEF Watches, Attended
    <3>2. NavIsAllowed'
      BY <1>1, <2>1, <3>1 DEF NavIsAllowed
    <3>3. NoDeniedDocument'
      BY <1>1, <2>1, <3>1 DEF NavIsAllowed, NoDeniedDocument
    <3> QED BY <2>1, <2>2, <3>1, <3>2, <3>3 DEF ListedIsFetching
  <2> QED BY <2>3, <2>4 DEF Watches
<1>10. ASSUME NEW p \in Pages, NEW q \in Pages, Popup(p, q) PROVE Watches'
  <2>1. /\ policy' = policy /\ nav' = nav /\ loaded' = loaded /\ fetching' = fetching
        /\ watch' = [watch EXCEPT ![q] = IF @ = "none" THEN "attaching" ELSE @]
    BY <1>10 DEF Popup, Attaching
  <2>2. \A r \in Pages : Listed(r)' = Listed(r)
    BY <1>1, <2>1 DEF Listed
  <2> QED BY <2>1, <2>2, LesserWatches
<1>11. ASSUME NEW p \in Pages, PageCloses(p) PROVE Watches'
  BY <1>11, CloseWatches DEF PageCloses
<1>12. CASE ContextCloses
  BY <1>1, <1>12, CloseWatches DEF ContextCloses
<1>13. ASSUME NEW c \in Calls, SettleViolation(c) \/ \E p \in Pages : CheckpointBegins(c, p)
       PROVE Watches'
  BY <1>2, <1>13 DEF SettleViolation, CheckpointBegins, browserVars, guardVars
<1>14. ASSUME NEW p \in Pages, TellOpener(p) PROVE Watches'
  BY <1>2, <1>14 DEF TellOpener, browserVars, guardVars
<1>15. CASE UNCHANGED vars
  BY <1>2, <1>15 DEF vars, browserVars, guardVars
<1> QED
  BY <1>3, <1>4, <1>5, <1>7, <1>8, <1>9, <1>10, <1>11, <1>12, <1>13, <1>14, <1>15
  DEF GuardNext, AttachStep

-----------------------------------------------------------------------------
(* The calls.                                                               *)

(* Whoever was due stays so when violations are recorded.                   *)
LEMMA AssigningKeeps ==
  ASSUME GuardTypeOK, DueIsKept, NEW calls \in SUBSET Calls,
         \A c \in calls : Pending(c), NEW via \in Violations,
         check' = Assigned(calls, via), verdict' = verdict, closed' = closed,
         due' \in {due, due \cup calls}
  PROVE  DueIsKept'
<1>1. check \in [Calls -> Checkpoint \cup {None}] /\ due \subseteq Calls
  BY DEF GuardTypeOK
<1>2. /\ \A c \in calls : Assigned(calls, via)[c].violation # None
      /\ \A c \in Calls : check[c] # None =>
           /\ Assigned(calls, via)[c] # None
           /\ check[c].violation # None => Assigned(calls, via)[c].violation # None
  BY <1>1, AssignedTyped
<1> QED BY <1>1, <1>2 DEF DueIsKept, Pending

LEMMA RecordingKeeps ==
  ASSUME GuardTypeOK, DueIsKept, closed' = closed, NEW p \in Pages, RecordViolation(p)
  PROVE  DueIsKept'
<1>1. "page" \in Violations /\ PendingOn(p) \in SUBSET Calls /\ \A c \in PendingOn(p) : Pending(c)
  BY DEF Violations, PendingOn
<1>2. check' = Assigned(PendingOn(p), "page") /\ due' = due \cup PendingOn(p) /\ verdict' = verdict
  BY DEF RecordViolation
<1> QED BY <1>1, <1>2, AssigningKeeps

LEMMA UnattributedKeeps ==
  ASSUME GuardTypeOK, DueIsKept, closed' = closed, RecordUnattributedViolation
  PROVE  DueIsKept'
<1> DEFINE pending == {c \in Calls : Pending(c)}
<1>1. "popup" \in Violations /\ pending \in SUBSET Calls /\ \A c \in pending : Pending(c)
  BY DEF Violations
<1>2. check' = Assigned(pending, "popup") /\ due' = due \cup pending /\ verdict' = verdict
  BY DEF RecordUnattributedViolation
<1> HIDE DEF pending
<1> QED BY <1>1, <1>2, AssigningKeeps

LEMMA StepKeeps == GuardTypeOK /\ DueIsKept /\ [GuardNext]_vars => DueIsKept'
<1> SUFFICES ASSUME GuardTypeOK, DueIsKept, [GuardNext]_vars PROVE DueIsKept'
  OBVIOUS
<1>1. /\ check \in [Calls -> Checkpoint \cup {None}] /\ due \subseteq Calls
      /\ verdict \in [Calls -> {"none", "ok", "denied"}]
  BY DEF GuardTypeOK
<1>2. ASSUME UNCHANGED <<callVars, closed>> PROVE DueIsKept'
  BY <1>2 DEF callVars, DueIsKept
<1>3. ASSUME NEW c \in Calls, SettleViolation(c) PROVE DueIsKept'
  <2>1. /\ verdict[c] = "none" /\ check' = check /\ due' = due /\ closed' = closed
        /\ verdict' = [verdict EXCEPT ![c] = IF check[c].violation = None THEN "ok" ELSE "denied"]
    BY <1>3 DEF SettleViolation, Pending, browserVars
  <2> QED BY <1>1, <2>1 DEF DueIsKept
<1>4. ASSUME NEW c \in Calls, NEW p \in Pages, CheckpointBegins(c, p) PROVE DueIsKept'
  <2>1. /\ check[c] = None /\ due' = due /\ verdict' = verdict /\ closed' = closed
        /\ check' = [check EXCEPT ![c] = [page |-> p, violation |-> None]]
    BY <1>4 DEF CheckpointBegins, browserVars
  <2>2. c \notin due
    BY <2>1 DEF DueIsKept
  <2> QED BY <1>1, <2>1, <2>2 DEF DueIsKept
<1>5. ASSUME NEW p \in Pages, TellOpener(p) PROVE DueIsKept'
  <2>1. /\ check' = IF p \in open THEN Assigned(PendingOn(p), "opener") ELSE check
        /\ due' = due /\ verdict' = verdict /\ closed' = closed
    BY <1>5 DEF TellOpener, browserVars
  <2>2. "opener" \in Violations /\ PendingOn(p) \in SUBSET Calls /\ \A c \in PendingOn(p) : Pending(c)
    BY DEF Violations, PendingOn
  <2>3. CASE p \in open
    BY <2>1, <2>2, <2>3, AssigningKeeps
  <2>4. CASE p \notin open
    BY <2>1, <2>4 DEF DueIsKept
  <2> QED BY <2>3, <2>4
<1>6. ASSUME NEW p \in Pages, AttachStep(p) \/ PageCloses(p) \/ Load(p) PROVE DueIsKept'
  BY <1>2, <1>6 DEF AttachStep, AttachLists, AttachEnds, AttachFails, PageCloses, Load, browserVars
<1>7. ASSUME NEW p \in Pages, Navigate(p) PROVE DueIsKept'
  <2>1. closed' = closed /\ (UNCHANGED callVars \/ RecordViolation(p))
    BY <1>7 DEF Navigate, LetsPass, Denies
  <2> QED BY <1>2, <2>1, RecordingKeeps
<1>8. ASSUME NEW p \in Pages, Redirect(p) PROVE DueIsKept'
  <2>1. closed' = closed /\ (UNCHANGED callVars \/ RecordViolation(p))
    BY <1>8 DEF Redirect, Denies
  <2> QED BY <1>2, <2>1, RecordingKeeps
<1>9. ASSUME NEW p \in Pages, NEW q \in Pages, Popup(p, q) PROVE DueIsKept'
  <2>1. closed' = closed /\ (UNCHANGED callVars \/ RecordUnattributedViolation)
    BY <1>9 DEF Popup
  <2> QED BY <1>2, <2>1, UnattributedKeeps
<1>10. CASE ContextCloses
  <2>1. /\ closed' = TRUE /\ due' = due /\ verdict' = verdict
        /\ check' = [c \in Calls |-> IF Pending(c) THEN [check[c] EXCEPT !.violation = None]
                                     ELSE check[c]]
    BY <1>10 DEF ContextCloses
  <2>2. \A c \in Calls : Pending(c) => [check[c] EXCEPT !.violation = None] \in Checkpoint
    BY <1>1 DEF Pending, Checkpoint
  <2>3. \A c \in due : check'[c] # None
    BY <1>1, <2>1, <2>2, NoneIsNothing DEF DueIsKept
  <2> QED BY <2>1, <2>3 DEF DueIsKept
<1>11. CASE UNCHANGED vars
  BY <1>2, <1>11 DEF vars, browserVars
<1> QED
  BY <1>3, <1>4, <1>5, <1>6, <1>7, <1>8, <1>9, <1>10, <1>11 DEF GuardNext

LEMMA Invariance == GuardSpec => []IInv
<1>1. GuardInit => IInv
  <2> SUFFICES ASSUME GuardInit PROVE IInv
    OBVIOUS
  <2>1. Watches
    BY FirstPageIsAPage DEF GuardInit, Watches, GoingIsListed, Attended, ListedIsFetching,
      NavIsAllowed, NoDeniedDocument, Listed
  <2>2. DueIsKept
    BY DEF GuardInit, DueIsKept
  <2> QED BY <2>1, <2>2, InitTypes DEF IInv
<1>2. IInv /\ [GuardNext]_vars => IInv'
  BY StepTypes, StepWatches, StepKeeps DEF IInv
<1> QED BY <1>1, <1>2, PTL DEF GuardSpec

-----------------------------------------------------------------------------
(* Theorems.                                                                *)

(* Pages, sessions, navigations and checkpoints keep the forms that         *)
(* src/tools/navigation-policy.ts gives them; a handler waits only while    *)
(* its page is being attached.                                              *)
THEOREM TypeCorrect == GuardSpec => []GuardTypeOK
<1>1. IInv => GuardTypeOK
  BY DEF IInv
<1> QED BY <1>1, Invariance, PTL

(* If the browser attaches every page it is asked to, no page ever shows a  *)
(* document the policy denies, whatever redirects and popups there are and  *)
(* however they interleave with attachChromiumPage.                         *)
THEOREM DeniedIsNeverShown ==
  ASSUME ~CdpFails
  PROVE  GuardSpec => []NoDeniedDocument
<1>1. IInv => NoDeniedDocument
  BY DEF IInv, Watches, Attended
<1> QED BY <1>1, Invariance, PTL

(* A call during which a navigation of its page or the first document of a  *)
(* popup was blocked never settles as allowed (recordViolation and          *)
(* settleViolation), unless the context was closed.                         *)
THEOREM BlockedCallsAreDenied == GuardSpec => []BlockedIsReported
<1>1. IInv => BlockedIsReported
  BY DEF IInv, DueIsKept, BlockedIsReported
<1> QED BY <1>1, Invariance, PTL
-----------------------------------------------------------------------------
(* The positions of a set in order: each is where its rank says, and ranks  *)
(* grow with positions.                                                     *)
UpTo(P, p) == {q \in P : q <= p}

LEMMA RanksAreNumbers ==
  ASSUME NEW P \in SUBSET Nat, IsFiniteSet(P), NEW p \in P
  PROVE  IsFiniteSet(UpTo(P, p)) /\ Cardinality(UpTo(P, p)) \in 1..Cardinality(P)
<1>1. UpTo(P, p) \in SUBSET P /\ p \in UpTo(P, p)
  BY DEF UpTo
<1>2. IsFiniteSet(UpTo(P, p)) /\ Cardinality(UpTo(P, p)) <= Cardinality(P)
  BY <1>1, FS_Subset
<1>3. Cardinality(UpTo(P, p)) # 0
  BY <1>1, <1>2, FS_EmptySet
<1> QED BY <1>2, <1>3, FS_CardinalityType

LEMMA RanksGrow ==
  ASSUME NEW P \in SUBSET Nat, IsFiniteSet(P), NEW p \in P, NEW q \in P, p < q
  PROVE  Cardinality(UpTo(P, p)) < Cardinality(UpTo(P, q))
<1>0. \A r \in P : r \in Nat
  OBVIOUS
<1>4. p \in Nat /\ q \in Nat
  BY <1>0
<1>5. \A r \in P : r <= p => r <= q
  BY <1>0, <1>4
<1>1. UpTo(P, p) \in SUBSET UpTo(P, q) /\ q \in UpTo(P, q) /\ q \notin UpTo(P, p)
  <2>1. UpTo(P, p) \in SUBSET UpTo(P, q)
    BY <1>5 DEF UpTo
  <2>2. q \in UpTo(P, q) /\ q \notin UpTo(P, p)
    BY <1>4 DEF UpTo
  <2> QED BY <2>1, <2>2
<1>2. IsFiniteSet(UpTo(P, q)) /\ Cardinality(UpTo(P, q)) \in Nat /\ Cardinality(UpTo(P, p)) \in Nat
  BY RanksAreNumbers
<1>3. /\ Cardinality(UpTo(P, p)) <= Cardinality(UpTo(P, q))
      /\ Cardinality(UpTo(P, q)) = Cardinality(UpTo(P, p)) => UpTo(P, q) = UpTo(P, p)
  BY <1>1, <1>2, FS_Subset
<1>6. UpTo(P, q) # UpTo(P, p)
  BY <1>1
<1>7. Cardinality(UpTo(P, q)) # Cardinality(UpTo(P, p))
  BY <1>3, <1>6, Zenon
<1> QED BY <1>2, <1>3, <1>7

LEMMA PlacesInOrder ==
  ASSUME NEW P \in SUBSET Nat, IsFiniteSet(P)
  PROVE  /\ Cardinality(P) \in Nat
         /\ Places(P) \in [1..Cardinality(P) -> P]
         /\ \A j \in 1..Cardinality(P) : Cardinality(UpTo(P, Places(P)[j])) = j
         /\ \A p \in P : /\ Cardinality(UpTo(P, p)) \in 1..Cardinality(P)
                         /\ Places(P)[Cardinality(UpTo(P, p))] = p
<1> DEFINE n == Cardinality(P)
           rank == [p \in P |-> Cardinality(UpTo(P, p))]
<1>1. n \in Nat
  BY FS_CardinalityType
<1>2. rank \in [P -> 1..n]
  BY RanksAreNumbers
<1>3. \A p, q \in P : rank[p] = rank[q] => p = q
  <2> SUFFICES ASSUME NEW p \in P, NEW q \in P, rank[p] = rank[q], p # q PROVE FALSE
    OBVIOUS
  <2>1. rank[p] \in Nat /\ rank[q] \in Nat /\ p \in Nat /\ q \in Nat
    BY <1>1, <1>2
  <2>2. CASE p < q
    BY <2>1, <2>2, RanksGrow
  <2>3. CASE q < p
    BY <2>1, <2>3, RanksGrow
  <2> QED BY <2>1, <2>2, <2>3
<1>4. rank \in Injection(P, 1..n)
  BY <1>2, <1>3 DEF Injection, IsInjective
<1>5. IsFiniteSet(1..n) /\ Cardinality(1..n) = n
  BY <1>1, FS_Interval
<1>6. rank \in Surjection(P, 1..n)
  BY <1>4, <1>5, FS_Injection
<1>7. \A j \in 1..n : \E p \in P : Cardinality(UpTo(P, p)) = j
  BY <1>6 DEF Surjection
<1>8. \A j \in 1..n : Place(P, j) \in P /\ Cardinality(UpTo(P, Place(P, j))) = j
  <2> SUFFICES ASSUME NEW j \in 1..n
               PROVE  Place(P, j) \in P /\ Cardinality(UpTo(P, Place(P, j))) = j
    OBVIOUS
  <2>1. PICK p \in P : Cardinality(UpTo(P, p)) = j
    BY <1>7
  <2> QED BY <2>1 DEF Place, UpTo
<1>9. \A p \in P : Cardinality(UpTo(P, p)) \in 1..n
                   /\ Place(P, Cardinality(UpTo(P, p))) = p
  <2> SUFFICES ASSUME NEW p \in P
               PROVE  /\ Cardinality(UpTo(P, p)) \in 1..n
                      /\ Place(P, Cardinality(UpTo(P, p))) = p
    OBVIOUS
  <2> DEFINE q == Place(P, Cardinality(UpTo(P, p)))
  <2>1. Cardinality(UpTo(P, p)) \in 1..n
    BY RanksAreNumbers
  <2>2. q \in P /\ Cardinality(UpTo(P, q)) = Cardinality(UpTo(P, p))
    BY <2>1, <1>8
  <2>3. q = p
    BY <2>2, <1>3
  <2> QED BY <2>1, <2>3
<1>10. Places(P) \in [1..n -> P] /\ \A j \in 1..n : Places(P)[j] = Place(P, j)
  BY <1>8 DEF Places
<1> HIDE DEF n, rank
<1>11. \A j \in 1..n : Cardinality(UpTo(P, Places(P)[j])) = j
  BY <1>8, <1>10
<1>12. \A p \in P : Places(P)[Cardinality(UpTo(P, p))] = p
  BY <1>9, <1>10
<1> QED BY <1>1, <1>9, <1>10, <1>11, <1>12 DEF n

LEMMA PlacesGrow ==
  ASSUME NEW P \in SUBSET Nat, IsFiniteSet(P),
         NEW i \in 1..Cardinality(P), NEW j \in 1..Cardinality(P), i < j
  PROVE  Places(P)[i] < Places(P)[j]
<1> DEFINE p == Places(P)[i]  q == Places(P)[j]
<1>1. p \in P /\ q \in P /\ Cardinality(UpTo(P, p)) = i /\ Cardinality(UpTo(P, q)) = j
  BY PlacesInOrder
<1>2. Cardinality(P) \in Nat
  BY FS_CardinalityType
<1> HIDE DEF p, q
<1>3. p \in Nat /\ q \in Nat /\ i \in Nat /\ j \in Nat
  BY <1>1, <1>2
<1>4. CASE q < p
  <2>1. Cardinality(UpTo(P, q)) < Cardinality(UpTo(P, p))
    BY <1>1, <1>4, RanksGrow
  <2> QED BY <2>1, <1>1, <1>3
<1>5. p # q
  BY <1>1, <1>3
<1> QED BY <1>3, <1>4, <1>5 DEF p, q

(* What is picked from a sequence is in the set and in the sequence, and    *)
(* whatever of the sequence is in the set is found at its rank.             *)
Picked(s, S) == {i \in DOMAIN s : s[i] \in S}

LEMMA PickedPlaces ==
  ASSUME NEW T, NEW s \in Seq(T), NEW S
  PROVE  Picked(s, S) \in SUBSET Nat /\ IsFiniteSet(Picked(s, S))
<1>1. Len(s) \in Nat /\ DOMAIN s = 1..Len(s)
  OBVIOUS
<1>2. IsFiniteSet(1..Len(s))
  BY <1>1, FS_Interval
<1>3. Picked(s, S) \in SUBSET (1..Len(s))
  BY <1>1 DEF Picked
<1>4. IsFiniteSet(Picked(s, S))
  BY <1>2, <1>3, FS_Subset
<1> QED BY <1>1, <1>3, <1>4

LEMMA ThosePicked ==
  ASSUME NEW T, NEW s \in Seq(T), NEW S
  PROVE  /\ Those(s, S) \in Seq(T)
         /\ Len(Those(s, S)) = Cardinality(Picked(s, S))
         /\ \A j \in DOMAIN Those(s, S) :
              Those(s, S)[j] \in S /\ \E i \in DOMAIN s : Those(s, S)[j] = s[i]
         /\ \A i \in Picked(s, S) :
              /\ Cardinality(UpTo(Picked(s, S), i)) \in DOMAIN Those(s, S)
              /\ Those(s, S)[Cardinality(UpTo(Picked(s, S), i))] = s[i]
<1> DEFINE P == Picked(s, S)  at == Places(P)  n == Cardinality(P)
<1>1. /\ n \in Nat /\ at \in [1..n -> P]
      /\ \A p \in P : Cardinality(UpTo(P, p)) \in 1..n /\ at[Cardinality(UpTo(P, p))] = p
  BY PickedPlaces, PlacesInOrder
<1>2. Those(s, S) = [j \in DOMAIN at |-> s[at[j]]]
  BY DEF Those, Picked
<1>3. \A p \in P : p \in DOMAIN s /\ s[p] \in S /\ s[p] \in T
  BY DEF Picked
<1> HIDE DEF P, n, at
<1>4. DOMAIN at = 1..n
  BY <1>1
<1>5. /\ DOMAIN Those(s, S) = 1..n
      /\ \A j \in 1..n : at[j] \in P /\ Those(s, S)[j] = s[at[j]]
  BY <1>1, <1>2, <1>4
<1>6. Those(s, S) \in [1..n -> T]
  BY <1>2, <1>3, <1>4, <1>5
<1>7. Those(s, S) \in Seq(T) /\ Len(Those(s, S)) = n
  BY <1>1, <1>6
<1>8. \A j \in DOMAIN Those(s, S) :
        Those(s, S)[j] \in S /\ \E i \in DOMAIN s : Those(s, S)[j] = s[i]
  BY <1>3, <1>5
<1>9. \A i \in P : /\ Cardinality(UpTo(P, i)) \in DOMAIN Those(s, S)
                   /\ Those(s, S)[Cardinality(UpTo(P, i))] = s[i]
  BY <1>1, <1>5
<1> QED BY <1>7, <1>8, <1>9 DEF P, n

(* Two sets of positions of one size, one mapped into the other in order:   *)
(* what corresponds has the same rank.                                      *)
LEMMA RanksCorrespond ==
  ASSUME NEW E \in SUBSET Nat, NEW D \in SUBSET Nat, IsFiniteSet(E), IsFiniteSet(D),
         Cardinality(E) = Cardinality(D), NEW g \in [E -> D],
         \A i, j \in E : i < j => g[i] < g[j],
         NEW i \in E
  PROVE  Cardinality(UpTo(E, i)) = Cardinality(UpTo(D, g[i]))
<1>1. \A a \in E : a \in Nat
  OBVIOUS
<1>2. \A a \in D : a \in Nat
  OBVIOUS
<1>3. \A a \in E : g[a] \in D /\ g[a] \in Nat
  BY <1>2
<1>4. \A a, b \in E : g[a] = g[b] => a = b
  <2> SUFFICES ASSUME NEW a \in E, NEW b \in E, g[a] = g[b], a # b PROVE FALSE
    OBVIOUS
  <2>1. a \in Nat /\ b \in Nat /\ g[a] \in Nat /\ g[b] \in Nat
    BY <1>1, <1>3
  <2>2. a < b \/ b < a
    BY <2>1
  <2>3. g[a] < g[b] \/ g[b] < g[a]
    BY <2>2
  <2> QED BY <2>1, <2>3
<1>5. g \in Injection(E, D)
  BY <1>4 DEF Injection, IsInjective
<1>6. g \in Surjection(E, D)
  BY <1>5, FS_Injection
<1>7. \A d \in D : \E a \in E : g[a] = d
  BY <1>6 DEF Surjection
<1>8. \A a \in E : a <= i <=> g[a] <= g[i]
  <2> SUFFICES ASSUME NEW a \in E PROVE a <= i <=> g[a] <= g[i]
    OBVIOUS
  <2>1. a \in Nat /\ i \in Nat /\ g[a] \in Nat /\ g[i] \in Nat
    BY <1>1, <1>3
  <2>2. CASE a < i
    <3>1. g[a] < g[i]
      BY <2>2
    <3> QED BY <2>1, <2>2, <3>1
  <2>3. CASE i < a
    <3>1. g[i] < g[a]
      BY <2>3
    <3> QED BY <2>1, <2>3, <3>1
  <2>4. CASE i = a
    BY <2>1, <2>4
  <2> QED BY <2>1, <2>2, <2>3, <2>4
<1> DEFINE h == [a \in UpTo(E, i) |-> g[a]]
<1>9. h \in [UpTo(E, i) -> UpTo(D, g[i])]
  BY <1>3, <1>8 DEF UpTo
<1>10. \A a, b \in UpTo(E, i) : h[a] = h[b] => a = b
  BY <1>4 DEF UpTo
<1>11. \A d \in UpTo(D, g[i]) : \E a \in UpTo(E, i) : h[a] = d
  <2> SUFFICES ASSUME NEW d \in D, d <= g[i] PROVE \E a \in UpTo(E, i) : h[a] = d
    BY DEF UpTo
  <2>1. PICK a \in E : g[a] = d
    BY <1>7
  <2>2. a \in UpTo(E, i)
    BY <2>1, <1>8 DEF UpTo
  <2> QED BY <2>1, <2>2
<1>12. h \in Bijection(UpTo(E, i), UpTo(D, g[i]))
  BY <1>9, <1>10, <1>11 DEF Bijection, Injection, Surjection, IsInjective
<1>13. IsFiniteSet(UpTo(E, i))
  BY RanksAreNumbers
<1> QED BY <1>12, <1>13, FS_Bijection DEF ExistsBijection

-----------------------------------------------------------------------------
(* Playwright's numbers are never taken back, and every element of the tree *)
(* gets one.                                                                *)
LEMMA ElementsOfTree ==
  ASSUME ReferencesTypeOK, NEW f \in Frames
  PROVE  /\ dom[f] \in Seq(Elements) /\ numbered[f] \in Seq(Elements)
         /\ InTree(f) \subseteq Elements
         /\ \A e \in InTree(f) : kind[e].aria # Nothing /\ \E i \in DOMAIN dom[f] : dom[f][i] = e
<1>1. dom[f] \in Seq(Elements) /\ numbered[f] \in Seq(Elements)
  BY DEF ReferencesTypeOK
<1>2. \A i \in DOMAIN dom[f] : dom[f][i] \in Elements
  BY <1>1
<1> QED BY <1>1, <1>2 DEF InTree, ToSet

LEMMA NumbersStay ==
  ASSUME ReferencesTypeOK, NEW f \in Frames
  PROVE  /\ Number(f) \in Seq(Elements)
         /\ \A n \in DOMAIN numbered[f] :
              n \in DOMAIN Number(f) /\ Number(f)[n] = numbered[f][n]
         /\ \A e \in InTree(f) : \E n \in DOMAIN Number(f) : Number(f)[n] = e
<1> DEFINE S == InTree(f) \ ToSet(numbered[f])  new == Those(dom[f], S)
<1>1. dom[f] \in Seq(Elements) /\ numbered[f] \in Seq(Elements)
  BY ElementsOfTree
<1>2. /\ new \in Seq(Elements)
      /\ \A i \in Picked(dom[f], S) :
           /\ Cardinality(UpTo(Picked(dom[f], S), i)) \in DOMAIN new
           /\ new[Cardinality(UpTo(Picked(dom[f], S), i))] = dom[f][i]
  BY <1>1, ThosePicked
<1>3. Number(f) = numbered[f] \o new
  BY DEF Number
<1>4. \A e \in S : \E j \in DOMAIN new : new[j] = e
  <2> SUFFICES ASSUME NEW e \in S PROVE \E j \in DOMAIN new : new[j] = e
    OBVIOUS
  <2>1. PICK i \in DOMAIN dom[f] : dom[f][i] = e
    BY ElementsOfTree
  <2>2. i \in Picked(dom[f], S)
    BY <2>1 DEF Picked
  <2> QED BY <1>2, <2>1, <2>2
<1> HIDE DEF new
<1>5. /\ Number(f) \in Seq(Elements)
      /\ \A n \in DOMAIN numbered[f] :
           n \in DOMAIN Number(f) /\ Number(f)[n] = numbered[f][n]
      /\ \A j \in DOMAIN new :
           Len(numbered[f]) + j \in DOMAIN Number(f) /\ Number(f)[Len(numbered[f]) + j] = new[j]
  BY <1>1, <1>2, <1>3
<1>6. \A e \in InTree(f) : \E n \in DOMAIN Number(f) : Number(f)[n] = e
  <2> SUFFICES ASSUME NEW e \in InTree(f) PROVE \E n \in DOMAIN Number(f) : Number(f)[n] = e
    OBVIOUS
  <2>1. CASE e \in ToSet(numbered[f])
    <3>1. PICK n \in DOMAIN numbered[f] : numbered[f][n] = e
      BY <2>1 DEF ToSet
    <3> QED BY <1>5, <3>1
  <2>2. CASE e \notin ToSet(numbered[f])
    <3>1. PICK j \in DOMAIN new : new[j] = e
      BY <1>4, <2>2
    <3> QED BY <1>5, <3>1
  <2> QED BY <2>1, <2>2
<1> QED BY <1>5, <1>6

LEMMA QueuesHoldRefs ==
  ASSUME ReferencesTypeOK, NEW f \in Frames
  PROVE  /\ Queues(f) \in [Keys -> Seq(Refs)]
         /\ \A k \in Keys :
              /\ OfKey(f, k) \in Seq(Elements)
              /\ Len(Queues(f)[k]) = Len(OfKey(f, k))
              /\ \A i \in DOMAIN Queues(f)[k] :
                   /\ Queues(f)[k][i].frame = f
                   /\ Queues(f)[k][i].n \in DOMAIN Number(f)
                   /\ Number(f)[Queues(f)[k][i].n] = OfKey(f, k)[i]
                   /\ OfKey(f, k)[i] \in InTree(f)
<1>1. \A e \in InTree(f) : /\ Ref(f, e) \in Refs /\ Ref(f, e).frame = f
                           /\ Ref(f, e).n \in DOMAIN Number(f)
                           /\ Number(f)[Ref(f, e).n] = e
  <2> SUFFICES ASSUME NEW e \in InTree(f)
               PROVE  /\ Ref(f, e) \in Refs /\ Ref(f, e).frame = f
                      /\ Ref(f, e).n \in DOMAIN Number(f)
                      /\ Number(f)[Ref(f, e).n] = e
    OBVIOUS
  <2> DEFINE n == CHOOSE n \in DOMAIN Number(f) : Number(f)[n] = e
  <2>1. n \in DOMAIN Number(f) /\ Number(f)[n] = e
    BY NumbersStay
  <2>2. Number(f) \in Seq(Elements)
    BY NumbersStay
  <2>3. Ref(f, e) = [frame |-> f, n |-> n]
    BY DEF Ref
  <2> HIDE DEF n
  <2>4. n \in Nat
    BY <2>1, <2>2
  <2> QED BY <2>1, <2>3, <2>4 DEF Refs
<1>2. \A k \in Keys : /\ OfKey(f, k) \in Seq(Elements)
                      /\ \A i \in DOMAIN OfKey(f, k) : OfKey(f, k)[i] \in InTree(f)
  BY ElementsOfTree, ThosePicked DEF OfKey
<1>3. /\ DOMAIN Queues(f) = Keys
      /\ Queues(f) = [k \in Keys |-> Queues(f)[k]]
      /\ \A k \in Keys :
           Queues(f)[k] = [i \in DOMAIN OfKey(f, k) |-> Ref(f, OfKey(f, k)[i])]
  BY DEF Queues
<1>4. \A k \in Keys : /\ Queues(f)[k] \in Seq(Refs) /\ Len(Queues(f)[k]) = Len(OfKey(f, k))
                      /\ DOMAIN Queues(f)[k] = DOMAIN OfKey(f, k)
                      /\ \A i \in DOMAIN Queues(f)[k] : Queues(f)[k][i] = Ref(f, OfKey(f, k)[i])
  <2> SUFFICES ASSUME NEW k \in Keys
               PROVE  /\ Queues(f)[k] \in Seq(Refs) /\ Len(Queues(f)[k]) = Len(OfKey(f, k))
                      /\ DOMAIN Queues(f)[k] = DOMAIN OfKey(f, k)
                      /\ \A i \in DOMAIN Queues(f)[k] : Queues(f)[k][i] = Ref(f, OfKey(f, k)[i])
    OBVIOUS
  <2> DEFINE own == OfKey(f, k)  q == Queues(f)[k]
  <2>1. own \in Seq(Elements) /\ \A i \in DOMAIN own : Ref(f, own[i]) \in Refs
    BY <1>1, <1>2
  <2>2. q = [i \in DOMAIN own |-> Ref(f, own[i])]
    BY <1>3
  <2> HIDE DEF own, q
  <2>3. DOMAIN own = 1..Len(own) /\ Len(own) \in Nat
    BY <2>1
  <2>4. q \in [1..Len(own) -> Refs] /\ \A i \in DOMAIN q : q[i] = Ref(f, own[i])
    BY <2>1, <2>2, <2>3
  <2>5. q \in Seq(Refs) /\ Len(q) = Len(own)
    BY <2>3, <2>4
  <2> QED BY <2>3, <2>4, <2>5 DEF own, q
<1>5. Queues(f) \in [Keys -> Seq(Refs)]
  BY <1>3, <1>4
<1> QED BY <1>1, <1>2, <1>4, <1>5

(* What the collector sees is in the order of the document, each entry with *)
(* the key and the position of its element.                                 *)
Bare == [element : Elements, index : Nat, source : Sources, key : Keys,
         blocked : BOOLEAN, ref : {Nothing}]

ShowsItself(en) ==
  /\ en.index \in DOMAIN dom[en.source.frame]
  /\ en.element = dom[en.source.frame][en.index]
  /\ en.key = kind[en.element].dom

LEMMA EntriesInOrder ==
  ASSUME ReferencesTypeOK, NEW source \in Sources
  PROVE  /\ Entries(source) \in Seq(Bare)
         /\ \A j \in DOMAIN Entries(source) :
              Entries(source)[j].source = source /\ ShowsItself(Entries(source)[j])
         /\ \A i, j \in DOMAIN Entries(source) :
              i < j => Entries(source)[i].index < Entries(source)[j].index
<1> DEFINE all == dom[source.frame]
           P == {p \in DOMAIN all : p >= source.from /\ kind[all[p]].dom # Nothing}
           at == Places(P)  n == Cardinality(P)
           entry(p) == [element |-> all[p], index |-> p, source |-> source,
                        key |-> kind[all[p]].dom, blocked |-> Blocked(all[p]), ref |-> Nothing]
<1>1. source.frame \in Frames /\ all \in Seq(Elements)
  BY DEF Sources, ReferencesTypeOK
<1>2. Len(all) \in Nat /\ DOMAIN all = 1..Len(all)
  BY <1>1
<1>3. P \in SUBSET (1..Len(all)) /\ IsFiniteSet(1..Len(all))
  <2>1. P \in SUBSET DOMAIN all
    OBVIOUS
  <2> HIDE DEF P, all
  <2> QED BY <1>2, <2>1, FS_Interval
<1>4. P \in SUBSET Nat /\ IsFiniteSet(P)
  BY <1>2, <1>3, FS_Subset
<1>5. n \in Nat /\ at \in [1..n -> P]
  BY <1>4, PlacesInOrder
<1>6. \A i, j \in 1..n : i < j => at[i] < at[j]
  BY <1>4, PlacesGrow
<1>7. \A p \in P : p \in Nat /\ p \in DOMAIN all /\ all[p] \in Elements /\ kind[all[p]].dom \in Keys
  <2> SUFFICES ASSUME NEW p \in P
               PROVE  p \in Nat /\ p \in DOMAIN all /\ all[p] \in Elements /\ kind[all[p]].dom \in Keys
    OBVIOUS
  <2>1. p \in Nat /\ p \in DOMAIN all /\ kind[all[p]].dom # Nothing
    BY <1>4
  <2>2. all[p] \in Elements
    BY <1>1, <2>1
  <2>3. kind[all[p]] \in Kinds
    BY <2>2 DEF ReferencesTypeOK
  <2> QED BY <2>1, <2>2, <2>3 DEF Kinds
<1>8. \A e : Blocked(e) \in BOOLEAN
  BY DEF Blocked
<1>9. \A p \in P : entry(p) \in Bare
  BY <1>7, <1>8 DEF Bare
<1>10. Entries(source) = [j \in DOMAIN at |-> entry(at[j])]
  BY DEF Entries
<1> HIDE DEF P, at, n
<1>11. DOMAIN at = 1..n /\ \A j \in 1..n : at[j] \in P
  BY <1>5
<1>12. Entries(source) \in [1..n -> Bare] /\ \A j \in 1..n : Entries(source)[j] = entry(at[j])
  <2>1. \A j \in 1..n : entry(at[j]) \in Bare
    BY <1>9, <1>11
  <2> HIDE DEF entry
  <2> QED BY <1>10, <1>11, <2>1
<1>13. Entries(source) \in Seq(Bare) /\ DOMAIN Entries(source) = 1..n
  BY <1>5, <1>12
<1>14. \A j \in 1..n : /\ Entries(source)[j].source = source
                       /\ Entries(source)[j].index = at[j]
                       /\ ShowsItself(Entries(source)[j])
  BY <1>7, <1>11, <1>12 DEF ShowsItself
<1> QED BY <1>6, <1>13, <1>14

(* The entries of a key, and the rank of one among them.                    *)
HaveKey(entries, k) == {i \in DOMAIN entries : entries[i].key = k}

LEMMA RankOfEntry ==
  ASSUME NEW T, NEW es \in Seq(T), NEW k
  PROVE  /\ HaveKey(es, k) \in SUBSET Nat /\ IsFiniteSet(HaveKey(es, k))
         /\ Rank(k, Len(es), es) = Cardinality(HaveKey(es, k))
         /\ \A j \in HaveKey(es, k) :
              /\ Rank(k, j, es) = Cardinality(UpTo(HaveKey(es, k), j))
              /\ Rank(k, j, es) \in 1..Rank(k, Len(es), es)
<1> DEFINE E == HaveKey(es, k)
<1>1. Len(es) \in Nat /\ DOMAIN es = 1..Len(es)
  OBVIOUS
<1>2. E \in SUBSET (1..Len(es)) /\ IsFiniteSet(1..Len(es))
  BY <1>1, FS_Interval DEF HaveKey
<1>3. E \in SUBSET Nat /\ IsFiniteSet(E)
  BY <1>1, <1>2, FS_Subset
<1>4. E = {i \in 1..Len(es) : es[i].key = k}
  BY <1>1 DEF HaveKey
<1>5. \A j \in E : UpTo(E, j) = {i \in 1..j : es[i].key = k}
  BY <1>1, <1>4 DEF UpTo
<1> HIDE DEF E
<1>6. Rank(k, Len(es), es) = Cardinality(E)
  BY <1>4 DEF Rank
<1>7. \A j \in E : Rank(k, j, es) = Cardinality(UpTo(E, j))
  BY <1>5 DEF Rank
<1>8. \A j \in E : Cardinality(UpTo(E, j)) \in 1..Cardinality(E)
  BY <1>3, RanksAreNumbers
<1> QED BY <1>3, <1>6, <1>7, <1>8 DEF E

(* Each entry gets a positional name, or the ref of its rank.               *)
GetsRef(en, j, es, queues) ==
  \/ en.ref.frame = "any"
  \/ /\ ExactGroup(es[j].key, es, queues)
     /\ Rank(es[j].key, j, es) \in DOMAIN queues[es[j].key]
     /\ en.ref = queues[es[j].key][Rank(es[j].key, j, es)]

LEMMA NamesAreRefs ==
  ASSUME NEW es \in Seq(Bare), NEW queues \in [Keys -> Seq(Refs)], NEW next \in Nat
  PROVE  /\ Named(es, queues, next) \in Seq(Shown)
         /\ Len(Named(es, queues, next)) = Len(es)
         /\ \A j \in DOMAIN es :
              LET en == Named(es, queues, next)[j]
              IN  /\ en.element = es[j].element /\ en.index = es[j].index
                  /\ en.source = es[j].source /\ en.key = es[j].key
                  /\ GetsRef(en, j, es, queues)
<1> DEFINE ready == {i \in DOMAIN es : /\ ExactGroup(es[i].key, es, queues)
                                       /\ queues[es[i].key] # <<>>}
           rank(j) == Rank(es[j].key, j, es)
           ref(j) == IF j \in ready THEN queues[es[j].key][rank(j)]
                     ELSE [frame |-> "any", n |-> next + Cardinality((1..j - 1) \ ready)]
           named == Named(es, queues, next)
<1>1. Len(es) \in Nat /\ DOMAIN es = 1..Len(es)
  OBVIOUS
<1>2. \A j \in DOMAIN es : es[j] \in Bare /\ es[j].key \in Keys
  <2>1. \A j \in DOMAIN es : es[j] \in Bare
    OBVIOUS
  <2>2. \A en \in Bare : en.key \in Keys
    BY DEF Bare
  <2> QED BY <2>1, <2>2
<1>3. \A j \in ready : rank(j) \in DOMAIN queues[es[j].key] /\ ref(j) \in Refs
  <2> SUFFICES ASSUME NEW j \in ready
               PROVE  rank(j) \in DOMAIN queues[es[j].key] /\ ref(j) \in Refs
    OBVIOUS
  <2>1. j \in DOMAIN es /\ ExactGroup(es[j].key, es, queues)
    OBVIOUS
  <2>2. j \in HaveKey(es, es[j].key)
    BY <2>1 DEF HaveKey
  <2>3. rank(j) \in 1..Rank(es[j].key, Len(es), es)
    BY <2>2, RankOfEntry
  <2>4. queues[es[j].key] \in Seq(Refs)
    BY <1>2, <2>1
  <2>5. Len(queues[es[j].key]) = Rank(es[j].key, Len(es), es)
    BY <2>1 DEF ExactGroup
  <2> HIDE DEF rank, ready
  <2>6. rank(j) \in DOMAIN queues[es[j].key]
    BY <2>3, <2>4, <2>5
  <2>7. queues[es[j].key][rank(j)] \in Refs
    BY <2>4, <2>6
  <2> QED BY <2>6, <2>7
<1>4. \A j \in DOMAIN es : j \notin ready => ref(j) \in Refs /\ ref(j).frame = "any"
  <2> SUFFICES ASSUME NEW j \in DOMAIN es, j \notin ready
               PROVE  ref(j) \in Refs /\ ref(j).frame = "any"
    OBVIOUS
  <2>1. IsFiniteSet(1..j - 1)
    BY <1>1, FS_Interval
  <2>2. (1..j - 1) \ ready \in SUBSET (1..j - 1)
    OBVIOUS
  <2>3. Cardinality((1..j - 1) \ ready) \in Nat
    BY <2>1, <2>2, FS_Subset, FS_CardinalityType
  <2>4. ref(j) = [frame |-> "any", n |-> next + Cardinality((1..j - 1) \ ready)]
    OBVIOUS
  <2> HIDE DEF ref, ready
  <2> QED BY <2>3, <2>4 DEF Refs
<1>5. named = [j \in DOMAIN es |-> [es[j] EXCEPT !.ref = ref(j)]]
  BY DEF Named
<1>6. \A j \in ready : ref(j) = queues[es[j].key][rank(j)] /\ ExactGroup(es[j].key, es, queues)
  OBVIOUS
<1> HIDE DEF ref, ready, named
<1>7. \A j \in DOMAIN es : ref(j) \in Refs
  BY <1>3, <1>4
<1>8. \A j \in DOMAIN es :
        LET en == [es[j] EXCEPT !.ref = ref(j)]
        IN  /\ en \in Shown
            /\ en.element = es[j].element /\ en.index = es[j].index
            /\ en.source = es[j].source /\ en.key = es[j].key /\ en.ref = ref(j)
  BY <1>2, <1>7 DEF Bare, Shown
<1>9. /\ DOMAIN named = DOMAIN es
      /\ \A j \in DOMAIN es : named[j] = [es[j] EXCEPT !.ref = ref(j)]
  BY <1>5
<1>10. \A j \in DOMAIN es :
         /\ named[j] \in Shown
         /\ named[j].element = es[j].element /\ named[j].index = es[j].index
         /\ named[j].source = es[j].source /\ named[j].key = es[j].key
         /\ named[j].ref = ref(j)
  BY <1>8, <1>9
<1>11. named \in [1..Len(es) -> Shown]
  BY <1>1, <1>5, <1>9, <1>10
<1>12. named \in Seq(Shown) /\ Len(named) = Len(es)
  BY <1>1, <1>11
<1>13. \A j \in DOMAIN es : GetsRef(named[j], j, es, queues)
  <2> SUFFICES ASSUME NEW j \in DOMAIN es PROVE GetsRef(named[j], j, es, queues)
    OBVIOUS
  <2>1. CASE j \in ready
    BY <1>3, <1>6, <1>10, <2>1 DEF GetsRef
  <2>2. CASE j \notin ready
    BY <1>4, <1>10, <2>2 DEF GetsRef
  <2> QED BY <2>1, <2>2
<1> QED BY <1>10, <1>12, <1>13 DEF named

LEMMA NextIsNumber ==
  ASSUME NEW es \in Seq(Shown), NEW next \in Nat
  PROVE  NextFallback(es, next) \in Nat
<1> DEFINE L == {j \in DOMAIN es : es[j].ref.frame = "any"}
<1>1. Len(es) \in Nat /\ DOMAIN es = 1..Len(es)
  OBVIOUS
<1>2. L \in SUBSET (1..Len(es)) /\ IsFiniteSet(1..Len(es))
  BY <1>1, FS_Interval
<1>3. Cardinality(L) \in Nat
  BY <1>2, FS_Subset, FS_CardinalityType
<1> HIDE DEF L
<1>4. NextFallback(es, next) = next + Cardinality(L)
  BY DEF NextFallback, L
<1> QED BY <1>3, <1>4

(* Ranking and cutting off only leaves entries out.                         *)
LEMMA ExposedWereGot ==
  ASSUME NEW T, NEW got \in Seq(T)
  PROVE  /\ Exposed(got) \in Seq(T)
         /\ \A i \in DOMAIN Exposed(got) : \E j \in DOMAIN got : Exposed(got)[i] = got[j]
<1> DEFINE C == {en \in ToSet(got) : en.source.frame = "child"}
           M == {en \in ToSet(got) : en.source.frame = "main"}
           A == {en \in ToSet(got) : ~en.blocked}
           c == Those(got, C)  m == Those(got, M)  ranked == Ranked(got)
           free == Those(ranked, A)
           n == IF Len(free) < MaxExposed THEN Len(free) ELSE MaxExposed
<1>1. /\ c \in Seq(T) /\ \A j \in DOMAIN c : \E i \in DOMAIN got : c[j] = got[i]
      /\ m \in Seq(T) /\ \A j \in DOMAIN m : \E i \in DOMAIN got : m[j] = got[i]
  <2> HIDE DEF C, M
  <2>1. c \in Seq(T) /\ \A j \in DOMAIN c : \E i \in DOMAIN got : c[j] = got[i]
    BY ThosePicked
  <2>2. m \in Seq(T) /\ \A j \in DOMAIN m : \E i \in DOMAIN got : m[j] = got[i]
    BY ThosePicked
  <2> QED BY <2>1, <2>2
<1>2. ranked = c \o m
  BY DEF Ranked
<1>3. Exposed(got) = SubSeq(free, 1, n)
  BY DEF Exposed
<1> HIDE DEF C, M, A, c, m
<1>4. ranked \in Seq(T) /\ \A j \in DOMAIN ranked : \E i \in DOMAIN got : ranked[j] = got[i]
  <2>1. c \o m \in Seq(T)
    BY <1>1
  <2>2. \A j \in DOMAIN (c \o m) :
          \/ j \in DOMAIN c /\ (c \o m)[j] = c[j]
          \/ j - Len(c) \in DOMAIN m /\ (c \o m)[j] = m[j - Len(c)]
    BY <1>1
  <2>3. \A j \in DOMAIN (c \o m) : \E i \in DOMAIN got : (c \o m)[j] = got[i]
    <3> SUFFICES ASSUME NEW j \in DOMAIN (c \o m) PROVE \E i \in DOMAIN got : (c \o m)[j] = got[i]
      OBVIOUS
    <3>1. CASE j \in DOMAIN c /\ (c \o m)[j] = c[j]
      BY <1>1, <3>1
    <3>2. CASE j - Len(c) \in DOMAIN m /\ (c \o m)[j] = m[j - Len(c)]
      BY <1>1, <3>2
    <3> QED BY <2>2, <3>1, <3>2
  <2> HIDE DEF ranked
  <2> QED BY <1>2, <2>1, <2>3
<1> HIDE DEF ranked
<1>5. free \in Seq(T) /\ \A j \in DOMAIN free : \E i \in DOMAIN ranked : free[j] = ranked[i]
  BY <1>4, ThosePicked
<1> HIDE DEF free
<1>6. n \in 0..Len(free)
  BY <1>5, SomeAreExposed
<1> HIDE DEF n
<1>7. /\ SubSeq(free, 1, n) \in Seq(T)
      /\ \A j \in DOMAIN SubSeq(free, 1, n) : j \in DOMAIN free /\ SubSeq(free, 1, n)[j] = free[j]
  BY <1>5, <1>6
<1> QED BY <1>3, <1>4, <1>5, <1>7

-----------------------------------------------------------------------------
(* Types.                                                                   *)
LEMMA InitRefTypes == Init => ReferencesTypeOK
<1> SUFFICES ASSUME Init PROVE ReferencesTypeOK
  OBVIOUS
<1>1. \A f \in Frames : SeqOf(Elements, MaxElements[f]) \subseteq Seq(Elements)
  <2> SUFFICES ASSUME NEW f \in Frames, NEW m \in 0..MaxElements[f]
               PROVE  [1..m -> Elements] \subseteq Seq(Elements)
    BY DEF SeqOf
  <2>1. MaxElements[f] \in Nat
    BY FramesBeginSmall
  <2>2. m \in Nat
    BY <2>1
  <2> QED BY <2>2
<1>2. dom \in [Frames -> Seq(Elements)]
  <2>1. PICK m \in SeqOf(Elements, MaxElements["main"]), c \in SeqOf(Elements, MaxElements["child"]) :
          dom = [main |-> m, child |-> c]
    BY DEF Init
  <2>2. m \in Seq(Elements) /\ c \in Seq(Elements)
    BY <1>1 DEF Frames
  <2> QED BY <2>1, <2>2 DEF Frames
<1>3. \A f \in Frames : ToSet(dom[f]) \subseteq Elements
  BY <1>2 DEF ToSet
<1>4. spent \subseteq Elements
  BY <1>3 DEF Init, Frames
<1>5. numbered \in [Frames -> Seq(Elements)] /\ last \in [Frames -> SUBSET Elements]
  BY DEF Init, Nobody
<1> QED BY <1>2, <1>4, <1>5 DEF Init, ReferencesTypeOK

LEMMA SourceIsSource ==
  ASSUME ReferencesTypeOK, look # Nothing
  PROVE  /\ Source \in Sources
         /\ Source = look.sources[1] /\ 1 \in DOMAIN look.sources
         /\ Len(look.sources) > 1 => Tail(look.sources) \in Seq(Sources) \ {<<>>}
         /\ \A i \in DOMAIN Tail(look.sources) : i + 1 \in DOMAIN look.sources
                                             /\ Tail(look.sources)[i] = look.sources[i + 1]
<1>1. look.sources \in Seq(Sources) /\ look.sources # <<>>
  BY DEF ReferencesTypeOK
<1> DEFINE q == look.sources
<1> HIDE DEF q
<1>2. /\ Head(q) = q[1] /\ q[1] \in Sources /\ 1 \in DOMAIN q
      /\ Tail(q) \in Seq(Sources) /\ Len(Tail(q)) = Len(q) - 1 /\ Len(q) \in Nat
      /\ \A i \in DOMAIN Tail(q) : i + 1 \in DOMAIN q /\ Tail(q)[i] = q[i + 1]
  BY <1>1 DEF q
<1>3. Len(q) > 1 => Tail(q) # <<>>
  <2>1. \A t \in Seq(Sources) : t = <<>> => Len(t) = 0
    OBVIOUS
  <2> DEFINE t == Tail(q)
  <2>2. t \in Seq(Sources) /\ Len(t) = Len(q) - 1 /\ Len(q) \in Nat
    BY <1>2
  <2> HIDE DEF t
  <2>3. t = <<>> => ~(Len(q) > 1)
    BY <2>1, <2>2
  <2> QED BY <2>3 DEF t
<1> QED BY <1>2, <1>3 DEF Source, q

LEMMA BeginTypes ==
  ASSUME ReferencesTypeOK, Begin
  PROVE  ReferencesTypeOK'
<1>1. NoQueues \in [Keys -> Seq(Refs)]
  BY DEF NoQueues
<1>2. PICK sources \in
        {<<[frame |-> "main", from |-> 0]>> \o
           IF child THEN <<[frame |-> "child", from |-> 0]>> ELSE <<>>}
        \cup UNION {{<<[frame |-> f, from |-> i]>> : i \in DOMAIN dom[f]} : f \in Frames} :
       look' = [stage |-> "aria", sources |-> sources, queues |-> NoQueues, got |-> <<>>,
                next |-> IF states = Nothing THEN 1 ELSE states.next,
                seen |-> {}, since |-> changes, began |-> epoch]
  BY DEF Begin
<1>3. sources \in Seq(Sources) \ {<<>>}
  <2>1. CASE sources = <<[frame |-> "main", from |-> 0]>> \o
                         IF child THEN <<[frame |-> "child", from |-> 0]>> ELSE <<>>
    <3> DEFINE page == [frame |-> "main", from |-> 0]  iframe == [frame |-> "child", from |-> 0]
    <3>1. page \in Sources /\ iframe \in Sources
      BY DEF Sources, Frames
    <3> HIDE DEF page, iframe
    <3>2. <<page>> \in Seq(Sources) /\ <<iframe>> \in Seq(Sources)
      BY <3>1
    <3>3. \A t \in Seq(Sources) : <<page>> \o t \in Seq(Sources) /\ Len(<<page>> \o t) = 1 + Len(t)
      BY <3>2
    <3>4. \A t \in Seq(Sources) : Len(t) \in Nat /\ (t = <<>> => Len(t) = 0)
      OBVIOUS
    <3>5. sources = <<page>> \o IF child THEN <<iframe>> ELSE <<>>
      BY <2>1 DEF page, iframe
    <3> DEFINE rest == IF child THEN <<iframe>> ELSE <<>>
    <3>6. rest \in Seq(Sources)
      BY <3>2
    <3> HIDE DEF rest
    <3>7. sources \in Seq(Sources) /\ Len(sources) = 1 + Len(rest) /\ Len(rest) \in Nat
      BY <3>3, <3>4, <3>5, <3>6 DEF rest
    <3> QED BY <3>4, <3>7
  <2>2. CASE \E f \in Frames : \E i \in DOMAIN dom[f] : sources = <<[frame |-> f, from |-> i]>>
    <3>0. PICK f \in Frames : \E i \in DOMAIN dom[f] : sources = <<[frame |-> f, from |-> i]>>
      BY <2>2
    <3>1. PICK i \in DOMAIN dom[f] : sources = <<[frame |-> f, from |-> i]>>
      BY <3>0
    <3>2. dom[f] \in Seq(Elements)
      BY DEF ReferencesTypeOK
    <3>3. i \in Nat
      BY <3>2
    <3>4. [frame |-> f, from |-> i] \in Sources
      BY <3>3 DEF Sources
    <3> QED BY <3>1, <3>4
  <2> QED BY <2>1, <2>2
<1>4. (IF states = Nothing THEN 1 ELSE states.next) \in Nat
  BY DEF ReferencesTypeOK
<1>5. epoch \in Nat /\ changes \in Nat /\ looks + 1 \in Nat
  BY DEF ReferencesTypeOK
<1>6. look' \in [stage : {"aria", "dom"}, sources : Seq(Sources) \ {<<>>},
                 queues : [Keys -> Seq(Refs)], got : Seq(Shown), next : Nat,
                 seen : SUBSET Elements, since : Nat, began : Nat]
  BY <1>1, <1>2, <1>3, <1>4, <1>5
<1>7. /\ UNCHANGED <<pageVars, playwrightVars, epoch, states, changes>> /\ looks' = looks + 1
  BY DEF Begin
<1> QED BY <1>5, <1>6, <1>7 DEF ReferencesTypeOK, pageVars, playwrightVars

LEMMA AriaTypes ==
  ASSUME ReferencesTypeOK, AriaSnapshot
  PROVE  ReferencesTypeOK'
<1> DEFINE f == AriaFrame(Source)  met == IF f = "main" THEN Frames ELSE {f}
<1>0. look # Nothing
  BY DEF AriaSnapshot
<1>1. f \in Frames
  BY <1>0, SourceIsSource DEF AriaFrame, Sources, Frames
<1>2. \A g \in Frames : Number(g) \in Seq(Elements) /\ InTree(g) \in SUBSET Elements
  BY NumbersStay, ElementsOfTree
<1>3. Queues(f) \in [Keys -> Seq(Refs)] /\ NoQueues \in [Keys -> Seq(Refs)]
  BY <1>1, QueuesHoldRefs DEF NoQueues
<1>4. met \subseteq Frames
  BY <1>1
<1>5. look.seen \cup UNION {InTree(g) : g \in met} \in SUBSET Elements
  BY <1>0, <1>2, <1>4 DEF ReferencesTypeOK
<1>6. \/ /\ numbered' = [g \in Frames |-> IF g \in met THEN Number(g) ELSE numbered[g]]
         /\ last' = [g \in Frames |-> IF g \in met THEN InTree(g) ELSE last[g]]
         /\ look' = [look EXCEPT !.stage = "dom", !.queues = Queues(f),
                                 !.seen = look.seen \cup UNION {InTree(g) : g \in met}]
      \/ /\ look' = [look EXCEPT !.stage = "dom", !.queues = NoQueues]
         /\ UNCHANGED playwrightVars
  BY DEF AriaSnapshot
<1>7. UNCHANGED <<pageVars, epoch, states, changes, looks>>
  BY DEF AriaSnapshot
<1> HIDE DEF f, met
<1>8. CASE /\ numbered' = [g \in Frames |-> IF g \in met THEN Number(g) ELSE numbered[g]]
           /\ last' = [g \in Frames |-> IF g \in met THEN InTree(g) ELSE last[g]]
           /\ look' = [look EXCEPT !.stage = "dom", !.queues = Queues(f),
                                   !.seen = look.seen \cup UNION {InTree(g) : g \in met}]
  <2>1. numbered' \in [Frames -> Seq(Elements)] /\ last' \in [Frames -> SUBSET Elements]
    BY <1>2, <1>8 DEF ReferencesTypeOK
  <2>2. look' \in [stage : {"aria", "dom"}, sources : Seq(Sources) \ {<<>>},
                   queues : [Keys -> Seq(Refs)], got : Seq(Shown), next : Nat,
                   seen : SUBSET Elements, since : Nat, began : Nat]
    BY <1>0, <1>3, <1>5, <1>8 DEF ReferencesTypeOK
  <2> QED BY <1>7, <2>1, <2>2 DEF ReferencesTypeOK, pageVars
<1>9. CASE look' = [look EXCEPT !.stage = "dom", !.queues = NoQueues] /\ UNCHANGED playwrightVars
  <2>1. look' \in [stage : {"aria", "dom"}, sources : Seq(Sources) \ {<<>>},
                   queues : [Keys -> Seq(Refs)], got : Seq(Shown), next : Nat,
                   seen : SUBSET Elements, since : Nat, began : Nat]
    BY <1>0, <1>3, <1>9 DEF ReferencesTypeOK
  <2> QED BY <1>7, <1>9, <2>1 DEF ReferencesTypeOK, pageVars, playwrightVars
<1> QED BY <1>6, <1>8, <1>9

(* What a collection ends with: nothing, one source less, or a stored state.*)
Evaluated(more, got, next) ==
  \/ look' = Nothing /\ UNCHANGED states
  \/ /\ Len(look.sources) > 1
     /\ look' = [look EXCEPT !.stage = "aria", !.sources = Tail(look.sources),
                             !.got = got, !.next = next]
     /\ UNCHANGED states
  \/ /\ look' = Nothing
     /\ states' = [epoch |-> epoch, refs |-> Exposed(got), next |-> next,
                   seen |-> look.seen, since |-> look.since, began |-> look.began]

More == Named(Entries(Source), look.queues, look.next)

LEMMA EvaluateShape ==
  ASSUME Evaluate
  PROVE  /\ look # Nothing /\ look.stage = "dom"
         /\ Evaluated(More, look.got \o More, NextFallback(More, look.next))
         /\ UNCHANGED <<pageVars, playwrightVars, epoch, changes, looks>>
BY DEF Evaluate, Evaluated, More

LEMMA MoreIsShown ==
  ASSUME ReferencesTypeOK, look # Nothing
  PROVE  /\ More \in Seq(Shown) /\ NextFallback(More, look.next) \in Nat
         /\ look.got \in Seq(Shown) /\ look.got \o More \in Seq(Shown)
         /\ \A j \in DOMAIN (look.got \o More) :
              \/ j \in DOMAIN look.got /\ (look.got \o More)[j] = look.got[j]
              \/ \E i \in DOMAIN More : (look.got \o More)[j] = More[i]
<1>1. look.queues \in [Keys -> Seq(Refs)] /\ look.next \in Nat /\ look.got \in Seq(Shown)
  BY DEF ReferencesTypeOK
<1>2. Entries(Source) \in Seq(Bare)
  BY SourceIsSource, EntriesInOrder
<1>3. More \in Seq(Shown)
  BY <1>1, <1>2, NamesAreRefs DEF More
<1>4. NextFallback(More, look.next) \in Nat
  BY <1>1, <1>3, NextIsNumber
<1> DEFINE got == look.got
<1> HIDE DEF got
<1>5. \A j \in DOMAIN (got \o More) :
        \/ j \in DOMAIN got /\ (got \o More)[j] = got[j]
        \/ j - Len(got) \in DOMAIN More /\ (got \o More)[j] = More[j - Len(got)]
  BY <1>1, <1>3 DEF got
<1>6. got \o More \in Seq(Shown)
  BY <1>1, <1>3 DEF got
<1> QED BY <1>1, <1>3, <1>4, <1>5, <1>6 DEF got

LEMMA EvaluateTypes ==
  ASSUME ReferencesTypeOK, Evaluate
  PROVE  ReferencesTypeOK'
<1> DEFINE got == look.got \o More  next == NextFallback(More, look.next)
<1>1. /\ look # Nothing /\ Evaluated(More, got, next)
      /\ UNCHANGED <<pageVars, playwrightVars, epoch, changes, looks>>
  BY EvaluateShape
<1>2. got \in Seq(Shown) /\ next \in Nat
  BY <1>1, MoreIsShown
<1>3. Exposed(got) \in Seq(Shown)
  BY <1>2, ExposedWereGot
<1>4. Len(look.sources) > 1 => Tail(look.sources) \in Seq(Sources) \ {<<>>}
  BY <1>1, SourceIsSource
<1> HIDE DEF got, next
<1>5. CASE look' = Nothing /\ UNCHANGED states
  BY <1>1, <1>5 DEF ReferencesTypeOK, pageVars, playwrightVars
<1>6. CASE /\ Len(look.sources) > 1
           /\ look' = [look EXCEPT !.stage = "aria", !.sources = Tail(look.sources),
                                   !.got = got, !.next = next]
           /\ UNCHANGED states
  <2>1. look' \in [stage : {"aria", "dom"}, sources : Seq(Sources) \ {<<>>},
                   queues : [Keys -> Seq(Refs)], got : Seq(Shown), next : Nat,
                   seen : SUBSET Elements, since : Nat, began : Nat]
    BY <1>1, <1>2, <1>4, <1>6 DEF ReferencesTypeOK
  <2> QED BY <1>1, <1>6, <2>1 DEF ReferencesTypeOK, pageVars, playwrightVars
<1>7. CASE /\ look' = Nothing
           /\ states' = [epoch |-> epoch, refs |-> Exposed(got), next |-> next,
                         seen |-> look.seen, since |-> look.since, began |-> look.began]
  <2>1. states' \in [epoch : Nat, refs : Seq(Shown), next : Nat, seen : SUBSET Elements,
                     since : Nat, began : Nat]
    BY <1>1, <1>2, <1>3, <1>7 DEF ReferencesTypeOK
  <2> QED BY <1>1, <1>7, <2>1 DEF ReferencesTypeOK, pageVars, playwrightVars
<1> QED BY <1>1, <1>5, <1>6, <1>7 DEF Evaluated

(* The page changes: what is stored and what is being collected stays.      *)
PageChanges ==
  /\ changes' = changes + 1
  /\ look' = look /\ kind' = kind
  /\ \/ epoch' = epoch /\ states' = states /\ UNCHANGED playwrightVars
     \/ epoch' = epoch + 1 /\ states' \in {states, Nothing}

(* An edit of the frames leaves the rest of the page, and what is stored    *)
(* and being collected, of its type.                                        *)
LEMMA EditTypes ==
  ASSUME ReferencesTypeOK,
         dom' \in [Frames -> Seq(Elements)], spent' \subseteq Elements, changes' = changes + 1,
         UNCHANGED <<kind, modal, child, playwrightVars, epoch, states, look, looks>>
  PROVE  ReferencesTypeOK' /\ PageChanges
<1>1. PageChanges
  BY DEF PageChanges
<1>2. /\ kind' = kind /\ modal' = modal /\ child' = child /\ numbered' = numbered /\ last' = last
      /\ epoch' = epoch /\ states' = states /\ look' = look /\ looks' = looks
  BY DEF playwrightVars
<1>3. {epoch', changes', looks'} \subseteq Nat
  <2>1. epoch \in Nat /\ changes \in Nat /\ looks \in Nat
    BY DEF ReferencesTypeOK
  <2>2. changes + 1 \in Nat
    BY <2>1
  <2> QED BY <1>2, <2>1, <2>2
<1> QED BY ZenonT(60), <1>1, <1>2, <1>3 DEF ReferencesTypeOK

LEMMA ChangeTypes ==
  ASSUME ReferencesTypeOK,
         \/ \E f \in Frames : Insert(f) \/ Delete(f)
         \/ PageNavigates \/ InvalidatePageReferences
  PROVE  ReferencesTypeOK' /\ PageChanges
<1>1. ASSUME NEW f \in Frames, Insert(f) PROVE ReferencesTypeOK' /\ PageChanges
  <2>1. PICK e \in Elements \ spent, i \in 1..Len(dom[f]) + 1 :
          dom' = [dom EXCEPT ![f] = InsertAt(dom[f], i, e)] /\ spent' = spent \cup {e}
    BY <1>1 DEF Insert
  <2>2. dom[f] \in Seq(Elements)
    BY DEF ReferencesTypeOK
  <2>3. InsertAt(dom[f], i, e) \in Seq(Elements)
    <3>1. SubSeq(dom[f], 1, i - 1) \in Seq(Elements) /\ SubSeq(dom[f], i, Len(dom[f])) \in Seq(Elements)
      BY <2>2
    <3>2. InsertAt(dom[f], i, e) = SubSeq(dom[f], 1, i - 1) \o <<e>> \o SubSeq(dom[f], i, Len(dom[f]))
      BY DEF InsertAt
    <3> QED BY <3>1, <3>2
  <2>4. dom' \in [Frames -> Seq(Elements)]
    BY <2>1, <2>3 DEF ReferencesTypeOK
  <2>5. spent' \subseteq Elements
    BY <2>1 DEF ReferencesTypeOK
  <2>6. /\ changes' = changes + 1
        /\ UNCHANGED <<kind, modal, child, playwrightVars, epoch, states, look, looks>>
    BY <1>1 DEF Insert, Changes
  <2> QED BY <2>4, <2>5, <2>6, EditTypes
<1>2. ASSUME NEW f \in Frames, Delete(f) PROVE ReferencesTypeOK' /\ PageChanges
  <2>1. PICK i \in DOMAIN dom[f] : dom' = [dom EXCEPT ![f] = RemoveAt(dom[f], i)]
    BY <1>2 DEF Delete
  <2>2. dom[f] \in Seq(Elements)
    BY DEF ReferencesTypeOK
  <2>3. RemoveAt(dom[f], i) \in Seq(Elements)
    <3>1. SubSeq(dom[f], 1, i - 1) \in Seq(Elements) /\ SubSeq(dom[f], i + 1, Len(dom[f])) \in Seq(Elements)
      BY <2>2
    <3>2. RemoveAt(dom[f], i) = SubSeq(dom[f], 1, i - 1) \o SubSeq(dom[f], i + 1, Len(dom[f]))
      BY DEF RemoveAt
    <3> QED BY <3>1, <3>2
  <2>4. dom' \in [Frames -> Seq(Elements)]
    BY <2>1, <2>3 DEF ReferencesTypeOK
  <2>5. spent' \subseteq Elements
    BY <1>2 DEF Delete, ReferencesTypeOK
  <2>6. /\ changes' = changes + 1
        /\ UNCHANGED <<kind, modal, child, playwrightVars, epoch, states, look, looks>>
    BY <1>2 DEF Delete, Changes
  <2> QED BY <2>4, <2>5, <2>6, EditTypes
<1>3. ASSUME PageNavigates PROVE ReferencesTypeOK' /\ PageChanges
  <2>1. PICK new \in {<<>>} \cup {<<e>> : e \in Elements \ spent} :
          dom' = [Nobody EXCEPT !["main"] = new] /\ spent' = spent \cup ToSet(new)
    BY <1>3 DEF PageNavigates
  <2>2. new \in Seq(Elements) /\ ToSet(new) \subseteq Elements
    <3>1. CASE new = <<>>
      BY <3>1 DEF ToSet
    <3>2. ASSUME NEW e \in Elements, new = <<e>> PROVE new \in Seq(Elements) /\ ToSet(new) \subseteq Elements
      BY <3>2 DEF ToSet
    <3> QED BY <2>1, <3>1, <3>2
  <2>3. Nobody \in [Frames -> Seq(Elements)] /\ [f \in Frames |-> {}] \in [Frames -> SUBSET Elements]
    BY DEF Nobody
  <2>4. dom' \in [Frames -> Seq(Elements)]
    BY <2>1, <2>2, <2>3 DEF Frames
  <2>5. spent' \subseteq Elements
    BY <2>1, <2>2 DEF ReferencesTypeOK
  <2>6. numbered' \in [Frames -> Seq(Elements)] /\ last' \in [Frames -> SUBSET Elements]
    BY <1>3, <2>3 DEF PageNavigates
  <2>7. /\ child' = FALSE /\ epoch' = epoch + 1 /\ changes' = changes + 1
        /\ UNCHANGED <<kind, modal, states, look, looks>>
    BY <1>3 DEF PageNavigates, Changes
  <2>8. PageChanges
    BY <2>7 DEF PageChanges
  <2>9. kind' \in [Elements -> Kinds] /\ modal' \in Elements \cup {Nothing}
    BY <2>7 DEF ReferencesTypeOK
  <2>10. child' \in BOOLEAN /\ {epoch', changes', looks'} \subseteq Nat
    <3>1. epoch \in Nat /\ changes \in Nat /\ looks \in Nat
      BY DEF ReferencesTypeOK
    <3>2. epoch' \in Nat /\ changes' \in Nat /\ looks' \in Nat
      BY <2>7, <3>1
    <3> QED BY <2>7, <3>2
  <2> QED BY <2>4, <2>5, <2>6, <2>7, <2>8, <2>9, <2>10 DEF ReferencesTypeOK
<1>4. ASSUME InvalidatePageReferences PROVE ReferencesTypeOK' /\ PageChanges
  <2>1. states' = Nothing /\ epoch' = epoch + 1 /\ changes' = changes + 1
    BY <1>4 DEF InvalidatePageReferences, Changes
  <2>2. /\ kind' = kind /\ modal' = modal /\ dom' = dom /\ spent' = spent /\ child' = child
        /\ numbered' = numbered /\ last' = last /\ look' = look /\ looks' = looks
    BY <1>4 DEF InvalidatePageReferences, pageVars, playwrightVars
  <2>3. PageChanges
    BY <2>1, <2>2 DEF PageChanges
  <2>4. {epoch', changes', looks'} \subseteq Nat
    <3>1. epoch \in Nat /\ changes \in Nat /\ looks \in Nat
      BY DEF ReferencesTypeOK
    <3>2. epoch + 1 \in Nat /\ changes + 1 \in Nat
      BY <3>1
    <3> QED BY <2>1, <2>2, <3>1, <3>2
  <2> QED BY ZenonT(60), <2>1, <2>2, <2>3, <2>4 DEF ReferencesTypeOK
<1> QED BY <1>1, <1>2, <1>3, <1>4

-----------------------------------------------------------------------------
(* What a ref of the page names was met by the collection that gave it out. *)
Met(ref, seen) ==
  ref.frame = "main" => ref.n \in DOMAIN numbered["main"] /\ numbered["main"][ref.n] \in seen

(* A ref names an element of the latest accessibility snapshot that is      *)
(* still in its frame.                                                      *)
Points(ref, e) ==
  /\ ref.n \in DOMAIN numbered[ref.frame] /\ numbered[ref.frame][ref.n] = e
  /\ e \in last[ref.frame] /\ e \in InTree(ref.frame)

(* An entry finds its element, by its position or by its ref.               *)
Fits(en) ==
  IF en.ref.frame = "any" THEN AtPosition(en) = en.element
  ELSE Unmistakable(en) /\ OfItsOwnFrame(en) => Points(en.ref, en.element)

QueueFits(f, queues) ==
  \A k \in Keys : queues[k] # <<>> =>
    /\ Len(queues[k]) = Len(OfKey(f, k))
    /\ \A i \in DOMAIN queues[k] : queues[k][i].frame = f /\ Points(queues[k][i], OfKey(f, k)[i])

(* Collections and what they store lie in the past.                         *)
Began ==
  /\ look # Nothing => look.began <= epoch /\ look.since <= changes
  /\ states # Nothing => states.began <= epoch /\ states.since <= changes

LookHasMet ==
  look # Nothing /\ look.began = epoch =>
    /\ \A k \in Keys : \A i \in DOMAIN look.queues[k] : Met(look.queues[k][i], look.seen)
    /\ \A en \in Shown : en \in ToSet(look.got) => Met(en.ref, look.seen)

StatesHaveMet ==
  states # Nothing /\ states.began = epoch =>
    \A en \in Shown : en \in ToSet(states.refs) => Met(en.ref, states.seen)

LookFits ==
  look # Nothing /\ look.since = changes =>
    /\ \A en \in Shown : en \in ToSet(look.got) => Fits(en)
    /\ look.stage = "dom" => QueueFits(AriaFrame(Source), look.queues)

StatesFit ==
  states # Nothing /\ states.since = changes => 
    \A en \in Shown : en \in ToSet(states.refs) => Fits(en)

RefIInv ==
  /\ ReferencesTypeOK /\ Began
  /\ LookHasMet /\ StatesHaveMet
  /\ LookFits /\ StatesFit

(* An entry is not disturbed by what leaves the page and the snapshots alone.*)
LEMMA FitsStays ==
  ASSUME UNCHANGED <<kind, dom, numbered, last>>
  PROVE  \A en : Fits(en)' <=> Fits(en)
BY DEF Fits, Points, AtPosition, Unmistakable, OfItsOwnFrame, AriaFrame, InTree

LEMMA MetStays ==
  ASSUME UNCHANGED numbered
  PROVE  \A ref, seen : Met(ref, seen)' <=> Met(ref, seen)
BY DEF Met

LEMMA StatesStay ==
  ASSUME RefIInv, UNCHANGED <<kind, dom, numbered, last, epoch, changes, states>>
  PROVE  /\ StatesHaveMet' /\ StatesFit'
         /\ states' # Nothing => states'.began <= epoch' /\ states'.since <= changes'
<1>1. StatesHaveMet'
  BY DEF RefIInv, StatesHaveMet, Met
<1>2. StatesFit'
  BY FitsStays DEF RefIInv, StatesFit
<1> QED BY <1>1, <1>2 DEF RefIInv, Began

LEMMA InitRefIInv == Init => RefIInv
<1> SUFFICES ASSUME Init PROVE RefIInv
  OBVIOUS
<1>1. look = Nothing /\ states = Nothing
  BY DEF Init
<1> QED BY <1>1, InitRefTypes
     DEF RefIInv, Began, LookHasMet, StatesHaveMet, LookFits, StatesFit

LEMMA ChangeKeeps ==
  ASSUME RefIInv, PageChanges
  PROVE  Began' /\ LookHasMet' /\ StatesHaveMet' /\ LookFits' /\ StatesFit'
<1>1. /\ changes \in Nat /\ epoch \in Nat
      /\ look # Nothing => look.since \in Nat /\ look.began \in Nat
      /\ states # Nothing => states.since \in Nat /\ states.began \in Nat
  BY DEF RefIInv, ReferencesTypeOK
<1>2. /\ look # Nothing => look.began <= epoch /\ look.since <= changes
      /\ states # Nothing => states.began <= epoch /\ states.since <= changes
  BY DEF RefIInv, Began
<1>3. /\ changes' = changes + 1 /\ look' = look
      /\ states' = states \/ states' = Nothing
      /\ epoch' = epoch \/ epoch' = epoch + 1
      /\ epoch' = epoch => UNCHANGED <<numbered, states>>
  <2>1. CASE epoch' = epoch /\ states' = states /\ UNCHANGED playwrightVars
    BY <2>1 DEF PageChanges, playwrightVars
  <2>2. CASE epoch' = epoch + 1 /\ states' \in {states, Nothing}
    BY <1>1, <2>2 DEF PageChanges
  <2> QED BY <2>1, <2>2 DEF PageChanges
<1>4. Began'
  BY <1>1, <1>2, <1>3 DEF Began
<1>6. look' # Nothing => look'.since # changes'
  BY <1>1, <1>2, <1>3
<1>7. states' # Nothing => states'.since # changes'
  BY <1>1, <1>2, <1>3
<1>8. LookFits' /\ StatesFit'
  BY <1>6, <1>7 DEF LookFits, StatesFit
<1>9. CASE epoch' = epoch
  <2>1. numbered' = numbered /\ states' = states
    BY <1>3, <1>9
  <2> QED BY <1>3, <1>4, <1>8, <1>9, <2>1 DEF RefIInv, LookHasMet, StatesHaveMet, Met
<1>10. CASE epoch' = epoch + 1
  <2>1. look' # Nothing => look'.began # epoch'
    BY <1>1, <1>2, <1>3, <1>10
  <2>2. states' # Nothing => states'.began # epoch'
    BY <1>1, <1>2, <1>3, <1>10
  <2> QED BY <1>4, <1>8, <2>1, <2>2 DEF LookHasMet, StatesHaveMet
<1> QED BY <1>3, <1>9, <1>10

LEMMA BeginKeeps ==
  ASSUME RefIInv, Begin
  PROVE  RefIInv'
<1>1. ReferencesTypeOK'
  BY BeginTypes DEF RefIInv
<1>2. UNCHANGED <<kind, dom, numbered, last, epoch, changes, states>>
  BY DEF Begin, pageVars, playwrightVars
<1>3. PICK sources \in
        {<<[frame |-> "main", from |-> 0]>> \o
           IF child THEN <<[frame |-> "child", from |-> 0]>> ELSE <<>>}
        \cup UNION {{<<[frame |-> f, from |-> i]>> : i \in DOMAIN dom[f]} : f \in Frames} :
       look' = [stage |-> "aria", sources |-> sources, queues |-> NoQueues, got |-> <<>>,
                next |-> IF states = Nothing THEN 1 ELSE states.next,
                seen |-> {}, since |-> changes, began |-> epoch]
  BY DEF Begin
<1>6. /\ look'.began = epoch /\ look'.since = changes /\ look'.got = <<>>
      /\ look'.queues = NoQueues /\ look'.stage = "aria"
  BY <1>3
<1>7. epoch \in Nat /\ changes \in Nat
  BY DEF RefIInv, ReferencesTypeOK
<1>8. Began'
  BY <1>2, <1>6, <1>7, StatesStay DEF Began
<1>9. ToSet(look'.got) = {} /\ \A k \in Keys : DOMAIN look'.queues[k] = {}
  BY <1>6 DEF ToSet, NoQueues
<1>10. LookHasMet' /\ LookFits'
  BY <1>6, <1>9 DEF LookHasMet, LookFits
<1> QED BY <1>1, <1>2, <1>8, <1>10, StatesStay DEF RefIInv

(* An accessibility snapshot only adds numbers, and queues hold what it met.*)
AriaFetched(f) ==
  /\ numbered'[f] = Number(f) /\ last'[f] = InTree(f) /\ InTree(f) \subseteq look'.seen
  /\ look'.queues = Queues(f)

LEMMA AriaAdds ==
  ASSUME ReferencesTypeOK, AriaSnapshot
  PROVE  /\ look # Nothing /\ UNCHANGED <<pageVars, epoch, states, changes>>
         /\ look'.got = look.got /\ look'.since = look.since /\ look'.began = look.began
         /\ look'.sources = look.sources /\ look.seen \subseteq look'.seen
         /\ \A g \in Frames : \A n \in DOMAIN numbered[g] :
              n \in DOMAIN numbered'[g] /\ numbered'[g][n] = numbered[g][n]
         /\ \A g \in Frames : last'[g] = last[g] \/ last'[g] = InTree(g)
         /\ look'.queues = NoQueues \/ AriaFetched(AriaFrame(Source))
         /\ AriaFrame(Source) \in Frames
<1> DEFINE f == AriaFrame(Source)  met == IF f = "main" THEN Frames ELSE {f}
<1>0. look # Nothing
  BY DEF AriaSnapshot
<1>1. f \in Frames
  BY <1>0, SourceIsSource DEF AriaFrame, Sources, Frames
<1>2. f \in met /\ met \subseteq Frames
  BY <1>1
<1>3. UNCHANGED <<pageVars, epoch, states, changes>>
  BY DEF AriaSnapshot
<1>4. \/ /\ numbered' = [g \in Frames |-> IF g \in met THEN Number(g) ELSE numbered[g]]
         /\ last' = [g \in Frames |-> IF g \in met THEN InTree(g) ELSE last[g]]
         /\ look' = [look EXCEPT !.stage = "dom", !.queues = Queues(f),
                                 !.seen = look.seen \cup UNION {InTree(g) : g \in met}]
      \/ /\ look' = [look EXCEPT !.stage = "dom", !.queues = NoQueues]
         /\ UNCHANGED playwrightVars
  BY DEF AriaSnapshot
<1>5. \A g \in Frames : \A n \in DOMAIN numbered[g] :
        n \in DOMAIN Number(g) /\ Number(g)[n] = numbered[g][n]
  BY NumbersStay
<1> DEFINE L == [stage : {"aria", "dom"}, sources : Seq(Sources) \ {<<>>},
                 queues : [Keys -> Seq(Refs)], got : Seq(Shown), next : Nat,
                 seen : SUBSET Elements, since : Nat, began : Nat]
<1>6. look \in L
  BY <1>0 DEF ReferencesTypeOK
<1> HIDE DEF f, met
<1>7. CASE /\ numbered' = [g \in Frames |-> IF g \in met THEN Number(g) ELSE numbered[g]]
           /\ last' = [g \in Frames |-> IF g \in met THEN InTree(g) ELSE last[g]]
           /\ look' = [look EXCEPT !.stage = "dom", !.queues = Queues(f),
                                   !.seen = look.seen \cup UNION {InTree(g) : g \in met}]
  <2>1. /\ look'.got = look.got /\ look'.since = look.since /\ look'.began = look.began
        /\ look'.sources = look.sources /\ look'.queues = Queues(f)
        /\ look'.seen = look.seen \cup UNION {InTree(g) : g \in met}
    BY <1>6, <1>7
  <2>2. InTree(f) \subseteq look'.seen /\ look.seen \subseteq look'.seen
    BY <1>2, <2>1
  <2>3. \A g \in Frames : /\ numbered'[g] = Number(g) \/ numbered'[g] = numbered[g]
                          /\ last'[g] = last[g] \/ last'[g] = InTree(g)
    BY <1>7
  <2>4. numbered'[f] = Number(f) /\ last'[f] = InTree(f)
    BY <1>1, <1>2, <1>7
  <2>5. \A g \in Frames : \A n \in DOMAIN numbered[g] :
          n \in DOMAIN numbered'[g] /\ numbered'[g][n] = numbered[g][n]
    BY <1>5, <2>3
  <2> QED BY <1>0, <1>1, <1>3, <2>1, <2>2, <2>3, <2>4, <2>5 DEF AriaFetched, f
<1>8. CASE /\ look' = [look EXCEPT !.stage = "dom", !.queues = NoQueues]
           /\ UNCHANGED playwrightVars
  <2>1. /\ look'.got = look.got /\ look'.since = look.since /\ look'.began = look.began
        /\ look'.sources = look.sources /\ look'.queues = NoQueues
        /\ look'.seen = look.seen
    BY <1>6, <1>8
  <2>2. numbered' = numbered /\ last' = last
    BY <1>8 DEF playwrightVars
  <2> QED BY <1>0, <1>1, <1>3, <2>1, <2>2 DEF f
<1> QED BY <1>4, <1>7, <1>8

LEMMA AriaKeepsFits ==
  ASSUME ReferencesTypeOK, AriaSnapshot, NEW en \in Shown, Fits(en)
  PROVE  Fits(en)'
<1>1. dom' = dom /\ kind' = kind
  BY AriaAdds DEF pageVars
<1>2. /\ AtPosition(en)' = AtPosition(en)
      /\ Unmistakable(en)' <=> Unmistakable(en)
      /\ OfItsOwnFrame(en)' <=> OfItsOwnFrame(en)
      /\ \A g : InTree(g)' = InTree(g)
  BY <1>1 DEF AtPosition, Unmistakable, OfItsOwnFrame, AriaFrame, InTree
<1>3. CASE en.ref.frame = "any"
  BY <1>2, <1>3 DEF Fits
<1>4. CASE en.ref.frame # "any"
  <2>1. en.ref.frame \in Frames
    BY <1>4 DEF Shown, Refs
  <2> DEFINE g == en.ref.frame
  <2>2. /\ \A n \in DOMAIN numbered[g] : n \in DOMAIN numbered'[g] /\ numbered'[g][n] = numbered[g][n]
        /\ last'[g] = last[g] \/ last'[g] = InTree(g)
    BY <2>1, AriaAdds
  <2>3. Points(en.ref, en.element) => Points(en.ref, en.element)'
    BY <1>2, <2>2 DEF Points
  <2> QED BY <1>2, <1>4, <2>3 DEF Fits
<1> QED BY <1>3, <1>4

LEMMA AriaKeepsMet ==
  ASSUME ReferencesTypeOK, AriaSnapshot, NEW ref, NEW S, NEW T, Met(ref, S), S \subseteq T
  PROVE  Met(ref, T)'
<1>1. \A n \in DOMAIN numbered["main"] :
        n \in DOMAIN numbered'["main"] /\ numbered'["main"][n] = numbered["main"][n]
  BY AriaAdds DEF Frames
<1> QED BY <1>1 DEF Met

TreeLater(g) == {e \in ToSet(dom'[g]) : kind'[e].aria # Nothing}

PointsLater(ref, e) ==
  /\ ref.n \in DOMAIN numbered'[ref.frame] /\ numbered'[ref.frame][ref.n] = e
  /\ e \in last'[ref.frame] /\ e \in TreeLater(ref.frame)

LEMMA AriaKeeps ==
  ASSUME RefIInv, AriaSnapshot
  PROVE  RefIInv'
<1> DEFINE f == AriaFrame(Source)
<1>1. ReferencesTypeOK'
  BY AriaTypes DEF RefIInv
<1>2. /\ look # Nothing /\ UNCHANGED <<pageVars, epoch, states, changes>>
      /\ look'.got = look.got /\ look'.since = look.since /\ look'.began = look.began
      /\ look'.sources = look.sources /\ look.seen \subseteq look'.seen
      /\ look'.queues = NoQueues \/ AriaFetched(f)
      /\ f \in Frames
  BY AriaAdds DEF RefIInv
<1>3. dom' = dom /\ kind' = kind
  BY <1>2 DEF pageVars
<1>4. Began'
  BY <1>2 DEF RefIInv, Began
<1>5. \A en \in Shown : Fits(en) => Fits(en)'
  BY AriaKeepsFits DEF RefIInv
<1>6. \A ref, S, T : Met(ref, S) /\ S \subseteq T => Met(ref, T)'
  BY AriaKeepsMet DEF RefIInv
<1>7. StatesHaveMet'
  <2> SUFFICES ASSUME states # Nothing, states.began = epoch,
                      NEW en \in Shown, en \in ToSet(states.refs)
               PROVE  Met(en.ref, states.seen)'
    BY <1>2 DEF StatesHaveMet
  <2>1. Met(en.ref, states.seen)
    BY DEF RefIInv, StatesHaveMet
  <2> DEFINE S == states.seen
  <2>2. \A T : S = T => Met(en.ref, T)'
    BY <1>6, <2>1
  <2>3. S' = S
    BY <1>2
  <2> QED BY <2>2, <2>3 DEF Met
<1>8. ASSUME look'.began = epoch'
      PROVE  /\ \A k \in Keys : \A i \in DOMAIN look'.queues[k] : Met(look.queues[k][i], look.seen)'
             /\ \A en \in Shown : en \in ToSet(look'.got) => Met(en.ref, look.seen)'
  <2>1. ASSUME NEW en \in Shown, en \in ToSet(look'.got) PROVE Met(en.ref, look.seen)'
    <3>1. Met(en.ref, look.seen)
      BY <1>2, <1>8, <2>1 DEF RefIInv, LookHasMet
    <3>2. \A T : look.seen \subseteq T => Met(en.ref, T)'
      BY <1>6, <3>1
    <3> QED BY <1>2, <3>2 DEF Met
  <2>2. ASSUME NEW k \in Keys, NEW i \in DOMAIN look'.queues[k] PROVE Met(look.queues[k][i], look.seen)'
    <3>1. CASE look'.queues = NoQueues
      BY <2>2, <3>1 DEF NoQueues
    <3>2. CASE AriaFetched(f)
      <4> DEFINE ref == Queues(f)[k][i]
      <4>1. look'.queues[k][i] = ref /\ i \in DOMAIN Queues(f)[k]
        BY <2>2, <3>2 DEF AriaFetched
      <4>2. /\ ref.frame = f /\ ref.n \in DOMAIN Number(f)
            /\ Number(f)[ref.n] \in InTree(f)
        BY <1>2, <4>1, QueuesHoldRefs DEF RefIInv
      <4> HIDE DEF ref
      <4>3. ref.frame = "main" =>
              ref.n \in DOMAIN numbered'["main"] /\ numbered'["main"][ref.n] \in look'.seen
        BY <3>2, <4>2 DEF AriaFetched
      <4> QED BY <4>1, <4>3 DEF Met
    <3> QED BY <1>2, <3>1, <3>2
  <2> QED BY <2>1, <2>2
<1>9. LookHasMet'
  BY <1>8 DEF LookHasMet
<1>10. StatesFit'
  BY <1>2, <1>5 DEF RefIInv, StatesFit
<1>11. LookFits'
  <2>1. Source' = Source
    BY <1>2 DEF Source
  <2>2. AriaFrame(Source)' = f
    BY <2>1 DEF AriaFrame
  <2>4. QueueFits(AriaFrame(Source), look.queues)'
    <3> DEFINE q == look'.queues
    <3>1. CASE look'.queues = NoQueues
      BY <3>1 DEF QueueFits, NoQueues
    <3>2. CASE AriaFetched(f)
      <4>1. \A g, k : OfKey(g, k)' = OfKey(g, k) /\ InTree(g)' = InTree(g)
        BY <1>3 DEF OfKey, InTree
      <4>2. PICK g \in Frames : g = f
        BY <1>2
      <4>3. ASSUME NEW k \in Keys
            PROVE  /\ Len(q[k]) = Len(OfKey(g, k))
                   /\ \A i \in DOMAIN q[k] :
                        /\ q[k][i].frame = g
                        /\ q[k][i].n \in DOMAIN numbered'[g]
                        /\ numbered'[g][q[k][i].n] = OfKey(g, k)[i]
                        /\ OfKey(g, k)[i] \in last'[g] /\ OfKey(g, k)[i] \in InTree(g)
        BY <3>2, <4>2, QueuesHoldRefs DEF RefIInv, AriaFetched
      <4>4. g = AriaFrame(Source)'
        BY <2>2, <4>2
      <4> HIDE DEF f, q
      <4>5. ASSUME NEW k \in Keys
            PROVE  /\ Len(q[k]) = Len(OfKey(g, k)')
                   /\ \A i \in DOMAIN q[k] :
                        q[k][i].frame = g /\ PointsLater(q[k][i], OfKey(g, k)'[i])
        <5>1. /\ Len(q[k]) = Len(OfKey(g, k))
              /\ \A i \in DOMAIN q[k] :
                   q[k][i].frame = g /\ PointsLater(q[k][i], OfKey(g, k)[i])
          <6>1. TreeLater(g) = InTree(g)
            BY <1>3 DEF TreeLater, InTree
          <6> QED BY <4>3, <6>1 DEF PointsLater
        <5>2. OfKey(g, k)' = OfKey(g, k)
          BY <4>1
        <5> QED BY <5>1, <5>2
      <4> QED BY <4>4, <4>5 DEF QueueFits, Points, PointsLater, TreeLater, InTree, q
    <3> QED BY <1>2, <3>1, <3>2
  <2>5. ASSUME look'.since = changes', NEW en \in Shown, en \in ToSet(look'.got) PROVE Fits(en)'
    <3>1. Fits(en)
      BY <1>2, <2>5 DEF RefIInv, LookFits
    <3> QED BY <1>5, <3>1
  <2> QED BY <2>4, <2>5 DEF LookFits
<1> QED BY <1>1, <1>4, <1>7, <1>9, <1>10, <1>11 DEF RefIInv

(* What the collector names fits and was met.                               *)
LEMMA MoreWasMet ==
  ASSUME RefIInv, look # Nothing, look.began = epoch, NEW j \in DOMAIN More
  PROVE  Met(More[j].ref, look.seen)
<1> DEFINE es == Entries(Source)
<1>1. Source \in Sources
  BY SourceIsSource DEF RefIInv
<1>2. es \in Seq(Bare)
  BY <1>1, EntriesInOrder DEF RefIInv
<1>3. look.queues \in [Keys -> Seq(Refs)] /\ look.next \in Nat
  BY DEF RefIInv, ReferencesTypeOK
<1>4. More \in Seq(Shown) /\ Len(More) = Len(es) /\ \A i \in DOMAIN es : GetsRef(More[i], i, es, look.queues)
  BY <1>2, <1>3, NamesAreRefs DEF More
<1> HIDE DEF es
<1>5. j \in DOMAIN es
  BY <1>2, <1>4
<1>6. es[j] \in Bare
  BY <1>2, <1>5
<1>7. es[j].key \in Keys
  BY <1>6 DEF Bare
<1>8. CASE More[j].ref.frame = "any"
  BY <1>8 DEF Met
<1>9. CASE /\ Rank(es[j].key, j, es) \in DOMAIN look.queues[es[j].key]
           /\ More[j].ref = look.queues[es[j].key][Rank(es[j].key, j, es)]
  BY <1>7, <1>9 DEF RefIInv, LookHasMet
<1> QED BY <1>4, <1>5, <1>8, <1>9 DEF GetsRef

LEMMA MoreFits ==
  ASSUME RefIInv, look # Nothing, look.since = changes, look.stage = "dom", NEW j \in DOMAIN More
  PROVE  Fits(More[j])
<1> DEFINE es == Entries(Source)  f == Source.frame  en == More[j]  qs == look.queues
           h == AriaFrame(Source)
<1>1. Source \in Sources /\ f \in Frames
  BY SourceIsSource DEF RefIInv, Sources
<1>2. /\ es \in Seq(Bare)
      /\ \A i \in DOMAIN es : es[i].source = Source /\ ShowsItself(es[i])
      /\ \A i, m \in DOMAIN es : i < m => es[i].index < es[m].index
  BY <1>1, EntriesInOrder DEF RefIInv
<1>3. qs \in [Keys -> Seq(Refs)] /\ look.next \in Nat
  BY DEF RefIInv, ReferencesTypeOK
<1>4. /\ More \in Seq(Shown) /\ Len(More) = Len(es)
      /\ \A i \in DOMAIN es :
           /\ More[i].element = es[i].element /\ More[i].index = es[i].index
           /\ More[i].source = es[i].source /\ More[i].key = es[i].key
           /\ GetsRef(More[i], i, es, qs)
  BY <1>2, <1>3, NamesAreRefs DEF More
<1>5. dom[f] \in Seq(Elements)
  BY <1>1 DEF RefIInv, ReferencesTypeOK
<1>6. QueueFits(h, qs)
  BY DEF RefIInv, LookFits
<1>11. h \in Frames /\ (AriaFrame(Source) = Source.frame => h = f)
  BY <1>1 DEF AriaFrame, Frames
<1> HIDE DEF es, f, qs, h
<1>7. DOMAIN More = DOMAIN es /\ j \in DOMAIN es
  BY <1>2, <1>4
<1>8. \A i \in DOMAIN es : /\ es[i].key \in Keys /\ es[i].index \in DOMAIN dom[f]
                           /\ es[i].element = dom[f][es[i].index]
                           /\ es[i].key = kind[es[i].element].dom
  <2>1. \A i \in DOMAIN es : es[i] \in Bare
    BY <1>2
  <2>2. \A e \in Bare : e.key \in Keys
    BY DEF Bare
  <2> QED BY <1>2, <2>1, <2>2 DEF ShowsItself, f
<1> DEFINE k == es[j].key  r == Rank(k, j, es)
<1>9. CASE en.ref.frame = "any"
  BY <1>2, <1>4, <1>7, <1>8, <1>9 DEF Fits, AtPosition, f
<1>10. CASE ExactGroup(k, es, qs) /\ r \in DOMAIN qs[k] /\ en.ref = qs[k][r]
  <2> DEFINE S == {e \in InTree(f) : kind[e].aria = k}
             D == Picked(dom[f], S)  E == HaveKey(es, k)
             g == [i \in E |-> es[i].index]
  <2>1. k \in Keys
    BY <1>7, <1>8
  <2>2. qs[k] \in Seq(Refs)
    BY <1>3, <2>1
  <2>3. qs[k] # <<>>
    BY <1>10
  <2>4. /\ Len(qs[k]) = Len(OfKey(h, k))
        /\ qs[k][r].frame = h /\ Points(qs[k][r], OfKey(h, k)[r])
    BY <1>6, <1>10, <2>1, <2>3 DEF QueueFits
  <2>5. en.ref.frame = h /\ h # "any"
    BY <1>10, <1>11, <2>4 DEF Frames
  <2>6. ASSUME Unmistakable(en), OfItsOwnFrame(en) PROVE OfKey(h, k)[r] = en.element
    <3>0. h = f
      <4>1. en.source = Source
        BY <1>2, <1>4, <1>7
      <4> QED BY <1>11, <2>5, <2>6, <4>1 DEF OfItsOwnFrame
    <3>1. \A e \in ToSet(dom[f]) : kind[e].dom = k => kind[e].aria = k
      BY <1>2, <1>4, <1>7, <2>6 DEF Unmistakable, f
    <3>2. \A i \in E : i \in DOMAIN es /\ es[i].key = k
      BY DEF HaveKey
    <3>3. \A i \in E : g[i] \in D
      <4> SUFFICES ASSUME NEW i \in E PROVE es[i].index \in D
        OBVIOUS
      <4>1. /\ es[i].index \in DOMAIN dom[f] /\ es[i].element = dom[f][es[i].index]
            /\ kind[es[i].element].dom = k
        BY <1>8, <3>2
      <4>2. es[i].element \in ToSet(dom[f])
        BY <4>1 DEF ToSet
      <4>3. kind[es[i].element].aria = k /\ k # Nothing
        BY <2>1, <3>1, <4>1, <4>2, NothingIsNoKey
      <4>4. es[i].element \in S
        BY <4>2, <4>3 DEF InTree
      <4> HIDE DEF S
      <4> QED BY <4>1, <4>4 DEF Picked
    <3>4. D \in SUBSET Nat /\ IsFiniteSet(D)
      BY <1>5, PickedPlaces
    <3>5. /\ OfKey(f, k) = Those(dom[f], S)
          /\ Len(Those(dom[f], S)) = Cardinality(D)
          /\ \A i \in D : Those(dom[f], S)[Cardinality(UpTo(D, i))] = dom[f][i]
      BY <1>5, ThosePicked DEF OfKey
    <3> HIDE DEF S, D
    <3>6. /\ E \in SUBSET Nat /\ IsFiniteSet(E) /\ j \in E
          /\ Rank(k, Len(es), es) = Cardinality(E)
          /\ r = Cardinality(UpTo(E, j))
      <4>1. j \in E
        BY <1>7 DEF HaveKey
      <4> QED BY <1>2, <4>1, RankOfEntry
    <3>7. Cardinality(E) = Cardinality(D)
      BY <1>10, <2>4, <3>0, <3>5, <3>6 DEF ExactGroup
    <3>8. g \in [E -> D]
      BY <3>3
    <3>9. \A i, m \in E : i < m => g[i] < g[m]
      BY <1>2, <3>2
    <3>10. g[j] = es[j].index
      BY <3>6
    <3> HIDE DEF E, g, r, k
    <3>11. r = Cardinality(UpTo(D, g[j]))
      BY <3>4, <3>6, <3>7, <3>8, <3>9, RanksCorrespond
    <3>12. OfKey(f, k)[r] = dom[f][g[j]]
      BY <3>5, <3>6, <3>8, <3>11
    <3> QED BY <1>4, <1>7, <1>8, <3>0, <3>10, <3>12
  <2> HIDE DEF S, D, E, g, r, k
  <2> QED BY <1>10, <2>4, <2>5, <2>6 DEF Fits
<1> QED BY <1>4, <1>7, <1>9, <1>10 DEF GetsRef

LEMMA EvaluateKeeps ==
  ASSUME RefIInv, Evaluate
  PROVE  RefIInv'
<1> DEFINE got == look.got \o More  next == NextFallback(More, look.next)
<1>1. /\ look # Nothing /\ look.stage = "dom" /\ Evaluated(More, got, next)
      /\ UNCHANGED <<pageVars, playwrightVars, epoch, changes, looks>>
  BY EvaluateShape
<1>2. UNCHANGED <<kind, dom, numbered, last, epoch, changes>>
  BY <1>1 DEF pageVars, playwrightVars
<1>3. ReferencesTypeOK'
  BY EvaluateTypes DEF RefIInv
<1>4. /\ got \in Seq(Shown)
      /\ \A j \in DOMAIN got : \/ j \in DOMAIN look.got /\ got[j] = look.got[j]
                               \/ \E i \in DOMAIN More : got[j] = More[i]
  BY <1>1, MoreIsShown DEF RefIInv
<1> HIDE DEF got, next
<1>5. \A en \in ToSet(got) : en \in ToSet(look.got) \/ \E i \in DOMAIN More : en = More[i]
  BY <1>4 DEF ToSet
<1>6. ASSUME look.began = epoch PROVE \A en \in ToSet(got) : en \in Shown /\ Met(en.ref, look.seen)
  <2>1. \A en \in ToSet(got) : en \in Shown
    BY <1>4 DEF ToSet
  <2>2. \A en \in Shown : en \in ToSet(look.got) => Met(en.ref, look.seen)
    BY <1>1, <1>6 DEF RefIInv, LookHasMet
  <2>3. \A i \in DOMAIN More : Met(More[i].ref, look.seen)
    BY <1>1, <1>6, MoreWasMet
  <2> QED BY <1>5, <2>1, <2>2, <2>3
<1>7. ASSUME look.since = changes
      PROVE  \A en \in ToSet(got) : en \in Shown /\ Fits(en)
  <2>1. \A en \in ToSet(got) : en \in Shown
    BY <1>4 DEF ToSet
  <2>2. \A en \in Shown : en \in ToSet(look.got) => Fits(en)
    BY <1>1, <1>7 DEF RefIInv, LookFits
  <2>3. \A i \in DOMAIN More : Fits(More[i])
    BY <1>1, <1>7, MoreFits
  <2> QED BY <1>5, <2>1, <2>2, <2>3
<1>8. \A en : Fits(en)' <=> Fits(en)
  BY <1>2, FitsStays
<1>9. \A ref, seen : Met(ref, seen)' <=> Met(ref, seen)
  BY <1>2, MetStays
<1>10. look.began <= epoch /\ look.since <= changes
  BY <1>1 DEF RefIInv, Began
<1>11. CASE look' = Nothing /\ UNCHANGED states
  <2>1. Began' /\ LookHasMet' /\ LookFits'
    BY <1>2, <1>11, StatesStay DEF Began, LookHasMet, LookFits
  <2> QED BY <1>2, <1>3, <1>11, <2>1, StatesStay DEF RefIInv
<1>12. CASE /\ Len(look.sources) > 1
            /\ look' = [look EXCEPT !.stage = "aria", !.sources = Tail(look.sources),
                                    !.got = got, !.next = next]
            /\ UNCHANGED states
  <2>1. look \in [stage : {"aria", "dom"}, sources : Seq(Sources) \ {<<>>},
                  queues : [Keys -> Seq(Refs)], got : Seq(Shown), next : Nat,
                  seen : SUBSET Elements, since : Nat, began : Nat]
    BY <1>1 DEF RefIInv, ReferencesTypeOK
  <2>2. /\ look'.stage = "aria" /\ look'.sources = Tail(look.sources) /\ look'.got = got
        /\ look'.queues = look.queues /\ look'.seen = look.seen
        /\ look'.since = look.since /\ look'.began = look.began
    BY <1>12, <2>1
  <2>3. Began'
    BY <1>2, <1>10, <1>12, <2>2, StatesStay DEF Began
  <2>5. LookHasMet'
    <3> SUFFICES ASSUME look'.began = epoch'
                 PROVE  /\ \A k \in Keys : \A i \in DOMAIN look'.queues[k] : Met(look.queues[k][i], look.seen)'
                        /\ \A en \in Shown : en \in ToSet(look'.got) => Met(en.ref, look.seen)'
      BY DEF LookHasMet
    <3>1. look.began = epoch
      BY <1>2, <2>2
    <3>2. \A k \in Keys : \A i \in DOMAIN look.queues[k] : Met(look.queues[k][i], look.seen)
      BY <1>1, <3>1 DEF RefIInv, LookHasMet
    <3>3. \A en \in ToSet(got) : Met(en.ref, look.seen)
      BY <1>6, <3>1
    <3> QED BY <1>2, <2>2, <3>2, <3>3 DEF Met
  <2>6. LookFits'
    BY <1>2, <1>7, <1>8, <2>2 DEF LookFits
  <2> QED BY <1>2, <1>3, <1>12, <2>3, <2>5, <2>6, StatesStay DEF RefIInv
<1>13. CASE /\ look' = Nothing
            /\ states' = [epoch |-> epoch, refs |-> Exposed(got), next |-> next,
                          seen |-> look.seen, since |-> look.since, began |-> look.began]
  <2>1. LookHasMet' /\ LookFits'
    BY <1>13 DEF LookHasMet, LookFits
  <2>2. /\ states'.refs = Exposed(got) /\ states'.seen = look.seen
        /\ states'.since = look.since /\ states'.began = look.began
    BY <1>13
  <2>3. Began'
    BY <1>2, <1>10, <1>13, <2>2 DEF Began
  <2>4. ToSet(states'.refs) \subseteq ToSet(got)
    BY <1>4, <2>2, ExposedWereGot DEF ToSet
  <2>5. StatesHaveMet'
    <3> SUFFICES ASSUME states'.began = epoch', NEW en \in Shown, en \in ToSet(states'.refs)
                 PROVE  Met(en.ref, states.seen)'
      BY DEF StatesHaveMet
    <3>1. Met(en.ref, look.seen)
      BY <1>2, <1>6, <2>2, <2>4
    <3> QED BY <1>2, <2>2, <3>1 DEF Met
  <2>6. StatesFit'
    BY <1>2, <1>7, <1>8, <2>2, <2>4 DEF StatesFit
  <2> QED BY <1>3, <2>1, <2>3, <2>5, <2>6 DEF RefIInv
<1> QED BY <1>1, <1>11, <1>12, <1>13 DEF Evaluated

LEMMA NextRefIInv == RefIInv /\ [Next]_refVars => RefIInv'
<1> SUFFICES ASSUME RefIInv, [Next]_refVars PROVE RefIInv'
  OBVIOUS
<1>1. CASE Begin
  BY <1>1, BeginKeeps
<1>2. CASE AriaSnapshot
  BY <1>2, AriaKeeps
<1>3. CASE Evaluate
  BY <1>3, EvaluateKeeps
<1>4. CASE \/ \E f \in Frames : Insert(f) \/ Delete(f)
           \/ PageNavigates \/ InvalidatePageReferences
  <2>1. ReferencesTypeOK' /\ PageChanges
    BY <1>4, ChangeTypes DEF RefIInv
  <2> QED BY <2>1, ChangeKeeps DEF RefIInv
<1>5. CASE UNCHANGED refVars
  <2>1. /\ UNCHANGED <<kind, dom, numbered, last, epoch, changes, states>>
        /\ UNCHANGED <<modal, spent, child, look, looks>>
    BY <1>5 DEF refVars, pageVars, playwrightVars
  <2>2. ReferencesTypeOK' /\ Began'
    BY <2>1 DEF RefIInv, ReferencesTypeOK, Began
  <2>3. LookHasMet'
    BY <2>1 DEF RefIInv, LookHasMet, Met
  <2>4. LookFits'
    <3>1. \A en : Fits(en)' <=> Fits(en)
      BY <2>1, FitsStays
    <3>2. QueueFits(AriaFrame(Source), look.queues)' <=> QueueFits(AriaFrame(Source), look.queues)
      BY <2>1 DEF QueueFits, AriaFrame, Source, Points, OfKey, InTree
    <3> QED BY <2>1, <3>1, <3>2 DEF RefIInv, LookFits
  <2> QED BY <2>1, <2>2, <2>3, <2>4, StatesStay DEF RefIInv
<1> QED BY <1>1, <1>2, <1>3, <1>4, <1>5 DEF Next

LEMMA Collecting == Spec => []RefIInv
BY InitRefIInv, NextRefIInv, PTL DEF Spec

(* The variables stay in their types.                                       *)
THEOREM ReferenceTypes == Spec => []ReferencesTypeOK
<1>1. RefIInv => ReferencesTypeOK
  BY DEF RefIInv
<1> QED BY <1>1, Collecting, PTL

(* The usable entries are the stored ones, and typed.                       *)
LEMMA UsableIsStored ==
  ASSUME ReferencesTypeOK, NEW i \in DOMAIN Usable
  PROVE  /\ states # Nothing /\ states.epoch = epoch
         /\ Usable[i] \in Shown /\ Usable[i] \in ToSet(states.refs)
<1>1. states # Nothing /\ states.epoch = epoch /\ Usable = states.refs
  BY DEF Usable
<1>2. states.refs \in Seq(Shown)
  BY <1>1 DEF ReferencesTypeOK
<1> QED BY <1>1, <1>2 DEF ToSet

(* An old ref finds what its collection met, or nothing: numbers stand as   *)
(* long as the document does (references.ts, storing under navigationState).*)
THEOREM OldRefs == Spec => []OldRefsFindNothingNew
<1>1. RefIInv => OldRefsFindNothingNew
  <2> SUFFICES ASSUME RefIInv, NEW i \in DOMAIN Usable,
                      Usable[i].ref.frame = "main", states.began = states.epoch
               PROVE  Located(Usable[i]) \in states.seen \cup {Nothing}
    BY DEF OldRefsFindNothingNew
  <2> DEFINE en == Usable[i]
  <2>1. states # Nothing /\ states.epoch = epoch /\ en \in Shown /\ en \in ToSet(states.refs)
    BY UsableIsStored DEF RefIInv
  <2>2. Met(en.ref, states.seen)
    BY <2>1 DEF RefIInv, StatesHaveMet
  <2> HIDE DEF en
  <2>3. en.ref.frame = "main"
    BY DEF en
  <2>4. Located(en) \in states.seen \cup {Nothing}
    BY <2>2, <2>3 DEF Met, Located, ByAriaRef
  <2> QED BY <2>4 DEF en
<1> QED BY <1>1, Collecting, PTL

(* A ref is the element it was shown for while the page stands still, for   *)
(* entries the two views cannot confuse, unless it was given to an entry of *)
(* a scope within the iframe (collectInteractiveReferences joins those with *)
(* the refs of the page around it).                                         *)
THEOREM Unmistaken == Spec => []UnmistakableIsExact
<1>1. RefIInv => UnmistakableIsExact
  <2> SUFFICES ASSUME RefIInv, NEW i \in DOMAIN Usable, Unmistakable(Usable[i]),
                      OfItsOwnFrame(Usable[i]), states.since = changes
               PROVE  Located(Usable[i]) = Usable[i].element
    BY DEF UnmistakableIsExact, Exact
  <2> DEFINE en == Usable[i]
  <2>1. states # Nothing /\ en \in Shown /\ en \in ToSet(states.refs)
    BY UsableIsStored DEF RefIInv
  <2>2. Fits(en)
    BY <2>1 DEF RefIInv, StatesFit
  <2>3. Unmistakable(en) /\ OfItsOwnFrame(en)
    OBVIOUS
  <2> HIDE DEF en
  <2>4. Located(en) = en.element
    <3>1. CASE en.ref.frame = "any"
      BY <2>2, <3>1 DEF Fits, Located
    <3>2. CASE en.ref.frame # "any"
      BY <2>2, <2>3, <3>2 DEF Fits, Points, Located, ByAriaRef, InTree
    <3> QED BY <3>1, <3>2
  <2> QED BY <2>4 DEF en
<1> QED BY <1>1, Collecting, PTL

-----------------------------------------------------------------------------
(* What the snapshot says of an element and what an action does about it    *)
(* (the two detectors of references.ts) agree, however many dialogs there   *)
(* are; the run has two.                                                    *)
THEOREM LooksDoAgree ==
  ASSUME NEW el \in LayoutsOf(Seq(Dialogs))
  PROVE  LooksAgree(el)
<1>1. \A d \in Dialogs : BlocksInSnapshot(d) <=> BlocksAction(d)
  BY DEF BlocksInSnapshot, BlocksAction
<1>2. el.dialogs \in Seq(Dialogs)
  BY DEF LayoutsOf
<1>3. {i \in DOMAIN el.dialogs : BlocksInSnapshot(el.dialogs[i])}
        = {i \in DOMAIN el.dialogs : BlocksAction(el.dialogs[i])}
  BY <1>1, <1>2
<1>4. Outside(el.dialogs, BlocksInSnapshot) <=> Outside(el.dialogs, BlocksAction)
  BY <1>3 DEF Outside
<1>5. el.answers => ("blocked-by-modal" \in StatesOf(el) <=> Blocker(el) = {"modal"})
  BY <1>4 DEF StatesOf, Blocker
<1>6. "occluded" \in StatesOf(el) <=> el.inViewport /\ ~el.hit
  BY DEF StatesOf
<1>7. Blocker(el) # {} => "blocked-by-modal" \in StatesOf(el) \/ "occluded" \in StatesOf(el)
  BY <1>5, <1>6 DEF Blocker
<1>8. el.answers /\ "occluded" \in StatesOf(el) /\ el.top => Blocker(el) # {}
  BY <1>6 DEF Blocker
<1> QED BY <1>5, <1>7, <1>8 DEF LooksAgree, Refused
=============================================================================
