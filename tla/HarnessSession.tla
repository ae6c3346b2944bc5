--------------------------- MODULE HarnessSession ---------------------------
(***************************************************************************)
(* Tool calls under the ownership protocol: context.record of              *)
(* src/create-tools.ts, which every tool goes through, the batch tool that *)
(* calls other tools (src/tools/batch.ts), the choice of the active page,  *)
(* the element references taken by snapshots, and the action trace.  The   *)
(* protocol itself is Control; each of its steps is taken here together    *)
(* with what the transition listener of createBrowserTools does in it.     *)
(*                                                                         *)
(* A call is an element of Operations: "new", then "checking" (reconciled  *)
(* with the open pages, the safety policy being asked), "acting" (the tool *)
(* itself), "recording", "leaving" (recorded, not yet left runAutomation), *)
(* "done".  A refused call goes through "refused" instead.                 *)
(***************************************************************************)
EXTENDS Control, SequencesExt

CONSTANTS Batches,   \* the calls of browser_run_steps
          Pages,     \* every page the browser will ever open
          FirstPage, \* the page the session starts with
          MaxNavigations  \* bound: navigations of all pages

ASSUME BatchesAreCalls == Batches \subseteq Operations
ASSUME NoneIsNoCall == None \notin Operations \cup Pages
ASSUME FirstPageIsAPage == FirstPage \in Pages
ASSUME NavigationsAreBounded == MaxNavigations \in Nat

VARIABLES phase,     \* where each call is
          parent,    \* the batch a call is a step of, or None
          verdict,   \* how the call ended or is about to end
          active,    \* ref.page, the page the tools operate on
          pages,     \* the open pages, in the order they were opened
          awaiting,  \* awaitingPostTakeoverPageReconciliation
          held,      \* call -> what a snapshot saw, or what is being closed
          refs,      \* page -> the references of its last snapshot, or None
          epoch,     \* page -> its navigation epoch
          documents, \* page -> the documents it has had so far
          gone,      \* pages that closed
          lost,      \* those that closed while a person had the browser
          given,     \* history: page -> the positional names it has exposed
          trace      \* what the trace recorder was given, in order

referenceVars == <<refs, epoch, given>>
harnessVars == <<phase, parent, verdict, active, pages, awaiting, held,
                 referenceVars, documents, gone, lost, trace>>
allVars == <<vars, harnessVars>>

CallPhases == {"new", "refused", "checking", "acting", "reading", "closing",
               "recording", "leaving", "done"}
Verdicts == {"none", "ok", "failed", "blocked", "unavailable"}
Events == {"pause-requested", "paused", "human-control-acquired", "automation-resumed"}
Entries == [who : Operations, what : Verdicts] \cup [who : {None}, what : Events]
Reading == [page : Pages, since : Nat, next : Nat]
Closing == [page : Pages]
References == [since : Nat, epoch : Nat, document : Nat, name : Nat]

Open == ToSet(pages)

SessionTypeOK ==
  /\ TypeOK
  /\ phase \in [Operations -> CallPhases]
  /\ parent \in [Operations -> Batches \cup {None}]
  /\ verdict \in [Operations -> Verdicts]
  /\ active \in Pages
  /\ pages \in Seq(Pages) /\ IsInjective(pages)
  /\ awaiting \in BOOLEAN
  /\ held \in [Operations -> Reading \cup Closing \cup {None}]
  /\ \A p \in Pages : refs[p] = None \/ refs[p] \in References
  /\ epoch \in [Pages -> Nat] /\ documents \in [Pages -> 1..(MaxNavigations + 1)]
  /\ given \in [Pages -> SUBSET Nat]
  /\ gone \subseteq Pages \ Open
  /\ lost \subseteq gone
  /\ trace \in Seq(Entries)

SessionInit ==
  /\ Init
  /\ phase = [o \in Operations |-> "new"]
  /\ parent = [o \in Operations |-> None]
  /\ verdict = [o \in Operations |-> "none"]
  /\ active = FirstPage
  /\ pages = <<FirstPage>>
  /\ awaiting = FALSE
  /\ held = [o \in Operations |-> None]
  /\ refs = [p \in Pages |-> None]
  /\ epoch = [p \in Pages |-> 0] /\ documents = [p \in Pages |-> 1]
  /\ given = [p \in Pages |-> {}]
  /\ gone = {}
  /\ lost = {}
  /\ trace = <<>>

Steps(b) == {o \in Operations : parent[o] = b}
Enter(o, next) == phase' = [phase EXCEPT ![o] = next]
Note(entry) == trace' = Append(trace, entry)

-----------------------------------------------------------------------------
(* The batch tool calls its next step only when the steps before it passed. *)
MayFollow(b) ==
  /\ b \in Batches /\ phase[b] = "acting"
  /\ \A o \in Steps(b) : phase[o] = "done" /\ verdict[o] = "ok"

(* Faulty: the batch goes on after a step that failed.                      *)
CallableAfterFailure(o, b) ==
  /\ phase[o] = "new"
  /\ \/ b = None
     \/ /\ b \in Batches /\ phase[b] = "acting" /\ o \notin Batches
        /\ \A s \in Steps(b) : phase[s] = "done"

(* A call comes from the host or from a batch; batches do not nest.         *)
Callable(o, b) ==
  /\ phase[o] = "new"
  /\ b # None => MayFollow(b) /\ o \notin Batches

(* runAutomation rejects: the rejection is handled one microtask later.     *)
Refuse(o, b) ==
  /\ Callable(o, b)
  /\ state # "automation"
  /\ Enter(o, "refused")
  /\ parent' = [parent EXCEPT ![o] = b]
  /\ verdict' = [verdict EXCEPT ![o] = "blocked"]
  /\ UNCHANGED <<vars, active, pages, awaiting, held, referenceVars, documents, gone, lost, trace>>

(* Faulty: a call that was admitted and failed is recorded as refused too.  *)
RecordRefusalAlways(o) ==
  /\ \/ phase[o] = "refused" /\ Enter(o, "done")
     \/ phase[o] = "leaving" /\ verdict[o] = "unavailable" /\ UNCHANGED phase
  /\ Note([who |-> o, what |-> verdict[o]])
  /\ UNCHANGED <<vars, parent, verdict, active, pages, awaiting, held, referenceVars, documents, gone, lost>>

RecordRefusal(o) ==
  /\ phase[o] = "refused"
  /\ Enter(o, "done")
  /\ Note([who |-> o, what |-> verdict[o]])
  /\ UNCHANGED <<vars, parent, verdict, active, pages, awaiting, held, referenceVars, documents, gone, lost>>

(* An admitted call runs up to its first await: reconcileActivePage moves   *)
(* away from a page that closed, and after a takeover that left no page the *)
(* call fails and is recorded at once.                                      *)
Unavailable == active \notin Open /\ pages = <<>> /\ awaiting

Reconciled ==
  /\ active' = IF active \in Open \/ pages = <<>> THEN active ELSE Last(pages)
  /\ awaiting' = FALSE

Begin(o, b) ==
  /\ Callable(o, b)
  /\ Admit(o)
  /\ parent' = [parent EXCEPT ![o] = b]
  /\ \/ /\ Unavailable
        /\ Enter(o, "leaving")
        /\ verdict' = [verdict EXCEPT ![o] = "unavailable"]
        /\ Note([who |-> o, what |-> "unavailable"])
        /\ UNCHANGED <<active, awaiting>>
     \/ /\ ~Unavailable
        /\ Reconciled
        /\ Enter(o, "checking")
        /\ UNCHANGED <<verdict, trace>>
  /\ UNCHANGED <<pages, held, referenceVars, documents, gone, lost>>

(* A call that throws is recorded where the exception is caught, with no    *)
(* await in between; one that passes is recorded after further awaits.      *)
Settle(o, how) ==
  /\ verdict' = [verdict EXCEPT ![o] = how]
  /\ IF how = "ok"
     THEN Enter(o, "recording") /\ UNCHANGED trace
     ELSE Enter(o, "leaving") /\ Note([who |-> o, what |-> how])

(* enforceBrowserSafety settles: the call is denied or goes on.             *)
Denied(o) ==
  /\ phase[o] = "checking"
  /\ Settle(o, "failed")
  /\ UNCHANGED <<vars, parent, active, pages, awaiting, held, referenceVars, documents, gone, lost>>

Allowed(o) ==
  /\ phase[o] = "checking"
  /\ Enter(o, "acting")
  /\ UNCHANGED <<vars, parent, verdict, active, pages, awaiting, held, referenceVars,
                 documents, gone, lost, trace>>

(* The tool has run, or has thrown: a tool that none of the following is.   *)
Act(o) ==
  /\ phase[o] = "acting" /\ o \notin Batches
  /\ \E how \in {"ok", "failed"} : Settle(o, how)
  /\ UNCHANGED <<vars, parent, active, pages, awaiting, held, referenceVars, documents, gone, lost>>

(* browser_select_page: the page at an index of the list becomes the one    *)
(* that the tools operate on, those that are running included.              *)
SelectPage(o, p) ==
  /\ phase[o] = "acting" /\ o \notin Batches
  /\ p \in Open
  /\ active' = p
  /\ Settle(o, "ok")
  /\ UNCHANGED <<vars, parent, pages, awaiting, held, referenceVars, documents, gone, lost>>

(* browser_close_page: refused for index 0.  The page is closed across an   *)
(* await, in which others select pages and pages come and go; whoever is    *)
(* at index 0 afterwards becomes active in its place.  That close() failed  *)
(* is swallowed: the page may then still be open.                           *)
BeginClose(o, p) ==
  /\ phase[o] = "acting" /\ o \notin Batches
  /\ p \in Open /\ p # Head(pages)
  /\ Enter(o, "closing")
  /\ held' = [held EXCEPT ![o] = [page |-> p]]
  /\ UNCHANGED <<vars, parent, verdict, active, pages, awaiting, referenceVars, documents, gone, lost, trace>>

EndClose(o) ==
  /\ phase[o] = "closing"
  /\ held' = [held EXCEPT ![o] = None]
  /\ active' = IF active = held[o].page /\ pages # <<>> THEN Head(pages) ELSE active
  /\ Settle(o, "ok")
  /\ UNCHANGED <<vars, parent, pages, awaiting, referenceVars, documents, gone, lost>>

(* A snapshot reads the page across awaits and stores its references last.  *)
(* One element of the page has only a positional name, xN: N counts on from *)
(* the references that were stored when the snapshot began.                 *)
NextFallback(p) == IF refs[p] = None THEN 1 ELSE refs[p].name + 1

BeginSnapshot(o) ==
  /\ phase[o] = "acting" /\ o \notin Batches
  /\ active \in Open
  /\ Enter(o, "reading")
  /\ held' = [held EXCEPT ![o] =
       [page |-> active, since |-> revision, next |-> NextFallback(active)]]
  /\ UNCHANGED <<vars, parent, verdict, active, pages, awaiting, referenceVars, documents, gone, lost, trace>>

Store(r) ==
  /\ refs' = [refs EXCEPT ![r.page] = [since |-> r.since, epoch |-> epoch[r.page],
                                       document |-> documents[r.page], name |-> r.next]]
  /\ given' = [given EXCEPT ![r.page] = @ \cup {r.next}]
  /\ UNCHANGED epoch

EndSnapshot(o) ==
  /\ phase[o] = "reading"
  /\ held' = [held EXCEPT ![o] = None]
  /\ \/ held[o].page \in Open /\ Store(held[o]) /\ Settle(o, "ok")
     \/ held[o].page \notin Open /\ UNCHANGED referenceVars /\ Settle(o, "failed")
  /\ UNCHANGED <<vars, parent, active, pages, awaiting, documents, gone, lost>>

(* What a tool that is given a reference of the page accepts.               *)
Honoured(p) == refs[p] # None /\ refs[p].epoch = epoch[p]

(* Faulty: the batch waits for a step that passed.                          *)
EndBatchIfPassed(b) ==
  /\ b \in Batches /\ phase[b] = "acting"
  /\ \A o \in Steps(b) : phase[o] = "done" /\ verdict[o] = "ok"
  /\ \E how \in {"ok", "failed"} : Settle(b, how)
  /\ UNCHANGED <<vars, parent, active, pages, awaiting, held, referenceVars, documents, gone, lost>>

(* A batch ends when its last step is done, whether that step passed or     *)
(* not, or when it names a tool it may not call, and reports the failure in *)
(* its result.  It fails itself when it has no steps or too many, or when   *)
(* the navigation guard blocked a page meanwhile: NavigationGuard.          *)
EndBatch(b) ==
  /\ b \in Batches /\ phase[b] = "acting"
  /\ \A o \in Steps(b) : phase[o] = "done"
  /\ \E how \in {"ok", "failed"} : Settle(b, how)
  /\ UNCHANGED <<vars, parent, active, pages, awaiting, held, referenceVars, documents, gone, lost>>

(* The trace, the metrics and the list of actions are given the call while  *)
(* it is still inside runAutomation, after the outcome and the screenshot.  *)
Record(o) ==
  /\ phase[o] = "recording"
  /\ Enter(o, "leaving")
  /\ Note([who |-> o, what |-> verdict[o]])
  /\ UNCHANGED <<vars, parent, verdict, active, pages, awaiting, held, referenceVars, documents, gone, lost>>

Return(o) ==
  /\ phase[o] = "leaving"
  /\ Exit(o)
  /\ Enter(o, "done")
  /\ UNCHANGED <<parent, verdict, active, pages, awaiting, held, referenceVars, documents, gone, lost, trace>>

-----------------------------------------------------------------------------
(* The transition listener: references die, the next call must look at the  *)
(* pages again, and the transition is recorded.                             *)
Watched == Open \cup {active}

Invalidated ==
  /\ refs' = [p \in Pages |-> IF p \in Watched THEN None ELSE refs[p]]
  /\ epoch' = [p \in Pages |-> IF p \in Watched THEN epoch[p] + 1 ELSE epoch[p]]
  /\ UNCHANGED given

(* Faulty: the listener does not make the next call look at the pages.      *)
ObservedPartly(what) ==
  /\ Note([who |-> None, what |-> what])
  /\ IF what \in {"paused", "automation-resumed"} THEN Invalidated
     ELSE UNCHANGED referenceVars
  /\ UNCHANGED awaiting

Observed(what) ==
  /\ Note([who |-> None, what |-> what])
  /\ awaiting' = (awaiting \/ what = "automation-resumed")
  /\ IF what \in {"paused", "automation-resumed"} THEN Invalidated
     ELSE UNCHANGED referenceVars

Unobserved == UNCHANGED <<trace, awaiting, referenceVars>>

Answer(id) ==
  /\ \/ Granted(id) /\ Observed("paused")
     \/ Rejected(id) /\ Unobserved
  /\ UNCHANGED <<phase, parent, verdict, active, pages, held, documents, gone, lost>>

Takeover(id) ==
  /\ \/ RequestTakeover(id) /\ Observed("pause-requested")
     \/ \E l \in LeaseIds :
          \/ TakeControl(id, l) /\ Observed("human-control-acquired")
          \/ ResumeAutomation(id, l) /\ Observed("automation-resumed")
  /\ UNCHANGED <<phase, parent, verdict, active, pages, held, documents, gone, lost>>

(* The listener ignores "closed": the runtime records the end of a session. *)
EndSession ==
  /\ Close /\ Unobserved
  /\ UNCHANGED <<phase, parent, verdict, active, pages, held, documents, gone, lost>>

(* Pages open as popups and close by themselves or by hand; the page's      *)
(* close listener drops it from the list.                                   *)
PageOpens(p) ==
  /\ p \notin Open \cup gone
  /\ pages' = Append(pages, p)
  /\ UNCHANGED <<vars, phase, parent, verdict, active, awaiting, held, referenceVars,
                 documents, gone, lost, trace>>

PageCloses(p) ==
  /\ \E i \in DOMAIN pages : pages[i] = p /\ pages' = RemoveAt(pages, i)
  /\ gone' = gone \cup {p}
  /\ lost' = IF state = "human-control" THEN lost \cup {p} ELSE lost
  /\ UNCHANGED <<vars, phase, parent, verdict, active, awaiting, held, referenceVars, documents, trace>>

(* The page is given another document, by a call, a person or itself, and   *)
(* its framenavigated listener starts a new epoch.                          *)
NavigateUnnoticed(p) ==
  /\ p \in Open
  /\ \A q \in Pages : documents[q] <= MaxNavigations
  /\ documents' = [documents EXCEPT ![p] = @ + 1]
  /\ UNCHANGED <<vars, phase, parent, verdict, active, pages, awaiting, held, referenceVars,
                 gone, lost, trace>>

Navigate(p) ==
  /\ p \in Open
  /\ \A q \in Pages : documents[q] <= MaxNavigations
  /\ documents' = [documents EXCEPT ![p] = @ + 1]
  /\ epoch' = [epoch EXCEPT ![p] = @ + 1]
  /\ UNCHANGED <<vars, phase, parent, verdict, active, pages, awaiting, held, refs, given,
                 gone, lost, trace>>

(* The browser closes the page that close_page asked it to.                 *)
CloseTarget(o) == phase[o] = "closing" /\ PageCloses(held[o].page)

CallStep(o) ==
  \/ RecordRefusal(o) \/ Denied(o) \/ Allowed(o) \/ Act(o)
  \/ (\E p \in Pages : SelectPage(o, p) \/ BeginClose(o, p)) \/ CloseTarget(o) \/ EndClose(o)
  \/ BeginSnapshot(o) \/ EndSnapshot(o) \/ EndBatch(o) \/ Record(o) \/ Return(o)

SessionNext ==
  \/ \E o \in Operations :
       \/ \E b \in Batches \cup {None} : Refuse(o, b) \/ Begin(o, b)
       \/ CallStep(o)
  \/ \E id \in RequestIds : Takeover(id) \/ Answer(id)
  \/ EndSession
  \/ \E p \in Pages : PageOpens(p) \/ PageCloses(p) \/ Navigate(p)

SessionSpec == SessionInit /\ [][SessionNext]_allVars

-----------------------------------------------------------------------------
Records(o) == {i \in DOMAIN trace : trace[i].who = o}
Position(o) == CHOOSE i \in Records(o) : TRUE

(* Every call leaves exactly one record, whichever way it ends: refused,    *)
(* denied, failed, without a page, or inside a batch.                       *)
OneRecordPerCall ==
  \A o \in Operations :
    Cardinality(Records(o)) = IF phase[o] \in {"leaving", "done"} THEN 1 ELSE 0

(* A batch stops at its first step that does not pass, and its own record   *)
(* comes after those of its steps.                                          *)
BatchStopsAtFailure ==
  \A o, s \in Operations :
    /\ parent[o] # None /\ phase[parent[o]] \in {"leaving", "done"} =>
         Records(o) # {} /\ Position(o) < Position(parent[o])
    /\ /\ parent[o] = parent[s] /\ parent[o] # None /\ o # s
       /\ verdict[o] \notin {"none", "ok"} /\ Records(o) # {}
       => Records(s) # {} /\ Position(s) < Position(o)

(* The trace shows the pause as the person saw it: between the record of    *)
(* the pause and that of the resumption there is no record of a call that   *)
(* reached the page.                                                        *)
PauseIsQuiet ==
  \A i \in DOMAIN trace :
    trace[i].who # None /\ trace[i].what # "blocked" =>
      \A j \in 1..i : trace[j].what = "paused" =>
        \E k \in j..i : trace[k].what = "automation-resumed"

(* References taken before a takeover are not honoured after it, nor those  *)
(* stored before a navigation: what a tool accepts was read after the       *)
(* latest pause or resumption and stored under the present document.        *)
LastHandover ==
  LET turns == {i \in 1..Len(trace) : trace[i].what \in {"paused", "automation-resumed"}}
  IN  IF turns = {} THEN 0
      ELSE Cardinality({i \in 1..Max(turns) : trace[i].who = None})

StaleRefsDie ==
  \A p \in Open : Honoured(p) =>
    refs[p].since >= LastHandover /\ refs[p].document = documents[p]

(* A positional name is never given to a second element of the page, as the *)
(* comment where names are made says.  The code does: a takeover drops the  *)
(* count with the references, and snapshots that overlap begin with one.    *)
NamesNeverReused ==
  [][\A o \in Operations : phase[o] = "reading" /\ phase'[o] = "recording" =>
       held[o].next \notin given[held[o].page]]_allVars

(* No call works on a page that closed in the hands of a person.            *)
NeverOnLostPage ==
  active \in lost =>
    \A o \in Operations : phase[o] \notin {"checking", "acting", "reading", "closing"}

(* What a call needs for its next step: ENABLED CallStep(o), written out.   *)
(* A batch waits for its steps, every other call only for itself.           *)
CanStep(o) ==
  \/ phase[o] \in {"refused", "checking", "recording"}
  \/ phase[o] = "acting" /\ \A s \in Steps(o) : phase[s] = "done"
  \/ phase[o] = "reading" /\ held[o] \in Reading
  \/ phase[o] = "closing" /\ held[o] \in Closing
  \/ phase[o] = "leaving" /\ o \in running

(* Every call ends: a call that has begun can always take its next step, or *)
(* is a batch whose step is under way, also when a takeover cuts it short.  *)
NobodyIsStuck ==
  \A o \in Operations :
    /\ CanStep(o) = ENABLED CallStep(o)
    /\ phase[o] \notin {"new", "done"} => CanStep(o) \/ \E s \in Steps(o) : phase[s] # "done"
=============================================================================
