------------------------- MODULE InstallationProofs -------------------------
(***************************************************************************)
(* What GuardInstallation promises for any number of hosts, rules, pages   *)
(* and refusals: whoever was handed a tool set asked for the rules that    *)
(* the context is registered with, and has a guard in force.               *)
(*                                                                         *)
(* That is not inductive.  A host that waits says nothing yet about the    *)
(* guard it waits for; that the guard is complete when its `ready' fulfils *)
(* rests on what became of each page since it was begun (Covered), and     *)
(* that nobody else registers rules meanwhile on the fact that only the    *)
(* registered guard can be starting or ready (ActiveIsGuard).              *)
(***************************************************************************)
EXTENDS GuardInstallation, TLAPS

Active(g) == phase[g] \in {"starting", "ready"}

GuardIsRegistered ==
  guard # None => wants[guard] \in Rules /\ registered = wants[guard] /\ Active(guard)

ActiveIsGuard == \A g \in Installs : Active(g) /\ ~closed => guard = g

ClosedForgets == closed => guard = None /\ registered = None

NewIsUntouched ==
  \A i \in Installs : call[i] = "new" =>
    /\ phase[i] = "none" /\ route[i] = "off"
    /\ \A p \in Pages : watch[i][p] = "none"
    /\ \A j \in Installs : on[j] # i

HostsAgree ==
  \A i \in Installs :
    /\ call[i] \in {"waiting", "given"} =>
         on[i] \in Installs /\ wants[on[i]] = wants[i] /\ wants[i] \in Rules
    /\ call[i] = "given" => phase[on[i]] = "ready"
    /\ call[i] = "noop" => wants[i] = NoRules /\ (~closed => registered = NoRules)

Pending(g, p) == watch[g][p] \in {"opening", "listed"}
Held(g, p) == watch[g][p] = "done" /\ p \in fetching[g]

(* The pages a guard was begun with: while it starts each is being attached *)
(* or held, once it is ready each is held, unless it has closed.            *)
CoveredBy(g) ==
  /\ Active(g) => first[g] \subseteq open \cup gone
  /\ Active(g) => \A p \in first[g] \cap open : Pending(g, p) \/ Held(g, p)
  /\ phase[g] = "ready" => route[g] = "on" /\ \A p \in first[g] : ~Pending(g, p)

Covered == \A g \in Installs : CoveredBy(g)

IInv ==
  /\ InstallTypeOK
  /\ GuardIsRegistered /\ ActiveIsGuard /\ ClosedForgets
  /\ NewIsUntouched /\ HostsAgree /\ Covered

-----------------------------------------------------------------------------
LEMMA InitIInv == Init => IInv
<1> SUFFICES ASSUME Init PROVE IInv
  OBVIOUS
<1>1. InstallTypeOK
  <2>1. refusals \in 0..MaxRefusals
    BY RefusalsAreNatural DEF Init
  <2>2. watch \in [Installs -> [Pages -> Watch]]
    BY DEF Init, Watch
  <2> QED BY <2>1, <2>2 DEF Init, InstallTypeOK
<1>2. GuardIsRegistered /\ ActiveIsGuard /\ ClosedForgets
  BY DEF Init, GuardIsRegistered, ActiveIsGuard, ClosedForgets, Active
<1>3. NewIsUntouched /\ HostsAgree
  BY NoneIsNothing DEF Init, NewIsUntouched, HostsAgree
<1>4. Covered
  BY DEF Init, Covered, CoveredBy, Active
<1> QED BY <1>1, <1>2, <1>3, <1>4 DEF IInv

-----------------------------------------------------------------------------
(* Type correctness, action by action.                                      *)
LEMMA WatchUpdated ==
  ASSUME watch \in [Installs -> [Pages -> Watch]],
         NEW g \in Installs, NEW p \in Pages, NEW w \in Watch
  PROVE  [watch EXCEPT ![g][p] = w] \in [Installs -> [Pages -> Watch]]
<1> DEFINE row == [watch[g] EXCEPT ![p] = w]
<1>1. row \in [Pages -> Watch]
  OBVIOUS
<1>2. [watch EXCEPT ![g] = row] \in [Installs -> [Pages -> Watch]]
  BY <1>1
<1> QED BY <1>2

LEMMA RefusalsCounted ==
  ASSUME refusals \in 0..MaxRefusals, NEW excused \in BOOLEAN, Refuses(excused)
  PROVE  refusals' \in 0..MaxRefusals
BY RefusalsAreNatural DEF Refuses

LEMMA TypeStep ==
  ASSUME InstallTypeOK, [Next]_vars
  PROVE  InstallTypeOK'
<1> USE NoneIsNothing, RefusalsAreNatural DEF InstallTypeOK, Watch
<1>1. ASSUME NEW i \in Installs, NEW p \in Rules \cup {NoRules}, Install(i, p)
      PROVE  InstallTypeOK'
  <2>1. CASE Mixes(p) /\ Declines(i, "thrown") /\ UNCHANGED registered
    BY <1>1, <2>1 DEF Install, Declines, Answer, browserVars
  <2>2. CASE Shares(i)
    BY <1>1, <2>2 DEF Install, Shares, Answer, browserVars
  <2>3. CASE guard = None /\ p = NoRules /\ Declines(i, "noop") /\ registered' = NoRules
    BY <1>1, <2>3 DEF Install, Declines, Answer, browserVars
  <2>4. CASE Declines(i, "thrown") /\ UNCHANGED registered
    BY <1>1, <2>4 DEF Install, Declines, Answer, browserVars
  <2>5. CASE p # NoRules /\ Begins(i, p)
    BY <1>1, <2>5 DEF Install, Begins, Attach, Answer, browserVars
  <2> QED BY <1>1, <2>1, <2>2, <2>3, <2>4, <2>5 DEF Install
<1>2. ASSUME NEW g \in Installs, RouteAnswered(g)
      PROVE  InstallTypeOK'
  <2>1. refusals' \in 0..MaxRefusals
    BY <1>2, RefusalsCounted DEF RouteAnswered
  <2>2. /\ phase' \in [Installs -> {"none", "starting", "ready", "unrouting", "detaching", "failed"}]
        /\ guard' \in Installs \cup {None} /\ registered' \in Rules \cup {NoRules, None}
    BY <1>2 DEF RouteAnswered, RollsBack, Swallowed
  <2> QED BY <1>2, <2>1, <2>2 DEF RouteAnswered, browserVars
<1>3. ASSUME NEW g \in Installs, NEW p \in Pages, AttachLists(g, p) \/ AttachEnds(g, p)
      PROVE  InstallTypeOK'
  <2>1. watch' \in [Installs -> [Pages -> Watch]]
    <3>1. [watch EXCEPT ![g][p] = "listed"] \in [Installs -> [Pages -> Watch]]
      BY WatchUpdated
    <3>2. [watch EXCEPT ![g][p] = "done"] \in [Installs -> [Pages -> Watch]]
      BY WatchUpdated
    <3> QED BY <1>3, <3>1, <3>2 DEF AttachLists, AttachEnds
  <2>2. fetching' \in [Installs -> SUBSET Pages]
    BY <1>3 DEF AttachLists, AttachEnds
  <2> QED BY <1>3, <2>1, <2>2 DEF AttachLists, AttachEnds, hostVars, browserVars
<1>4. ASSUME NEW g \in Installs, NEW p \in Pages, AttachFails(g, p)
      PROVE  InstallTypeOK'
  <2>1. refusals' \in 0..MaxRefusals
    BY <1>4, RefusalsCounted DEF AttachFails
  <2>2. /\ phase' \in [Installs -> {"none", "starting", "ready", "unrouting", "detaching", "failed"}]
        /\ guard' \in Installs \cup {None} /\ registered' \in Rules \cup {NoRules, None}
    BY <1>4 DEF AttachFails, RollsBack, Swallowed
  <2>3. watch' \in [Installs -> [Pages -> Watch]]
    <3> DEFINE w == IF watch[g][p] = "listed" /\ p \in open THEN "done" ELSE "none"
    <3>1. watch' = [watch EXCEPT ![g][p] = w]
      BY <1>4 DEF AttachFails
    <3>2. w \in Watch
      OBVIOUS
    <3> HIDE DEF w
    <3> QED BY <3>1, <3>2, WatchUpdated
  <2> QED BY <1>4, <2>1, <2>2, <2>3 DEF AttachFails, browserVars
<1>5. ASSUME NEW g \in Installs, Ready(g) \/ Unroute(g) \/ Detach(g)
      PROVE  InstallTypeOK'
  <2>1. CASE Ready(g)
    BY <2>1 DEF Ready, Tell, browserVars
  <2>2. CASE Unroute(g)
    BY <2>2 DEF Unroute, hostVars, browserVars
  <2>3. CASE Detach(g)
    BY <2>3 DEF Detach, Tell, browserVars
  <2> QED BY <1>5, <2>1, <2>2, <2>3
<1>6. ASSUME NEW g \in Installs, NEW p \in Pages, Navigates(g, p)
      PROVE  InstallTypeOK'
  BY <1>6 DEF Navigates, Attach, hostVars, browserVars
<1>7. ASSUME NEW p \in Pages, PageOpens(p)
      PROVE  InstallTypeOK'
  BY <1>7 DEF PageOpens, hostVars
<1>8. ASSUME NEW p \in Pages, PageCloses(p)
      PROVE  InstallTypeOK'
  BY <1>8 DEF PageCloses, Lose, hostVars
<1>9. CASE ContextCloses
  BY <1>9 DEF ContextCloses, Lose
<1>10. CASE UNCHANGED vars
  BY <1>10 DEF vars, hostVars, browserVars
<1> QED BY <1>1, <1>2, <1>3, <1>4, <1>5, <1>6, <1>7, <1>8, <1>9, <1>10
        DEF Next, BrowserAnswers, GuardMoves

-----------------------------------------------------------------------------
(* Who is registered: only the registered guard is starting or ready.       *)
Registration == GuardIsRegistered /\ ActiveIsGuard /\ ClosedForgets

LEMMA RegistrationStep ==
  ASSUME IInv, [Next]_vars
  PROVE  Registration'
<1> USE NoneIsNothing, NoRulesIsNoRule
    DEF InstallTypeOK, Registration, GuardIsRegistered, ActiveIsGuard, ClosedForgets, Active
<1> InstallTypeOK /\ Registration /\ NewIsUntouched
  BY DEF IInv
<1>1. ASSUME NEW i \in Installs, NEW p \in Rules \cup {NoRules}, Install(i, p)
      PROVE  Registration'
  <2>0. guard # i /\ phase[i] = "none" /\ ~closed /\ closed' = closed
    BY <1>1 DEF NewIsUntouched, Install, browserVars
  <2>1. CASE Mixes(p) /\ Declines(i, "thrown") /\ UNCHANGED registered
    BY <1>1, <2>0, <2>1 DEF Install, Declines, browserVars
  <2>2. CASE Shares(i)
    BY <1>1, <2>0, <2>2 DEF Install, Shares, browserVars
  <2>3. CASE guard = None /\ p = NoRules /\ Declines(i, "noop") /\ registered' = NoRules
    BY <1>1, <2>0, <2>3 DEF Install, Declines, browserVars
  <2>4. CASE Declines(i, "thrown") /\ UNCHANGED registered
    BY <1>1, <2>0, <2>4 DEF Install, Declines, browserVars
  <2>5. CASE guard = None /\ p # NoRules /\ Begins(i, p)
    BY <1>1, <2>0, <2>5 DEF Install, Begins, browserVars
  <2> QED BY <1>1, <2>1, <2>2, <2>3, <2>4, <2>5 DEF Install
<1>2. ASSUME NEW g \in Installs, RollsBack(g), UNCHANGED <<closed, wants>>
      PROVE  Registration'
  BY <1>2 DEF RollsBack
<1>3. ASSUME UNCHANGED <<phase, guard, registered, closed, wants>>
      PROVE  Registration'
  BY <1>3
<1>4. ASSUME NEW g \in Installs, RouteAnswered(g)
      PROVE  Registration'
  BY <1>2, <1>3, <1>4 DEF RouteAnswered, Swallowed, browserVars
<1>5. ASSUME NEW g \in Installs, NEW p \in Pages, AttachFails(g, p)
      PROVE  Registration'
  BY <1>2, <1>3, <1>5 DEF AttachFails, Swallowed, browserVars
<1>6. ASSUME NEW g \in Installs, Ready(g)
      PROVE  Registration'
  BY <1>6 DEF Ready, browserVars
<1>7. ASSUME NEW g \in Installs, Unroute(g) \/ Detach(g)
      PROVE  Registration'
  <2>1. CASE Unroute(g)
    BY <2>1 DEF Unroute, hostVars, browserVars
  <2>2. CASE Detach(g)
    BY <2>2 DEF Detach, browserVars
  <2> QED BY <1>7, <2>1, <2>2
<1>8. ASSUME NEW g \in Installs, NEW p \in Pages,
             AttachLists(g, p) \/ AttachEnds(g, p) \/ Navigates(g, p)
      PROVE  Registration'
  BY <1>3, <1>8 DEF AttachLists, AttachEnds, Navigates, hostVars, browserVars
<1>9. ASSUME NEW p \in Pages, PageOpens(p) \/ PageCloses(p)
      PROVE  Registration'
  BY <1>3, <1>9 DEF PageOpens, PageCloses, hostVars
<1>10. CASE ContextCloses
  BY <1>10 DEF ContextCloses
<1>11. CASE UNCHANGED vars
  BY <1>3, <1>11 DEF vars, hostVars, browserVars
<1> QED BY <1>1, <1>4, <1>5, <1>6, <1>7, <1>8, <1>9, <1>10, <1>11
        DEF Next, BrowserAnswers, GuardMoves

-----------------------------------------------------------------------------
(* What each host was told, and by which guard.                             *)
LEMMA HostsStep ==
  ASSUME IInv, [Next]_vars
  PROVE  HostsAgree'
<1> USE NoneIsNothing, NoRulesIsNoRule DEF InstallTypeOK, HostsAgree
<1> InstallTypeOK /\ HostsAgree /\ NewIsUntouched
    /\ GuardIsRegistered /\ ActiveIsGuard /\ ClosedForgets
  BY DEF IInv
<1>1. ASSUME NEW i \in Installs, NEW p \in Rules \cup {NoRules}, Install(i, p)
      PROVE  HostsAgree'
  <2>0. /\ phase[i] = "none" /\ ~closed /\ closed' = closed /\ call[i] = "new"
        /\ wants' = [wants EXCEPT ![i] = p]
        /\ \A j \in Installs : on[j] # i
    BY <1>1 DEF NewIsUntouched, Install, browserVars
  <2>1. CASE Mixes(p) /\ Declines(i, "thrown") /\ UNCHANGED registered
    BY <2>0, <2>1 DEF Declines, Answer
  <2>2. CASE ~Mixes(p) /\ Shares(i)
    <3>1. guard # i /\ wants[guard] = p /\ p \in Rules
      BY <2>0, <2>2 DEF Shares, Mixes, GuardIsRegistered, Active
    <3> QED BY <2>0, <2>2, <3>1 DEF Shares, Answer
  <2>3. CASE ~Mixes(p) /\ p = NoRules /\ Declines(i, "noop") /\ registered' = NoRules
    BY <2>0, <2>3 DEF Declines, Answer
  <2>4. CASE Declines(i, "thrown") /\ UNCHANGED registered
    BY <2>0, <2>4 DEF Declines, Answer
  <2>5. CASE ~Mixes(p) /\ p # NoRules /\ Begins(i, p)
    BY <2>0, <2>5 DEF Begins, Answer, Mixes
  <2> QED BY <1>1, <2>1, <2>2, <2>3, <2>4, <2>5 DEF Install
<1>2. ASSUME NEW g \in Installs, RollsBack(g), UNCHANGED <<call, wants, on, closed>>
      PROVE  HostsAgree'
  BY <1>2 DEF RollsBack, ActiveIsGuard, Active, GuardIsRegistered
<1>3. ASSUME UNCHANGED <<phase, registered, call, wants, on, closed>>
      PROVE  HostsAgree'
  BY <1>3
<1>4. ASSUME NEW g \in Installs, RouteAnswered(g)
      PROVE  HostsAgree'
  BY <1>2, <1>3, <1>4 DEF RouteAnswered, Swallowed, browserVars
<1>5. ASSUME NEW g \in Installs, NEW p \in Pages, AttachFails(g, p)
      PROVE  HostsAgree'
  BY <1>2, <1>3, <1>5 DEF AttachFails, Swallowed, browserVars
<1>6. ASSUME NEW g \in Installs, Ready(g)
      PROVE  HostsAgree'
  BY <1>6 DEF Ready, Tell, browserVars
<1>7. ASSUME NEW g \in Installs, Unroute(g)
      PROVE  HostsAgree'
  BY <1>7 DEF Unroute, hostVars, browserVars
<1>8. ASSUME NEW g \in Installs, Detach(g)
      PROVE  HostsAgree'
  BY <1>8 DEF Detach, Tell, browserVars
<1>9. ASSUME NEW g \in Installs, NEW p \in Pages,
             AttachLists(g, p) \/ AttachEnds(g, p) \/ Navigates(g, p)
      PROVE  HostsAgree'
  BY <1>3, <1>9 DEF AttachLists, AttachEnds, Navigates, hostVars, browserVars
<1>10. ASSUME NEW p \in Pages, PageOpens(p) \/ PageCloses(p)
      PROVE  HostsAgree'
  BY <1>3, <1>10 DEF PageOpens, PageCloses, hostVars
<1>11. CASE ContextCloses
  BY <1>11 DEF ContextCloses
<1>12. CASE UNCHANGED vars
  BY <1>3, <1>12 DEF vars, hostVars, browserVars
<1> QED BY <1>1, <1>4, <1>5, <1>6, <1>7, <1>8, <1>9, <1>10, <1>11, <1>12
        DEF Next, BrowserAnswers, GuardMoves

-----------------------------------------------------------------------------
(* A call that has not been made has no guard, and nobody has been given    *)
(* one of that name.                                                        *)
LEMMA NewStep ==
  ASSUME IInv, [Next]_vars
  PROVE  NewIsUntouched'
<1> USE NoneIsNothing DEF InstallTypeOK, NewIsUntouched
<1> InstallTypeOK /\ NewIsUntouched /\ GuardIsRegistered
  BY DEF IInv
<1>1. ASSUME NEW i \in Installs, NEW p \in Rules \cup {NoRules}, Install(i, p)
      PROVE  NewIsUntouched'
  <2>0. call[i] = "new" /\ UNCHANGED open
    BY <1>1 DEF Install, browserVars
  <2>1. CASE Declines(i, "thrown") \/ Declines(i, "noop")
    BY <2>0, <2>1 DEF Declines, Answer
  <2>2. CASE Shares(i)
    <3>1. guard \in Installs /\ call[guard] # "new"
      BY <2>2 DEF Shares, GuardIsRegistered, Active
    <3> QED BY <2>0, <2>2, <3>1 DEF Shares, Answer
  <2>3. CASE Begins(i, p)
    BY <2>0, <2>3 DEF Begins, Answer, Attach
  <2> QED BY <1>1, <2>1, <2>2, <2>3 DEF Install
<1>2. ASSUME NEW g \in Installs, RouteAnswered(g)
      PROVE  NewIsUntouched'
  BY <1>2 DEF RouteAnswered, RollsBack, Swallowed
<1>3. ASSUME NEW g \in Installs, NEW p \in Pages,
             AttachLists(g, p) \/ AttachEnds(g, p) \/ AttachFails(g, p)
      PROVE  NewIsUntouched'
  <2>1. call[g] # "new" /\ call' = call /\ on' = on /\ route' = route
    BY <1>3 DEF AttachLists, AttachEnds, AttachFails, hostVars
  <2>2. \A h \in Installs : h # g => watch'[h] = watch[h] /\ phase'[h] = phase[h]
    BY <1>3 DEF AttachLists, AttachEnds, AttachFails, RollsBack, Swallowed
  <2> QED BY <2>1, <2>2
<1>4. ASSUME NEW g \in Installs, Ready(g) \/ Unroute(g) \/ Detach(g)
      PROVE  NewIsUntouched'
  <2>1. call[g] # "new"
    BY <1>4 DEF Ready, Unroute, Detach
  <2>2. CASE Ready(g)
    BY <2>1, <2>2 DEF Ready, Tell
  <2>3. CASE Unroute(g)
    BY <2>1, <2>3 DEF Unroute, hostVars
  <2>4. CASE Detach(g)
    BY <2>1, <2>4 DEF Detach, Tell
  <2> QED BY <1>4, <2>2, <2>3, <2>4
<1>5. ASSUME NEW g \in Installs, NEW p \in Pages, Navigates(g, p)
      PROVE  NewIsUntouched'
  BY <1>5 DEF Navigates, Attach, hostVars
<1>6. ASSUME NEW p \in Pages, PageOpens(p)
      PROVE  NewIsUntouched'
  BY <1>6 DEF PageOpens, Listening, hostVars
<1>7. ASSUME NEW p \in Pages, PageCloses(p)
      PROVE  NewIsUntouched'
  BY <1>7 DEF PageCloses, Lose, hostVars
<1>8. CASE ContextCloses
  BY <1>8 DEF ContextCloses, Lose
<1>9. CASE UNCHANGED vars
  BY <1>9 DEF vars, hostVars
<1> QED BY <1>1, <1>2, <1>3, <1>4, <1>5, <1>6, <1>7, <1>8, <1>9
        DEF Next, BrowserAnswers, GuardMoves

-----------------------------------------------------------------------------
LEMMA CoveredStep ==
  ASSUME IInv, [Next]_vars
  PROVE  Covered'
<1> USE DEF InstallTypeOK, Watch
<1> InstallTypeOK /\ NewIsUntouched /\ \A g \in Installs : CoveredBy(g)
  BY DEF IInv, Covered
<1> SUFFICES ASSUME NEW h \in Installs PROVE CoveredBy(h)'
  BY DEF Covered
<1>0. ASSUME UNCHANGED <<open, gone>>, first'[h] = first[h], phase'[h] = phase[h],
             route'[h] = route[h], watch'[h] = watch[h], fetching'[h] = fetching[h]
      PROVE  CoveredBy(h)'
  BY <1>0 DEF CoveredBy, Active, Pending, Held
<1>1. ASSUME NEW i \in Installs, NEW p \in Rules \cup {NoRules}, Install(i, p)
      PROVE  CoveredBy(h)'
  <2>0. call[i] = "new" /\ UNCHANGED <<open, gone, fetching>>
    BY <1>1 DEF Install, browserVars
  <2>1. CASE Declines(i, "thrown") \/ Declines(i, "noop") \/ Shares(i)
    BY <1>0, <2>0, <2>1 DEF Declines, Shares
  <2>2. CASE Begins(i, p) /\ h # i
    BY <1>0, <2>0, <2>2 DEF Begins, Attach
  <2>3. CASE Begins(i, p) /\ h = i
    BY <2>0, <2>3 DEF Begins, Attach, CoveredBy, Active, Pending, Held, NewIsUntouched
  <2> QED BY <1>1, <2>1, <2>2, <2>3 DEF Install
<1>2. ASSUME NEW g \in Installs, RouteAnswered(g)
      PROVE  CoveredBy(h)'
  <2>1. phase[g] # "ready"
    BY <1>2 DEF RouteAnswered, CoveredBy
  <2>2. CASE h # g
    BY <1>0, <1>2, <2>2 DEF RouteAnswered, RollsBack, Swallowed, browserVars
  <2>3. CASE h = g
    BY <1>2, <2>1, <2>3
       DEF RouteAnswered, RollsBack, Swallowed, browserVars, CoveredBy, Active, Pending, Held
  <2> QED BY <2>2, <2>3
<1>3. ASSUME NEW g \in Installs, NEW p \in Pages, AttachLists(g, p)
      PROVE  CoveredBy(h)'
  BY <1>3 DEF AttachLists, hostVars, browserVars, CoveredBy, Active, Pending, Held
<1>4. ASSUME NEW g \in Installs, NEW p \in Pages, AttachEnds(g, p)
      PROVE  CoveredBy(h)'
  BY <1>4 DEF AttachEnds, hostVars, browserVars, CoveredBy, Active, Pending, Held
<1>5. ASSUME NEW g \in Installs, NEW p \in Pages, AttachFails(g, p)
      PROVE  CoveredBy(h)'
  <2>1. CASE h # g
    BY <1>0, <1>5, <2>1 DEF AttachFails, RollsBack, Swallowed, browserVars
  <2>2. CASE h = g /\ p \in first[g]
    BY <1>5, <2>2
       DEF AttachFails, RollsBack, Swallowed, browserVars, CoveredBy, Active, Pending, Held
  <2>3. CASE h = g /\ p \notin first[g]
    BY <1>5, <2>3
       DEF AttachFails, Swallowed, browserVars, CoveredBy, Active, Pending, Held
  <2> QED BY <2>1, <2>2, <2>3
<1>6. ASSUME NEW g \in Installs, Ready(g)
      PROVE  CoveredBy(h)'
  BY <1>6 DEF Ready, browserVars, CoveredBy, Active, Pending, Held
<1>7. ASSUME NEW g \in Installs, Unroute(g)
      PROVE  CoveredBy(h)'
  <2>1. CASE h # g
    <3>1. first'[h] = first[h] /\ phase'[h] = phase[h] /\ route'[h] = route[h]
      BY <1>7, <2>1 DEF Unroute
    <3>2. UNCHANGED <<open, gone, watch, fetching>>
      BY <1>7 DEF Unroute, browserVars
    <3> QED BY <1>0, <3>1, <3>2
  <2>2. CASE h = g
    BY <1>7, <2>2 DEF Unroute, browserVars, CoveredBy, Active, Pending, Held
  <2> QED BY <2>1, <2>2
<1>8. ASSUME NEW g \in Installs, Detach(g)
      PROVE  CoveredBy(h)'
  <2>1. CASE h # g
    BY <1>0, <1>8, <2>1 DEF Detach, browserVars
  <2>2. CASE h = g
    BY <1>8, <2>2 DEF Detach, browserVars, CoveredBy, Active
  <2> QED BY <2>1, <2>2
<1>9. ASSUME NEW g \in Installs, NEW p \in Pages, Navigates(g, p)
      PROVE  CoveredBy(h)'
  BY <1>9 DEF Navigates, Attach, hostVars, browserVars, CoveredBy, Active, Pending, Held
<1>10. ASSUME NEW p \in Pages, PageOpens(p)
      PROVE  CoveredBy(h)'
  BY <1>10 DEF PageOpens, hostVars, CoveredBy, Active, Pending, Held
<1>11. ASSUME NEW lost \in SUBSET Pages, Lose(lost), UNCHANGED <<phase, route, first>>,
              lost \subseteq open
      PROVE  CoveredBy(h)'
  BY <1>11 DEF Lose, CoveredBy, Active, Pending, Held
<1>12. CASE \E p \in Pages : PageCloses(p)
  BY <1>11, <1>12 DEF PageCloses
<1>13. CASE ContextCloses
  BY <1>11, <1>13 DEF ContextCloses
<1>14. CASE UNCHANGED vars
  BY <1>0, <1>14 DEF vars, browserVars
<1> QED BY <1>1, <1>2, <1>3, <1>4, <1>5, <1>6, <1>7, <1>8, <1>9, <1>10, <1>12, <1>13, <1>14
        DEF Next, BrowserAnswers, GuardMoves

-----------------------------------------------------------------------------
LEMMA StepIInv == IInv /\ [Next]_vars => IInv'
BY TypeStep, RegistrationStep, HostsStep, NewStep, CoveredStep DEF IInv, Registration

LEMMA Invariance == Spec => []IInv
BY InitIInv, StepIInv, PTL DEF Spec

(* Every variable keeps its type, for any hosts, rules and pages.           *)
THEOREM TypeCorrect == Spec => []InstallTypeOK
<1>1. IInv => InstallTypeOK
  BY DEF IInv
<1> QED BY <1>1, Invariance, PTL

(* A tool set is handed out only under the rules the context is registered  *)
(* with, and with rules only when their guard is in force on each page that *)
(* was open when it was begun.                                              *)
THEOREM HandedOutInForce == Spec => []HandedOutIsInForce
<1>1. IInv => HandedOutIsInForce
  <2> SUFFICES ASSUME IInv, NEW i \in Installs, InUse(i)
               PROVE  /\ registered = wants[i]
                      /\ wants[i] # NoRules => InForce(on[i]) /\ wants[on[i]] = wants[i]
    BY DEF HandedOutIsInForce
  <2>1. CASE call[i] = "noop"
    BY <2>1 DEF IInv, HostsAgree, InUse
  <2>2. CASE call[i] = "given"
    <3>1. /\ on[i] \in Installs /\ wants[on[i]] = wants[i] /\ phase[on[i]] = "ready" /\ ~closed
      BY <2>2 DEF IInv, HostsAgree, InUse
    <3>2. guard = on[i] /\ registered = wants[i]
      BY <3>1, NoneIsNothing DEF IInv, ActiveIsGuard, Active, GuardIsRegistered
    <3>3. route[on[i]] = "on" /\ first[on[i]] \cap open \subseteq fetching[on[i]]
      BY <3>1 DEF IInv, InstallTypeOK, Covered, CoveredBy, Active, Held, Pending
    <3> QED BY <3>1, <3>2, <3>3 DEF InForce
  <2> QED BY <2>1, <2>2 DEF InUse
<1> QED BY <1>1, Invariance, PTL

(* Two hosts that were both handed a tool set on an open context asked for  *)
(* the same rules.                                                          *)
THEOREM SharersAgreeAlways == Spec => []SharersAgree
<1>1. HandedOutIsInForce => SharersAgree
  BY DEF HandedOutIsInForce, SharersAgree
<1> QED BY <1>1, HandedOutInForce, PTL
=============================================================================
