---------------------------- MODULE PageReferences ----------------------------
(***************************************************************************)
(* How a snapshot names the elements it shows:                             *)
(* collectInteractiveReferences of src/tools/references.ts, frame by frame *)
(* and await by await, over a page that changes meanwhile.                  *)
(*                                                                         *)
(* Two views of a frame are put together.  Playwright's accessibility      *)
(* snapshot (aria) gives refs that stick to their element as long as its   *)
(* document lives; the collector's own look at the DOM gives the entries    *)
(* that are shown.  They are joined by role and name (here one key), in    *)
(* order, where both views count the same; other entries are named xN and  *)
(* located by position.  HarnessSession has the calls around this, with a  *)
(* collection as two steps.                                                *)
(***************************************************************************)
EXTENDS Integers, FiniteSetsExt, SequencesExt

CONSTANTS Elements,     \* every element there will ever be
          Keys,         \* role and name of an element
          MaxExposed,   \* MAX_EXPOSED_REFERENCES or maxElements
          MaxElements,  \* bound: elements of a frame at the beginning
          Nothing,
          MaxChanges,   \* bound: changes of the page
          MaxLooks      \* bound: collections

Frames == {"main", "child"}

ASSUME SomeAreExposed == MaxExposed \in Nat \ {0}
ASSUME FramesBeginSmall == MaxElements \in [Frames -> Nat]
ASSUME NothingIsNoKey == Nothing \notin Keys

VARIABLES kind,     \* element -> the key each view has for it, or Nothing
          modal,    \* the only element in the scope of a blocking modal, or Nothing
          dom,      \* frame -> its elements in document order
          spent,    \* elements that have been in the page
          child,    \* the page has its iframe
          numbered, \* frame -> elements in the order Playwright gave them refs
          last,     \* frame -> elements in its latest accessibility snapshot
          epoch,    \* navigationState.epoch
          states,   \* what is stored for the page, or Nothing
          look,     \* the collection under way, or Nothing
          changes,  \* bound
          looks     \* bound

pageVars == <<kind, modal, dom, spent, child>>
playwrightVars == <<numbered, last>>
refVars == <<pageVars, playwrightVars, epoch, states, look, changes, looks>>

(* An element is in both views, in one, or named differently in them.       *)
Kinds == [dom : Keys \cup {Nothing}, aria : Keys \cup {Nothing}] \ {[dom |-> Nothing, aria |-> Nothing]}

Nobody == [f \in Frames |-> <<>>]

Init ==
  /\ kind \in [Elements -> Kinds]
  /\ modal \in Elements \cup {Nothing}
  /\ child \in BOOLEAN
  /\ dom \in {[main |-> m, child |-> c] : m \in SeqOf(Elements, MaxElements["main"]),
                                         c \in SeqOf(Elements, MaxElements["child"])}
  /\ IsInjective(dom["main"] \o dom["child"]) /\ (dom["child"] # <<>> => child)
  /\ spent = ToSet(dom["main"]) \cup ToSet(dom["child"])
  /\ numbered = Nobody /\ last = [f \in Frames |-> {}]
  /\ epoch = 0 /\ states = Nothing /\ look = Nothing
  /\ changes = 0 /\ looks = 0

-----------------------------------------------------------------------------
(* A set of positions, in order, and the items of a sequence that are in a  *)
(* set, in the order of the sequence.                                       *)
Place(P, j) == CHOOSE p \in P : Cardinality({q \in P : q <= p}) = j
Places(P) == [j \in 1..Cardinality(P) |-> Place(P, j)]
Those(s, S) ==
  LET at == Places({i \in DOMAIN s : s[i] \in S}) IN [j \in DOMAIN at |-> s[at[j]]]

(* Playwright's view.  The nth element of a document that a snapshot meets  *)
(* is its ref n for good; the snapshot of a page goes into its iframe.      *)
InTree(f) == {e \in ToSet(dom[f]) : kind[e].aria # Nothing}
Number(f) == numbered[f] \o Those(dom[f], InTree(f) \ ToSet(numbered[f]))
Ref(f, e) == [frame |-> f, n |-> CHOOSE n \in DOMAIN Number(f) : Number(f)[n] = e]

(* collectAiReferenceQueues: the refs of this very frame, a queue per key.  *)
OfKey(f, k) == Those(dom[f], {e \in InTree(f) : kind[e].aria = k})
Queues(f) == [k \in Keys |-> [i \in DOMAIN OfKey(f, k) |-> Ref(f, OfKey(f, k)[i])]]
NoQueues == [k \in Keys |-> <<>>]

(* The source a collection is at: a frame, or the frame a target is in, of  *)
(* which the elements from the scope's first one on are looked at.  The     *)
(* accessibility snapshot of a scope is that of the page, wherever it is.   *)
Source == Head(look.sources)

AriaFrame(source) == IF source.from = 0 THEN source.frame ELSE "main"

(* The snapshot answers, or fails and counts as empty.                      *)
AriaSnapshot ==
  /\ look # Nothing /\ look.stage = "aria"
  /\ LET f == AriaFrame(Source)
         met == IF f = "main" THEN Frames ELSE {f}
     IN  \/ /\ f = "main" \/ child
            /\ numbered' = [g \in Frames |-> IF g \in met THEN Number(g) ELSE numbered[g]]
            /\ last' = [g \in Frames |-> IF g \in met THEN InTree(g) ELSE last[g]]
            /\ look' = [look EXCEPT !.stage = "dom", !.queues = Queues(f),
                                    !.seen = @ \cup UNION {InTree(g) : g \in met}]
         \/ /\ look' = [look EXCEPT !.stage = "dom", !.queues = NoQueues]
            /\ UNCHANGED playwrightVars
  /\ UNCHANGED <<pageVars, epoch, states, changes, looks>>

-----------------------------------------------------------------------------
(* The collector's own view: position, key and standing of what it shows.   *)
(* Positions are those in the frame: a scope only begins later in it.       *)
Blocked(e) ==
  modal # Nothing /\ e # modal /\ \E f \in Frames : {e, modal} \subseteq ToSet(dom[f])

Entries(source) ==
  LET all == dom[source.frame]
      at == Places({p \in DOMAIN all : p >= source.from /\ kind[all[p]].dom # Nothing})
  IN  [j \in DOMAIN at |->
         [element |-> all[at[j]], index |-> at[j], source |-> source,
          key |-> kind[all[at[j]]].dom, blocked |-> Blocked(all[at[j]]), ref |-> Nothing]]

(* How many of the first n entries are of a key.                            *)
Rank(k, n, entries) == Cardinality({i \in 1..n : entries[i].key = k})

(* Faulty: refs are handed out whatever the two views count.                *)
AnyGroup(k, entries, queues) == TRUE

(* exactAiGroups: both views found the same number of this key.             *)
ExactGroup(k, entries, queues) == Len(queues[k]) = Rank(k, Len(entries), entries)

(* Each entry gets the ref of its rank within its key (aiQueue.shift());    *)
(* what is left gets the next positional names.                             *)
Named(entries, queues, next) ==
  LET ready == {i \in DOMAIN entries : /\ ExactGroup(entries[i].key, entries, queues)
                                       /\ queues[entries[i].key] # <<>>}
  IN  [j \in DOMAIN entries |->
         [entries[j] EXCEPT !.ref =
            IF j \in ready THEN queues[entries[j].key][Rank(entries[j].key, j, entries)]
            ELSE [frame |-> "any", n |-> next + Cardinality((1..j - 1) \ ready)]]]

NextFallback(entries, next) ==
  next + Cardinality({j \in DOMAIN entries : entries[j].ref.frame = "any"})

(* referencePriority: an entry of an iframe comes before one of the page;   *)
(* focus and visibility are left out.  The sort is stable.                  *)
Ranked(got) ==
  Those(got, {en \in ToSet(got) : en.source.frame = "child"})
    \o Those(got, {en \in ToSet(got) : en.source.frame = "main"})

Exposed(got) ==
  LET actionable == Those(Ranked(got), {en \in ToSet(got) : ~en.blocked})
  IN  SubSeq(actionable, 1, IF Len(actionable) < MaxExposed THEN Len(actionable) ELSE MaxExposed)

(* The DOM is read, which throws in a frame that is gone (what was stored    *)
(* stays); after the last source everything is stored, under the epoch of   *)
(* now.  `seen`, `since` and `began` are history: the elements of the       *)
(* accessibility snapshots, and the changes and the epoch there had been    *)
(* when the collection began.                                               *)
Evaluate ==
  /\ look # Nothing /\ look.stage = "dom"
  /\ IF Source.frame = "child" /\ Source.from = 0 /\ ~child
     THEN look' = Nothing /\ UNCHANGED states
     ELSE LET more == Named(Entries(Source), look.queues, look.next)
              got == look.got \o more
              next == NextFallback(more, look.next)
          IN  IF Len(look.sources) > 1
              THEN /\ look' = [look EXCEPT !.stage = "aria", !.sources = Tail(@),
                                           !.got = got, !.next = next]
                   /\ UNCHANGED states
              ELSE /\ look' = Nothing
                   /\ states' = [epoch |-> epoch, refs |-> Exposed(got), next |-> next,
                                 seen |-> look.seen, since |-> look.since, began |-> look.began]
  /\ UNCHANGED <<pageVars, playwrightVars, epoch, changes, looks>>

(* A snapshot of the page, or of what is inside a target of it.             *)
Begin ==
  /\ look = Nothing /\ looks < MaxLooks /\ looks' = looks + 1
  /\ \E sources \in
        {<<[frame |-> "main", from |-> 0]>> \o
           IF child THEN <<[frame |-> "child", from |-> 0]>> ELSE <<>>}
        \cup UNION {{<<[frame |-> f, from |-> i]>> : i \in DOMAIN dom[f]} : f \in Frames} :
       look' = [stage |-> "aria", sources |-> sources, queues |-> NoQueues, got |-> <<>>,
                next |-> IF states = Nothing THEN 1 ELSE states.next,
                seen |-> {}, since |-> changes, began |-> epoch]
  /\ UNCHANGED <<pageVars, playwrightVars, epoch, states, changes>>

-----------------------------------------------------------------------------
(* The page: elements come and go, the frame navigates, a person takes over.*)
Changes == changes < MaxChanges /\ changes' = changes + 1

Insert(f) ==
  /\ f = "main" \/ child
  /\ Changes
  /\ \E e \in Elements \ spent, i \in 1..Len(dom[f]) + 1 :
       dom' = [dom EXCEPT ![f] = InsertAt(@, i, e)] /\ spent' = spent \cup {e}
  /\ UNCHANGED <<kind, modal, child, playwrightVars, epoch, states, look, looks>>

Delete(f) ==
  /\ Changes
  /\ \E i \in DOMAIN dom[f] : dom' = [dom EXCEPT ![f] = RemoveAt(@, i)]
  /\ UNCHANGED <<kind, modal, spent, child, playwrightVars, epoch, states, look, looks>>

(* framenavigated of the main frame.                                        *)
PageNavigates ==
  /\ Changes
  /\ \E new \in {<<>>} \cup {<<e>> : e \in Elements \ spent} :
       dom' = [Nobody EXCEPT !["main"] = new] /\ spent' = spent \cup ToSet(new)
  /\ child' = FALSE
  /\ epoch' = epoch + 1
  /\ numbered' = Nobody /\ last' = [f \in Frames |-> {}]
  /\ UNCHANGED <<kind, modal, states, look, looks>>

InvalidatePageReferences ==
  /\ Changes
  /\ states' = Nothing /\ epoch' = epoch + 1
  /\ UNCHANGED <<pageVars, playwrightVars, look, looks>>

Next ==
  \/ Begin \/ AriaSnapshot \/ Evaluate
  \/ \E f \in Frames : Insert(f) \/ Delete(f)
  \/ PageNavigates \/ InvalidatePageReferences

Spec == Init /\ [][Next]_refVars

-----------------------------------------------------------------------------
Sources == [frame : Frames, from : Nat]
Refs == [frame : Frames \cup {"any"}, n : Nat]
Shown == [element : Elements, index : Nat, source : Sources, key : Keys,
          blocked : BOOLEAN, ref : Refs]

ReferencesTypeOK ==
  /\ kind \in [Elements -> Kinds] /\ modal \in Elements \cup {Nothing}
  /\ dom \in [Frames -> Seq(Elements)] /\ spent \subseteq Elements /\ child \in BOOLEAN
  /\ numbered \in [Frames -> Seq(Elements)] /\ last \in [Frames -> SUBSET Elements]
  /\ {epoch, changes, looks} \subseteq Nat
  /\ states \in {Nothing} \cup
       [epoch : Nat, refs : Seq(Shown), next : Nat, seen : SUBSET Elements,
        since : Nat, began : Nat]
  /\ look \in {Nothing} \cup
       [stage : {"aria", "dom"}, sources : Seq(Sources) \ {<<>>},
        queues : [Keys -> Seq(Refs)], got : Seq(Shown), next : Nat,
        seen : SUBSET Elements, since : Nat, began : Nat]

(* Using a ref.  An eN resolves to its element if the latest accessibility  *)
(* snapshot of the document has it and it is still there; an xN to the      *)
(* element at its position, if that has the same key.                       *)
AtPosition(en) ==
  LET all == dom[en.source.frame]
  IN  IF en.index \in DOMAIN all /\ kind[all[en.index]].dom = en.key
      THEN all[en.index] ELSE Nothing

ByAriaRef(ref) ==
  IF ref.n \notin DOMAIN numbered[ref.frame] THEN Nothing
  ELSE LET e == numbered[ref.frame][ref.n]
       IN  IF e \in last[ref.frame] /\ e \in ToSet(dom[ref.frame]) THEN e ELSE Nothing

Located(en) == IF en.ref.frame = "any" THEN AtPosition(en) ELSE ByAriaRef(en.ref)

(* Faulty: a ref is looked up whatever has happened to the page.            *)
AnyTime == IF states = Nothing THEN <<>> ELSE states.refs

(* referenceEntry: the entries that may be used now.                        *)
Usable == IF states # Nothing /\ states.epoch = epoch THEN states.refs ELSE <<>>
-----------------------------------------------------------------------------
(* Whether an element can be acted on is decided twice: by the snapshot,    *)
(* which tells the agent, and by describeLocatorBlocker before an action,   *)
(* which refuses it.  Geometry is given as the answers to the questions the *)
(* code asks the browser.                                                   *)

(* A dialog that is displayed: whether it matches :modal, says aria-modal,  *)
(* covers the viewport, has a child of body suppressed beside it, and       *)
(* whether the element is inside.                                           *)
Dialogs == [native : BOOLEAN, aria : BOOLEAN, covers : BOOLEAN, beside : BOOLEAN, holds : BOOLEAN]

BlocksInSnapshot(d) == d.native \/ (d.aria /\ (d.covers \/ d.beside))
BlocksAction(d) == d.native \/ (d.aria /\ (d.covers \/ d.beside))

(* An element: the dialogs of its document, and whether it is in the        *)
(* viewport, is hit by one of the five points probed, anything is at its    *)
(* centre, it exists, and the page answers the look before the action: an   *)
(* element that went meanwhile, or a page that navigates, does not.         *)
LayoutsOf(dialogs) ==
  [dialogs : dialogs, inViewport : BOOLEAN, hit : BOOLEAN, top : BOOLEAN, exists : BOOLEAN,
   answers : BOOLEAN]

(* The last of the dialogs that block is in the way of what is not in it.   *)
Outside(dialogs, Blocks(_)) ==
  LET blocking == {i \in DOMAIN dialogs : Blocks(dialogs[i])}
  IN  blocking # {} /\ ~dialogs[Max(blocking)].holds

(* The states shown in a snapshot; receivesPointer is false off screen.     *)
StatesOf(el) ==
  {s \in {"in-viewport", "occluded", "blocked-by-modal"} :
     \/ s = "in-viewport" /\ el.inViewport
     \/ s = "occluded" /\ el.inViewport /\ ~el.hit
     \/ s = "blocked-by-modal" /\ Outside(el.dialogs, BlocksInSnapshot)}

(* describeLocatorBlocker: an element off screen can be scrolled to, unless *)
(* a modal is in the way.  A look that fails finds nothing in the way.      *)
Blocker(el) ==
  IF ~el.answers THEN {}
  ELSE IF Outside(el.dialogs, BlocksAction) THEN {"modal"}
  ELSE IF el.inViewport /\ ~el.hit /\ el.top THEN {"top"} ELSE {}

(* blockedActionResult: what does not exist yet is left to the action.      *)
Refused(el) == el.exists /\ Blocker(el) # {}
-----------------------------------------------------------------------------
(* docs/positioning-proof.md: "A ref remains valid only for the exact       *)
(* exposed element".  While the page stands still, a ref locates the very   *)
(* element it was shown for.                                                *)
Exact(en) == states.since = changes => Located(en) = en.element

RefIsTheElementShown == \A i \in DOMAIN Usable : Exact(Usable[i])

(* The same, whatever else the accessibility tree has of the same role and  *)
(* name, for an entry all of whose namesakes in its frame the tree shows.   *)
Unmistakable(en) ==
  \A e \in ToSet(dom[en.source.frame]) : kind[e].dom = en.key => kind[e].aria = en.key

UnmistakableInAnyFrame ==
  \A i \in DOMAIN Usable : Unmistakable(Usable[i]) => Exact(Usable[i])

(* That is not so of a scope within the iframe, whose entries are given refs *)
(* of the page around it.  It is so of every other entry, also of those of   *)
(* such a scope that are located by position.                                *)
OfItsOwnFrame(en) == en.ref.frame = "any" \/ AriaFrame(en.source) = en.source.frame

UnmistakableIsExact ==
  \A i \in DOMAIN Usable :
    Unmistakable(Usable[i]) /\ OfItsOwnFrame(Usable[i]) => Exact(Usable[i])

(* Refs are numbered anew in each document: what a ref of the page locates  *)
(* was seen by the collection that gave it out, or there is nothing, also    *)
(* when the page navigates afterwards and is being looked at again, or that *)
(* fails.  A page that navigates during the collection is excepted: its old *)
(* refs are stored under the epoch of the new document.                     *)
OldRefsFindNothingNew ==
  \A i \in DOMAIN Usable :
    Usable[i].ref.frame = "main" /\ states.began = states.epoch =>
      Located(Usable[i]) \in states.seen \cup {Nothing}

(* No two entries of one observation go by one ref.                         *)
RefsTellApart == \A i, j \in DOMAIN Usable : Usable[i].ref = Usable[j].ref => i = j

(* An action on what a snapshot showed as free is tried, and one on what it *)
(* showed as blocked is refused, if the look before the action succeeds.    *)
LooksAgree(el) ==
  el.exists =>
    /\ StatesOf(el) \cap {"occluded", "blocked-by-modal"} = {} => ~Refused(el)
    /\ el.answers /\ "blocked-by-modal" \in StatesOf(el) => Refused(el)
    /\ el.answers /\ "occluded" \in StatesOf(el) /\ el.top => Refused(el)
=============================================================================
