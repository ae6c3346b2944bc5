---------------------------- MODULE ContainerProofs ----------------------------
(***************************************************************************)
(* What the shared container promises for any starts, processes, images,   *)
(* deaths and teardowns, under either service.                             *)
(*                                                                         *)
(* A start goes by what several commands told it one after the other.  The *)
(* invariant says of each place in a start what is still so: of the        *)
(* container, unless something was removed or died since (Followed); of    *)
(* its image, unless another image took the name (Matched); of numbers,    *)
(* which only grow, whatever happened (Placed).                            *)
(***************************************************************************)
EXTENDS CamoufoxContainer, FiniteSetTheorems, SequenceTheorems, TLAPS

Places == Commands \cup Ends \cup {"up"}
Early == {"image", "fetch", "inspect", "remove", "run"}
Afloat == {"probe", "answer", "up"}
Aboard == {"networks", "connect", "started", "logs", "refresh", "port", "options", "attach"}

RunRecord == [at : Places, id : Nat, path : Nat, since : Nat, addr : Nat, conn : Nat,
              asked : Nat, disturbed : BOOLEAN, outdated : BOOLEAN, cut : BOOLEAN]
ProbeRecord == [id : Nat, ranIn : Nat, done : BOOLEAN]

Types ==
  /\ camoufox \in BOOLEAN /\ networked \in BOOLEAN
  /\ made \in Seq(Images) /\ boots \in Nat
  /\ asks \in [Starts -> [image : Images, probe : BOOLEAN, host : Processes]]
  /\ run \in [Starts -> RunRecord]
  /\ probes \in Seq(ProbeRecord)
  /\ cache \in [Processes -> [id : Nat, value : Nat]]
  /\ stopping \subseteq Processes

Hosted ==
  box # None =>
    /\ box \in Box
    /\ box.id = Len(made) /\ box.id # 0 /\ box.image = made[box.id] /\ box.path \in {0, box.id}
    /\ box.boot \in 1..boots /\ box.lines \subseteq 1..box.boot

(* A start that nothing befell is at a container that is up, joined to the  *)
(* network, at the boot whose line it waited for and whose port it found.   *)
Followed(r) ==
  r.at \in Aboard /\ ~r.disturbed =>
    /\ box # None /\ box.up
    /\ r.at \notin {"networks", "connect"} /\ networked => box.joined
    /\ r.at = "logs" => r.since = box.boot
    /\ r.at \in {"refresh", "port", "options", "attach"} => box.boot \in box.lines
    /\ r.at \in {"port", "options", "attach"} => r.id = box.id /\ r.path = box.path
    /\ r.at \in {"options", "attach"} /\ ~networked => r.addr = box.boot

Matched(s, r) ==
  r.at \in Aboard \cup {"restart"} /\ ~r.outdated /\ box # None => box.image = asks[s].image

(* Containers are numbered in their order, and so is what is read of them:  *)
(* a browser is in no older container than the one inspected for it.        *)
Placed(s, r) ==
  /\ r.id <= Len(made) /\ r.conn <= Len(made)
  /\ r.since <= boots /\ r.addr <= boots
  /\ r.asked <= Len(probes)
  /\ r.at \in {"port", "options", "attach"} \cup Afloat => r.id # 0
  /\ r.at \in Afloat => r.id <= r.conn
  /\ r.at \in Afloat /\ ~r.outdated => made[r.conn] = asks[s].image
  /\ r.at = "answer" => r.asked # 0
  /\ r.asked # 0 => r.at \in {"answer", "up"} /\ probes[r.asked].id = r.id

Fits(s, r) == Followed(r) /\ Matched(s, r) /\ Placed(s, r)

(* A probe ran in no older container than the one it was asked for.         *)
Measured ==
  /\ \A k \in DOMAIN probes :
       /\ probes[k].id \in 1..Len(made)
       /\ probes[k].ranIn = 0 \/ probes[k].ranIn \in probes[k].id..Len(made)
  /\ \A p \in Processes : cache[p] # Empty =>
       cache[p].value \in DOMAIN probes /\ cache[p].id = probes[cache[p].value].id

(* A start makes one container at most, and one was there before.           *)
Past == {s \in Starts : run[s].at \notin Early}
Bounded == Len(made) <= Cardinality(Past) + 1

IInv ==
  /\ Types /\ Hosted /\ Measured /\ Bounded
  /\ \A s \in Starts : Fits(s, run[s])

-----------------------------------------------------------------------------
(* Places and counts.                                                       *)
LEMMA AtTyped ==
  ASSUME NEW step \in Places
  PROVE  /\ At(step) \in RunRecord /\ At(step).at = step
         /\ At(step).id = 0 /\ At(step).conn = 0 /\ At(step).since = 0 /\ At(step).addr = 0
         /\ At(step).asked = 0
BY DEF At, RunRecord

LEMMA FitsNowhere ==
  ASSUME Types, NEW s \in Starts, NEW step \in {"image", "inspect", "closed", "failed"}
  PROVE  Fits(s, At(step)) /\ At(step) \in RunRecord
<1>1. step \in Places /\ step \notin Aboard \cup {"restart", "answer"} \cup Afloat
  BY DEF Places, Commands, Ends, Aboard, Afloat
<1>2. At(step) \in RunRecord
  BY <1>1, AtTyped
<1>3. Followed(At(step)) /\ Matched(s, At(step))
  BY <1>1 DEF At, Followed, Matched
<1>4. Len(made) \in Nat /\ Len(probes) \in Nat /\ boots \in Nat
  BY DEF Types
<1>5. Placed(s, At(step))
  BY <1>1, <1>4 DEF At, Placed, Aboard
<1> QED BY <1>2, <1>3, <1>5 DEF Fits

LEMMA PastGrows ==
  ASSUME Past \subseteq Past'
  PROVE  /\ Cardinality(Past) \in Nat /\ Cardinality(Past') \in Nat
         /\ Cardinality(Past) <= Cardinality(Past')
         /\ Past # Past' => Cardinality(Past) < Cardinality(Past')
<1>1. Past' \subseteq Starts
  BY DEF Past
<1>2. IsFiniteSet(Past')
  BY <1>1, StartsAreFinite, FS_Subset
<1>3. /\ IsFiniteSet(Past) /\ Cardinality(Past) <= Cardinality(Past')
      /\ Cardinality(Past) = Cardinality(Past') => Past = Past'
  BY <1>2, FS_Subset
<1>4. Cardinality(Past) \in Nat /\ Cardinality(Past') \in Nat
  BY <1>2, <1>3, FS_CardinalityType
<1> QED BY <1>3, <1>4

-----------------------------------------------------------------------------
(* Frames.  A start at which a step only passes by is where it was: what    *)
(* the step does to the container keeps to Followed, or disturbed it; and   *)
(* to Matched, or outdated it.                                              *)
Beside(q, r) ==
  /\ r.at = q.at /\ r.id = q.id /\ r.path = q.path /\ r.since = q.since /\ r.addr = q.addr
  /\ r.conn = q.conn /\ r.asked = q.asked
  /\ q.disturbed => r.disturbed
  /\ q.outdated => r.outdated

LEMMA BesideFits ==
  ASSUME Types, Types', NEW s \in Starts, NEW q \in RunRecord, NEW r \in RunRecord,
         Fits(s, q), Beside(q, r), networked' = networked, asks' = asks,
         Len(made) <= Len(made'), \A i \in 1..Len(made) : made'[i] = made[i], boots <= boots',
         Len(probes) <= Len(probes'), \A k \in 1..Len(probes) : probes'[k].id = probes[k].id,
         q.at \in Aboard /\ ~r.disturbed /\ box # None /\ box.up =>
           /\ box' # None /\ box'.up /\ box'.boot = box.boot
           /\ box'.id = box.id /\ box'.path = box.path
           /\ box.joined => box'.joined
           /\ box.lines \subseteq box'.lines,
         q.at \in Aboard \cup {"restart"} /\ ~r.outdated /\ box' # None =>
           \/ box # None /\ box'.image = box.image
           \/ box'.image = asks[s].image
  PROVE  Fits(s, r)'
<1>1. Followed(r)'
  BY DEF Fits, Followed, Beside
<1>2. Matched(s, r)'
  BY DEF Fits, Matched, Beside
<1>3. /\ q.id \in Nat /\ q.conn \in Nat /\ q.since \in Nat /\ q.addr \in Nat /\ q.asked \in Nat
      /\ Len(made) \in Nat /\ Len(made') \in Nat /\ Len(probes) \in Nat /\ Len(probes') \in Nat
      /\ boots \in Nat /\ boots' \in Nat
  <2>1. q.id \in Nat /\ q.conn \in Nat /\ q.since \in Nat /\ q.addr \in Nat /\ q.asked \in Nat
    BY DEF RunRecord
  <2>2. made \in Seq(Images) /\ made' \in Seq(Images) /\ boots \in Nat /\ boots' \in Nat
    BY DEF Types
  <2>3. probes \in Seq(ProbeRecord) /\ probes' \in Seq(ProbeRecord)
    BY DEF Types
  <2>4. Len(made) \in Nat /\ Len(made') \in Nat
    BY <2>2
  <2>5. Len(probes) \in Nat /\ Len(probes') \in Nat
    BY <2>3
  <2> QED BY <2>1, <2>2, <2>4, <2>5
<1>4. q.at \in Afloat => q.conn \in 1..Len(made)
  BY <1>3 DEF Fits, Placed
<1>5. q.asked # 0 => q.asked \in 1..Len(probes)
  BY <1>3 DEF Fits, Placed
<1>6. /\ r.id <= Len(made') /\ r.conn <= Len(made') /\ r.since <= boots' /\ r.addr <= boots'
      /\ r.asked <= Len(probes')
  BY <1>3 DEF Fits, Placed, Beside
<1>7. r.at \in Afloat /\ ~r.outdated => made'[r.conn] = asks[s].image
  BY <1>4 DEF Fits, Placed, Beside
<1>8. r.asked # 0 => probes'[r.asked].id = r.id
  BY <1>5 DEF Fits, Placed, Beside
<1>9. Placed(s, r)'
  <2>1. /\ r.at \in {"port", "options", "attach"} \cup Afloat => r.id # 0
        /\ r.at \in Afloat => r.id <= r.conn
        /\ r.at = "answer" => r.asked # 0
        /\ r.asked # 0 => r.at \in {"answer", "up"}
    BY DEF Fits, Placed, Beside
  <2> QED BY <1>6, <1>7, <1>8, <2>1 DEF Placed
<1> QED BY <1>1, <1>2, <1>9 DEF Fits

LEMMA BesideItself == \A r : Beside(r, r)
BY DEF Beside

(* A step of a start that changes nothing but where it is.                  *)
LEMMA MoveKeeps ==
  ASSUME IInv, NEW s \in Starts, NEW r \in RunRecord, run' = [run EXCEPT ![s] = r],
         UNCHANGED <<hostVars, asks, processVars>>, Fits(s, r),
         r.at \in Early => run[s].at \in Early
  PROVE  IInv'
<1>1. /\ UNCHANGED <<box, made, boots, camoufox, networked, asks, cache, probes, stopping>>
      /\ Types /\ run \in [Starts -> RunRecord]
  BY DEF hostVars, processVars, IInv, Types
<1>2. run' \in [Starts -> RunRecord] /\ run'[s] = r /\ \A t \in Starts \ {s} : run'[t] = run[t]
  BY <1>1
<1>3. Types'
  BY <1>1, <1>2 DEF Types
<1>4. Hosted' /\ Measured'
  BY <1>1 DEF IInv, Hosted, Measured
<1>5. Bounded'
  <2>1. Past \subseteq Past'
    BY <1>2 DEF Past
  <2>2. Cardinality(Past) <= Cardinality(Past') /\ Cardinality(Past) \in Nat /\ Cardinality(Past') \in Nat
    BY <2>1, PastGrows
  <2>3. Len(made) \in Nat /\ Len(made) <= Cardinality(Past) + 1
    BY <1>1 DEF IInv, Bounded, Types
  <2> QED BY <1>1, <2>2, <2>3 DEF Bounded
<1>6. ASSUME NEW t \in Starts PROVE Fits(t, run[t])'
  <2>1. Fits(t, run'[t])
    BY <1>2 DEF IInv
  <2> QED BY <1>1, <2>1 DEF Fits, Followed, Matched, Placed
<1> QED BY <1>3, <1>4, <1>5, <1>6 DEF IInv

LEMMA GoesMoves ==
  ASSUME IInv, NEW s \in Starts, NEW step \in Places, Goes(s, step), SameHost,
         Fits(s, [run[s] EXCEPT !.at = step]), step \in Early => run[s].at \in Early
  PROVE  IInv'
<1>1. /\ run' = [run EXCEPT ![s] = [run[s] EXCEPT !.at = step]]
      /\ [run[s] EXCEPT !.at = step] \in RunRecord /\ [run[s] EXCEPT !.at = step].at = step
      /\ UNCHANGED <<hostVars, asks, processVars>>
  BY DEF Goes, SameHost, IInv, Types, RunRecord
<1> QED BY <1>1, MoveKeeps

LEMMA FailsMoves ==
  ASSUME IInv, NEW s \in Starts, Fails(s), SameHost
  PROVE  IInv'
<1>1. Types
  BY DEF IInv
<1>2. Fits(s, At("failed")) /\ At("failed") \in RunRecord /\ At("failed").at \notin Early
  BY <1>1, FitsNowhere DEF At, Early
<1> QED BY <1>2, MoveKeeps DEF Fails, SameHost

-----------------------------------------------------------------------------
(* Steps of a start that leave the host as it is.                           *)
LEMMA GoesPlaced ==
  ASSUME IInv, NEW s \in Starts, NEW step \in Places \ {"answer"},
         step \in {"port", "options", "attach"} => run[s].at \in {"port", "options", "attach"},
         step \in Afloat => run[s].at \in Afloat,
         run[s].at \in {"answer", "up"} => step = "up"
  PROVE  Placed(s, [run[s] EXCEPT !.at = step])
<1> DEFINE r == [run[s] EXCEPT !.at = step]
<1>1. run[s] \in RunRecord /\ Placed(s, run[s])
  BY DEF IInv, Types, Fits
<1>2. /\ r.at = step /\ r.id = run[s].id /\ r.conn = run[s].conn /\ r.since = run[s].since
      /\ r.addr = run[s].addr /\ r.asked = run[s].asked /\ r.outdated = run[s].outdated
  BY <1>1 DEF RunRecord
<1> HIDE DEF r
<1>3. Placed(s, r)
  BY <1>1, <1>2 DEF Placed
<1> QED BY <1>3 DEF r

LEMMA GoesAshore ==
  ASSUME IInv, NEW s \in Starts, NEW step \in {"inspect", "fetch", "remove", "run"},
         run[s].at \in Early, Goes(s, step), SameHost
  PROVE  IInv'
<1>1. /\ step \in Places \ {"answer"} /\ step \in Early
      /\ step \notin {"port", "options", "attach"} \cup Afloat \cup Aboard \cup {"restart"}
  BY DEF Places, Commands, Early, Afloat, Aboard
<1>2. [run[s] EXCEPT !.at = step].at = step
  BY DEF IInv, Types, RunRecord
<1>3. Placed(s, [run[s] EXCEPT !.at = step])
  BY <1>1, GoesPlaced DEF Early
<1>4. Fits(s, [run[s] EXCEPT !.at = step])
  BY <1>1, <1>2, <1>3 DEF Fits, Followed, Matched
<1> QED BY <1>1, <1>4, GoesMoves

LEMMA EnsureImageKeeps ==
  ASSUME IInv, NEW s \in Starts, EnsureImage(s)
  PROVE  IInv'
<1>1. run[s].at \in Early
  BY DEF EnsureImage, Early
<1>2. Goes(s, "inspect") \/ Goes(s, "fetch")
  BY DEF EnsureImage
<1> QED BY <1>1, <1>2, GoesAshore DEF EnsureImage

LEMMA FetchImageKeeps ==
  ASSUME IInv, NEW s \in Starts, FetchImage(s)
  PROVE  IInv'
<1>1. run[s].at \in Early
  BY DEF FetchImage, Early
<1> QED BY <1>1, GoesAshore DEF FetchImage

LEMMA DockerFailsKeeps ==
  ASSUME IInv, NEW s \in Starts, DockerFails(s)
  PROVE  IInv'
BY FailsMoves DEF DockerFails

LEMMA TimeOutKeeps ==
  ASSUME IInv, NEW s \in Starts, TimeOut(s)
  PROVE  IInv'
BY FailsMoves DEF TimeOut

(* A container that is up and taken as it is has the image and is there.    *)
LEMMA InspectedKeeps ==
  ASSUME IInv, NEW s \in Starts, NEW stale \in BOOLEAN, Inspected(s, stale),
         box # None /\ ~stale => ~OtherImage(s, box)
  PROVE  IInv'
<1>1. run[s].at = "inspect" /\ run[s].at \in Early
  BY DEF Inspected, Early
<1>2. CASE box = None
  BY <1>1, <1>2, GoesAshore DEF Inspected
<1>3. CASE box # None /\ stale
  BY <1>1, <1>3, GoesAshore DEF Inspected
<1>4. CASE box # None /\ ~stale
  <2> DEFINE step == IF ~box.up THEN "restart" ELSE "networks"
  <2>1. /\ step \in Places \ {"answer"}
        /\ step \notin {"port", "options", "attach", "logs", "refresh"} \cup Afloat \cup Early
        /\ step \in Aboard => step = "networks" /\ box.up
    BY DEF Places, Commands, Early, Afloat, Aboard
  <2>2. Goes(s, step) /\ SameHost
    BY <1>4 DEF Inspected
  <2> HIDE DEF step
  <2>3. /\ [run[s] EXCEPT !.at = step].at = step
    BY DEF IInv, Types, RunRecord
  <2>4. Placed(s, [run[s] EXCEPT !.at = step])
    BY <1>1, <2>1, GoesPlaced
  <2>5. Followed([run[s] EXCEPT !.at = step])
    BY <1>4, <2>1, <2>3 DEF Followed
  <2>6. Matched(s, [run[s] EXCEPT !.at = step])
    BY <1>4 DEF Matched, OtherImage
  <2> QED BY <2>1, <2>2, <2>4, <2>5, <2>6, GoesMoves DEF Fits
<1> QED BY <1>2, <1>3, <1>4

LEMMA LookAtNetworksKeeps ==
  ASSUME IInv, NEW s \in Starts, LookAtNetworks(s)
  PROVE  IInv'
<1> DEFINE step == IF networked /\ (IF box = None THEN TRUE ELSE ~box.joined)
                   THEN "connect" ELSE "started"
<1>1. /\ step \in Places \ {"answer"} /\ step \in Aboard
      /\ step \notin {"port", "options", "attach", "logs", "refresh"} \cup Afloat \cup Early
      /\ step # "connect" /\ networked /\ box # None => box.joined
  BY DEF Places, Commands, Early, Afloat, Aboard
<1>2. Goes(s, step) /\ SameHost /\ run[s].at = "networks" /\ run[s].at \in Aboard
  BY DEF LookAtNetworks, Aboard
<1> HIDE DEF step
<1>3. /\ [run[s] EXCEPT !.at = step].at = step
      /\ [run[s] EXCEPT !.at = step].disturbed = run[s].disturbed
      /\ [run[s] EXCEPT !.at = step].outdated = run[s].outdated
  BY DEF IInv, Types, RunRecord
<1>4. Followed(run[s]) /\ Matched(s, run[s])
  BY DEF IInv, Fits
<1>5. Placed(s, [run[s] EXCEPT !.at = step])
  BY <1>1, <1>2, GoesPlaced
<1>6. Followed([run[s] EXCEPT !.at = step])
  BY <1>1, <1>2, <1>3, <1>4 DEF Followed
<1>7. Matched(s, [run[s] EXCEPT !.at = step])
  BY <1>1, <1>2, <1>3, <1>4 DEF Matched
<1> QED BY <1>1, <1>2, <1>5, <1>6, <1>7, GoesMoves DEF Fits

(* A boot whose line is older than the one a wait began at was not waited   *)
(* for: no line is of a boot to come.                                       *)
LEMMA PollKeeps ==
  ASSUME IInv, NEW s \in Starts, Poll(s)
  PROVE  IInv'
<1>1. CASE Fails(s)
  BY <1>1, FailsMoves DEF Poll
<1>2. CASE Listened(s) /\ Goes(s, "refresh")
  <2> DEFINE r == [run[s] EXCEPT !.at = "refresh"]
  <2>1. /\ "refresh" \in Places \ {"answer"} /\ "refresh" \in Aboard /\ "logs" \in Aboard
        /\ "refresh" \notin {"port", "options", "attach", "logs"} \cup Afloat \cup Early
    BY DEF Places, Commands, Early, Afloat, Aboard
  <2>2. SameHost /\ run[s].at = "logs"
    BY DEF Poll
  <2>3. r.at = "refresh" /\ r.disturbed = run[s].disturbed /\ r.outdated = run[s].outdated
    BY DEF IInv, Types, RunRecord
  <2>4. Followed(run[s]) /\ Matched(s, run[s]) /\ Hosted /\ run[s] \in RunRecord
    BY DEF IInv, Fits, Types
  <2>5. Placed(s, r)
    BY <2>1, <2>2, GoesPlaced
  <2>6. ASSUME ~run[s].disturbed PROVE box.boot \in box.lines
    <3>1. box # None /\ run[s].since = box.boot
      BY <2>1, <2>2, <2>4, <2>6 DEF Followed
    <3>2. PICK b \in box.lines : b >= run[s].since
      BY <1>2, <3>1 DEF Listened
    <3>3. b \in 1..box.boot /\ box.boot \in Nat
      BY <2>4, <3>1 DEF Hosted, Box
    <3>4. b = box.boot
      BY <3>1, <3>2, <3>3
    <3> QED BY <3>2, <3>4
  <2> HIDE DEF r
  <2>7. Followed(r)
    BY <2>1, <2>2, <2>3, <2>4, <2>6 DEF Followed
  <2>8. Matched(s, r)
    BY <2>1, <2>2, <2>3, <2>4 DEF Matched
  <2>9. Fits(s, r)
    BY <2>5, <2>7, <2>8 DEF Fits
  <2> QED BY <1>2, <2>1, <2>2, <2>9, GoesMoves DEF r
<1> QED BY <1>1, <1>2 DEF Poll

LEMMA ReadStartedAtKeeps ==
  ASSUME IInv, NEW s \in Starts, ReadStartedAt(s)
  PROVE  IInv'
<1> DEFINE b == IF box = None THEN 0 ELSE box.boot
           r == [run[s] EXCEPT !.at = "logs", !.since = b]
<1>1. /\ "logs" \in Places /\ "logs" \in Aboard /\ "started" \in Aboard
      /\ "logs" \notin {"port", "options", "attach", "refresh", "answer"} \cup Afloat \cup Early
  BY DEF Places, Commands, Early, Afloat, Aboard
<1>2. SameHost /\ run[s].at = "started"
  BY DEF ReadStartedAt
<1>3. Followed(run[s]) /\ Matched(s, run[s]) /\ Placed(s, run[s]) /\ Hosted /\ run[s] \in RunRecord
  BY DEF IInv, Fits, Types
<1>4. boots \in Nat
  BY DEF IInv, Types
<1>5. b \in Nat /\ b <= boots
  BY <1>3, <1>4 DEF Hosted
<1>6. run' = [run EXCEPT ![s] = r]
  BY DEF ReadStartedAt, IInv, Types
<1>7. box # None => b = box.boot
  OBVIOUS
<1> HIDE DEF b
<1>8. /\ r \in RunRecord /\ r.at = "logs" /\ r.since = b
      /\ r.disturbed = run[s].disturbed /\ r.outdated = run[s].outdated
      /\ r.id = run[s].id /\ r.conn = run[s].conn /\ r.addr = run[s].addr
      /\ r.asked = run[s].asked
  BY <1>1, <1>3, <1>5 DEF RunRecord
<1> HIDE DEF r
<1>9. Followed(r)
  BY <1>1, <1>2, <1>3, <1>7, <1>8 DEF Followed
<1>10. Matched(s, r)
  BY <1>1, <1>2, <1>3, <1>8 DEF Matched
<1>11. Placed(s, r)
  BY <1>1, <1>2, <1>3, <1>5, <1>8 DEF Placed
<1>12. Fits(s, r) /\ r.at \notin Early
  BY <1>1, <1>8, <1>9, <1>10, <1>11 DEF Fits
<1> QED BY <1>2, <1>6, <1>8, <1>12, MoveKeeps DEF SameHost

(* The identity is that of the container there is, and one was made.        *)
LEMMA RefreshKeeps ==
  ASSUME IInv, NEW s \in Starts, NEW next \in {"port", "options", "attach"},
         ~networked => next = "port", Refresh(s, next)
  PROVE  IInv'
<1>1. CASE box = None
  BY <1>1, FailsMoves DEF Refresh
<1>2. CASE box # None
  <2> DEFINE r == [run[s] EXCEPT !.at = next, !.id = box.id, !.path = box.path]
  <2>1. /\ next \in Places /\ next \in Aboard /\ "refresh" \in Aboard
        /\ next \notin {"networks", "connect", "logs", "refresh", "answer"} \cup Afloat \cup Early
    BY DEF Places, Commands, Early, Afloat, Aboard
  <2>2. SameHost /\ run[s].at = "refresh"
    BY DEF Refresh
  <2>3. Followed(run[s]) /\ Matched(s, run[s]) /\ Placed(s, run[s]) /\ Hosted
    BY DEF IInv, Fits
  <2>4. run[s] \in RunRecord
    BY DEF IInv, Types
  <2>5. box.id \in Nat /\ box.path \in Nat /\ box.id = Len(made) /\ box.id # 0 /\ Len(made) \in Nat
    BY <1>2, <2>3 DEF Hosted, Box
  <2>6. run' = [run EXCEPT ![s] = r]
    BY <1>2 DEF Refresh, IInv, Types
  <2>7. /\ r \in RunRecord /\ r.at = next /\ r.id = box.id /\ r.path = box.path
        /\ r.disturbed = run[s].disturbed /\ r.outdated = run[s].outdated
        /\ r.conn = run[s].conn /\ r.addr = run[s].addr /\ r.since = run[s].since
        /\ r.asked = run[s].asked
    BY <2>1, <2>4, <2>5 DEF RunRecord
  <2> HIDE DEF r
  <2>8. Followed(r)
    BY <1>2, <2>1, <2>2, <2>3, <2>7 DEF Followed
  <2>9. Matched(s, r)
    BY <2>1, <2>2, <2>3, <2>7 DEF Matched
  <2>10. Placed(s, r)
    <3>1. run[s].asked = 0
      BY <2>2, <2>3 DEF Placed
    <3>2. r.id <= Len(made) /\ r.id # 0
      BY <2>5, <2>7
    <3> QED BY <2>1, <2>3, <2>7, <3>1, <3>2 DEF Placed
  <2>11. Fits(s, r) /\ r.at \notin Early
    BY <2>1, <2>7, <2>8, <2>9, <2>10 DEF Fits
  <2> QED BY <2>2, <2>6, <2>7, <2>11, MoveKeeps DEF SameHost
<1> QED BY <1>1, <1>2

(* The port found is the one of the boot there is.                          *)
LEMMA FindPortKeeps ==
  ASSUME IInv, NEW s \in Starts, NEW next \in {"options", "attach"}, FindPort(s, next)
  PROVE  IInv'
<1>1. CASE ~(Running /\ box.published)
  BY <1>1, FailsMoves DEF FindPort
<1>2. CASE Running /\ box.published
  <2> DEFINE r == [run[s] EXCEPT !.at = next, !.addr = box.boot]
  <2>1. /\ next \in Places /\ next \in Aboard /\ "port" \in Aboard
        /\ next \notin {"networks", "connect", "logs", "refresh", "port", "answer"} \cup Afloat \cup Early
    BY DEF Places, Commands, Early, Afloat, Aboard
  <2>2. SameHost /\ run[s].at = "port" /\ box # None
    BY <1>2 DEF FindPort, Running
  <2>3. Followed(run[s]) /\ Matched(s, run[s]) /\ Placed(s, run[s]) /\ Hosted
    BY DEF IInv, Fits
  <2>4. run[s] \in RunRecord /\ boots \in Nat
    BY DEF IInv, Types
  <2>5. box.boot \in 1..boots /\ box.boot \in Nat /\ box.boot <= boots
    BY <2>2, <2>3, <2>4 DEF Hosted, Box
  <2>6. run' = [run EXCEPT ![s] = r]
    BY <1>2 DEF FindPort, IInv, Types
  <2>7. /\ r \in RunRecord /\ r.at = next /\ r.addr = box.boot
        /\ r.disturbed = run[s].disturbed /\ r.outdated = run[s].outdated
        /\ r.conn = run[s].conn /\ r.id = run[s].id /\ r.path = run[s].path
        /\ r.since = run[s].since /\ r.asked = run[s].asked
    BY <2>1, <2>4, <2>5 DEF RunRecord
  <2> HIDE DEF r
  <2>8. Followed(r)
    BY <2>1, <2>2, <2>3, <2>7 DEF Followed
  <2>9. Matched(s, r)
    BY <2>1, <2>2, <2>3, <2>7 DEF Matched
  <2>10. Placed(s, r)
    <3>1. run[s].asked = 0 /\ run[s].id # 0
      BY <2>2, <2>3 DEF Placed
    <3> QED BY <2>1, <2>3, <2>5, <2>7, <3>1 DEF Placed
  <2>11. Fits(s, r) /\ r.at \notin Early
    BY <2>1, <2>7, <2>8, <2>9, <2>10 DEF Fits
  <2> QED BY <2>2, <2>6, <2>7, <2>11, MoveKeeps DEF SameHost
<1> QED BY <1>1, <1>2

LEMMA LaunchOptionsKeeps ==
  ASSUME IInv, NEW s \in Starts, LaunchOptions(s)
  PROVE  IInv'
<1>1. CASE ~Running
  BY <1>1, FailsMoves DEF LaunchOptions
<1>2. CASE Running
  <2> DEFINE r == [run[s] EXCEPT !.at = "attach"]
  <2>1. /\ "attach" \in Places \ {"answer"} /\ "attach" \in Aboard /\ "options" \in Aboard
        /\ "attach" \notin Afloat \cup Early
    BY DEF Places, Commands, Early, Afloat, Aboard
  <2>2. SameHost /\ run[s].at = "options" /\ Goes(s, "attach")
    BY <1>2 DEF LaunchOptions
  <2>3. /\ r.at = "attach" /\ r.disturbed = run[s].disturbed /\ r.outdated = run[s].outdated
        /\ r.id = run[s].id /\ r.path = run[s].path /\ r.addr = run[s].addr
    BY DEF IInv, Types, RunRecord
  <2>4. Followed(run[s]) /\ Matched(s, run[s])
    BY DEF IInv, Fits
  <2>5. Placed(s, r)
    BY <2>1, <2>2, GoesPlaced
  <2> HIDE DEF r
  <2>6. Followed(r)
    BY <2>1, <2>2, <2>3, <2>4 DEF Followed
  <2>7. Matched(s, r)
    BY <2>1, <2>2, <2>3, <2>4 DEF Matched
  <2>8. Fits(s, r)
    BY <2>5, <2>6, <2>7 DEF Fits
  <2> QED BY <2>1, <2>2, <2>8, GoesMoves DEF r
<1> QED BY <1>1, <1>2

(* A browser runs in the container that answered: none older than the one   *)
(* inspected, and of the caller's image unless another took the name.       *)
LEMMA AttachKeeps ==
  ASSUME IInv, NEW s \in Starts, NEW accepted \in BOOLEAN, Attach(s, accepted)
  PROVE  IInv'
<1>1. CASE ~(Reachable(s) /\ accepted)
  BY <1>1, FailsMoves DEF Attach
<1>2. CASE Reachable(s) /\ accepted
  <2> DEFINE step == IF Disclosed(asks[s].probe).enabled THEN "probe" ELSE "up"
             r == [At(step) EXCEPT !.id = run[s].id, !.conn = box.id, !.outdated = run[s].outdated]
  <2>1. step \in Places /\ step \notin Aboard \cup Early \cup {"restart", "answer", "port", "options", "attach"}
    BY DEF Places, Commands, Early, Aboard
  <2>2. SameHost /\ run[s].at = "attach" /\ box # None
    BY <1>2 DEF Attach, Reachable, Running
  <2>3. Matched(s, run[s]) /\ Placed(s, run[s]) /\ Hosted
    BY DEF IInv, Fits
  <2>4. run[s] \in RunRecord /\ boots \in Nat /\ Len(made) \in Nat /\ Len(probes) \in Nat
    BY DEF IInv, Types
  <2>5. /\ box.id \in Nat /\ box.id = Len(made) /\ box.image = made[box.id]
    BY <2>2, <2>3 DEF Hosted, Box
  <2>6. run' = [run EXCEPT ![s] = r]
    BY <1>2 DEF Attach
  <2> HIDE DEF step
  <2>7. /\ r \in RunRecord /\ r.at = step /\ r.id = run[s].id /\ r.conn = box.id
        /\ r.outdated = run[s].outdated /\ r.since = 0 /\ r.addr = 0 /\ r.asked = 0
    BY <2>1, <2>4, <2>5 DEF RunRecord, At
  <2> HIDE DEF r
  <2>8. run[s].id <= Len(made) /\ run[s].id # 0
    BY <2>2, <2>3 DEF Placed
  <2>9. ~run[s].outdated => made[box.id] = asks[s].image
    BY <2>2, <2>3, <2>5 DEF Matched, Aboard
  <2>10. Placed(s, r)
    BY <2>1, <2>4, <2>5, <2>7, <2>8, <2>9 DEF Placed
  <2>11. Fits(s, r) /\ r.at \notin Early
    BY <2>1, <2>7, <2>10 DEF Fits, Followed, Matched
  <2> QED BY <2>2, <2>6, <2>7, <2>11, MoveKeeps DEF SameHost
<1> QED BY <1>1, <1>2

LEMMA TakeAnswerKeeps ==
  ASSUME IInv, NEW s \in Starts, TakeAnswer(s)
  PROVE  IInv'
<1> DEFINE r == [run[s] EXCEPT !.at = "up"]
<1>1. /\ "up" \in Places \ {"answer"} /\ "up" \in Afloat /\ "answer" \in Afloat
      /\ "up" \notin Aboard \cup Early \cup {"restart", "port", "options", "attach"}
  BY DEF Places, Afloat, Aboard, Early
<1>2. run[s].at = "answer" /\ Goes(s, "up") /\ SameHost
  BY DEF TakeAnswer
<1>3. r.at = "up"
  BY DEF IInv, Types, RunRecord
<1>4. Placed(s, r)
  BY <1>1, <1>2, GoesPlaced
<1>5. Fits(s, r)
  BY <1>1, <1>3, <1>4 DEF Fits, Followed, Matched
<1> QED BY <1>1, <1>2, <1>5, GoesMoves

LEMMA StopSessionKeeps ==
  ASSUME IInv, NEW s \in Starts, StopSession(s)
  PROVE  IInv'
<1>1. Types
  BY DEF IInv
<1>2. Fits(s, At("closed")) /\ At("closed") \in RunRecord /\ At("closed").at \notin Early
  BY <1>1, FitsNowhere DEF At, Early
<1> QED BY <1>2, MoveKeeps DEF StopSession, SameHost

-----------------------------------------------------------------------------
(* Steps that change the host.                                              *)
LEMMA PassedByFits ==
  ASSUME Types, Types', NEW s \in Starts, Fits(s, run[s]), Beside(run[s], run'[s]),
         networked' = networked, asks' = asks,
         Len(made) <= Len(made'), \A i \in 1..Len(made) : made'[i] = made[i], boots <= boots',
         Len(probes) <= Len(probes'), \A k \in 1..Len(probes) : probes'[k].id = probes[k].id,
         run[s].at \in Aboard /\ ~run'[s].disturbed /\ box # None /\ box.up =>
           /\ box' # None /\ box'.up /\ box'.boot = box.boot
           /\ box'.id = box.id /\ box'.path = box.path
           /\ box.joined => box'.joined
           /\ box.lines \subseteq box'.lines,
         run[s].at \in Aboard \cup {"restart"} /\ ~run'[s].outdated /\ box' # None =>
           \/ box # None /\ box'.image = box.image
           \/ box'.image = asks[s].image
  PROVE  Fits(s, run[s])'
<1>1. run[s] \in RunRecord /\ run'[s] \in RunRecord
  BY DEF Types
<1>2. PICK q \in RunRecord : q = run[s]
  BY <1>1
<1>3. PICK r \in RunRecord : r = run'[s]
  BY <1>1
<1>4. Fits(s, r)'
  BY <1>2, <1>3, BesideFits
<1> QED BY <1>3, <1>4 DEF Fits, Followed, Matched, Placed

LEMMA DisturbedBeside ==
  ASSUME Types, NEW t \in Starts
  PROVE  /\ Disturbed[t] \in RunRecord /\ Beside(run[t], Disturbed[t])
         /\ Disturbed[t].outdated = run[t].outdated /\ Disturbed[t].at = run[t].at
         /\ run[t].at \in Aboard => Disturbed[t].disturbed
<1>1. run[t] \in RunRecord
  BY DEF Types
<1>2. Disturbed[t] = IF Begun(t) THEN [run[t] EXCEPT !.disturbed = TRUE] ELSE run[t]
  BY DEF Disturbed
<1>3. run[t].at \in Aboard => Begun(t)
  BY DEF Aboard, Begun, Ends
<1> QED BY <1>1, <1>2, <1>3 DEF RunRecord, Beside

LEMMA ListenKeeps ==
  ASSUME IInv, Listen
  PROVE  IInv'
<1> DEFINE lines == box.lines \cup {box.boot}
<1>1. /\ UNCHANGED <<made, boots, camoufox, networked, asks, run, cache, probes, stopping>>
      /\ box # None /\ box.up /\ box' = [box EXCEPT !.lines = lines]
  BY DEF Listen, Running, processVars
<1>2. Types /\ Hosted /\ Measured /\ Bounded
  BY DEF IInv
<1>3. Types' /\ Measured' /\ Bounded'
  BY <1>1, <1>2 DEF Types, Measured, Bounded, Past
<1>4. /\ box \in Box /\ box.id = Len(made) /\ box.id # 0 /\ box.image = made[box.id]
      /\ box.path \in {0, box.id} /\ box.boot \in 1..boots /\ box.lines \subseteq 1..box.boot
      /\ boots \in Nat
  BY <1>1, <1>2 DEF Hosted, Types
<1>5. lines \subseteq 1..box.boot /\ lines \subseteq Nat /\ box.lines \subseteq lines
  BY <1>4
<1> HIDE DEF lines
<1>6. /\ box' \in Box /\ box' # None /\ box'.up /\ box'.boot = box.boot /\ box'.id = box.id
      /\ box'.path = box.path /\ box'.joined = box.joined /\ box'.lines = lines
      /\ box'.image = box.image
  BY <1>1, <1>4, <1>5, NoneIsNoBox DEF Box
<1>7. Hosted'
  BY <1>1, <1>4, <1>5, <1>6 DEF Hosted
<1>8. ASSUME NEW t \in Starts PROVE Fits(t, run[t])'
  <2>1. Fits(t, run[t]) /\ Beside(run[t], run'[t])
    BY <1>1, BesideItself DEF IInv
  <2>2. boots <= boots' /\ Len(made) <= Len(made') /\ Len(probes) <= Len(probes')
    BY <1>1, <1>2 DEF Types
  <2> QED BY <1>1, <1>2, <1>3, <1>5, <1>6, <2>1, <2>2, PassedByFits
<1> QED BY <1>3, <1>7, <1>8 DEF IInv

LEMMA DieKeeps ==
  ASSUME IInv, Die
  PROVE  IInv'
<1>1. /\ UNCHANGED <<made, camoufox, networked, asks, cache, probes, stopping>>
      /\ box # None /\ run' = Disturbed
  BY DEF Die, Running, processVars
<1>2. Types /\ Hosted /\ Measured /\ Bounded
  BY DEF IInv
<1>3. /\ box \in Box /\ box.id = Len(made) /\ box.id # 0 /\ box.image = made[box.id]
      /\ box.path \in {0, box.id} /\ box.boot \in 1..boots /\ box.lines \subseteq 1..box.boot
      /\ boots \in Nat
  BY <1>1, <1>2 DEF Hosted, Types
<1>4. /\ boots' \in Nat /\ boots <= boots' /\ box' \in Box /\ box'.id = box.id
      /\ box'.image = box.image /\ box'.path = box.path
      /\ box'.boot \in 1..boots' /\ box'.lines \subseteq 1..box'.boot
  <2>1. CASE box' = [box EXCEPT !.up = FALSE] /\ UNCHANGED boots
    <3>1. /\ box' \in Box /\ box'.id = box.id /\ box'.image = box.image /\ box'.path = box.path
          /\ box'.boot = box.boot /\ box'.lines = box.lines
      BY <1>3, <2>1 DEF Box
    <3> QED BY <1>3, <2>1, <3>1
  <2>2. CASE box' = [box EXCEPT !.boot = boots + 1] /\ boots' = boots + 1
    <3>1. /\ box' \in Box /\ box'.id = box.id /\ box'.image = box.image /\ box'.path = box.path
          /\ box'.boot = boots + 1 /\ box'.lines = box.lines
      BY <1>3, <2>2 DEF Box
    <3>2. box.boot \in Nat /\ box.boot <= boots
      BY <1>3 DEF Box
    <3>3. box.lines \subseteq 1..(boots + 1)
      BY <1>3, <3>2
    <3> QED BY <1>3, <2>2, <3>1, <3>3
  <2> QED BY <2>1, <2>2 DEF Die
<1>5. run' \in [Starts -> RunRecord] /\ \A t \in Starts : run'[t].at = run[t].at
  BY <1>1, <1>2, DisturbedBeside DEF Disturbed
<1>6. Types'
  BY <1>1, <1>2, <1>4, <1>5 DEF Types
<1>7. Hosted' /\ Measured'
  BY <1>1, <1>2, <1>3, <1>4 DEF Hosted, Measured
<1>8. Bounded'
  BY <1>1, <1>2, <1>5 DEF Bounded, Past
<1>9. ASSUME NEW t \in Starts PROVE Fits(t, run[t])'
  <2>1. /\ Fits(t, run[t]) /\ Beside(run[t], run'[t])
        /\ run[t].at \in Aboard => run'[t].disturbed
    BY <1>1, <1>2, DisturbedBeside DEF IInv
  <2>2. Len(made) <= Len(made') /\ Len(probes) <= Len(probes')
    BY <1>1, <1>2 DEF Types
  <2> QED BY <1>1, <1>2, <1>4, <1>6, <2>1, <2>2, PassedByFits
<1> QED BY <1>6, <1>7, <1>8, <1>9 DEF IInv

LEMMA TearDownKeeps ==
  ASSUME IInv, NEW p \in Processes, TearDown(p)
  PROVE  IInv'
<1>1. /\ UNCHANGED <<made, boots, camoufox, networked, asks, cache, probes>>
      /\ box' = None /\ run' = Disturbed /\ stopping' = stopping \cup {p}
  BY DEF TearDown
<1>2. Types /\ Measured /\ Bounded
  BY DEF IInv
<1>3. run' \in [Starts -> RunRecord] /\ \A t \in Starts : run'[t].at = run[t].at
  BY <1>1, <1>2, DisturbedBeside DEF Disturbed
<1>4. Types'
  BY <1>1, <1>2, <1>3 DEF Types
<1>5. Hosted' /\ Measured' /\ Bounded'
  BY <1>1, <1>2, <1>3 DEF Hosted, Measured, Bounded, Past
<1>6. ASSUME NEW t \in Starts PROVE Fits(t, run[t])'
  <2>1. /\ Fits(t, run[t]) /\ Beside(run[t], run'[t])
        /\ run[t].at \in Aboard => run'[t].disturbed
    BY <1>1, <1>2, DisturbedBeside DEF IInv
  <2>2. Len(made) <= Len(made') /\ Len(probes) <= Len(probes') /\ boots <= boots'
    BY <1>1, <1>2 DEF Types
  <2> QED BY <1>1, <1>2, <1>4, <2>1, <2>2, PassedByFits
<1> QED BY <1>4, <1>5, <1>6 DEF IInv

LEMMA ForgetEgressKeeps ==
  ASSUME IInv, NEW p \in Processes, ForgetEgress(p)
  PROVE  IInv'
<1>1. /\ UNCHANGED <<box, made, boots, camoufox, networked, asks, run, probes>>
      /\ cache' = [cache EXCEPT ![p] = Empty] /\ stopping' = stopping \ {p}
  BY DEF ForgetEgress, hostVars
<1>2. Types /\ Hosted /\ Measured /\ Bounded
  BY DEF IInv
<1>3. Types'
  BY <1>1, <1>2 DEF Types, Empty
<1>4. Hosted' /\ Measured' /\ Bounded'
  BY <1>1, <1>2 DEF Hosted, Measured, Bounded, Past, Types
<1>5. ASSUME NEW t \in Starts PROVE Fits(t, run[t])'
  <2>1. Fits(t, run[t])
    BY DEF IInv
  <2> QED BY <1>1, <2>1 DEF Fits, Followed, Matched, Placed
<1> QED BY <1>3, <1>4, <1>5 DEF IInv

(* A probe that is made now runs in the container there is now.             *)
LEMMA RunProbeKeeps ==
  ASSUME IInv, NEW k \in DOMAIN probes, RunProbe(k)
  PROVE  IInv'
<1> DEFINE there == IF Running THEN box.id ELSE 0
           p == [probes[k] EXCEPT !.done = TRUE, !.ranIn = there]
<1>1. /\ UNCHANGED <<box, made, boots, camoufox, networked, asks, run, cache, stopping>>
      /\ probes' = [probes EXCEPT ![k] = p]
  BY DEF RunProbe, hostVars
<1>2. Types /\ Hosted /\ Measured /\ Bounded
  BY DEF IInv
<1>3. probes \in Seq(ProbeRecord) /\ Len(made) \in Nat
  BY <1>2 DEF Types
<1>4. probes[k].id \in 1..Len(made)
  BY <1>2 DEF Measured
<1>5. there \in Nat /\ (there = 0 \/ there = Len(made))
  BY <1>2, <1>3 DEF Running, Hosted
<1>6. probes[k] \in ProbeRecord
  BY <1>3
<1> HIDE DEF there
<1>7. p \in ProbeRecord /\ p.id = probes[k].id /\ p.ranIn = there
  BY <1>5, <1>6 DEF ProbeRecord
<1> HIDE DEF p
<1>8. /\ probes' \in Seq(ProbeRecord) /\ Len(probes') = Len(probes) /\ DOMAIN probes' = DOMAIN probes
      /\ probes'[k] = p /\ \A j \in DOMAIN probes : j # k => probes'[j] = probes[j]
  BY <1>1, <1>3, <1>7
<1>9. \A j \in DOMAIN probes : probes'[j].id = probes[j].id
  BY <1>7, <1>8
<1>10. Types'
  BY <1>1, <1>2, <1>8 DEF Types
<1>11. Hosted' /\ Bounded'
  BY <1>1, <1>2 DEF Hosted, Bounded, Past
<1>12. Measured'
  <2>1. ASSUME NEW j \in DOMAIN probes
        PROVE  /\ probes'[j].id \in 1..Len(made)
               /\ probes'[j].ranIn = 0 \/ probes'[j].ranIn \in probes'[j].id..Len(made)
    <3>1. CASE j = k
      BY <1>3, <1>4, <1>5, <1>7, <1>8, <3>1
    <3>2. CASE j # k
      BY <1>2, <1>8, <3>2 DEF Measured
    <3> QED BY <3>1, <3>2
  <2>2. ASSUME NEW h \in Processes, cache[h] # Empty
        PROVE  cache[h].value \in DOMAIN probes /\ cache[h].id = probes'[cache[h].value].id
    BY <1>2, <1>9, <2>2 DEF Measured
  <2> QED BY <1>1, <1>8, <2>1, <2>2 DEF Measured
<1>13. ASSUME NEW t \in Starts PROVE Fits(t, run[t])'
  <2>1. Fits(t, run[t]) /\ Beside(run[t], run'[t])
    BY <1>1, BesideItself DEF IInv
  <2>2. boots <= boots' /\ Len(made) <= Len(made') /\ Len(probes) <= Len(probes')
    BY <1>1, <1>2, <1>8 DEF Types
  <2>3. \A j \in 1..Len(probes) : probes'[j].id = probes[j].id
    BY <1>3, <1>9
  <2> QED BY <1>1, <1>2, <1>10, <2>1, <2>2, <2>3, PassedByFits
<1> QED BY <1>10, <1>11, <1>12, <1>13 DEF IInv

LEMMA RemoveStaleKeeps ==
  ASSUME IInv, NEW s \in Starts, RemoveStale(s)
  PROVE  IInv'
<1>1. /\ UNCHANGED <<made, boots, camoufox, networked, asks, cache, probes, stopping>>
      /\ box' = None /\ run[s].at = "remove" /\ run[s].at \in Early /\ "run" \in Early
      /\ "run" \in Places
  BY DEF RemoveStale, processVars, Early, Places, Commands
<1>2. Types /\ Measured /\ Bounded
  BY DEF IInv
<1>3. run'[s] = [run[s] EXCEPT !.at = "run"]
  BY DEF RemoveStale
<1>4. run'[s] \in RunRecord /\ run'[s].at = "run"
  BY <1>1, <1>2, <1>3 DEF Types, RunRecord
<1>5. ASSUME NEW t \in Starts, t # s
      PROVE  /\ run'[t] \in RunRecord /\ Beside(run[t], run'[t]) /\ run'[t].at = run[t].at
             /\ run[t].at \in Aboard => run'[t].disturbed
  <2> DEFINE cut == Disturbed[t].cut \/ (Live(t) /\ Is(run[t].conn) /\ asks[t].image = asks[s].image)
  <2>1. run'[t] = [Disturbed[t] EXCEPT !.cut = cut]
    BY <1>5 DEF RemoveStale
  <2>2. /\ Disturbed[t] \in RunRecord /\ Beside(run[t], Disturbed[t])
        /\ Disturbed[t].at = run[t].at
        /\ run[t].at \in Aboard => Disturbed[t].disturbed
    BY <1>2, DisturbedBeside
  <2>3. cut \in BOOLEAN
    BY <2>2 DEF RunRecord
  <2> HIDE DEF cut
  <2> QED BY <2>1, <2>2, <2>3 DEF RunRecord, Beside
<1>6. run' \in [Starts -> RunRecord]
  <2>1. run' = [t \in Starts |-> run'[t]]
    BY DEF RemoveStale
  <2>2. \A t \in Starts : run'[t] \in RunRecord
    BY <1>4, <1>5
  <2> QED BY <2>1, <2>2
<1>7. Types'
  BY <1>1, <1>2, <1>6 DEF Types
<1>8. Hosted' /\ Measured'
  BY <1>1, <1>2 DEF Hosted, Measured
<1>9. Past' = Past
  BY <1>1, <1>4, <1>5 DEF Past
<1>10. Bounded'
  BY <1>1, <1>2, <1>9 DEF Bounded
<1>11. ASSUME NEW t \in Starts, t # s PROVE Fits(t, run[t])'
  <2>1. Fits(t, run[t])
    BY DEF IInv
  <2>2. Len(made) <= Len(made') /\ Len(probes) <= Len(probes') /\ boots <= boots'
    BY <1>1, <1>2 DEF Types
  <2> QED BY <1>1, <1>2, <1>5, <1>7, <1>11, <2>1, <2>2, PassedByFits
<1>12. Fits(s, run[s])'
  <2>1. Placed(s, [run[s] EXCEPT !.at = "run"])
    BY <1>1, GoesPlaced DEF Afloat
  <2>2. Placed(s, run[s])'
    BY <1>1, <1>3, <2>1 DEF Placed
  <2>3. Followed(run[s])' /\ Matched(s, run[s])'
    BY <1>4 DEF Followed, Matched, Aboard
  <2> QED BY <2>2, <2>3 DEF Fits
<1> QED BY <1>7, <1>8, <1>10, <1>11, <1>12 DEF IInv

LEMMA NewIsBox ==
  ASSUME Types, NEW image \in Images
  PROVE  /\ New(image) \in Box /\ New(image) # None
         /\ New(image).id = Len(made) + 1 /\ New(image).image = image /\ New(image).up
         /\ New(image).path \in {0, Len(made) + 1} /\ New(image).boot = boots + 1
         /\ New(image).lines = {}
<1>1. Len(made) \in Nat /\ boots \in Nat /\ networked \in BOOLEAN
  BY DEF Types
<1> DEFINE path == IF camoufox THEN Len(made) + 1 ELSE 0
<1>2. path \in Nat /\ path \in {0, Len(made) + 1}
  BY <1>1
<1>3. New(image) = [id |-> Len(made) + 1, image |-> image, path |-> path, up |-> TRUE,
                    boot |-> boots + 1, lines |-> {}, joined |-> networked,
                    published |-> ~networked]
  BY DEF New
<1> HIDE DEF path
<1>4. New(image) \in Box
  BY <1>1, <1>2, <1>3 DEF Box
<1>5. /\ New(image).id = Len(made) + 1 /\ New(image).image = image /\ New(image).up
      /\ New(image).path = path /\ New(image).boot = boots + 1 /\ New(image).lines = {}
  BY <1>3
<1>6. New(image) # None
  BY <1>4, NoneIsNoBox
<1> QED BY <1>2, <1>4, <1>5, <1>6

(* A start that makes a container has not made one before, and those that   *)
(* took another for granted count what it made as another image.            *)
LEMMA RunKeeps ==
  ASSUME IInv, NEW s \in Starts, Run(s)
  PROVE  IInv'
<1>1. CASE box # None
  BY <1>1, FailsMoves DEF Run, SameHost, hostVars
<1>2. CASE box = None
  <2> DEFINE image == asks[s].image
  <2>1. /\ UNCHANGED <<camoufox, networked, asks, cache, probes, stopping>>
        /\ box' = New(image) /\ made' = Append(made, image) /\ boots' = boots + 1
        /\ run[s].at = "run"
    BY <1>2 DEF Run, processVars
  <2> HIDE DEF image
  <2>2. /\ "networks" \in Places \ {"answer"} /\ "networks" \in Aboard
        /\ "networks" \notin Afloat \cup Early \cup {"port", "options", "attach"}
        /\ "run" \in Early
    BY DEF Places, Commands, Early, Afloat, Aboard
  <2>3. Types /\ Measured /\ Bounded
    BY DEF IInv
  <2>4. image \in Images /\ made \in Seq(Images) /\ boots \in Nat /\ Len(made) \in Nat
    BY <2>3 DEF Types, image
  <2>5. /\ made' \in Seq(Images) /\ Len(made') = Len(made) + 1 /\ made'[Len(made) + 1] = image
        /\ \A i \in 1..Len(made) : made'[i] = made[i]
    BY <2>1, <2>4
  <2>6. /\ box' \in Box /\ box' # None /\ box'.id = Len(made) + 1 /\ box'.image = image /\ box'.up
        /\ box'.path \in {0, Len(made) + 1} /\ box'.boot = boots + 1 /\ box'.lines = {}
    BY <2>1, <2>3, <2>4, NewIsBox
  <2>7. run'[s] = [run[s] EXCEPT !.at = "networks"]
    BY <1>2 DEF Run
  <2>8. run'[s] \in RunRecord /\ run'[s].at = "networks"
    <3>1. run[s] \in RunRecord /\ "networks" \in Places
      BY <2>2, <2>3 DEF Types
    <3> QED BY <2>7, <3>1 DEF RunRecord
  <2>9. ASSUME NEW t \in Starts, t # s
        PROVE  /\ run'[t] \in RunRecord /\ Beside(run[t], run'[t])
               /\ run[t].at \in Aboard \cup {"restart"} /\ ~run'[t].outdated =>
                    box'.image = asks[t].image
    <3> DEFINE outdated == run[t].outdated \/ (Begun(t) /\ OtherImage(t, box'))
    <3>1. run'[t] = [run[t] EXCEPT !.outdated = outdated]
      BY <1>2, <2>9 DEF Run
    <3>2. run[t] \in RunRecord
      BY <2>3 DEF Types
    <3>3. outdated \in BOOLEAN
      BY <3>2 DEF RunRecord
    <3>4. run[t].at \in Aboard \cup {"restart"} => Begun(t)
      BY DEF Aboard, Begun, Ends
    <3>5. run[t].at \in Aboard \cup {"restart"} /\ ~outdated => box'.image = asks[t].image
      BY <3>4 DEF OtherImage
    <3>6. run[t].outdated => outdated
      OBVIOUS
    <3> HIDE DEF outdated
    <3>7. run'[t] \in RunRecord /\ Beside(run[t], run'[t]) /\ run'[t].outdated = outdated
      BY <3>1, <3>2, <3>3, <3>6 DEF RunRecord, Beside
    <3> QED BY <3>5, <3>7
  <2>10. run' \in [Starts -> RunRecord]
    <3>1. run' = [t \in Starts |-> run'[t]]
      BY <1>2 DEF Run
    <3>2. \A t \in Starts : run'[t] \in RunRecord
      BY <2>8, <2>9
    <3> QED BY <3>1, <3>2
  <2>11. Types'
    <3>1. boots' \in Nat
      BY <2>1, <2>4
    <3> QED BY <2>1, <2>3, <2>5, <2>10, <3>1 DEF Types
  <2>12. Hosted'
    BY <2>1, <2>4, <2>5, <2>6 DEF Hosted
  <2>13. Measured'
    <3>1. ASSUME NEW k \in DOMAIN probes
          PROVE  /\ probes[k].id \in 1..Len(made')
                 /\ probes[k].ranIn = 0 \/ probes[k].ranIn \in probes[k].id..Len(made')
      <4>1. /\ probes[k].id \in 1..Len(made)
            /\ probes[k].ranIn = 0 \/ probes[k].ranIn \in probes[k].id..Len(made)
        BY <2>3 DEF Measured
      <4> QED BY <4>1, <2>4, <2>5
    <3> QED BY <2>1, <2>3, <3>1 DEF Measured
  <2>14. Bounded'
    <3>1. Past' = Past \cup {s} /\ s \notin Past
      BY <2>1, <2>2, <2>8, <2>9 DEF Past, Beside
    <3>2. Cardinality(Past) \in Nat /\ Cardinality(Past') \in Nat /\ Cardinality(Past) < Cardinality(Past')
      BY <3>1, PastGrows
    <3> QED BY <2>3, <2>4, <2>5, <3>2 DEF Bounded
  <2>15. ASSUME NEW t \in Starts, t # s PROVE Fits(t, run[t])'
    <3>1. Fits(t, run[t])
      BY DEF IInv
    <3>2. Len(made) <= Len(made') /\ Len(probes) <= Len(probes') /\ boots <= boots'
      BY <2>1, <2>3, <2>4, <2>5 DEF Types
    <3> QED BY <1>2, <2>1, <2>3, <2>5, <2>9, <2>11, <2>15, <3>1, <3>2, PassedByFits
  <2>16. Fits(s, run[s])'
    <3>1. Placed(s, run[s])
      BY DEF IInv, Fits
    <3>2. /\ run'[s].id = run[s].id /\ run'[s].conn = run[s].conn /\ run'[s].since = run[s].since
          /\ run'[s].addr = run[s].addr /\ run'[s].asked = run[s].asked
      BY <2>3, <2>7 DEF Types, RunRecord
    <3>3. /\ run[s].id \in Nat /\ run[s].conn \in Nat /\ run[s].since \in Nat
          /\ run[s].addr \in Nat
      BY <2>3 DEF Types, RunRecord
    <3>4. run[s].asked = 0 /\ Len(probes) \in Nat
      BY <2>1, <2>3, <3>1 DEF Placed, Types
    <3>5. /\ run'[s].id <= Len(made') /\ run'[s].conn <= Len(made')
          /\ run'[s].since <= boots' /\ run'[s].addr <= boots'
          /\ run'[s].asked = 0 /\ 0 <= Len(probes')
      BY <2>1, <2>4, <2>5, <3>1, <3>2, <3>3, <3>4 DEF Placed
    <3>6. Placed(s, run[s])'
      BY <2>2, <2>8, <3>5 DEF Placed
    <3>7. Followed(run[s])'
      BY <2>6, <2>8 DEF Followed
    <3>8. Matched(s, run[s])'
      BY <2>1, <2>6 DEF Matched, image
    <3> QED BY <3>6, <3>7, <3>8 DEF Fits
  <2> QED BY <2>11, <2>12, <2>13, <2>14, <2>15, <2>16 DEF IInv
<1> QED BY <1>1, <1>2

LEMMA RestartKeeps ==
  ASSUME IInv, NEW s \in Starts, Restart(s)
  PROVE  IInv'
<1>1. CASE box = None
  BY <1>1, FailsMoves DEF Restart, SameHost, hostVars
<1>2. CASE box # None
  <2> DEFINE r == [run[s] EXCEPT !.at = "networks"]
  <2>1. /\ UNCHANGED <<made, camoufox, networked, asks, cache, probes, stopping>>
        /\ run' = [run EXCEPT ![s] = r] /\ run[s].at = "restart"
        /\ \/ ~box.up /\ box' = [box EXCEPT !.up = TRUE, !.boot = boots + 1] /\ boots' = boots + 1
           \/ box.up /\ UNCHANGED <<box, boots>>
    BY <1>2 DEF Restart, processVars, Goes, Running, IInv, Types
  <2>2. /\ "networks" \in Places \ {"answer"} /\ "networks" \in Aboard
        /\ "networks" \notin Afloat \cup Early \cup {"port", "options", "attach"}
        /\ "restart" \notin Early
    BY DEF Places, Commands, Early, Afloat, Aboard
  <2>3. Types /\ Hosted /\ Measured /\ Bounded /\ Fits(s, run[s])
    BY DEF IInv
  <2>4. /\ box \in Box /\ box.id = Len(made) /\ box.id # 0 /\ box.image = made[box.id]
        /\ box.path \in {0, box.id} /\ box.boot \in 1..boots /\ box.lines \subseteq 1..box.boot
        /\ boots \in Nat
    BY <1>2, <2>3 DEF Hosted, Types
  <2>5. /\ box' \in Box /\ box'.id = box.id /\ box'.image = box.image /\ box'.path = box.path
        /\ box'.up /\ box'.lines = box.lines
        /\ box.up => box' = box /\ boots' = boots
        /\ ~box.up => box'.boot = boots + 1 /\ boots' = boots + 1
    <3>1. CASE box.up
      BY <2>1, <2>4, <3>1
    <3>2. CASE ~box.up
      <4>1. /\ box' = [box EXCEPT !.up = TRUE, !.boot = boots + 1] /\ boots' = boots + 1
            /\ boots + 1 \in Nat
        BY <2>1, <2>4, <3>2
      <4> QED BY <2>4, <3>2, <4>1 DEF Box
    <3> QED BY <3>1, <3>2
  <2>6. /\ boots' \in Nat /\ boots <= boots'
        /\ box'.boot \in 1..boots' /\ box'.lines \subseteq 1..box'.boot
    <3>1. CASE box.up
      BY <2>4, <2>5, <3>1
    <3>2. CASE ~box.up
      <4>1. box.boot \in Nat /\ box.boot <= boots
        BY <2>4 DEF Box
      <4>2. box.lines \subseteq 1..(boots + 1)
        BY <2>4, <4>1
      <4> QED BY <2>4, <2>5, <3>2, <4>2
    <3> QED BY <3>1, <3>2
  <2>7. run[s] \in RunRecord
    BY <2>3 DEF Types
  <2>8. /\ r \in RunRecord /\ r.at = "networks" /\ r.outdated = run[s].outdated
        /\ r.id = run[s].id /\ r.conn = run[s].conn /\ r.since = run[s].since
        /\ r.addr = run[s].addr /\ r.asked = run[s].asked
    BY <2>2, <2>7 DEF RunRecord
  <2> HIDE DEF r
  <2>9. /\ run' \in [Starts -> RunRecord] /\ run'[s] = r
        /\ \A t \in Starts \ {s} : run'[t] = run[t]
    BY <2>1, <2>3, <2>8 DEF Types
  <2>10. Types'
    BY <2>1, <2>3, <2>6, <2>9 DEF Types
  <2>11. Hosted' /\ Measured'
    BY <2>1, <2>3, <2>4, <2>5, <2>6 DEF Hosted, Measured
  <2>12. Past' = Past
    BY <2>1, <2>2, <2>8, <2>9 DEF Past
  <2>13. Bounded'
    BY <2>1, <2>3, <2>12 DEF Bounded
  <2>14. box' # None
    BY <2>5, NoneIsNoBox
  <2>15. ASSUME NEW t \in Starts, t # s PROVE Fits(t, run[t])'
    <3>1. Fits(t, run[t]) /\ Beside(run[t], run'[t])
      BY <2>9, <2>15, BesideItself DEF IInv
    <3>2. Len(made) <= Len(made') /\ Len(probes) <= Len(probes')
      BY <2>1, <2>3 DEF Types
    <3> QED BY <1>2, <2>1, <2>3, <2>5, <2>6, <2>10, <2>14, <3>1, <3>2, PassedByFits
  <2>16. Fits(s, run[s])'
    <3>1. Placed(s, run[s]) /\ Matched(s, run[s])
      BY <2>3 DEF Fits
    <3>2. /\ r.since \in Nat /\ r.addr \in Nat
      BY <2>8 DEF RunRecord
    <3>3. r.since <= boots' /\ r.addr <= boots'
      BY <2>4, <2>6, <2>8, <3>1, <3>2 DEF Placed
    <3>4. r.asked = 0
      BY <2>1, <2>8, <3>1 DEF Placed
    <3>5. Placed(s, run[s])'
      BY <2>1, <2>2, <2>8, <2>9, <3>1, <3>3, <3>4 DEF Placed
    <3>6. Followed(run[s])'
      BY <2>5, <2>8, <2>9, <2>14 DEF Followed
    <3>7. Matched(s, run[s])'
      BY <1>2, <2>1, <2>5, <2>8, <2>9, <3>1 DEF Matched
    <3> QED BY <3>5, <3>6, <3>7 DEF Fits
  <2> QED BY <2>10, <2>11, <2>13, <2>15, <2>16 DEF IInv
<1> QED BY <1>1, <1>2

LEMMA JoinNetworkKeeps ==
  ASSUME IInv, NEW s \in Starts, JoinNetwork(s)
  PROVE  IInv'
<1>1. CASE IF box = None THEN TRUE ELSE box.joined
  BY <1>1, FailsMoves DEF JoinNetwork, SameHost, hostVars
<1>2. CASE ~(IF box = None THEN TRUE ELSE box.joined)
  <2> DEFINE r == [run[s] EXCEPT !.at = "started"]
  <2>1. /\ UNCHANGED <<made, boots, camoufox, networked, asks, cache, probes, stopping>>
        /\ box # None /\ box' = [box EXCEPT !.joined = TRUE]
        /\ run' = [run EXCEPT ![s] = r] /\ run[s].at = "connect"
    BY <1>2 DEF JoinNetwork, processVars, Goes, IInv, Types
  <2>2. /\ "started" \in Places \ {"answer"} /\ "started" \in Aboard /\ "connect" \in Aboard
        /\ "started" \notin Afloat \cup Early \cup {"port", "options", "attach"}
        /\ "connect" \notin Early
    BY DEF Places, Commands, Early, Afloat, Aboard
  <2>3. Types /\ Hosted /\ Measured /\ Bounded /\ Fits(s, run[s])
    BY DEF IInv
  <2>4. /\ box \in Box /\ box.id = Len(made) /\ box.id # 0 /\ box.image = made[box.id]
        /\ box.path \in {0, box.id} /\ box.boot \in 1..boots /\ box.lines \subseteq 1..box.boot
    BY <2>1, <2>3 DEF Hosted
  <2>5. /\ box' \in Box /\ box'.id = box.id /\ box'.image = box.image /\ box'.path = box.path
        /\ box'.up = box.up /\ box'.lines = box.lines /\ box'.boot = box.boot /\ box'.joined
    BY <2>1, <2>4 DEF Box
  <2>6. box' # None
    BY <2>5, NoneIsNoBox
  <2>7. run[s] \in RunRecord
    BY <2>3 DEF Types
  <2>8. /\ r \in RunRecord /\ r.at = "started" /\ r.outdated = run[s].outdated
        /\ r.disturbed = run[s].disturbed /\ r.id = run[s].id /\ r.conn = run[s].conn
        /\ r.since = run[s].since /\ r.addr = run[s].addr /\ r.asked = run[s].asked
    BY <2>2, <2>7 DEF RunRecord
  <2> HIDE DEF r
  <2>9. /\ run' \in [Starts -> RunRecord] /\ run'[s] = r
        /\ \A t \in Starts \ {s} : run'[t] = run[t]
    BY <2>1, <2>3, <2>8 DEF Types
  <2>10. Types'
    BY <2>1, <2>3, <2>9 DEF Types
  <2>11. Hosted' /\ Measured'
    BY <2>1, <2>3, <2>4, <2>5 DEF Hosted, Measured
  <2>12. Past' = Past
    BY <2>1, <2>2, <2>8, <2>9 DEF Past
  <2>13. Bounded'
    BY <2>1, <2>3, <2>12 DEF Bounded
  <2>14. ASSUME NEW t \in Starts, t # s PROVE Fits(t, run[t])'
    <3>1. Fits(t, run[t]) /\ Beside(run[t], run'[t])
      BY <2>9, <2>14, BesideItself DEF IInv
    <3>2. Len(made) <= Len(made') /\ Len(probes) <= Len(probes') /\ boots <= boots'
      BY <2>1, <2>3 DEF Types
    <3> QED BY <2>1, <2>3, <2>5, <2>6, <2>10, <3>1, <3>2, PassedByFits
  <2>15. Fits(s, run[s])'
    <3>1. Placed(s, run[s]) /\ Matched(s, run[s]) /\ Followed(run[s])
      BY <2>3 DEF Fits
    <3>2. r.asked = 0
      BY <2>1, <2>8, <3>1 DEF Placed
    <3>3. Placed(s, run[s])'
      BY <2>1, <2>2, <2>8, <2>9, <3>1, <3>2 DEF Placed
    <3>4. Followed(run[s])'
      BY <2>1, <2>2, <2>5, <2>6, <2>8, <2>9, <3>1 DEF Followed
    <3>5. Matched(s, run[s])'
      BY <2>1, <2>2, <2>5, <2>8, <2>9, <3>1 DEF Matched
    <3> QED BY <3>3, <3>4, <3>5 DEF Fits
  <2> QED BY <2>10, <2>11, <2>13, <2>14, <2>15 DEF IInv
<1> QED BY <1>1, <1>2

(* An answer is taken from the cache only under the identity it was asked   *)
(* for under, so a start asks, or is answered, about its own container.     *)
LEMMA AskEgressKeeps ==
  ASSUME IInv, NEW s \in Starts, AskEgress(s)
  PROVE  IInv'
<1> DEFINE p == asks[s].host
           id == run[s].id
           known == Cached(cache[p], id)
           answer == IF known = 0 THEN Len(probes) + 1 ELSE known
           r == [run[s] EXCEPT !.at = "answer", !.asked = answer]
           fresh == [id |-> id, ranIn |-> 0, done |-> FALSE]
<1>1. /\ UNCHANGED <<box, made, boots, camoufox, networked, asks, stopping>>
      /\ run[s].at = "probe"
      /\ cache' = [cache EXCEPT ![p] = IF known = 0 THEN Put(id, answer) ELSE @]
      /\ probes' = IF known # 0 THEN probes ELSE Append(probes, fresh)
  BY DEF AskEgress, hostVars
<1>2. run' = [run EXCEPT ![s] = r]
  BY DEF AskEgress, IInv, Types
<1>3. Types /\ Hosted /\ Measured /\ Bounded /\ Placed(s, run[s])
  BY DEF IInv, Fits
<1>4. /\ probes \in Seq(ProbeRecord) /\ Len(made) \in Nat /\ Len(probes) \in Nat
      /\ run[s] \in RunRecord /\ p \in Processes /\ cache \in [Processes -> [id : Nat, value : Nat]]
  BY <1>3 DEF Types
<1>5. /\ "probe" \in Afloat /\ "answer" \in Afloat /\ "answer" \in Places
      /\ "answer" \notin Aboard \cup Early \cup {"restart", "port", "options", "attach"}
      /\ "probe" \notin Early
  BY DEF Places, Commands, Afloat, Aboard, Early
<1>6. id \in Nat /\ id \in 1..Len(made)
  BY <1>1, <1>3, <1>4, <1>5 DEF RunRecord, Placed
<1>7. known # 0 => known \in DOMAIN probes /\ probes[known].id = id
  BY <1>3, <1>4 DEF Cached, Measured
<1>8. fresh \in ProbeRecord /\ fresh.id = id /\ fresh.ranIn = 0
  BY <1>6 DEF ProbeRecord
<1> HIDE DEF known, fresh, id
<1>9. /\ answer \in Nat /\ answer # 0
      /\ known = 0 => answer = Len(probes) + 1
      /\ known # 0 => answer = known
  BY <1>4, <1>7
<1> HIDE DEF answer
<1>10. /\ probes' \in Seq(ProbeRecord) /\ Len(probes) <= Len(probes')
       /\ \A k \in DOMAIN probes : k \in DOMAIN probes' /\ probes'[k] = probes[k]
       /\ \A k \in DOMAIN probes' : k \in DOMAIN probes \/ (k = Len(probes) + 1 /\ probes'[k] = fresh)
       /\ answer \in DOMAIN probes' /\ probes'[answer].id = id /\ answer <= Len(probes')
  <2>1. CASE known = 0
    <3>1. /\ probes' \in Seq(ProbeRecord) /\ Len(probes') = Len(probes) + 1
          /\ probes'[Len(probes) + 1] = fresh /\ DOMAIN probes' = 1..(Len(probes) + 1)
          /\ \A k \in 1..Len(probes) : probes'[k] = probes[k]
      BY <1>1, <1>4, <1>8, <2>1
    <3>2. DOMAIN probes = 1..Len(probes) /\ answer = Len(probes) + 1
      BY <1>4, <1>9, <2>1
    <3>3. \A k \in 1..(Len(probes) + 1) : k \in 1..Len(probes) \/ k = Len(probes) + 1
      BY <1>4
    <3>4. /\ \A k \in 1..Len(probes) : k \in 1..(Len(probes) + 1)
          /\ Len(probes) + 1 \in 1..(Len(probes) + 1) /\ Len(probes) <= Len(probes) + 1
      BY <1>4
    <3>5. /\ \A k \in DOMAIN probes : k \in DOMAIN probes' /\ probes'[k] = probes[k]
          /\ \A k \in DOMAIN probes' : k \in DOMAIN probes \/ (k = Len(probes) + 1 /\ probes'[k] = fresh)
      <4>1. ASSUME NEW k \in DOMAIN probes PROVE k \in DOMAIN probes' /\ probes'[k] = probes[k]
        BY <3>1, <3>2, <3>4
      <4>2. ASSUME NEW k \in DOMAIN probes'
            PROVE  k \in DOMAIN probes \/ (k = Len(probes) + 1 /\ probes'[k] = fresh)
        <5>1. k \in 1..(Len(probes) + 1)
          BY <3>1
        <5>2. k \in 1..Len(probes) \/ k = Len(probes) + 1
          BY <3>3, <5>1
        <5>3. k = Len(probes) + 1 => probes'[k] = fresh
          BY <3>1
        <5>4. k \in 1..Len(probes) => k \in DOMAIN probes
          BY <3>2
        <5> QED BY <5>2, <5>3, <5>4
      <4> QED BY <4>1, <4>2
    <3>6. answer \in DOMAIN probes' /\ probes'[answer].id = id /\ answer <= Len(probes')
      BY <1>4, <1>8, <3>1, <3>2, <3>4
    <3> QED BY <3>1, <3>4, <3>5, <3>6
  <2>2. CASE known # 0
    <3>1. probes' = probes /\ answer = known
      BY <1>1, <1>9, <2>2
    <3>2. known \in 1..Len(probes) /\ DOMAIN probes = 1..Len(probes)
      BY <1>4, <1>7, <2>2
    <3>3. answer <= Len(probes) /\ Len(probes) <= Len(probes)
      BY <1>4, <3>1, <3>2
    <3>4. /\ \A k \in DOMAIN probes : k \in DOMAIN probes' /\ probes'[k] = probes[k]
          /\ \A k \in DOMAIN probes' : k \in DOMAIN probes \/ (k = Len(probes) + 1 /\ probes'[k] = fresh)
      BY <3>1
    <3>5. answer \in DOMAIN probes' /\ probes'[answer].id = id
      BY <1>7, <2>2, <3>1
    <3>6. probes' \in Seq(ProbeRecord) /\ Len(probes) <= Len(probes') /\ answer <= Len(probes')
      BY <1>4, <3>1, <3>3
    <3> QED BY <3>4, <3>5, <3>6
  <2> QED BY <2>1, <2>2
<1>11. /\ r \in RunRecord /\ r.at = "answer" /\ r.asked = answer /\ r.outdated = run[s].outdated
       /\ r.id = id /\ r.conn = run[s].conn /\ r.since = run[s].since
       /\ r.addr = run[s].addr
  BY <1>4, <1>5, <1>9 DEF RunRecord, id
<1> HIDE DEF r, p
<1>12. /\ run' \in [Starts -> RunRecord] /\ run'[s] = r
       /\ \A t \in Starts \ {s} : run'[t] = run[t]
  BY <1>2, <1>3, <1>11 DEF Types
<1>13. Put(id, answer) \in [id : Nat, value : Nat] /\ Put(id, answer).id = id
       /\ Put(id, answer).value = answer
  BY <1>6, <1>9 DEF Put
<1>14. /\ cache' \in [Processes -> [id : Nat, value : Nat]]
       /\ \A h \in Processes : cache'[h] = cache[h] \/ cache'[h] = Put(id, answer)
  BY <1>1, <1>4, <1>13
<1>15. Types'
  BY <1>1, <1>3, <1>10, <1>12, <1>14 DEF Types
<1>16. Hosted'
  BY <1>1, <1>3 DEF Hosted
<1>17. Past' = Past
  BY <1>1, <1>5, <1>11, <1>12 DEF Past
<1>18. Bounded'
  BY <1>1, <1>3, <1>17 DEF Bounded
<1>19. Measured'
  <2>1. ASSUME NEW k \in DOMAIN probes'
        PROVE  /\ probes'[k].id \in 1..Len(made)
               /\ probes'[k].ranIn = 0 \/ probes'[k].ranIn \in probes'[k].id..Len(made)
    BY <1>3, <1>6, <1>8, <1>10 DEF Measured
  <2>2. ASSUME NEW h \in Processes, cache'[h] # Empty
        PROVE  cache'[h].value \in DOMAIN probes' /\ cache'[h].id = probes'[cache'[h].value].id
    <3>1. CASE cache'[h] = cache[h]
      BY <1>3, <1>10, <2>2, <3>1 DEF Measured
    <3>2. CASE cache'[h] = Put(id, answer)
      BY <1>10, <1>13, <3>2
    <3> QED BY <1>14, <3>1, <3>2
  <2> QED BY <1>1, <2>1, <2>2 DEF Measured
<1>20. ASSUME NEW t \in Starts, t # s PROVE Fits(t, run[t])'
  <2>1. Fits(t, run[t]) /\ Beside(run[t], run'[t])
    BY <1>12, <1>20, BesideItself DEF IInv
  <2>2. Len(made) <= Len(made') /\ boots <= boots'
    BY <1>1, <1>3 DEF Types
  <2>3. \A k \in 1..Len(probes) : probes'[k].id = probes[k].id
    BY <1>4, <1>10
  <2> QED BY <1>1, <1>3, <1>10, <1>15, <2>1, <2>2, <2>3, PassedByFits
<1>21. Fits(s, run[s])'
  <2>1. /\ id # 0 /\ id <= r.conn /\ r.conn <= Len(made)
        /\ ~r.outdated => made[r.conn] = asks[s].image
    BY <1>1, <1>3, <1>5, <1>11 DEF Placed, id
  <2>2. r.id <= Len(made) /\ r.since <= boots /\ r.addr <= boots
    BY <1>3, <1>6, <1>11 DEF Placed
  <2>3. Placed(s, run[s])'
    <3>1. run'[s].asked # 0 /\ run'[s].asked <= Len(probes') /\ probes'[run'[s].asked].id = run'[s].id
      BY <1>9, <1>10, <1>11, <1>12
    <3>2. /\ run'[s].id <= Len(made') /\ run'[s].conn <= Len(made')
          /\ run'[s].since <= boots' /\ run'[s].addr <= boots'
          /\ run'[s].id # 0 /\ run'[s].id <= run'[s].conn
          /\ ~run'[s].outdated => made'[run'[s].conn] = asks'[s].image
      <4>1. run'[s] = r /\ made' = made /\ boots' = boots /\ asks' = asks
        BY <1>1, <1>12
      <4>2. r.id # 0 /\ r.id <= r.conn
        BY <1>11, <2>1
      <4> QED BY <2>1, <2>2, <4>1, <4>2
    <3> QED BY <1>11, <1>12, <3>1, <3>2 DEF Placed
  <2>4. Followed(run[s])' /\ Matched(s, run[s])'
    BY <1>5, <1>11, <1>12 DEF Followed, Matched
  <2> QED BY <2>3, <2>4 DEF Fits
<1> QED BY <1>15, <1>16, <1>18, <1>19, <1>20, <1>21 DEF IInv

-----------------------------------------------------------------------------
LEMMA InitFits == CamoufoxInit => IInv
<1> SUFFICES ASSUME CamoufoxInit PROVE IInv
  OBVIOUS
<1>1. /\ ContainerInit /\ camoufox \in BOOLEAN /\ networked \in BOOLEAN
      /\ asks \in [Starts -> [image : Images, probe : BOOLEAN, host : Processes]]
      /\ run = [s \in Starts |-> At(IF camoufox THEN "image" ELSE "inspect")]
      /\ cache = [p \in Processes |-> Empty] /\ probes = <<>> /\ stopping = {}
  BY DEF CamoufoxInit, ContainerInit
<1> DEFINE step == IF camoufox THEN "image" ELSE "inspect"
<1>2. step \in {"image", "inspect"} /\ step \in Early /\ step \in Places
  BY DEF Early, Places, Commands
<1>3. \A s \in Starts : run[s] = At(step)
  BY <1>1
<1> HIDE DEF step
<1>4. made \in Seq(Images) /\ boots \in Nat /\ Hosted /\ Len(made) \in Nat /\ Len(made) <= 1
  <2>1. CASE box = None /\ made = <<>> /\ boots = 0
    BY <2>1 DEF Hosted
  <2>2. ASSUME boots = 1, NEW image \in Images, NEW label \in BOOLEAN, NEW up \in BOOLEAN,
               NEW net \in BOOLEAN, made = <<image>>,
               box = [id |-> 1, image |-> image, path |-> IF label THEN 1 ELSE 0, up |-> up,
                      boot |-> 1, lines |-> {1}, joined |-> net, published |-> ~net]
        PROVE  made \in Seq(Images) /\ boots \in Nat /\ Hosted /\ Len(made) \in Nat /\ Len(made) <= 1
    <3>1. made \in Seq(Images) /\ Len(made) = 1 /\ made[1] = image
      BY <2>2
    <3>2. /\ box \in Box /\ box.id = 1 /\ box.image = image /\ box.path \in {0, 1}
          /\ box.boot = 1 /\ box.lines = {1}
      BY <2>2 DEF Box
    <3>3. {1} \subseteq 1..1 /\ 1 \in 1..1
      OBVIOUS
    <3>4. Hosted
      BY <2>2, <3>1, <3>2, <3>3 DEF Hosted
    <3> QED BY <2>2, <3>1, <3>4
  <2>3. \/ box = None /\ made = <<>> /\ boots = 0
        \/ /\ boots = 1
           /\ \E image \in Images, label, up, net \in BOOLEAN :
                /\ made = <<image>>
                /\ box = [id |-> 1, image |-> image, path |-> IF label THEN 1 ELSE 0, up |-> up,
                          boot |-> 1, lines |-> {1}, joined |-> net, published |-> ~net]
    BY <1>1 DEF ContainerInit
  <2> QED BY <2>1, <2>2, <2>3
<1>5. run \in [Starts -> RunRecord]
  <2>1. At(step) \in RunRecord
    BY <1>2, AtTyped
  <2> QED BY <1>1, <2>1 DEF step
<1>6. Types
  <2>1. cache \in [Processes -> [id : Nat, value : Nat]]
    BY <1>1 DEF Empty
  <2>2. probes \in Seq(ProbeRecord) /\ stopping \subseteq Processes
    BY <1>1
  <2> QED BY <1>1, <1>4, <1>5, <2>1, <2>2 DEF Types
<1>7. Measured
  BY <1>1 DEF Measured, Empty
<1>8. Bounded
  <2>1. IsFiniteSet(Past)
    BY StartsAreFinite, FS_Subset DEF Past
  <2>2. Cardinality(Past) \in Nat
    BY <2>1, FS_CardinalityType
  <2> QED BY <1>4, <2>2 DEF Bounded
<1>9. ASSUME NEW s \in Starts PROVE Fits(s, run[s])
  BY <1>2, <1>3, <1>6, FitsNowhere
<1> QED BY <1>4, <1>6, <1>7, <1>8, <1>9 DEF IInv

LEMMA RefusalKeeps ==
  ASSUME IInv, UNCHANGED allVars
  PROVE  IInv'
<1>1. UNCHANGED <<box, made, boots, camoufox, networked, asks, run, cache, probes, stopping>>
  BY DEF allVars, vars, hostVars, processVars
<1>2. Types /\ Hosted /\ Measured /\ Bounded
  BY DEF IInv
<1>3. Types' /\ Hosted' /\ Measured' /\ Bounded'
  BY <1>1, <1>2 DEF Types, Hosted, Measured, Bounded, Past
<1>4. ASSUME NEW t \in Starts PROVE Fits(t, run[t])'
  <2>1. Fits(t, run[t])
    BY DEF IInv
  <2> QED BY <1>1, <2>1 DEF Fits, Followed, Matched, Placed
<1> QED BY <1>3, <1>4 DEF IInv

LEMMA PlaywrightStepKeeps ==
  ASSUME IInv, NEW s \in Starts, PlaywrightStep(s)
  PROVE  IInv'
<1>1. CASE Inspect(s)
  <2> DEFINE stale == box # None /\ OtherImage(s, box)
  <2>1. Inspected(s, stale) /\ stale \in BOOLEAN
    BY <1>1 DEF Inspect
  <2>2. box # None /\ ~stale => ~OtherImage(s, box)
    OBVIOUS
  <2> HIDE DEF stale
  <2> QED BY <2>1, <2>2, InspectedKeeps
<1>2. CASE RemoveStale(s) \/ Run(s) \/ Restart(s)
  BY <1>2, RemoveStaleKeeps, RunKeeps, RestartKeeps
<1>3. CASE LookAtNetworks(s) \/ JoinNetwork(s)
  BY <1>3, LookAtNetworksKeeps, JoinNetworkKeeps
<1>4. CASE ReadStartedAt(s) \/ Poll(s) \/ TimeOut(s)
  BY <1>4, ReadStartedAtKeeps, PollKeeps, TimeOutKeeps
<1>5. CASE Refresh(s, IF networked THEN "attach" ELSE "port")
  BY <1>5, RefreshKeeps
<1>6. CASE FindPort(s, "attach")
  BY <1>6, FindPortKeeps
<1>7. CASE Attach(s, TRUE)
  BY <1>7, AttachKeeps
<1>8. CASE AskEgress(s) \/ TakeAnswer(s)
  BY <1>8, AskEgressKeeps, TakeAnswerKeeps
<1> QED BY <1>1, <1>2, <1>3, <1>4, <1>5, <1>6, <1>7, <1>8 DEF PlaywrightStep

LEMMA CamoufoxStepKeeps ==
  ASSUME IInv, NEW s \in Starts, CamoufoxStep(s)
  PROVE  IInv'
<1>1. CASE CamoufoxInspect(s)
  <2> DEFINE stale == box # None /\ (OtherImage(s, box) \/ box.path = 0)
  <2>1. Inspected(s, stale) /\ stale \in BOOLEAN
    BY <1>1 DEF CamoufoxInspect
  <2>2. box # None /\ ~stale => ~OtherImage(s, box)
    OBVIOUS
  <2> HIDE DEF stale
  <2> QED BY <2>1, <2>2, InspectedKeeps
<1>2. CASE CamoufoxRun(s)
  BY <1>2, RemoveStaleKeeps, RunKeeps, RestartKeeps DEF CamoufoxRun
<1>3. CASE CamoufoxJoin(s)
  BY <1>3, LookAtNetworksKeeps, JoinNetworkKeeps DEF CamoufoxJoin
<1>4. CASE CamoufoxWait(s)
  BY <1>4, ReadStartedAtKeeps, PollKeeps, TimeOutKeeps DEF CamoufoxWait
<1>5. CASE CamoufoxRefresh(s)
  BY <1>5, RefreshKeeps DEF CamoufoxRefresh
<1>6. CASE CamoufoxPort(s)
  BY <1>6, FindPortKeeps DEF CamoufoxPort
<1>7. CASE LaunchOptions(s)
  BY <1>7, LaunchOptionsKeeps
<1>8. CASE CamoufoxConnect(s)
  BY <1>8, AttachKeeps DEF CamoufoxConnect
<1>9. CASE CamoufoxEgress(s)
  BY <1>9, AskEgressKeeps, TakeAnswerKeeps DEF CamoufoxEgress
<1> QED BY <1>1, <1>2, <1>3, <1>4, <1>5, <1>6, <1>7, <1>8, <1>9 DEF CamoufoxStep

LEMMA NextKeeps ==
  ASSUME IInv, [ContainerNext]_allVars
  PROVE  IInv'
<1>1. CASE UNCHANGED allVars
  BY <1>1, RefusalKeeps
<1>2. ASSUME NEW s \in Starts, StartStep(s) PROVE IInv'
  BY <1>2, EnsureImageKeeps, FetchImageKeeps, PlaywrightStepKeeps, CamoufoxStepKeeps DEF StartStep
<1>3. ASSUME NEW s \in Starts, DockerFails(s) \/ StopSession(s) PROVE IInv'
  BY <1>3, DockerFailsKeeps, StopSessionKeeps
<1>4. ASSUME NEW p \in Processes, TearDown(p) \/ ForgetEgress(p) PROVE IInv'
  BY <1>4, TearDownKeeps, ForgetEgressKeeps
<1>5. ASSUME NEW k \in DOMAIN probes, RunProbe(k) PROVE IInv'
  BY <1>5, RunProbeKeeps
<1> QED BY <1>1, <1>2, <1>3, <1>4, <1>5, ListenKeeps, DieKeeps DEF ContainerNext, CamoufoxTearDown

(* Whatever the starts, deaths and teardowns, a place in a start says what  *)
(* the docker host is like behind it.                                       *)
THEOREM ContainerInvariance == ContainerSpec => []IInv
<1>1. CamoufoxInit => IInv
  BY InitFits
<1>2. IInv /\ [ContainerNext]_allVars => IInv'
  BY NextKeeps
<1> QED BY <1>1, <1>2, PTL DEF ContainerSpec

(* Every container, boot, probe and cached answer a start goes by is one    *)
(* that there has been (the numbers of WarmContainer's Ids suffice: a start *)
(* makes one container at most).                                            *)
THEOREM ContainerTypes == ContainerSpec => []ContainerTypeOK
<1>1. ASSUME IInv PROVE ContainerTypeOK
  <2>1. Types /\ Hosted /\ Measured /\ Bounded /\ \A s \in Starts : Placed(s, run[s])
    BY <1>1 DEF IInv, Fits
  <2>2. made \in Seq(Images) /\ Len(made) \in Nat /\ boots \in Nat
    BY <2>1 DEF Types
  <2>3. probes \in Seq(ProbeRecord) /\ Len(probes) \in Nat
    BY <2>1 DEF Types
  <2>4. Cardinality(Starts) \in Nat /\ Len(made) <= Cardinality(Starts) + 1
    <3>1. IsFiniteSet(Past) /\ Cardinality(Past) <= Cardinality(Starts)
      BY StartsAreFinite, FS_Subset DEF Past
    <3>2. Cardinality(Past) \in Nat /\ Cardinality(Starts) \in Nat
      BY <3>1, StartsAreFinite, FS_CardinalityType
    <3> QED BY <2>1, <2>2, <3>1, <3>2 DEF Bounded
  <2>5. Len(made) \in Ids \cup {0} /\ \A n \in Nat : n \in 1..Len(made) => n \in Ids
    BY <2>2, <2>4 DEF Ids
  <2>6. ASSUME NEW s \in Starts
        PROVE  /\ run[s].at \in Commands \cup Ends \cup {"up"}
               /\ run[s].id \in 0..Len(made) /\ run[s].conn \in 0..Len(made)
               /\ run[s].since \in 0..boots /\ run[s].addr \in 0..boots
               /\ run[s].asked \in 0..Len(probes)
    <3>1. /\ run[s].at \in Places /\ run[s].id \in Nat /\ run[s].conn \in Nat
          /\ run[s].since \in Nat /\ run[s].addr \in Nat /\ run[s].asked \in Nat
      BY <2>1 DEF Types, RunRecord
    <3>2. /\ run[s].id <= Len(made) /\ run[s].conn <= Len(made)
          /\ run[s].since <= boots /\ run[s].addr <= boots /\ run[s].asked <= Len(probes)
      BY <2>1 DEF Placed
    <3> QED BY <2>2, <2>3, <3>1, <3>2 DEF Places
  <2>7. probes \in Seq(Probe)
    <3>1. ASSUME NEW k \in DOMAIN probes PROVE probes[k] \in Probe
      <4>1. probes[k] \in ProbeRecord
        BY <2>3
      <4>2. /\ probes[k].id \in 1..Len(made)
            /\ probes[k].ranIn = 0 \/ probes[k].ranIn \in probes[k].id..Len(made)
        BY <2>1 DEF Measured
      <4>3. probes[k].id \in Nat /\ probes[k].ranIn \in Nat
        BY <4>1 DEF ProbeRecord
      <4>4. probes[k].id \in Ids /\ probes[k].ranIn \in Ids \cup {0}
        BY <2>2, <2>5, <4>2, <4>3
      <4> QED BY <4>1, <4>4 DEF ProbeRecord, Probe
    <3>2. probes = [k \in 1..Len(probes) |-> probes[k]] /\ DOMAIN probes = 1..Len(probes)
      BY <2>3
    <3>3. \A k \in 1..Len(probes) : probes[k] \in Probe
      BY <3>1, <3>2
    <3>4. probes \in [1..Len(probes) -> Probe]
      BY <3>2, <3>3
    <3> QED BY <2>3, <3>4, SeqDef
  <2>8. stopping \subseteq Processes
    BY <2>1 DEF Types
  <2> QED BY <2>1, <2>2, <2>5, <2>6, <2>7, <2>8 DEF ContainerTypeOK, Hosted, Measured
<1> QED BY <1>1, ContainerInvariance, PTL

(* A start that nothing befell offers an endpoint at which the server it    *)
(* returns the identity of is listening: waitForServer, mappedHostPort and  *)
(* the two inspections saw one container in one boot.                       *)
THEOREM UndisturbedStarts == ContainerSpec => []UndisturbedStartConnects
<1>1. ASSUME IInv PROVE UndisturbedStartConnects
  <2>1. \A s \in Starts : Followed(run[s])
    BY <1>1 DEF IInv, Fits
  <2> QED BY <2>1 DEF UndisturbedStartConnects, Followed, Aboard, Reachable, Running
<1> QED BY <1>1, ContainerInvariance, PTL

(* A session's browser has the version of its caller's image unless another *)
(* image took the name meanwhile: what ensurePlaywrightContainer replaces a *)
(* stale container for.                                                     *)
THEOREM ClientsAreMatched == ContainerSpec => []ServerMatchesClient
<1>1. ASSUME IInv PROVE ServerMatchesClient
  <2>1. \A s \in Starts : Placed(s, run[s])
    BY <1>1 DEF IInv, Fits
  <2> QED BY <2>1 DEF ServerMatchesClient, Placed, Live, Afloat
<1> QED BY <1>1, ContainerInvariance, PTL

(* While the container of a session's reported identity exists its browser  *)
(* is in it and the egress it reports was measured in it, whoever asked:    *)
(* the identity under which getOrCreate keeps an answer is enough.          *)
THEOREM SessionsAreWhereTheySay == ContainerSpec => []SessionIsWhereItSays
<1>1. ASSUME IInv PROVE SessionIsWhereItSays
  <2>1. Types /\ Hosted /\ Measured /\ \A s \in Starts : Placed(s, run[s])
    BY <1>1 DEF IInv, Fits
  <2>2. Len(made) \in Nat /\ Len(probes) \in Nat /\ DOMAIN probes = 1..Len(probes)
    BY <2>1 DEF Types
  <2>3. ASSUME NEW s \in Starts, Live(s), Is(run[s].id)
        PROVE  /\ run[s].conn = run[s].id
               /\ run[s].at = "up" /\ run[s].asked # 0 =>
                    probes[run[s].asked].ranIn \in {0, run[s].id}
    <3>1. run[s].id \in Nat /\ run[s].conn \in Nat /\ run[s].asked \in Nat
      BY <2>1 DEF Types, RunRecord
    <3>2. run[s].id = Len(made)
      BY <2>1, <2>3 DEF Is, Hosted
    <3>3. run[s].id <= run[s].conn /\ run[s].conn <= Len(made)
      BY <2>1, <2>3 DEF Placed, Live, Afloat
    <3>4. run[s].conn = run[s].id
      BY <2>2, <3>1, <3>2, <3>3
    <3>5. ASSUME run[s].asked # 0 PROVE probes[run[s].asked].ranIn \in {0, run[s].id}
      <4>1. run[s].asked \in DOMAIN probes /\ probes[run[s].asked].id = run[s].id
        BY <2>1, <2>2, <3>1, <3>5 DEF Placed
      <4>2. \/ probes[run[s].asked].ranIn = 0
            \/ probes[run[s].asked].ranIn \in run[s].id..Len(made)
        BY <2>1, <4>1 DEF Measured
      <4> QED BY <2>2, <3>2, <4>2
    <3> QED BY <3>4, <3>5
  <2> QED BY <2>3 DEF SessionIsWhereItSays
<1> QED BY <1>1, ContainerInvariance, PTL
=============================================================================
