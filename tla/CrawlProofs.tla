----------------------------- MODULE CrawlProofs -----------------------------
(***************************************************************************)
(* For every configuration, plan and space, a passing verdict of the audit *)
(* leaves no page out.                                                     *)
(***************************************************************************)
EXTENDS Crawl, FiniteSetTheorems, TLAPS

\* What is known of the crawl in hand.
InHand ==
  /\ stage = "root" => DOMAIN read = {}
  /\ stage \in {"listing", "fetching"} => Target.root \in DOMAIN read
  /\ stage \in {"listing", "fetching"} /\ Classified(Target) => Len(queue) = 1
  /\ stage = "listing" /\ Classified(Target) => DOMAIN read = {Target.root}
  /\ stage = "fetching" /\ Classified(Target) =>
       /\ pending \subseteq DOMAIN listed
       /\ DOMAIN read \ {Target.root} \subseteq DOMAIN listed
       /\ \A p \in DOMAIN read \ {Target.root} : read[p].parent = listed[p]
       /\ \A c \in DOMAIN listed : Traceable(Target, listed, c)
       /\ DirectPages(listed) \subseteq DOMAIN read \cup pending

\* What a finished tree is good for: its root is a page of its own, every node
\* is counted for a configured root, and every direct page was fetched.
Sound(n) ==
  /\ Inventory(n) \subseteq Content
  /\ trees[n] # NoTree =>
       /\ DOMAIN trees[n].read \subseteq Inventory(n)
       /\ trees[n].scope[Config[n].root] = Config[n].root
       /\ \A c \in Inventory(n) :
             trees[n].scope[c] \in {Config[n].root} \cup Marked(Config[n])
       /\ \A p \in Inventory(n) \cap Pages :
             trees[n].scope[p] = Config[n].root => p \in DOMAIN trees[n].read

\* The verdict is about the trees as they are.
Decided ==
  /\ verdict # "none" => stage = "decided"
  /\ verdict \in {"pass", "fail"} => verdict = Judged(selected)

IInv == TypeOK /\ InHand /\ (\A n \in Names : Sound(n)) /\ Decided

-----------------------------------------------------------------------------
(* What read_config and Target.validate say of a configured target. *)
LEMMA ConfigFacts ==
  ASSUME NEW n \in Names
  PROVE  /\ Config[n].root \in Pages
         /\ Marked(Config[n]) \subseteq Pages \ {Config[n].root}
         /\ \A d \in DOMAIN Config[n].delegated :
              /\ d # Config[n].root
              /\ Config[n].delegated[d] \in Names
              /\ Config[Config[n].delegated[d]].root = d
  BY ConfigAssumption DEF ConfigAssumption, ValidConfig, ValidTarget, Marked

(* A step up that leads nowhere leads nowhere however often it is taken. *)
LEMMA AscentStays ==
  ASSUME NEW up, NEW c, up[c] = c
  PROVE  Ascent(up, c) = c
<1> DEFINE N == Cardinality(Content) + 1
           at[n \in 0 .. N] == IF n = 0 THEN c ELSE up[at[n - 1]]
           still == [n \in 0 .. N |-> c]
           Away == {n \in 0 .. N : at[n] # c}
<1>0. N \in Nat
  BY ConfigAssumption, FS_CardinalityType DEF ConfigAssumption
<1>1. still = [n \in 0 .. N |-> IF n = 0 THEN c ELSE up[still[n - 1]]]
  <2>1. ASSUME NEW n \in 0 .. N, n # 0 PROVE still[n - 1] = c
    <3>1. n - 1 \in 0 .. N
      BY <1>0, <2>1
    <3> QED BY <3>1
  <2>2. \A n \in 0 .. N : c = IF n = 0 THEN c ELSE up[still[n - 1]]
    BY <2>1
  <2> QED BY <2>2
<1>2. at = [n \in 0 .. N |-> IF n = 0 THEN c ELSE up[at[n - 1]]]
  BY <1>1
<1>3. Ascent(up, c) = at[N]
  BY DEF Ascent
<1> HIDE DEF at, N
<1>4. Away = {}
  <2>1. SUFFICES ASSUME Away # {} PROVE FALSE
    OBVIOUS
  <2>2. IsWellFoundedOn(OpToRel(<, Nat), Nat)
    BY NatLessThanWellFounded
  <2> DEFINE R == OpToRel(<, Nat)
  <2>3. Away \subseteq Nat
    BY <1>0
  <2> HIDE DEF Away, R
  <2>4. PICK n \in Away : \A m \in Away : <<m, n>> \notin R
    BY <2>1, <2>2, <2>3, WFMin DEF R
  <2>5. n \in 0 .. N /\ at[n] # c
    BY <2>4 DEF Away
  <2>6. n # 0
    BY <1>0, <1>2, <2>5
  <2>7. n - 1 \in 0 .. N /\ n - 1 \in Nat /\ n \in Nat /\ n - 1 < n
    BY <1>0, <2>5, <2>6
  <2>8. at[n] = up[at[n - 1]]
    BY <1>2, <2>5, <2>6
  <2>9. at[n - 1] # c
    BY <2>5, <2>8
  <2>10. n - 1 \in Away
    BY <2>7, <2>9 DEF Away
  <2>11. <<n - 1, n>> \in R
    BY <2>7 DEF R, OpToRel
  <2> QED BY <2>4, <2>10, <2>11
<1> QED BY <1>0, <1>3, <1>4

(* A walk that begins where it is to stop ends there. *)
LEMMA WalkStops ==
  ASSUME NEW above, NEW stop, NEW c \in Content \cup {Space}, c \in stop
  PROVE  Walk(above, stop, c) = c
<1>1. Up(above, stop)[c] = c
  BY DEF Up
<1> QED BY <1>1, AscentStays DEF Walk

(* Where a walk ends depends only on the parents it may pass. *)
LEMMA SameWalk ==
  ASSUME NEW above, NEW other, NEW stop, NEW c,
         \A x \in (Content \cup {Space}) \ stop :
            /\ x \in DOMAIN above <=> x \in DOMAIN other
            /\ x \in DOMAIN above => above[x] = other[x]
  PROVE  Walk(above, stop, c) = Walk(other, stop, c)
<1>1. Up(above, stop) = Up(other, stop)
  BY DEF Up
<1> QED BY <1>1 DEF Walk

(* The target in hand is a configured one. *)
LEMMA TargetInHand ==
  ASSUME TypeOK, stage \in {"root", "listing", "fetching"}
  PROVE  turn \in 1 .. Len(plan) /\ plan[turn] \in Names /\ Target = Config[plan[turn]]
<1>1. plan \in Seq(Names) /\ Len(plan) \in Nat
  BY ConfigAssumption DEF ConfigAssumption, TypeOK
<1>2. turn \in 1 .. Len(plan)
  BY <1>1 DEF TypeOK
<1> QED BY <1>1, <1>2 DEF Target

-----------------------------------------------------------------------------
(* Type correctness of every step. *)
LEMMA InitTypes == Init => TypeOK
<1> SUFFICES ASSUME Init PROVE TypeOK
  OBVIOUS
<1>1. plan \in Seq(Names) /\ Len(plan) \in Nat /\ Len(plan) # 0
  BY ConfigAssumption DEF ConfigAssumption, Init
<1> QED BY <1>1, ConfigAssumption DEF ConfigAssumption, Init, TypeOK, Empty

(* What the API lists are nodes of the space. *)
LEMMA ListedAreNodes ==
  /\ \A q : Visible(q) \subseteq Content \ {q} /\ Children(q) \subseteq Content
  /\ \A batch : DOMAIN Received(batch) = DOMAIN listed \cup batch
  BY DEF Visible, Below, Present, Children, Received

LEMMA TreesKept ==
  ASSUME \A n \in Names : Sound(n), trees' = trees
  PROVE  \A n \in Names : Sound(n)'
  BY DEF Sound, Inventory

(* The space may change without anything being known less of the crawl. *)
LEMMA HandKept ==
  ASSUME InHand, UNCHANGED <<stage, turn, plan, read, listed, pending, queue>>
  PROVE  InHand'
<1>1. Target' = Target
  BY DEF Target
<1>2. UNCHANGED <<stage, read, listed, pending, queue>>
  OBVIOUS
<1> QED BY <1>1, <1>2 DEF InHand, DirectPages

-----------------------------------------------------------------------------
(* Initially nothing was crawled and nothing is decided. *)
LEMMA Initially == Init => IInv
<1> SUFFICES ASSUME Init PROVE IInv
  OBVIOUS
<1>1. Decided
  BY DEF Init, Decided
<1>2. InHand
  BY DEF Init, InHand, Empty
<1>3. \A n \in Names : Sound(n)
  BY DEF Init, Sound, Inventory, NoTree, Empty
<1> QED BY <1>1, <1>2, <1>3, InitTypes DEF IInv

(* An edit of the space. *)
LEMMA EditKeeps ==
  ASSUME IInv, \/ \E c \in Content, q \in Content \cup {Space, Gone} : Relocate(c, q)
               \/ \E p \in Pages : Rewrite(p)
  PROVE  IInv'
<1>0. UNCHANGED <<plan, selected, stage, turn, crawl, trees, verdict>> /\ stage # "decided"
  BY DEF Relocate, Rewrite
<1>1. changes' = changes + 1 /\ changes < MaxChanges
  BY DEF Relocate, Rewrite
<1>2. parent' \in [Content -> Content \cup {Space, Gone}]
  BY DEF IInv, TypeOK, Relocate, Rewrite, Present
<1>3. TypeOK'
  BY <1>0, <1>1, <1>2, ConfigAssumption DEF ConfigAssumption, IInv, TypeOK, crawl
<1>4. Decided'
  BY <1>0 DEF IInv, Decided
<1> QED BY <1>0, <1>3, <1>4, HandKept, TreesKept DEF IInv, crawl

(* An audit that is refused forgets its trees. *)
LEMMA RefusalKeeps ==
  ASSUME IInv, stage \in {"root", "listing", "fetching"}, Refuse
  PROVE  IInv'
<1>1. TypeOK'
  <2>1. turn # Len(plan) + 1
    BY TargetInHand, ConfigAssumption DEF ConfigAssumption, IInv, TypeOK
  <2>2. changes \in Nat /\ 0 \in 0 .. changes
    BY ConfigAssumption DEF ConfigAssumption, IInv, TypeOK
  <2> QED BY <2>1, <2>2 DEF IInv, TypeOK, Refuse, Forget, Empty, space
<1>2. InHand' /\ Decided'
  BY DEF Refuse, InHand, Decided
<1>3. \A n \in Names : Sound(n)'
  BY DEF Refuse, Sound, Inventory, NoTree, Empty
<1> QED BY <1>1, <1>2, <1>3 DEF IInv

(* The first page of a target. *)
LEMMA FetchRootKeeps == ASSUME IInv, FetchRoot PROVE IInv'
<1>1. CASE Refuse
  BY <1>1, RefusalKeeps DEF FetchRoot
<1>2. CASE ~Refuse
  <2>1. /\ read' = [p \in {Target.root} |-> Fetched(p)] /\ queue' = <<Target.root>>
        /\ began' = changes /\ stage = "root" /\ stage' = "listing"
        /\ UNCHANGED <<space, plan, selected, turn, listed, others, repeated, pending, trees, verdict>>
    BY <1>2 DEF FetchRoot
  <2>2. Target.root \in Pages /\ Target' = Target
    BY <2>1, TargetInHand, ConfigFacts DEF IInv, Target
  <2>3. TypeOK'
    BY <2>1, <2>2, ConfigAssumption DEF ConfigAssumption, IInv, TypeOK, space
  <2>4. InHand'
    BY <2>1, <2>2 DEF InHand
  <2>5. Decided'
    BY <2>1 DEF IInv, Decided
  <2> QED BY <2>1, <2>3, <2>4, <2>5, TreesKept DEF IInv
<1> QED BY <1>1, <1>2

(* One answer of the descendants of a target; the last one assigns them all. *)
LEMMA ListDescendantsKeeps == ASSUME IInv, ListDescendants PROVE IInv'
<1>1. CASE Refuse
  BY <1>1, RefusalKeeps DEF ListDescendants
<1>2. CASE ~Refuse
  <2>1. PICK more \in BOOLEAN, batch \in SUBSET Visible(Target.root) :
          /\ stage = "listing" /\ Classified(Target)
          /\ listed' = Received(batch)
          /\ ~more => \A c \in DOMAIN Received(batch) : Traceable(Target, Received(batch), c)
          /\ pending' = IF more THEN {} ELSE DirectPages(Received(batch))
          /\ stage' = IF more THEN "listing" ELSE "fetching"
          /\ UNCHANGED <<space, plan, selected, turn, began, others, repeated, read, queue, trees, verdict>>
    BY <1>2 DEF ListDescendants
  <2>2. Target' = Target
    BY <2>1 DEF Target
  <2>3. DOMAIN listed' \subseteq Content /\ DirectPages(listed') \subseteq DOMAIN listed' \cap Pages
    BY <2>1, ListedAreNodes DEF IInv, TypeOK, DirectPages
  <2>4. TypeOK'
    BY <2>1, <2>3 DEF IInv, TypeOK, space
  <2>5. DirectPages(listed)' = DirectPages(listed')
    BY <2>2 DEF DirectPages
  <2>6. DOMAIN read = {Target.root} /\ Len(queue) = 1
    BY <2>1 DEF IInv, InHand
  <2>7. InHand'
    BY <2>1, <2>2, <2>3, <2>5, <2>6 DEF InHand
  <2>8. Decided'
    BY <2>1 DEF IInv, Decided
  <2> QED BY <2>1, <2>4, <2>7, <2>8, TreesKept DEF IInv
<1> QED BY <1>1, <1>2

(* One answer of the children of a page. *)
LEMMA ListChildrenKeeps == ASSUME IInv, ListChildren PROVE IInv'
<1>1. CASE Refuse
  BY <1>1, RefusalKeeps DEF ListChildren
<1>2. CASE ~Refuse
  <2>1. PICK batch \in SUBSET Children(Head(queue)), more \in BOOLEAN :
          /\ stage = "listing" /\ ~Classified(Target)
          /\ listed' = Received(batch)
          /\ DOMAIN others' = DOMAIN others \cup (DOMAIN Received(batch) \cap Containers)
          /\ pending' \subseteq Pages
          /\ stage' \in {"listing", "fetching"}
          /\ UNCHANGED <<space, plan, selected, turn, began, read, queue, trees, verdict>>
    BY <1>2 DEF ListChildren, ChildPages
  <2>2. Target' = Target
    BY <2>1 DEF Target
  <2>3. DOMAIN listed' \subseteq Content
    BY <2>1, ListedAreNodes DEF IInv, TypeOK
  <2>4. TypeOK'
    BY <2>1, <2>3 DEF IInv, TypeOK, space
  <2>5. InHand'
    BY <2>1, <2>2 DEF IInv, InHand
  <2>6. Decided'
    BY <2>1 DEF IInv, Decided
  <2> QED BY <2>1, <2>4, <2>5, <2>6, TreesKept DEF IInv
<1> QED BY <1>1, <1>2

(* A page is fetched where the listing had it. *)
LEMMA FetchKeeps == ASSUME IInv, NEW p \in Pages, Fetch(p) PROVE IInv'
<1>1. CASE Refuse
  BY <1>1, RefusalKeeps DEF Fetch
<1>2. CASE ~Refuse
  <2>1. /\ stage = "fetching" /\ p \in pending
        /\ p \notin DOMAIN read /\ parent[p] = listed[p]
        /\ read' = [q \in DOMAIN read \cup {p} |-> IF q = p THEN Fetched(p) ELSE read[q]]
        /\ pending' = pending \ {p}
        /\ queue' = IF Classified(Target) THEN queue ELSE Append(queue, p)
        /\ UNCHANGED <<space, plan, selected, stage, turn, began, listed, others, repeated, trees, verdict>>
    BY <1>2 DEF Fetch
  <2>2. Target' = Target
    BY <2>1 DEF Target
  <2>3. TypeOK'
    <3>1. queue' \in Seq(Pages) /\ DOMAIN read' \subseteq Pages /\ pending' \subseteq Pages
      BY <2>1 DEF IInv, TypeOK
    <3> QED BY <2>1, <3>1 DEF IInv, TypeOK, space
  <2>4. DirectPages(listed)' = DirectPages(listed)
    BY <2>1, <2>2 DEF DirectPages
  <2>5. Target.root \in DOMAIN read
    BY <2>1 DEF IInv, InHand
  <2>6. ASSUME Classified(Target)
        PROVE  /\ Len(queue') = 1
               /\ pending' \subseteq DOMAIN listed'
               /\ DOMAIN read' \ {Target.root} \subseteq DOMAIN listed'
               /\ \A q \in DOMAIN read' \ {Target.root} : read'[q].parent = listed'[q]
               /\ \A c \in DOMAIN listed' : Traceable(Target, listed', c)
               /\ DirectPages(listed) \subseteq DOMAIN read' \cup pending'
    BY <2>1, <2>6 DEF IInv, InHand, Fetched
  <2>7. InHand'
    BY <2>1, <2>2, <2>4, <2>5, <2>6 DEF InHand
  <2>8. Decided'
    BY <2>1 DEF IInv, Decided
  <2> QED BY <2>1, <2>3, <2>7, <2>8, TreesKept DEF IInv
<1> QED BY <1>1, <1>2

(* The next parent of a target that is crawled page by page. *)
LEMMA NextParentKeeps == ASSUME IInv, NextParent PROVE IInv'
<1>1. /\ stage = "fetching" /\ stage' = "listing" /\ listed' = Empty /\ queue' = Tail(queue)
      /\ Len(queue) > 1
      /\ UNCHANGED <<space, plan, selected, turn, began, others, repeated, read, pending, trees, verdict>>
  BY DEF NextParent
<1>2. Target' = Target
  BY <1>1 DEF Target
<1>3. TypeOK'
  BY <1>1 DEF IInv, TypeOK, space, Empty
<1>4. InHand'
  <2>0. Target.root \in DOMAIN read /\ (Classified(Target) => Len(queue) = 1)
    BY <1>1 DEF IInv, InHand
  <2>1. ~Classified(Target) /\ Target.root \in DOMAIN read
    BY <1>1, <2>0
  <2>2. ~Classified(Target')
    BY <1>2, <2>1
  <2> QED BY <1>1, <1>2, <2>1, <2>2 DEF InHand
<1>5. Decided'
  BY <1>1 DEF IInv, Decided
<1> QED BY <1>1, <1>3, <1>4, <1>5, TreesKept DEF IInv
(* The scope of a node in a tree is the one of the listing: what was fetched
   had the parent that was listed, and a walk stops at the target's root. *)
LEMMA ScopeOfListing ==
  ASSUME IInv, stage = "fetching", Classified(Target), NEW c
  PROVE  Scope(Target, TreeOf(Target).parent, c) = Scope(Target, listed, c)
<1> DEFINE above == TreeOf(Target).parent
<1>1. above = [x \in DOMAIN read \cup DOMAIN listed |->
                 IF x \in DOMAIN read THEN read[x].parent ELSE listed[x]]
  BY DEF TreeOf
<1>2. DOMAIN read \ {Target.root} \subseteq DOMAIN listed
  BY DEF IInv, InHand
<1>3. \A p \in DOMAIN read \ {Target.root} : read[p].parent = listed[p]
  BY DEF IInv, InHand
<1> HIDE DEF above
<1>4. \A x \in (Content \cup {Space}) \ ({Target.root} \cup Marked(Target)) :
        /\ x \in DOMAIN above <=> x \in DOMAIN listed
        /\ x \in DOMAIN above => above[x] = listed[x]
  BY <1>1, <1>2, <1>3
<1>5. Walk(above, {Target.root} \cup Marked(Target), c) = Walk(listed, {Target.root} \cup Marked(Target), c)
  BY <1>4, SameWalk
<1> QED BY <1>5 DEF Scope, above

(* A tree is sound when its crawl is complete. *)
LEMMA TreeIsSound ==
  ASSUME IInv, stage = "fetching", pending = {},
         NEW tree, tree = TreeOf(Target)
  PROVE  /\ DOMAIN tree.parent \subseteq Content
         /\ DOMAIN tree.read \subseteq DOMAIN tree.parent
         /\ tree.scope[Target.root] = Target.root
         /\ \A c \in DOMAIN tree.parent : tree.scope[c] \in {Target.root} \cup Marked(Target)
         /\ \A p \in DOMAIN tree.parent \cap Pages :
               tree.scope[p] = Target.root => p \in DOMAIN tree.read
<1> DEFINE beside == IF Classified(Target) THEN listed ELSE others
<1>1. /\ DOMAIN tree.parent = DOMAIN read \cup DOMAIN beside
      /\ tree.read = read
      /\ tree.scope = [c \in DOMAIN tree.parent |->
            IF Classified(Target) THEN Scope(Target, tree.parent, c) ELSE Target.root]
  BY DEF TreeOf
<1>2. Target.root \in DOMAIN read /\ Target.root \in Pages /\ Target.root \in Content
  BY TargetInHand, ConfigFacts DEF IInv, InHand, Content
<1>3. DOMAIN tree.parent \subseteq Content /\ DOMAIN read \subseteq DOMAIN tree.parent
  BY <1>1 DEF IInv, TypeOK, Content
<1>4. CASE ~Classified(Target)
  <2>1. DOMAIN tree.parent \cap Pages \subseteq DOMAIN read
    BY <1>1, <1>4, ConfigAssumption DEF ConfigAssumption, IInv, TypeOK
  <2> QED BY <1>1, <1>2, <1>3, <1>4, <2>1
<1>5. CASE Classified(Target)
  <2>1. \A c \in DOMAIN tree.parent : tree.scope[c] = Scope(Target, listed, c)
    BY <1>1, <1>5, ScopeOfListing
  <2>2. Scope(Target, listed, Target.root) = Target.root
    BY <1>2, WalkStops DEF Scope
  <2>3. \A c \in DOMAIN listed : Scope(Target, listed, c) \in {Target.root} \cup Marked(Target)
    BY <1>5 DEF IInv, InHand, Traceable
  <2>4. DOMAIN tree.parent \subseteq DOMAIN listed \cup {Target.root}
    BY <1>1, <1>5 DEF IInv, InHand
  <2>5. DirectPages(listed) \subseteq DOMAIN read
    BY <1>5 DEF IInv, InHand
  <2>6. \A p \in DOMAIN tree.parent \cap Pages :
          tree.scope[p] = Target.root => p \in DOMAIN read
    BY <1>2, <2>1, <2>4, <2>5 DEF DirectPages
  <2> QED BY <1>1, <1>2, <1>3, <2>1, <2>2, <2>3, <2>4, <2>6
<1> QED BY <1>4, <1>5

(* The tree of a target is complete. *)
LEMMA NextTargetKeeps == ASSUME IInv, NextTarget PROVE IInv'
<1>1. /\ stage = "fetching" /\ pending = {}
      /\ trees' = [trees EXCEPT ![plan[turn]] = TreeOf(Target)]
      /\ stage' = IF turn = Len(plan) THEN "judging" ELSE "root"
      /\ turn' = turn + 1
      /\ Forget /\ UNCHANGED <<space, plan, selected, verdict>>
  BY DEF NextTarget
<1>2. turn \in 1 .. Len(plan) /\ plan[turn] \in Names /\ Target = Config[plan[turn]]
  BY <1>1, TargetInHand DEF IInv
<1>3. verdict = "none"
  BY <1>1 DEF IInv, Decided, TypeOK
<1>4. TypeOK'
  <2>1. Len(plan) \in Nat /\ changes \in Nat /\ 0 \in 0 .. changes
    BY ConfigAssumption DEF ConfigAssumption, IInv, TypeOK
  <2> QED BY <1>1, <1>2, <1>3, <2>1 DEF IInv, TypeOK, space, Forget, Empty
<1>5. InHand'
  BY <1>1 DEF InHand, Forget, Empty
<1>6. Decided'
  BY <1>1, <1>3 DEF Decided
<1>7. ASSUME NEW n \in Names PROVE Sound(n)'
  <2>1. CASE n = plan[turn] /\ plan[turn] \in DOMAIN trees
    <3>1. trees'[n] = TreeOf(Target) /\ Target = Config[n]
      BY <1>1, <1>2, <2>1
    <3> QED BY <1>1, <3>1, TreeIsSound DEF Sound, Inventory
  <2>2. CASE ~(n = plan[turn] /\ plan[turn] \in DOMAIN trees)
    BY <1>1, <2>2 DEF IInv, Sound, Inventory
  <2> QED BY <2>1, <2>2
<1> QED BY <1>4, <1>5, <1>6, <1>7 DEF IInv

(* The verdict on some targets does not depend on anything but their trees. *)
LEMMA SameVerdict ==
  ASSUME trees' = trees
  PROVE  Judged(selected)' = Judged(selected')
  BY DEF Judged, TreeError, CountError, DuplicateError, AuthorityError, RootError, ScopeError,
         BodyError, CoverageError, Counted, Of, Inventory
(* The verdict. *)
LEMMA JudgeKeeps == ASSUME IInv, Judge PROVE IInv'
<1>1. /\ stage = "judging" /\ stage' = "decided" /\ verdict' = Judged(selected)
      /\ UNCHANGED <<space, plan, selected, turn, crawl, trees>>
  BY DEF Judge
<1>2. verdict' \in {"fail", "pass"}
  BY <1>1 DEF Judged
<1>3. TypeOK'
  BY <1>1, <1>2 DEF IInv, TypeOK, space, crawl
<1>4. InHand'
  BY <1>1 DEF InHand
<1>5. Judged(selected)' = Judged(selected)
  BY <1>1, SameVerdict
<1>6. Decided'
  BY <1>1, <1>5 DEF Decided
<1> QED BY <1>1, <1>3, <1>4, <1>6, TreesKept DEF IInv

(* The verdict on a part of the snapshot. *)
LEMMA ReplayKeeps == ASSUME IInv, NEW sub \in SUBSET Names, Replay(sub) PROVE IInv'
<1>1. /\ verdict \in {"pass", "fail"} /\ sub \subseteq selected /\ selected' = sub
      /\ verdict' = Judged(sub)
      /\ UNCHANGED <<space, plan, stage, turn, crawl, trees>>
  BY DEF Replay
<1>2. verdict' \in {"fail", "pass"}
  BY <1>1 DEF Judged
<1>3. TypeOK'
  BY <1>1, <1>2 DEF IInv, TypeOK, space, crawl
<1>4. InHand' /\ stage' = "decided"
  BY <1>1 DEF IInv, Decided, InHand
<1>5. Judged(selected)' = Judged(sub)
  BY <1>1, SameVerdict
<1>6. Decided'
  BY <1>1, <1>4, <1>5 DEF Decided
<1> QED BY <1>1, <1>3, <1>4, <1>6, TreesKept DEF IInv

(* Every step keeps the invariant. *)
LEMMA Step == IInv /\ [Next]_vars => IInv'
<1> SUFFICES ASSUME IInv, [Next]_vars PROVE IInv'
  OBVIOUS
<1>1. CASE UNCHANGED vars
  <2>1. UNCHANGED <<space, plan, selected, stage, turn, crawl, trees, verdict>>
    BY <1>1 DEF vars
  <2>2. Judged(selected)' = Judged(selected)
    BY <2>1, SameVerdict
  <2>3. TypeOK' /\ Decided'
    BY <2>1, <2>2 DEF IInv, TypeOK, Decided, space, crawl
  <2> QED BY <2>1, <2>3, HandKept, TreesKept DEF IInv, crawl
<1>2. CASE FetchRoot
  BY <1>2, FetchRootKeeps
<1>3. CASE ListDescendants
  BY <1>3, ListDescendantsKeeps
<1>4. CASE ListChildren
  BY <1>4, ListChildrenKeeps
<1>5. ASSUME NEW p \in Pages, Fetch(p) PROVE IInv'
  BY <1>5, FetchKeeps
<1>6. CASE NextParent
  BY <1>6, NextParentKeeps
<1>7. CASE NextTarget
  BY <1>7, NextTargetKeeps
<1>8. CASE Judge
  BY <1>8, JudgeKeeps
<1>9. CASE RequestFails
  BY <1>9, RefusalKeeps DEF RequestFails
<1>10. ASSUME NEW sub \in SUBSET Names, Replay(sub) PROVE IInv'
  BY <1>10, ReplayKeeps
<1>11. ASSUME \/ \E c \in Content, q \in Content \cup {Space, Gone} : Relocate(c, q)
              \/ \E p \in Pages : Rewrite(p)
       PROVE  IInv'
  BY <1>11, EditKeeps
<1> QED
  BY <1>1, <1>2, <1>3, <1>4, <1>5, <1>6, <1>7, <1>8, <1>9, <1>10, <1>11 DEF Next

-----------------------------------------------------------------------------
(* A tree that delegates a subtree has more nodes than the tree it is delegated
   to: its own root is not among them.  So delegation never goes round. *)
LEMMA Delegation ==
  ASSUME NEW sel, NEW n \in Names, Sound(n), trees[n] # NoTree, ~TreeError(n),
         NEW d \in DOMAIN Config[n].delegated, ~CoverageError(n, d, sel)
  PROVE  LET m == Config[n].delegated[d] IN
         /\ m \in sel
         /\ Inventory(m) \subseteq Inventory(n) /\ Inventory(m) # Inventory(n)
         /\ \A p \in Inventory(n) : trees[n].scope[p] = d => p \in Inventory(m)
<1> DEFINE m == Config[n].delegated[d]
<1>1. m \in sel /\ {c \in Inventory(n) : trees[n].scope[c] = d} = Inventory(m)
  BY DEF CoverageError
<1>2. Config[n].root \in Inventory(n)
  BY DEF TreeError, DuplicateError, Sound
<1>3. Config[n].root \notin Inventory(m)
  BY <1>1, ConfigFacts DEF Sound
<1> QED BY <1>1, <1>2, <1>3

(* A tree that passed has, for each of its pages, judged it, excluded it, or
   delegated it to another judged target. *)
LEMMA PageOfTree ==
  ASSUME NEW n \in Names, Sound(n), ~TreeError(n), NEW p \in Inventory(n) \cap Pages
  PROVE  \/ p \in Of(n, "excluded")
         \/ p \in DOMAIN trees[n].read /\ trees[n].read[p].good
         \/ trees[n].scope[p] \in DOMAIN Config[n].delegated
<1>1. trees[n] # NoTree
  BY DEF Inventory, NoTree, Empty
<1>2. CASE trees[n].scope[p] = Config[n].root
  BY <1>1, <1>2 DEF Sound, TreeError, BodyError
<1>3. CASE trees[n].scope[p] \in Config[n].excluded
  BY <1>3, ConfigFacts DEF Of, Kind, Marked
<1> QED BY <1>1, <1>2, <1>3 DEF Sound, Marked

(* Among any trees there is one that contains no other as a part. *)
LEMMA SmallestTree ==
  ASSUME NEW S, S # {}, \A n \in S : Inventory(n) \subseteq Content
  PROVE  \E n \in S : \A m \in S : ~(Inventory(m) \subseteq Inventory(n) /\ Inventory(m) # Inventory(n))
<1> DEFINE X == {Inventory(n) : n \in S}
<1>1. IsWellFoundedOn(StrictSubsetOrdering(Content), FiniteSubsetsOf(Content))
  BY FS_StrictSubsetOrderingWellFounded
<1>2. X \subseteq FiniteSubsetsOf(Content) /\ X # {}
  BY FS_Subset, ConfigAssumption DEF ConfigAssumption, FiniteSubsetsOf
<1> DEFINE R == StrictSubsetOrdering(Content)
<1>3. \A A, B \in X : A \subseteq B /\ A # B => <<A, B>> \in R
  BY DEF StrictSubsetOrdering
<1> HIDE DEF X, R
<1>4. PICK A \in X : \A B \in X : <<B, A>> \notin R
  BY <1>1, <1>2, WFMin DEF R
<1>5. PICK n \in S : A = Inventory(n)
  BY <1>4 DEF X
<1>6. \A m \in S : Inventory(m) \in X
  BY DEF X
<1> QED BY <1>3, <1>4, <1>5, <1>6

(* A verdict that passes covers every page. *)
LEMMA PassCovers == IInv => Covered
<1> SUFFICES ASSUME IInv, verdict = "pass", NEW n \in selected, NEW p \in Inventory(n) \cap Pages
             PROVE  \E m \in selected : /\ p \in Inventory(m)
                                        /\ \/ p \in Of(m, "excluded")
                                           \/ p \in DOMAIN trees[m].read /\ trees[m].read[p].good
  BY DEF Covered
<1> DEFINE S == {m \in selected : p \in Inventory(m)}
<1>1. selected \subseteq Names
  BY ConfigAssumption DEF ConfigAssumption, IInv, TypeOK
<1>2. \A m \in selected : Sound(m) /\ ~TreeError(m)
  BY <1>1 DEF IInv, Decided, Judged
<1>3. \A m \in selected : \A d \in DOMAIN Config[m].delegated : ~CoverageError(m, d, selected)
  BY DEF IInv, Decided, Judged
<1>4. PICK m \in S : \A k \in S : ~(Inventory(k) \subseteq Inventory(m) /\ Inventory(k) # Inventory(m))
  <2>1. S # {} /\ \A k \in S : Inventory(k) \subseteq Content
    BY <1>2 DEF Sound
  <2> HIDE DEF S
  <2> QED BY <2>1, SmallestTree
<1>5. trees[m] # NoTree
  BY <1>4 DEF Inventory, NoTree, Empty
<1>6. trees[m].scope[p] \notin DOMAIN Config[m].delegated
  <2> DEFINE d == trees[m].scope[p]
  <2>1. SUFFICES ASSUME d \in DOMAIN Config[m].delegated PROVE FALSE
    OBVIOUS
  <2> DEFINE k == Config[m].delegated[d]
  <2>2. /\ k \in selected /\ p \in Inventory(k)
        /\ Inventory(k) \subseteq Inventory(m) /\ Inventory(k) # Inventory(m)
    BY <1>1, <1>2, <1>3, <1>5, <2>1, Delegation
  <2> QED BY <1>4, <2>2
<1> QED BY <1>1, <1>2, <1>4, <1>6, PageOfTree

-----------------------------------------------------------------------------
(* The inductive invariant holds throughout. *)
THEOREM Invariance == Spec => []IInv
  BY Initially, Step, PTL DEF Spec

(* The audit, its crawl in hand and its trees keep their types. *)
THEOREM TypeCorrect == Spec => []TypeOK
  BY Invariance, PTL DEF IInv

(* A passing verdict leaves no page out, whatever was edited between and during
   the crawls, for any targets, marks and delegations. *)
THEOREM NoPageLeftOut == Spec => []Covered
  BY Invariance, PassCovers, PTL

=============================================================================
