------------------------------- MODULE Crawl -------------------------------
(***************************************************************************)
(* The live audit of pge-confluence-conformance.py: the selected targets   *)
(* are crawled one after the other through a paginated API while people go *)
(* on editing the space, every page and every non-page node is assigned to *)
(* the closest configured subtree root, and a verdict is computed over the *)
(* trees, which delegate subtrees to each other.  A snapshot of the trees  *)
(* can be judged again later, without the API, for fewer targets.          *)
(***************************************************************************)
EXTENDS Integers, FiniteSets, Sequences

CONSTANTS
  Pages, Containers,      \* identities of pages and of folders, embeds, ...
  Space, Gone,            \* parent of a top-level node; of a deleted node
  Names,                  \* names of the configured targets
  Config,                 \* name -> root, traversal, marked subtrees, counts
  Plans,                  \* the orders in which targets may be selected
  InitialParent,          \* where each node is when the audit starts
  Limit,                  \* nodes in one answer of the API (250)
  DepthLimit,             \* depth the descendants call reaches (10)
  MaxPages,               \* --max-pages
  MaxChanges              \* bound on the edits of the space

Content == Pages \cup Containers

Classified(t) == t.excluded # {} \/ DOMAIN t.delegated # {}
Marked(t) == t.excluded \cup DOMAIN t.delegated

\* Target.validate.
ValidTarget(n, t) ==
  /\ t.root \in Pages
  /\ t.traversal \in {"recursive", "page-only"}
  /\ t.excluded \subseteq Pages \ {t.root}
  /\ DOMAIN t.delegated \subseteq Pages \ {t.root}
  /\ t.excluded \cap DOMAIN t.delegated = {}
  /\ (t.excluded = {}) = (DOMAIN t.authorities = {})
  /\ \A a \in DOMAIN t.authorities : a \in Pages /\ t.authorities[a] \in Nat \ {0}
  /\ Classified(t) => t.traversal = "recursive"
  /\ \A k \in DOMAIN t.counts : t.counts[k] \in Nat
  /\ {<<"page", "all">>, <<"other", "all">>, <<"content", "all">>} \subseteq DOMAIN t.counts
       => t.counts[<<"page", "all">>] + t.counts[<<"other", "all">>]
            = t.counts[<<"content", "all">>]
  /\ \A s \in {"page", "other"} : <<s, "direct">> \in DOMAIN t.counts =>
       /\ {<<s, "all">>, <<s, "delegated">>, <<s, "excluded">>} \subseteq DOMAIN t.counts
       /\ t.counts[<<s, "direct">>] + t.counts[<<s, "delegated">>]
            + t.counts[<<s, "excluded">>] = t.counts[<<s, "all">>]
  /\ n \notin {t.delegated[d] : d \in DOMAIN t.delegated}

\* read_config: a subtree is delegated to a configured target rooted there.
ValidConfig ==
  /\ DOMAIN Config = Names
  /\ \A n \in Names : \A d \in DOMAIN Config[n].delegated :
       Config[n].delegated[d] \in Names /\ Config[Config[n].delegated[d]].root = d

ASSUME ConfigAssumption ==
  /\ IsFiniteSet(Content) /\ Pages \cap Containers = {}
  /\ {Space, Gone} \cap Content = {} /\ Space # Gone
  /\ ValidConfig /\ \A n \in Names : ValidTarget(n, Config[n])
  /\ \A p \in Plans : /\ p \in Seq(Names) /\ p # <<>>
                      /\ \A i, j \in DOMAIN p : p[i] = p[j] => i = j
  /\ InitialParent \in [Content -> Content \cup {Space, Gone}]
  /\ {Limit, DepthLimit, MaxPages} \subseteq Nat \ {0} /\ MaxChanges \in Nat

VARIABLES
  parent, body, changes,  \* the space: places, bodies, edits made so far
  plan, selected,         \* targets to crawl, in order; targets judged
  stage, turn,            \* where the audit is; index of the target in hand
  began,                  \* history: `changes' when this target's crawl began
  listed,                 \* node -> parent, of the listing in hand
  others,                 \* non-page node -> parent, of the parents done
  repeated,               \* a non-page node was returned twice
  read,                   \* page -> parent and body, as fetched
  pending, queue,         \* pages to fetch; parents to list, head in hand
  trees,                  \* target -> crawled tree
  verdict

space == <<parent, body, changes>>
crawl == <<began, listed, others, repeated, read, pending, queue>>
vars == <<space, plan, selected, stage, turn, crawl, trees, verdict>>

Target == Config[plan[turn]]
Empty == [c \in {} |-> Gone]
NoTree == [parent |-> Empty]

-----------------------------------------------------------------------------
\* The space and what the API answers.

\* One step up from each node over recorded parents: it stays in `stop' and
\* where no parent is recorded.
Up(above, stop) ==
  [x \in Content \cup {Space} |-> IF x \in stop \/ x \notin DOMAIN above THEN x ELSE above[x]]

\* Where such steps lead from c: to where they stay, or anywhere in a cycle.
Ascent(up, c) ==
  LET at[n \in 0 .. Cardinality(Content) + 1] == IF n = 0 THEN c ELSE up[at[n - 1]]
  IN  at[Cardinality(Content) + 1]

Walk(above, stop, c) == Ascent(Up(above, stop), c)

Present == {c \in Content : parent[c] # Gone}
Below(q) == {c \in Present \ {q} : Walk(parent, {q}, c) = q}
Children(q) == {c \in Present : parent[c] = q}
Depth(q, c) == Cardinality({b \in Below(q) : b = c \/ c \in Below(b)})
Visible(q) == {c \in Below(q) : Depth(q, c) <= DepthLimit}
Fetched(p) == [parent |-> parent[p], version |-> body[p].version, good |-> body[p].good]

\* An answer of a paginated listing of `all', of which `got' was returned
\* before: while nothing was edited the answers are disjoint and complete;
\* after an edit a node may be missed or returned again.
Answer(all, got, batch, more) ==
  /\ batch \subseteq all
  /\ Cardinality(batch) <= Limit
  /\ more => batch # {}
  /\ changes = began => batch \cap got = {} /\ (more <=> all # got \cup batch)

\* The listing in hand with the nodes of one more answer.
Received(batch) ==
  [c \in DOMAIN listed \cup batch |-> IF c \in DOMAIN listed THEN listed[c] ELSE parent[c]]

\* People edit the space until the verdict; later edits are of no concern to it.
\* A node is moved, created, restored or, when nothing is below it, deleted.
Relocate(c, q) ==
  /\ changes < MaxChanges /\ stage # "decided"
  /\ q \in Present \cup {Space, Gone} /\ q # parent[c]
  /\ q # c /\ q \notin Below(c)
  /\ q = Gone => Children(c) = {}
  /\ parent' = [parent EXCEPT ![c] = q]
  /\ changes' = changes + 1
  /\ UNCHANGED <<body, plan, selected, stage, turn, crawl, trees, verdict>>

Rewrite(p) ==
  /\ changes < MaxChanges /\ stage # "decided"
  /\ p \in Present
  /\ \E good \in BOOLEAN :
       body' = [body EXCEPT ![p] = [version |-> @.version + 1, good |-> good]]
  /\ changes' = changes + 1
  /\ UNCHANGED <<parent, plan, selected, stage, turn, crawl, trees, verdict>>

-----------------------------------------------------------------------------
\* Trees.

\* classified_subtree: the closest marked root at or above c, the target's
\* root when there is none, and neither when c cannot be traced.
Scope(t, above, c) == Walk(above, {t.root} \cup Marked(t), c)
Traceable(t, above, c) == Scope(t, above, c) \in {t.root} \cup Marked(t)
Kind(t, r) == IF r = t.root THEN "direct"
              ELSE IF r \in t.excluded THEN "excluded" ELSE "delegated"

TreeOf(t) ==
  LET beside == IF Classified(t) THEN listed ELSE others
      above == [c \in DOMAIN read \cup DOMAIN beside |->
                  IF c \in DOMAIN read THEN read[c].parent ELSE beside[c]]
  IN  [parent |-> above,
       scope |-> [c \in DOMAIN above |-> IF Classified(t) THEN Scope(t, above, c) ELSE t.root],
       read |-> read, repeated |-> repeated]

Inventory(n) == DOMAIN trees[n].parent
Of(n, kind) == {c \in Inventory(n) : Kind(Config[n], trees[n].scope[c]) = kind}

Counted(n, key) ==
  LET sort == CASE key[1] = "page" -> Pages [] key[1] = "other" -> Containers
                [] OTHER -> Content
  IN  Cardinality(sort \cap (IF key[2] = "all" THEN Inventory(n) ELSE Of(n, key[2])))

\* validate_tree: the reviewed counts, the same node twice,
CountError(n) ==
  \E key \in DOMAIN Config[n].counts : Counted(n, key) # Config[n].counts[key]

DuplicateError(n) == trees[n].repeated \/ Config[n].root \notin DOMAIN trees[n].read

\* the manifests that justify the exclusions, in their reviewed version,
AuthorityError(n) ==
  \E a \in DOMAIN Config[n].authorities :
    \/ a \notin DOMAIN trees[n].read
    \/ trees[n].read[a].version # Config[n].authorities[a]

\* the configured roots,
RootError(n) ==
  \E r \in Marked(Config[n]) : r \notin Inventory(n) \/ trees[n].scope[r] # r

\* every assignment once more over the parents of the tree itself,
ScopeError(n) ==
  /\ Classified(Config[n])
  /\ \E c \in Inventory(n) : trees[n].scope[c] # Scope(Config[n], trees[n].parent, c)

\* and the document rules, for the pages whose bodies this target fetched.
BodyError(n) == \E p \in DOMAIN trees[n].read : ~ trees[n].read[p].good

TreeError(n) ==
  \/ CountError(n) \/ DuplicateError(n) \/ AuthorityError(n)
  \/ RootError(n) \/ ScopeError(n) \/ BodyError(n)

\* Plausible mistake: the covering target may miss what was delegated to it.
CoverageOneWay(n, d, sel) ==
  LET m == Config[n].delegated[d] IN
  \/ m \notin sel
  \/ ~ Inventory(m) \subseteq {c \in Inventory(n) : trees[n].scope[c] = d}

\* validate_delegated_coverage, for the subtree d that n delegates.
CoverageError(n, d, sel) ==
  LET m == Config[n].delegated[d] IN
  \/ m \notin sel
  \/ Config[m].root # d
  \/ {c \in Inventory(n) : trees[n].scope[c] = d} # Inventory(m)

Judged(sel) ==
  IF \E n \in sel : TreeError(n) \/ \E d \in DOMAIN Config[n].delegated : CoverageError(n, d, sel)
  THEN "fail" ELSE "pass"

-----------------------------------------------------------------------------
\* The audit.

Init ==
  /\ parent = InitialParent
  /\ body = [p \in Pages |-> [version |-> 1, good |-> TRUE]]
  /\ changes = 0
  /\ plan \in Plans
  /\ selected = {plan[i] : i \in DOMAIN plan}
  /\ stage = "root" /\ turn = 1
  /\ began = 0 /\ listed = Empty /\ others = Empty /\ repeated = FALSE
  /\ read = Empty /\ pending = {} /\ queue = <<>>
  /\ trees = [n \in Names |-> NoTree]
  /\ verdict = "none"

Forget ==
  /\ listed' = Empty /\ others' = Empty /\ repeated' = FALSE
  /\ read' = Empty /\ pending' = {} /\ queue' = <<>> /\ began' = 0

\* ConformanceError: no report is written and the exit status is 2.
Refuse ==
  /\ verdict' = "refused" /\ stage' = "decided"
  /\ trees' = [n \in Names |-> NoTree]
  /\ Forget
  /\ UNCHANGED <<space, plan, selected, turn>>

RequestFails == stage \in {"root", "listing", "fetching"} /\ Refuse

FetchRoot ==
  /\ stage = "root"
  /\ IF parent[Target.root] = Gone THEN Refuse
     ELSE /\ read' = [p \in {Target.root} |-> Fetched(p)]
          /\ queue' = <<Target.root>>
          /\ began' = changes
          /\ stage' = "listing"
          /\ UNCHANGED <<space, plan, selected, turn, listed, others, repeated, pending, trees, verdict>>

\* Plausible mistake: direct folders are fetched like pages.
DirectContent(all) == {c \in DOMAIN all : Scope(Target, all, c) = Target.root}

DirectPages(all) == {p \in DOMAIN all \cap Pages : Scope(Target, all, p) = Target.root}

\* One answer of descendants, and after the last one the assignment of every
\* node to its subtree, which leaves the direct pages to be fetched.
ListDescendants ==
  /\ stage = "listing" /\ Classified(Target)
  /\ \E visible \in {Visible(Target.root)}, more \in BOOLEAN : \E batch \in SUBSET visible :
       /\ Answer(visible, DOMAIN listed, batch, more)
       /\ \E all \in {Received(batch)} : \E pages \in {DOMAIN all \cap Pages} :
            IF \/ batch \cap DOMAIN listed # {}
               \/ \E c \in batch : Depth(Target.root, c) = DepthLimit
               \/ Cardinality(pages) + 1 > MaxPages
               \/ ~ more /\ ~ Marked(Target) \subseteq pages
               \/ ~ more /\ \E c \in DOMAIN all : ~ Traceable(Target, all, c)
            THEN Refuse
            ELSE /\ listed' = all
                 /\ pending' = IF more THEN {} ELSE DirectPages(all)
                 /\ stage' = IF more THEN "listing" ELSE "fetching"
                 /\ UNCHANGED <<space, plan, selected, turn, began, others, repeated, read, queue, trees, verdict>>

\* Plausible mistake: only the pages of the last answer are fetched.
LastPages(all, batch) == batch \cap Pages

ChildPages(all, batch) == DOMAIN all \cap Pages

\* One answer of direct_children for the page at the head of the queue.
ListChildren ==
  /\ stage = "listing" /\ ~ Classified(Target)
  /\ \E batch \in SUBSET Children(Head(queue)), more \in BOOLEAN :
       LET again == batch \cap (DOMAIN listed \cup DOMAIN others)
           all == Received(batch)
           deeper == Target.traversal = "recursive" IN
       /\ Answer(Children(Head(queue)), DOMAIN listed, batch, more)
       /\ IF deeper /\ again \cap Pages # {} THEN Refuse
          ELSE /\ listed' = all
               /\ others' = [c \in DOMAIN others \cup (DOMAIN all \cap Containers) |->
                               IF c \in DOMAIN others THEN others[c] ELSE all[c]]
               /\ repeated' = (repeated \/ again \cap Containers # {})
               /\ pending' = IF more \/ ~ deeper THEN {} ELSE ChildPages(all, batch)
               /\ stage' = IF more THEN "listing" ELSE "fetching"
               /\ UNCHANGED <<space, plan, selected, turn, began, read, queue, trees, verdict>>

\* page(): one page to be validated, which must be where the listing had it.
Fetch(p) ==
  /\ stage = "fetching" /\ p \in pending
  /\ IF \/ p \in DOMAIN read
        \/ parent[p] # listed[p]
        \/ ~ Classified(Target) /\ Cardinality(DOMAIN read) + 1 > MaxPages
     THEN Refuse
     ELSE /\ read' = [q \in DOMAIN read \cup {p} |-> IF q = p THEN Fetched(p) ELSE read[q]]
          /\ pending' = pending \ {p}
          /\ queue' = IF Classified(Target) THEN queue ELSE Append(queue, p)
          /\ UNCHANGED <<space, plan, selected, stage, turn, began, listed, others, repeated, trees, verdict>>

\* All children of one parent were fetched: the next parent in the queue.
NextParent ==
  /\ stage = "fetching" /\ pending = {} /\ Len(queue) > 1
  /\ queue' = Tail(queue)
  /\ listed' = Empty
  /\ stage' = "listing"
  /\ UNCHANGED <<space, plan, selected, turn, began, others, repeated, read, pending, trees, verdict>>

\* The tree of this target is complete; the next target, or the judgement.
NextTarget ==
  /\ stage = "fetching" /\ pending = {} /\ Len(queue) = 1
  /\ trees' = [trees EXCEPT ![plan[turn]] = TreeOf(Target)]
  /\ stage' = IF turn = Len(plan) THEN "judging" ELSE "root"
  /\ turn' = turn + 1
  /\ Forget
  /\ UNCHANGED <<space, plan, selected, verdict>>

Judge ==
  /\ stage = "judging"
  /\ verdict' = Judged(selected)
  /\ stage' = "decided"
  /\ UNCHANGED <<space, plan, selected, turn, crawl, trees>>

\* The snapshot of a decided audit is judged again for some of its targets.
Replay(sub) ==
  /\ verdict \in {"pass", "fail"}
  /\ sub # {} /\ sub \subseteq selected /\ sub # selected
  /\ selected' = sub
  /\ verdict' = Judged(sub)
  /\ UNCHANGED <<space, plan, stage, turn, crawl, trees>>

Next ==
  \/ FetchRoot \/ ListDescendants \/ ListChildren
  \/ \E p \in Pages : Fetch(p)
  \/ NextParent \/ NextTarget \/ Judge
  \/ RequestFails
  \/ \E sub \in SUBSET Names : Replay(sub)
  \/ \E c \in Content, q \in Content \cup {Space, Gone} : Relocate(c, q)
  \/ \E p \in Pages : Rewrite(p)

Spec == Init /\ [][Next]_vars

-----------------------------------------------------------------------------
\* Properties.

\* Type invariant of the audit's own state.
TypeOK ==
  /\ parent \in [Content -> Content \cup {Space, Gone}]
  /\ changes \in 0 .. MaxChanges /\ began \in 0 .. changes
  /\ plan \in Plans /\ selected \subseteq {plan[i] : i \in DOMAIN plan} /\ turn \in 1 .. Len(plan) + 1
  /\ stage \in {"root", "listing", "fetching", "judging", "decided"}
  /\ turn = Len(plan) + 1 <=> stage = "judging" \/ (stage = "decided" /\ verdict # "refused")
  /\ DOMAIN listed \subseteq Content /\ DOMAIN others \subseteq Containers
  /\ DOMAIN read \subseteq Pages /\ pending \subseteq Pages /\ queue \in Seq(Pages)
  /\ verdict \in {"none", "refused", "fail", "pass"}

\* What a crawl of target t inventories if the space does not change meanwhile:
\* everything below the root for a classified target, the pages that hang
\* together by pages otherwise, and the non-page nodes beside those.
Expected(t) ==
  LET reach == {p \in Pages \cap (Below(t.root) \cup {t.root}) :
                  \A b \in Below(t.root) : p \in Below(b) => b \in Pages}
      pages == IF t.traversal = "page-only" THEN {t.root} ELSE reach
  IN  IF Classified(t) THEN {t.root} \cup Below(t.root)
      ELSE pages \cup {c \in Containers : parent[c] \in pages}

\* r is at or above c, and no marked root lies between them.
Closest(t, r, c) ==
  /\ r = c \/ c \in Below(r)
  /\ \A m \in Marked(t) \cap Below(r) : m # c /\ c \notin Below(m)

\* An inventory taken while nobody edits is the subtree, however the answers
\* were cut into pages: no node is missed, and every node is counted for the
\* closest configured root.
Exact ==
  [][\A n \in Names : trees'[n] # trees[n] /\ trees'[n] # NoTree /\ changes = began =>
       /\ DOMAIN trees'[n].parent = Expected(Config[n])
       /\ Classified(Config[n]) =>
            \A c \in DOMAIN trees'[n].parent : Closest(Config[n], trees'[n].scope[c], c)]_vars

\* A passing verdict leaves no page out: whatever was moved while the targets
\* were crawled one after the other, each page inventoried by a judged target
\* was found conforming, or excluded, by a judged target.
Covered ==
  verdict = "pass" => \A n \in selected : \A p \in Inventory(n) \cap Pages :
    \E m \in selected : /\ p \in Inventory(m)
                        /\ \/ p \in Of(m, "excluded")
                           \/ p \in DOMAIN trees[m].read /\ trees[m].read[p].good

=============================================================================
