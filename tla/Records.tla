------------------------------ MODULE Records -------------------------------
(***************************************************************************)
(* What a Knot space records beside its documents, in the same signed logs  *)
(* and with the same causal order as KnotSync.tla: predicates that a writer *)
(* mints, supersedes and retires, relations asserted with them and          *)
(* retracted, and the collection of retained items with the organization    *)
(* written over each (crates/knot-editor/src/sync.rs).                      *)
(*                                                                          *)
(* A relation event is checked twice: by its author against the events the  *)
(* author has (validate_local_relation_event), and by every reader against  *)
(* the events folded before it (fold_relations).  A collection event is     *)
(* only checked by its author, and one that does not fit ends every reading *)
(* of the collection (organized_composition_with_cipher).                   *)
(*                                                                          *)
(* A reading changes nothing but its own result, so one is followed at a    *)
(* time; it folds in any causal order.  It reads the logs in one step: logs *)
(* grow independently, so what it would read one after the other the        *)
(* replica could also have held at one moment.                              *)
(***************************************************************************)
EXTENDS Naturals, Sequences, FiniteSets

CONSTANTS
  Writers,     \* the devices, each the author of one log and one replica
  Careless,    \* writers with other software, which signs relation events unchecked
  Slugs,       \* predicate slugs
  Items,       \* collection item ids
  Bodies,      \* what an item, or its organization, can say
  NoId,        \* no event
  Core,        \* a core predicate, which needs no definition
  MaxSeq,      \* bound: events in one log
  Plans,       \* bound: every history fits a p in Plans, p[w] being the kinds of w's events
  MaxItems,    \* max_items of the grant
  MaxHistory   \* max_bytes of the grant, with every collection event weighing one

Kinds == {"put", "define", "assert", "retract", "retain", "organize"}

ASSUME RecordsAssumption ==
  /\ IsFiniteSet(Writers) /\ Careless \subseteq Writers
  /\ MaxSeq \in Nat /\ MaxItems \in Nat /\ MaxHistory \in Nat
  /\ \A p \in Plans : \A w \in Writers : p[w] \in Seq(Kinds)
  /\ NoId \notin Writers \X (1..MaxSeq) /\ Core \notin Writers \X (1..MaxSeq)

VARIABLES
  op,       \* op[x]: event x = <<writer, sequence number>>, once authored
  have,     \* have[r][w]: how much of w's log replica r has stored
  reading   \* the reading in progress

vars == <<op, have, reading>>

-----------------------------------------------------------------------------
(* Events *)

Id == Writers \X (1..MaxSeq)

\* ref is the superseded definition, the captured document head, the retracted
\* assertion or the previous revision of an organization; pred the predicate of
\* an assertion; owner and item name a collection item; past is everything
\* reachable over parents.  vouched and root are history: whether the author
\* checked the event against a complete history, and the first definition of
\* the chain a definition belongs to by its author's log (NoId when it is void).
Event == [kind : Kinds, ref : Id \cup {NoId}, pred : Id \cup {NoId, Core},
          slug : Slugs \cup {NoId}, retire : BOOLEAN,
          owner : Writers \cup {NoId}, item : Items \cup {NoId},
          body : Bodies \cup {NoId}, past : SUBSET Id,
          vouched : BOOLEAN, root : Id \cup {NoId}]

NoEvent == [kind |-> "none"]

Blank == [kind |-> "put", ref |-> NoId, pred |-> NoId, slug |-> NoId, retire |-> FALSE,
          owner |-> NoId, item |-> NoId, body |-> NoId, past |-> {},
          vouched |-> FALSE, root |-> NoId]

Authored == {x \in Id : op[x] # NoEvent}

OfKind(k, s) == {x \in s : op[x].kind = k}

HappensBefore(x, y) == x \in op[y].past

Stored(cut) == {x \in Id : x[2] <= cut[x[1]]}

\* causal_projection: the events whose whole history is in the cut; the others
\* are pending.
Closed(cut) == {x \in Stored(cut) : op[x].past \subseteq Stored(cut)}

Complete(cut) == Closed(cut) = Stored(cut)

Frontier(r) == {x \in Id : x[2] = have[r][x[1]]}

\* The history of an event r authors now.
PastAt(r) == UNION {{p} \cup op[p].past : p \in Frontier(r)}

NothingStored == [w \in Writers |-> 0]

Keys == Writers \X Items

\* A relations reading has roots and verdicts, a collection reading revisions:
\* rev[k] is the current revision of item k, NoId for one that was not retained.
\* first is what its first load of the logs found; fault ends it with an error.
Reading == [by : Writers \cup {NoId}, what : {"none", "relations", "collection"},
            gate : BOOLEAN, phase : {"idle", "list", "fold", "failed"},
            first : [Writers -> 0..MaxSeq], cut : [Writers -> 0..MaxSeq],
            todo : SUBSET Id, done : SUBSET Id, root : [Id -> Id \cup {NoId}],
            verdict : [Id -> {"none", "valid", "unverified", "rejected"}],
            rev : [Keys -> Id \cup {NoId}]]

NoReading == [by |-> NoId, what |-> "none", gate |-> FALSE, phase |-> "idle",
              first |-> NothingStored, cut |-> NothingStored, todo |-> {}, done |-> {},
              root |-> [x \in Id |-> NoId], verdict |-> [x \in Id |-> "none"],
              rev |-> [k \in Keys |-> NoId]]

Init ==
  /\ op = [x \in Id |-> NoEvent]
  /\ have = [r \in Writers |-> NothingStored]
  /\ reading = NoReading

-----------------------------------------------------------------------------
(* Replication, and the start and end of a reading *)

\* The mutation gate of r's store is held by a call that reads before it writes.
Gated(r) == reading.gate /\ reading.by = r

\* The next event of w's log.  No event is looked into when it is stored.  A fold
\* in progress does not see what comes in, so it is not interleaved with it.
Accept(r, w) ==
  /\ ~Gated(r) /\ reading.phase \in {"idle", "list"}
  /\ \E s \in Writers : have[s][w] > have[r][w]
  /\ have' = [have EXCEPT ![r][w] = @ + 1]
  /\ UNCHANGED <<op, reading>>

\* A call of author_under_gate that folds the relations first, or a projection:
\* that takes no gate, which makes no difference to the fold of what it has read.
BeginRelations(r) ==
  /\ reading.phase = "idle"
  /\ reading' = [NoReading EXCEPT !.by = r, !.what = "relations", !.gate = TRUE,
                                  !.phase = "fold", !.first = have[r], !.cut = have[r],
                                  !.todo = Closed(have[r])]
  /\ UNCHANGED <<op, have>>

\* The retained items a load of the logs finds, by writer and id.
RetainedIn(cut) ==
  [k \in Keys |-> LET found == {x \in OfKind("retain", Closed(cut)) : x[1] = k[1] /\ op[x].item = k[2]}
                  IN  IF found = {} THEN NoId ELSE CHOOSE x \in found : TRUE]

\* composition_with_cipher: needs complete history, at most MaxItems items, and
\* no two contents for one item of one writer.
ItemsReadable(cut) ==
  LET retains == OfKind("retain", Closed(cut))
  IN  /\ Complete(cut)
      /\ Cardinality({k \in Keys : RetainedIn(cut)[k] # NoId}) <= MaxItems
      /\ Cardinality(retains) <= MaxHistory
      /\ \A x, y \in retains :
           x[1] = y[1] /\ op[x].item = op[y].item => op[x].body = op[y].body

\* The first half of organized_composition_with_cipher; list does it without the gate.
BeginCollection(r, gate) ==
  /\ reading.phase = "idle"
  /\ reading' = [NoReading EXCEPT !.by = r, !.what = "collection", !.gate = gate,
                                  !.phase = IF ItemsReadable(have[r]) THEN "list" ELSE "failed",
                                  !.first = have[r], !.cut = have[r], !.rev = RetainedIn(have[r])]
  /\ UNCHANGED <<op, have>>

\* It loads the logs again before it walks over the organizations.
LoadAgain ==
  LET cut == have[reading.by]
      fits == Complete(cut)
           /\ Cardinality(OfKind("retain", Closed(cut)) \cup OfKind("organize", Closed(cut))) <= MaxHistory
  IN  /\ reading.phase = "list"
      /\ reading' = [reading EXCEPT !.cut = cut, !.todo = Closed(cut), !.phase = IF fits THEN "fold" ELSE "failed"]
      /\ UNCHANGED <<op, have>>

\* The call returns, with the result or the error.
EndReading ==
  /\ reading.phase = "failed" \/ (reading.phase = "fold" /\ reading.todo = {})
  /\ reading' = NoReading
  /\ UNCHANGED <<op, have>>

-----------------------------------------------------------------------------
(* fold_relations *)

\* causal_projection's order: any event whose history has been folded.
Ready(x) ==
  /\ reading.phase = "fold"
  /\ x \in reading.todo
  /\ op[x].past \cap reading.todo = {}

\* Mutant: the event stays among those to fold.
FoldedAgain(x) == [reading EXCEPT !.done = @ \cup {x}]

Folded(x) == [reading EXCEPT !.todo = @ \ {x}, !.done = @ \cup {x}]

Definitions == {d \in reading.done : reading.root[d] # NoId}

\* Mutant: the last definition of the chain decides.
RetiredNow(root) == \E d \in Definitions :
  /\ reading.root[d] = root /\ op[d].retire
  /\ \A e \in Definitions : reading.root[e] = root => ~HappensBefore(d, e)

\* is_retired: some definition of the chain carries replaced_by.
Retired(root) == \E d \in Definitions : reading.root[d] = root /\ op[d].retire

\* fold_predicate_definition: the chain the definition joins or begins.
ChainOf(x) ==
  LET e == op[x]
      p == e.ref
  IN  IF p # NoId
      THEN IF p \in Definitions /\ p[1] = x[1] /\ HappensBefore(p, x) /\ op[p].slug = e.slug
           THEN reading.root[p] ELSE NoId
      ELSE IF \E d \in Definitions : /\ reading.root[d] = d /\ d[1] = x[1]
                                     /\ op[d].slug = e.slug /\ ~Retired(d)
           THEN NoId ELSE x

\* Mutant: a retirement the assertion has not observed rejects it too.
PredicateStandsNow(x) ==
  LET p == op[x].pred
  IN  \/ p = Core
      \/ /\ p \in Definitions /\ HappensBefore(p, x)
         /\ ~Retired(reading.root[p])

\* validate_asserted_predicate: known, observed, and not retired as far as the
\* assertion has observed.
PredicateStands(x) ==
  LET p == op[x].pred
  IN  \/ p = Core
      \/ /\ p \in Definitions /\ HappensBefore(p, x)
         /\ \A d \in Definitions :
              reading.root[d] = reading.root[p] /\ op[d].retire => ~HappensBefore(d, x)

\* validate_relation_capture: a head that is not there is a capture nobody can
\* verify; one the assertion did not observe is refused.
Capture(x) ==
  LET h == op[x].ref
  IN  IF h \notin OfKind("put", reading.done) THEN "unverified"
      ELSE IF HappensBefore(h, x) THEN "valid" ELSE "rejected"

\* Only the author of a relation that was taken in may retract it.
RetractionStands(x) ==
  LET a == op[x].ref
  IN  /\ a \in OfKind("assert", reading.done) /\ reading.verdict[a] \in {"valid", "unverified"}
      /\ a[1] = x[1] /\ HappensBefore(a, x)

Verdict(x) ==
  CASE op[x].kind = "define"  -> IF ChainOf(x) = NoId THEN "rejected" ELSE "valid"
    [] op[x].kind = "assert"  -> IF PredicateStands(x) THEN Capture(x) ELSE "rejected"
    [] op[x].kind = "retract" -> IF RetractionStands(x) THEN "valid" ELSE "rejected"
    [] OTHER                  -> "valid"

FoldRelation(x) ==
  /\ reading.what = "relations" /\ Ready(x)
  /\ reading' = [Folded(x) EXCEPT
       !.verdict = [reading.verdict EXCEPT ![x] = Verdict(x)],
       !.root = [reading.root EXCEPT ![x] = IF op[x].kind = "define" THEN ChainOf(x) ELSE NoId]]
  /\ UNCHANGED <<op, have>>

-----------------------------------------------------------------------------
(* The second half of organized_composition_with_cipher *)

KeyOf(x) == <<op[x].owner, op[x].item>>

\* Mutant: any earlier revision will do.
FollowsSome(x) == reading.rev[KeyOf(x)] # NoId /\ HappensBefore(op[x].ref, x)

\* Mutant: an organization follows the retained item itself.
FollowsItem(x) ==
  LET rev == reading.rev[KeyOf(x)]
  IN  rev # NoId /\ op[x].ref = rev /\ op[rev].kind = "retain"

\* An organization follows the current revision of an item that was found.
Follows(x) ==
  LET rev == reading.rev[KeyOf(x)]
  IN  rev # NoId /\ op[x].ref = rev /\ HappensBefore(rev, x)

FoldCollection(x) ==
  /\ reading.what = "collection" /\ Ready(x)
  /\ reading' = IF op[x].kind # "organize" THEN Folded(x)
                ELSE IF Follows(x)
                THEN [Folded(x) EXCEPT !.rev[KeyOf(x)] = x]
                ELSE [reading EXCEPT !.phase = "failed"]
  /\ UNCHANGED <<op, have>>

-----------------------------------------------------------------------------
(* Authoring *)

\* By its author's log alone: the chain of a definition with this slug and ref.
OwnChain(r, slug, ref) ==
  LET n == have[r][r]
      own == {<<r, i>> : i \in 1..n}
      live(d) == ~\E e \in own : op[e].root = d /\ op[e].retire
  IN  IF ref # NoId
      THEN IF ref \in own THEN IF op[ref].slug = slug THEN op[ref].root ELSE NoId ELSE NoId
      ELSE IF \E d \in own : op[d].root = d /\ op[d].slug = slug /\ live(d) THEN NoId
      ELSE <<r, n + 1>>

\* Bound: with one more event of kind k by r the history still fits a plan.
Fits(r, k) ==
  \E p \in Plans :
    /\ Len(p[r]) > have[r][r] /\ p[r][have[r][r] + 1] = k
    /\ \A w \in Writers : /\ have[w][w] <= Len(p[w])
                          /\ \A i \in 1..have[w][w] : op[<<w, i>>].kind = p[w][i]

\* author_under_gate: the event follows the writer's head and names every head
\* the replica has stored, pending ones too.
Author(r, e) ==
  LET x == <<r, have[r][r] + 1>>
  IN  /\ have[r][r] < MaxSeq
      /\ Fits(r, e.kind)
      /\ op' = [op EXCEPT ![x] = [e EXCEPT !.past = PastAt(r)]]
      /\ have' = [have EXCEPT ![r][r] = @ + 1]

\* Put, Resolve and CaptureFileRevision: a document version others may point at.
AuthorDocument(r) == reading.phase = "idle" /\ Author(r, Blank) /\ UNCHANGED reading

\* A mint is not looked up: one whose slug is taken is signed and void.
MintPredicate(r, slug) ==
  /\ reading.phase = "idle"
  /\ Author(r, [Blank EXCEPT !.kind = "define", !.slug = slug, !.root = OwnChain(r, slug, NoId)])
  /\ UNCHANGED reading

\* The checks of the author are done: the fold of all closed events has ended.
Checked(r, what) ==
  Gated(r) /\ reading.what = what /\ reading.phase = "fold" /\ reading.todo = {}

\* frontier_observes
Observes(r, x) == x \in PastAt(r)

\* The event is signed and the gate released.
Sign(r, e) == Author(r, [e EXCEPT !.vouched = Complete(reading.cut)]) /\ reading' = NoReading

SupersedePredicate(r, d, retire) ==
  /\ Checked(r, "relations")
  /\ d \in Definitions /\ d[1] = r /\ Observes(r, d)
  /\ Sign(r, [Blank EXCEPT !.kind = "define", !.ref = d, !.slug = op[d].slug,
                           !.retire = retire, !.root = OwnChain(r, op[d].slug, d)])

\* Mutant: a retired predicate is not refused.
AssertAnyway(r, p, h) ==
  /\ Checked(r, "relations")
  /\ p # Core => p \in Definitions /\ Observes(r, p)
  /\ h \in OfKind("put", reading.done) /\ Observes(r, h)
  /\ Sign(r, [Blank EXCEPT !.kind = "assert", !.pred = p, !.ref = h])

AssertRelation(r, p, h) ==
  /\ Checked(r, "relations")
  /\ p # Core => /\ p \in Definitions /\ Observes(r, p)
                 /\ \A d \in Definitions :
                      reading.root[d] = reading.root[p] /\ op[d].retire => ~Observes(r, d)
  /\ h \in OfKind("put", reading.done) /\ Observes(r, h)
  /\ Sign(r, [Blank EXCEPT !.kind = "assert", !.pred = p, !.ref = h])

RetractRelation(r, a) ==
  /\ Checked(r, "relations")
  /\ a \in OfKind("assert", reading.done) /\ reading.verdict[a] \in {"valid", "unverified"}
  /\ a[1] = r /\ Observes(r, a)
  /\ Sign(r, [Blank EXCEPT !.kind = "retract", !.ref = a])

\* Another program with an admitted key signs a relation event about any event
\* it has heard of.
AuthorUnchecked(r, kind, p, x) ==
  /\ reading.phase = "idle" /\ r \in Careless
  /\ CASE kind = "assert"  -> Author(r, [Blank EXCEPT !.kind = "assert", !.pred = p, !.ref = x])
       [] kind = "retract" -> p = Core /\ Author(r, [Blank EXCEPT !.kind = "retract", !.ref = x])
       [] kind = "define"  -> /\ p = Core /\ op[x].kind = "define"
                              /\ Author(r, [Blank EXCEPT !.kind = "define", !.ref = x, !.retire = TRUE,
                                              !.slug = op[x].slug, !.root = OwnChain(r, op[x].slug, x)])
  /\ UNCHANGED reading

\* How much of the collection the reading has walked over.
Weight == Cardinality(OfKind("retain", Closed(reading.cut)) \cup OfKind("organize", Closed(reading.cut)))

\* Mutant: retaining reads the items only, not their organization.
RetainUnread(r, i, b) ==
  /\ Gated(r) /\ reading.what = "collection" /\ reading.phase \in {"fold", "failed"}
  /\ reading.rev[<<r, i>>] = NoId
  /\ Author(r, [Blank EXCEPT !.kind = "retain", !.owner = r, !.item = i, !.body = b])
  /\ reading' = NoReading

\* retain_composition: an item that is retained already is not retained again.
RetainComposition(r, i, b) ==
  /\ Checked(r, "collection")
  /\ reading.rev[<<r, i>>] = NoId
  /\ Cardinality({k \in Keys : reading.rev[k] # NoId}) < MaxItems
  /\ Weight < MaxHistory
  /\ Sign(r, [Blank EXCEPT !.kind = "retain", !.owner = r, !.item = i, !.body = b])

\* organize_composition: the editor's expected revision must be the current one.
OrganizeComposition(r, k, b) ==
  /\ Checked(r, "collection")
  /\ reading.rev[k] # NoId /\ op[reading.rev[k]].body # b
  /\ Weight < MaxHistory
  /\ Sign(r, [Blank EXCEPT !.kind = "organize", !.owner = k[1], !.item = k[2], !.body = b,
                           !.ref = reading.rev[k]])

-----------------------------------------------------------------------------

AuthorStep(r) ==
  \/ AuthorDocument(r)
  \/ \E s \in Slugs : MintPredicate(r, s)
  \/ \E d \in reading.done, retire \in BOOLEAN : SupersedePredicate(r, d, retire)
  \/ \E p \in reading.done \cup {Core}, h \in reading.done : AssertRelation(r, p, h)
  \/ \E a \in reading.done : RetractRelation(r, a)
  \/ \E kind \in {"assert", "retract", "define"}, p \in Authored \cup {Core}, x \in Authored :
       AuthorUnchecked(r, kind, p, x)
  \/ \E i \in Items, b \in Bodies : RetainComposition(r, i, b)
  \/ \E k \in Keys, b \in Bodies : OrganizeComposition(r, k, b)

Next ==
  \/ \E r \in Writers : AuthorStep(r)
  \/ \E r, w \in Writers : Accept(r, w)
  \/ \E r \in Writers \ Careless : BeginRelations(r)
  \/ \E r \in Writers \ Careless, gate \in BOOLEAN : BeginCollection(r, gate)
  \/ \E x \in reading.todo : FoldRelation(x) \/ FoldCollection(x)
  \/ LoadAgain \/ EndReading

Spec == Init /\ [][Next]_vars

-----------------------------------------------------------------------------
(* Properties *)

\* Events, replicas and the reading have their types; a fold has split its closed
\* history into what it has done and what is left.
TypeOK ==
  /\ op \in [Id -> Event \cup {NoEvent}]
  /\ have \in [Writers -> [Writers -> 0..MaxSeq]]
  /\ reading \in Reading
  /\ reading.phase = "fold" => /\ reading.done \cup reading.todo = Closed(reading.cut)
                               /\ reading.done \cap reading.todo = {}

\* The history an event can be judged by: what its own author's log and its own
\* past say.  An assertion stands when its predicate was defined, and not
\* retired, and its document was there, in the past of the assertion.
Stands(x) ==
  LET e == op[x]
      p == e.pred
  IN  CASE e.kind = "define" -> e.root # NoId
        [] e.kind = "assert" ->
             /\ e.ref \in OfKind("put", e.past)
             /\ \/ p = Core
                \/ /\ p \in OfKind("define", e.past) /\ op[p].root # NoId
                   /\ \A d \in OfKind("define", e.past) :
                        op[d].root = op[p].root => ~op[d].retire
        [] OTHER -> TRUE

\* Every reader judges a definition or assertion by its own past alone: in
\* whatever order events arrive and are folded, and whatever careless writers
\* sign, all replicas show the same relations as valid, and no late event
\* changes one.  fold_relations, fold_predicate_definition,
\* validate_asserted_predicate, validate_relation_capture.
VerdictsAgree ==
  \A x \in reading.done :
    reading.what = "relations" /\ op[x].kind \in {"define", "assert"} =>
      (reading.verdict[x] = "valid" <=> Stands(x))

\* What an author checked against a complete history no reader rejects: the
\* checks before signing (validate_local_relation_event, over the frontier) and
\* in the fold (over the causal order) agree.
CheckedIsAccepted ==
  \A x \in reading.done :
    reading.what = "relations" /\ op[x].vouched => reading.verdict[x] = "valid"

\* "slug unique per author per scope among live roots": through mints, renames
\* and retirements of several devices, no reader has two live predicates of one
\* author under one slug.
LiveSlugsUnique ==
  \A d, e \in Definitions :
    /\ reading.root[d] = d /\ reading.root[e] = e
    /\ d[1] = e[1] /\ op[d].slug = op[e].slug
    /\ ~Retired(d) /\ ~Retired(e)
    => d = e

\* Organizations of one item with the same predecessor.
Fork(s) == \E x, y \in OfKind("organize", s) : x # y /\ op[x].ref = op[y].ref

TooMuch(s) ==
  \/ Cardinality({<<x[1], op[x].item>> : x \in OfKind("retain", s)}) > MaxItems
  \/ Cardinality(OfKind("retain", s) \cup OfKind("organize", s)) > MaxHistory

\* A reading that succeeds shows, of every item, the last of a chain of
\* organizations: concurrent ones are never silently ordered
\* (organized_composition_with_cipher).
ReadsOneChain ==
  reading.what = "collection" /\ reading.phase = "fold" =>
    \A x \in OfKind("organize", reading.done) :
      \/ reading.rev[KeyOf(x)] = x
      \/ HappensBefore(x, reading.rev[KeyOf(x)])

\* Nobody adds to a collection whose history he has seen forked or over its
\* limits: retain and organize read it first, under the gate.
NothingOnAFork ==
  \A x \in OfKind("retain", Authored) \cup OfKind("organize", Authored) :
    LET s == {x} \cup op[x].past IN ~Fork(s) /\ ~TooMuch(s)

\* Reading the collection fails only while history is missing, when writers who
\* had not seen each other's work forked an item or together exceeded a limit, or
\* when events came between the two loads of a list without the gate.
FailsForAReason ==
  reading.phase = "failed" =>
    \/ Fork(Closed(reading.cut)) \/ TooMuch(Closed(reading.cut))
    \/ ~Complete(reading.cut)
    \/ ~reading.gate /\ reading.first # reading.cut

=============================================================================
