---------------------------- MODULE RecordsProofs ----------------------------
(***************************************************************************)
(* What is proved of Records, for every set of writers, slugs, items and    *)
(* bodies, and every bound.                                                *)
(***************************************************************************)
EXTENDS Records, FiniteSetTheorems, TLAPS

-----------------------------------------------------------------------------
(* The inductive invariant: what every history of signed events is like ... *)

\* The events of x's log before x.
Earlier(x) == {y \in Id : y[1] = x[1] /\ y[2] < x[2]}

\* The chain of definition x, by its author's log up to x.
LogChain(x) ==
  LET e == op[x]
  IN  IF e.ref # NoId
      THEN IF e.ref \in Earlier(x) /\ op[e.ref].slug = e.slug THEN op[e.ref].root ELSE NoId
      ELSE IF \E d \in Earlier(x) :
                /\ op[d].root = d /\ op[d].slug = e.slug
                /\ \A c \in Earlier(x) : op[c].root = d => ~op[c].retire
           THEN NoId ELSE x

\* A log has no gaps, and nobody has more of it than its author.
Logs ==
  /\ \A x \in Id : op[x] # NoEvent <=> x[2] <= have[x[1]][x[1]]
  /\ \A r, w \in Writers : have[r][w] <= have[w][w]

\* The past of an event is authored and closed, and of its own log it has what is earlier.
Causal ==
  \A x \in Authored :
    /\ op[x].past \subseteq Authored
    /\ \A y \in op[x].past : op[y].past \subseteq op[x].past
    /\ \A y \in Id : y[1] = x[1] => (y \in op[x].past <=> y[2] < x[2])

\* Chains are told by their author's log.
Chains ==
  \A x \in Authored :
    /\ op[x].kind = "define" => op[x].root = LogChain(x)
    /\ op[x].root # NoId => /\ op[x].kind = "define" /\ op[x].root[1] = x[1]
                            /\ op[x].root[2] <= x[2]

\* Stands, of an event e with this past.
StandsIn(e, past) ==
  /\ e.kind = "define" => e.root # NoId
  /\ e.kind = "assert" =>
       /\ e.ref \in OfKind("put", past)
       /\ \/ e.pred = Core
          \/ /\ e.pred \in OfKind("define", past) /\ op[e.pred].root # NoId
             /\ \A d \in OfKind("define", past) :
                  op[d].root = op[e.pred].root => ~op[d].retire

\* What the check of its author, r, leaves of a relation event.
SignedIn(r, e, past) ==
  /\ e.kind = "define" => e.root # NoId
  /\ e.kind = "assert" => StandsIn(e, past)
  /\ e.kind = "retract" =>
       /\ e.ref \in past /\ op[e.ref].kind = "assert"
       /\ e.ref[1] = r /\ StandsIn(op[e.ref], op[e.ref].past)

VouchedIn(r, e, past) ==
  /\ e.kind = "assert" /\ r \notin Careless => e.ref \in OfKind("put", past)
  /\ e.vouched => SignedIn(r, e, past)

Vouched == \A x \in Authored : VouchedIn(x[1], op[x], op[x].past)

Weighing(s) == OfKind("retain", s) \cup OfKind("organize", s)

\* The items retained by the events of s.
KeysIn(s) == {<<x[1], op[x].item>> : x \in OfKind("retain", s)}

\* A collection event of r is about an item of its past, or a new one of r's own.
Named(r, e, past) ==
  /\ e.kind = "retain" => e.owner = r /\ e.item \in Items
  /\ e.kind = "organize" =>
       /\ e.owner \in Writers /\ e.item \in Items
       /\ e.ref \in Weighing(past) /\ KeyOf(e.ref) = <<e.owner, e.item>>
       /\ \E y \in OfKind("retain", past) : KeyOf(y) = <<e.owner, e.item>>

AllNamed == \A x \in Authored : Named(x[1], op[x], op[x].past)

RetainedOnce == \A x, y \in OfKind("retain", Authored) : KeyOf(x) = KeyOf(y) => x = y

History ==
  Logs /\ Causal /\ Chains /\ Vouched /\ AllNamed /\ RetainedOnce /\ NothingOnAFork

-----------------------------------------------------------------------------
(* ... and what a reading has made of it.                                   *)

\* The reading is of what its reader has stored, which under the gate stays so.
ReadingOf ==
  /\ reading.phase = "idle" => reading = NoReading
  /\ reading.phase # "idle" =>
       /\ reading.by \in Writers \ Careless /\ reading.what \in {"relations", "collection"}
       /\ \A w \in Writers : reading.first[w] <= have[w][w] /\ reading.cut[w] <= have[w][w]
       /\ reading.gate => reading.first = have[reading.by] /\ reading.cut = have[reading.by]
  /\ reading.what = "relations" => reading.phase = "fold"
  /\ reading.phase = "list" => reading.cut = reading.first /\ reading.done = {}
  /\ reading.done \subseteq Closed(reading.cut)
  /\ \A x \in reading.done : op[x].past \subseteq reading.done

\* Every definition folded has the chain its author's log gives it.
ChainsRead ==
  \A x \in Id : reading.root[x] = IF reading.what = "relations" /\ x \in reading.done
                                  THEN op[x].root ELSE NoId

\* What was folded of the relations has the verdict its own past gives it.
Judgement(x, verdict) ==
  /\ op[x].kind \in {"define", "assert"} => (verdict = "valid" <=> StandsIn(op[x], op[x].past))
  /\ op[x].kind = "assert" /\ verdict = "unverified" => op[x].ref \notin OfKind("put", op[x].past)
  /\ op[x].vouched => verdict = "valid"

Judged ==
  reading.what = "relations" => \A x \in reading.done : Judgement(x, reading.verdict[x])

\* The revisions a reading of the collection has met for item k.
Met(k) ==
  {x \in OfKind("retain", Closed(reading.first)) \cup OfKind("organize", reading.done) : KeyOf(x) = k}

\* The current revision of an item is the last of those met, and every other
\* one was organized once.
Walked ==
  /\ \A k \in Keys : IF Met(k) = {} THEN reading.rev[k] = NoId ELSE reading.rev[k] \in Met(k)
  /\ \A k \in Keys : \A x \in Met(k) :
       x = reading.rev[k] \/ \E y \in OfKind("organize", reading.done) : op[y].ref = x
  /\ \A x \in OfKind("organize", reading.done) :
       reading.rev[KeyOf(x)] = x \/ HappensBefore(x, reading.rev[KeyOf(x)])
  /\ ~Fork(reading.done)

WithinLimits ==
  /\ reading.phase \in {"list", "fold"} => ItemsReadable(reading.first)
  /\ reading.phase = "fold" =>
       Complete(reading.cut) /\ Cardinality(Weighing(Closed(reading.cut))) <= MaxHistory

Outcome ==
  /\ ReadingOf /\ ChainsRead /\ Judged
  /\ reading.what = "collection" => Walked /\ WithinLimits
  /\ FailsForAReason

Inv == TypeOK /\ History /\ Outcome

-----------------------------------------------------------------------------
(* Events                                                                   *)

LEMMA IdIs == \A x \in Id : x[1] \in Writers /\ x[2] \in 1..MaxSeq /\ x = <<x[1], x[2]>>
  BY DEF Id

LEMMA NoIdIs == NoId \notin Id /\ Core \notin Id
  BY RecordsAssumption DEF Id

LEMMA EventIs == \A e \in Event : e # NoEvent /\ e.kind # "none"
  BY DEF Event, NoEvent, Kinds

LEMMA AuthoredType == ASSUME TypeOK, NEW x \in Authored PROVE op[x] \in Event /\ x \in Id
  BY DEF TypeOK, Authored

LEMMA OfKindType ==
  ASSUME TypeOK, NEW s, s \subseteq Id, NEW k \in Kinds, NEW x \in OfKind(k, s)
  PROVE  x \in Authored /\ x \in s /\ op[x].kind = k
  <1>1. x \in Id /\ op[x].kind = k
    BY DEF OfKind
  <1>2. op[x] # NoEvent
    BY <1>1 DEF NoEvent, Kinds
  <1> QED
    BY <1>1, <1>2 DEF Authored, OfKind

LEMMA StandsIs == \A x : Stands(x) <=> StandsIn(op[x], op[x].past)
  <1> TAKE x
  <1>1. CASE op[x].kind = "define"
    BY <1>1, Zenon DEF Stands, StandsIn
  <1>2. CASE op[x].kind = "assert" /\ op[x].kind # "define"
    BY <1>2, Zenon DEF Stands, StandsIn
  <1>3. CASE op[x].kind # "assert" /\ op[x].kind # "define"
    BY <1>3, Zenon DEF Stands, StandsIn
  <1> QED
    BY <1>1, <1>2, <1>3

\* r authors n as x, with everything it has stored as its past.
Adds(r, x, n) ==
  /\ x \in Id /\ x[1] = r /\ x[2] = have[r][r] + 1
  /\ n \in Event /\ n.past = PastAt(r)
  /\ op' = [op EXCEPT ![x] = n]
  /\ have' = [have EXCEPT ![r][r] = @ + 1]

LEMMA HaveType ==
  ASSUME TypeOK, NEW r \in Writers, NEW w \in Writers
  PROVE  have[r][w] \in Nat /\ have[r][w] <= MaxSeq /\ MaxSeq \in Nat
  BY RecordsAssumption DEF TypeOK

LEMMA PastType == ASSUME TypeOK, Logs, NEW r \in Writers
  PROVE  PastAt(r) \subseteq Id /\ Frontier(r) \subseteq Authored
  <1>1. ASSUME NEW x \in Frontier(r) PROVE x \in Authored
    <2>1. x \in Id /\ x[2] = have[r][x[1]] /\ x[1] \in Writers /\ x[2] \in Nat
      BY IdIs DEF Frontier
    <2>2. x[2] <= have[x[1]][x[1]]
      BY <2>1 DEF Logs
    <2> QED
      BY <2>1, <2>2 DEF Logs, Authored
  <1>2. \A x \in Frontier(r) : op[x].past \subseteq Id /\ x \in Id
    BY <1>1, AuthoredType DEF Event
  <1> QED
    BY <1>1, <1>2 DEF PastAt

LEMMA AuthorAdds ==
  ASSUME TypeOK, Logs, NEW r \in Writers, NEW e \in Event, Author(r, e)
  PROVE  \E x, n : /\ Adds(r, x, n)
                   /\ n.kind = e.kind /\ n.ref = e.ref /\ n.pred = e.pred /\ n.slug = e.slug
                   /\ n.retire = e.retire /\ n.owner = e.owner /\ n.item = e.item
                   /\ n.vouched = e.vouched /\ n.root = e.root
  <1> DEFINE x == <<r, have[r][r] + 1>>
             n == [e EXCEPT !.past = PastAt(r)]
  <1>1. x \in Id /\ x[1] = r /\ x[2] = have[r][r] + 1
    BY HaveType, RecordsAssumption DEF Author, Id
  <1>2. n \in Event /\ n.past = PastAt(r)
    BY PastType DEF Event
  <1>3. op' = [op EXCEPT ![x] = n] /\ have' = [have EXCEPT ![r][r] = @ + 1]
    BY DEF Author
  <1>4. /\ n.kind = e.kind /\ n.ref = e.ref /\ n.pred = e.pred /\ n.slug = e.slug
        /\ n.retire = e.retire /\ n.owner = e.owner /\ n.item = e.item
        /\ n.vouched = e.vouched /\ n.root = e.root
    BY DEF Event
  <1>5. Adds(r, x, n)
    BY <1>1, <1>2, <1>3 DEF Adds
  <1> HIDE DEF x, n
  <1> QED
    BY <1>4, <1>5

\* What was signed before stays.
LEMMA OldStays ==
  ASSUME TypeOK, Logs, NEW r \in Writers, NEW x, NEW n, Adds(r, x, n)
  PROVE  /\ x \in Id /\ x \notin Authored /\ op'[x] = n
         /\ \A y \in Id : y # x => op'[y] = op[y]
         /\ \A y \in Authored : op'[y] = op[y] /\ y # x
         /\ Authored' = Authored \cup {x}
         /\ op' \in [Id -> Event \cup {NoEvent}]
  <1>1. x \in Id /\ n \in Event /\ op' = [op EXCEPT ![x] = n] /\ op \in [Id -> Event \cup {NoEvent}]
    BY DEF Adds, TypeOK
  <1>2. op'[x] = n /\ \A y \in Id : y # x => op'[y] = op[y]
    BY <1>1
  <1>3. x \notin Authored
    <2>1. x[2] = have[x[1]][x[1]] + 1 /\ have[x[1]][x[1]] \in Nat
      BY HaveType DEF Adds
    <2> QED
      BY <1>1, <2>1 DEF Logs, Authored
  <1>4. n # NoEvent
    BY <1>1, EventIs
  <1>5. Authored' = Authored \cup {x}
    BY <1>1, <1>2, <1>4 DEF Authored
  <1>6. op' \in [Id -> Event \cup {NoEvent}]
    BY <1>1
  <1> QED
    BY <1>1, <1>2, <1>3, <1>5, <1>6 DEF Authored

\* The past of what r signs now is all it has stored and what that had seen.
LEMMA PastIs ==
  ASSUME TypeOK, Logs, Causal, NEW r \in Writers
  PROVE  /\ PastAt(r) \subseteq Authored
         /\ \A y \in PastAt(r) : op[y].past \subseteq PastAt(r)
         /\ \A y \in Id : y[2] <= have[r][y[1]] => y \in PastAt(r)
         /\ \A y \in Id : y[1] = r => (y \in PastAt(r) <=> y[2] <= have[r][r])
         /\ Complete(have[r]) => PastAt(r) = Closed(have[r])
  <1>1. Frontier(r) \subseteq Authored
    BY PastType
  <1>2. PastAt(r) \subseteq Authored
    BY <1>1 DEF Causal, PastAt
  <1>3. ASSUME NEW y \in PastAt(r) PROVE op[y].past \subseteq PastAt(r)
    <2>1. PICK p \in Frontier(r) : y = p \/ y \in op[p].past
      BY DEF PastAt
    <2>2. op[y].past \subseteq op[p].past
      BY <1>1, <2>1 DEF Causal
    <2> QED
      BY <2>1, <2>2 DEF PastAt
  <1>4. ASSUME NEW y \in Id, y[2] <= have[r][y[1]] PROVE y \in PastAt(r)
    <2> DEFINE p == <<y[1], have[r][y[1]]>>
    <2>1. y[1] \in Writers /\ y[2] \in Nat /\ 1 <= y[2] /\ y = <<y[1], y[2]>>
      BY IdIs
    <2>2. have[r][y[1]] \in Nat /\ have[r][y[1]] <= MaxSeq /\ MaxSeq \in Nat
      BY <2>1, HaveType
    <2>3. p \in Id /\ p[1] = y[1] /\ p[2] = have[r][y[1]]
      BY <1>4, <2>1, <2>2 DEF Id
    <2> HIDE DEF p
    <2>4. p \in Frontier(r)
      BY <2>3 DEF Frontier
    <2>5. CASE y[2] = have[r][y[1]]
      BY <2>5, <2>4 DEF Frontier, PastAt
    <2>6. CASE y[2] # have[r][y[1]]
      <3>1. y[2] < p[2]
        BY <1>4, <2>1, <2>2, <2>3, <2>6
      <3>2. y \in op[p].past
        BY <1>1, <2>3, <2>4, <3>1 DEF Causal
      <3> QED
        BY <2>4, <3>2 DEF PastAt
    <2> QED
      BY <2>5, <2>6
  <1>5. ASSUME NEW y \in Id, y[1] = r PROVE y \in PastAt(r) <=> y[2] <= have[r][r]
    <2>1. y \in PastAt(r) => y[2] <= have[r][r]
      BY <1>2, <1>5 DEF Authored, Logs
    <2> QED
      BY <1>4, <1>5, <2>1
  <1>6. ASSUME Complete(have[r]) PROVE PastAt(r) = Closed(have[r])
    <2>1. Closed(have[r]) = Stored(have[r])
      BY <1>6 DEF Complete
    <2>2. Frontier(r) \subseteq Stored(have[r])
      BY HaveType, IdIs DEF Frontier, Stored
    <2>3. PastAt(r) \subseteq Stored(have[r])
      BY <2>1, <2>2 DEF PastAt, Closed
    <2>4. Stored(have[r]) \subseteq PastAt(r)
      BY <1>4 DEF Stored
    <2> QED
      BY <2>1, <2>3, <2>4
  <1> QED
    BY <1>2, <1>3, <1>4, <1>5, <1>6

LEMMA LogsGrow ==
  ASSUME TypeOK, Logs, NEW r \in Writers, NEW x, NEW n, Adds(r, x, n)
  PROVE  /\ Logs' /\ have' \in [Writers -> [Writers -> 0..MaxSeq]]
         /\ \A w \in Writers : have'[w][w] \in Nat /\ have'[w][w] >= have[w][w]
  <1>1. x \in Id /\ x[1] = r /\ x[2] = have[r][r] + 1 /\ x[2] \in 1..MaxSeq /\ MaxSeq \in Nat
    BY IdIs, RecordsAssumption DEF Adds
  <1>2. have' = [have EXCEPT ![r][r] = @ + 1] /\ have \in [Writers -> [Writers -> 0..MaxSeq]]
    BY DEF Adds, TypeOK
  <1>3. have' \in [Writers -> [Writers -> 0..MaxSeq]]
    BY <1>1, <1>2
  <1>4. \A s, w \in Writers : /\ have[s][w] \in Nat
                              /\ have'[s][w] = IF s = r /\ w = r THEN have[r][r] + 1 ELSE have[s][w]
    BY <1>2, HaveType
  <1>5. \A s, w \in Writers : have'[s][w] <= have'[w][w]
    BY <1>4 DEF Logs
  <1>6. ASSUME NEW y \in Id PROVE op'[y] # NoEvent <=> y[2] <= have'[y[1]][y[1]]
    <2>1. y[1] \in Writers /\ y[2] \in Nat /\ y = <<y[1], y[2]>> /\ x = <<x[1], x[2]>>
      BY <1>1, IdIs
    <2>2. CASE y = x
      <3>1. op'[y] = n /\ n \in Event
        BY <2>2, OldStays DEF Adds
      <3>2. op'[y] # NoEvent
        BY <3>1, EventIs
      <3>3. y[2] <= have'[y[1]][y[1]]
        BY <1>1, <1>4, <2>1, <2>2
      <3> QED
        BY <3>2, <3>3
    <2>3. CASE y # x
      <3>1. op'[y] = op[y]
        BY <2>3, OldStays
      <3>2. y[1] # r \/ y[2] # have[r][r] + 1
        BY <1>1, <2>1, <2>3
      <3> QED
        BY <1>4, <2>1, <3>1, <3>2 DEF Logs
    <2> QED
      BY <2>2, <2>3
  <1> QED
    BY <1>3, <1>4, <1>5, <1>6 DEF Logs

LEMMA CausalStays ==
  ASSUME TypeOK, Logs, Causal, NEW r \in Writers, NEW x, NEW n, Adds(r, x, n)
  PROVE  Causal'
  <1>1. n.past = PastAt(r) /\ x \in Id /\ x[1] = r /\ x[2] = have[r][r] + 1
    BY DEF Adds
  <1>2. SUFFICES ASSUME NEW z \in Authored'
                 PROVE  /\ op'[z].past \subseteq Authored'
                        /\ \A y \in op'[z].past : op'[y].past \subseteq op'[z].past
                        /\ \A y \in Id : y[1] = z[1] => (y \in op'[z].past <=> y[2] < z[2])
    BY DEF Causal
  <1>3. CASE z \in Authored
    BY <1>3, OldStays DEF Causal
  <1>4. CASE z = x
    <2>1. op'[z].past = PastAt(r)
      BY <1>1, <1>4, OldStays
    <2>2. \A y \in PastAt(r) : y \in Authored /\ op'[y] = op[y]
      BY PastIs, OldStays
    <2>3. \A y \in Id : y[1] = r => (y \in PastAt(r) <=> y[2] < have[r][r] + 1)
      BY PastIs, HaveType, IdIs
    <2> QED
      BY <1>1, <1>4, <2>1, <2>2, <2>3, PastIs, OldStays
  <1> QED
    BY <1>3, <1>4, OldStays

\* The chain of a definition follows from its author's log.
LEMMA EarlierIs ==
  ASSUME TypeOK, Logs, NEW x \in Authored
  PROVE  Earlier(x) \subseteq Authored /\ \A y \in Earlier(x) : y \in Id /\ y # x
  <1>1. x \in Id /\ x[2] <= have[x[1]][x[1]] /\ x[1] \in Writers /\ x[2] \in Nat
    BY IdIs DEF Authored, Logs
  <1>2. have[x[1]][x[1]] \in Nat
    BY <1>1, HaveType
  <1>3. \A y \in Earlier(x) : y \in Id /\ y[1] = x[1] /\ y[2] < x[2] /\ y[2] \in Nat
    BY IdIs DEF Earlier
  <1>4. \A y \in Earlier(x) : y[2] <= have[y[1]][y[1]]
    BY <1>1, <1>2, <1>3
  <1> QED
    BY <1>1, <1>3, <1>4 DEF Authored, Logs

LEMMA ChainsStay ==
  ASSUME TypeOK, Logs, Causal, Chains, NEW r \in Writers, NEW x, NEW n, Adds(r, x, n),
         n.root = IF n.kind = "define" THEN OwnChain(r, n.slug, n.ref) ELSE NoId
  PROVE  Chains'
  <1>1. /\ n.past = PastAt(r) /\ n \in Event
        /\ x \in Id /\ x[1] = r /\ x[2] = have[r][r] + 1 /\ x = <<r, have[r][r] + 1>>
    BY IdIs DEF Adds
  <1>2. SUFFICES ASSUME NEW z \in Authored'
                 PROVE  /\ op'[z].kind = "define" => op'[z].root = LogChain(z)'
                        /\ op'[z].root # NoId => /\ op'[z].kind = "define" /\ op'[z].root[1] = z[1]
                                                 /\ op'[z].root[2] <= z[2]
    BY DEF Chains
  <1>3. CASE z \in Authored
    <2>1. op'[z] = op[z] /\ \A y \in Earlier(z) : op'[y] = op[y]
      BY <1>3, OldStays, EarlierIs
    <2>2. LogChain(z)' = LogChain(z)
      BY <2>1 DEF LogChain, Earlier
    <2> QED
      BY <1>3, <2>1, <2>2 DEF Chains
  <1>4. CASE z = x
    <2> DEFINE own == {<<r, i>> : i \in 1..have[r][r]}
    <2>1. op'[z] = n
      BY <1>4, OldStays
    <2>2. own = Earlier(x)
      <3>1. have[r][r] \in Nat /\ have[r][r] + 1 <= MaxSeq /\ MaxSeq \in Nat
        BY <1>1, IdIs, HaveType
      <3>2. ASSUME NEW y \in own PROVE y \in Earlier(x)
        BY <1>1, <3>1 DEF Earlier, Id
      <3>3. ASSUME NEW y \in Earlier(x) PROVE y \in own
        <4>1. y[2] \in 1..have[r][r] /\ y = <<r, y[2]>>
          BY <1>1, <3>1, IdIs DEF Earlier
        <4> QED
          BY <4>1
      <3> QED
        BY <3>2, <3>3
    <2>3. \A y \in Earlier(x) : y \in Authored /\ op'[y] = op[y] /\ y[1] = r /\ y[2] < x[2] /\ y[2] \in Nat
      <3>1. \A y \in Earlier(x) : y \in Id /\ y[1] = r /\ y[2] < x[2] /\ y[2] <= have[r][r] /\ y[2] \in Nat
        BY <1>1, IdIs, HaveType DEF Earlier
      <3> QED
        BY <3>1, OldStays DEF Authored, Logs
    <2> HIDE DEF own
    <2>4. OwnChain(r, n.slug, n.ref) =
            IF n.ref # NoId
            THEN IF n.ref \in Earlier(x) THEN IF op[n.ref].slug = n.slug THEN op[n.ref].root ELSE NoId ELSE NoId
            ELSE IF \E d \in Earlier(x) : op[d].root = d /\ op[d].slug = n.slug
                                          /\ ~\E c \in Earlier(x) : op[c].root = d /\ op[c].retire
                 THEN NoId ELSE x
      BY <1>1, <2>2 DEF OwnChain, own
    <2>5. LogChain(x)' =
            IF n.ref # NoId
            THEN IF n.ref \in Earlier(x) /\ op[n.ref].slug = n.slug THEN op[n.ref].root ELSE NoId
            ELSE IF \E d \in Earlier(x) : op[d].root = d /\ op[d].slug = n.slug
                                          /\ \A c \in Earlier(x) : op[c].root = d => ~op[c].retire
                 THEN NoId ELSE x
      BY <1>4, <2>1, <2>3 DEF LogChain, Earlier
    <2>6. OwnChain(r, n.slug, n.ref) = LogChain(x)'
      BY <2>4, <2>5
    <2>7. ASSUME LogChain(x)' # NoId PROVE LogChain(x)'[1] = x[1] /\ LogChain(x)'[2] <= x[2]
      <3>1. x[2] \in Nat
        BY <1>1, IdIs
      <3>2. CASE LogChain(x)' = x
        BY <3>1, <3>2
      <3>3. CASE n.ref \in Earlier(x) /\ LogChain(x)' = op[n.ref].root
        <4>1. op[n.ref].root \in Id /\ op[n.ref].root[2] \in Nat
          BY <2>3, <2>7, <3>3, AuthoredType, IdIs DEF Event
        <4> QED
          BY <1>1, <2>3, <2>7, <3>1, <3>3, <4>1 DEF Chains
      <3> QED
        BY <2>5, <2>7, <3>2, <3>3
    <2> QED
      BY <1>4, <2>1, <2>6, <2>7
  <1> QED
    BY <1>3, <1>4, OldStays

-----------------------------------------------------------------------------
(* What an event says is told by its past, and stays when others are signed. *)

LEMMA KindsStay ==
  ASSUME TypeOK, Logs, NEW r \in Writers, NEW x, NEW n, Adds(r, x, n), NEW s \in SUBSET Authored, NEW k
  PROVE  {z \in s : op'[z].kind = k} = OfKind(k, s)
  BY OldStays DEF OfKind

LEMMA StandsStays ==
  ASSUME TypeOK, Logs, NEW r \in Writers, NEW x, NEW n, Adds(r, x, n),
         NEW e, NEW s \in SUBSET Authored
  PROVE  StandsIn(e, s)' <=> StandsIn(e, s)
  <1>1. \A k : {z \in s : op'[z].kind = k} = OfKind(k, s)
    BY KindsStay
  <1>2. \A z \in s : op'[z] = op[z]
    BY OldStays
  <1>3. \A k, z : z \in OfKind(k, s) => z \in s
    BY DEF OfKind
  <1>4. StandsIn(e, s)' <=>
          /\ e.kind = "define" => e.root # NoId
          /\ e.kind = "assert" =>
               /\ e.ref \in OfKind("put", s)
               /\ \/ e.pred = Core
                  \/ /\ e.pred \in OfKind("define", s) /\ op'[e.pred].root # NoId
                     /\ \A d \in OfKind("define", s) : op'[d].root = op'[e.pred].root => ~op'[d].retire
    BY <1>1 DEF StandsIn, OfKind
  <1> QED
    BY <1>2, <1>3, <1>4 DEF StandsIn

LEMMA SignedStays ==
  ASSUME TypeOK, Logs, Causal, NEW r \in Writers, NEW x, NEW n, Adds(r, x, n),
         NEW w, NEW e, NEW s \in SUBSET Authored
  PROVE  VouchedIn(w, e, s)' <=> VouchedIn(w, e, s)
  <1>1. StandsIn(e, s)' <=> StandsIn(e, s)
    BY StandsStays
  <1>2. ASSUME e.ref \in s PROVE StandsIn(op[e.ref], op[e.ref].past)' <=> StandsIn(op[e.ref], op[e.ref].past)
    <2>1. op'[e.ref] = op[e.ref] /\ op[e.ref].past \in SUBSET Authored
      BY <1>2, OldStays DEF Causal
    <2> DEFINE f == op[e.ref]
    <2>2. StandsIn(op[e.ref], op[e.ref].past)' <=> StandsIn(op[e.ref], op[e.ref].past)
      BY <2>1, StandsStays
    <2> QED
      BY <2>2
  <1>3. e.ref \in OfKind("put", s)' <=> e.ref \in OfKind("put", s)
    BY KindsStay DEF OfKind
  <1>4. e.ref \in s => op'[e.ref] = op[e.ref]
    BY OldStays
  <1>5. SignedIn(w, e, s)' <=> SignedIn(w, e, s)
    BY <1>1, <1>2, <1>4 DEF SignedIn
  <1> QED
    BY <1>3, <1>5 DEF VouchedIn

LEMMA VouchedStays ==
  ASSUME TypeOK, Logs, Causal, Vouched, NEW r \in Writers, NEW x, NEW n, Adds(r, x, n),
         VouchedIn(r, n, PastAt(r))
  PROVE  Vouched'
  <1>1. SUFFICES ASSUME NEW z \in Authored' PROVE VouchedIn(z[1], op[z], op[z].past)'
    BY DEF Vouched
  <1>2. CASE z \in Authored
    <2>1. op'[z] = op[z] /\ op[z].past \in SUBSET Authored
      BY <1>2, OldStays DEF Causal
    <2> QED
      BY <1>2, <2>1, SignedStays DEF Vouched
  <1>3. CASE z = x
    <2>1. op'[z] = n /\ z[1] = r /\ n.past = PastAt(r) /\ PastAt(r) \in SUBSET Authored
      BY <1>3, OldStays, PastIs DEF Adds
    <2> QED
      BY <2>1, SignedStays
  <1> QED
    BY <1>2, <1>3, OldStays

LEMMA NamesStay ==
  ASSUME TypeOK, Logs, NEW r \in Writers, NEW x, NEW n, Adds(r, x, n),
         NEW w, NEW e, NEW s \in SUBSET Authored
  PROVE  Named(w, e, s)' <=> Named(w, e, s)
  <1>1. /\ {z \in s : op'[z].kind = "retain"} = OfKind("retain", s)
        /\ {z \in s : op'[z].kind = "organize"} = OfKind("organize", s)
    BY KindsStay
  <1>2. \A z \in s : op'[z] = op[z]
    BY OldStays
  <1>3. \A k, z : z \in OfKind(k, s) => z \in s
    BY DEF OfKind
  <1>4. OfKind("retain", s)' = OfKind("retain", s) /\ Weighing(s)' = Weighing(s)
    BY <1>1 DEF OfKind, Weighing
  <1>5. \A z \in s : KeyOf(z)' = KeyOf(z)
    BY <1>2 DEF KeyOf
  <1>6. \A z \in Weighing(s) : z \in s
    BY <1>3 DEF Weighing
  <1>7. Named(w, e, s)' <=>
          /\ e.kind = "retain" => e.owner = w /\ e.item \in Items
          /\ e.kind = "organize" =>
               /\ e.owner \in Writers /\ e.item \in Items
               /\ e.ref \in Weighing(s) /\ KeyOf(e.ref)' = <<e.owner, e.item>>
               /\ \E y \in OfKind("retain", s) : KeyOf(y)' = <<e.owner, e.item>>
    BY <1>4, Zenon DEF Named
  <1> QED
    BY <1>3, <1>5, <1>6, <1>7 DEF Named

LEMMA NamedStays ==
  ASSUME TypeOK, Logs, Causal, AllNamed, NEW r \in Writers, NEW x, NEW n, Adds(r, x, n),
         Named(r, n, PastAt(r))
  PROVE  AllNamed'
  <1>1. SUFFICES ASSUME NEW z \in Authored' PROVE Named(z[1], op[z], op[z].past)'
    BY DEF AllNamed
  <1>2. CASE z \in Authored
    <2>1. op'[z] = op[z] /\ op[z].past \in SUBSET Authored
      BY <1>2, OldStays DEF Causal
    <2> QED
      BY <1>2, <2>1, NamesStay DEF AllNamed
  <1>3. CASE z = x
    <2>1. op'[z] = n /\ z[1] = r /\ n.past = PastAt(r) /\ PastAt(r) \in SUBSET Authored
      BY <1>3, OldStays, PastIs DEF Adds
    <2> QED
      BY <2>1, NamesStay
  <1> QED
    BY <1>2, <1>3, OldStays

LEMMA OnceStays ==
  ASSUME TypeOK, Logs, Causal, RetainedOnce, NEW r \in Writers, NEW x, NEW n, Adds(r, x, n),
         n.kind = "retain" => \A y \in OfKind("retain", Authored) : KeyOf(y) # <<n.owner, n.item>>
  PROVE  RetainedOnce'
  <1>1. \A y \in Authored : op'[y] = op[y] /\ KeyOf(y)' = KeyOf(y) /\ y # x
    BY OldStays DEF KeyOf
  <1>2. op'[x] = n /\ KeyOf(x)' = <<n.owner, n.item>> /\ Authored' = Authored \cup {x}
    BY OldStays DEF KeyOf
  <1>3. \A y : y \in OfKind("retain", Authored)' <=>
                 \/ y \in OfKind("retain", Authored)
                 \/ y = x /\ n.kind = "retain"
    BY <1>1, <1>2 DEF OfKind
  <1>4. \A y \in OfKind("retain", Authored) : y \in Authored
    BY DEF OfKind
  <1> SUFFICES ASSUME NEW y \in OfKind("retain", Authored)', NEW z \in OfKind("retain", Authored)',
                      KeyOf(y)' = KeyOf(z)'
               PROVE  y = z
    BY DEF RetainedOnce
  <1> QED
    BY <1>1, <1>2, <1>3, <1>4 DEF RetainedOnce

-----------------------------------------------------------------------------
(* Limits and forks *)

LEMMA IdFinite == IsFiniteSet(Id)
  <1>1. IsFiniteSet(1..MaxSeq)
    BY RecordsAssumption, FS_Interval
  <1> QED
    BY <1>1, RecordsAssumption, FS_Product DEF Id

LEMMA OneMore ==
  ASSUME NEW S, IsFiniteSet(S), NEW a, NEW T, T = S \cup {a}
  PROVE  /\ IsFiniteSet(T) /\ Cardinality(T) \in Nat /\ Cardinality(S) \in Nat
         /\ Cardinality(T) <= Cardinality(S) + 1
  <1>1. Cardinality(S) \in Nat
    BY FS_CardinalityType
  <1>2. IsFiniteSet(T) /\ Cardinality(T) = IF a \in S THEN Cardinality(S) ELSE Cardinality(S) + 1
    BY FS_AddElement
  <1>3. Cardinality(T) \in Nat
    BY <1>2, FS_CardinalityType
  <1> QED
    BY <1>1, <1>2, <1>3

LEMMA SetsFinite ==
  ASSUME NEW s \in SUBSET Id
  PROVE  IsFiniteSet(Weighing(s)) /\ IsFiniteSet(KeysIn(s))
         /\ Cardinality(Weighing(s)) \in Nat /\ Cardinality(KeysIn(s)) \in Nat
  <1>1. Weighing(s) \in SUBSET Id /\ OfKind("retain", s) \in SUBSET Id
    BY DEF Weighing, OfKind
  <1>2. IsFiniteSet(Weighing(s)) /\ IsFiniteSet(OfKind("retain", s))
    BY <1>1, IdFinite, FS_Subset
  <1> DEFINE f == [x \in OfKind("retain", s) |-> <<x[1], op[x].item>>]
  <1>3. f \in Surjection(OfKind("retain", s), KeysIn(s))
    BY DEF Surjection, KeysIn
  <1>4. IsFiniteSet(KeysIn(s))
    BY <1>2, <1>3, FS_Surjection
  <1> QED
    BY <1>2, <1>4, FS_CardinalityType

LEMMA TooMuchIs ==
  ASSUME NEW s \in SUBSET Id
  PROVE  TooMuch(s) <=> ~(Cardinality(KeysIn(s)) <= MaxItems /\ Cardinality(Weighing(s)) <= MaxHistory)
  <1>1. TooMuch(s) <=> (Cardinality(KeysIn(s)) > MaxItems \/ Cardinality(Weighing(s)) > MaxHistory)
    BY Zenon DEF TooMuch, KeysIn, Weighing
  <1> QED
    BY <1>1, SetsFinite, RecordsAssumption

\* A collection event written on past: no fork there, and room for one more.
Room(e, past) ==
  e.kind \in {"retain", "organize"} =>
    /\ ~Fork(past) /\ Cardinality(Weighing(past)) < MaxHistory
    /\ e.kind = "retain" => Cardinality(KeysIn(past)) < MaxItems
    /\ e.kind = "organize" => /\ Cardinality(KeysIn(past)) <= MaxItems
                              /\ \A y \in OfKind("organize", past) : op[y].ref # e.ref

LEMMA LimitsStay ==
  ASSUME TypeOK, Logs, NEW r \in Writers, NEW x, NEW n, Adds(r, x, n), NEW s \in SUBSET Authored
  PROVE  (Fork(s) <=> Fork(s)') /\ (TooMuch(s) <=> TooMuch(s)')
  <1>1. /\ {z \in s : op'[z].kind = "retain"} = OfKind("retain", s)
        /\ {z \in s : op'[z].kind = "organize"} = OfKind("organize", s)
    BY KindsStay
  <1>2. OfKind("retain", s)' = OfKind("retain", s) /\ OfKind("organize", s)' = OfKind("organize", s)
    BY <1>1 DEF OfKind
  <1>3. \A z \in OfKind("retain", s) \cup OfKind("organize", s) : op'[z] = op[z]
    BY OldStays DEF OfKind
  <1>4. Fork(s) <=> Fork(s)'
    BY <1>2, <1>3 DEF Fork
  <1>5. {<<z[1], op'[z].item>> : z \in OfKind("retain", s)} = {<<z[1], op[z].item>> : z \in OfKind("retain", s)}
    BY <1>3
  <1>6. TooMuch(s) <=> TooMuch(s)'
    BY <1>2, <1>5 DEF TooMuch
  <1> QED
    BY <1>4, <1>6

LEMMA NoForkStays ==
  ASSUME TypeOK, Logs, Causal, NothingOnAFork, NEW r \in Writers, NEW x, NEW n, Adds(r, x, n),
         Room(n, PastAt(r))
  PROVE  NothingOnAFork'
  <1>1. SUFFICES ASSUME NEW z \in Authored', op'[z].kind \in {"retain", "organize"}
                 PROVE  ~Fork({z} \cup op[z].past)' /\ ~TooMuch({z} \cup op[z].past)'
    BY DEF NothingOnAFork, OfKind
  <1>2. CASE z \in Authored
    <2>1. op'[z] = op[z] /\ {z} \cup op[z].past \in SUBSET Authored
      BY <1>2, OldStays DEF Causal
    <2>2. z \in OfKind("retain", Authored) \cup OfKind("organize", Authored)
      BY <1>1, <1>2, <2>1 DEF OfKind
    <2>3. ~Fork({z} \cup op[z].past) /\ ~TooMuch({z} \cup op[z].past)
      BY <2>2 DEF NothingOnAFork
    <2> QED
      BY <2>1, <2>3, LimitsStay
  <1>3. CASE z = x
    <2>1. PICK s \in SUBSET Authored : s = PastAt(r)
      BY PastIs
    <2>2. op'[z] = n /\ n.past = s /\ s \in SUBSET Id /\ z = x /\ x \in Id
      BY <1>3, <2>1, OldStays, PastType DEF Adds
    <2>3. Room(n, s) /\ n.kind \in {"retain", "organize"}
      BY <1>1, <2>1, <2>2
    <2>4. /\ Weighing({x} \cup s)' = Weighing(s) \cup {x}
          /\ KeysIn({x} \cup s)' = KeysIn(s) \cup (IF n.kind = "retain" THEN {<<r, n.item>>} ELSE {})
          /\ OfKind("organize", {x} \cup s)' = OfKind("organize", s) \cup (IF n.kind = "organize" THEN {x} ELSE {})
      <3>1. op'[x] = n /\ x[1] = r /\ \A y \in s : op'[y] = op[y]
        BY OldStays DEF Adds
      <3>2. /\ {y \in {x} \cup s : op'[y].kind = "retain"}
                 = OfKind("retain", s) \cup (IF n.kind = "retain" THEN {x} ELSE {})
            /\ {y \in {x} \cup s : op'[y].kind = "organize"}
                 = OfKind("organize", s) \cup (IF n.kind = "organize" THEN {x} ELSE {})
        BY <3>1 DEF OfKind
      <3>3. /\ OfKind("retain", {x} \cup s)' = OfKind("retain", s) \cup (IF n.kind = "retain" THEN {x} ELSE {})
            /\ OfKind("organize", {x} \cup s)' = OfKind("organize", s) \cup (IF n.kind = "organize" THEN {x} ELSE {})
        BY <3>2 DEF OfKind
      <3>4. Weighing({x} \cup s)' = Weighing(s) \cup {x}
        BY <2>3, <3>3 DEF Weighing
      <3>5. \A y \in OfKind("retain", s) : op'[y] = op[y]
        BY <3>1 DEF OfKind
      <3>6. KeysIn({x} \cup s)' = {<<y[1], op'[y].item>> : y \in OfKind("retain", {x} \cup s)'}
        BY DEF KeysIn
      <3>7. KeysIn({x} \cup s)' = KeysIn(s) \cup (IF n.kind = "retain" THEN {<<r, n.item>>} ELSE {})
        <4>1. CASE n.kind = "retain"
          <5>1. OfKind("retain", {x} \cup s)' = OfKind("retain", s) \cup {x}
            BY <3>3, <4>1
          <5> QED
            BY <3>1, <3>5, <3>6, <4>1, <5>1 DEF KeysIn
        <4>2. CASE n.kind # "retain"
          <5>1. OfKind("retain", {x} \cup s)' = OfKind("retain", s)
            BY <3>3, <4>2
          <5> QED
            BY <3>5, <3>6, <4>2, <5>1 DEF KeysIn
        <4> QED
          BY <4>1, <4>2
      <3> QED
        BY <3>3, <3>4, <3>7
    <2>5. MaxItems \in Nat /\ MaxHistory \in Nat
      BY RecordsAssumption
    <2>6. IsFiniteSet(Weighing(s)) /\ IsFiniteSet(KeysIn(s))
          /\ Cardinality(Weighing(s)) \in Nat /\ Cardinality(KeysIn(s)) \in Nat
      BY <2>2, SetsFinite
    <2>7. Cardinality(Weighing({x} \cup s)') <= MaxHistory
      <3> DEFINE more == Weighing({x} \cup s)'
      <3>1. more = Weighing(s) \cup {x}
        BY <2>4
      <3> HIDE DEF more
      <3>2. Cardinality(more) \in Nat /\ Cardinality(more) <= Cardinality(Weighing(s)) + 1
        BY <2>6, <3>1, OneMore
      <3>3. Cardinality(Weighing(s)) < MaxHistory
        BY <2>3 DEF Room
      <3>4. Cardinality(more) <= MaxHistory
        BY <2>5, <2>6, <3>2, <3>3
      <3> QED
        BY <3>4 DEF more
    <2>8. Cardinality(KeysIn({x} \cup s)') <= MaxItems
      <3>1. CASE n.kind = "retain"
        <4> DEFINE more == KeysIn({x} \cup s)'
        <4>1. Cardinality(KeysIn(s)) < MaxItems /\ more = KeysIn(s) \cup {<<r, n.item>>}
          BY <2>3, <2>4, <3>1 DEF Room
        <4> HIDE DEF more
        <4>2. Cardinality(more) \in Nat /\ Cardinality(more) <= Cardinality(KeysIn(s)) + 1
          BY <2>6, <4>1, OneMore
        <4>3. Cardinality(more) <= MaxItems
          BY <2>5, <2>6, <4>1, <4>2
        <4> QED
          BY <4>3 DEF more
      <3>2. CASE n.kind = "organize"
        <4>1. KeysIn({x} \cup s)' = KeysIn(s)
          BY <2>4, <3>2
        <4> QED
          BY <2>3, <3>2, <4>1 DEF Room
      <3> QED
        BY <2>3, <3>1, <3>2
    <2>9. ~TooMuch({x} \cup s)'
      <3>1. TooMuch({x} \cup s)' <=> (Cardinality(KeysIn({x} \cup s)') > MaxItems
                                      \/ Cardinality(Weighing({x} \cup s)') > MaxHistory)
        BY Zenon DEF TooMuch, KeysIn, Weighing
      <3>2. /\ IsFiniteSet(KeysIn({x} \cup s)') /\ IsFiniteSet(Weighing({x} \cup s)')
        <4>1. \A key : IsFiniteSet(KeysIn(s) \cup {key}) /\ IsFiniteSet(Weighing(s) \cup {key})
          BY <2>6, FS_AddElement
        <4>2. CASE n.kind = "retain"
          BY <2>4, <4>1, <4>2
        <4>3. CASE n.kind # "retain"
          <5>1. KeysIn({x} \cup s)' = KeysIn(s)
            BY <2>4, <4>3
          <5> QED
            BY <2>4, <2>6, <4>1, <5>1
        <4> QED
          BY <4>2, <4>3
      <3>3. Cardinality(KeysIn({x} \cup s)') \in Nat /\ Cardinality(Weighing({x} \cup s)') \in Nat
        BY <3>2, FS_CardinalityType
      <3> QED
        BY <2>5, <2>7, <2>8, <3>1, <3>3
    <2>10. ~Fork({x} \cup s)'
      <3>1. Fork({x} \cup s)' <=> \E y, w \in OfKind("organize", {x} \cup s)' : y # w /\ op'[y].ref = op'[w].ref
        BY Zenon DEF Fork
      <3>2. \A y \in OfKind("organize", s) : op'[y] = op[y] /\ y # x
        BY <2>2, OldStays DEF OfKind
      <3>3. \A y, w \in OfKind("organize", s) : op[y].ref = op[w].ref => y = w
        BY <2>3 DEF Room, Fork
      <3>4. n.kind = "organize" => \A y \in OfKind("organize", s) : op[y].ref # n.ref
        BY <2>3 DEF Room
      <3>5. ASSUME NEW y \in OfKind("organize", {x} \cup s)', NEW w \in OfKind("organize", {x} \cup s)',
                   op'[y].ref = op'[w].ref
            PROVE  y = w
        <4>1. (y = x /\ n.kind = "organize") \/ y \in OfKind("organize", s)
          BY <2>4
        <4>2. (w = x /\ n.kind = "organize") \/ w \in OfKind("organize", s)
          BY <2>4
        <4> QED
          BY <2>2, <3>2, <3>3, <3>4, <3>5, <4>1, <4>2
      <3> QED
        BY <3>1, <3>5
    <2> QED
      BY <2>1, <2>2, <2>9, <2>10
  <1> QED
    BY <1>2, <1>3, OldStays

-----------------------------------------------------------------------------
(* A step that signs an event ends the reading its author had made, if any.  *)

LEMMA NoReadingIs ==
  /\ NoReading \in Reading
  /\ NoReading.phase = "idle" /\ NoReading.what = "none" /\ NoReading.by = NoId
  /\ NoReading.todo = {} /\ NoReading.done = {} /\ NoReading.gate = FALSE
  /\ NoReading.first = NothingStored /\ NoReading.cut = NothingStored
  /\ NoReading.root = [x \in Id |-> NoId] /\ NoReading.verdict = [x \in Id |-> "none"]
  /\ NoReading.rev = [k \in Keys |-> NoId]
  <1>1. NothingStored \in [Writers -> 0..MaxSeq]
    BY RecordsAssumption DEF NothingStored
  <1> QED
    BY <1>1 DEF NoReading, Reading

LEMMA NothingRead ==
  ASSUME reading' = NoReading, op' \in [Id -> Event \cup {NoEvent}],
         have' \in [Writers -> [Writers -> 0..MaxSeq]]
  PROVE  TypeOK' /\ Outcome'
  <1>1. TypeOK'
    BY NoReadingIs DEF TypeOK
  <1>2. ReadingOf'
    BY NoReadingIs DEF ReadingOf
  <1>3. ChainsRead' /\ Judged'
    BY NoReadingIs DEF ChainsRead, Judged
  <1>4. (reading.what = "collection" => Walked /\ WithinLimits)'
    BY NoReadingIs
  <1>5. FailsForAReason'
    BY NoReadingIs DEF FailsForAReason
  <1> QED
    BY <1>1, <1>2, <1>3, <1>4, <1>5 DEF Outcome

LEMMA Authors ==
  ASSUME TypeOK, History, NEW r \in Writers, NEW e \in Event, Author(r, e), reading' = NoReading,
         e.root = IF e.kind = "define" THEN OwnChain(r, e.slug, e.ref) ELSE NoId,
         VouchedIn(r, e, PastAt(r)), Named(r, e, PastAt(r)), Room(e, PastAt(r)),
         e.kind = "retain" => \A y \in OfKind("retain", Authored) : KeyOf(y) # <<r, e.item>>
  PROVE  Inv'
  <1> USE DEF History
  <1>1. PICK x, n : /\ Adds(r, x, n)
                    /\ n.kind = e.kind /\ n.ref = e.ref /\ n.pred = e.pred /\ n.slug = e.slug
                    /\ n.retire = e.retire /\ n.owner = e.owner /\ n.item = e.item
                    /\ n.vouched = e.vouched /\ n.root = e.root
    BY AuthorAdds
  <1>2. VouchedIn(r, n, PastAt(r))
    BY <1>1 DEF VouchedIn, SignedIn, StandsIn
  <1>3. Named(r, n, PastAt(r))
    BY <1>1 DEF Named
  <1>4. Room(n, PastAt(r))
    BY <1>1 DEF Room
  <1>5. n.root = IF n.kind = "define" THEN OwnChain(r, n.slug, n.ref) ELSE NoId
    BY <1>1
  <1>6. n.kind = "retain" => \A y \in OfKind("retain", Authored) : KeyOf(y) # <<n.owner, n.item>>
    BY <1>1, <1>3 DEF Named
  <1>7. Logs' /\ have' \in [Writers -> [Writers -> 0..MaxSeq]]
    BY <1>1, LogsGrow
  <1>8. op' \in [Id -> Event \cup {NoEvent}]
    BY <1>1, OldStays
  <1>9. Causal'
    BY <1>1, CausalStays
  <1>10. Chains'
    BY <1>1, <1>5, ChainsStay
  <1>11. Vouched' /\ AllNamed'
    BY <1>1, <1>2, <1>3, VouchedStays, NamedStays
  <1>12. RetainedOnce'
    BY <1>1, <1>6, OnceStays
  <1>13. NothingOnAFork'
    BY <1>1, <1>4, NoForkStays
  <1> QED
    BY <1>7, <1>8, <1>9, <1>10, <1>11, <1>12, <1>13, NothingRead DEF Inv

-----------------------------------------------------------------------------
(* Each kind of event an author signs.                                      *)

LEMMA BlankIs ==
  /\ Blank \in Event /\ Blank.kind = "put" /\ Blank.ref = NoId /\ Blank.root = NoId
  /\ Blank.vouched = FALSE
  BY DEF Blank, Event, Kinds

LEMMA OwnChainType ==
  ASSUME TypeOK, Logs, NEW r \in Writers, have[r][r] < MaxSeq, NEW slug, NEW ref
  PROVE  OwnChain(r, slug, ref) \in Id \cup {NoId}
  <1>1. have[r][r] \in Nat /\ MaxSeq \in Nat
    BY HaveType
  <1>2. <<r, have[r][r] + 1>> \in Id
    BY <1>1 DEF Id
  <1>3. ASSUME NEW i \in 1..have[r][r] PROVE op[<<r, i>>].root \in Id \cup {NoId}
    <2>1. <<r, i>> \in Id /\ <<r, i>>[1] = r /\ <<r, i>>[2] = i
      BY <1>1 DEF Id
    <2>2. <<r, i>> \in Authored
      BY <2>1 DEF Logs, Authored
    <2> QED
      BY <2>2, AuthoredType DEF Event
  <1> QED
    BY <1>2, <1>3 DEF OwnChain

LEMMA Idle == ASSUME Outcome, reading.phase = "idle", UNCHANGED reading PROVE reading' = NoReading
  BY DEF Outcome, ReadingOf

LEMMA AuthorDocumentStep ==
  ASSUME Inv, NEW r \in Writers, AuthorDocument(r) PROVE Inv'
  <1>1. Author(r, Blank) /\ reading' = NoReading
    BY Idle DEF AuthorDocument, Inv
  <1>2. VouchedIn(r, Blank, PastAt(r)) /\ Named(r, Blank, PastAt(r)) /\ Room(Blank, PastAt(r))
    BY BlankIs DEF VouchedIn, Named, Room
  <1> QED
    BY <1>1, <1>2, BlankIs, Authors DEF Inv

LEMMA MintPredicateStep ==
  ASSUME Inv, NEW r \in Writers, NEW s \in Slugs, MintPredicate(r, s) PROVE Inv'
  <1> DEFINE e == [Blank EXCEPT !.kind = "define", !.slug = s, !.root = OwnChain(r, s, NoId)]
  <1>1. Author(r, e) /\ reading' = NoReading
    BY Idle DEF MintPredicate, Inv
  <1>2. OwnChain(r, s, NoId) \in Id \cup {NoId}
    BY <1>1, OwnChainType DEF Author, Inv, History
  <1>3. /\ e \in Event /\ e.kind = "define" /\ e.slug = s /\ e.ref = NoId /\ e.vouched = FALSE
        /\ e.root = OwnChain(r, s, NoId)
    BY <1>2 DEF Blank, Event, Kinds
  <1> HIDE DEF e
  <1>4. VouchedIn(r, e, PastAt(r)) /\ Named(r, e, PastAt(r)) /\ Room(e, PastAt(r))
    BY <1>3 DEF VouchedIn, Named, Room
  <1> QED
    BY <1>1, <1>3, <1>4, Authors DEF Inv

LEMMA UncheckedStep ==
  ASSUME Inv, NEW r \in Writers, NEW kind \in {"assert", "retract", "define"},
         NEW p \in Authored \cup {Core}, NEW x \in Authored, AuthorUnchecked(r, kind, p, x)
  PROVE  Inv'
  <1> DEFINE e == IF kind = "assert" THEN [Blank EXCEPT !.kind = "assert", !.pred = p, !.ref = x]
                  ELSE IF kind = "retract" THEN [Blank EXCEPT !.kind = "retract", !.ref = x]
                  ELSE [Blank EXCEPT !.kind = "define", !.ref = x, !.retire = TRUE,
                                     !.slug = op[x].slug, !.root = OwnChain(r, op[x].slug, x)]
  <1>1. Author(r, e) /\ reading' = NoReading /\ r \in Careless
    <2>1. reading' = NoReading /\ r \in Careless
      BY Idle DEF AuthorUnchecked, Inv
    <2>2. CASE kind = "assert"
      BY <2>1, <2>2 DEF AuthorUnchecked
    <2>3. CASE kind = "retract"
      BY <2>1, <2>3 DEF AuthorUnchecked
    <2>4. CASE kind = "define"
      BY <2>1, <2>4 DEF AuthorUnchecked
    <2> QED
      BY <2>2, <2>3, <2>4
  <1>2. OwnChain(r, op[x].slug, x) \in Id \cup {NoId}
    BY <1>1, OwnChainType DEF Author, Inv, History
  <1>3. x \in Id /\ op[x].slug \in Slugs \cup {NoId} /\ p \in Id \cup {NoId, Core}
    BY AuthoredType DEF Event, Inv, Authored
  <1>4. /\ e \in Event /\ e.kind = kind /\ e.vouched = FALSE /\ e.ref = x
        /\ e.root = IF e.kind = "define" THEN OwnChain(r, e.slug, e.ref) ELSE NoId
    <2>1. CASE kind = "assert"
      BY <1>3, <2>1 DEF Blank, Event, Kinds
    <2>2. CASE kind = "retract"
      BY <1>3, <2>2 DEF Blank, Event, Kinds
    <2>3. CASE kind = "define"
      BY <1>2, <1>3, <2>3 DEF Blank, Event, Kinds
    <2> QED
      BY <2>1, <2>2, <2>3
  <1> HIDE DEF e
  <1>5. VouchedIn(r, e, PastAt(r)) /\ Named(r, e, PastAt(r)) /\ Room(e, PastAt(r))
    BY <1>1, <1>4 DEF VouchedIn, Named, Room
  <1> QED
    BY <1>1, <1>4, <1>5, Authors DEF Inv

\* Who holds the gate has read what he has stored.
LEMMA CheckedIs ==
  ASSUME Inv, NEW r \in Writers, NEW what, Checked(r, what)
  PROVE  /\ r \notin Careless /\ reading.what = what /\ reading.phase = "fold"
         /\ reading.first = have[r] /\ reading.cut = have[r]
         /\ reading.done = Closed(have[r]) /\ reading.done \subseteq PastAt(r)
         /\ reading.done \subseteq Authored
         /\ Complete(reading.cut) => PastAt(r) = reading.done
  <1>1. reading.gate /\ reading.by = r /\ reading.what = what /\ reading.phase = "fold" /\ reading.todo = {}
    BY DEF Checked, Gated
  <1>2. r \notin Careless /\ reading.first = have[r] /\ reading.cut = have[r]
    BY <1>1 DEF Inv, Outcome, ReadingOf
  <1>3. reading.done = Closed(have[r])
    BY <1>1, <1>2 DEF Inv, TypeOK
  <1>4. Closed(have[r]) \subseteq PastAt(r) /\ PastAt(r) \subseteq Authored
    BY PastIs DEF Inv, History, Closed, Stored
  <1>5. Complete(reading.cut) => PastAt(r) = reading.done
    BY <1>2, <1>3, PastIs DEF Inv, History
  <1> QED
    BY <1>1, <1>2, <1>3, <1>4, <1>5

LEMMA DefinitionsAre ==
  ASSUME Inv, reading.what = "relations"
  PROVE  /\ \A d \in reading.done : d \in Id /\ d \in Authored /\ reading.root[d] = op[d].root
         /\ Definitions = {d \in reading.done : op[d].root # NoId}
         /\ \A d \in Definitions : op[d].kind = "define" /\ op[d].root # NoId /\ d \in reading.done
  <1>1. reading.done \subseteq Closed(reading.cut) /\ reading.phase # "idle"
    BY DEF Inv, Outcome, ReadingOf
  <1>2. \A w \in Writers : reading.cut[w] <= have[w][w] /\ reading.cut[w] \in Nat
    BY <1>1, RecordsAssumption DEF Inv, TypeOK, Reading, Outcome, ReadingOf
  <1>3. ASSUME NEW d \in reading.done PROVE d \in Id /\ d \in Authored
    <2>1. d \in Id /\ d[2] <= reading.cut[d[1]]
      BY <1>1 DEF Closed, Stored
    <2>2. d[1] \in Writers /\ d[2] \in Nat
      BY <2>1, IdIs
    <2>3. d[2] <= have[d[1]][d[1]]
      BY <1>2, <2>1, <2>2, HaveType DEF Inv
    <2> QED
      BY <2>1, <2>3 DEF Inv, History, Logs, Authored
  <1>4. \A d \in reading.done : reading.root[d] = op[d].root
    BY <1>3 DEF Inv, Outcome, ChainsRead
  <1>5. Definitions = {d \in reading.done : op[d].root # NoId}
    BY <1>4 DEF Definitions
  <1> QED
    BY <1>3, <1>4, <1>5 DEF Inv, History, Chains

LEMMA SupersedeStep ==
  ASSUME Inv, NEW r \in Writers, NEW d \in reading.done, NEW retire \in BOOLEAN,
         SupersedePredicate(r, d, retire)
  PROVE  Inv'
  <1> DEFINE b == [Blank EXCEPT !.kind = "define", !.ref = d, !.slug = op[d].slug,
                                !.retire = retire, !.root = OwnChain(r, op[d].slug, d)]
             e == [b EXCEPT !.vouched = Complete(reading.cut)]
  <1>1. /\ Author(r, e) /\ reading' = NoReading /\ Checked(r, "relations")
        /\ d \in Definitions /\ d[1] = r /\ d \in PastAt(r)
    BY DEF SupersedePredicate, Sign, Observes
  <1>2. OwnChain(r, op[d].slug, d) \in Id \cup {NoId}
    BY <1>1, OwnChainType DEF Author, Inv, History
  <1>3. d \in Id /\ d \in Authored /\ op[d].root # NoId
    BY <1>1, CheckedIs, DefinitionsAre
  <1>4. /\ e \in Event /\ e.kind = "define" /\ e.slug = op[d].slug /\ e.ref = d
        /\ e.root = OwnChain(r, op[d].slug, d)
    <2>1. op[d].slug \in Slugs \cup {NoId} /\ Complete(reading.cut) \in BOOLEAN
      BY <1>3, AuthoredType DEF Inv, Event, Complete
    <2> QED
      BY <1>2, <1>3, <2>1 DEF Blank, Event, Kinds
  <1> HIDE DEF b, e
  <1>5. e.root # NoId
    <2>1. d[2] \in 1..have[r][r] /\ d = <<r, d[2]>>
      BY <1>1, <1>3, IdIs, HaveType DEF Inv, History, Logs, Authored
    <2>2. d # NoId
      BY <1>3, NoIdIs
    <2> QED
      BY <1>3, <1>4, <2>1, <2>2 DEF OwnChain
  <1>6. VouchedIn(r, e, PastAt(r)) /\ Named(r, e, PastAt(r)) /\ Room(e, PastAt(r))
    BY <1>4, <1>5 DEF VouchedIn, SignedIn, Named, Room
  <1> QED
    BY <1>1, <1>4, <1>6, Authors DEF Inv

LEMMA AssertStep ==
  ASSUME Inv, NEW r \in Writers, NEW p \in reading.done \cup {Core}, NEW h \in reading.done,
         AssertRelation(r, p, h)
  PROVE  Inv'
  <1> DEFINE b == [Blank EXCEPT !.kind = "assert", !.pred = p, !.ref = h]
             e == [b EXCEPT !.vouched = Complete(reading.cut)]
  <1>1. Author(r, e) /\ reading' = NoReading /\ Checked(r, "relations")
    BY DEF AssertRelation, Sign
  <1>2. /\ reading.what = "relations" /\ reading.done \subseteq Authored
        /\ Complete(reading.cut) => PastAt(r) = reading.done
    BY <1>1, CheckedIs
  <1>3. \A d \in reading.done : d \in Id /\ reading.root[d] = op[d].root
    BY <1>2, DefinitionsAre
  <1>4. /\ e \in Event /\ e.kind = "assert" /\ e.pred = p /\ e.ref = h /\ e.root = NoId
        /\ e.vouched <=> Complete(reading.cut)
    <2>1. h \in Id /\ p \in Id \cup {NoId, Core} /\ Complete(reading.cut) \in BOOLEAN
      BY <1>3 DEF Complete
    <2> QED
      BY <2>1 DEF Blank, Event, Kinds
  <1> HIDE DEF b, e
  <1>5. h \in OfKind("put", PastAt(r))
    BY DEF AssertRelation, Observes, OfKind
  <1>6. ASSUME Complete(reading.cut) PROVE StandsIn(e, PastAt(r))
    <2>1. CASE p = Core
      BY <1>4, <1>5, <2>1 DEF StandsIn
    <2>2. CASE p # Core
      <3>1. /\ p \in Definitions
            /\ \A d \in Definitions : reading.root[d] = reading.root[p] /\ op[d].retire => d \notin PastAt(r)
        BY <2>2 DEF AssertRelation, Observes
      <3>2. p \in reading.done /\ op[p].kind = "define" /\ op[p].root # NoId
        BY <1>2, <3>1, DefinitionsAre
      <3>3. p \in OfKind("define", PastAt(r))
        BY <1>2, <1>6, <3>2 DEF OfKind
      <3>4. ASSUME NEW d \in OfKind("define", PastAt(r)), op[d].root = op[p].root PROVE ~op[d].retire
        <4>1. d \in reading.done /\ d \in PastAt(r)
          BY <1>2, <1>6 DEF OfKind
        <4>2. d \in Definitions /\ reading.root[d] = reading.root[p]
          BY <1>2, <1>3, <3>2, <3>4, <4>1, DefinitionsAre
        <4> QED
          BY <3>1, <4>1, <4>2
      <3> QED
        BY <1>4, <1>5, <3>2, <3>3, <3>4 DEF StandsIn
    <2> QED
      BY <2>1, <2>2
  <1>7. VouchedIn(r, e, PastAt(r))
    BY <1>4, <1>5, <1>6 DEF VouchedIn, SignedIn
  <1>8. Named(r, e, PastAt(r)) /\ Room(e, PastAt(r))
    BY <1>4 DEF Named, Room
  <1> QED
    BY <1>1, <1>4, <1>7, <1>8, Authors DEF Inv

LEMMA RetractStep ==
  ASSUME Inv, NEW r \in Writers, NEW a \in reading.done, RetractRelation(r, a)
  PROVE  Inv'
  <1> DEFINE b == [Blank EXCEPT !.kind = "retract", !.ref = a]
             e == [b EXCEPT !.vouched = Complete(reading.cut)]
  <1>1. /\ Author(r, e) /\ reading' = NoReading /\ Checked(r, "relations")
        /\ op[a].kind = "assert" /\ reading.verdict[a] \in {"valid", "unverified"}
        /\ a[1] = r /\ a \in PastAt(r)
    BY DEF RetractRelation, Sign, Observes, OfKind
  <1>2. reading.what = "relations" /\ a \in Authored /\ a \in Id /\ r \notin Careless
    BY <1>1, CheckedIs, DefinitionsAre
  <1>3. /\ e \in Event /\ e.kind = "retract" /\ e.ref = a /\ e.root = NoId
    <2>1. Complete(reading.cut) \in BOOLEAN
      BY DEF Complete
    <2> QED
      BY <1>2, <2>1 DEF Blank, Event, Kinds
  <1> HIDE DEF b, e
  <1>4. StandsIn(op[a], op[a].past)
    <2>1. Judgement(a, reading.verdict[a])
      BY <1>2 DEF Inv, Outcome, Judged
    <2>2. op[a].ref \in OfKind("put", op[a].past)
      BY <1>1, <1>2 DEF Inv, History, Vouched, VouchedIn
    <2>3. reading.verdict[a] = "valid"
      BY <1>1, <2>1, <2>2 DEF Judgement
    <2> QED
      BY <1>1, <2>1, <2>3 DEF Judgement
  <1>5. VouchedIn(r, e, PastAt(r))
    BY <1>1, <1>3, <1>4 DEF VouchedIn, SignedIn
  <1>6. Named(r, e, PastAt(r)) /\ Room(e, PastAt(r))
    BY <1>3 DEF Named, Room
  <1> QED
    BY <1>1, <1>3, <1>5, <1>6, Authors DEF Inv

LEMMA KeyIs ==
  ASSUME Inv, NEW x \in Authored
  PROVE  /\ op[x].kind = "retain" => KeyOf(x) \in Keys /\ KeyOf(x) = <<x[1], op[x].item>>
         /\ op[x].kind = "organize" =>
              /\ KeyOf(x) \in Keys /\ op[x].ref \in Weighing(op[x].past) /\ KeyOf(op[x].ref) = KeyOf(x)
              /\ \E y \in OfKind("retain", op[x].past) : KeyOf(y) = KeyOf(x)
  <1>1. Named(x[1], op[x], op[x].past) /\ x[1] \in Writers
    BY AuthoredType, IdIs DEF Inv, History, AllNamed
  <1> QED
    BY <1>1 DEF Named, KeyOf, Keys

\* What a load of the logs finds retained.
LEMMA RetainedInIs ==
  ASSUME Inv, NEW cut
  PROVE  /\ \A k \in Keys :
              LET found == {x \in OfKind("retain", Closed(cut)) : KeyOf(x) = k}
              IN  IF found = {} THEN RetainedIn(cut)[k] = NoId ELSE RetainedIn(cut)[k] \in found
         /\ KeysIn(Closed(cut)) = {k \in Keys : RetainedIn(cut)[k] # NoId}
         /\ RetainedIn(cut) \in [Keys -> Id \cup {NoId}]
  <1>1. Closed(cut) \subseteq Id
    BY DEF Closed, Stored
  <1>2. \A x \in OfKind("retain", Closed(cut)) :
          x \in Id /\ KeyOf(x) \in Keys /\ KeyOf(x) = <<x[1], op[x].item>>
    BY <1>1, OfKindType, KeyIs DEF Inv, Kinds
  <1>3. ASSUME NEW k \in Keys
        PROVE  {x \in OfKind("retain", Closed(cut)) : x[1] = k[1] /\ op[x].item = k[2]}
                 = {x \in OfKind("retain", Closed(cut)) : KeyOf(x) = k}
    <2>1. k = <<k[1], k[2]>>
      BY DEF Keys
    <2> QED
      BY <1>2, <2>1
  <1>4. ASSUME NEW k \in Keys
        PROVE  LET found == {x \in OfKind("retain", Closed(cut)) : KeyOf(x) = k}
               IN  IF found = {} THEN RetainedIn(cut)[k] = NoId ELSE RetainedIn(cut)[k] \in found
    <2> DEFINE found == {x \in OfKind("retain", Closed(cut)) : KeyOf(x) = k}
    <2> DEFINE raw == {x \in OfKind("retain", Closed(cut)) : x[1] = k[1] /\ op[x].item = k[2]}
    <2>3. RetainedIn(cut)[k] = IF raw = {} THEN NoId ELSE CHOOSE x \in raw : TRUE
      BY DEF RetainedIn
    <2>4. raw = found
      BY <1>3
    <2> HIDE DEF found, raw
    <2>1. RetainedIn(cut)[k] = IF found = {} THEN NoId ELSE CHOOSE x \in found : TRUE
      BY <2>3, <2>4
    <2>2. IF found = {} THEN RetainedIn(cut)[k] = NoId ELSE RetainedIn(cut)[k] \in found
      BY <2>1
    <2> QED
      BY <2>2 DEF found
  <1>5. \A k \in Keys : RetainedIn(cut)[k] # NoId <=> \E x \in OfKind("retain", Closed(cut)) : KeyOf(x) = k
    BY <1>2, <1>4, NoIdIs
  <1>6. KeysIn(Closed(cut)) = {k \in Keys : RetainedIn(cut)[k] # NoId}
    <2>1. KeysIn(Closed(cut)) = {KeyOf(x) : x \in OfKind("retain", Closed(cut))}
      BY <1>2 DEF KeysIn
    <2> QED
      BY <1>2, <1>5, <2>1
  <1>7. RetainedIn(cut) \in [Keys -> Id \cup {NoId}]
    <2>1. \A k \in Keys : RetainedIn(cut)[k] \in Id \cup {NoId}
      BY <1>2, <1>4
    <2> QED
      BY <2>1 DEF RetainedIn
  <1> QED
    BY <1>4, <1>6, <1>7

\* The collection as its reader knows it when it has walked over everything.
LEMMA CollectionIs ==
  ASSUME Inv, NEW r \in Writers, Checked(r, "collection")
  PROVE  /\ PastAt(r) = reading.done /\ reading.done = Closed(reading.cut)
         /\ Walked /\ reading.first = reading.cut
         /\ Cardinality(KeysIn(reading.done)) <= MaxItems
         /\ \A k \in Keys :
              /\ reading.rev[k] # NoId <=> \E y \in OfKind("retain", reading.done) : KeyOf(y) = k
              /\ reading.rev[k] # NoId =>
                   /\ reading.rev[k] \in Weighing(reading.done) /\ KeyOf(reading.rev[k]) = k
                   /\ reading.rev[k] \in Authored
         /\ KeysIn(reading.done) = {k \in Keys : reading.rev[k] # NoId}
  <1>1. /\ reading.what = "collection" /\ reading.phase = "fold" /\ reading.first = reading.cut
        /\ reading.cut = have[r] /\ reading.done = Closed(reading.cut) /\ reading.done \subseteq Authored
    BY CheckedIs
  <1>2. Walked /\ ItemsReadable(reading.first) /\ Complete(reading.cut)
    BY <1>1 DEF Inv, Outcome, WithinLimits
  <1>3. PastAt(r) = reading.done
    BY <1>2, CheckedIs
  <1>4. Cardinality(KeysIn(reading.done)) <= MaxItems
    BY <1>1, <1>2, RetainedInIs DEF ItemsReadable
  <1>5. \A k \in Keys : Met(k) = {x \in Weighing(reading.done) : KeyOf(x) = k}
    BY <1>1 DEF Met, Weighing
  <1>6. \A x \in Weighing(reading.done) : x \in Authored /\ x \in reading.done /\ x \in Id
    BY <1>1, AuthoredType DEF Weighing, OfKind, Authored
  <1>7. ASSUME NEW k \in Keys
        PROVE  /\ reading.rev[k] # NoId <=> \E y \in OfKind("retain", reading.done) : KeyOf(y) = k
               /\ reading.rev[k] # NoId =>
                    /\ reading.rev[k] \in Weighing(reading.done) /\ KeyOf(reading.rev[k]) = k
                    /\ reading.rev[k] \in Authored
    <2>1. IF Met(k) = {} THEN reading.rev[k] = NoId ELSE reading.rev[k] \in Met(k)
      BY <1>2 DEF Walked
    <2>2. reading.rev[k] # NoId => /\ reading.rev[k] \in Weighing(reading.done)
                                   /\ KeyOf(reading.rev[k]) = k /\ reading.rev[k] \in Authored
      BY <1>5, <1>6, <2>1
    <2>3. ASSUME NEW x \in Weighing(reading.done), KeyOf(x) = k
          PROVE  \E y \in OfKind("retain", reading.done) : KeyOf(y) = k
      <3>1. CASE op[x].kind = "retain"
        BY <1>6, <2>3, <3>1 DEF OfKind
      <3>2. CASE op[x].kind = "organize"
        <4>1. PICK y \in OfKind("retain", op[x].past) : KeyOf(y) = k
          BY <1>6, <2>3, <3>2, KeyIs
        <4>2. op[x].past \subseteq reading.done
          BY <1>6 DEF Inv, Outcome, ReadingOf
        <4> QED
          BY <4>1, <4>2 DEF OfKind
      <3> QED
        BY <3>1, <3>2 DEF Weighing, OfKind
    <2>4. (\E y \in OfKind("retain", reading.done) : KeyOf(y) = k) => reading.rev[k] # NoId
      BY <1>5, <1>6, <2>1, NoIdIs DEF Weighing
    <2> QED
      BY <2>2, <2>3, <2>4
  <1>8. KeysIn(reading.done) = {k \in Keys : reading.rev[k] # NoId}
    <2>1. \A x \in OfKind("retain", reading.done) : KeyOf(x) = <<x[1], op[x].item>> /\ KeyOf(x) \in Keys
      BY <1>6, KeyIs DEF Weighing, OfKind
    <2>2. KeysIn(reading.done) = {KeyOf(x) : x \in OfKind("retain", reading.done)}
      BY <2>1 DEF KeysIn
    <2> QED
      BY <1>7, <2>1, <2>2
  <1> QED
    BY <1>1, <1>2, <1>3, <1>4, <1>7, <1>8

LEMMA RetainStep ==
  ASSUME Inv, NEW r \in Writers, NEW i \in Items, NEW b \in Bodies, RetainComposition(r, i, b)
  PROVE  Inv'
  <1> DEFINE c == [Blank EXCEPT !.kind = "retain", !.owner = r, !.item = i, !.body = b]
             e == [c EXCEPT !.vouched = Complete(reading.cut)]
  <1>1. /\ Author(r, e) /\ reading' = NoReading /\ Checked(r, "collection")
        /\ reading.rev[<<r, i>>] = NoId /\ Weight < MaxHistory
        /\ Cardinality({k \in Keys : reading.rev[k] # NoId}) < MaxItems
    BY DEF RetainComposition, Sign
  <1>2. /\ e \in Event /\ e.kind = "retain" /\ e.owner = r /\ e.item = i /\ e.root = NoId
    <2>1. Complete(reading.cut) \in BOOLEAN
      BY DEF Complete
    <2> QED
      BY <2>1 DEF Blank, Event, Kinds
  <1> HIDE DEF c, e
  <1>3. /\ PastAt(r) = reading.done /\ Walked
        /\ Cardinality(Weighing(PastAt(r))) < MaxHistory
        /\ Cardinality(KeysIn(PastAt(r))) < MaxItems
    BY <1>1, CollectionIs DEF Weight, Weighing
  <1>4. Room(e, PastAt(r))
    BY <1>2, <1>3 DEF Room, Walked
  <1>5. ASSUME NEW y \in OfKind("retain", Authored) PROVE KeyOf(y) # <<r, e.item>>
    <2>1. y \in Authored /\ y \in Id /\ op[y].kind = "retain" /\ y[2] \in Nat
      BY AuthoredType, IdIs DEF OfKind, Authored
    <2>2. KeyOf(y) = <<y[1], op[y].item>>
      BY <2>1, KeyIs
    <2>3. y[1] = r => y \in OfKind("retain", reading.done)
      BY <1>3, <2>1, PastIs DEF OfKind, Inv, History, Logs, Authored
    <2>4. <<r, i>> \in Keys
      BY DEF Keys
    <2>5. \A z \in OfKind("retain", reading.done) : KeyOf(z) # <<r, i>>
      BY <1>1, <2>4, CollectionIs
    <2> QED
      BY <1>2, <2>2, <2>3, <2>5
  <1>6. VouchedIn(r, e, PastAt(r)) /\ Named(r, e, PastAt(r))
    BY <1>2 DEF VouchedIn, SignedIn, Named
  <1> QED
    BY <1>1, <1>2, <1>4, <1>5, <1>6, Authors DEF Inv

\* Nothing walked over organizes the current revision.
LEMMA CurrentIsLast ==
  ASSUME Inv, Walked, NEW k \in Keys, reading.rev[k] \in Authored,
         NEW y \in OfKind("organize", reading.done), y \in Authored, op[y].ref = reading.rev[k],
         KeyOf(reading.rev[k]) = k
  PROVE  FALSE
  <1>1. op[y].ref \in op[y].past /\ KeyOf(y) = k /\ op[y].kind = "organize"
    BY KeyIs DEF Weighing, OfKind
  <1>2. y \in Id /\ y[2] \in Nat /\ y \notin op[y].past
    BY AuthoredType, IdIs DEF Inv, History, Causal
  <1>3. reading.rev[k] = y \/ y \in op[reading.rev[k]].past
    BY <1>1 DEF Walked, HappensBefore
  <1>4. op[reading.rev[k]].past \subseteq op[y].past
    BY <1>1 DEF Inv, History, Causal
  <1> QED
    BY <1>1, <1>2, <1>3, <1>4

LEMMA OrganizeStep ==
  ASSUME Inv, NEW r \in Writers, NEW k \in Keys, NEW b \in Bodies, OrganizeComposition(r, k, b)
  PROVE  Inv'
  <1> DEFINE c == [Blank EXCEPT !.kind = "organize", !.owner = k[1], !.item = k[2], !.body = b,
                                !.ref = reading.rev[k]]
             e == [c EXCEPT !.vouched = Complete(reading.cut)]
  <1>1. /\ Author(r, e) /\ reading' = NoReading /\ Checked(r, "collection")
        /\ reading.rev[k] # NoId /\ Weight < MaxHistory
    BY DEF OrganizeComposition, Sign
  <1>2. k[1] \in Writers /\ k[2] \in Items /\ k = <<k[1], k[2]>>
    BY DEF Keys
  <1>3. /\ PastAt(r) = reading.done /\ Walked
        /\ Cardinality(Weighing(PastAt(r))) < MaxHistory
        /\ Cardinality(KeysIn(PastAt(r))) <= MaxItems
        /\ reading.rev[k] \in Weighing(reading.done) /\ KeyOf(reading.rev[k]) = k
        /\ reading.rev[k] \in Authored
        /\ \E y \in OfKind("retain", reading.done) : KeyOf(y) = k
    BY <1>1, CollectionIs DEF Weight, Weighing
  <1>4. /\ e \in Event /\ e.kind = "organize" /\ e.owner = k[1] /\ e.item = k[2] /\ e.root = NoId
        /\ e.ref = reading.rev[k]
    <2>1. Complete(reading.cut) \in BOOLEAN
      BY DEF Complete
    <2>2. reading.rev[k] \in Id
      BY <1>3, AuthoredType DEF Inv
    <2> QED
      BY <1>2, <2>1, <2>2 DEF Blank, Event, Kinds
  <1> HIDE DEF c, e
  <1>5. ASSUME NEW y \in OfKind("organize", PastAt(r)) PROVE op[y].ref # e.ref
    <2>1. y \in Authored
      BY PastIs DEF Inv, History, OfKind
    <2> QED
      BY <1>3, <1>4, <2>1, CurrentIsLast
  <1>6. Room(e, PastAt(r))
    BY <1>3, <1>4, <1>5 DEF Room, Walked
  <1>7. VouchedIn(r, e, PastAt(r)) /\ Named(r, e, PastAt(r))
    BY <1>2, <1>3, <1>4 DEF VouchedIn, SignedIn, Named
  <1> QED
    BY <1>1, <1>4, <1>6, <1>7, Authors DEF Inv

LEMMA AuthorSteps == ASSUME Inv, NEW r \in Writers, AuthorStep(r) PROVE Inv'
  BY AuthorDocumentStep, MintPredicateStep, SupersedeStep, AssertStep, RetractStep, UncheckedStep,
     RetainStep, OrganizeStep DEF AuthorStep

-----------------------------------------------------------------------------
(* Steps that sign nothing.                                                 *)

LEMMA HistoryStays == ASSUME History, UNCHANGED op, Logs' PROVE History'
  <1>1. Authored' = Authored /\ (\A k, s : OfKind(k, s)' = OfKind(k, s))
    BY DEF Authored, OfKind
  <1>2. Causal' /\ Chains' /\ RetainedOnce'
    BY <1>1 DEF History, Causal, Chains, RetainedOnce, LogChain, Earlier, OfKind, KeyOf
  <1>3. Vouched' = Vouched
    BY <1>1 DEF Vouched, VouchedIn, SignedIn, StandsIn, OfKind
  <1>4. AllNamed' = AllNamed
    BY <1>1 DEF AllNamed, Named, Weighing, OfKind, KeyOf
  <1>5. NothingOnAFork' = NothingOnAFork
    BY <1>1 DEF NothingOnAFork, Fork, TooMuch, OfKind
  <1> QED
    BY <1>2, <1>3, <1>4, <1>5 DEF History

LEMMA SameHistory == ASSUME History, UNCHANGED <<op, have>> PROVE History'
  <1>1. Logs'
    BY DEF History, Logs
  <1> QED
    BY <1>1, HistoryStays

LEMMA CutsAre ==
  ASSUME Inv
  PROVE  /\ Closed(reading.first) \subseteq Authored /\ Closed(reading.cut) \subseteq Authored
         /\ reading.done \subseteq Authored /\ reading.done \subseteq Closed(reading.cut)
         /\ Authored \subseteq Id
  <1>1. \A w \in Writers : /\ reading.first[w] \in Nat /\ reading.cut[w] \in Nat
                           /\ reading.first[w] <= have[w][w] /\ reading.cut[w] <= have[w][w]
    <2>1. \A w \in Writers : reading.first[w] \in Nat /\ reading.cut[w] \in Nat
      BY RecordsAssumption DEF Inv, TypeOK, Reading
    <2>2. CASE reading.phase = "idle"
      <3>1. reading.first = NothingStored /\ reading.cut = NothingStored
        BY <2>2, NoReadingIs DEF Inv, Outcome, ReadingOf
      <3> QED
        BY <2>1, <3>1, HaveType DEF NothingStored, Inv
    <2>3. CASE reading.phase # "idle"
      BY <2>1, <2>3 DEF Inv, Outcome, ReadingOf
    <2> QED
      BY <2>2, <2>3
  <1>2. ASSUME NEW y \in Id, y[2] <= reading.first[y[1]] \/ y[2] <= reading.cut[y[1]]
        PROVE  y \in Authored
    <2>1. y[1] \in Writers /\ y[2] \in Nat
      BY IdIs
    <2>2. y[2] <= have[y[1]][y[1]]
      BY <1>1, <1>2, <2>1, HaveType DEF Inv
    <2> QED
      BY <2>2 DEF Inv, History, Logs, Authored
  <1>3. Closed(reading.first) \subseteq Authored /\ Closed(reading.cut) \subseteq Authored
    BY <1>2 DEF Closed, Stored
  <1> QED
    BY <1>3 DEF Inv, Outcome, ReadingOf, Authored

LEMMA AcceptStep == ASSUME Inv, NEW r \in Writers, NEW w \in Writers, Accept(r, w) PROVE Inv'
  <1>1. PICK s \in Writers : have[s][w] > have[r][w]
    BY DEF Accept
  <1>2. /\ have' = [have EXCEPT ![r][w] = @ + 1] /\ UNCHANGED <<op, reading>>
        /\ reading.gate => reading.by # r
    BY DEF Accept, Gated, Inv, TypeOK, Reading
  <1>3. \A t, v \in Writers : have[t][v] \in Nat /\ have[t][v] <= MaxSeq /\ MaxSeq \in Nat
    BY HaveType DEF Inv
  <1>4. have[s][w] <= have[w][w] /\ r # w
    BY <1>1, <1>3 DEF Inv, History, Logs
  <1>5. have' \in [Writers -> [Writers -> 0..MaxSeq]]
    BY <1>1, <1>2, <1>3 DEF Inv, TypeOK
  <1>6. \A t, v \in Writers : have'[t][v] = IF t = r /\ v = w THEN have[r][w] + 1 ELSE have[t][v]
    BY <1>2, <1>3 DEF Inv, TypeOK
  <1>7. \A v \in Writers : have'[v][v] = have[v][v]
    BY <1>4, <1>6
  <1>8. Logs'
    <2>1. \A x \in Id : op'[x] # NoEvent <=> x[2] <= have'[x[1]][x[1]]
      BY <1>2, <1>7, IdIs DEF Inv, History, Logs
    <2>2. \A t, v \in Writers : have'[t][v] <= have'[v][v]
      BY <1>1, <1>3, <1>4, <1>6, <1>7 DEF Inv, History, Logs
    <2> QED
      BY <2>1, <2>2 DEF Logs
  <1>9. History'
    BY <1>2, <1>8, HistoryStays DEF Inv
  <1>10. TypeOK'
    BY <1>2, <1>5 DEF Inv, TypeOK, Closed, Stored
  <1>11. ReadingOf'
    <2>1. reading.gate => have'[reading.by] = have[reading.by]
      BY <1>2, <1>5 DEF Inv, TypeOK
    <2>2. Closed(reading.cut)' = Closed(reading.cut)
      BY <1>2 DEF Closed, Stored
    <2> QED
      BY <1>2, <1>7, <2>1, <2>2 DEF Inv, Outcome, ReadingOf
  <1>12. ChainsRead' = ChainsRead /\ Judged' = Judged
    BY <1>2 DEF ChainsRead, Judged, Judgement, StandsIn, OfKind
  <1>13. Walked' = Walked
    BY <1>2 DEF Walked, Met, Closed, Stored, OfKind, KeyOf, HappensBefore, Fork
  <1>14. WithinLimits' = WithinLimits
    BY <1>2 DEF WithinLimits, ItemsReadable, RetainedIn, Complete, Weighing, Closed, Stored, OfKind
  <1>15. FailsForAReason' = FailsForAReason
    BY <1>2 DEF FailsForAReason, Fork, TooMuch, Complete, Closed, Stored, OfKind
  <1> QED
    BY <1>2, <1>9, <1>10, <1>11, <1>12, <1>13, <1>14, <1>15 DEF Inv, Outcome

LEMMA EndStep == ASSUME Inv, EndReading PROVE Inv'
  BY SameHistory, NothingRead DEF EndReading, Inv, TypeOK

LEMMA BeginRelationsStep ==
  ASSUME Inv, NEW r \in Writers \ Careless, BeginRelations(r) PROVE Inv'
  <1>1. /\ UNCHANGED <<op, have>>
        /\ reading' \in Reading /\ reading'.by = r /\ reading'.what = "relations"
        /\ reading'.phase = "fold" /\ reading'.first = have[r] /\ reading'.cut = have[r]
        /\ reading'.todo = Closed(have[r]) /\ reading'.done = {}
        /\ reading'.root = [x \in Id |-> NoId]
    <2>1. have[r] \in [Writers -> 0..MaxSeq] /\ Closed(have[r]) \subseteq Id
      BY DEF Inv, TypeOK, Closed, Stored
    <2>2. NothingStored \in [Writers -> 0..MaxSeq]
      BY RecordsAssumption DEF NothingStored
    <2> QED
      BY <2>1, <2>2 DEF BeginRelations, NoReading, Reading
  <1>2. History'
    BY <1>1, SameHistory DEF Inv
  <1>3. Closed(have[r])' = Closed(have[r])
    BY <1>1 DEF Closed, Stored
  <1>4. TypeOK'
    BY <1>1, <1>3 DEF Inv, TypeOK, Closed, Stored
  <1>5. ReadingOf'
    BY <1>1, HaveType DEF ReadingOf, Inv, History, Logs
  <1>6. ChainsRead' /\ Judged'
    BY <1>1 DEF ChainsRead, Judged
  <1>7. reading'.what # "collection" /\ FailsForAReason'
    BY <1>1 DEF FailsForAReason
  <1> QED
    BY <1>2, <1>4, <1>5, <1>6, <1>7 DEF Inv, Outcome

\* A load finds its items unreadable for a reason.
LEMMA Unreadable ==
  ASSUME Inv, NEW cut, ~ItemsReadable(cut) PROVE ~Complete(cut) \/ TooMuch(Closed(cut))
  <1> DEFINE s == Closed(cut)
             retains == OfKind("retain", s)
  <1>1. s \in SUBSET Id
    BY DEF Closed, Stored
  <1>2. \A x, y \in retains :
          x[1] = y[1] /\ op[x].item = op[y].item => op[x].body = op[y].body
    <2>1. \A x \in retains : x \in OfKind("retain", Authored) /\ KeyOf(x) = <<x[1], op[x].item>>
      <3>1. \A x \in retains : x \in Authored /\ op[x].kind = "retain"
        BY <1>1, OfKindType DEF Inv, Kinds
      <3> QED
        BY <3>1, KeyIs DEF OfKind
    <2>2. \A x, y \in retains : x[1] = y[1] /\ op[x].item = op[y].item => x = y
      BY <2>1 DEF Inv, History, RetainedOnce
    <2> QED
      BY <2>2
  <1>3. ItemsReadable(cut) <=> /\ Complete(cut)
                               /\ Cardinality(KeysIn(s)) <= MaxItems
                               /\ Cardinality(retains) <= MaxHistory
    BY <1>2, RetainedInIs DEF ItemsReadable
  <1>4. /\ Cardinality(retains) <= Cardinality(Weighing(s))
        /\ Cardinality(retains) \in Nat /\ Cardinality(Weighing(s)) \in Nat
    <2>1. IsFiniteSet(Weighing(s)) /\ Cardinality(Weighing(s)) \in Nat
      BY <1>1, SetsFinite
    <2>2. retains \in SUBSET Weighing(s)
      BY DEF Weighing
    <2> QED
      BY <2>1, <2>2, FS_Subset, FS_CardinalityType
  <1>5. TooMuch(s) <=> ~(Cardinality(KeysIn(s)) <= MaxItems /\ Cardinality(Weighing(s)) <= MaxHistory)
    BY <1>1, TooMuchIs
  <1> HIDE DEF s, retains
  <1>6. ~Complete(cut) \/ TooMuch(s)
    BY <1>3, <1>4, <1>5, RecordsAssumption
  <1> QED
    BY <1>6 DEF s

LEMMA SameOp ==
  ASSUME UNCHANGED op, NEW cut, NEW s, NEW x
  PROVE  /\ Closed(cut)' = Closed(cut) /\ (Complete(cut)' <=> Complete(cut))
         /\ RetainedIn(cut)' = RetainedIn(cut) /\ (ItemsReadable(cut)' <=> ItemsReadable(cut))
         /\ OfKind("retain", s)' = OfKind("retain", s) /\ OfKind("organize", s)' = OfKind("organize", s)
         /\ Weighing(s)' = Weighing(s) /\ KeyOf(x)' = KeyOf(x)
         /\ (Fork(s)' <=> Fork(s)) /\ (TooMuch(s)' <=> TooMuch(s))
  <1>1. \A k, t : {z \in t : op'[z].kind = k} = OfKind(k, t)
    BY DEF OfKind
  <1>2. Closed(cut)' = Closed(cut) /\ (Complete(cut)' <=> Complete(cut))
    BY DEF Closed, Stored, Complete
  <1>3. OfKind("retain", s)' = OfKind("retain", s) /\ OfKind("organize", s)' = OfKind("organize", s)
    BY DEF OfKind
  <1>4. Weighing(s)' = Weighing(s) /\ KeyOf(x)' = KeyOf(x)
    BY <1>3 DEF Weighing, KeyOf
  <1>5. (Fork(s)' <=> Fork(s)) /\ (TooMuch(s)' <=> TooMuch(s))
    BY <1>3 DEF Fork, TooMuch
  <1>6. RetainedIn(cut)' = RetainedIn(cut)
    BY DEF RetainedIn, OfKind, Closed, Stored
  <1>7. ItemsReadable(cut)' <=> ItemsReadable(cut)
    BY DEF ItemsReadable, RetainedIn, OfKind, Complete, Closed, Stored
  <1> QED
    BY <1>2, <1>3, <1>4, <1>5, <1>6, <1>7

LEMMA BeginCollectionStep ==
  ASSUME Inv, NEW r \in Writers \ Careless, NEW gate \in BOOLEAN, BeginCollection(r, gate) PROVE Inv'
  <1>1. PICK cut \in [Writers -> 0..MaxSeq] : cut = have[r]
    BY DEF Inv, TypeOK
  <1>2. /\ UNCHANGED <<op, have>>
        /\ reading' \in Reading /\ reading'.by = r /\ reading'.what = "collection"
        /\ reading'.gate = gate
        /\ reading'.phase = (IF ItemsReadable(cut) THEN "list" ELSE "failed")
        /\ reading'.first = cut /\ reading'.cut = cut
        /\ reading'.todo = {} /\ reading'.done = {} /\ reading'.rev = RetainedIn(cut)
        /\ reading'.root = [x \in Id |-> NoId]
    <2>1. NothingStored \in [Writers -> 0..MaxSeq]
      BY RecordsAssumption DEF NothingStored
    <2>2. RetainedIn(cut) \in [Keys -> Id \cup {NoId}]
      BY RetainedInIs
    <2> QED
      BY <1>1, <2>1, <2>2 DEF BeginCollection, NoReading, Reading
  <1>3. History'
    BY <1>2, SameHistory DEF Inv
  <1>4. TypeOK'
    BY <1>2 DEF Inv, TypeOK
  <1>5. ReadingOf'
    BY <1>1, <1>2, HaveType DEF ReadingOf, Inv, History, Logs
  <1>6. ChainsRead' /\ Judged'
    BY <1>2 DEF ChainsRead, Judged
  <1>7. Closed(cut)' = Closed(cut) /\ (\A x : KeyOf(x)' = KeyOf(x))
    BY <1>2, SameOp
  <1> DEFINE found(k) == {x \in OfKind("retain", Closed(cut)) : KeyOf(x) = k}
  <1>8. \A k \in Keys : Met(k)' = found(k)
    BY <1>2, <1>7 DEF Met, OfKind
  <1>9. Walked'
    <2>1. \A k \in Keys : IF found(k) = {} THEN RetainedIn(cut)[k] = NoId ELSE RetainedIn(cut)[k] \in found(k)
      BY RetainedInIs
    <2>2. ASSUME NEW k \in Keys, NEW x \in found(k) PROVE x = RetainedIn(cut)[k]
      <3>1. RetainedIn(cut)[k] \in found(k)
        BY <2>1, <2>2
      <3>2. \A y \in found(k) : y \in OfKind("retain", Authored) /\ KeyOf(y) = k
        <4>1. Closed(cut) \subseteq Id
          BY DEF Closed, Stored
        <4>2. \A y \in OfKind("retain", Closed(cut)) : y \in Authored
          BY <4>1, OfKindType DEF Inv, Kinds
        <4> QED
          BY <4>2 DEF OfKind
      <3> QED
        BY <2>2, <3>1, <3>2 DEF Inv, History, RetainedOnce
    <2>3. OfKind("organize", {})' = {} /\ ~Fork({})'
      BY DEF OfKind, Fork
    <2> HIDE DEF found
    <2>4. \A k \in Keys : IF Met(k)' = {} THEN reading'.rev[k] = NoId ELSE reading'.rev[k] \in Met(k)'
      BY <1>2, <1>8, <2>1
    <2>5. \A k \in Keys : \A x \in Met(k)' : x = reading'.rev[k]
      BY <1>2, <1>8, <2>2
    <2> QED
      BY <1>2, <2>3, <2>4, <2>5 DEF Walked
  <1>10. WithinLimits'
    BY <1>2, SameOp DEF WithinLimits
  <1>11. FailsForAReason'
    BY <1>2, Unreadable, SameOp DEF FailsForAReason
  <1> QED
    BY <1>3, <1>4, <1>5, <1>6, <1>9, <1>10, <1>11 DEF Inv, Outcome

LEMMA LoadAgainStep == ASSUME Inv, LoadAgain PROVE Inv'
  <1>1. /\ reading.phase = "list" /\ reading.by \in Writers /\ reading.what = "collection"
        /\ reading.done = {} /\ reading.cut = reading.first /\ reading \in Reading
    BY DEF LoadAgain, Inv, TypeOK, Outcome, ReadingOf
  <1>2. PICK cut \in [Writers -> 0..MaxSeq] : cut = have[reading.by]
    BY <1>1 DEF Inv, TypeOK
  <1> DEFINE fits == Complete(cut) /\ Cardinality(Weighing(Closed(cut))) <= MaxHistory
  <1>3. /\ UNCHANGED <<op, have>>
        /\ reading' = [reading EXCEPT !.cut = cut, !.todo = Closed(cut), !.phase = IF fits THEN "fold" ELSE "failed"]
    BY <1>2 DEF LoadAgain, Weighing
  <1>4. /\ reading' \in Reading /\ reading'.by = reading.by /\ reading'.what = "collection"
        /\ reading'.gate = reading.gate /\ reading'.phase = (IF fits THEN "fold" ELSE "failed")
        /\ reading'.first = reading.first /\ reading'.cut = cut
        /\ reading'.todo = Closed(cut) /\ reading'.done = {} /\ reading'.rev = reading.rev
        /\ reading'.root = reading.root
    <2>1. Closed(cut) \subseteq Id
      BY DEF Closed, Stored
    <2> HIDE DEF fits
    <2> QED
      BY <1>1, <1>3, <2>1 DEF Reading
  <1>5. fits' <=> fits
    BY <1>3, SameOp
  <1> HIDE DEF fits
  <1>6. History'
    BY <1>3, SameHistory DEF Inv
  <1>7. Closed(cut)' = Closed(cut) /\ Closed(reading.first)' = Closed(reading.first)
    BY <1>3, <1>4 DEF Closed, Stored
  <1>8. TypeOK'
    BY <1>3, <1>4, <1>7 DEF Inv, TypeOK
  <1>9. ReadingOf'
    BY <1>1, <1>2, <1>3, <1>4, HaveType DEF ReadingOf, Inv, History, Logs, Outcome
  <1>10. ChainsRead' /\ Judged'
    BY <1>1, <1>4 DEF ChainsRead, Judged, Inv, Outcome
  <1>11. Walked'
    BY <1>1, <1>3, <1>4, <1>7 DEF Inv, Outcome, Walked, Met, OfKind, KeyOf, HappensBefore, Fork
  <1>12. WithinLimits'
    <2>1. ItemsReadable(reading.first)
      BY <1>1 DEF Inv, Outcome, WithinLimits
    <2>2. PICK first : first = reading.first
      OBVIOUS
    <2>3. ItemsReadable(first)'
      BY <1>3, <2>1, <2>2, SameOp
    <2>4. reading'.phase = "fold" => fits'
      BY <1>4, <1>5
    <2> QED
      BY <1>4, <2>2, <2>3, <2>4 DEF WithinLimits, fits
  <1>13. FailsForAReason'
    <2>1. Closed(cut) \in SUBSET Id
      BY DEF Closed, Stored
    <2>2. ~fits => ~Complete(cut) \/ TooMuch(Closed(cut))
      BY <2>1, TooMuchIs DEF fits
    <2>3. ~fits => (~Complete(cut))' \/ TooMuch(Closed(cut))'
      <3>1. PICK s : s = Closed(cut)
        OBVIOUS
      <3> QED
        BY <1>3, <1>7, <2>2, <3>1, SameOp
    <2> QED
      BY <1>4, <2>3 DEF FailsForAReason
  <1> QED
    BY <1>6, <1>8, <1>9, <1>10, <1>11, <1>12, <1>13 DEF Inv, Outcome

-----------------------------------------------------------------------------
(* Folding an event.                                                        *)

LEMMA ReadyIs ==
  ASSUME Inv, NEW x \in reading.todo, Ready(x)
  PROVE  /\ x \in Authored /\ x \in Id /\ x \in Closed(reading.cut) /\ x \notin reading.done
         /\ reading.phase = "fold" /\ op[x].past \subseteq reading.done
         /\ \A y \in reading.done : y[1] = x[1] => y \in op[x].past
         /\ \A y \in Id : y[1] = x[1] => (y \in op[x].past <=> y[2] < x[2])
  <1>1. /\ reading.phase = "fold" /\ op[x].past \cap reading.todo = {}
        /\ reading.done \cup reading.todo = Closed(reading.cut) /\ reading.done \cap reading.todo = {}
    BY DEF Ready, Inv, TypeOK
  <1>2. x \in Authored /\ x \in Id /\ x \in Closed(reading.cut) /\ x \notin reading.done
    BY <1>1, CutsAre
  <1>3. op[x].past \subseteq reading.done
    <2>1. op[x].past \subseteq Stored(reading.cut) /\ op[x].past \subseteq Id
      BY <1>2, AuthoredType DEF Closed, Event, Inv
    <2>2. \A y \in op[x].past : op[y].past \subseteq op[x].past
      BY <1>2 DEF Inv, History, Causal
    <2>3. op[x].past \subseteq Closed(reading.cut)
      BY <2>1, <2>2 DEF Closed
    <2> QED
      BY <1>1, <2>3
  <1>4. \A y \in Id : y[1] = x[1] => (y \in op[x].past <=> y[2] < x[2])
    BY <1>2 DEF Inv, History, Causal
  <1>5. ASSUME NEW y \in reading.done, y[1] = x[1] PROVE y \in op[x].past
    <2>1. y \in Authored /\ y \in Id /\ op[y].past \subseteq reading.done
      BY CutsAre DEF Inv, Outcome, ReadingOf
    <2>2. x \notin op[y].past
      BY <1>2, <2>1
    <2>3. ~(x[2] < y[2])
      BY <1>2, <1>5, <2>1, <2>2 DEF Inv, History, Causal
    <2>4. x[2] # y[2]
      BY <1>2, <1>5, <2>1, IdIs
    <2>5. x[2] \in Nat /\ y[2] \in Nat
      BY <1>2, <2>1, IdIs
    <2>6. y[2] < x[2]
      BY <2>3, <2>4, <2>5
    <2> QED
      BY <1>4, <1>5, <2>1, <2>6
  <1> QED
    BY <1>1, <1>2, <1>3, <1>4, <1>5

LEMMA ChainOfIs ==
  ASSUME Inv, reading.what = "relations", NEW x \in reading.todo, Ready(x), op[x].kind = "define"
  PROVE  ChainOf(x) = op[x].root
  <1>1. /\ x \in Authored /\ x \in Id /\ op[x].past \subseteq reading.done
        /\ \A y \in reading.done : y[1] = x[1] => y \in op[x].past
        /\ \A y \in Id : y[1] = x[1] => (y \in op[x].past <=> y[2] < x[2])
    BY ReadyIs
  <1>2. /\ \A d \in reading.done : d \in Id /\ d \in Authored /\ reading.root[d] = op[d].root
        /\ Definitions = {d \in reading.done : op[d].root # NoId}
    BY DefinitionsAre
  <1>3. Earlier(x) = {y \in reading.done : y[1] = x[1]}
    BY <1>1, <1>2 DEF Earlier
  <1>4. op[x].root = LogChain(x)
    BY <1>1 DEF Inv, History, Chains
  <1>5. CASE op[x].ref # NoId
    <2> DEFINE p == op[x].ref
    <2>1. LogChain(x) = IF p \in Earlier(x) /\ op[p].slug = op[x].slug THEN op[p].root ELSE NoId
      BY <1>5 DEF LogChain
    <2>2. ChainOf(x) = IF p \in Definitions /\ p[1] = x[1] /\ p \in op[x].past /\ op[p].slug = op[x].slug
                       THEN reading.root[p] ELSE NoId
      BY <1>5 DEF ChainOf, HappensBefore
    <2> HIDE DEF p
    <2> QED
      BY <1>1, <1>2, <1>3, <1>4, <2>1, <2>2
  <1>6. CASE op[x].ref = NoId
    <2>1. LogChain(x) = IF \E d \in Earlier(x) :
                             /\ op[d].root = d /\ op[d].slug = op[x].slug
                             /\ \A c \in Earlier(x) : op[c].root = d => ~op[c].retire
                        THEN NoId ELSE x
      BY <1>6 DEF LogChain
    <2>2. ChainOf(x) = IF \E d \in Definitions : /\ reading.root[d] = d /\ d[1] = x[1]
                                                 /\ op[d].slug = op[x].slug /\ ~Retired(d)
                       THEN NoId ELSE x
      BY <1>6 DEF ChainOf
    <2>3. ASSUME NEW d \in Id, d[1] = x[1]
          PROVE  Retired(d) <=> \E c \in Earlier(x) : op[c].root = d /\ op[c].retire
      <3>1. ASSUME NEW c \in Definitions, reading.root[c] = d PROVE c \in Earlier(x) /\ op[c].root = d
        <4>1. c \in reading.done /\ op[c].root = d /\ c \in Authored /\ d # NoId
          BY <1>2, <3>1
        <4>2. c[1] = d[1]
          BY <4>1 DEF Inv, History, Chains
        <4> QED
          BY <1>3, <2>3, <4>1, <4>2
      <3>2. ASSUME NEW c \in Earlier(x), op[c].root = d PROVE c \in Definitions /\ reading.root[c] = d
        BY <1>2, <1>3, <3>2, NoIdIs
      <3> QED
        BY <3>1, <3>2 DEF Retired
    <2>4. ASSUME NEW d \in Id
          PROVE  d \in Definitions /\ reading.root[d] = d /\ d[1] = x[1] <=> d \in Earlier(x) /\ op[d].root = d
      BY <1>2, <1>3, NoIdIs
    <2>5. \A d \in Earlier(x) : d \in Id /\ d[1] = x[1]
      BY DEF Earlier
    <2>6. \A d \in Definitions : d \in Id
      BY <1>2
    <2> QED
      BY <1>4, <2>1, <2>2, <2>3, <2>4, <2>5, <2>6
  <1> QED
    BY <1>5, <1>6

LEMMA PredicateIs ==
  ASSUME Inv, reading.what = "relations", NEW x \in reading.todo, Ready(x)
  PROVE  PredicateStands(x) <=>
           \/ op[x].pred = Core
           \/ /\ op[x].pred \in OfKind("define", op[x].past) /\ op[op[x].pred].root # NoId
              /\ \A d \in OfKind("define", op[x].past) : op[d].root = op[op[x].pred].root => ~op[d].retire
  <1>1. op[x].past \subseteq reading.done
    BY ReadyIs
  <1>2. /\ \A d \in reading.done : d \in Id /\ d \in Authored /\ reading.root[d] = op[d].root
        /\ Definitions = {d \in reading.done : op[d].root # NoId}
        /\ \A d \in Definitions : op[d].kind = "define"
    BY DefinitionsAre
  <1> DEFINE p == op[x].pred
  <1>3. p \in Definitions /\ p \in op[x].past <=> p \in OfKind("define", op[x].past) /\ op[p].root # NoId
    BY <1>1, <1>2 DEF OfKind
  <1>4. ASSUME p \in Definitions
        PROVE  (\A d \in Definitions : reading.root[d] = reading.root[p] /\ op[d].retire => d \notin op[x].past)
                 <=> (\A d \in OfKind("define", op[x].past) : op[d].root = op[p].root => ~op[d].retire)
    <2>1. ASSUME NEW d, op[d].root = op[p].root
          PROVE  d \in Definitions /\ d \in op[x].past <=> d \in OfKind("define", op[x].past)
      BY <1>1, <1>2, <1>4, <2>1 DEF OfKind
    <2>2. \A d \in Definitions : reading.root[d] = reading.root[p] <=> op[d].root = op[p].root
      BY <1>2, <1>4
    <2>3. \A d \in OfKind("define", op[x].past) : d \in op[x].past
      BY DEF OfKind
    <2> HIDE DEF p
    <2> QED
      BY <2>1, <2>2, <2>3
  <1>5. PredicateStands(x) <=>
          \/ p = Core
          \/ /\ p \in Definitions /\ p \in op[x].past
             /\ \A d \in Definitions : reading.root[d] = reading.root[p] /\ op[d].retire => d \notin op[x].past
    BY DEF PredicateStands, HappensBefore
  <1> HIDE DEF p
  <1>6. PredicateStands(x) <=>
          \/ p = Core
          \/ /\ p \in OfKind("define", op[x].past) /\ op[p].root # NoId
             /\ \A d \in OfKind("define", op[x].past) : op[d].root = op[p].root => ~op[d].retire
    BY <1>3, <1>4, <1>5
  <1> QED
    BY <1>6 DEF p

LEMMA VerdictIs ==
  ASSUME Inv, reading.what = "relations", NEW x \in reading.todo, Ready(x)
  PROVE  Judgement(x, Verdict(x))
  <1>1. /\ x \in Authored /\ op[x].past \subseteq reading.done
        /\ op[x] \in Event /\ (op[x].vouched => SignedIn(x[1], op[x], op[x].past))
    BY ReadyIs, AuthoredType DEF Inv, History, Vouched, VouchedIn
  <1>2. CASE op[x].kind = "define"
    <2>1. Verdict(x) = IF op[x].root = NoId THEN "rejected" ELSE "valid"
      BY <1>2, ChainOfIs DEF Verdict
    <2> QED
      BY <1>1, <1>2, <2>1 DEF Judgement, StandsIn, SignedIn
  <1>3. CASE op[x].kind = "assert"
    <2> DEFINE h == op[x].ref
    <2>1. Verdict(x) = IF PredicateStands(x) THEN Capture(x) ELSE "rejected"
      BY <1>3 DEF Verdict
    <2>2. Capture(x) = IF h \notin OfKind("put", reading.done) THEN "unverified"
                       ELSE IF h \in op[x].past THEN "valid" ELSE "rejected"
      BY DEF Capture, HappensBefore
    <2>3. h \in OfKind("put", reading.done) /\ h \in op[x].past <=> h \in OfKind("put", op[x].past)
      BY <1>1 DEF OfKind
    <2>4. Verdict(x) = "valid" <=> PredicateStands(x) /\ h \in OfKind("put", op[x].past)
      BY <2>1, <2>2, <2>3
    <2>5. Verdict(x) = "unverified" => h \notin OfKind("put", op[x].past)
      BY <2>1, <2>2, <2>3
    <2>6. Verdict(x) = "valid" <=> StandsIn(op[x], op[x].past)
      BY <1>3, <2>4, PredicateIs DEF StandsIn
    <2> QED
      BY <1>1, <1>3, <2>5, <2>6 DEF Judgement, SignedIn
  <1>4. CASE op[x].kind = "retract"
    <2>1. Verdict(x) = IF RetractionStands(x) THEN "valid" ELSE "rejected"
      BY <1>4 DEF Verdict
    <2>2. ASSUME op[x].vouched PROVE RetractionStands(x)
      <3> DEFINE a == op[x].ref
      <3>1. a \in op[x].past /\ op[a].kind = "assert" /\ a[1] = x[1] /\ StandsIn(op[a], op[a].past)
        BY <1>1, <1>4, <2>2 DEF SignedIn
      <3>2. a \in reading.done /\ Judgement(a, reading.verdict[a])
        BY <1>1, <3>1 DEF Inv, Outcome, Judged
      <3>3. reading.verdict[a] = "valid"
        BY <3>1, <3>2 DEF Judgement
      <3> QED
        BY <3>1, <3>2, <3>3 DEF RetractionStands, OfKind, HappensBefore
    <2> QED
      BY <1>4, <2>1, <2>2 DEF Judgement
  <1>5. CASE op[x].kind \notin {"define", "assert", "retract"}
    <2>1. Verdict(x) = "valid"
      BY <1>5 DEF Verdict
    <2> QED
      BY <1>5, <2>1 DEF Judgement
  <1> QED
    BY <1>2, <1>3, <1>4, <1>5

LEMMA VerdictType == ASSUME NEW x PROVE Verdict(x) \in {"none", "valid", "unverified", "rejected"}
  <1>1. CASE op[x].kind = "define"
    BY <1>1 DEF Verdict
  <1>2. CASE op[x].kind = "assert"
    BY <1>2 DEF Verdict, Capture
  <1>3. CASE op[x].kind = "retract"
    BY <1>3 DEF Verdict
  <1>4. CASE op[x].kind \notin {"define", "assert", "retract"}
    BY <1>4 DEF Verdict
  <1> QED
    BY <1>1, <1>2, <1>3, <1>4

LEMMA JudgementStays ==
  ASSUME UNCHANGED op, NEW x, NEW v PROVE Judgement(x, v)' <=> Judgement(x, v)
  BY DEF Judgement, StandsIn, OfKind

LEMMA FoldRelationStep == ASSUME Inv, NEW x \in reading.todo, FoldRelation(x) PROVE Inv'
  <1>1. /\ reading.what = "relations" /\ Ready(x) /\ reading \in Reading /\ UNCHANGED <<op, have>>
        /\ reading' = [Folded(x) EXCEPT
             !.verdict = [reading.verdict EXCEPT ![x] = Verdict(x)],
             !.root = [reading.root EXCEPT ![x] = IF op[x].kind = "define" THEN ChainOf(x) ELSE NoId]]
    BY DEF FoldRelation, Inv, TypeOK
  <1>2. /\ x \in Authored /\ x \in Id /\ x \in Closed(reading.cut) /\ x \notin reading.done
        /\ reading.phase = "fold" /\ op[x].past \subseteq reading.done
    BY <1>1, ReadyIs
  <1>3. op[x].root = IF op[x].kind = "define" THEN ChainOf(x) ELSE NoId
    BY <1>1, <1>2, ChainOfIs DEF Inv, History, Chains
  <1>4. op[x].root \in Id \cup {NoId} /\ Verdict(x) \in {"none", "valid", "unverified", "rejected"}
    BY <1>2, AuthoredType, VerdictType DEF Event, Inv
  <1>5. reading' = [reading EXCEPT !.todo = @ \ {x}, !.done = @ \cup {x},
                                   !.verdict = [reading.verdict EXCEPT ![x] = Verdict(x)],
                                   !.root = [reading.root EXCEPT ![x] = op[x].root]]
    BY <1>1, <1>3 DEF Folded
  <1>6. /\ reading' \in Reading /\ reading'.by = reading.by /\ reading'.what = "relations"
        /\ reading'.gate = reading.gate /\ reading'.phase = "fold"
        /\ reading'.first = reading.first /\ reading'.cut = reading.cut
        /\ reading'.todo = reading.todo \ {x} /\ reading'.done = reading.done \cup {x}
        /\ reading'.verdict = [reading.verdict EXCEPT ![x] = Verdict(x)]
        /\ reading'.root = [reading.root EXCEPT ![x] = op[x].root]
    <2>1. PICK verdict, root : /\ verdict = [reading.verdict EXCEPT ![x] = Verdict(x)]
                               /\ root = [reading.root EXCEPT ![x] = op[x].root]
      OBVIOUS
    <2>2. /\ verdict \in [Id -> {"none", "valid", "unverified", "rejected"}]
          /\ root \in [Id -> Id \cup {NoId}]
      BY <1>1, <1>4, <2>1 DEF Reading
    <2>3. reading' = [reading EXCEPT !.todo = reading.todo \ {x}, !.done = reading.done \cup {x},
                                     !.verdict = verdict, !.root = root]
      BY <1>5, <2>1
    <2>4. reading.todo \ {x} \in SUBSET Id /\ reading.done \cup {x} \in SUBSET Id
      BY <1>1, <1>2 DEF Reading
    <2> QED
      BY <1>1, <1>2, <2>1, <2>2, <2>3, <2>4 DEF Reading
  <1>7. History'
    BY <1>1, SameHistory DEF Inv
  <1>8. Closed(reading.cut)' = Closed(reading.cut)
    BY <1>1, <1>6 DEF Closed, Stored
  <1>9. TypeOK'
    BY <1>1, <1>2, <1>6, <1>8 DEF Inv, TypeOK
  <1>10. ReadingOf'
    BY <1>1, <1>2, <1>6, <1>8 DEF Inv, Outcome, ReadingOf
  <1>11. ChainsRead'
    <2>1. \A y \in Id : reading'.root[y] = IF y = x THEN op[x].root ELSE reading.root[y]
      BY <1>1, <1>6 DEF Reading
    <2> QED
      BY <1>1, <1>2, <1>6, <2>1 DEF Inv, Outcome, ChainsRead
  <1>12. Judged'
    <2>1. \A y \in Id : reading'.verdict[y] = IF y = x THEN Verdict(x) ELSE reading.verdict[y]
      BY <1>1, <1>6 DEF Reading
    <2>2. ASSUME NEW y \in reading'.done PROVE Judgement(y, reading.verdict[y])'
      <3>1. y \in Id
        BY <1>2, <1>6, CutsAre
      <3>2. Judgement(y, reading'.verdict[y])
        BY <1>1, <1>6, <2>1, <2>2, <3>1, VerdictIs DEF Inv, Outcome, Judged
      <3> QED
        BY <1>1, <3>2, JudgementStays
    <2> QED
      BY <2>2 DEF Judged
  <1>13. reading'.what # "collection" /\ FailsForAReason'
    BY <1>6 DEF FailsForAReason
  <1> QED
    BY <1>7, <1>9, <1>10, <1>11, <1>12, <1>13 DEF Inv, Outcome

\* A fold of the collection leaves the chains and verdicts of a relations reading alone.
LEMMA StillWalking ==
  ASSUME Inv, reading.what = "collection", reading'.what = "collection",
         UNCHANGED op, reading'.root = reading.root
  PROVE  ChainsRead' /\ Judged'
  BY DEF Inv, Outcome, ChainsRead, Judged

\* The organization x of item k follows what was the current revision.
LEMMA WalkOn ==
  ASSUME Inv, reading.what = "collection", NEW x \in reading.todo, Ready(x),
         op[x].kind = "organize", Follows(x), UNCHANGED op, reading'.first = reading.first,
         reading'.done = reading.done \cup {x},
         reading'.rev = [reading.rev EXCEPT ![KeyOf(x)] = x]
  PROVE  Walked'
  <1>1. /\ x \in Authored /\ x \in Id /\ x \notin reading.done /\ op[x].past \subseteq reading.done
        /\ \A y \in reading.done : y \in Authored
    BY ReadyIs, CutsAre
  <1>2. PICK k \in Keys : KeyOf(x) = k
    BY <1>1, KeyIs DEF Inv
  <1>3. reading.rev[k] # NoId /\ op[x].ref = reading.rev[k] /\ reading.rev[k] \in op[x].past
    BY <1>2 DEF Follows, HappensBefore
  <1>4. Walked /\ reading.rev \in [Keys -> Id \cup {NoId}]
    BY DEF Inv, TypeOK, Reading, Outcome
  <1>5. \A j \in Keys : reading'.rev[j] = IF j = k THEN x ELSE reading.rev[j]
    BY <1>2, <1>4
  <1>6. reading.rev[k] \in Authored /\ KeyOf(reading.rev[k]) = k
    BY <1>1, <1>2, <1>3, KeyIs
  <1>7. OfKind("organize", reading.done)' = OfKind("organize", reading.done) \cup {x}
    BY DEF OfKind
  <1>8. ASSUME NEW j \in Keys PROVE Met(j)' = Met(j) \cup (IF j = k THEN {x} ELSE {})
    <2>1. /\ OfKind("retain", Closed(reading.first))' = OfKind("retain", Closed(reading.first))
          /\ \A y : KeyOf(y)' = KeyOf(y)
      BY DEF OfKind, Closed, Stored, KeyOf
    <2> QED
      BY <1>2, <1>7, <2>1 DEF Met
  <1>9. \A j \in Keys : IF Met(j)' = {} THEN reading'.rev[j] = NoId ELSE reading'.rev[j] \in Met(j)'
    <2>1. \A j \in Keys : IF Met(j) = {} THEN reading.rev[j] = NoId ELSE reading.rev[j] \in Met(j)
      BY <1>4 DEF Walked
    <2> QED
      BY <1>5, <1>8, <2>1
  <1>10. ASSUME NEW j \in Keys, NEW y \in Met(j)'
         PROVE  y = reading'.rev[j] \/ \E z \in OfKind("organize", reading.done)' : op'[z].ref = y
    <2>1. CASE y = x /\ j = k
      BY <1>5, <2>1
    <2>2. CASE y \in Met(j)
      <3>1. y = reading.rev[j] \/ \E z \in OfKind("organize", reading.done) : op[z].ref = y
        BY <1>4, <2>2 DEF Walked
      <3> QED
        BY <1>3, <1>5, <1>7, <3>1
    <2> QED
      BY <1>8, <1>10, <2>1, <2>2
  <1>11. ASSUME NEW y \in OfKind("organize", reading.done)'
         PROVE  reading'.rev[KeyOf(y)] = y \/ y \in op[reading'.rev[KeyOf(y)]].past
    <2>1. CASE y = x
      BY <1>2, <1>5, <2>1
    <2>2. CASE y \in OfKind("organize", reading.done)
      <3>1. y \in Authored /\ KeyOf(y) \in Keys
        BY <1>1, <2>2, KeyIs DEF OfKind
      <3>2. reading.rev[KeyOf(y)] = y \/ y \in op[reading.rev[KeyOf(y)]].past
        BY <1>4, <2>2 DEF Walked, HappensBefore
      <3>3. op[reading.rev[k]].past \subseteq op[x].past
        BY <1>1, <1>3 DEF Inv, History, Causal
      <3> QED
        BY <1>3, <1>5, <3>1, <3>2, <3>3
    <2> QED
      BY <1>7, <1>11, <2>1, <2>2
  <1>12. ~Fork(reading.done)'
    <2>1. \A y \in OfKind("organize", reading.done) : op[y].ref # op[x].ref
      <3>1. \A y \in OfKind("organize", reading.done) : y \in Authored
        BY <1>1 DEF OfKind
      <3> QED
        BY <1>3, <1>4, <1>6, <3>1, CurrentIsLast
    <2>2. \A y, z \in OfKind("organize", reading.done) : op[y].ref = op[z].ref => y = z
      BY <1>4 DEF Walked, Fork
    <2>3. \A y, z \in OfKind("organize", reading.done)' : op[y].ref = op[z].ref => y = z
      BY <1>7, <2>1, <2>2
    <2> QED
      BY <2>3 DEF Fork
  <1>13. \A y : KeyOf(y)' = KeyOf(y)
    BY DEF KeyOf
  <1> QED
    BY <1>9, <1>10, <1>11, <1>12, <1>13 DEF Walked, HappensBefore

\* An organization that does not follow is one of a fork.
LEMMA NotFollowing ==
  ASSUME Inv, reading.what = "collection", NEW x \in reading.todo, Ready(x),
         op[x].kind = "organize", ~Follows(x)
  PROVE  Fork(Closed(reading.cut)) \/ (~reading.gate /\ reading.first # reading.cut)
  <1>1. SUFFICES ASSUME reading.first = reading.cut PROVE Fork(Closed(reading.cut))
    BY DEF Inv, Outcome, ReadingOf, Ready
  <1>2. /\ x \in Authored /\ x \notin reading.done /\ op[x].past \subseteq reading.done
        /\ x \in Closed(reading.cut) /\ reading.done \subseteq Closed(reading.cut)
        /\ \A y \in reading.done : y \in Authored
    BY ReadyIs, CutsAre
  <1>3. PICK k \in Keys : KeyOf(x) = k
    BY <1>2, KeyIs
  <1>4. op[x].ref \in Weighing(op[x].past) /\ KeyOf(op[x].ref) = k
    BY <1>2, <1>3, KeyIs
  <1>5. op[x].ref \in op[x].past /\ op[x].ref \in Met(k)
    <2>1. op[x].past \subseteq Closed(reading.first)
      BY <1>1, <1>2
    <2> QED
      BY <1>2, <1>4, <2>1 DEF Met, Weighing, OfKind
  <1>6. Walked
    BY DEF Inv, Outcome
  <1>7. reading.rev[k] \in Met(k)
    BY <1>5, <1>6 DEF Walked
  <1>8. reading.rev[k] # NoId
    <2>1. Met(k) \subseteq Id
      BY CutsAre DEF Met, OfKind
    <2> QED
      BY <1>7, <2>1, NoIdIs
  <1>9. op[x].ref # reading.rev[k]
    BY <1>3, <1>5, <1>8 DEF Follows, HappensBefore
  <1>10. PICK y \in OfKind("organize", reading.done) : op[y].ref = op[x].ref
    BY <1>5, <1>6, <1>9 DEF Walked
  <1>11. y # x /\ y \in OfKind("organize", Closed(reading.cut)) /\ x \in OfKind("organize", Closed(reading.cut))
    BY <1>2, <1>10 DEF OfKind
  <1> QED
    BY <1>10, <1>11 DEF Fork

LEMMA WalkedStays ==
  ASSUME Walked, UNCHANGED op, reading'.first = reading.first, reading'.rev = reading.rev,
         OfKind("organize", reading.done)' = OfKind("organize", reading.done)
  PROVE  Walked'
  <1>1. OfKind("retain", Closed(reading.first))' = OfKind("retain", Closed(reading.first))
    BY DEF OfKind, Closed, Stored
  <1>2. \A y : KeyOf(y)' = KeyOf(y)
    BY DEF KeyOf
  <1>3. \A k \in Keys : Met(k)' = Met(k)
    BY <1>1, <1>2 DEF Met
  <1>4. \A k \in Keys : IF Met(k)' = {} THEN reading'.rev[k] = NoId ELSE reading'.rev[k] \in Met(k)'
    BY <1>3 DEF Walked
  <1>5. \A k \in Keys : \A y \in Met(k)' :
          y = reading'.rev[k] \/ \E z \in OfKind("organize", reading.done)' : op'[z].ref = y
    <2>1. \A k \in Keys : \A y \in Met(k) :
            y = reading.rev[k] \/ \E z \in OfKind("organize", reading.done) : op[z].ref = y
      BY DEF Walked
    <2> QED
      BY <1>3, <2>1
  <1>6. \A y \in OfKind("organize", reading.done)' :
          reading'.rev[KeyOf(y)'] = y \/ y \in op'[reading'.rev[KeyOf(y)']].past
    BY <1>2 DEF Walked, HappensBefore
  <1>7. ~Fork(reading.done)'
    BY DEF Walked, Fork
  <1> QED
    BY <1>4, <1>5, <1>6, <1>7 DEF Walked, HappensBefore

LEMMA FoldCollectionStep == ASSUME Inv, NEW x \in reading.todo, FoldCollection(x) PROVE Inv'
  <1>1. /\ reading.what = "collection" /\ Ready(x) /\ reading \in Reading /\ UNCHANGED <<op, have>>
        /\ reading' = IF op[x].kind # "organize" THEN Folded(x)
                      ELSE IF Follows(x)
                      THEN [Folded(x) EXCEPT !.rev[KeyOf(x)] = x]
                      ELSE [reading EXCEPT !.phase = "failed"]
    BY DEF FoldCollection, Inv, TypeOK
  <1>2. /\ x \in Authored /\ x \in Id /\ x \in Closed(reading.cut) /\ x \notin reading.done
        /\ reading.phase = "fold" /\ op[x].past \subseteq reading.done
    BY <1>1, ReadyIs
  <1>3. History'
    BY <1>1, SameHistory DEF Inv
  <1>4. Walked /\ WithinLimits
    BY <1>1 DEF Inv, Outcome
  <1>5. PICK todo, done : todo = reading.todo \ {x} /\ done = reading.done \cup {x}
    OBVIOUS
  <1>6. todo \in SUBSET Id /\ done \in SUBSET Id
    BY <1>1, <1>2, <1>5 DEF Reading
  <1>7. Closed(reading.cut)' = {y \in Id : y[2] <= reading'.cut[y[1]]
                                           /\ op[y].past \subseteq {z \in Id : z[2] <= reading'.cut[z[1]]}}
    BY <1>1 DEF Closed, Stored
  <1>8. Closed(reading.cut) = {y \in Id : y[2] <= reading.cut[y[1]]
                                          /\ op[y].past \subseteq {z \in Id : z[2] <= reading.cut[z[1]]}}
    BY DEF Closed, Stored
  <1>9. ASSUME /\ reading' \in Reading /\ reading'.by = reading.by /\ reading'.what = "collection"
               /\ reading'.gate = reading.gate /\ reading'.phase = "fold"
               /\ reading'.first = reading.first /\ reading'.cut = reading.cut
               /\ reading'.todo = todo /\ reading'.done = done /\ reading'.root = reading.root,
               Walked'
        PROVE  Inv'
    <2>1. Closed(reading.cut)' = Closed(reading.cut)
      BY <1>7, <1>8, <1>9
    <2>2. TypeOK'
      BY <1>1, <1>2, <1>5, <1>9, <2>1 DEF Inv, TypeOK
    <2>3. ReadingOf'
      BY <1>1, <1>2, <1>5, <1>9, <2>1 DEF Inv, Outcome, ReadingOf
    <2>4. ChainsRead' /\ Judged'
      BY <1>1, <1>9, StillWalking
    <2>5. WithinLimits'
      <3>1. PICK cut, first : cut = reading.cut /\ first = reading.first
        OBVIOUS
      <3>2. /\ ItemsReadable(first)' <=> ItemsReadable(first)
            /\ Complete(cut)' <=> Complete(cut)
        BY <1>1, SameOp
      <3>3. Weighing(Closed(cut))' = Weighing(Closed(cut))
        BY <1>1 DEF Weighing, OfKind, Closed, Stored
      <3> QED
        BY <1>2, <1>4, <1>9, <3>1, <3>2, <3>3 DEF WithinLimits
    <2>6. FailsForAReason'
      BY <1>9 DEF FailsForAReason
    <2> QED
      BY <1>3, <1>9, <2>2, <2>3, <2>4, <2>5, <2>6 DEF Inv, Outcome
  <1>10. CASE op[x].kind # "organize"
    <2>1. reading' = [reading EXCEPT !.todo = todo, !.done = done]
      BY <1>1, <1>5, <1>10 DEF Folded
    <2>2. /\ reading' \in Reading /\ reading'.by = reading.by /\ reading'.what = "collection"
          /\ reading'.gate = reading.gate /\ reading'.phase = "fold"
          /\ reading'.first = reading.first /\ reading'.cut = reading.cut
          /\ reading'.todo = todo /\ reading'.done = done /\ reading'.root = reading.root
          /\ reading'.rev = reading.rev
      BY <1>1, <1>2, <1>6, <2>1 DEF Reading
    <2>3. OfKind("organize", reading.done)' = OfKind("organize", reading.done)
      BY <1>1, <1>5, <1>10, <2>2 DEF OfKind
    <2>4. Walked'
      BY <1>1, <1>4, <2>2, <2>3, WalkedStays
    <2> QED
      BY <1>9, <2>2, <2>4
  <1>11. CASE op[x].kind = "organize" /\ Follows(x)
    <2>1. PICK rev : rev = [reading.rev EXCEPT ![KeyOf(x)] = x]
      OBVIOUS
    <2>2. rev \in [Keys -> Id \cup {NoId}]
      BY <1>1, <1>2, <2>1 DEF Reading
    <2>3. reading' = [reading EXCEPT !.todo = todo, !.done = done, !.rev = rev]
      BY <1>1, <1>5, <1>11, <2>1 DEF Folded
    <2>4. /\ reading' \in Reading /\ reading'.by = reading.by /\ reading'.what = "collection"
          /\ reading'.gate = reading.gate /\ reading'.phase = "fold"
          /\ reading'.first = reading.first /\ reading'.cut = reading.cut
          /\ reading'.todo = todo /\ reading'.done = done /\ reading'.root = reading.root
          /\ reading'.rev = rev
      BY <1>1, <1>2, <1>6, <2>2, <2>3 DEF Reading
    <2>5. Walked'
      BY <1>1, <1>5, <1>11, <2>1, <2>4, WalkOn
    <2> QED
      BY <1>9, <2>4, <2>5
  <1>12. CASE op[x].kind = "organize" /\ ~Follows(x)
    <2>1. reading' = [reading EXCEPT !.phase = "failed"]
      BY <1>1, <1>12
    <2>2. /\ reading' \in Reading /\ reading'.by = reading.by /\ reading'.what = "collection"
          /\ reading'.gate = reading.gate /\ reading'.phase = "failed"
          /\ reading'.first = reading.first /\ reading'.cut = reading.cut
          /\ reading'.todo = reading.todo /\ reading'.done = reading.done
          /\ reading'.root = reading.root /\ reading'.rev = reading.rev
      BY <1>1, <2>1 DEF Reading
    <2>3. Closed(reading.cut)' = Closed(reading.cut)
      BY <1>7, <1>8, <2>2
    <2>4. TypeOK'
      BY <1>1, <2>2 DEF Inv, TypeOK
    <2>5. ReadingOf'
      BY <1>1, <1>2, <2>2, <2>3 DEF Inv, Outcome, ReadingOf
    <2>6. ChainsRead' /\ Judged'
      BY <1>1, <2>2, StillWalking
    <2>7. WithinLimits'
      BY <2>2 DEF WithinLimits
    <2>8. Walked'
      <3>1. OfKind("organize", reading.done)' = OfKind("organize", reading.done)
        BY <1>1, <2>2 DEF OfKind
      <3> QED
        BY <1>1, <1>4, <2>2, <3>1, WalkedStays
    <2>9. FailsForAReason'
      <3>1. Fork(Closed(reading.cut)) \/ (~reading.gate /\ reading.first # reading.cut)
        BY <1>1, <1>12, NotFollowing
      <3>2. Fork(Closed(reading.cut))' <=> Fork(Closed(reading.cut))
        BY <1>1, <2>3 DEF Fork, OfKind
      <3> QED
        BY <2>2, <3>1, <3>2 DEF FailsForAReason
    <2> QED
      BY <1>3, <2>2, <2>4, <2>5, <2>6, <2>7, <2>8, <2>9 DEF Inv, Outcome
  <1> QED
    BY <1>10, <1>11, <1>12

-----------------------------------------------------------------------------
(* Theorems                                                                 *)

LEMMA InitInv == Init => Inv
  <1> SUFFICES ASSUME Init PROVE Inv
    OBVIOUS
  <1>1. TypeOK
    BY NoReadingIs, RecordsAssumption DEF Init, TypeOK, NothingStored
  <1>2. Authored = {}
    BY DEF Init, Authored
  <1>3. Logs
    BY IdIs DEF Init, Logs, NothingStored
  <1>4. Causal /\ Chains /\ Vouched /\ AllNamed
    BY <1>2 DEF Causal, Chains, Vouched, AllNamed
  <1>5. RetainedOnce /\ NothingOnAFork
    BY <1>2 DEF RetainedOnce, NothingOnAFork, OfKind
  <1>6. ReadingOf
    BY NoReadingIs DEF Init, ReadingOf
  <1>7. ChainsRead /\ Judged
    BY NoReadingIs DEF Init, ChainsRead, Judged
  <1>8. reading.what # "collection" /\ FailsForAReason
    BY NoReadingIs DEF Init, FailsForAReason
  <1> QED
    BY <1>1, <1>3, <1>4, <1>5, <1>6, <1>7, <1>8 DEF Inv, History, Outcome

LEMMA NextInv == Inv /\ [Next]_vars => Inv'
  <1> SUFFICES ASSUME Inv, [Next]_vars PROVE Inv'
    OBVIOUS
  <1>1. ASSUME NEW r \in Writers, AuthorStep(r) PROVE Inv'
    BY <1>1, AuthorSteps
  <1>2. ASSUME NEW r \in Writers, NEW w \in Writers, Accept(r, w) PROVE Inv'
    BY <1>2, AcceptStep
  <1>3. ASSUME NEW r \in Writers \ Careless, BeginRelations(r) PROVE Inv'
    BY <1>3, BeginRelationsStep
  <1>4. ASSUME NEW r \in Writers \ Careless, NEW gate \in BOOLEAN, BeginCollection(r, gate) PROVE Inv'
    BY <1>4, BeginCollectionStep
  <1>5. ASSUME NEW x \in reading.todo, FoldRelation(x) \/ FoldCollection(x) PROVE Inv'
    BY <1>5, FoldRelationStep, FoldCollectionStep
  <1>6. CASE LoadAgain
    BY <1>6, LoadAgainStep
  <1>7. CASE EndReading
    BY <1>7, EndStep
  <1>8. CASE UNCHANGED vars
    <2>1. UNCHANGED <<op, have, reading>>
      BY <1>8 DEF vars
    <2>2. History'
      BY <2>1, SameHistory DEF Inv
    <2>3. TypeOK' /\ ReadingOf'
      BY <2>1 DEF Inv, TypeOK, Outcome, ReadingOf, Closed, Stored
    <2>4. ChainsRead' /\ Judged'
      BY <2>1 DEF Inv, Outcome, ChainsRead, Judged, Judgement, StandsIn, OfKind
    <2>5. Walked => Walked'
      BY <2>1 DEF Walked, Met, Closed, Stored, OfKind, KeyOf, HappensBefore, Fork
    <2>6. WithinLimits' = WithinLimits
      BY <2>1 DEF WithinLimits, ItemsReadable, RetainedIn, Complete, Weighing, Closed, Stored, OfKind
    <2>7. FailsForAReason' = FailsForAReason
      BY <2>1 DEF FailsForAReason, Fork, TooMuch, Complete, Closed, Stored, OfKind
    <2> QED
      BY <2>1, <2>2, <2>3, <2>4, <2>5, <2>6, <2>7 DEF Inv, Outcome
  <1> QED
    BY <1>1, <1>2, <1>3, <1>4, <1>5, <1>6, <1>7, <1>8 DEF Next

LEMMA Invariance == Spec => []Inv
  BY InitInv, NextInv, PTL DEF Spec

\* Events, replicas and readings have their types, and a fold has split the closed
\* history it reads into what it has done and what is left (causal_projection).
THEOREM TypeCorrect == Spec => []TypeOK
  <1>1. Inv => TypeOK
    BY DEF Inv
  <1> QED
    BY <1>1, Invariance, PTL

\* Whatever the devices sign, careless ones too, and in whatever order events
\* arrive and are folded, every reader takes the same definitions and assertions as
\* valid: the ones that stand by their own past (fold_relations).
THEOREM ReadersAgree == Spec => []VerdictsAgree
  <1>1. ASSUME Inv PROVE VerdictsAgree
    <2> SUFFICES ASSUME reading.what = "relations", NEW x \in reading.done,
                        op[x].kind \in {"define", "assert"}
                 PROVE  reading.verdict[x] = "valid" <=> Stands(x)
      BY DEF VerdictsAgree
    <2>1. Judgement(x, reading.verdict[x])
      BY <1>1 DEF Inv, Outcome, Judged
    <2> QED
      BY <2>1, StandsIs DEF Judgement
  <1> QED
    BY <1>1, Invariance, PTL

\* What an author checked against a complete history no reader rejects
\* (validate_local_relation_event against fold_relations).
THEOREM CheckedHolds == Spec => []CheckedIsAccepted
  <1>1. Inv => CheckedIsAccepted
    BY DEF Inv, Outcome, Judged, Judgement, CheckedIsAccepted
  <1> QED
    BY <1>1, Invariance, PTL

\* No reader has two live predicates of one author under one slug
\* (fold_predicate_definition).
THEOREM SlugsUnique == Spec => []LiveSlugsUnique
  <1>1. ASSUME Inv, reading.what = "relations", NEW d \in Definitions, NEW e \in Definitions,
               reading.root[d] = d, reading.root[e] = e, d[1] = e[1], op[d].slug = op[e].slug,
               ~Retired(d), d[2] < e[2]
        PROVE  FALSE
    <2>1. /\ d \in Id /\ e \in Authored /\ e \in Id /\ op[d].root = d /\ op[e].root = e
          /\ op[e].kind = "define" /\ e \in reading.done
      BY <1>1, DefinitionsAre
    <2>2. LogChain(e) = e /\ d \in Earlier(e) /\ e # NoId
      BY <1>1, <2>1, NoIdIs DEF Inv, History, Chains, Earlier
    <2>3. CASE op[e].ref # NoId
      <3>1. op[e].ref \in Earlier(e) /\ op[op[e].ref].root = e
        BY <2>2, <2>3 DEF LogChain
      <3>2. op[e].ref \in Authored /\ op[e].ref \in Id /\ op[e].ref[2] < e[2]
        BY <1>1, <2>1, <3>1, EarlierIs DEF Inv, History, Earlier
      <3>3. e[2] <= op[e].ref[2]
        BY <1>1, <2>2, <3>1, <3>2 DEF Inv, History, Chains
      <3> QED
        BY <2>1, <3>2, <3>3, IdIs
    <2>4. CASE op[e].ref = NoId
      <3>1. PICK c \in Earlier(e) : op[c].root = d /\ op[c].retire
        BY <1>1, <2>1, <2>2, <2>4 DEF LogChain
      <3>2. c \in reading.done
        <4>1. c \in op[e].past
          BY <1>1, <2>1, <3>1 DEF Inv, History, Causal, Earlier
        <4> QED
          BY <1>1, <2>1, <4>1 DEF Inv, Outcome, ReadingOf
      <3>3. c \in Definitions /\ reading.root[c] = d
        BY <1>1, <2>1, <3>1, <3>2, NoIdIs, DefinitionsAre
      <3> QED
        BY <1>1, <3>1, <3>3 DEF Retired
    <2> QED
      BY <2>3, <2>4
  <1>2. ASSUME Inv PROVE LiveSlugsUnique
    <2> SUFFICES ASSUME NEW d \in Definitions, NEW e \in Definitions,
                        reading.root[d] = d, reading.root[e] = e, d[1] = e[1],
                        op[d].slug = op[e].slug, ~Retired(d), ~Retired(e)
                 PROVE  d = e
      BY DEF LiveSlugsUnique
    <2>1. reading.what = "relations"
      <3>1. d \in Id
        BY <1>2, CutsAre DEF Definitions
      <3> QED
        BY <1>2, <3>1 DEF Inv, Outcome, ChainsRead, Definitions
    <2>2. d \in Id /\ e \in Id
      BY <1>2, <2>1, DefinitionsAre
    <2>3. d[2] = e[2]
      BY <1>1, <1>2, <2>1, <2>2, IdIs
    <2> QED
      BY <2>2, <2>3, IdIs
  <1> QED
    BY <1>2, Invariance, PTL

\* A reading of the collection that succeeds shows the last of a chain of
\* organizations of every item (organized_composition_with_cipher).
THEOREM OneChain == Spec => []ReadsOneChain
  <1>1. Inv => ReadsOneChain
    BY DEF Inv, Outcome, Walked, ReadsOneChain
  <1> QED
    BY <1>1, Invariance, PTL

\* Nobody adds to a collection he has seen forked or over its limits
\* (retain_composition, organize_composition).
THEOREM NeverOnAFork == Spec => []NothingOnAFork
  <1>1. Inv => NothingOnAFork
    BY DEF Inv, History
  <1> QED
    BY <1>1, Invariance, PTL

\* A reading of the collection fails only for missing history, a fork, a limit, or
\* events that came between its two loads (organized_composition_with_cipher).
THEOREM FailureExplained == Spec => []FailsForAReason
  <1>1. Inv => FailsForAReason
    BY DEF Inv, Outcome
  <1> QED
    BY <1>1, Invariance, PTL

=============================================================================
