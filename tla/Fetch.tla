--------------------------------- MODULE Fetch ---------------------------------
(***************************************************************************)
(* The metadata batch of the external fetch scheduler, and the Witch's     *)
(* side of it: what starts a batch, the three queues it drains through     *)
(* rate limiters, what each answer does to them, when it is over, and the  *)
(* computations that wait for it.                                          *)
(*                                                                         *)
(* AcoustID matches an inode to recordings; MusicBrainz is asked for every *)
(* entity heard of and names others; a release may link to Discogs.  The   *)
(* scheduler reads the database directly and writes it through the DB      *)
(* thread, so what it wrote may not be there yet when it reads.            *)
(*                                                                         *)
(* A client that pins a release queues ResolvePinForDir, which asks for a  *)
(* fetch when the release is not cached and is queued again after it.      *)
(***************************************************************************)
EXTENDS Integers, Sequences, FiniteSets, Bags, SequencesExt

CONSTANTS
  Inode,          \* corpus files with a fingerprint
  Entity,         \* MusicBrainz recordings, artists and releases
  Disc,           \* Discogs releases
  Matches,        \* the recordings AcoustID knows of an inode
  Discovers,      \* the entities MusicBrainz names when asked for one
  LinksTo,        \* the Discogs releases an entity links to
  Absent,         \* entities MusicBrainz does not have
  Pin,            \* releases that clients pin
  MaxErrors,      \* MB_MAX_ERROR_RETRIES
  Scenarios,      \* what the database may hold at the start
  MaxRequests,    \* bound on the operator's requests
  MaxTrouble,     \* bound on errors and rate-limit answers
  MaxLag          \* bound on the writes the DB thread has not applied

ASSUME MatchesType == Matches \in [Inode -> SUBSET Entity]
ASSUME DiscoversType == Discovers \in [Entity -> SUBSET Entity]
ASSUME LinksType == LinksTo \in [Entity -> SUBSET Disc]
ASSUME PinType == Pin \subseteq Entity /\ Absent \subseteq Entity
ASSUME BoundsType == {MaxErrors, MaxRequests, MaxTrouble, MaxLag} \subseteq Nat
ASSUME FiniteType == IsFiniteSet(Inode) /\ IsFiniteSet(Entity) /\ IsFiniteSet(Disc)

Configuration == [api : BOOLEAN, enrich : BOOLEAN, discogs : BOOLEAN]
Tables == [looked : SUBSET Inode, retry : SUBSET Inode, matches : SUBSET Entity,
           known : SUBSET Entity, cached : SUBSET (Entity \cup Disc)]

ASSUME ScenariosType == Scenarios \subseteq [settings : Configuration, db : Tables]

Source == {"AcoustID", "MusicBrainz", "Discogs"}

VARIABLES
  settings,   \* what is configured: an API key, auto_enrich, a Discogs token
  \* The Witch.
  spawned,    \* the scheduler's thread exists
  active,     \* ExternalFetchHandle.batch_active
  commands,   \* Start commands in the scheduler's channel
  finished,   \* AllDone messages in the Witch's channel
  pins,       \* where each ResolvePinForDir is
  \* The batch.
  open,       \* there is one
  queue,      \* its queues, per source
  flying,     \* requests in flight, and answers not yet handled: a bag
  done,       \* sources declared done
  heard,      \* mb_queued_ids and discogs_queued_ids
  \* The database.
  db, writes, \* its tables; what the DB thread has not applied
  \* Bounds and history.
  requests, trouble,
  tried,      \* what this batch has settled: answered, given up or cached
  skipped     \* its last step was to pass over a cached entity

witch == <<spawned, active, pins>>
batch == <<open, queue, flying, done, heard>>
store == <<db, writes>>
bounds == <<requests, trouble>>
history == <<tried, skipped>>
vars == <<settings, witch, commands, finished, batch, store, bounds, history>>

\* What a source is asked for.
Subject == [AcoustID |-> Inode, MusicBrainz |-> Entity, Discogs |-> Disc]

\* A queue item; only MusicBrainz items count their errors.
Item(s) == [of : Subject[s], errors : 0..MaxErrors]
Fresh(S) == [i \in DOMAIN S |-> [of |-> S[i], errors |-> 0]]

One(r) == SetToBag({r})

Answer == {"out", "found", "none", "limited", "error"}
Request == UNION {[source : {s}, item : Item(s), answer : Answer] : s \in Source}

\* A write to the DB thread: rows to insert, and retries to clear.
NoWrite == [looked |-> {}, retry |-> {}, clear |-> {}, matches |-> {}, known |-> {},
            cached |-> {}]

Write == [looked : SUBSET Inode, retry : SUBSET Inode, clear : SUBSET Inode,
          matches : SUBSET Entity, known : SUBSET Entity, cached : SUBSET (Entity \cup Disc)]

\* The DB thread is sent W; what writes nothing is not sent.
Send(w) ==
  IF w = NoWrite THEN UNCHANGED writes
  ELSE Len(writes) < MaxLag /\ writes' = Append(writes, w)

NoQueues == [s \in Source |-> <<>>]
InQueue(s) == {queue[s][i].of : i \in DOMAIN queue[s]}
InFlight(s) == {r.item.of : r \in {r \in BagToSet(flying) : r.source = s}}

TypeOK ==
  /\ settings \in Configuration
  /\ spawned \in BOOLEAN /\ active \in BOOLEAN /\ open \in BOOLEAN
  /\ commands \in Nat /\ finished \in Nat
  /\ pins \in [Pin -> {"idle", "queued", "waiting", "resolved"}]
  /\ DOMAIN queue = Source /\ \A s \in Source : queue[s] \in Seq(Item(s))
  /\ IsABag(flying) /\ BagToSet(flying) \subseteq Request
  /\ done \subseteq Source /\ writes \in Seq(Write) /\ Len(writes) <= MaxLag
  /\ heard \subseteq Entity \cup Disc
  /\ db \in Tables
  /\ requests \in 0..MaxRequests /\ trouble \in 0..MaxTrouble
  /\ tried \subseteq Inode \cup Entity \cup Disc /\ skipped \in BOOLEAN

Init ==
  /\ \E s \in Scenarios : settings = s.settings /\ db = s.db
  /\ spawned = FALSE /\ active = FALSE /\ commands = 0 /\ finished = 0
  /\ pins = [p \in Pin |-> "idle"]
  /\ open = FALSE /\ queue = NoQueues /\ flying = EmptyBag /\ done = {} /\ heard = {}
  /\ writes = <<>>
  /\ requests = 0 /\ trouble = 0 /\ tried = {} /\ skipped = FALSE

-----------------------------------------------------------------------------
(* The Witch.                                                              *)

\* Mutant: the guard of request_fetch is dropped.
AskAgain == active' = TRUE /\ commands' = commands + 1

\* request_fetch: requests are not stacked.
Ask ==
  IF active THEN UNCHANGED <<active, commands>>
  ELSE active' = TRUE /\ commands' = commands + 1

\* request_external_fetch, from the operator or from the linger.
RequestFetch ==
  /\ requests < MaxRequests /\ requests' = requests + 1
  /\ settings.api /\ ~active
  /\ spawned' = TRUE
  /\ Ask
  /\ UNCHANGED <<settings, finished, pins, batch, store, trouble, history>>

PinRelease(p) ==
  /\ pins[p] = "idle"
  /\ pins' = [pins EXCEPT ![p] = "queued"]
  /\ UNCHANGED <<settings, spawned, active, commands, finished, batch, store, bounds,
                 history>>

\* ResolvePinForDir runs on the pool.  A release that is cached is packed; for
\* another handle_fetch_requests seeds the known entities, stashes the
\* computation and asks for a fetch, if there is a thread to ask.
ResolvePin(p) ==
  /\ pins[p] = "queued"
  /\ IF p \in db.cached
     THEN /\ pins' = [pins EXCEPT ![p] = "resolved"]
          /\ UNCHANGED <<active, commands, writes>>
     ELSE /\ pins' = [pins EXCEPT ![p] = "waiting"]
          /\ Send([NoWrite EXCEPT !.known = {p}])
          /\ IF spawned THEN Ask ELSE UNCHANGED <<active, commands>>
  /\ UNCHANGED <<settings, spawned, finished, batch, db, bounds, history>>

\* Mutant: the stashed computations are left for another batch.
KeepWaiting == pins

\* post_fetch_computations is drained whatever the batch fetched.
AfterFetch == [p \in Pin |-> IF pins[p] = "waiting" THEN "queued" ELSE pins[p]]

WitchHearsAllDone ==
  /\ finished > 0 /\ finished' = finished - 1
  /\ active' = FALSE
  /\ pins' = AfterFetch
  /\ UNCHANGED <<settings, spawned, commands, batch, store, bounds, history>>

-----------------------------------------------------------------------------
(* The scheduler: a new batch.                                             *)

\* get_recording_ids_needing_mb_fetch, then get_known_entities_needing_fetch: a
\* recording that was matched is in both.
NeedsFetch == SetToSeq(db.matches \ db.cached) \o SetToSeq(db.known \ db.cached)

NeedsLookup == SetToSeq(Inode \ (db.looked \cup db.retry)) \o SetToSeq(db.retry)

Unfetched == SetToSeq((UNION {LinksTo[e] : e \in db.cached \cap Entity}) \ db.cached)

Populated ==
  [AcoustID    |-> IF settings.api THEN Fresh(NeedsLookup) ELSE <<>>,
   MusicBrainz |-> IF settings.enrich THEN Fresh(NeedsFetch) ELSE <<>>,
   Discogs     |-> IF settings.discogs THEN Fresh(Unfetched) ELSE <<>>]

\* The command Start.  A batch with nothing for AcoustID and MusicBrainz is over
\* at once.  (Start would extend an open batch, which StartFindsNoBatch excludes.)
Start ==
  /\ commands > 0 /\ commands' = commands - 1
  /\ ~open
  /\ IF Populated["AcoustID"] = <<>> /\ Populated["MusicBrainz"] = <<>>
     THEN /\ finished' = finished + 1
          /\ UNCHANGED <<open, queue, done, heard, tried>>
     ELSE /\ open' = TRUE
          /\ queue' = Populated
          /\ done' = {s \in Source : \/ s = "AcoustID" /\ ~settings.api
                                     \/ s = "MusicBrainz" /\ ~settings.enrich
                                     \/ s = "Discogs" /\ Populated[s] = <<>>}
          /\ heard' = {e \in Entity : \E i \in DOMAIN NeedsFetch :
                                        settings.enrich /\ NeedsFetch[i] = e}
                      \cup {d \in Disc : settings.discogs /\ Contains(Unfetched, d)}
          /\ tried' = {}
          /\ UNCHANGED finished
  /\ skipped' = FALSE
  /\ UNCHANGED <<settings, witch, flying, store, bounds>>

-----------------------------------------------------------------------------
(* The tick: a source whose limiter has a permit pops one item.  Which ones    *)
(* have is left open: a limiter only delays.                                   *)

\* A MusicBrainz item that is cached by now is passed over.
CacheHit(s) == s = "MusicBrainz" /\ Head(queue[s]).of \in db.cached

Pop(s) ==
  /\ open /\ queue[s] # <<>>
  /\ queue' = [queue EXCEPT ![s] = Tail(@)]
  /\ IF CacheHit(s)
     THEN /\ tried' = tried \cup {Head(queue[s]).of} /\ skipped' = TRUE
          /\ UNCHANGED flying
     ELSE /\ flying' = flying (+) One([source |-> s, item |-> Head(queue[s]), answer |-> "out"])
          /\ skipped' = FALSE
          /\ UNCHANGED tried
  /\ UNCHANGED <<settings, witch, commands, finished, open, done, heard, store, bounds>>

-----------------------------------------------------------------------------
(* Requests.                                                               *)

Known(r) ==
  CASE r.source = "AcoustID"    -> Matches[r.item.of] # {}
    [] r.source = "MusicBrainz" -> r.item.of \notin Absent
    [] r.source = "Discogs"     -> TRUE

\* A task that found a MusicBrainz entity or a Discogs release sends it to the
\* DB thread before it returns; AcoustID's answers are stored when handled.
Stored(r, answer) ==
  CASE answer = "found" /\ r.source = "MusicBrainz" ->
         [NoWrite EXCEPT !.cached = {r.item.of}, !.known = Discovers[r.item.of]]
    [] answer = "found" /\ r.source = "Discogs" ->
         [NoWrite EXCEPT !.cached = {r.item.of}]
    [] OTHER -> NoWrite

Reply(r, answer) ==
  /\ r.answer = "out"
  /\ answer \in {"limited", "error"} \/ answer = (IF Known(r) THEN "found" ELSE "none")
  /\ answer \in {"limited", "error"} => trouble < MaxTrouble
  /\ trouble' = IF answer \in {"limited", "error"} THEN trouble + 1 ELSE trouble
  /\ flying' = (flying (-) One(r)) (+) One([r EXCEPT !.answer = answer])
  /\ Send(Stored(r, answer))
  /\ UNCHANGED <<settings, witch, commands, finished, open, queue, done, heard,
                 db, requests, history>>

DbApply ==
  /\ writes # <<>>
  /\ LET w == Head(writes) IN
     db' = [looked  |-> db.looked \cup w.looked,
            retry   |-> (db.retry \ w.clear) \cup w.retry,
            matches |-> db.matches \cup w.matches,
            known   |-> db.known \cup w.known,
            cached  |-> db.cached \cup w.cached]
  /\ writes' = Tail(writes)
  /\ UNCHANGED <<settings, witch, commands, finished, batch, bounds, history>>

-----------------------------------------------------------------------------
(* An answer is handled, then the completion of each source is checked.    *)

\* What it chain-emits: recordings, entities, a Discogs release.
Emitted(r) ==
  IF r.answer # "found" THEN {} ELSE
  CASE r.source = "AcoustID" -> IF settings.enrich THEN Matches[r.item.of] ELSE {}
    [] r.source = "MusicBrainz" ->
         Discovers[r.item.of]
         \cup (IF settings.discogs /\ r.item.of \in db.cached
               THEN LinksTo[r.item.of] \ db.cached ELSE {})
    [] OTHER -> {}

New(r) == Emitted(r) \ heard

GoesBack(r) == r.answer = "error" /\ r.source = "MusicBrainz" /\ r.item.errors < MaxErrors

\* Mutant: a rate-limited item is not put back.
NotPutBack(r, q) ==
  IF GoesBack(r) THEN Append(q, [r.item EXCEPT !.errors = @ + 1]) ELSE q

\* Mutant: one retry too many.
PutBackOnceMore(r, q) ==
  CASE r.answer = "limited" -> <<r.item>> \o q
    [] r.answer = "error" /\ r.source = "MusicBrainz" /\ r.item.errors <= MaxErrors ->
         Append(q, [r.item EXCEPT !.errors = @ + 1])
    [] OTHER -> q

\* The item goes back to the front when rate-limited; a MusicBrainz item that
\* failed goes to the back a few times.
PutBack(r, q) ==
  CASE r.answer = "limited" -> <<r.item>> \o q
    [] GoesBack(r)          -> Append(q, [r.item EXCEPT !.errors = @ + 1])
    [] OTHER                -> q

Settled(r) == r.answer # "limited" /\ ~GoesBack(r)

\* The queues once r is handled.
Handled(r) ==
  [s \in Source |->
     (IF s = r.source THEN PutBack(r, queue[s]) ELSE queue[s])
     \o CASE s = "MusicBrainz" -> Fresh(SetToSeq(New(r) \cap Entity))
          [] s = "Discogs"     -> Fresh(SetToSeq(New(r) \cap Disc))
          [] OTHER             -> <<>>]

\* What an AcoustID answer stores.
LookupStored(r) ==
  IF r.source # "AcoustID" THEN NoWrite ELSE
  CASE r.answer = "found" -> [NoWrite EXCEPT !.looked = {r.item.of}, !.clear = {r.item.of},
                                             !.matches = Matches[r.item.of],
                                             !.known = Matches[r.item.of]]
    [] r.answer = "none"  -> [NoWrite EXCEPT !.looked = {r.item.of}, !.clear = {r.item.of}]
    [] r.answer = "error" -> [NoWrite EXCEPT !.retry = {r.item.of}]
    [] OTHER -> NoWrite

\* Emitting an item takes back that its source is done.
Reopened(r) ==
  done \ ((IF New(r) \cap Entity = {} THEN {} ELSE {"MusicBrainz"})
          \cup (IF New(r) \cap Disc = {} THEN {} ELSE {"Discogs"}))

Drained(s) == queue'[s] = <<>> /\ \A r \in BagToSet(flying') : r.source # s

\* Mutant: Discogs is done only if MusicBrainz was done before this answer.
DoneOneByOne(d) ==
  d \cup {s \in {"AcoustID", "MusicBrainz"} : Drained(s)}
    \cup (IF "MusicBrainz" \in d /\ Drained("Discogs") THEN {"Discogs"} ELSE {})

\* Discogs waits for MusicBrainz, which may still name releases.
DoneNow(d) ==
  LET mb == d \cup {s \in {"AcoustID", "MusicBrainz"} : Drained(s)} IN
  mb \cup (IF "MusicBrainz" \in mb /\ Drained("Discogs") THEN {"Discogs"} ELSE {})

Handle(r) ==
  /\ r.answer # "out"
  /\ queue' = Handled(r)
  /\ flying' = flying (-) One(r)
  /\ heard' = heard \cup New(r)
  /\ Send(LookupStored(r))
  /\ tried' = IF Settled(r) THEN tried \cup {r.item.of} ELSE tried
  /\ skipped' = FALSE
  /\ done' = DoneNow(Reopened(r))
  /\ IF done' = Source /\ flying' = EmptyBag
     THEN open' = FALSE /\ finished' = finished + 1
     ELSE UNCHANGED <<open, finished>>
  /\ UNCHANGED <<settings, witch, commands, db, bounds>>

-----------------------------------------------------------------------------

Replies == \E r \in BagToSet(flying), answer \in Answer \ {"out"} : Reply(r, answer)
Handles == \E r \in BagToSet(flying) : Handle(r)

Next ==
  \/ RequestFetch
  \/ \E p \in Pin : PinRelease(p) \/ ResolvePin(p)
  \/ WitchHearsAllDone
  \/ Start
  \/ \E s \in Source : Pop(s)
  \/ Replies \/ Handles
  \/ DbApply

\* The threads run; a request is answered or times out; a permit comes.
Fairness ==
  /\ WF_vars(WitchHearsAllDone) /\ WF_vars(Start)
  /\ WF_vars(Replies) /\ WF_vars(Handles) /\ WF_vars(DbApply)
  /\ \A s \in Source : WF_vars(Pop(s))
  /\ \A p \in Pin : WF_vars(ResolvePin(p))

Spec == Init /\ [][Next]_vars /\ Fairness

-----------------------------------------------------------------------------
(* Properties.                                                             *)

\* Start is only ever sent to a scheduler that has closed its batch and whose
\* AllDone the Witch has heard: batch_active keeps both sides in step.
StartFindsNoBatch ==
  /\ commands + finished <= 1
  /\ commands + finished = 1 => ~open

\* While a batch is open, whatever it has heard of is queued, asked for or
\* settled: no rate limit, error or chain of discoveries drops an item.
NothingForgotten ==
  open => \A e \in heard : \/ e \in tried
                           \/ \E s \in Source : e \in InQueue(s) \cup InFlight(s)

\* Entities that name each other do not keep a batch going for ever, and
\* completion is only checked when an answer is handled: a batch that does not
\* close has just passed over a cached entity.
BatchDrains == open ~> ~open \/ skipped

\* A computation that waits for a fetch is queued again when the batch that is
\* active is over.
PinAnswered ==
  \A p \in Pin : pins[p] = "waiting" /\ active ~> pins[p] # "waiting" \/ skipped

=============================================================================
