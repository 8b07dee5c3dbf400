---------------------------- MODULE MetricsWriter ----------------------------
(***************************************************************************)
(* The batched writer of crates/metrics-store: producers push samples in a *)
(* bounded queue, one dedicated thread drains them in batches and commits  *)
(* each batch in one redb write transaction, allocating a series_id to a   *)
(* series it meets for the first time; shutdown() stops that thread with a *)
(* sentinel put in the queue.  The process may crash and reopen the base.  *)
(*                                                                         *)
(* The n-th sample ever accepted is written n; its identity is sent[n] and *)
(* n also stands for its timestamp (every sample has its own).  Values are *)
(* left out: what matters is under which series a sample is found.         *)
(***************************************************************************)
EXTENDS Naturals, Sequences, FiniteSets, Sifting

CONSTANTS Identity,       \* (metric, labels in the producer's order)
          Series,         \* (metric, canonical labels): a series_by_key key
          SeriesOf,       \* canonical_json + make_lookup_key: [Identity -> Series]
          Print64,        \* values of the u64 fingerprint
          PrintOf,        \* series_fingerprint: [Identity -> Print64], may collide
          CacheCapacity,  \* SERIES_CACHE_CAPACITY
          QueueDepth,     \* Options.writer_queue_depth
          BatchMax,       \* WriterConfig.batch_max
          SendTries,      \* attempts of shutdown() to enqueue the sentinel
          MaxId,          \* u32::MAX
          Callers,        \* threads that call shutdown() (explicitly or by Drop)
          StorageFaults,  \* redb calls that may fail: subset of FaultPoints
          MaxSamples,     \* bound: samples ever accepted
          MaxCrashes      \* bound: crashes of the process

FaultPoints == {"load", "begin", "apply", "commit"}

ASSUME WriterAssumption ==
    /\ SeriesOf \in [Identity -> Series]
    /\ PrintOf \in [Identity -> Print64]
    /\ CacheCapacity \in Nat \ {0}
    /\ QueueDepth \in Nat \ {0}
    /\ BatchMax \in Nat \ {0}
    /\ SendTries \in Nat \ {0}
    /\ MaxId \in Nat \ {0}
    /\ StorageFaults \subseteq FaultPoints
    /\ MaxSamples \in Nat
    /\ MaxCrashes \in Nat

VARIABLES
    queue,      \* the mpsc channel: sample numbers, and Shutdown
    pc,         \* where the writer thread is
    batch,      \* the Vec<Sample> being filled or committed
    pos,        \* next sample of batch to apply
    stop,       \* drain's second result
    cache,      \* the LRU cache: pairs <<identity, series_id>>
    nextId,     \* the thread's next_id
    idStart,    \* next_id_start
    dirty,      \* next_id_dirty
    txn,        \* the tables as the open write transaction sees them
    db,         \* the committed tables
    caller,     \* where each caller of shutdown() is
    tries,      \* attempts left to the caller that sends the sentinel
    hasSender,  \* shutdown_tx is still Some
    hasHandle,  \* writer_handle is still Some
    sent,       \* history: identities of the accepted samples, in order
    dropped,    \* history: samples of the batches that failed
    crashLost,  \* history: samples lost when the process or the thread died
    stopLost,   \* history: samples this thread left behind when it stopped
    mark,       \* history: samples accepted before this thread's sentinel
    early,      \* history: a batch left commit_batch by an early `?`
    crashes     \* number of crashes so far

threadVars == <<pc, batch, pos, stop, cache, nextId, idStart, dirty, txn>>
stopVars   == <<caller, tries, hasSender, hasHandle>>
histVars   == <<sent, dropped, crashLost, stopLost, mark, early, crashes>>
vars       == <<queue, threadVars, db, stopVars, histVars>>

Shutdown == 0                       \* the sentinel WriterMsg::Shutdown
Absent   == 0                       \* no id under this key
IsSample(m) == m # Shutdown

ToSet(s) == {s[j] : j \in 1 .. Len(s)}

(* The tables: series_by_key, series_meta, metrics_raw, and the next_series_id *)
(* of the meta table (1 when the key is missing, as load_next_id reads it).    *)
EmptyTables == [byKey |-> [s \in Series |-> Absent],
                meta  |-> {},
                raw   |-> {},
                next  |-> 1]

PcStates == {"load", "recv", "fill", "begin", "apply", "commit", "settled", "done"}
CallerStates == {"idle", "sending", "join", "joining", "returned"}

(* rx is dropped when the thread function returns: sends then fail Closed. *)
Closed == pc = "done"

InFlight == batch \o Sifted(queue, Shutdown)
-----------------------------------------------------------------------------
StartedThread ==
    /\ pc = "load" /\ batch = <<>> /\ pos = 1 /\ stop = FALSE
    /\ cache = {} /\ nextId = 1 /\ idStart = 1 /\ dirty = FALSE
    /\ txn = EmptyTables

Init == /\ queue = <<>>
        /\ StartedThread
        /\ db = EmptyTables
        /\ caller = [c \in Callers |-> "idle"]
        /\ tries = SendTries
        /\ hasSender = TRUE /\ hasHandle = TRUE
        /\ sent = <<>> /\ dropped = {} /\ crashLost = {} /\ stopLost = {}
        /\ mark = MaxSamples      \* no sentinel yet
        /\ early = FALSE
        /\ crashes = 0

-----------------------------------------------------------------------------
(* Producers: write, try_write and blocking_write succeed alike when there *)
(* is room.  A try_write that finds the queue full changes nothing, the    *)
(* other two wait.                                                         *)

Accept(i) ==
    /\ Len(sent) < MaxSamples
    /\ ~Closed
    /\ Len(queue) < QueueDepth
    /\ sent' = Append(sent, i)
    /\ queue' = Append(queue, Len(sent) + 1)
    /\ UNCHANGED <<threadVars, db, stopVars, dropped, crashLost, stopLost, mark,
                   early, crashes>>

-----------------------------------------------------------------------------
(* The writer thread.                                                      *)

Queued == {m \in ToSet(queue) : IsSample(m)}

(* The thread returns after the sentinel: the receiver is dropped with     *)
(* what is still queued behind it.                                         *)
ThreadStops == /\ pc' = "done"
               /\ queue' = <<>>
               /\ stopLost' = stopLost \cup Queued

LoadNextId ==
    /\ pc = "load"
    /\ \/ /\ nextId' = db.next
          /\ pc' = "recv"
          /\ UNCHANGED <<queue, crashLost>>
       \/ /\ "load" \in StorageFaults
          /\ pc' = "done"
          /\ queue' = <<>>
          /\ crashLost' = crashLost \cup Queued
          /\ UNCHANGED nextId
    /\ UNCHANGED <<batch, pos, stop, cache, idStart, dirty, txn, db, stopVars,
                   sent, dropped, stopLost, mark, early, crashes>>

(* blocking_recv, the first message of a batch.                            *)
RecvFirst ==
    /\ pc = "recv" /\ queue # <<>>
    /\ IF IsSample(Head(queue))
         THEN /\ batch' = <<Head(queue)>>
              /\ queue' = Tail(queue)
              /\ pc' = "fill"
              /\ UNCHANGED stopLost
         ELSE ThreadStops /\ UNCHANGED batch
    /\ UNCHANGED <<pos, stop, cache, nextId, idStart, dirty, txn, db, stopVars,
                   sent, dropped, crashLost, mark, early, crashes>>

(* Variant: the sentinel ends the batch but not the thread.                *)
RecvMoreForgetsStop ==
    /\ pc = "fill" /\ Len(batch) < BatchMax /\ queue # <<>>
    /\ queue' = Tail(queue)
    /\ IF IsSample(Head(queue)) THEN batch' = Append(batch, Head(queue)) /\ UNCHANGED pc
                                ELSE pc' = "begin" /\ UNCHANGED batch
    /\ UNCHANGED <<stop, pos, cache, nextId, idStart, dirty, txn, db, stopVars, histVars>>

(* Variant: the sentinel discards the batch being filled.                  *)
RecvMoreDiscards ==
    /\ pc = "fill" /\ Len(batch) < BatchMax /\ queue # <<>>
    /\ queue' = Tail(queue)
    /\ IF IsSample(Head(queue))
         THEN batch' = Append(batch, Head(queue)) /\ UNCHANGED <<stop, pc>>
         ELSE stop' = TRUE /\ pc' = "settled" /\ batch' = <<>>
    /\ UNCHANGED <<pos, cache, nextId, idStart, dirty, txn, db, stopVars, histVars>>

(* try_recv inside the flush window; an empty queue is only waited on.     *)
RecvMore ==
    /\ pc = "fill" /\ Len(batch) < BatchMax /\ queue # <<>>
    /\ queue' = Tail(queue)
    /\ IF IsSample(Head(queue))
         THEN batch' = Append(batch, Head(queue)) /\ UNCHANGED <<stop, pc>>
         ELSE stop' = TRUE /\ pc' = "begin" /\ UNCHANGED batch
    /\ UNCHANGED <<pos, cache, nextId, idStart, dirty, txn, db, stopVars, histVars>>

(* Variant: no flush window, a batch waits until it is full.               *)
EndDrainWhenFull ==
    /\ pc = "fill" /\ Len(batch) = BatchMax
    /\ pc' = "begin"
    /\ UNCHANGED <<queue, batch, pos, stop, cache, nextId, idStart, dirty, txn,
                   db, stopVars, histVars>>

(* The batch is full, or flush_ms elapsed, which may happen at any time.   *)
EndDrain ==
    /\ pc = "fill"
    /\ pc' = "begin"
    /\ UNCHANGED <<queue, batch, pos, stop, cache, nextId, idStart, dirty, txn,
                   db, stopVars, histVars>>

(* A batch that fails is logged and forgotten.                             *)
FailBatch == /\ dropped' = dropped \cup ToSet(batch)
             /\ batch' = <<>>
             /\ pc' = "settled"

(* begin_write and the open_table calls, before anything is touched.       *)
BeginWrite ==
    /\ pc = "begin"
    /\ \/ /\ pc' = "apply"
          /\ txn' = db /\ pos' = 1 /\ idStart' = nextId /\ dirty' = FALSE
          /\ UNCHANGED <<batch, dropped>>
       \/ /\ "begin" \in StorageFaults
          /\ FailBatch
          /\ UNCHANGED <<txn, pos, idStart, dirty>>
    /\ UNCHANGED <<queue, stop, cache, nextId, db, stopVars, sent, crashLost,
                   stopLost, mark, early, crashes>>

(* cache.put: an entry of the same fingerprint is replaced, and a full     *)
(* cache evicts one entry (the least recently used one; which one that is  *)
(* is left open).                                                          *)
CachePut(i, id) ==
    LET others == {e \in cache : PrintOf[e[1]] # PrintOf[i]}
    IN  IF Cardinality(others) < CacheCapacity
          THEN cache' = others \cup {<<i, id>>}
          ELSE \E victim \in others : cache' = (others \ {victim}) \cup {<<i, id>>}

(* The sample is inserted in metrics_raw under the resolved series_id.     *)
InsertRaw(id, tables) == txn' = [tables EXCEPT !.raw = @ \cup {<<id, batch[pos]>>}]

(* Variant: a hit on the fingerprint alone, without comparing identities.  *)
CacheHitOnPrint(i) ==
    \E e \in cache : /\ PrintOf[e[1]] = PrintOf[i]
                     /\ InsertRaw(e[2], txn)
                     /\ UNCHANGED <<cache, nextId, dirty>>

CacheHit(i) ==
    \E e \in cache : /\ e[1] = i
                     /\ InsertRaw(e[2], txn)
                     /\ UNCHANGED <<cache, nextId, dirty>>

KnownSeries(i) ==
    /\ txn.byKey[SeriesOf[i]] # Absent
    /\ CachePut(i, txn.byKey[SeriesOf[i]])
    /\ InsertRaw(txn.byKey[SeriesOf[i]], txn)
    /\ UNCHANGED <<nextId, dirty>>

NewSeries(i) ==
    /\ txn.byKey[SeriesOf[i]] = Absent
    /\ nextId < MaxId
    /\ nextId' = nextId + 1
    /\ dirty' = TRUE
    /\ CachePut(i, nextId)
    /\ InsertRaw(nextId, [txn EXCEPT !.byKey = [@ EXCEPT ![SeriesOf[i]] = nextId],
                                     !.meta = @ \cup {<<nextId, SeriesOf[i]>>}])

Cached(i) == \E e \in cache : e[1] = i

(* One turn of the loop of commit_batch.                                   *)
ApplySample ==
    /\ pc = "apply" /\ pos <= Len(batch)
    /\ LET i == sent[batch[pos]]
       IN  \/ CacheHit(i)
           \/ ~Cached(i) /\ KnownSeries(i)
           \/ ~Cached(i) /\ NewSeries(i)
    /\ pos' = pos + 1
    /\ UNCHANGED <<queue, pc, batch, stop, idStart, db, stopVars, histVars>>

(* The identity of the sample is resolved and cached, perhaps under a new  *)
(* id, when the sample cannot be inserted.                                 *)
CachedInVain(i) ==
    /\ ~Cached(i)
    /\ \/ /\ txn.byKey[SeriesOf[i]] # Absent
          /\ CachePut(i, txn.byKey[SeriesOf[i]])
          /\ UNCHANGED nextId
       \/ /\ txn.byKey[SeriesOf[i]] = Absent /\ nextId < MaxId
          /\ CachePut(i, nextId)
          /\ nextId' = nextId + 1

(* An id is taken for a series that cannot be inserted.                    *)
TakenInVain(i) ==
    /\ ~Cached(i) /\ txn.byKey[SeriesOf[i]] = Absent /\ nextId < MaxId
    /\ nextId' = nextId + 1
    /\ UNCHANGED cache

Overflows(i) ==
    /\ ~Cached(i) /\ txn.byKey[SeriesOf[i]] = Absent /\ nextId = MaxId
    /\ UNCHANGED <<cache, nextId>>

(* A redb call fails inside the loop or, to write next_series_id, after    *)
(* it, or next_id.checked_add overflows: `?` leaves commit_batch, the      *)
(* transaction is dropped, but neither the cache nor next_id goes back to  *)
(* what it was.                                                            *)
EarlyError ==
    /\ pc = "apply"
    /\ \/ /\ pos <= Len(batch)
          /\ LET i == sent[batch[pos]]
             IN  \/ Overflows(i)
                 \/ /\ "apply" \in StorageFaults
                    /\ TakenInVain(i) \/ CachedInVain(i) \/ UNCHANGED <<cache, nextId>>
       \/ /\ pos > Len(batch) /\ dirty
          /\ "apply" \in StorageFaults
          /\ UNCHANGED <<cache, nextId>>
    /\ FailBatch
    /\ early' = TRUE
    /\ UNCHANGED <<queue, pos, stop, idStart, dirty, txn, db, stopVars,
                   sent, crashLost, stopLost, mark, crashes>>

(* The write of next_series_id, when an id was allocated.                  *)
EndApply ==
    /\ pc = "apply" /\ pos > Len(batch)
    /\ pc' = "commit"
    /\ txn' = IF dirty THEN [txn EXCEPT !.next = nextId] ELSE txn
    /\ UNCHANGED <<queue, batch, pos, stop, cache, nextId, idStart, dirty, db,
                   stopVars, histVars>>

Commit ==
    /\ pc = "commit"
    /\ db' = txn
    /\ batch' = <<>>
    /\ pc' = "settled"
    /\ UNCHANGED <<queue, pos, stop, cache, nextId, idStart, dirty, txn,
                   stopVars, histVars>>

(* Variant: the cache and next_id survive the failed commit (before R1).   *)
CommitErrorKeepsCache ==
    /\ pc = "commit" /\ "commit" \in StorageFaults
    /\ FailBatch
    /\ UNCHANGED <<queue, pos, stop, cache, nextId, idStart, dirty, txn, db, stopVars,
                   sent, crashLost, stopLost, mark, early, crashes>>

(* Variant: the failed batch goes back to the queue, behind the rest.      *)
CommitErrorRequeues ==
    /\ pc = "commit" /\ "commit" \in StorageFaults
    /\ nextId' = idStart
    /\ cache' = {}
    /\ queue' = queue \o batch /\ batch' = <<>>
    /\ pc' = "settled"
    /\ UNCHANGED <<pos, stop, idStart, dirty, txn, db, stopVars, histVars>>

(* R1: the transaction is undone; so are the cache and next_id.            *)
CommitError ==
    /\ pc = "commit" /\ "commit" \in StorageFaults
    /\ nextId' = idStart
    /\ cache' = {}
    /\ FailBatch
    /\ UNCHANGED <<queue, pos, stop, idStart, dirty, txn, db, stopVars,
                   sent, crashLost, stopLost, mark, early, crashes>>

(* The end of a turn of run's loop.                                        *)
NextTurn ==
    /\ pc = "settled"
    /\ IF stop THEN ThreadStops
               ELSE pc' = "recv" /\ UNCHANGED <<queue, stopLost>>
    /\ UNCHANGED <<batch, pos, stop, cache, nextId, idStart, dirty, txn, db,
                   stopVars, sent, dropped, crashLost, mark, early, crashes>>

WriterStep == LoadNextId \/ RecvFirst \/ RecvMore \/ EndDrain \/ BeginWrite
              \/ ApplySample \/ EarlyError \/ EndApply \/ Commit \/ CommitError
              \/ NextTurn
-----------------------------------------------------------------------------
(* Inner::shutdown_writer.  The guards of the two mutexes live as long as  *)
(* the `if let` bodies: a caller in "sending" holds shutdown_tx, one in    *)
(* "joining" holds writer_handle.                                          *)

Moves(c, state) == caller' = [caller EXCEPT ![c] = state]

TakeSender(c) ==
    /\ caller[c] = "idle"
    /\ \A d \in Callers : caller[d] # "sending"
    /\ IF hasSender THEN Moves(c, "sending") /\ tries' = SendTries
                    ELSE Moves(c, "join") /\ UNCHANGED tries
    /\ hasSender' = FALSE
    /\ UNCHANGED <<queue, threadVars, db, hasHandle, histVars>>

(* Variant: the attempts are not counted down to the end of the loop.      *)
TrySendWithoutEnd(c) ==
    /\ caller[c] = "sending" /\ ~Closed
    /\ IF Len(queue) < QueueDepth
         THEN queue' = Append(queue, Shutdown) /\ mark' = Len(sent)
              /\ Moves(c, "join") /\ UNCHANGED tries
         ELSE tries' = tries - 1 /\ UNCHANGED <<queue, mark, caller>>
    /\ UNCHANGED <<threadVars, db, hasSender, hasHandle, sent, dropped, crashLost,
                   stopLost, early, crashes>>

(* One try_send of the sentinel; after the last one it is given up.        *)
TrySendShutdown(c) ==
    /\ caller[c] = "sending"
    /\ IF Closed
         THEN Moves(c, "join") /\ UNCHANGED <<queue, tries, mark>>
         ELSE IF Len(queue) < QueueDepth
           THEN /\ queue' = Append(queue, Shutdown)
                /\ mark' = Len(sent)
                /\ Moves(c, "join")
                /\ UNCHANGED tries
           ELSE /\ tries' = tries - 1
                /\ IF tries = 1 THEN Moves(c, "join") ELSE UNCHANGED caller
                /\ UNCHANGED <<queue, mark>>
    /\ UNCHANGED <<threadVars, db, hasSender, hasHandle, sent, dropped, crashLost,
                   stopLost, early, crashes>>

(* Variant: the mutex is released before join.                             *)
TakeHandleUnlocked(c) ==
    /\ caller[c] = "join"
    /\ Moves(c, IF hasHandle THEN "joining" ELSE "returned")
    /\ hasHandle' = FALSE
    /\ UNCHANGED <<queue, threadVars, db, tries, hasSender, histVars>>

TakeHandle(c) ==
    /\ caller[c] = "join"
    /\ \A d \in Callers : caller[d] # "joining"
    /\ Moves(c, IF hasHandle THEN "joining" ELSE "returned")
    /\ hasHandle' = FALSE
    /\ UNCHANGED <<queue, threadVars, db, tries, hasSender, histVars>>

Joined(c) ==
    /\ caller[c] = "joining"
    /\ pc = "done"
    /\ Moves(c, "returned")
    /\ UNCHANGED <<queue, threadVars, db, tries, hasSender, hasHandle, histVars>>

CallerStep(c) == TakeSender(c) \/ TrySendShutdown(c) \/ TakeHandle(c) \/ Joined(c)
-----------------------------------------------------------------------------
(* The process dies (crash, power loss, or exit after shutdown) and starts *)
(* again: MetricsStore::open on the committed tables.                      *)
Crash ==
    /\ crashes < MaxCrashes
    /\ crashes' = crashes + 1
    /\ crashLost' = crashLost \cup stopLost \cup ToSet(batch) \cup Queued
    /\ stopLost' = {} /\ mark' = MaxSamples
    /\ queue' = <<>>
    /\ pc' = "load" /\ batch' = <<>> /\ pos' = 1 /\ stop' = FALSE
    /\ cache' = {} /\ nextId' = 1 /\ idStart' = 1 /\ dirty' = FALSE
    /\ txn' = EmptyTables
    /\ caller' = [c \in Callers |-> "idle"]
    /\ tries' = SendTries /\ hasSender' = TRUE /\ hasHandle' = TRUE
    /\ UNCHANGED <<db, sent, dropped, early>>

Next == \/ \E i \in Identity : Accept(i)
        \/ WriterStep
        \/ \E c \in Callers : CallerStep(c)
        \/ Crash

Spec == Init /\ [][Next]_vars

(* The writer thread and the callers of shutdown() are OS threads: each of *)
(* them keeps running.  Producers and crashes are never obliged.  The      *)
(* flush window ends by itself, so EndDrain needs no help from a producer. *)
FairSpec == /\ Spec
            /\ WF_vars(WriterStep)
            /\ \A c \in Callers : WF_vars(CallerStep(c))
-----------------------------------------------------------------------------
(* Shapes of the state.                                                    *)
Tables == [byKey : [Series -> Nat], meta : SUBSET (Nat \X Series),
           raw : SUBSET (Nat \X Nat), next : Nat]

(* Every variable holds a value of the kind the code keeps in it.          *)
TypeOK ==
    /\ queue \in Seq(Nat) /\ batch \in Seq(Nat)
    /\ pc \in PcStates /\ pos \in Nat /\ stop \in BOOLEAN
    /\ cache \subseteq Identity \X Nat
    /\ nextId \in Nat /\ idStart \in Nat /\ dirty \in BOOLEAN
    /\ txn \in Tables /\ db \in Tables
    /\ caller \in [Callers -> CallerStates]
    /\ tries \in Nat /\ hasSender \in BOOLEAN /\ hasHandle \in BOOLEAN
    /\ sent \in Seq(Identity)
    /\ dropped \subseteq Nat /\ crashLost \subseteq Nat /\ stopLost \subseteq Nat
    /\ mark \in Nat /\ early \in BOOLEAN /\ crashes \in Nat

(* Every committed point lies under the series_id that series_by_key gives *)
(* the series its producer named: commit_batch never files a sample under  *)
(* another series, or under an id no catalogue entry mentions, whatever    *)
(* the cache, fingerprint collisions, failed commits and restarts do.      *)
SeriesIdentity ==
    \A p \in db.raw : db.byKey[SeriesOf[sent[p[2]]]] = p[1]

(* The catalogue: two series never share a series_id, series_meta and      *)
(* series_by_key agree, and no id in use will be handed out again after a  *)
(* restart (next_series_id is beyond all of them).                         *)
CatalogueSound ==
    /\ \A s, t \in Series :
          db.byKey[s] # Absent /\ db.byKey[s] = db.byKey[t] => s = t
    /\ db.meta = {<<db.byKey[s], s>> : s \in {t \in Series : db.byKey[t] # Absent}}
    /\ \A s \in Series : db.byKey[s] < db.next

(* SeriesIdentity and CatalogueSound hold as long as no batch has left     *)
(* commit_batch by an early `?` (see EarlyError): failures of begin_write  *)
(* and of commit, crashes and collisions do not break them (R1).           *)
IdentityUnlessEarly == early \/ (SeriesIdentity /\ CatalogueSound)

(* What a reader finds (lookup_series_id, then the points under that id).  *)
ReaderView == {p \in Series \X (1 .. Len(sent)) :
                  /\ db.byKey[p[1]] # Absent
                  /\ <<db.byKey[p[1]], p[2]>> \in db.raw}

Committed == {p[2] : p \in db.raw}

(* Exactly-once accounting: an accepted sample is in flight, committed, in *)
(* a failed batch or lost by a stop or a crash, one of them only, and it   *)
(* is in flight and in the raw table at most once.                         *)
EachSampleInOnePlace ==
    LET flying == ToSet(InFlight)
        places == <<flying, Committed, dropped, crashLost, stopLost>>
    IN  /\ UNION {places[k] : k \in 1 .. 5} = 1 .. Len(sent)
        /\ \A j, k \in 1 .. 5 : j < k => places[j] \cap places[k] = {}
        /\ Len(InFlight) = Cardinality(flying)
        /\ Cardinality(db.raw) = Cardinality(Committed)

(* Samples become durable in the order of acceptance: nothing in flight is *)
(* older than a sample already committed, in a failed batch or not.  A     *)
(* stop is clean: every sample accepted before the sentinel went through a *)
(* batch before the thread ended; only later ones may be left behind.      *)
CommittedInOrder ==
    /\ \A m \in ToSet(InFlight) : \A n \in Committed \cup dropped : n < m
    /\ \A n \in stopLost : n > mark

(* No call of shutdown(), concurrent ones included, returns while the      *)
(* writer thread still runs: the redb lock is free when it does.           *)
ShutdownMeansStopped ==
    \A c \in Callers : caller[c] = "returned" => pc = "done"

(* Every accepted sample eventually leaves the queue and its batch, even   *)
(* when no other sample ever follows it (the flush window).                *)
AcceptedSamplesSettle ==
    \A n \in 1 .. MaxSamples : (n \in ToSet(InFlight)) ~> (n \notin ToSet(InFlight))

(* Once the sentinel is in the queue, the callers of shutdown() return,     *)
(* unless the process ends first.                                          *)
QueuedSentinelEndsShutdown ==
    \A c \in Callers :
        (Shutdown \in ToSet(queue) /\ caller[c] # "idle")
            ~> (caller[c] \in {"returned", "idle"})

(* shutdown() always returns: lib.rs and writer.rs say that the sentinel   *)
(* keeps join() from blocking forever.                                     *)
ShutdownReturns ==
    \A c \in Callers : (caller[c] = "sending") ~> (caller[c] = "returned")

(* The writer implements SampleStore until a batch leaves commit_batch by  *)
(* an early `?`: what a reader resolves through the catalogue is what the  *)
(* producers were promised.                                                *)
Store == INSTANCE SampleStore WITH inFlight <- InFlight, readable <- ReaderView
StoreSpec == Store!Init /\ [][Store!Next \/ early']_(Store!storeVars)
=============================================================================
