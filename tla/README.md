# G-Clay: models, checks and proofs

This directory is the verification companion of G-Clay: a Ceph (v15.2.17)
overlay that adds the erasure-code plugin *myclay*, a Clay code whose
sub-chunks are stored in a Gray-code order so that the sub-chunks a repair
reads are close together, and the changes to the OSD's erasure-coded backend
that go with it.  The modules are written from the source, file and lines are
in `PROJECT.json` ("map").

## 1. Inventory

Paths are relative to `src/` of the repository.

| component | state it keeps | operations | what makes it correct |
|---|---|---|---|
| `erasure-code/myclay/ErasureCodeMyClay` encode/decode | `order`, `order_ind`, `U_buf` (survives calls) | `init`, `parse`, `encode_chunks`, `decode_chunks`, `decode_layered` and its helpers | every sub-chunk read is already right; `decode` restores what `encode` made, every chunk in its reorganised place; what `encode` makes of the data chunks is their content |
| the same, repair | `U_buf`, helper buffers, recovered chunk | `is_repair`, `minimum_to_repair`, `get_repair_subchunks`, `repair`, `repair_one_lost_chunk` | exactly the repair planes are read, the lost chunk is rebuilt |
| `osd/ECBackend` reads | `tid_to_read_map`, `shard_to_read_map`, per-read `in_progress`, `complete` | `start_read_op`, `do_read_op`, `handle_sub_read`, `handle_sub_read_reply`, `send_all_remaining_reads`, `filter_read_op`, `check_recovery_sources`, `on_change` | every read completes once; no buffer is decoded that was not read completely; retries end |
| `osd/ECBackend` recovery | `recovery_ops` | `recover_object`, `run_recovery_op`, `continue_recovery_op`, `handle_recovery_read_complete`, `handle_recovery_push`, `handle_recovery_push_reply` | an object counts as recovered on a shard only when all of it has been pushed; the op ends |
| `osd/ECBackend` writes | `waiting_state`, `waiting_reads`, `waiting_commit`, `tid_to_op_map`, `completed_to`, `committed_to`, cache | `submit_transaction`, `start_rmw`, `try_state_to_reads`, `try_reads_to_commit`, `try_finish_rmw`, `handle_sub_write`, `handle_sub_write_reply`, `call_write_ordered`, `on_change` | commit order, one acknowledgement after all shards, roll-forward never ahead of commit |
| `osd/ECBackend` client reads | `in_progress_client_reads` | `objects_read_async`, `objects_read_and_reconstruct`, `kick_reads`, `CallClientContexts` | answers are delivered in the order asked, with the extents asked |
| `osd/ECBackend` hash info, deep scrub | `unstable_hashinfo_registry` | `get_hash_info`, `be_deep_scrub` | a scrub resumes where it stopped |
| `osd/PrimaryLogPG` client operations | the op queue, `waiting_for_*`, object locks, `in_progress_async_reads`, `repop_queue`, the log | `do_request`, `do_op`, `execute_ctx`, `issue_repop`, `eval_repop`, `on_activate_complete`, `on_flushed`, `on_change`, the `requeue_*` and `kick_*` helpers | a client's writes happen once and in its order; answers are durable, reads current; nothing waits for ever |
| `osd/PrimaryLogPG` recovery and backfill | missing sets, `recovering`, `last_requested`, `backfill_info`, `peer_backfill_info`, `last_backfill_started`, `backfills_in_flight` | `start_recovery_ops`, `recover_primary`, `recover_replicas`, `recover_backfill`, `do_scan`, `do_backfill`, `on_local_recover`, `on_global_recover`, `on_failed_pull`, `cancel_pull`, `mark_all_unfound_lost` | a peer never claims to be backfilled further than it is; everything is recovered in the end |
| `osd/PrimaryLogPG` snapshots | `SnapSet`s, clones, statistics, `snap_trimq`, `purged_snaps`, the `SnapTrimmer` machine, the scrubber's position | `make_writeable`, `_delete_oid`, `_rollback_to`, `do_osd_ops`, `find_object_context`, `trim_object`, the trimmer's states, `scrub_snapshot_metadata` | a snapshot reads as when it was taken; `clone_overlap` is true; the statistics are those of the objects; removed snapshots are trimmed |
| `osd/PrimaryLogPG` tiering | proxied ops, `copy_ops`, `flush_ops`, blocked objects, `agent_state`, dirty flags and whiteouts | `maybe_handle_cache_detail`, `do_proxy_*`, `promote_object`, `start_copy`, `start_flush`, `try_flush_mark_clean`, `agent_work`, `agent_choose_mode`, `on_change` | no update is lost between the tiers; what is clean is in the base pool; order is kept; nothing waits for ever |
| `osd/PrimaryLogPG` `FillInVerifyExtent` (the G-Clay change) | - | puts the data of a client read back in order | the client reads the bytes it wrote |
| `osd/PrimaryLogPG` watch/notify, repair of read errors, hit set objects | watchers, hit sets | `do_osd_op_effects`, `rep_repair_primary_object`, `hit_set_persist`, ... | - |
| `erasure-code/jerasure/ErasureCodeJerasure` | `k`, `m`, `w` | `parse`, `get_chunk_size`, ... | parameters that the library accepts |
| `gray/` | - | `brgc.cpp`, `main.cpp`, `Perm.h` | neighbours of the generated order differ in one digit |
| `common/options.cc` | - | configuration table | - |
| `analyze/`, `experiment/`, `deploy/`, `install-src.sh` | - | log analysis, scripts, binaries | - |

How they interact: the client's op reaches `PrimaryLogPG`, which calls
`ECBackend` for reads and writes; `ECBackend` on the primary sends
`MOSDECSubOpRead/Write` to the shards' `ECBackend`s, and calls the plugin
(through `ECUtil`) to encode and decode; recovery is started by
`PrimaryLogPG::recover_*` and reported back through
`on_local_recover`/`on_global_recover`/`on_failed_pull`.  A client operation,
a recovery, a snap trim, a scrub and the tier agent meet on the same objects:
each may have to wait for the others' locks or for the object to be rebuilt,
and is put back in the PG's queue by whatever it waited for.  All state of a
placement group is touched under the PG lock, so concurrency is the
interleaving of messages, object-store completions and map changes; what is
hard is their order, their loss at an interval change, and one failing among
many.

## 2. Modules

| module | of | models |
|---|---|---|
| `ClayGeometry` | plugin | nodes as `(x, y)`, planes as digit vectors, pairs, orders of planes, `order`/`order_ind` |
| `ErasureCodec` | plugin | abstract: what `encode` and `decode` do for each other, with the chunks' buffers, and `Verbatim`, what the interface says besides |
| `MyClay` | plugin | `encode_chunks`, `decode_chunks`, `decode_layered`; EXTENDS `ClayGeometry`, implements `ErasureCodec` |
| `MyClayRepair` | plugin | a repair from `minimum_to_decode` over the reads to the recovered chunk; EXTENDS `ClayGeometry`, implements `ErasureCodec` |
| `MyClayPlugin` | plugin | composes the two: the calls on one plugin instance, with the one `U_buf` they share; implements `ErasureCodec` |
| `MyClayProofs` | plugin | the theorems about `MyClay` |
| `MyClayRepairProofs` | plugin | the theorems about `MyClayRepair` |
| `ECWrite` | `ECBackend`, `PrimaryLogPG` | the write pipeline with the log updates of `submit_log_entries` |
| `CommitLog` | placement group | abstract: versions are appended and acknowledged in order, none acknowledged is lost; `ECWrite` implements it |
| `ECWriteProofs` | | the theorems about `ECWrite`: types, roll-forward, acknowledgement; its log, and that it implements `CommitLog`; its pipeline and the extent cache |
| `ReadOps` | `ECBackend` | operators on one `ReadOp`: which shards are asked, how a reply counts, retries, cancelling |
| `ReadOpsProofs` | | lemmas on those operators and on the loop over the objects of a read |
| `ECRead` | `ECBackend` | reads for clients and read-modify-writes; EXTENDS `ReadOps` |
| `ECReadProofs` | | the theorems about `ECRead` |
| `ECRecovery` | `ECBackend`, `PrimaryLogPG` | recovery of objects; EXTENDS `ReadOps` |
| `ECRecoveryProofs` | | the theorems about `ECRecovery` |
| `BackfillInterval` | `PrimaryLogPG` | operators on a `BackfillInterval`: scanning, trimming, `update_range` |
| `PGRecovery` | `PrimaryLogPG` | recovery from the log and backfill, with the client writes they meet; EXTENDS `BackfillInterval` |
| `ClientOps` | `PrimaryLogPG` | client operations from the queue to the answer, their waiting lists and locks |
| `ClientOpsProofs` | | the theorems about `ClientOps` |
| `Snaps` | `PrimaryLogPG` | clones, `SnapSet`s, rollback, the trimmer, scrub of snapshot metadata |
| `SnapsProofs` | | the theorems about `Snaps` |
| `Tiering` | `PrimaryLogPG` | the primary of a cache pool, its agent, and the base pool |
| `MC...` | | instances for TLC, one `.cfg` for each run |

Definitions named `X_...` or `X...` beside a definition `X`, with a comment
"Mutant", are plausible bugs of `X`; nothing uses them but the mutants of
`PROJECT.json`, each of which shows that the property it names can fail.

### The codec (`ClayGeometry`, `MyClay`, `MyClayRepair`, `MyClayPlugin`)

A byte buffer is abstracted to the question which sub-chunk it holds.  `C` in
`MyClay` is, for every chunk and position, the plane whose coupled sub-chunk is
there, or `Junk`; `U` is the set of cells of the member `U_buf` that hold the
uncoupled sub-chunk of the object of this call.  `U_buf` outlives a call and is
never cleared, so `U` starts empty and a cell outside it is the content of an
earlier call, not zeros.  The scalar MDS and pairwise codes are external: a
plane decodes when every input it reads is right.

| action | code |
|---|---|
| `encode_chunks`, `decode_chunks` | the functions: the buffers they work on, for `encode_chunks` the data chunks as the caller has them |
| `Reorder` | the loop of `encode_chunks` that permutes the sub-chunks of the data chunks in place, in mode *myclay* |
| `PadErasures`, `PadDone` | one parity chunk is added to the erasures until there are m |
| `decode_erasures(z)` | the function with `get_uncoupled_from_coupled` and `decode_uncoupled` for plane `z`, planes in ascending order |
| `LayerUncoupled`, `RecoverPlane(z)` | the second inner loop: `recover_type1_erasure`, `get_coupled_from_uncoupled` and the plain copy |
| `NextIscore` | the outer loop |

`MyClayRepair` has one action for each function of a repair
(`minimum_to_decode`, the reads of the helpers, `repair`, one plane of
`repair_one_lost_chunk`, the loop over `order_i`).

`ErasureCodec` speaks of the buffers.  `encode` is handed data chunks that hold
the input and makes a codeword of them; `decode` is handed enough chunks of a
codeword, leaves those as they are and makes the chunks that are wanted.  A codeword
is what `encode` returns; that its data chunks are the input is not a part of
that specification but the property `Verbatim` beside it, which the interface
promises and the plugin keeps in mode *clay* only (section 4).  So what is shown to
implement `ErasureCodec` is that `encode` and the two kinds of `decode` are
inverse to each other, and not all that `ErasureCodeInterface.h` says.

### Writes (`ECWrite`)

An operation is known by its tid, and a write's version is its tid (the empty
operations have version 0).  Queues and `tid_to_op_map` are those of the code.
`check_ops` is a loop over three functions; each is an action, and `checking`
is true until the loop ends, which is the PG lock held by the handler: no other
handler runs in between.  The callbacks that `call_write_ordered` hangs on an
operation run as `RunOnWrite` inside it.  Connections and the object store
are FIFO per shard, so messages are the sequence `sent` with three cursors per
shard: handled (`handle_sub_write`), stored (`sub_write_committed`), replied
(`handle_sub_write_reply` or `do_update_log_missing_reply`).  `on_change(h)` is
a new interval; peering (external, `PossibleHead`) chose the shortest log of
some `MinSize` shards or more, and a shard that crashed kept anything between what was on disk and
what it had handled.  Extents are cells (an object and a stripe each); the write
plan and the extent cache are external, in headers outside the repository, and
modelled from how the code uses them.

### Reads and recovery in the backend (`ReadOps`, `ECRead`, `ECRecovery`)

An element of `wire` is a sub-read and, later, its reply; the shard's errors
are chosen when the reply is handled.  In `ECRead`, `Persistent` says whether a copy
that could not be read stays unreadable; in `ECRecovery` any copy may give an
error or be read at any time.  `SubChunks` says whether the plugin repairs a
single chunk from sub-chunks of d helpers; a result keeps apart who sent
whole chunks (`full`) and who sent sub-chunks (`part`).  An assertion of the
code that fails sets `asserted` to its text and stops the system, as it does in
the code.  In `ECRecovery`, what PrimaryLogPG decides by itself (which objects
to recover, in what batches) is a free choice bounded by `MaxBatch`; `missing`
and `sources` are its missing sets and `missing_loc`, `store` is what the
shards hold, in pieces of the object.  `unforeseen` is a history variable, on which no action depends: for each read
that is open, or has failed an assertion, the kinds of errors it has met that
`handle_sub_read_reply` has no branch for (`Unforeseen`): an error in the repair of one
chunk, for an object that was cancelled, from one of two copies of a shard, or from
the shard that was asked for the attributes; a copy that can be read after it could not;
and a shard that is asked again while it is down.  All of them come; the
properties say what may follow from them and that nothing follows without them.
A read all of whose objects were
cancelled is complete with the first reply that still comes; what comes
after that finds no tid and is dropped (`dropped_reply`).

### Recovery and backfill in the PG (`PGRecovery`, `BackfillInterval`)

The backend is seen through its interface: a recovery in `recovering` is
followed by pushes to all that miss the object (`BackendPushes`), by
`on_failed_pull` or by `cancel_pull`.  Objects are numbers in sort order, so
that `last_backfill` is a position, an interval a pair of positions, and a scan
takes `ScanMax` objects at a time.  `chan[p]` are the primary's messages to a
peer in order (writes, log entries, scans, progress, removes); pushes have a
priority of their own and overtake them.

| action | code |
|---|---|
| `start_recovery_ops` | the function as one action: `recover_replicas`, `recover_primary` and `recover_backfill` with their loops (folds over the objects), in the order the code takes them, and what it does when nothing was started |
| `PeerRecv`, `PrimaryRecv` | `do_scan`, `do_backfill`, `do_backfill_remove`, the handling of a write or a log entry on a peer, of a digest and of an acknowledgement on the primary |
| `PushArrives`, `PushReply`, `RemoveApplied`, `RemoveCompletes` | `on_local_recover`, `on_peer_recover`, `on_global_recover` and the deletes' contexts |
| `do_op`, `Dispatch` | a client write or delete: whether it waits for a degraded or backfilling object or for a lock, its entry in the projected log; later the backend applies it and sends it to the peers, an empty one to those that `should_send_op` leaves out |
| `mark_all_unfound_lost`, `LostCommitted` | the function in its *delete* form |
| `NewInterval` | `on_change` and what activation finds |

### Client operations (`ClientOps`)

`Dequeue(op)` is `do_request` and, when nothing there makes the operation wait,
all of `do_op` and `execute_ctx`: `Stage` and its parts are the conditions in
the order of the code, each with the list it waits in.  `finish_read`, `eval_repop`,
`on_local_recover`, `on_global_recover`, `ScrubEnds`, `recheck_readable`,
`on_activate_complete` and `on_flushed` are the callbacks that put operations
back; `NewInterval` is `on_change`, on the same primary or another one, which
knows a prefix of the log that holds all that was acknowledged.  Clients send
an operation again when it is lost or the interval changes; `Receive`
delivers an answer.  Every call moves operations between the lists of one record,
`Call`; the two loops of `on_change` are recursive functions over their rounds
(`drop_read`, `remove_repop`).  An operation is of one of five kinds, told apart by their
lock, their need to read first and the error they may end in.

### Snapshots (`Snaps`)

An object is its head, its `SnapSet` and the clones in store, its data a short
sequence of cells whose contents are the writes that made them, so that
`clone_overlap` is a set of cells.  `Write` runs a
vector of operations on an object (`do_osd_ops`), then `make_writeable` and
`finish_ctx`; a repop in `flight` is *passed* when `ECBackend` gives it to the
store, which is when statistics and the `SnapMapper` change, and leaves when all have
committed.  The trimmer's states are those of the machine (`trimmer.st`); `DoSnapWork`
is `AwaitAsyncWork::react(DoSnapWork)` with `trim_object` for each object it
takes.  `ScrubChunk` scrubs an object, as the scrubber does chunk by chunk.
`frozen` is a ghost: what each snapshot of an object has to show.

### Tiering (`Tiering`)

`pg` is the whole state of the cache pool's primary and `base` that of the base
pool, where the same program answers copy-get and pulls with copy-from.
Handlers are operators from one state of `pg` to the next, because they call
one another as the code does (`finish_promote` requeues what was blocked,
`agent_choose_mode` leaves the full mode, and so on).  An object's data is the
set of histories its chunks have been through: one history, unless chunks of
different versions were put together.  The Objecter is first in, first out by
object; a reply may overtake an earlier one (`late`), and an error or an
object that is not there may come back (`errors`).  `begin` holds the scenario
and the bound on each kind of event.

## 3. Runs

All runs end with a full state space; each of their bounds is a constant named
`Max...`, a field of `Begin` (a scenario of the MC module), or the profile of
the code.  `CHECK_DEADLOCK FALSE` stands in the runs of the OSD because
the operations that may be submitted are bounded: when they are done the
system rests.  The codec runs check for deadlock.

| run | instance | states | shows |
|---|---|---|---|
| `clay_k6m2` | k=6, m=2, d=7, mode *myclay*, the order table of the source | 1525 | every erasure pattern of encode and decode and every single loss of a repair, one call after another on one `U_buf`; refinement of `ErasureCodec` |
| `clay_verbatim` | the same profile | violation | the data chunks that `encode` returns are not the input |
| `repair_k4m4` | k=4, m=4, d=5, mode *clay* | violation | a column whose nodes are all aloof is not repaired |
| `ec_write` | 2 shards, overlapping read-modify-writes and truncates on 2 cells, 3 tids, 2 intervals | 190914 | order, acknowledgement and roll-forward; refinement of `CommitLog`; reads of read-modify-writes, the pipeline drains, liveness |
| `ec_read` | 2+1, two reads of up to two objects, plain or fast, two errors, one lost copy, 2 intervals | 395032 | the handlers' assertions, order and rightness of the answers, every read is answered |
| `ec_recovery` | 2+2, two objects, one in two pieces, an old copy of both outside the acting set, any two errors, one source that goes down, 2 intervals | 401020 | which errors can fail which assertion, an object not missing is whole, recoveries end |
| `ec_recovery_errors` | the same without the source that goes down | violation | an error in the repair of one chunk fails an assertion of the primary |
| `pg_recovery` | 3 shards, three objects (a clone, its head, one that does not exist), scans of one object, two client writes; five beginnings; 2 intervals | 193103 | backfill positions, recovery ends clean, nobody waits for ever |
| `client_ops` | one object, one or two clients with up to three operations, recovery, scrub, lease, up to 3 intervals | 217978 | order, durability, currency of reads, every operation is answered |
| `snaps` | one or two objects, up to four writes, two snapshots, one removed; eight scenarios | 316913 | snapshots, `clone_overlap`, statistics under scrub, trimming ends |
| `tier` | up to three objects, two clients with up to three operations; fourteen scenarios | 101521 | no update lost, clean is flushed, order, the agent's counts, every operation is answered |
| `tier_joined` | two clients flush one object whose lock is busy | violation | a flush just begun is taken for finished |

Why the bounds are enough.  In the codec the profile is the code's own
(k, m) = (6, 2), the smallest with an order table, and the calls are all
calls; both kinds of call are in one run, so that each finds the `U_buf` of the other.  In the pipeline the hazards need two operations that overlap and a third that
depends on both (or the empty operation that rolls the second forward), and one change of
interval with operations in every stage.  Two shards are enough there for one to be ahead of the
other, which is what a choice of the log can get wrong; the theorems about `ECWrite` are
for any number of shards and any `MinSize`.  In the reads two
objects in one `ReadOp` and two `ReadOp`s are what the shared structures
(`shard_to_read_map`, the list of client reads) can confuse, and one error
more than m leaves too few copies.  In `ec_recovery` two pieces make a
continuation, and one source that goes down or an interval that ends hits any
point of it.  In `pg_recovery` an interval of one object makes the positions of
the primary and of the target meet and pass each other at every object, and two writes are
one before and one after the scan of theirs.  In `client_ops` the lists exchange
operations two by two, so that a third one shows what is out of order.  In
`snaps` the second snapshot gives a clone a neighbour on both sides; the
scenarios part the operations because their product says nothing more.
In `tier` the first client's second operation meets the first one's promotion
or flush while the second client or the agent disturbs it.

Some bounds are chosen to leave known errors out, and section 4 says what happens
without them: `Persistent` and `CheckForErrors` of `ec_read`, `MaxDown` of
`ec_recovery`, `MaxLost` of `pg_recovery`, the scenarios of `client_ops`, `snaps`
and `tier`.  The hazards of `PROJECT.json` that have such a note are not caught by the
properties they name in the case the note describes.

Fairness.  `MyClay`, `MyClayRepair` and `MyClayPlugin`: weak fairness of a step of the
call, because one thread runs it.  `ECWrite`: weak fairness of the reads,
`handle_sub_write`, commit and replies of each shard (connections within an
interval do not lose messages and the store commits what it was given), and of
`check_ops` (a loop that runs to its end); not of submissions or of changes of
interval.  `ECRead` and `ECRecovery`: weak fairness of the replies, pushes,
push replies of shards that are up and of the recovery work queue.  A shard
that never answers leads to a new interval in Ceph, and every liveness property
allows for that.  `PGRecovery`: the recovery queue, the op queue, the network, the backend's
callbacks, and the operator who gives up unfound objects; not clients,
failures, trimming of the log or new intervals.  `ClientOps`: the queue and the
callbacks (`Serves`), the network, and the timer that calls `recheck_readable`.
`Snaps`: the work of the trimmer, the backend, reads and a scrub that has
begun.  `Tiering`: each queue and thread by itself (`Turn`), and `Raced`: the
agent does not for ever evict an object just before the operation that was put
back for it is done.  Without `Raced` a cache of one object can promote and
evict for ever; the code has nothing against that but time.

Weak fairness is written `[]<>~enabled \/ []<><<A>>_vars` with the guard of `A`
spelled out where the queue it serves says when `A` is enabled; it means the
same as `WF_vars(A)` and is cheaper for TLC to evaluate.

## 4. Findings

| run | where | what |
|---|---|---|
| `repair_k4m4` | ErasureCodeMyClay.cc:680 | the loop over `order_i` ends at the first order without planes, so with d = k+1 and m = 4 nothing is repaired and 0 is returned |
| `clay_verbatim` | ErasureCodeMyClay.cc:252 | in mode *myclay* `encode_chunks` permutes the data chunks in place and nothing permutes them back, where ErasureCodeInterface.h:24-26 and 340-342 say that the encoded data chunks are the input |
| `ec_recovery_errors` | ECBackend.cc:1266 | shards that sent sub-chunks count as having sent chunks: after an error in the repair of one chunk what is decoded has not the length that the assertion at 646 wants, and the primary goes down |
| `tier_joined` | PrimaryLogPG.cc:10348 | `try_flush_mark_clean` queues the operations that joined a flush on the object's lock and leaves them in `dup_ops`, so that they are queued a second time; at its second turn one finds the flush it began itself and takes it for finished: the object is marked clean although the base pool does not have it |

Seen while modelling and not among the runs.  Each shows with the change named, and the
hazard of `PROJECT.json` at the line has it as its note.

- `ECRead`, `Persistent = FALSE` with a 2+2 code: a retry for one object reads
  all objects of the `ReadOp` again (ECBackend.cc:1737); one that was given up
  can then have enough, which the assertion at 1294 excludes.  `CheckForErrors = TRUE`:
  an object that has enough gets a result code (1299), with the same end.
- `ECRecovery`: what the other kinds of `Unforeseen` do; the run `ec_recovery` has them
  all, and the properties name what follows.  An error for an object that was
  cancelled makes a result for it (1238), whose list of buffers is empty where
  1263 takes its front, and which 1327 excludes.  A second copy of a shard is never asked
  (`send_all_remaining_reads`, 2429), and the object waits while the others of
  its `ReadOp` are read again and again; when it wants attributes and nobody is
  left to ask, the assertion at 1768 fails.  Attributes are asked of one shard only, and
  nobody asks for them again when that shard gives an error and the others are
  enough: the assertions on `op.xattrs` at 478 and 621 fail.  An object that was given
  up can have enough after a retry for another one, as in `ECRead`.  A retry asks
  all objects of the `ReadOp` again, also of a source that answered and is down
  since; nothing is sent to it, and the read waits for the next map's
  `check_recovery_sources`.
- `ECRecovery`, `MaxDown = 2`: `filter_read_op` erases the `source_to_obj`
  entries of the other sources of a cancelled object (1380-1395) and leaves
  these in `in_progress`; when such a source goes down later nothing is
  cancelled for it and the read waits until the interval ends.
- `PGRecovery`, `MaxLost = 1`: a delete that is only in the projected log makes
  backfill remove the object from a target (PrimaryLogPG.cc:13107); when the
  interval ends before the backend has sent the delete, the target has passed
  an object it does not have.
- `ClientOps`, `Begin <- Lagging`: `check_laggy` puts an operation that waited
  for its object behind later ones (1892, 2045), and `execute_ctx` finds them
  out of order (3971); `check_laggy_requeue` is there for this but is not
  reached while the PG is laggy.
- `Snaps`, scenario `Reading` with a removal: `get_next_objects_to_trim` asks
  the store and does not find a clone whose write still waits for the
  backend's reads (15323); the snapshot is recorded as purged and the
  clone stays until somebody queues the snapshot again.
- `Tiering`, a `CACHE_TRY_FLUSH` that joins the agent's flush is forgotten when
  the flush gives up (10322).
- By reading only: a promotion that finds nothing (`-ENOENT`) does not cancel
  proxied operations (9376); the order table is chosen by k and m alone
  (ErasureCodeMyClay.cc:81), so that k=6, m=2, d=6 gets one of the wrong size
  (`OrderAssumption` excludes it); the members of `U_buf` keep the size of the
  first call (824); the error code of remote reads is dropped (ECBackend.cc:1950).

## 5. Proofs

**`MyClayProofs`** proves, for every profile, order and set of erasures,
`Spec => []IInv` and from it `TypeOK`, `ExactlyMErased`,
`UncoupledPlanesRight`, `FinishedLayersRight`, `AllChunksRight`,
`NothingDamaged` and the safety part of `ErasureCodec`, in which `encode` starts from
data chunks that hold the input; and `ClayIsSystematic`, that in mode *clay* the data
chunks are the input when a call returns (`DataVerbatim`, which `clay_verbatim` refutes
for mode *myclay*).  It also covers what
`clay_k6m2` cannot: zero chunks (k + m not a multiple of q), columns of more than
two nodes, mode *clay*.  Assumptions: those of `ClayGeometry` (the profile
`parse` accepts, `order` a permutation of the planes).  The inductive invariant
`IInv` adds to the properties that the
survivors are right, that planes are taken in ascending order within an
iscore, and that what the plane's pair transformed is in `U`.  The argument is
about orders: the pair of a survivor whose partner is erased lies in a plane
of order one less (`ErasedPairScore`), so it was recovered in an earlier
iscore; the pair of two survivors lies in a plane of the same order
(`SurvivingPairScore`), so one of the two planes transforms both.  The run
`clay_k6m2` checks `IInv` as a whole, and with it its conjuncts.

**`MyClayRepairProofs`** proves `AssertionsHold` and `RecoveredOnce` for every
profile, every loss and every set of available chunks: the planes that
`get_repair_subchunks` reads are those that `repair_one_lost_chunk` looks up,
and no sub-chunk is recovered twice.  `LostChunkRight` is false in general
(`repair_k4m4`, section 4).  What is proved is the case in which it
holds: `LostChunkRightUnlessAloofColumn`, for a call in which no whole column
is aloof, and `LostChunkIsRight`, for all calls of a profile with k + m - 1 - d < q,
where no column can be.  The default d = k + m - 1 is one of these, and for them
`RepairImplementsCodec` shows that a repair implements `ErasureCodec`, too.
Assumptions: those of `ClayGeometry` (`PowerAssumption` is the arithmetic of
the number of planes).  The argument: a repair plane of order 1 + i needs, from the other
columns, helpers that were read and, for an aloof node, a plane of
order one less; the orders of the repair planes have no gap when each column
has a node that is not aloof, so that the loop over `order_i` does not end
before the last of them.

**`ECWriteProofs`** proves, for any number of shards, cells, plans, operations
and intervals, `TypeOK`, `RollForwardSafe` and `AckedOnEveryShard`.  Neither
of the two is inductive: a shard rolls forward what a message says,
which was computed from what the primary was told earlier, perhaps several
operations ago.  The invariant is `TypeInv /\ CursorInv /\ Safe`: queues hold
each operation once and are apart, the cursors are ordered, and every number
that a message, an operation, a callback or a shard trusts
(`roll_forward_to`, `completed_to`, `committed_to`,
`min_last_complete_ondisk`, `acked`, `can_rollback_to`) is on every disk; a
shard that an operation or a log update no longer waits for has its version on
disk.  A change of interval keeps it because the log that is chosen is that of a
shard, and no shard's disk is behind what is trusted.

It also proves `RepliesExpected` (a reply is for an operation
that still waits for it) and `WritesAreLogged`: `ECWrite` implements
`CommitLog`, each step an append, an acknowledgement, a rewind or a stutter.
Added to the invariant: the operations that were not sent stand in one line
(`waiting_reads` before `waiting_state`), and the versions that they and the
callbacks hanging on them will append grow along it, behind what is in the log
and in the callbacks that are running; each is below the next version; no tid
is sent twice; a message without a reply has an operation or a log update that waits
for just that shard, and is newer than all that was acknowledged.  So what
`RunOnWrite` and `try_reads_to_commit` append is above the log, what a last
reply acknowledges is above what was acknowledged, and a change of interval
cuts off nothing acknowledged because of `AckedOnEveryShard`.

And it proves `ReadsLatest` (a read-modify-write sees every
earlier write of what it reads and no other) and `PipelineDrains` (outside
`check_ops` what waits for its turn waits for something under way, and an empty
pipeline has nothing pinned, cached or left in the map).  The operations under way stand in one
pipe, `waiting_commit` before `waiting_reads`.  A cell that one of them writes
through the cache is pinned by it or by one behind it; while the cache is valid
all of them use it, and a cell written by one that was sent has its newest
content there; what an operation reads from the shards is written by nothing
between the start of the read and its turn.

**`ReadOpsProofs`** has the lemmas on which `ECReadProofs` rests, the loop of
`handle_sub_read_reply` over the objects of a read first of all.  The loop is a
recursive function `Evaluated` on the numbers of the objects; `NoDescent` and
`SetInduction` carry a property from one turn to the next.  (The library's
induction theorems take an operator as a parameter and cannot be used; an
induction over a set of numbers can be stated without one, so recursive
functions are within reach of the proofs and `RECURSIVE` operators are not.)

**`ECReadProofs`** proves `AnsweredInOrder` for every profile: the tids of
client reads grow along the two lists `answered` and `in_progress_client_reads`,
and only the front of the second goes to the end of the first.  `NoAssertFails`
and `AnswersRight` are proved under `Persistent` and `~CheckForErrors`, the two
settings of the run `ec_read`, because without either the assertion at ECBackend.cc:1294
does fail (section 4).  The invariant is that a read is *sound*: an object has
enough shards, or each shard asked for it has answered, has failed, or has a
message under way; an object that was given up has fewer than K holders
without an error, and no error is reported where the copy can be read.
`MapsAreConsistent` says that the three structures of a read agree: a message
under way for a read that is known belongs to a shard in its `in_progress`, which
are the shards that `shard_to_read_map` has for it.

**`ECRecoveryProofs`** proves `RecoveredIsWhole`, which is `NotMissingIsWhole`, without any restriction on
errors, shards that go down or intervals.  The invariant: an object is in one
read at most, and only while its recovery is READING; a push goes to a shard that
the recovery waits for, for the piece the recovery is at, and the push and its reply are
not both under way; each shard of `missing_on` holds the pieces before
`progress`, but for the last one while its push is under way.  So the
recovery that stops waiting with all pieces done leaves the object whole on all of
them, and one that is cancelled leaves it missing.  `RecoveriesAgree` is what the two
sides agree on, again with all errors and intervals: `TidsKnown` and
`RepliesExpected` (the parts of `NoAssertFails` about replies), and of the
assertions all that are about which object is being recovered by whom.  Its
invariant `WireRight`: a message of a known read is the only one to its shard, and
that shard is waited for in `in_progress` and in `shard_to_read_map`; a read is
asked again only when nobody is waited for, and then as a whole; nothing is sent
to a shard that is down.  (The proof showed an earlier version of the model to
be wrong: replies of a read that completed when all its objects were
cancelled found their tid there.)

`FailuresAreExplained` is `FailuresExplained` for any K and M, any number of objects,
strays, errors of any kind, shards that go down, late answers and intervals, with
`osd_read_ec_check_for_errors` on or off; it has no hypothesis.  For each assertion about a completed
read it says which errors can fail it.  In particular the results of a completed
read are those of its objects unless an error came for one that was cancelled; what the
decoder gets can be decoded, from sub-chunks exactly when it is the repair of one
chunk, unless an error came in such a repair; and the attributes are there unless
the shard asked for them failed.  Its invariant `FineInv` says of each open read,
`F` being the kinds of errors it has met, that it is *damaged* (the result of a
cancelled object is there again, and `F` has that kind), or: for each of its objects, what came in
is enough, or each shard that was asked has answered, has given an error or
is waited for; what was given up cannot be decoded from the holders that are left,
unless a copy could be read again; sub-chunks are asked for only to repair one
chunk, of all K + M - 1 others, and whole chunks and sub-chunks are mixed only when such a repair
met an error; the attributes came or the first shard asked is waited for; a
message asks for what its read still needs of the shard; and who was asked is in
`source_to_obj`, so that losing it cancels the object.  The lemmas show what a reply, the
loop over the objects and a retry do to one object, then to one read
(`FineReplyRead`), then to all (`FineReply`), and that no other step takes anything away
from it (`FineKept`, `FineLost`, `FineStarts`).

**`ClientOpsProofs`** proves, for any number of clients and objects, any
operations, scrubs, lost leases and intervals, `AnswersAreDurable`,
`ReadsCurrent` and `NoAssertFails` (the assertions on `waiting_for_ondisk`,
`waiting_for_flush` and left-over object contexts).  None is inductive.  The
invariant `ClientInv` says that what is logged behind the committed end stands
in the repop queue entry by entry (`Behind`), each with its lock unless it
records an error, and each resent operation that waits is that of the entry it
waits for; that a read in progress shares its object with reads only
(`Locked`); that what a client was told of a write when an operation was sent is
committed (`FloorInv`); and that between intervals nothing is in progress
(`QuietInv`).  So a version that a read finds under its lock has no repop and is
committed, a dup that is in the log and not among the repops is committed, and
`on_change` finds for each dup the repop to put it back behind.  Assumption:
`ClientOpsAssumption`, the types of a scenario.  The case of the proof that
needs most is `on_change`, whose loops are shown to empty what they run
over (`ClearAsyncReads`, `ApplyAndFlush`).

**`SnapsProofs`** proves `SnapReads`, `OverlapsTrue` and `NoAssertFails` for any
scenario that meets `SnapsAssumption`.  The invariant is `GoodObject` of every
object, in the committed state and after each repop in flight, so that an
interval may cut off any number of them: clones cover disjoint sets of
snapshots and are listed in order; a `clone_overlap` names only cells in which a
clone and its successor agree; and each live snapshot reads what `frozen`
says, from the clone that covers it or from the head.  A clone leaves only by
a trim that is counted in flight, and a reader holds clones that exist.  The
lemma that needs most is `ContextOK`: `do_osd_ops` changes data only in the
ranges it reports, whatever the vector of operations, so that `make_writeable`
takes enough from the overlap.  That the machine's assertions hold follows
from its states: repops are in flight only in `WaitRepops`.

Before a proof was begun, TLC checked each of these invariants on the runs of
its module.

Only model-checked:

- all liveness properties: liveness and `ENABLED` are beyond the prover;
- `ScrubFindsNothing` of `Snaps`: the statistics are sums over the objects, folds
  of which the library has no theorem the provers can use;
- `Tiering`: its handlers call one another, so that one action is a chain of up to
  ten operators on the whole state, each with its own cases;
- `PGRecovery`: it has a `RECURSIVE` operator (the loop of `recover_backfill`);
- `InOrder` of `ClientOps`: it is false in general (`Lagging`, section 4) and
  can only be shown for scenarios.

## 6. Not modelled

What `PROJECT.json` lists as `not_modelled`, with the reason.  The
repository holds two files of the OSD; the headers, peering, the object
store, the messenger, `ECUtil`, `ECTransaction`, the extent cache, object
locks, `MissingLoc` and the `SnapMapper` are not
part of it and are external where a module needs them.  Left out everywhere:
logging, performance counters, tracing, the bytes of the codes, formatting.  Left out of
what is modelled:

- `ECRead`, `ECRecovery`: attributes other than "known or not", versions of
  objects in recovery (an object that is recovered is not written meanwhile),
  the bytes of a sub-read (`handle_sub_read`, ECBackend.cc:1048).
- `ECWrite`: shards that get only empty transactions (`should_send_op`).
- `PGRecovery`: async recovery targets, reverting lost objects (replicated
  pools), reservations, NOBACKFILL and full targets, `recover_object` refusing
  an object.
- `ClientOps`: maps the primary does not have yet (`waiting_for_map`), backoffs, full pools,
  operations refused at sight, the bytes of a client read
  (`FillInVerifyExtent`, PrimaryLogPG.cc:5038).  That commits and reads come in
  order is what `ECWrite` and `ECRead` show.
- `Snaps`: clones that are missing and block a write, cache tiers, omap,
  `truncate_seq`, watchers, waiting for a client's lock (a trim that meets one
  is tried again).  A scrub takes an object at a time.  A new interval may
  forget that a snapshot was purged, which trims it once more.
- `Tiering`: clones, hit set objects, pins, `UNDIRTY`, the READONLY and FORWARD
  ways, manifest objects, another primary after a new interval (a cache
  pool is replicated and keeps its log).  The agent lists one object at a time
  and never reaches its limit of operations; whether it finds an object cold is
  free within the bound `cold`.

## 7. Plan

What is left, in this order:

1. Proofs: lemmas on `BackfillInterval` (an interval covers what is on the disk between its ends)
   and, with `recover_backfill` as a recursive function, `BackfilledIsWhole`;
   the order of `Tiering`.
2. `ClientRead`: `PrimaryLogPG::do_read` and `FillInVerifyExtent`,
   `objects_read_async` and `start_async_reads`: what a client gets for an
   extent, against a definition by bytes.  `ECSubRead`: `handle_sub_read`
   with its two ways of reading runs of sub-chunks.
3. Clones in `Tiering`, missing clones in `Snaps`; `be_deep_scrub` with its
   resumption; watch and notify.
4. `Profile`: `parse` and `init` of the plugin and of jerasure, the Gray
   generators, as functions against reference definitions.
