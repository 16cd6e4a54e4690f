---------------------------- MODULE ECWriteProofs ----------------------------
(***************************************************************************)
(* Theorems about the write pipeline, for any number of shards, cells,     *)
(* plans, operations, tids and intervals, in three parts.                  *)
(*                                                                         *)
(* The shards: the types and the queues (TypeInv), then the two safety     *)
(* properties that make erasure-coded writes recoverable, that nothing is  *)
(* rolled forward (RollForwardSafe) and nothing is acknowledged            *)
(* (AckedOnEveryShard) before it is on the disk of every shard.            *)
(*                                                                         *)
(* The log: replies, order, and that ECWrite implements CommitLog.         *)
(*                                                                         *)
(* The extent cache: what a read-modify-write reads, and that the pipeline *)
(* drains.                                                                 *)
(***************************************************************************)
EXTENDS ECWrite, SequenceTheorems, TLAPS

USE ConstantsAssumption

(* The three queues hold every operation at most once.                     *)
Distinct(q) == \A i, j \in DOMAIN q : q[i] = q[j] => i = j
Apart(q, r) == \A i \in DOMAIN q, j \in DOMAIN r : q[i] # r[j]

QueueInv ==
  /\ Distinct(waiting_state) /\ Distinct(waiting_reads)
  /\ Distinct(waiting_commit)
  /\ Apart(waiting_state, waiting_reads)
  /\ Apart(waiting_state, waiting_commit)
  /\ Apart(waiting_reads, waiting_commit)
  /\ \A t \in DOMAIN op : t < next_tid

TypeInv == TypeOK /\ QueueInv

-----------------------------------------------------------------------------
(* Tail and Append of a sequence of numbers, index by index.               *)
LEMMA TailIndex ==
  ASSUME NEW q \in Seq(Nat), q # <<>>
  PROVE  /\ Tail(q) \in Seq(Nat)
         /\ Head(q) = q[1] /\ 1 \in DOMAIN q /\ Head(q) \in Nat
         /\ \A i \in DOMAIN Tail(q) : i + 1 \in DOMAIN q /\ i + 1 # 1
                                      /\ Tail(q)[i] = q[i + 1]
  OBVIOUS

(* The indexes of an appended queue. *)
LEMMA AppendIndex ==
  ASSUME NEW q \in Seq(Nat), NEW x \in Nat
  PROVE  /\ Append(q, x) \in Seq(Nat)
         /\ \A i \in DOMAIN Append(q, x) :
              \/ i \in DOMAIN q /\ Append(q, x)[i] = q[i]
              \/ i = Len(q) + 1 /\ i \notin DOMAIN q /\ Append(q, x)[i] = x
  OBVIOUS

(* A queue stays distinct when a new tid is appended or the head leaves.   *)
LEMMA DistinctAppend ==
  ASSUME NEW q \in Seq(Nat), NEW x \in Nat, Distinct(q),
         \A i \in DOMAIN q : q[i] # x
  PROVE  Distinct(Append(q, x))
  BY AppendIndex DEF Distinct

(* The tail of a queue without repetition has none. *)
LEMMA DistinctTail ==
  ASSUME NEW q \in Seq(Nat), q # <<>>, Distinct(q)
  PROVE  Distinct(Tail(q)) /\ \A i \in DOMAIN Tail(q) : Tail(q)[i] # Head(q)
<1>1. \A i \in DOMAIN Tail(q) : i \in Nat
  BY TailIndex
<1>2. \A i, j \in DOMAIN Tail(q) : Tail(q)[i] = Tail(q)[j] => i = j
  BY <1>1, TailIndex DEF Distinct
<1>3. \A i \in DOMAIN Tail(q) : Tail(q)[i] # Head(q)
  BY TailIndex DEF Distinct
<1> QED
  BY <1>2, <1>3 DEF Distinct

(* A queue stays apart from another when something new is appended. *)
LEMMA ApartAppend ==
  ASSUME NEW q \in Seq(Nat), NEW r \in Seq(Nat), NEW x \in Nat, Apart(q, r)
  PROVE  /\ (\A i \in DOMAIN r : r[i] # x) => Apart(Append(q, x), r)
         /\ (\A i \in DOMAIN q : q[i] # x) => Apart(q, Append(r, x))
<1>1. ASSUME \A i \in DOMAIN r : r[i] # x PROVE Apart(Append(q, x), r)
  <2> SUFFICES ASSUME NEW i \in DOMAIN Append(q, x), NEW j \in DOMAIN r
               PROVE  Append(q, x)[i] # r[j]
    BY DEF Apart
  <2>1. (i \in DOMAIN q /\ Append(q, x)[i] = q[i]) \/ Append(q, x)[i] = x
    BY AppendIndex
  <2> QED
    BY <1>1, <2>1 DEF Apart
<1>2. ASSUME \A i \in DOMAIN q : q[i] # x PROVE Apart(q, Append(r, x))
  <2> SUFFICES ASSUME NEW i \in DOMAIN q, NEW j \in DOMAIN Append(r, x)
               PROVE  q[i] # Append(r, x)[j]
    BY DEF Apart
  <2>1. (j \in DOMAIN r /\ Append(r, x)[j] = r[j]) \/ Append(r, x)[j] = x
    BY AppendIndex
  <2> QED
    BY <1>2, <2>1 DEF Apart
<1> QED
  BY <1>1, <1>2

(* A queue stays apart from another when its front leaves. *)
LEMMA ApartTail ==
  ASSUME NEW q \in Seq(Nat), NEW r \in Seq(Nat), Apart(q, r)
  PROVE  /\ q # <<>> => Apart(Tail(q), r) /\ \A j \in DOMAIN r : r[j] # Head(q)
         /\ r # <<>> => Apart(q, Tail(r)) /\ \A i \in DOMAIN q : q[i] # Head(r)
<1>1. q # <<>> => Apart(Tail(q), r) /\ \A j \in DOMAIN r : r[j] # Head(q)
  BY TailIndex DEF Apart
<1>2. r # <<>> => Apart(q, Tail(r)) /\ \A i \in DOMAIN q : q[i] # Head(r)
  BY TailIndex DEF Apart
<1> QED
  BY <1>1, <1>2

-----------------------------------------------------------------------------
(* The typed parts of TypeOK by name, so that a step cites what it needs.  *)
Known(q) == q \in Seq(Nat) /\ \A i \in DOMAIN q : q[i] \in DOMAIN op

(* TypeOK is the conjunction of its parts. *)
LEMMA TypeOKParts ==
  TypeOK => /\ Known(waiting_state) /\ Known(waiting_reads)
            /\ Known(waiting_commit)
            /\ DOMAIN op \subseteq Nat /\ op \in [DOMAIN op -> OpRecord]
            /\ sent \in Seq(Message)
  BY DEF TypeOK, Known

(* TypeOK in three groups: the queues and the map, the messages and the    *)
(* shards, and the rest.                                                   *)
MapTyped ==
  /\ Known(waiting_state) /\ Known(waiting_reads) /\ Known(waiting_commit)
  /\ DOMAIN op \subseteq Nat /\ op \in [DOMAIN op -> OpRecord]

WireTyped ==
  /\ sent \in Seq(Message)
  /\ handled \in [Shards -> Nat] /\ stored \in [Shards -> Nat]
  /\ replied \in [Shards -> Nat] /\ head \in [Shards -> Nat]
  /\ ondisk \in [Shards -> Nat] /\ can_rollback_to \in [Shards -> Nat]

RestTyped ==
  /\ on_write \in Seq(Update)
  /\ DOMAIN log_entry_update_waiting_on \subseteq Nat
  /\ log_entry_update_waiting_on
       \in [DOMAIN log_entry_update_waiting_on -> Waiting]
  /\ cache \in [Cells -> CacheEntry]
  /\ cache_invalid \in BOOLEAN
  /\ completed_to \in Nat /\ committed_to \in Nat
  /\ checking \in BOOLEAN
  /\ next_tid \in Nat
  /\ projected_last_update \in Nat
  /\ last_complete_ondisk \in [Shards -> Nat]
  /\ min_last_complete_ondisk \in Nat
  /\ log \subseteq LogEntry
  /\ acked \subseteq Nat
  /\ interval \in Nat

(* TypeOK in three parts that a step can disturb one by one. *)
LEMMA TypeSplit ==
  /\ TypeOK <=> MapTyped /\ WireTyped /\ RestTyped
  /\ TypeOK' <=> MapTyped' /\ WireTyped' /\ RestTyped'
<1>1. TypeOK <=> MapTyped /\ WireTyped /\ RestTyped
  BY DEF TypeOK, MapTyped, WireTyped, RestTyped, Known
<1>2. TypeOK' <=> MapTyped' /\ WireTyped' /\ RestTyped'
  BY DEF TypeOK, MapTyped, WireTyped, RestTyped, Known
<1> QED
  BY <1>1, <1>2

(* A step that sends, stores and answers nothing.                          *)
LEMMA WireSame ==
  ASSUME TypeOK, UNCHANGED <<wireVars, shardVars>>
  PROVE  WireTyped'
<1>1. UNCHANGED <<sent, handled, stored, replied, head, ondisk,
                  can_rollback_to>>
  BY DEF wireVars, shardVars
<1>2. WireTyped
  BY TypeSplit
<1> QED
  BY <1>1, <1>2 DEF WireTyped

(* What submit_transaction puts into tid_to_op_map is an operation. *)
LEMMA OpType ==
  ASSUME TypeOK, NEW t \in Nat, NEW v \in Nat, NEW r \in Nat,
         NEW p \in PlanSet, NEW b \in BOOLEAN
  PROVE  Op(t, v, r, p, b) \in OpRecord
<1>1. head[Primary] \in Nat
  BY DEF TypeOK
<1>2. <<>> \in Seq(Update)
  OBVIOUS
<1> QED
  BY <1>1, <1>2 DEF Op, OpRecord

(* An operation more, or one less, in tid_to_op_map.                       *)
LEMMA OpAdded ==
  ASSUME TypeOK, NEW t, NEW o \in OpRecord
  PROVE  LET f == WithOp(op, t, o)
         IN /\ DOMAIN f = DOMAIN op \cup {t}
            /\ f \in [DOMAIN op \cup {t} -> OpRecord]
            /\ f[t] = o
            /\ \A u \in DOMAIN op : u # t => f[u] = op[u]
  BY TypeOKParts DEF WithOp

(* tid_to_op_map keeps its type when an operation leaves it. *)
LEMMA OpRemoved ==
  ASSUME TypeOK, NEW t
  PROVE  LET f == Without(op, t)
         IN /\ DOMAIN f = DOMAIN op \ {t}
            /\ f \in [DOMAIN op \ {t} -> OpRecord]
            /\ \A u \in DOMAIN op \ {t} : f[u] = op[u]
  BY TypeOKParts DEF Without

(* submit_transaction preserves the types. *)
LEMMA SubmitType ==
  ASSUME TypeInv, NEW p \in Plans, submit_transaction(p)
  PROVE  TypeInv'
<1> DEFINE o == Op(next_tid, next_tid, RollForwardTo, p, TRUE)
<1> USE DEF TypeInv
<1>1. p \in PlanSet /\ next_tid \in Nat /\ RollForwardTo \in Nat
  BY DEF TypeOK, RollForwardTo, Larger
<1>2. o \in OpRecord
  BY <1>1, OpType
<1>3. op' = WithOp(op, next_tid, o) /\ next_tid' = next_tid + 1
      /\ waiting_state' = Append(waiting_state, next_tid)
      /\ waiting_reads' = waiting_reads /\ waiting_commit' = waiting_commit
  BY DEF submit_transaction
<1> HIDE DEF o
<1>4. /\ DOMAIN op' = DOMAIN op \cup {next_tid}
      /\ op' \in [DOMAIN op' -> OpRecord]
  BY <1>2, <1>3, OpAdded
<1>5. next_tid \notin DOMAIN op
  BY <1>1, TypeOKParts DEF QueueInv
<1>6. Known(waiting_state)' /\ Known(waiting_reads)' /\ Known(waiting_commit)'
  <2>1. Known(waiting_reads)' /\ Known(waiting_commit)'
    BY <1>3, <1>4, TypeOKParts DEF Known
  <2>2. Known(waiting_state)'
    BY <1>1, <1>3, <1>4, TypeOKParts, AppendIndex DEF Known
  <2> QED BY <2>1, <2>2
<1>7. TypeOK'
  <2>1. DOMAIN op' \subseteq Nat
    BY <1>1, <1>4 DEF TypeOK
  <2>2. next_tid' \in Nat
    BY <1>1, <1>3
  <2> QED
    BY <1>1, <1>4, <1>6, <2>1, <2>2
       DEF TypeOK, Known, submit_transaction, queueVars, ackVars, wireVars,
           shardVars
<1>8. QueueInv'
  <2>1. \A q \in {waiting_state, waiting_reads, waiting_commit} :
          q \in Seq(Nat) /\ \A i \in DOMAIN q : q[i] # next_tid
    BY <1>5, TypeOKParts DEF Known
  <2>2. Distinct(waiting_state)' /\ Distinct(waiting_reads)'
        /\ Distinct(waiting_commit)'
    BY <1>1, <1>3, <2>1, DistinctAppend DEF QueueInv
  <2>3. /\ Apart(waiting_state, waiting_reads)'
        /\ Apart(waiting_state, waiting_commit)'
        /\ Apart(waiting_reads, waiting_commit)'
    BY <1>1, <1>3, <2>1, ApartAppend DEF QueueInv
  <2>4. \A t \in DOMAIN op' : t < next_tid'
    BY <1>1, <1>3, <1>4, TypeOKParts DEF QueueInv
  <2> QED
    BY <2>2, <2>3, <2>4 DEF QueueInv
<1> QED
  BY <1>7, <1>8

(* Steps that leave the queues and the domain of tid_to_op_map alone.      *)
LEMMA SameQueues ==
  ASSUME TypeInv, UNCHANGED queueVars, DOMAIN op' = DOMAIN op,
         next_tid' \in Nat, next_tid <= next_tid'
  PROVE  /\ Known(waiting_state)' /\ Known(waiting_reads)'
         /\ Known(waiting_commit)'
         /\ QueueInv'
<1>1. /\ waiting_state' = waiting_state /\ waiting_reads' = waiting_reads
      /\ waiting_commit' = waiting_commit
  BY DEF queueVars
<1>2. Known(waiting_state)' /\ Known(waiting_reads)' /\ Known(waiting_commit)'
  BY <1>1, TypeOKParts DEF Known, TypeInv
<1>3. \A t \in DOMAIN op' : t < next_tid'
  <2>1. next_tid \in Nat
    BY DEF TypeInv, TypeOK
  <2> QED
    BY <2>1, TypeOKParts DEF TypeInv, QueueInv
<1> QED
  BY <1>1, <1>2, <1>3 DEF TypeInv, QueueInv, Distinct, Apart

(* The elements of a sequence that gets one more, or loses its head.       *)
LEMMA AppendElement ==
  ASSUME NEW S, NEW q \in Seq(S), NEW x \in S
  PROVE  /\ Append(q, x) \in Seq(S) /\ Len(q) \in Nat
         /\ DOMAIN Append(q, x) = DOMAIN q \cup {Len(q) + 1}
         /\ Append(q, x)[Len(q) + 1] = x
         /\ \A k \in DOMAIN q : Append(q, x)[k] = q[k] /\ k <= Len(q)
                                /\ k \in Nat
  OBVIOUS

(* The elements of the tail of a queue are elements of the queue. *)
LEMMA TailElement ==
  ASSUME NEW S, NEW q \in Seq(S), q # <<>>
  PROVE  /\ Tail(q) \in Seq(S) /\ Head(q) \in S
         /\ 1 \in DOMAIN q /\ Head(q) = q[1]
         /\ \A k \in DOMAIN Tail(q) : k + 1 \in DOMAIN q
                                      /\ Tail(q)[k] = q[k + 1]
  OBVIOUS

(* The larger of two numbers is one of them, and above both.               *)
LEMMA LargerNat ==
  ASSUME NEW a \in Nat, NEW b \in Nat
  PROVE  Larger(a, b) \in {a, b} /\ a <= Larger(a, b) /\ b <= Larger(a, b)
  BY DEF Larger

(* Sending a message keeps the types of the wire and of the logs.          *)
LEMMA PublishType ==
  ASSUME TypeOK, NEW t \in Nat, NEW v \in Nat, NEW r \in Nat,
         NEW b \in BOOLEAN, Publish(t, v, r, b)
  PROVE  /\ sent' \in Seq(Message)
         /\ handled' \in [Shards -> Nat] /\ stored' \in [Shards -> Nat]
         /\ replied' \in [Shards -> Nat] /\ head' \in [Shards -> Nat]
         /\ ondisk' \in [Shards -> Nat]
         /\ can_rollback_to' \in [Shards -> Nat]
<1>1. head[Primary] \in Nat /\ can_rollback_to[Primary] \in Nat
  BY DEF TypeOK
<1> DEFINE m == [tid |-> t, version |-> v, roll_forward_to |-> r,
                 head |-> Larger(head[Primary], v), update |-> b]
<1>2. m \in Message
  BY <1>1 DEF Message, Larger
<1>3. sent' = Append(sent, m)
  BY DEF Publish
<1> HIDE DEF m
<1>4. sent' \in Seq(Message)
  BY <1>2, <1>3 DEF TypeOK
<1>5. Larger(head[Primary], v) \in Nat
      /\ Larger(can_rollback_to[Primary], r) \in Nat
      /\ handled[Primary] + 1 \in Nat
  <2>1. handled[Primary] \in Nat
    BY DEF TypeOK
  <2> QED
    BY <1>1, <2>1 DEF Larger
<1>6. /\ handled' = [handled EXCEPT ![Primary] = handled[Primary] + 1]
      /\ head' = [head EXCEPT ![Primary] = Larger(head[Primary], v)]
      /\ can_rollback_to' = [can_rollback_to EXCEPT ![Primary] =
                               Larger(can_rollback_to[Primary], r)]
      /\ stored' = stored /\ replied' = replied /\ ondisk' = ondisk
  BY DEF Publish
<1> QED
  BY <1>4, <1>5, <1>6 DEF TypeOK

(* The acknowledgement keeps the types of what it touches.                 *)
LEMMA AllCommittedType ==
  ASSUME NEW v \in Nat, NEW l \in Nat, NEW f \in [Shards -> Nat],
         acked \subseteq Nat, repop_all_committed(v, l, f)
  PROVE  /\ acked' \subseteq Nat
         /\ last_complete_ondisk' \in [Shards -> Nat]
         /\ min_last_complete_ondisk' \in Nat
  BY DEF repop_all_committed, Range

(* submit_log_entries preserves the types. *)
LEMMA LogEntriesType ==
  ASSUME TypeInv, submit_log_entries
  PROVE  TypeInv'
<1> DEFINE cb == [tid |-> next_tid, version |-> next_tid,
                  pg_local_last_complete |-> head[Primary]]
<1>1. cb \in Update /\ next_tid \in Nat
  BY DEF TypeInv, TypeOK, Update
<1>2. call_write_ordered(cb)
  BY DEF submit_log_entries
<1> HIDE DEF cb
<1>3. \A t \in DOMAIN op : op[t].on_write \in Seq(Update)
  BY TypeOKParts DEF TypeInv, OpRecord
<1>4. ASSUME NEW t \in DOMAIN op,
             op' = [op EXCEPT ![t].on_write = Append(@, cb)]
      PROVE  op' \in [DOMAIN op -> OpRecord]
  <2>1. op[t] \in OpRecord
    BY TypeOKParts DEF TypeInv
  <2>2. Append(op[t].on_write, cb) \in Seq(Update)
    BY <1>1, <1>3
  <2>3. [op[t] EXCEPT !.on_write = Append(op[t].on_write, cb)] \in OpRecord
    BY <2>1, <2>2 DEF OpRecord
  <2> QED
    BY <1>4, <2>3, TypeOKParts DEF TypeInv
<1>5. DOMAIN op' = DOMAIN op /\ op' \in [DOMAIN op -> OpRecord]
      /\ on_write' \in Seq(Update)
  <2>1. on_write \in Seq(Update)
    BY DEF TypeInv, TypeOK
  <2>2. CASE waiting_state # <<>>
    <3>1. Len(waiting_state) \in DOMAIN waiting_state
      BY <2>2, TypeOKParts DEF TypeInv, Known
    <3> QED
      BY <1>2, <1>4, <2>1, <2>2, <3>1, TypeOKParts
         DEF TypeInv, Known, call_write_ordered
  <2>3. CASE waiting_state = <<>> /\ waiting_reads # <<>>
    <3>1. Len(waiting_reads) \in DOMAIN waiting_reads
      BY <2>3, TypeOKParts DEF TypeInv, Known
    <3> QED
      BY <1>2, <1>4, <2>1, <2>3, <3>1, TypeOKParts
         DEF TypeInv, Known, call_write_ordered
  <2>4. CASE waiting_state = <<>> /\ waiting_reads = <<>>
    <3>1. <<cb>> \in Seq(Update)
      BY <1>1
    <3> QED
      BY <1>2, <2>4, <3>1, TypeOKParts DEF TypeInv, call_write_ordered
  <2> QED
    BY <2>2, <2>3, <2>4
<1>6. UNCHANGED queueVars /\ next_tid' = next_tid + 1
      /\ projected_last_update' = next_tid
  BY DEF submit_log_entries
<1>7. QueueInv' /\ Known(waiting_state)' /\ Known(waiting_reads)'
      /\ Known(waiting_commit)'
  BY <1>1, <1>5, <1>6, SameQueues
<1>8. UNCHANGED <<log_entry_update_waiting_on, cache, cache_invalid,
                  completed_to, committed_to, checking, last_complete_ondisk,
                  min_last_complete_ondisk, acked, sent, handled, stored,
                  replied, head, ondisk, can_rollback_to, log, interval>>
  BY DEF submit_log_entries, ackVars, wireVars, shardVars
<1>9. WireTyped'
  BY WireSame DEF TypeInv, submit_log_entries
<1>10. RestTyped'
  <2>1. RestTyped
    BY TypeSplit DEF TypeInv
  <2>2. next_tid' \in Nat /\ projected_last_update' \in Nat
    BY <1>1, <1>6
  <2> QED
    BY <1>5, <1>8, <2>1, <2>2 DEF RestTyped
<1>11. MapTyped'
  BY <1>5, <1>7, TypeOKParts DEF MapTyped, TypeInv
<1> QED
  BY <1>7, <1>9, <1>10, <1>11, TypeSplit DEF TypeInv

(* The callbacks on_write preserve the types. *)
LEMMA RunOnWriteType ==
  ASSUME TypeInv, RunOnWrite
  PROVE  TypeInv'
<1> DEFINE cb == Head(on_write)
           u == [version |-> cb.version, waiting_on |-> Shards,
                 pg_local_last_complete |-> cb.pg_local_last_complete]
<1>1. on_write \in Seq(Update) /\ on_write # <<>> /\ next_tid \in Nat
      /\ min_last_complete_ondisk \in Nat
  BY DEF TypeInv, TypeOK, RunOnWrite
<1>2. cb \in Update /\ Tail(on_write) \in Seq(Update)
  BY <1>1
<1>3. cb.tid \in Nat /\ cb.version \in Nat /\ u \in Waiting
  BY <1>2 DEF Update, Waiting
<1>4. /\ Publish(cb.tid, cb.version, min_last_complete_ondisk, TRUE)
      /\ log_entry_update_waiting_on' =
           WithOp(log_entry_update_waiting_on, cb.tid, u)
      /\ log' = log \cup {[version |-> cb.version, plan |-> NoPlan,
                           read |-> [c \in Cells |-> {}]]}
      /\ on_write' = Tail(on_write)
      /\ op' = op /\ next_tid' = next_tid
      /\ UNCHANGED queueVars
  BY DEF RunOnWrite
<1> HIDE DEF cb, u
<1>5. /\ DOMAIN log_entry_update_waiting_on' \subseteq Nat
      /\ log_entry_update_waiting_on'
           \in [DOMAIN log_entry_update_waiting_on' -> Waiting]
  BY <1>3, <1>4 DEF TypeInv, TypeOK, WithOp
<1>6. log' \subseteq LogEntry
  <2>1. NoPlan \in PlanSet /\ [c \in Cells |-> {}] \in [Cells -> SUBSET Nat]
    BY DEF NoPlan, PlanSet
  <2>2. [version |-> cb.version, plan |-> NoPlan,
         read |-> [c \in Cells |-> {}]] \in LogEntry
    BY <1>3, <2>1 DEF LogEntry
  <2> QED
    BY <1>4, <2>2 DEF TypeInv, TypeOK
<1>7. QueueInv' /\ Known(waiting_state)' /\ Known(waiting_reads)'
      /\ Known(waiting_commit)'
  BY <1>1, <1>4, SameQueues
<1>8. /\ sent' \in Seq(Message)
      /\ handled' \in [Shards -> Nat] /\ stored' \in [Shards -> Nat]
      /\ replied' \in [Shards -> Nat] /\ head' \in [Shards -> Nat]
      /\ ondisk' \in [Shards -> Nat] /\ can_rollback_to' \in [Shards -> Nat]
  BY <1>1, <1>3, <1>4, PublishType DEF TypeInv
<1> QED
  BY <1>2, <1>4, <1>5, <1>6, <1>7, <1>8
     DEF TypeInv, TypeOK, Known, RunOnWrite, ackVars

(* One operation changes in the map.                                       *)
LEMMA OpChanged ==
  ASSUME TypeOK, NEW t \in DOMAIN op, NEW o \in OpRecord,
         op' = [op EXCEPT ![t] = o]
  PROVE  /\ DOMAIN op' = DOMAIN op
         /\ op' \in [DOMAIN op' -> OpRecord]
         /\ op'[t] = o
         /\ \A u \in DOMAIN op : u # t => op'[u] = op[u]
  BY TypeOKParts

(* Being apart is symmetric. *)
LEMMA ApartSym ==
  ASSUME NEW q, NEW r, Apart(q, r)
  PROVE  Apart(r, q)
  BY DEF Apart

(* The head of one queue is appended to another.                           *)
LEMMA HeadMoves ==
  ASSUME NEW q \in Seq(Nat), NEW r \in Seq(Nat), NEW x \in Seq(Nat),
         q # <<>>, Distinct(q), Distinct(r), Apart(q, r), Apart(q, x),
         Apart(r, x)
  PROVE  /\ Distinct(Tail(q)) /\ Distinct(Append(r, Head(q)))
         /\ Apart(Tail(q), Append(r, Head(q)))
         /\ Apart(Tail(q), x) /\ Apart(Append(r, Head(q)), x)
<1>1. /\ Tail(q) \in Seq(Nat) /\ Head(q) \in Nat
      /\ Distinct(Tail(q)) /\ \A i \in DOMAIN Tail(q) : Tail(q)[i] # Head(q)
  BY TailIndex, DistinctTail
<1>2. /\ \A i \in DOMAIN r : r[i] # Head(q)
      /\ \A i \in DOMAIN x : x[i] # Head(q)
      /\ Apart(Tail(q), r) /\ Apart(Tail(q), x)
  BY ApartTail
<1>3. Distinct(Append(r, Head(q)))
  BY <1>1, <1>2, DistinctAppend
<1>4. Apart(Tail(q), Append(r, Head(q)))
  BY <1>1, <1>2, ApartAppend
<1>5. Apart(Append(r, Head(q)), x)
  BY <1>1, <1>2, ApartAppend
<1> QED
  BY <1>1, <1>2, <1>3, <1>4, <1>5

(* Elements of Tail and Append are elements of the sequence.               *)
LEMMA KnownMoves ==
  ASSUME NEW q \in Seq(Nat), NEW r \in Seq(Nat), NEW D, q # <<>>,
         \A i \in DOMAIN q : q[i] \in D, \A i \in DOMAIN r : r[i] \in D
  PROVE  /\ Tail(q) \in Seq(Nat) /\ Append(r, Head(q)) \in Seq(Nat)
         /\ Head(q) \in D
         /\ \A i \in DOMAIN Tail(q) : Tail(q)[i] \in D
         /\ \A i \in DOMAIN Append(r, Head(q)) : Append(r, Head(q))[i] \in D
<1>1. /\ Tail(q) \in Seq(Nat) /\ Head(q) \in Nat /\ Head(q) \in D
      /\ \A i \in DOMAIN Tail(q) : Tail(q)[i] \in D
  BY TailIndex
<1>2. \A i \in DOMAIN Append(r, Head(q)) : Append(r, Head(q))[i] \in D
  BY <1>1, AppendIndex
<1> QED
  BY <1>1, <1>2, AppendIndex

(* try_state_to_reads preserves the types. *)
LEMMA StateToReadsType ==
  ASSUME TypeInv, try_state_to_reads
  PROVE  TypeInv'
<1> DEFINE t == Head(waiting_state)
           o == op[t]
           cached == ~cache_invalid
           remote == IF cached THEN {c \in o.plan.to_read : cache[c].pin = 0}
                               ELSE o.plan.to_read
           n == [o EXCEPT !.using_cache = cached, !.remote_read = remote,
                          !.pending_read = o.plan.to_read \ remote,
                          !.read_from = head[Primary]]
<1>1. waiting_state # <<>>
  BY DEF try_state_to_reads, CanStateToReads
<1>2. /\ waiting_state' = Tail(waiting_state)
      /\ waiting_reads' = Append(waiting_reads, t)
      /\ waiting_commit' = waiting_commit
      /\ cache_invalid' = (cache_invalid \/ invalidates_cache(o))
      /\ op' = [op EXCEPT ![t].using_cache = cached,
                          ![t].remote_read = remote,
                          ![t].pending_read = o.plan.to_read \ remote,
                          ![t].read_from = head[Primary]]
      /\ cache' = [c \in Cells |->
                     IF cached /\ c \in o.plan.will_write
                     THEN [cache[c] EXCEPT !.pin = t] ELSE cache[c]]
  BY DEF try_state_to_reads
<1>3. /\ waiting_state' \in Seq(Nat) /\ waiting_reads' \in Seq(Nat)
      /\ t \in DOMAIN op
      /\ \A i \in DOMAIN waiting_state' : waiting_state'[i] \in DOMAIN op
      /\ \A i \in DOMAIN waiting_reads' : waiting_reads'[i] \in DOMAIN op
  BY <1>1, <1>2, TypeOKParts, KnownMoves DEF Known, TypeInv
<1>4. o \in OpRecord /\ head[Primary] \in Nat /\ cached \in BOOLEAN /\ t \in Nat
  BY <1>3, TypeOKParts DEF TypeInv, TypeOK
<1>5. o.plan \in PlanSet
  BY <1>4 DEF OpRecord
<1>6. o.plan.to_read \subseteq Cells
  BY <1>5 DEF PlanSet
<1>7. remote \subseteq Cells
  BY <1>6
<1> HIDE DEF cached, remote
<1>8. n \in OpRecord
  BY <1>4, <1>6, <1>7 DEF OpRecord
<1>9. op' = [op EXCEPT ![t] = n]
  BY <1>2
<1> HIDE DEF n
<1>10. DOMAIN op' = DOMAIN op /\ op' \in [DOMAIN op' -> OpRecord]
  BY <1>3, <1>8, <1>9, OpChanged DEF TypeInv
<1>11. cache' \in [Cells -> CacheEntry]
  <2>1. \A c \in Cells : cache[c] \in CacheEntry
    BY DEF TypeInv, TypeOK
  <2>2. \A c \in Cells : [cache[c] EXCEPT !.pin = t] \in CacheEntry
    BY <1>4, <2>1 DEF CacheEntry
  <2> QED
    BY <1>2, <2>1, <2>2
<1>12. MapTyped'
  BY <1>2, <1>3, <1>10, TypeOKParts DEF MapTyped, Known, TypeInv
<1>13. WireTyped'
  BY WireSame DEF TypeInv, try_state_to_reads
<1>14. RestTyped'
  <2>1. RestTyped
    BY TypeSplit DEF TypeInv
  <2>2. cache_invalid' \in BOOLEAN
    BY <1>2, <2>1 DEF RestTyped, invalidates_cache
  <2>3. UNCHANGED <<on_write, log_entry_update_waiting_on, completed_to,
                    committed_to, checking, next_tid, projected_last_update,
                    last_complete_ondisk, min_last_complete_ondisk, acked,
                    log, interval>>
    BY DEF try_state_to_reads, ackVars
  <2> QED
    BY <1>11, <2>1, <2>2, <2>3 DEF RestTyped
<1>15. QueueInv'
  <2>1. /\ Distinct(waiting_state)' /\ Distinct(waiting_reads)'
        /\ Apart(waiting_state, waiting_reads)'
        /\ Apart(waiting_state, waiting_commit)'
        /\ Apart(waiting_reads, waiting_commit)'
    BY <1>1, <1>2, TypeOKParts, HeadMoves DEF Known, TypeInv, QueueInv
  <2>2. next_tid' = next_tid
    BY DEF try_state_to_reads
  <2> QED
    BY <1>2, <1>10, <2>1, <2>2 DEF QueueInv, TypeInv, Distinct
<1> QED
  BY <1>12, <1>13, <1>14, <1>15, TypeSplit DEF TypeInv

(* What a cell holds, what is read of it and written to it: versions.      *)
LEMMA ContentType ==
  ASSUME TypeOK, NEW c, NEW v
  PROVE  Content(c, v) \subseteq Nat
  BY DEF TypeOK, Content, LogEntry

(* What try_reads_to_commit reads is a content of the cells. *)
LEMMA ReadType ==
  ASSUME TypeOK, NEW o
  PROVE  Read(o) \in [Cells -> SUBSET Nat]
<1>1. \A c \in Cells : cache[c].content \subseteq Nat
  BY DEF TypeOK, CacheEntry
<1> QED
  BY <1>1, ContentType DEF Read

(* What try_reads_to_commit writes is a content of the cells. *)
LEMMA WrittenType ==
  ASSUME TypeOK, NEW o \in OpRecord, NEW c \in Cells
  PROVE  Written(o, c) \subseteq Nat
<1>1. o.version \in Nat
  BY DEF OpRecord
<1>2. Read(o)[c] \subseteq Nat /\ Content(c, head[Primary]) \subseteq Nat
  BY ReadType, ContentType
<1> QED
  BY <1>1, <1>2 DEF Written

(* try_reads_to_commit preserves the types. *)
LEMMA ReadsToCommitType ==
  ASSUME TypeInv, try_reads_to_commit
  PROVE  TypeInv'
<1> DEFINE t == Head(waiting_reads)
           o == op[t]
           n == [o EXCEPT !.pending_commit = Shards, !.pending_read = {},
                          !.remote_read = {}, !.on_write = <<>>]
           e == [version |-> o.version, plan |-> o.plan, read |-> Read(o)]
<1>1. waiting_reads # <<>>
  BY DEF try_reads_to_commit, CanReadsToCommit
<1>2. /\ waiting_reads' = Tail(waiting_reads)
      /\ waiting_commit' = Append(waiting_commit, t)
      /\ waiting_state' = waiting_state
      /\ op' = [op EXCEPT ![t].pending_commit = Shards,
                          ![t].pending_read = {},
                          ![t].remote_read = {},
                          ![t].on_write = <<>>]
      /\ cache' = [c \in Cells |->
                     IF o.using_cache /\ c \in o.plan.will_write
                     THEN [cache[c] EXCEPT !.content = Written(o, c)]
                     ELSE cache[c]]
      /\ log' = IF o.version = 0 THEN log ELSE log \cup {e}
      /\ Publish(t, o.version, o.roll_forward_to, FALSE)
      /\ on_write' = o.on_write
  BY DEF try_reads_to_commit
<1>3. /\ waiting_reads' \in Seq(Nat) /\ waiting_commit' \in Seq(Nat)
      /\ t \in DOMAIN op
      /\ \A i \in DOMAIN waiting_reads' : waiting_reads'[i] \in DOMAIN op
      /\ \A i \in DOMAIN waiting_commit' : waiting_commit'[i] \in DOMAIN op
  BY <1>1, <1>2, TypeOKParts, KnownMoves DEF Known, TypeInv
<1>4. o \in OpRecord /\ t \in Nat
  BY <1>3, TypeOKParts DEF TypeInv
<1>5. /\ o.version \in Nat /\ o.roll_forward_to \in Nat
      /\ o.on_write \in Seq(Update) /\ o.plan \in PlanSet
  BY <1>4 DEF OpRecord
<1>6. e \in LogEntry
  <2>1. Read(o) \in [Cells -> SUBSET Nat]
    BY ReadType DEF TypeInv
  <2> QED
    BY <1>5, <2>1 DEF LogEntry
<1>7. n \in OpRecord
  <2>1. <<>> \in Seq(Update)
    OBVIOUS
  <2> QED
    BY <1>4, <2>1 DEF OpRecord
<1>8. op' = [op EXCEPT ![t] = n]
  BY <1>2
<1>9. cache' \in [Cells -> CacheEntry]
  <2>1. \A c \in Cells : cache[c] \in CacheEntry
    BY DEF TypeInv, TypeOK
  <2>2. \A c \in Cells : Written(o, c) \subseteq Nat
    BY <1>4, WrittenType DEF TypeInv
  <2>3. \A c \in Cells :
          [cache[c] EXCEPT !.content = Written(o, c)] \in CacheEntry
    BY <2>1, <2>2 DEF CacheEntry
  <2> QED
    BY <1>2, <2>1, <2>3
<1> HIDE DEF n, e
<1>10. DOMAIN op' = DOMAIN op /\ op' \in [DOMAIN op' -> OpRecord]
  BY <1>3, <1>7, <1>8, OpChanged DEF TypeInv
<1>11. MapTyped'
  BY <1>2, <1>3, <1>10, TypeOKParts DEF MapTyped, Known, TypeInv
<1>12. WireTyped'
  BY <1>2, <1>4, <1>5, PublishType DEF TypeInv, WireTyped
<1>13. RestTyped'
  <2>1. RestTyped
    BY TypeSplit DEF TypeInv
  <2>2. log' \subseteq LogEntry
    BY <1>2, <1>6, <2>1 DEF RestTyped
  <2>3. UNCHANGED <<log_entry_update_waiting_on, cache_invalid, completed_to,
                    committed_to, checking, next_tid, projected_last_update,
                    last_complete_ondisk, min_last_complete_ondisk, acked,
                    interval>>
    BY DEF try_reads_to_commit, ackVars
  <2>4. on_write' \in Seq(Update)
    BY <1>2, <1>5
  <2> QED
    BY <1>9, <2>1, <2>2, <2>3, <2>4 DEF RestTyped
<1>14. QueueInv'
  <2>1. Apart(waiting_reads, waiting_state) /\ Apart(waiting_commit, waiting_state)
    BY ApartSym DEF TypeInv, QueueInv
  <2>2. /\ Distinct(waiting_reads)' /\ Distinct(waiting_commit)'
        /\ Apart(waiting_reads, waiting_commit)'
        /\ Apart(waiting_reads', waiting_state)
        /\ Apart(waiting_commit', waiting_state)
    BY <1>1, <1>2, <2>1, TypeOKParts, HeadMoves DEF Known, TypeInv, QueueInv
  <2>3. next_tid' = next_tid
    BY DEF try_reads_to_commit
  <2>4. Apart(waiting_state, waiting_reads)' /\ Apart(waiting_state, waiting_commit)'
    BY <1>2, <2>2, ApartSym
  <2> QED
    BY <1>2, <1>10, <2>2, <2>3, <2>4 DEF QueueInv, TypeInv, Distinct
<1> QED
  BY <1>11, <1>12, <1>13, <1>14, TypeSplit DEF TypeInv

(* Releasing pins keeps the type of the cache.                             *)
LEMMA ReleasedType ==
  ASSUME TypeOK, NEW ts
  PROVE  Released(ts) \in [Cells -> CacheEntry]
<1>1. \A c \in Cells : cache[c] \in CacheEntry
  BY DEF TypeOK
<1>2. Unpinned \in CacheEntry
  BY DEF Unpinned, CacheEntry
<1> QED
  BY <1>1, <1>2 DEF Released

(* try_finish_rmw preserves the types. *)
LEMMA FinishType ==
  ASSUME TypeInv, try_finish_rmw
  PROVE  TypeInv'
<1> DEFINE t == Head(waiting_commit)
           o == op[t]
           kick == KickRollForward(o, waiting_reads, Tail(waiting_commit))
           n == Op(next_tid, 0, o.version, NoPlan, FALSE)
<1>1. waiting_commit # <<>>
  BY DEF try_finish_rmw, CanFinishRmw
<1>2. /\ waiting_commit' = Tail(waiting_commit)
      /\ waiting_state' = waiting_state
      /\ completed_to' = Larger(completed_to, o.roll_forward_to)
      /\ committed_to' = Larger(committed_to, o.version)
      /\ \/ /\ kick
            /\ op' = Without(WithOp(op, next_tid, n), t)
            /\ waiting_reads' = Append(waiting_reads, next_tid)
            /\ next_tid' = next_tid + 1
         \/ /\ op' = Without(op, t)
            /\ waiting_reads' = waiting_reads
            /\ next_tid' = next_tid
      /\ cache' = IF o.using_cache THEN Released({t}) ELSE cache
      /\ cache_invalid' =
           (cache_invalid /\ ~PipelineEmpty(waiting_reads', waiting_commit'))
  BY DEF try_finish_rmw
<1>3. /\ waiting_commit \in Seq(Nat) /\ Tail(waiting_commit) \in Seq(Nat)
      /\ t \in DOMAIN op /\ t \in Nat
      /\ \A i \in DOMAIN Tail(waiting_commit) :
           Tail(waiting_commit)[i] \in DOMAIN op /\ Tail(waiting_commit)[i] # t
      /\ Distinct(Tail(waiting_commit))
  <2>1. Known(waiting_commit) /\ Distinct(waiting_commit)
    BY TypeOKParts DEF TypeInv, QueueInv
  <2> QED
    BY <1>1, <2>1, TailIndex, DistinctTail DEF Known
<1>4. /\ \A i \in DOMAIN waiting_state : waiting_state[i] # t
      /\ \A i \in DOMAIN waiting_reads : waiting_reads[i] # t
      /\ Apart(waiting_state, Tail(waiting_commit))
      /\ Apart(waiting_reads, Tail(waiting_commit))
  BY <1>1, TypeOKParts, ApartTail DEF TypeInv, QueueInv, Known
<1>5. o \in OpRecord /\ next_tid \in Nat /\ t < next_tid
  BY <1>3, TypeOKParts DEF TypeInv, TypeOK, QueueInv
<1>6. o.version \in Nat /\ o.roll_forward_to \in Nat
  BY <1>5 DEF OpRecord
<1>7. n \in OpRecord
  <2>1. NoPlan \in PlanSet
    BY DEF NoPlan, PlanSet
  <2> QED
    BY <1>5, <1>6, <2>1, OpType DEF TypeInv
<1>8. cache' \in [Cells -> CacheEntry]
  BY <1>2, ReleasedType DEF TypeInv, TypeOK
<1>9. WireTyped'
  BY WireSame DEF TypeInv, try_finish_rmw
<1>10. cache_invalid' \in BOOLEAN
  BY <1>2 DEF PipelineEmpty, TypeInv, TypeOK
<1> HIDE DEF t, o, kick, n
<1>11. RestTyped'
  <2>1. RestTyped
    BY TypeSplit DEF TypeInv
  <2>2. completed_to' \in Nat /\ committed_to' \in Nat /\ next_tid' \in Nat
    BY <1>2, <1>5, <1>6, <2>1 DEF Larger, RestTyped
  <2>3. UNCHANGED <<on_write, log_entry_update_waiting_on, checking,
                    projected_last_update, last_complete_ondisk,
                    min_last_complete_ondisk, acked, log, interval>>
    BY DEF try_finish_rmw, ackVars
  <2> QED
    BY <1>8, <1>10, <2>1, <2>2, <2>3 DEF RestTyped
<1>12. CASE /\ op' = Without(WithOp(op, next_tid, n), t)
            /\ waiting_reads' = Append(waiting_reads, next_tid)
            /\ next_tid' = next_tid + 1
  <2> DEFINE f == WithOp(op, next_tid, n)
  <2>1. /\ DOMAIN f = DOMAIN op \cup {next_tid}
        /\ f \in [DOMAIN op \cup {next_tid} -> OpRecord]
    BY <1>7, OpAdded DEF TypeInv
  <2>2. op' = Without(f, t)
    BY <1>12
  <2> HIDE DEF f
  <2>3. /\ DOMAIN op' = (DOMAIN op \cup {next_tid}) \ {t}
        /\ op' \in [DOMAIN op' -> OpRecord]
    BY <2>1, <2>2 DEF Without
  <2>4. next_tid \notin DOMAIN op /\ next_tid # t
    BY <1>5, TypeOKParts DEF TypeInv, QueueInv
  <2>5. \A q \in {waiting_state, waiting_reads} :
          q \in Seq(Nat) /\ \A i \in DOMAIN q : q[i] # next_tid /\ q[i] # t
                                               /\ q[i] \in DOMAIN op
    BY <1>4, <2>4, TypeOKParts DEF Known, TypeInv
  <2>6. Append(waiting_reads, next_tid) \in Seq(Nat)
        /\ Distinct(Append(waiting_reads, next_tid))
    BY <1>5, <2>5, AppendIndex, DistinctAppend DEF TypeInv, QueueInv
  <2>7. \A i \in DOMAIN waiting_reads' : waiting_reads'[i] \in DOMAIN op'
    BY <1>5, <1>12, <2>3, <2>4, <2>5, AppendIndex
  <2>8. MapTyped'
    BY <1>2, <1>3, <1>5, <1>12, <2>3, <2>5, <2>6, <2>7, TypeOKParts
       DEF MapTyped, Known, TypeInv
  <2>9. \A i \in DOMAIN Tail(waiting_commit) :
          Tail(waiting_commit)[i] # next_tid
    BY <1>3, <2>4
  <2>10. /\ Apart(waiting_state, Append(waiting_reads, next_tid))
         /\ Apart(Append(waiting_reads, next_tid), Tail(waiting_commit))
    BY <1>3, <1>4, <1>5, <2>5, <2>9, ApartAppend DEF TypeInv, QueueInv
  <2>11. \A u \in DOMAIN op' : u < next_tid'
    BY <1>5, <1>12, <2>3, TypeOKParts DEF TypeInv, QueueInv
  <2>12. QueueInv'
    BY <1>2, <1>3, <1>4, <1>12, <2>6, <2>10, <2>11 DEF QueueInv, TypeInv
  <2> QED
    BY <1>9, <1>11, <2>8, <2>12, TypeSplit DEF TypeInv
<1>13. CASE /\ op' = Without(op, t)
            /\ waiting_reads' = waiting_reads
            /\ next_tid' = next_tid
  <2>1. DOMAIN op' = DOMAIN op \ {t} /\ op' \in [DOMAIN op' -> OpRecord]
    BY <1>13, OpRemoved DEF TypeInv
  <2>2. MapTyped'
    BY <1>2, <1>3, <1>4, <1>13, <2>1, TypeOKParts DEF MapTyped, Known, TypeInv
  <2>3. QueueInv'
    BY <1>2, <1>3, <1>4, <1>13, <2>1 DEF QueueInv, TypeInv
  <2> QED
    BY <1>9, <1>11, <2>2, <2>3, TypeSplit DEF TypeInv
<1> QED
  BY <1>2, <1>12, <1>13

(* The end of check_ops preserves the types. *)
LEMMA CheckDoneType ==
  ASSUME TypeInv, check_ops_done
  PROVE  TypeInv'
<1>1. WireTyped'
  BY WireSame DEF TypeInv, check_ops_done
<1>2. /\ UNCHANGED <<on_write, log_entry_update_waiting_on, cache,
                     cache_invalid, completed_to, committed_to, next_tid,
                     projected_last_update, last_complete_ondisk,
                     min_last_complete_ondisk, acked, log, interval, op>>
      /\ UNCHANGED queueVars /\ checking' = FALSE
  BY DEF check_ops_done, ackVars
<1>3. RestTyped'
  <2>1. RestTyped
    BY TypeSplit DEF TypeInv
  <2> QED
    BY <1>2, <2>1 DEF RestTyped
<1>4. MapTyped' /\ QueueInv'
  <2>1. next_tid \in Nat
    BY DEF TypeInv, TypeOK
  <2> QED
    BY <1>2, <2>1, SameQueues, TypeOKParts DEF MapTyped, TypeInv
<1> QED
  BY <1>1, <1>3, <1>4, TypeSplit DEF TypeInv

(* The versions a step can name.                                           *)
LEMMA VersionNat ==
  ASSUME TypeOK, NEW v \in {0} \cup {e.version : e \in log}
  PROVE  v \in Nat
<1>1. \A e \in log : e \in LogEntry
  BY DEF TypeOK
<1>2. \A e \in log : e.version \in Nat
  BY <1>1 DEF LogEntry
<1> QED
  BY <1>2

(* The end of a remote read preserves the types. *)
LEMMA RemoteReadType ==
  ASSUME TypeInv, NEW t \in DOMAIN op,
         NEW v \in {0} \cup {e.version : e \in log}, RemoteReadDone(t, v)
  PROVE  TypeInv'
<1> DEFINE n == [op[t] EXCEPT !.read_done = TRUE, !.read_at = v]
<1>1. v \in Nat
  BY VersionNat DEF TypeInv
<1>2. op[t] \in OpRecord
  BY TypeOKParts DEF TypeInv
<1>3. n \in OpRecord
  BY <1>1, <1>2 DEF OpRecord
<1>4. op' = [op EXCEPT ![t] = n]
  BY DEF RemoteReadDone
<1> HIDE DEF n
<1>5. DOMAIN op' = DOMAIN op /\ op' \in [DOMAIN op' -> OpRecord]
  BY <1>3, <1>4, OpChanged DEF TypeInv
<1>6. WireTyped'
  BY WireSame DEF TypeInv, RemoteReadDone
<1>7. /\ UNCHANGED <<on_write, log_entry_update_waiting_on, cache,
                     cache_invalid, completed_to, committed_to, next_tid,
                     projected_last_update, last_complete_ondisk,
                     min_last_complete_ondisk, acked, log, interval>>
      /\ UNCHANGED queueVars /\ checking' = TRUE
  BY DEF RemoteReadDone, ackVars
<1>8. RestTyped'
  <2>1. RestTyped
    BY TypeSplit DEF TypeInv
  <2> QED
    BY <1>7, <2>1 DEF RestTyped
<1>9. MapTyped' /\ QueueInv'
  <2>1. next_tid \in Nat
    BY DEF TypeInv, TypeOK
  <2> QED
    BY <1>5, <1>7, <2>1, SameQueues, TypeOKParts DEF MapTyped, TypeInv
<1> QED
  BY <1>6, <1>8, <1>9, TypeSplit DEF TypeInv

(* The cursors of a shard into the messages of the interval.               *)
CursorInv ==
  \A s \in Shards : /\ replied[s] <= stored[s] /\ stored[s] <= handled[s]
                    /\ handled[s] <= Len(sent)

(* The messages that a shard handles, stores and answers next.             *)
LEMMA NextMessage ==
  ASSUME TypeOK, CursorInv, NEW s \in Shards
  PROVE  /\ handled[s] < Len(sent) => sent[handled[s] + 1] \in Message
         /\ stored[s] < handled[s] => /\ stored[s] + 1 \in DOMAIN sent
                                      /\ sent[stored[s] + 1] \in Message
         /\ replied[s] < stored[s] => /\ replied[s] + 1 \in DOMAIN sent
                                      /\ NextReply(s) \in Message
<1>1. /\ sent \in Seq(Message) /\ handled[s] \in Nat /\ stored[s] \in Nat
      /\ replied[s] \in Nat
  BY DEF TypeOK
<1>2. replied[s] <= stored[s] /\ stored[s] <= handled[s]
      /\ handled[s] <= Len(sent)
  BY DEF CursorInv
<1> QED
  BY <1>1, <1>2 DEF NextReply

(* handle_sub_write preserves the types. *)
LEMMA HandleType ==
  ASSUME TypeInv, CursorInv, NEW s \in Shards, handle_sub_write(s)
  PROVE  TypeInv'
<1> DEFINE m == sent[handled[s] + 1]
<1>1. m \in Message
  BY NextMessage DEF handle_sub_write, TypeInv
<1>2. m.head \in Nat /\ m.roll_forward_to \in Nat
  BY <1>1 DEF Message
<1>3. WireTyped
  BY TypeSplit DEF TypeInv
<1>4. Larger(can_rollback_to[s], m.roll_forward_to) \in Nat
      /\ handled[s] + 1 \in Nat
  BY <1>2, <1>3 DEF Larger, WireTyped
<1>5. /\ head' = [head EXCEPT ![s] = m.head]
      /\ can_rollback_to' = [can_rollback_to EXCEPT ![s] =
                               Larger(can_rollback_to[s], m.roll_forward_to)]
      /\ handled' = [handled EXCEPT ![s] = handled[s] + 1]
      /\ sent' = sent /\ stored' = stored /\ replied' = replied
      /\ ondisk' = ondisk
  BY DEF handle_sub_write
<1> HIDE DEF m
<1>6. WireTyped'
  BY <1>2, <1>3, <1>4, <1>5 DEF WireTyped
<1>7. /\ UNCHANGED <<on_write, log_entry_update_waiting_on, cache,
                     cache_invalid, completed_to, committed_to, next_tid,
                     projected_last_update, last_complete_ondisk, checking,
                     min_last_complete_ondisk, acked, log, interval, op>>
      /\ UNCHANGED queueVars
  BY DEF handle_sub_write, ackVars
<1>8. RestTyped'
  <2>1. RestTyped
    BY TypeSplit DEF TypeInv
  <2> QED
    BY <1>7, <2>1 DEF RestTyped
<1>9. MapTyped' /\ QueueInv'
  <2>1. next_tid \in Nat
    BY DEF TypeInv, TypeOK
  <2> QED
    BY <1>7, <2>1, SameQueues, TypeOKParts DEF MapTyped, TypeInv
<1> QED
  BY <1>6, <1>8, <1>9, TypeSplit DEF TypeInv

(* sub_write_committed preserves the types. *)
LEMMA CommitType ==
  ASSUME TypeInv, CursorInv, NEW s \in Shards, sub_write_committed(s)
  PROVE  TypeInv'
<1> DEFINE m == sent[stored[s] + 1]
<1>1. m \in Message
  BY NextMessage DEF sub_write_committed, TypeInv
<1>2. m.head \in Nat
  BY <1>1 DEF Message
<1>3. WireTyped
  BY TypeSplit DEF TypeInv
<1>4. Larger(ondisk[s], m.head) \in Nat /\ stored[s] + 1 \in Nat
  BY <1>2, <1>3 DEF Larger, WireTyped
<1>5. /\ ondisk' = [ondisk EXCEPT ![s] = Larger(ondisk[s], m.head)]
      /\ stored' = [stored EXCEPT ![s] = stored[s] + 1]
      /\ sent' = sent /\ handled' = handled /\ replied' = replied
      /\ head' = head /\ can_rollback_to' = can_rollback_to
  BY DEF sub_write_committed
<1> HIDE DEF m
<1>6. WireTyped'
  BY <1>3, <1>4, <1>5 DEF WireTyped
<1>7. /\ UNCHANGED <<on_write, log_entry_update_waiting_on, cache,
                     cache_invalid, completed_to, committed_to, next_tid,
                     projected_last_update, last_complete_ondisk, checking,
                     min_last_complete_ondisk, acked, log, interval, op>>
      /\ UNCHANGED queueVars
  BY DEF sub_write_committed, ackVars
<1>8. RestTyped'
  <2>1. RestTyped
    BY TypeSplit DEF TypeInv
  <2> QED
    BY <1>7, <2>1 DEF RestTyped
<1>9. MapTyped' /\ QueueInv'
  <2>1. next_tid \in Nat
    BY DEF TypeInv, TypeOK
  <2> QED
    BY <1>7, <2>1, SameQueues, TypeOKParts DEF MapTyped, TypeInv
<1> QED
  BY <1>6, <1>8, <1>9, TypeSplit DEF TypeInv

(* What the replies report has the type of last_complete_ondisk.           *)
LEMMA ReportedType ==
  ASSUME TypeOK, CursorInv, NEW s \in Shards, replied[s] < stored[s]
  PROVE  /\ NextReply(s) \in Message /\ NextReply(s).tid \in Nat
         /\ NextReply(s).head \in Nat
         /\ Reported(s) \in [Shards -> Nat]
<1>1. NextReply(s) \in Message
  BY NextMessage
<1>2. NextReply(s).tid \in Nat /\ NextReply(s).head \in Nat
  BY <1>1 DEF Message
<1> QED
  BY <1>1, <1>2 DEF Reported, TypeOK

(* handle_sub_write_reply preserves the types. *)
LEMMA ReplyType ==
  ASSUME TypeInv, CursorInv, NEW s \in Shards, handle_sub_write_reply(s)
  PROVE  TypeInv'
<1> DEFINE t == NextReply(s).tid
           left == op[t].pending_commit \ {s}
           all == AllCommitted(left) /\ op[t].on_all_commit
           n == [op[t] EXCEPT !.pending_commit = left,
                              !.on_all_commit = op[t].on_all_commit /\ ~all]
<1>1. /\ t \in DOMAIN op
      /\ op' = [op EXCEPT ![t].pending_commit = left,
                          ![t].on_all_commit = @ /\ ~all]
      /\ \/ repop_all_committed(op[t].version, op[t].pg_local_last_complete,
                                Reported(s))
         \/ /\ last_complete_ondisk' = Reported(s)
            /\ UNCHANGED <<acked, min_last_complete_ondisk>>
      /\ replied' = [replied EXCEPT ![s] = replied[s] + 1]
      /\ checking' = TRUE
      /\ replied[s] < stored[s]
  BY DEF handle_sub_write_reply
<1>2. op[t] \in OpRecord
  BY <1>1, TypeOKParts DEF TypeInv
<1>3. left \subseteq Shards
  BY <1>2 DEF OpRecord
<1>4. (op[t].on_all_commit /\ ~all) \in BOOLEAN
  BY <1>2 DEF OpRecord
<1>5. op' = [op EXCEPT ![t] = n]
  BY <1>1
<1> HIDE DEF left, all
<1>6. n \in OpRecord
  BY <1>2, <1>3, <1>4 DEF OpRecord
<1> HIDE DEF n
<1>7. DOMAIN op' = DOMAIN op /\ op' \in [DOMAIN op' -> OpRecord]
  BY <1>1, <1>5, <1>6, OpChanged DEF TypeInv
<1>8. RestTyped /\ WireTyped
  BY TypeSplit DEF TypeInv
<1>9. /\ UNCHANGED <<on_write, log_entry_update_waiting_on, cache,
                     cache_invalid, completed_to, committed_to, next_tid,
                     projected_last_update, log, interval>>
      /\ UNCHANGED <<sent, handled, stored, head, ondisk, can_rollback_to>>
      /\ UNCHANGED queueVars
  BY DEF handle_sub_write_reply, shardVars
<1>10. WireTyped'
  <2>1. replied[s] + 1 \in Nat
    BY <1>8 DEF WireTyped
  <2> QED
    BY <1>1, <1>8, <1>9, <2>1 DEF WireTyped
<1>11. /\ acked' \subseteq Nat /\ last_complete_ondisk' \in [Shards -> Nat]
       /\ min_last_complete_ondisk' \in Nat
  <2>1. Reported(s) \in [Shards -> Nat]
    BY <1>1, ReportedType DEF TypeInv
  <2>2. op[t].version \in Nat /\ op[t].pg_local_last_complete \in Nat
    BY <1>2 DEF OpRecord
  <2> QED
    BY <1>1, <1>8, <2>1, <2>2, AllCommittedType DEF RestTyped
<1>12. RestTyped'
  BY <1>1, <1>8, <1>9, <1>11 DEF RestTyped
<1>13. MapTyped' /\ QueueInv'
  <2>1. next_tid \in Nat
    BY DEF TypeInv, TypeOK
  <2> QED
    BY <1>7, <1>9, <2>1, SameQueues, TypeOKParts DEF MapTyped, TypeInv
<1> QED
  BY <1>10, <1>12, <1>13, TypeSplit DEF TypeInv

(* do_update_log_missing_reply preserves the types. *)
LEMMA UpdateReplyType ==
  ASSUME TypeInv, CursorInv, NEW s \in Shards, do_update_log_missing_reply(s)
  PROVE  TypeInv'
<1> DEFINE t == NextReply(s).tid
           luw == log_entry_update_waiting_on
           u == luw[t]
           left == u.waiting_on \ {s}
<1>1. /\ t \in DOMAIN luw
      /\ \/ /\ repop_all_committed(u.version, u.pg_local_last_complete,
                                   Reported(s))
            /\ luw' = Without(luw, t)
         \/ /\ last_complete_ondisk' = Reported(s)
            /\ luw' = [luw EXCEPT ![t].waiting_on = left]
            /\ UNCHANGED <<acked, min_last_complete_ondisk>>
      /\ replied' = [replied EXCEPT ![s] = replied[s] + 1]
      /\ replied[s] < stored[s]
  BY DEF do_update_log_missing_reply
<1>2. RestTyped /\ WireTyped
  BY TypeSplit DEF TypeInv
<1>3. luw \in [DOMAIN luw -> Waiting] /\ DOMAIN luw \subseteq Nat
      /\ u \in Waiting
  BY <1>1, <1>2 DEF RestTyped
<1>4. u.version \in Nat /\ u.pg_local_last_complete \in Nat
      /\ [u EXCEPT !.waiting_on = left] \in Waiting
  BY <1>3 DEF Waiting
<1>5. /\ UNCHANGED <<on_write, cache, cache_invalid, completed_to,
                     committed_to, next_tid, projected_last_update, checking,
                     log, interval, op>>
      /\ UNCHANGED <<sent, handled, stored, head, ondisk, can_rollback_to>>
      /\ UNCHANGED queueVars
  BY DEF do_update_log_missing_reply, shardVars
<1>6. DOMAIN luw' \subseteq Nat /\ luw' \in [DOMAIN luw' -> Waiting]
  <2>1. CASE luw' = Without(luw, t)
    BY <1>3, <2>1 DEF Without
  <2>2. CASE luw' = [luw EXCEPT ![t].waiting_on = left]
    <3>1. luw' = [luw EXCEPT ![t] = [u EXCEPT !.waiting_on = left]]
      BY <2>2
    <3> QED
      BY <1>3, <1>4, <3>1
  <2> QED
    BY <1>1, <2>1, <2>2
<1>7. WireTyped'
  <2>1. replied[s] + 1 \in Nat
    BY <1>2 DEF WireTyped
  <2> QED
    BY <1>1, <1>2, <1>5, <2>1 DEF WireTyped
<1>8. /\ acked' \subseteq Nat /\ last_complete_ondisk' \in [Shards -> Nat]
      /\ min_last_complete_ondisk' \in Nat
  <2>1. Reported(s) \in [Shards -> Nat]
    BY <1>1, ReportedType DEF TypeInv
  <2> QED
    BY <1>1, <1>2, <1>4, <2>1, AllCommittedType DEF RestTyped
<1>9. RestTyped'
  BY <1>2, <1>5, <1>6, <1>8 DEF RestTyped
<1>10. MapTyped' /\ QueueInv'
  <2>1. next_tid \in Nat
    BY DEF TypeInv, TypeOK
  <2> QED
    BY <1>5, <2>1, SameQueues, TypeOKParts DEF MapTyped, TypeInv
<1> QED
  BY <1>7, <1>9, <1>10, TypeSplit DEF TypeInv

(* on_change preserves the types. *)
LEMMA ChangeType ==
  ASSUME TypeInv, NEW h \in {0} \cup {e.version : e \in log}, on_change(h)
  PROVE  TypeInv' /\ CursorInv'
<1>1. h \in Nat
  BY VersionNat DEF TypeInv
<1>2. RestTyped /\ WireTyped
  BY TypeSplit DEF TypeInv
<1>3. WireTyped'
  BY <1>1, <1>2 DEF on_change, WireTyped
<1>4. cache' \in [Cells -> CacheEntry]
  BY ReleasedType DEF TypeInv, on_change
<1>5. RestTyped'
  <2>1. interval' \in Nat
    BY <1>2 DEF on_change, RestTyped
  <2>2. log' \subseteq LogEntry
    BY <1>2 DEF on_change, RestTyped
  <2>3. /\ completed_to' = 0 /\ committed_to' = 0 /\ cache_invalid' = FALSE
        /\ log_entry_update_waiting_on' = <<>>
        /\ projected_last_update' = h
        /\ last_complete_ondisk' = [s \in Shards |-> 0]
        /\ min_last_complete_ondisk' = 0
        /\ UNCHANGED <<on_write, checking, next_tid, acked>>
    BY DEF on_change
  <2>4. DOMAIN <<>> = {} /\ <<>> \in [{} -> Waiting]
    OBVIOUS
  <2>5. /\ DOMAIN log_entry_update_waiting_on' \subseteq Nat
        /\ log_entry_update_waiting_on'
             \in [DOMAIN log_entry_update_waiting_on' -> Waiting]
    BY <2>3, <2>4
  <2>6. last_complete_ondisk' \in [Shards -> Nat]
    BY <2>3
  <2> QED
    BY <1>1, <1>2, <1>4, <2>1, <2>2, <2>3, <2>5, <2>6 DEF RestTyped
<1>6. MapTyped' /\ QueueInv'
  <2>1. /\ waiting_state' = <<>> /\ waiting_reads' = <<>>
        /\ waiting_commit' = <<>> /\ op' = <<>>
    BY DEF on_change
  <2>2. <<>> \in Seq(Nat) /\ DOMAIN <<>> = {} /\ <<>> \in [{} -> OpRecord]
    OBVIOUS
  <2>3. MapTyped'
    BY <2>1, <2>2 DEF MapTyped, Known
  <2>4. QueueInv'
    BY <2>1, <2>2 DEF QueueInv, Distinct, Apart
  <2> QED
    BY <2>3, <2>4
<1>7. CursorInv'
  BY DEF on_change, CursorInv
<1> QED
  BY <1>3, <1>5, <1>6, <1>7, TypeSplit DEF TypeInv

(* What is sent, stored and answered, by the cursors.                      *)
LEMMA PublishCursor ==
  ASSUME TypeOK, CursorInv, NEW t \in Nat, NEW v \in Nat, NEW r \in Nat,
         NEW b \in BOOLEAN, Publish(t, v, r, b)
  PROVE  CursorInv'
<1> DEFINE m == [tid |-> t, version |-> v, roll_forward_to |-> r,
                 head |-> Larger(head[Primary], v), update |-> b]
<1>1. WireTyped
  BY TypeSplit
<1>2. /\ sent' = Append(sent, m)
      /\ handled' = [handled EXCEPT ![Primary] = handled[Primary] + 1]
      /\ stored' = stored /\ replied' = replied
  BY DEF Publish
<1> HIDE DEF m
<1>3. Len(sent') = Len(sent) + 1 /\ Len(sent) \in Nat
  BY <1>1, <1>2 DEF WireTyped
<1>4. \A s \in Shards :
        /\ handled[s] \in Nat /\ stored[s] \in Nat
        /\ handled'[s] \in {handled[s], handled[s] + 1}
  BY <1>1, <1>2 DEF WireTyped
<1>5. \A s \in Shards : stored[s] <= handled'[s] /\ handled'[s] <= Len(sent')
  BY <1>3, <1>4 DEF CursorInv
<1> QED
  BY <1>2, <1>5 DEF CursorInv

(* A step that leaves sent and the cursors alone preserves CursorInv. *)
LEMMA CursorSame ==
  ASSUME CursorInv, UNCHANGED wireVars
  PROVE  CursorInv'
  BY DEF CursorInv, wireVars

(* A cursor that takes the next message stays within sent. *)
LEMMA CursorMoves ==
  ASSUME TypeOK, CursorInv, NEW s \in Shards,
         \/ handle_sub_write(s) \/ sub_write_committed(s)
         \/ handle_sub_write_reply(s) \/ do_update_log_missing_reply(s)
  PROVE  CursorInv'
<1>1. WireTyped
  BY TypeSplit
<1>2. Len(sent) \in Nat /\ sent' = sent
  BY <1>1 DEF WireTyped, handle_sub_write, sub_write_committed,
              handle_sub_write_reply, do_update_log_missing_reply
<1>3. CASE handle_sub_write(s)
  <2>1. /\ handled' = [handled EXCEPT ![s] = handled[s] + 1]
        /\ stored' = stored /\ replied' = replied /\ handled[s] < Len(sent)
    BY <1>3 DEF handle_sub_write
  <2> QED
    BY <1>1, <1>2, <2>1 DEF WireTyped, CursorInv
<1>4. CASE sub_write_committed(s)
  <2>1. /\ stored' = [stored EXCEPT ![s] = stored[s] + 1]
        /\ handled' = handled /\ replied' = replied /\ stored[s] < handled[s]
    BY <1>4 DEF sub_write_committed
  <2> QED
    BY <1>1, <1>2, <2>1 DEF WireTyped, CursorInv
<1>5. CASE handle_sub_write_reply(s) \/ do_update_log_missing_reply(s)
  <2>1. /\ replied' = [replied EXCEPT ![s] = replied[s] + 1]
        /\ handled' = handled /\ stored' = stored /\ replied[s] < stored[s]
    BY <1>5 DEF handle_sub_write_reply, do_update_log_missing_reply
  <2> QED
    BY <1>1, <1>2, <2>1 DEF WireTyped, CursorInv
<1> QED
  BY <1>3, <1>4, <1>5

(* Actions of the pipeline that send: their message is well typed.         *)
LEMMA RunOnWritePublishes ==
  ASSUME TypeInv, RunOnWrite
  PROVE  LET cb == Head(on_write)
         IN /\ cb \in Update /\ cb.tid \in Nat /\ cb.version \in Nat
            /\ cb.pg_local_last_complete \in Nat
            /\ Publish(cb.tid, cb.version, min_last_complete_ondisk, TRUE)
<1>1. on_write \in Seq(Update) /\ on_write # <<>>
  BY DEF TypeInv, TypeOK, RunOnWrite
<1>2. Head(on_write) \in Update
  BY <1>1
<1> QED
  BY <1>2 DEF Update, RunOnWrite

(* try_reads_to_commit sends the message of the first operation. *)
LEMMA ReadsToCommitPublishes ==
  ASSUME TypeInv, try_reads_to_commit
  PROVE  LET t == Head(waiting_reads)
         IN /\ t \in DOMAIN op /\ t \in Nat /\ op[t] \in OpRecord
            /\ op[t].version \in Nat /\ op[t].roll_forward_to \in Nat
            /\ Publish(t, op[t].version, op[t].roll_forward_to, FALSE)
<1>1. waiting_reads # <<>>
  BY DEF try_reads_to_commit, CanReadsToCommit
<1>2. Known(waiting_reads)
  BY TypeOKParts DEF TypeInv
<1>3. Head(waiting_reads) \in DOMAIN op /\ Head(waiting_reads) \in Nat
  BY <1>1, <1>2, TailIndex DEF Known
<1>4. op[Head(waiting_reads)] \in OpRecord
  BY <1>3, TypeOKParts DEF TypeInv
<1> QED
  BY <1>3, <1>4 DEF OpRecord, try_reads_to_commit

(* The initial state has the types. *)
LEMMA InitTyped == Init => TypeInv /\ CursorInv
<1> SUFFICES ASSUME Init PROVE TypeInv /\ CursorInv
  OBVIOUS
<1>1. DOMAIN <<>> = {} /\ <<>> \in [{} -> OpRecord] /\ <<>> \in Seq(Nat)
      /\ <<>> \in [{} -> Waiting] /\ <<>> \in Seq(Update)
      /\ <<>> \in Seq(Message) /\ Len(<<>>) = 0
  OBVIOUS
<1>2. /\ waiting_state = <<>> /\ waiting_reads = <<>> /\ waiting_commit = <<>>
      /\ op = <<>>
  BY DEF Init
<1>3. MapTyped /\ QueueInv
  BY <1>1, <1>2 DEF MapTyped, Known, QueueInv, Distinct, Apart
<1>4. WireTyped
  BY <1>1 DEF Init, WireTyped
<1>5. CursorInv
  BY <1>1 DEF Init, CursorInv
<1>6. RestTyped
  <2>1. cache \in [Cells -> CacheEntry]
    BY DEF Init, Unpinned, CacheEntry
  <2>2. /\ on_write \in Seq(Update)
        /\ DOMAIN log_entry_update_waiting_on \subseteq Nat
        /\ log_entry_update_waiting_on
             \in [DOMAIN log_entry_update_waiting_on -> Waiting]
    BY <1>1 DEF Init
  <2> QED
    BY <2>1, <2>2 DEF Init, RestTyped
<1> QED
  BY <1>3, <1>4, <1>5, <1>6, TypeSplit DEF TypeInv

(* Every step keeps the types, the queues and the cursors.                 *)
LEMMA NextTyped ==
  ASSUME TypeInv, CursorInv, [Next]_vars
  PROVE  TypeInv' /\ CursorInv'
<1>1. ASSUME NEW p \in Plans, submit_transaction(p)
      PROVE  TypeInv' /\ CursorInv'
  BY <1>1, SubmitType, CursorSame DEF submit_transaction
<1>2. CASE submit_log_entries
  BY <1>2, LogEntriesType, CursorSame DEF submit_log_entries
<1>3. CASE RunOnWrite
  BY <1>3, RunOnWriteType, RunOnWritePublishes, PublishCursor
     DEF TypeInv, TypeOK
<1>4. CASE try_state_to_reads
  BY <1>4, StateToReadsType, CursorSame DEF try_state_to_reads
<1>5. CASE try_reads_to_commit
  BY <1>5, ReadsToCommitType, ReadsToCommitPublishes, PublishCursor
     DEF TypeInv
<1>6. CASE try_finish_rmw
  BY <1>6, FinishType, CursorSame DEF try_finish_rmw
<1>7. CASE check_ops_done
  BY <1>7, CheckDoneType, CursorSame DEF check_ops_done
<1>8. ASSUME NEW t \in DOMAIN op, NEW v \in {0} \cup {e.version : e \in log},
             RemoteReadDone(t, v)
      PROVE  TypeInv' /\ CursorInv'
  BY <1>8, RemoteReadType, CursorSame DEF RemoteReadDone
<1>9. ASSUME NEW s \in Shards,
             \/ handle_sub_write(s) \/ sub_write_committed(s)
             \/ handle_sub_write_reply(s) \/ do_update_log_missing_reply(s)
      PROVE  TypeInv' /\ CursorInv'
  <2>1. CursorInv'
    BY <1>9, CursorMoves DEF TypeInv
  <2> QED
    BY <1>9, <2>1, HandleType, CommitType, ReplyType, UpdateReplyType
<1>10. ASSUME NEW h \in {0} \cup {e.version : e \in log}, on_change(h)
       PROVE  TypeInv' /\ CursorInv'
  BY <1>10, ChangeType
<1>11. CASE UNCHANGED vars
  <2>1. /\ UNCHANGED queueVars /\ UNCHANGED <<wireVars, shardVars>>
        /\ UNCHANGED wireVars
        /\ UNCHANGED <<op, on_write, log_entry_update_waiting_on, cache,
                       cache_invalid, completed_to, committed_to, checking,
                       next_tid, projected_last_update, last_complete_ondisk,
                       min_last_complete_ondisk, acked, log, interval>>
    BY <1>11 DEF vars, ackVars
  <2>2. RestTyped'
    <3>1. RestTyped
      BY TypeSplit DEF TypeInv
    <3> QED
      BY <2>1, <3>1 DEF RestTyped
  <2>3. next_tid \in Nat
    BY DEF TypeInv, TypeOK
  <2>4. MapTyped' /\ QueueInv'
    BY <2>1, <2>3, SameQueues, TypeOKParts DEF MapTyped, TypeInv
  <2> QED
    BY <2>1, <2>2, <2>4, WireSame, CursorSame, TypeSplit DEF TypeInv
<1> QED
  BY <1>1, <1>2, <1>3, <1>4, <1>5, <1>6, <1>7, <1>8, <1>9, <1>10, <1>11
     DEF Next

(* The types of the pipeline's state, in every reachable state: what is    *)
(* queued is in tid_to_op_map (ECBackend.cc, the erase at the end of       *)
(* try_finish_rmw and the clear of on_change).                             *)
THEOREM TypeCorrect == Spec => []TypeOK
<1>1. Init => TypeInv /\ CursorInv
  BY InitTyped
<1>2. TypeInv /\ CursorInv /\ [Next]_vars => (TypeInv /\ CursorInv)'
  BY NextTyped
<1>3. TypeInv /\ CursorInv => TypeOK
  BY DEF TypeInv
<1> QED
  BY <1>1, <1>2, <1>3, PTL DEF Spec
-----------------------------------------------------------------------------
(* The safety of the pipeline.  What makes it inductive is that every      *)
(* number that a message, an operation or a shard trusts as rolled forward *)
(* or acknowledged is on every disk already (Committed), and that what no  *)
(* longer waits for a shard is on its disk.                                *)
Committed(v, disk) == \A s \in Shards : v <= disk[s]

GoodUpdate(u, n) == /\ u.version = u.tid /\ u.tid < n
                    /\ u.pg_local_last_complete <= u.version

(* Messages: what they carry, and that a shard that stored one has it.     *)
WireInv ==
  /\ \A i \in DOMAIN sent :
       /\ sent[i].version <= sent[i].head /\ sent[i].head < next_tid
       /\ sent[i].tid < next_tid
       /\ sent[i].update => sent[i].version = sent[i].tid
       /\ Committed(sent[i].roll_forward_to, ondisk)
  /\ \A s \in Shards : \A i \in DOMAIN sent :
       i <= stored[s] => sent[i].head <= ondisk[s]
  /\ \A s \in Shards : head[s] < next_tid

(* Operations, and the callbacks that hang on them or are being run.       *)
OpInv ==
  /\ \A t \in DOMAIN op :
       /\ op[t].version < next_tid
       /\ Committed(op[t].roll_forward_to, ondisk)
       /\ op[t].on_all_commit => op[t].pg_local_last_complete <= op[t].version
       /\ \A k \in DOMAIN op[t].on_write : GoodUpdate(op[t].on_write[k], next_tid)
  /\ \A k \in DOMAIN on_write : GoodUpdate(on_write[k], next_tid)

(* A shard that an operation no longer waits for has it on disk.           *)
PendingInv ==
  /\ \A i \in DOMAIN sent :
       ~sent[i].update /\ sent[i].tid \in DOMAIN op =>
         /\ op[sent[i].tid].version = sent[i].version
         /\ \A s \in Shards : s \notin op[sent[i].tid].pending_commit
                              => sent[i].version <= ondisk[s]
  /\ \A j \in DOMAIN waiting_commit : \E i \in DOMAIN sent :
       ~sent[i].update /\ sent[i].tid = waiting_commit[j]

(* The same for a log update.                                              *)
UpdateInv ==
  \A t \in DOMAIN log_entry_update_waiting_on :
    LET u == log_entry_update_waiting_on[t]
    IN /\ u.version = t
       /\ u.pg_local_last_complete <= u.version
       /\ \A s \in Shards : s \notin u.waiting_on => u.version <= ondisk[s]

(* What is rolled forward, acknowledged or reported is on disk.            *)
CommittedInv ==
  /\ Committed(completed_to, ondisk) /\ Committed(committed_to, ondisk)
  /\ Committed(min_last_complete_ondisk, ondisk)
  /\ \A v \in acked : Committed(v, ondisk)
  /\ \A r \in Shards : Committed(can_rollback_to[r], ondisk)
  /\ \A s \in Shards : last_complete_ondisk[s] <= ondisk[s]

(* The elements of the typed sequences and functions, one by one.          *)
LEMMA ElementTypes ==
  ASSUME TypeInv
  PROVE  /\ next_tid \in Nat
         /\ \A i \in DOMAIN sent :
              /\ sent[i] \in Message /\ i \in Nat
              /\ sent[i].tid \in Nat /\ sent[i].version \in Nat
              /\ sent[i].head \in Nat /\ sent[i].roll_forward_to \in Nat
         /\ \A k \in DOMAIN on_write : on_write[k] \in Update
         /\ \A t \in DOMAIN op :
              /\ op[t] \in OpRecord /\ t \in Nat
              /\ op[t].version \in Nat /\ op[t].roll_forward_to \in Nat
              /\ op[t].pg_local_last_complete \in Nat
              /\ op[t].pending_commit \subseteq Shards
              /\ op[t].on_write \in Seq(Update)
              /\ \A k \in DOMAIN op[t].on_write : op[t].on_write[k] \in Update
         /\ \A s \in Shards :
              /\ head[s] \in Nat /\ ondisk[s] \in Nat /\ stored[s] \in Nat
              /\ handled[s] \in Nat /\ replied[s] \in Nat
              /\ can_rollback_to[s] \in Nat /\ last_complete_ondisk[s] \in Nat
<1>1. /\ sent \in Seq(Message) /\ on_write \in Seq(Update)
      /\ op \in [DOMAIN op -> OpRecord] /\ DOMAIN op \subseteq Nat
      /\ next_tid \in Nat
  BY DEF TypeInv, TypeOK
<1>2. \A i \in DOMAIN sent : sent[i] \in Message /\ i \in Nat
  BY <1>1
<1>3. \A i \in DOMAIN sent :
        /\ sent[i].tid \in Nat /\ sent[i].version \in Nat
        /\ sent[i].head \in Nat /\ sent[i].roll_forward_to \in Nat
  BY <1>2 DEF Message
<1>4. \A k \in DOMAIN on_write : on_write[k] \in Update
  BY <1>1
<1>5. \A t \in DOMAIN op : op[t] \in OpRecord /\ t \in Nat
  BY <1>1
<1>6. \A t \in DOMAIN op :
        /\ op[t].version \in Nat /\ op[t].roll_forward_to \in Nat
        /\ op[t].pg_local_last_complete \in Nat
        /\ op[t].pending_commit \subseteq Shards
        /\ op[t].on_write \in Seq(Update)
  BY <1>5 DEF OpRecord
<1>7. \A t \in DOMAIN op : \A k \in DOMAIN op[t].on_write :
        op[t].on_write[k] \in Update
  BY <1>6
<1>8. \A s \in Shards :
        /\ head[s] \in Nat /\ ondisk[s] \in Nat /\ stored[s] \in Nat
        /\ handled[s] \in Nat /\ replied[s] \in Nat
        /\ can_rollback_to[s] \in Nat /\ last_complete_ondisk[s] \in Nat
  BY DEF TypeInv, TypeOK
<1> QED
  BY <1>1, <1>2, <1>3, <1>4, <1>5, <1>6, <1>7, <1>8

(* The parts of the invariant in a step that leaves what they speak of.    *)
LEMMA WireInvSame ==
  ASSUME TypeInv, WireInv, UNCHANGED <<sent, stored, ondisk, head>>,
         next_tid' \in Nat, next_tid <= next_tid'
  PROVE  WireInv'
<1>1. next_tid \in Nat /\ head \in [Shards -> Nat] /\ sent \in Seq(Message)
  BY DEF TypeInv, TypeOK
<1>2. \A i \in DOMAIN sent : sent[i].head \in Nat /\ sent[i].tid \in Nat
  BY ElementTypes
<1>3. \A s \in Shards : head[s] \in Nat
  BY <1>1
<1>4. sent' = sent /\ stored' = stored /\ ondisk' = ondisk /\ head' = head
  OBVIOUS
<1>5. \A i \in DOMAIN sent : sent[i].head < next_tid' /\ sent[i].tid < next_tid'
  BY <1>1, <1>2 DEF WireInv
<1>6. \A s \in Shards : head[s] < next_tid'
  BY <1>1, <1>3 DEF WireInv
<1> QED
  BY <1>4, <1>5, <1>6 DEF WireInv, Committed

(* Steps that leave the operations and the callbacks alone. *)
LEMMA OpInvSame ==
  ASSUME TypeInv, OpInv, UNCHANGED <<op, on_write, ondisk>>,
         next_tid' \in Nat, next_tid <= next_tid'
  PROVE  OpInv'
<1>1. next_tid \in Nat /\ op \in [DOMAIN op -> OpRecord]
      /\ on_write \in Seq(Update)
  BY DEF TypeInv, TypeOK
<1>2. \A t \in DOMAIN op : op[t].version \in Nat /\ op[t].on_write \in Seq(Update)
  BY <1>1 DEF OpRecord
<1>3. \A t \in DOMAIN op : \A k \in DOMAIN op[t].on_write :
        op[t].on_write[k] \in Update
  BY <1>2
<1>4. \A k \in DOMAIN on_write : on_write[k] \in Update
  BY <1>1
<1>5. op' = op /\ on_write' = on_write /\ ondisk' = ondisk
  OBVIOUS
<1>6. \A u \in Update : GoodUpdate(u, next_tid) => GoodUpdate(u, next_tid')
  BY <1>1 DEF GoodUpdate, Update
<1>7. \A t \in DOMAIN op : op[t].version < next_tid'
  BY <1>1, <1>2 DEF OpInv
<1> QED
  BY <1>3, <1>4, <1>5, <1>6, <1>7 DEF OpInv

(* Steps that leave the messages, the operations and the disks alone. *)
LEMMA PendingSame ==
  ASSUME PendingInv, UNCHANGED <<sent, op, waiting_commit, ondisk>>
  PROVE  PendingInv'
  BY DEF PendingInv

(* Steps that leave the log updates and the disks alone. *)
LEMMA UpdateSame ==
  ASSUME UpdateInv, UNCHANGED <<log_entry_update_waiting_on, ondisk>>
  PROVE  UpdateInv'
  BY DEF UpdateInv

(* Steps that leave the versions trusted as committed and the disks alone. *)
LEMMA CommittedSame ==
  ASSUME CommittedInv,
         UNCHANGED <<completed_to, committed_to, min_last_complete_ondisk,
                     acked, can_rollback_to, last_complete_ondisk, ondisk>>
  PROVE  CommittedInv'
  BY DEF CommittedInv, Committed

(* A larger of two committed versions is committed.                        *)
LEMMA LargerCommitted ==
  ASSUME NEW u \in Nat, NEW v \in Nat, Committed(u, ondisk), Committed(v, ondisk)
  PROVE  Committed(Larger(u, v), ondisk)
  BY DEF Larger

Safe == WireInv /\ OpInv /\ PendingInv /\ UpdateInv /\ CommittedInv

(* submit_transaction: the roll_forward_to it computes is on every disk. *)
LEMMA SubmitSafe ==
  ASSUME TypeInv, TypeInv', Safe, NEW p \in Plans, submit_transaction(p)
  PROVE  Safe'
<1> DEFINE o == Op(next_tid, next_tid, RollForwardTo, p, TRUE)
<1> USE DEF Safe
<1>1. /\ op' = WithOp(op, next_tid, o) /\ next_tid' = next_tid + 1
      /\ UNCHANGED <<sent, stored, ondisk, head, on_write, waiting_commit,
                     log_entry_update_waiting_on, completed_to, committed_to,
                     min_last_complete_ondisk, acked, can_rollback_to,
                     last_complete_ondisk>>
  BY DEF submit_transaction, wireVars, shardVars, ackVars
<1>2. next_tid \in Nat /\ head[Primary] \in Nat /\ committed_to \in Nat
      /\ min_last_complete_ondisk \in Nat
  BY DEF TypeInv, TypeOK
<1>3. Committed(RollForwardTo, ondisk)
  BY <1>2, LargerCommitted DEF RollForwardTo, CommittedInv
<1>4. /\ o.version = next_tid /\ o.roll_forward_to = RollForwardTo
      /\ o.pg_local_last_complete = head[Primary] /\ o.on_write = <<>>
  BY DEF Op
<1>5. head[Primary] < next_tid
  BY DEF WireInv
<1> HIDE DEF o
<1>6. /\ DOMAIN op' = DOMAIN op \cup {next_tid} /\ op'[next_tid] = o
      /\ \A u \in DOMAIN op : u # next_tid => op'[u] = op[u]
  BY <1>1 DEF WithOp
<1>7. next_tid \notin DOMAIN op
  BY <1>2 DEF TypeInv, QueueInv
<1>8. next_tid' \in Nat /\ next_tid <= next_tid'
  BY <1>1, <1>2
<1>9. WireInv'
  BY <1>1, <1>8, WireInvSame
<1>10. OpInv'
  <2>1. \A u \in Update : GoodUpdate(u, next_tid) => GoodUpdate(u, next_tid')
    BY <1>1, <1>2 DEF GoodUpdate, Update
  <2>2. \A k \in DOMAIN on_write' : GoodUpdate(on_write'[k], next_tid')
    <3>1. \A k \in DOMAIN on_write : on_write[k] \in Update
      BY ElementTypes
    <3> QED
      BY <1>1, <2>1, <3>1 DEF OpInv
  <2>3. ASSUME NEW t \in DOMAIN op
        PROVE  /\ op'[t].version < next_tid'
               /\ Committed(op'[t].roll_forward_to, ondisk')
               /\ op'[t].on_all_commit
                    => op'[t].pg_local_last_complete <= op'[t].version
               /\ \A k \in DOMAIN op'[t].on_write :
                    GoodUpdate(op'[t].on_write[k], next_tid')
    <3>1. op'[t] = op[t] /\ op[t] \in OpRecord
      BY <1>6, <1>7, TypeOKParts DEF TypeInv
    <3>2. op[t].version \in Nat /\ op[t].on_write \in Seq(Update)
      BY <3>1 DEF OpRecord
    <3>3. \A k \in DOMAIN op[t].on_write : op[t].on_write[k] \in Update
      BY <3>2
    <3> QED
      BY <1>1, <1>2, <2>1, <3>1, <3>2, <3>3 DEF OpInv, Committed
  <2>4. /\ op'[next_tid].version < next_tid'
        /\ Committed(op'[next_tid].roll_forward_to, ondisk')
        /\ op'[next_tid].pg_local_last_complete <= op'[next_tid].version
        /\ DOMAIN op'[next_tid].on_write = {}
    <3>1. DOMAIN <<>> = {}
      OBVIOUS
    <3> QED
      BY <1>1, <1>2, <1>3, <1>4, <1>5, <1>6, <3>1 DEF Committed
  <2> QED
    BY <1>6, <2>2, <2>3, <2>4 DEF OpInv
<1>11. PendingInv'
  <2>1. \A i \in DOMAIN sent : sent[i].tid # next_tid
    <3>1. \A i \in DOMAIN sent : sent[i].tid < next_tid
      BY DEF WireInv
    <3> QED
      BY <1>2, <3>1
  <2> QED
    BY <1>1, <1>6, <2>1 DEF PendingInv
<1>12. UpdateInv' /\ CommittedInv'
  BY <1>1, UpdateSame, CommittedSame
<1> QED
  BY <1>9, <1>10, <1>11, <1>12

(* submit_log_entries: what its callback will roll forward is on every     *)
(* disk when it runs.                                                      *)
LEMMA LogEntriesSafe ==
  ASSUME TypeInv, TypeInv', Safe, submit_log_entries
  PROVE  Safe'
<1> DEFINE cb == [tid |-> next_tid, version |-> next_tid,
                  pg_local_last_complete |-> head[Primary]]
<1> USE DEF Safe
<1>1. /\ call_write_ordered(cb) /\ next_tid' = next_tid + 1
      /\ UNCHANGED <<sent, stored, ondisk, head, waiting_commit,
                     log_entry_update_waiting_on, completed_to, committed_to,
                     min_last_complete_ondisk, acked, can_rollback_to,
                     last_complete_ondisk>>
  BY DEF submit_log_entries, wireVars, shardVars, ackVars, queueVars
<1>2. next_tid \in Nat /\ head[Primary] \in Nat
  BY DEF TypeInv, TypeOK
<1>3. GoodUpdate(cb, next_tid') /\ cb \in Update
  <2>1. head[Primary] < next_tid
    BY DEF WireInv
  <2> QED
    BY <1>1, <1>2, <2>1 DEF GoodUpdate, Update
<1> HIDE DEF cb
<1>4. next_tid' \in Nat /\ next_tid <= next_tid'
  BY <1>1, <1>2
<1>5. \A u \in Update : GoodUpdate(u, next_tid) => GoodUpdate(u, next_tid')
  BY <1>1, <1>2 DEF GoodUpdate, Update
<1>6. \A t \in DOMAIN op :
        /\ op[t] \in OpRecord /\ op[t].version \in Nat
        /\ op[t].on_write \in Seq(Update)
        /\ \A k \in DOMAIN op[t].on_write : op[t].on_write[k] \in Update
  BY ElementTypes
<1>7. \A k \in DOMAIN on_write : on_write[k] \in Update
  BY ElementTypes
<1>8. WireInv' /\ UpdateInv' /\ CommittedInv'
  BY <1>1, <1>4, WireInvSame, UpdateSame, CommittedSame
<1>9. ASSUME NEW t \in DOMAIN op,
             op' = [op EXCEPT ![t].on_write = Append(@, cb)],
             on_write' = on_write
      PROVE  OpInv' /\ PendingInv'
  <2>1. /\ DOMAIN op' = DOMAIN op
        /\ \A u \in DOMAIN op :
             /\ op'[u].version = op[u].version
             /\ op'[u].roll_forward_to = op[u].roll_forward_to
             /\ op'[u].pg_local_last_complete = op[u].pg_local_last_complete
             /\ op'[u].on_all_commit = op[u].on_all_commit
             /\ op'[u].pending_commit = op[u].pending_commit
             /\ op'[u].on_write = IF u = t THEN Append(op[t].on_write, cb)
                                  ELSE op[u].on_write
    BY <1>6, <1>9, TypeOKParts DEF TypeInv, OpRecord
  <2>2. \A k \in DOMAIN Append(op[t].on_write, cb) :
          \/ Append(op[t].on_write, cb)[k] = cb
          \/ /\ k \in DOMAIN op[t].on_write
             /\ Append(op[t].on_write, cb)[k] = op[t].on_write[k]
    BY <1>3, <1>6, AppendElement
  <2>3. \A k \in DOMAIN op'[t].on_write : GoodUpdate(op'[t].on_write[k], next_tid')
    BY <1>3, <1>5, <1>6, <2>1, <2>2 DEF OpInv
  <2>4. \A u \in DOMAIN op : \A k \in DOMAIN op'[u].on_write :
          GoodUpdate(op'[u].on_write[k], next_tid')
    BY <1>5, <1>6, <2>1, <2>3 DEF OpInv
  <2>5. \A k \in DOMAIN on_write' : GoodUpdate(on_write'[k], next_tid')
    BY <1>5, <1>7, <1>9 DEF OpInv
  <2>6. \A u \in DOMAIN op : op'[u].version < next_tid'
    BY <1>1, <1>2, <1>6, <2>1 DEF OpInv
  <2>7. OpInv'
    BY <1>1, <2>1, <2>4, <2>5, <2>6 DEF OpInv, Committed
  <2>8. PendingInv'
    BY <1>1, <2>1 DEF PendingInv
  <2> QED
    BY <2>7, <2>8
<1>10. CASE on_write' = <<cb>> /\ op' = op
  <2>1. \A k \in DOMAIN on_write' : on_write'[k] = cb
    BY <1>10
  <2>2. \A u \in DOMAIN op : \A k \in DOMAIN op[u].on_write :
          GoodUpdate(op[u].on_write[k], next_tid')
    BY <1>5, <1>6 DEF OpInv
  <2>3. \A u \in DOMAIN op : op[u].version < next_tid'
    BY <1>1, <1>2, <1>6 DEF OpInv
  <2>4. OpInv'
    BY <1>1, <1>3, <1>10, <2>1, <2>2, <2>3 DEF OpInv, Committed
  <2>5. PendingInv'
    BY <1>1, <1>10, PendingSame
  <2> QED
    BY <1>8, <2>4, <2>5
<1>11. CASE waiting_state # <<>>
  <2>1. waiting_state[Len(waiting_state)] \in DOMAIN op
    BY <1>11, TypeOKParts DEF TypeInv, Known
  <2> QED
    BY <1>1, <1>8, <1>9, <1>11, <2>1 DEF call_write_ordered
<1>12. CASE waiting_state = <<>> /\ waiting_reads # <<>>
  <2>1. waiting_reads[Len(waiting_reads)] \in DOMAIN op
    BY <1>12, TypeOKParts DEF TypeInv, Known
  <2> QED
    BY <1>1, <1>8, <1>9, <1>12, <2>1 DEF call_write_ordered
<1> QED
  BY <1>1, <1>10, <1>11, <1>12 DEF call_write_ordered

(* Sending a message whose numbers are known: the messages that there were *)
(* stay as they were, and nobody has stored the new one.                   *)
LEMMA PublishSafe ==
  ASSUME TypeInv, CursorInv, WireInv, NEW t \in Nat, NEW v \in Nat,
         NEW r \in Nat, NEW b \in BOOLEAN, Publish(t, v, r, b),
         t < next_tid, v < next_tid, Committed(r, ondisk), b => v = t,
         next_tid' = next_tid
  PROVE  /\ WireInv'
         /\ ondisk' = ondisk
         /\ DOMAIN sent' = DOMAIN sent \cup {Len(sent) + 1}
         /\ \A i \in DOMAIN sent : sent'[i] = sent[i]
         /\ sent'[Len(sent) + 1].tid = t /\ sent'[Len(sent) + 1].version = v
         /\ sent'[Len(sent) + 1].update = b
         /\ \A s \in Shards :
              can_rollback_to'[s] \in {can_rollback_to[s],
                                       Larger(can_rollback_to[s], r)}
<1> DEFINE h == Larger(head[Primary], v)
           m == [tid |-> t, version |-> v, roll_forward_to |-> r,
                 head |-> h, update |-> b]
           n == Len(sent) + 1
<1>1. /\ sent' = Append(sent, m) /\ stored' = stored /\ ondisk' = ondisk
      /\ head' = [head EXCEPT ![Primary] = h]
      /\ can_rollback_to' = [can_rollback_to EXCEPT ![Primary] =
                               Larger(can_rollback_to[Primary], r)]
  BY DEF Publish
<1>2. head[Primary] \in Nat /\ head[Primary] < next_tid /\ next_tid \in Nat
  BY ElementTypes DEF WireInv
<1>3. h \in Nat /\ v <= h /\ h < next_tid
  BY <1>2 DEF Larger
<1> HIDE DEF h
<1>4. /\ m.tid = t /\ m.version = v /\ m.roll_forward_to = r /\ m.head = h
      /\ m.update = b /\ m \in Message
  BY <1>3 DEF Message
<1> HIDE DEF m
<1>5. sent \in Seq(Message)
  BY DEF TypeInv, TypeOK
<1>6. /\ DOMAIN sent' = DOMAIN sent \cup {n} /\ sent'[n] = m
      /\ \A i \in DOMAIN sent : sent'[i] = sent[i]
      /\ Len(sent) \in Nat
  BY <1>1, <1>4, <1>5, AppendElement
<1>7. \A s \in Shards : can_rollback_to'[s] \in {can_rollback_to[s],
                                                 Larger(can_rollback_to[s], r)}
  <2>1. can_rollback_to \in [Shards -> Nat]
    BY DEF TypeInv, TypeOK
  <2> QED
    BY <1>1, <2>1
<1>8. \A s \in Shards : head'[s] < next_tid'
  <2>1. head \in [Shards -> Nat]
    BY DEF TypeInv, TypeOK
  <2>2. \A s \in Shards : head'[s] \in {head[s], h}
    BY <1>1, <2>1
  <2> QED
    BY <1>3, <2>2 DEF WireInv
<1>9. \A s \in Shards : ~(n <= stored[s])
  <2>1. \A s \in Shards : /\ stored[s] <= handled[s] /\ handled[s] <= Len(sent)
                          /\ stored[s] \in Nat /\ handled[s] \in Nat
    BY ElementTypes DEF CursorInv
  <2> QED
    BY <1>6, <2>1
<1>10. WireInv'
  <2>1. \A i \in DOMAIN sent' :
          /\ sent'[i].version <= sent'[i].head /\ sent'[i].head < next_tid'
          /\ sent'[i].tid < next_tid'
          /\ sent'[i].update => sent'[i].version = sent'[i].tid
          /\ Committed(sent'[i].roll_forward_to, ondisk')
    BY <1>1, <1>3, <1>4, <1>6 DEF WireInv
  <2>2. \A s \in Shards : \A i \in DOMAIN sent' :
          i <= stored'[s] => sent'[i].head <= ondisk'[s]
    BY <1>1, <1>6, <1>9 DEF WireInv
  <2> QED
    BY <1>8, <2>1, <2>2 DEF WireInv
<1> QED
  BY <1>1, <1>4, <1>6, <1>7, <1>10

(* What a shard takes as rolled forward, when it was committed, stays so.  *)
LEMMA RollForwardCommitted ==
  ASSUME TypeInv, CommittedInv, NEW r \in Nat, Committed(r, ondisk),
         ondisk' = ondisk,
         \A s \in Shards :
           can_rollback_to'[s] \in {can_rollback_to[s],
                                    Larger(can_rollback_to[s], r)},
         UNCHANGED <<completed_to, committed_to, min_last_complete_ondisk,
                     acked, last_complete_ondisk>>
  PROVE  CommittedInv'
<1>1. \A s \in Shards : Committed(can_rollback_to'[s], ondisk')
  <2>1. TAKE s \in Shards
  <2>2. can_rollback_to[s] \in Nat /\ Committed(can_rollback_to[s], ondisk)
    BY ElementTypes DEF CommittedInv
  <2>3. Committed(Larger(can_rollback_to[s], r), ondisk)
    BY <2>2, LargerCommitted
  <2> QED
    BY <2>2, <2>3
<1> QED
  BY <1>1 DEF CommittedInv, Committed

(* The callbacks on_write send a log update that rolls forward what is on  *)
(* every disk.                                                             *)
LEMMA RunOnWriteSafe ==
  ASSUME TypeInv, TypeInv', CursorInv, Safe, RunOnWrite
  PROVE  Safe'
<1> DEFINE cb == Head(on_write)
           luw == log_entry_update_waiting_on
           u == [version |-> cb.version, waiting_on |-> Shards,
                 pg_local_last_complete |-> cb.pg_local_last_complete]
<1> USE DEF Safe
<1>1. /\ cb \in Update /\ cb.tid \in Nat /\ cb.version \in Nat
      /\ Publish(cb.tid, cb.version, min_last_complete_ondisk, TRUE)
  BY RunOnWritePublishes
<1>2. /\ luw' = WithOp(luw, cb.tid, u) /\ on_write' = Tail(on_write)
      /\ next_tid' = next_tid /\ on_write # <<>>
      /\ UNCHANGED <<op, waiting_commit, completed_to, committed_to,
                     min_last_complete_ondisk, acked, last_complete_ondisk>>
  BY DEF RunOnWrite, queueVars, ackVars
<1>3. on_write \in Seq(Update) /\ min_last_complete_ondisk \in Nat
      /\ next_tid \in Nat
  BY DEF TypeInv, TypeOK
<1>4. Head(on_write) = on_write[1] /\ 1 \in DOMAIN on_write
      /\ \A k \in DOMAIN Tail(on_write) :
           k + 1 \in DOMAIN on_write /\ Tail(on_write)[k] = on_write[k + 1]
  BY <1>2, <1>3, TailElement
<1>5. GoodUpdate(cb, next_tid)
  BY <1>4 DEF OpInv
<1>6. Committed(min_last_complete_ondisk, ondisk)
  BY DEF CommittedInv
<1>7. u.version = cb.version /\ u.waiting_on = Shards
      /\ u.pg_local_last_complete = cb.pg_local_last_complete
  OBVIOUS
<1> HIDE DEF cb, u
<1>8. /\ WireInv' /\ ondisk' = ondisk
      /\ DOMAIN sent' = DOMAIN sent \cup {Len(sent) + 1}
      /\ \A i \in DOMAIN sent : sent'[i] = sent[i]
      /\ sent'[Len(sent) + 1].update = TRUE
      /\ \A s \in Shards :
           can_rollback_to'[s] \in {can_rollback_to[s],
             Larger(can_rollback_to[s], min_last_complete_ondisk)}
  BY <1>1, <1>2, <1>3, <1>5, <1>6, PublishSafe DEF GoodUpdate
<1>9. CommittedInv'
  BY <1>2, <1>3, <1>6, <1>8, RollForwardCommitted
<1>10. OpInv'
  <2>1. \A k \in DOMAIN on_write' : GoodUpdate(on_write'[k], next_tid')
    BY <1>2, <1>4 DEF OpInv
  <2> QED
    BY <1>2, <1>8, <2>1 DEF OpInv
<1>11. PendingInv'
  <2>1. \A i \in DOMAIN sent' : i \in DOMAIN sent \/ sent'[i].update
    BY <1>8
  <2> QED
    BY <1>2, <1>8, <2>1 DEF PendingInv
<1>12. UpdateInv'
  <2>1. /\ DOMAIN luw' = DOMAIN luw \cup {cb.tid} /\ luw'[cb.tid] = u
        /\ \A t \in DOMAIN luw : t # cb.tid => luw'[t] = luw[t]
    BY <1>2 DEF WithOp
  <2> QED
    BY <1>5, <1>7, <1>8, <2>1 DEF UpdateInv, GoodUpdate
<1> QED
  BY <1>8, <1>9, <1>10, <1>11, <1>12

(* Steps that change only fields of operations that the invariant does not *)
(* speak of.                                                               *)
LEMMA OpFieldsSafe ==
  ASSUME TypeInv, Safe, NEW t \in DOMAIN op, NEW o \in OpRecord,
         op' = [op EXCEPT ![t] = o],
         o.version = op[t].version,
         o.roll_forward_to = op[t].roll_forward_to,
         o.pg_local_last_complete = op[t].pg_local_last_complete,
         o.on_all_commit = op[t].on_all_commit,
         o.pending_commit = op[t].pending_commit,
         o.on_write = op[t].on_write,
         UNCHANGED <<sent, stored, ondisk, head, on_write, waiting_commit,
                     log_entry_update_waiting_on, completed_to, committed_to,
                     min_last_complete_ondisk, acked, can_rollback_to,
                     last_complete_ondisk, next_tid>>
  PROVE  Safe'
<1> USE DEF Safe
<1>1. next_tid \in Nat
  BY ElementTypes
<1>2. /\ DOMAIN op' = DOMAIN op /\ op'[t] = o
      /\ \A u \in DOMAIN op : u # t => op'[u] = op[u]
  BY OpChanged DEF TypeInv
<1>3. WireInv' /\ UpdateInv' /\ CommittedInv'
  BY <1>1, WireInvSame, UpdateSame, CommittedSame
<1>4. OpInv'
  BY <1>2 DEF OpInv
<1>5. PendingInv'
  BY <1>2 DEF PendingInv
<1> QED
  BY <1>3, <1>4, <1>5

(* try_state_to_reads moves an operation and disturbs nothing that is      *)
(* trusted.                                                                *)
LEMMA StateToReadsSafe ==
  ASSUME TypeInv, Safe, try_state_to_reads
  PROVE  Safe'
<1> DEFINE t == Head(waiting_state)
           o == op[t]
           cached == ~cache_invalid
           remote == IF cached THEN {c \in o.plan.to_read : cache[c].pin = 0}
                               ELSE o.plan.to_read
           n == [o EXCEPT !.using_cache = cached, !.remote_read = remote,
                          !.pending_read = o.plan.to_read \ remote,
                          !.read_from = head[Primary]]
<1>1. waiting_state # <<>> /\ waiting_state \in Seq(Nat)
      /\ \A i \in DOMAIN waiting_state : waiting_state[i] \in DOMAIN op
  BY TypeOKParts DEF Known, TypeInv, try_state_to_reads, CanStateToReads
<1>2. t \in DOMAIN op
  BY <1>1, TailIndex
<1>3. o \in OpRecord /\ head[Primary] \in Nat /\ cached \in BOOLEAN
  BY <1>2, ElementTypes
<1>4. o.plan.to_read \subseteq Cells
  BY <1>3 DEF OpRecord, PlanSet
<1>5. remote \subseteq Cells
  BY <1>4
<1>6. op' = [op EXCEPT ![t].using_cache = cached,
                       ![t].remote_read = remote,
                       ![t].pending_read = o.plan.to_read \ remote,
                       ![t].read_from = head[Primary]]
  BY DEF try_state_to_reads
<1> HIDE DEF cached, remote
<1>7. op' = [op EXCEPT ![t] = n]
  BY <1>6
<1>8. /\ n \in OpRecord
      /\ n.version = o.version /\ n.roll_forward_to = o.roll_forward_to
      /\ n.pg_local_last_complete = o.pg_local_last_complete
      /\ n.on_all_commit = o.on_all_commit
      /\ n.pending_commit = o.pending_commit /\ n.on_write = o.on_write
  BY <1>3, <1>4, <1>5 DEF OpRecord
<1>9. UNCHANGED <<sent, stored, ondisk, head, on_write, waiting_commit,
                  log_entry_update_waiting_on, completed_to, committed_to,
                  min_last_complete_ondisk, acked, can_rollback_to,
                  last_complete_ondisk, next_tid>>
  BY DEF try_state_to_reads, wireVars, shardVars, ackVars
<1> HIDE DEF n
<1> QED
  BY <1>2, <1>7, <1>8, <1>9, OpFieldsSafe

(* The end of a remote read changes only what the operation has read. *)
LEMMA RemoteReadSafe ==
  ASSUME TypeInv, Safe, NEW t \in DOMAIN op,
         NEW v \in {0} \cup {e.version : e \in log}, RemoteReadDone(t, v)
  PROVE  Safe'
<1> DEFINE n == [op[t] EXCEPT !.read_done = TRUE, !.read_at = v]
<1>1. v \in Nat
  BY VersionNat DEF TypeInv
<1>2. op[t] \in OpRecord
  BY ElementTypes
<1>3. /\ n \in OpRecord
      /\ n.version = op[t].version /\ n.roll_forward_to = op[t].roll_forward_to
      /\ n.pg_local_last_complete = op[t].pg_local_last_complete
      /\ n.on_all_commit = op[t].on_all_commit
      /\ n.pending_commit = op[t].pending_commit
      /\ n.on_write = op[t].on_write
  BY <1>1, <1>2 DEF OpRecord
<1>4. op' = [op EXCEPT ![t] = n]
  BY DEF RemoteReadDone
<1>5. UNCHANGED <<sent, stored, ondisk, head, on_write, waiting_commit,
                  log_entry_update_waiting_on, completed_to, committed_to,
                  min_last_complete_ondisk, acked, can_rollback_to,
                  last_complete_ondisk, next_tid>>
  BY DEF RemoteReadDone, queueVars, wireVars, shardVars, ackVars
<1> HIDE DEF n
<1> QED
  BY <1>3, <1>4, <1>5, OpFieldsSafe

(* try_reads_to_commit sends a version and a roll_forward_to that is on    *)
(* every disk.                                                             *)
LEMMA ReadsToCommitSafe ==
  ASSUME TypeInv, CursorInv, Safe, try_reads_to_commit
  PROVE  Safe'
<1> DEFINE t == Head(waiting_reads)
           o == op[t]
           n == [o EXCEPT !.pending_commit = Shards, !.pending_read = {},
                          !.remote_read = {}, !.on_write = <<>>]
           k == Len(sent) + 1
<1> USE DEF Safe
<1>1. /\ t \in DOMAIN op /\ t \in Nat /\ o \in OpRecord
      /\ o.version \in Nat /\ o.roll_forward_to \in Nat
      /\ Publish(t, o.version, o.roll_forward_to, FALSE)
  BY ReadsToCommitPublishes
<1>2. /\ op' = [op EXCEPT ![t].pending_commit = Shards,
                          ![t].pending_read = {},
                          ![t].remote_read = {},
                          ![t].on_write = <<>>]
      /\ waiting_commit' = Append(waiting_commit, t)
      /\ on_write' = o.on_write /\ next_tid' = next_tid
      /\ UNCHANGED <<log_entry_update_waiting_on, completed_to, committed_to,
                     min_last_complete_ondisk, acked, last_complete_ondisk>>
  BY DEF try_reads_to_commit, ackVars
<1>3. next_tid \in Nat /\ t < next_tid /\ o.version < next_tid
      /\ Committed(o.roll_forward_to, ondisk)
  BY <1>1, ElementTypes DEF OpInv, TypeInv, QueueInv
<1>4. /\ WireInv' /\ ondisk' = ondisk
      /\ DOMAIN sent' = DOMAIN sent \cup {k}
      /\ \A i \in DOMAIN sent : sent'[i] = sent[i]
      /\ sent'[k].tid = t /\ sent'[k].version = o.version
      /\ sent'[k].update = FALSE
      /\ \A s \in Shards :
           can_rollback_to'[s] \in {can_rollback_to[s],
             Larger(can_rollback_to[s], o.roll_forward_to)}
  <2> DEFINE v == o.version
             r == o.roll_forward_to
  <2>1. /\ t \in Nat /\ v \in Nat /\ r \in Nat
        /\ Publish(t, v, r, FALSE)
    BY <1>1
  <2>2. /\ t < next_tid /\ v < next_tid /\ Committed(r, ondisk)
        /\ next_tid' = next_tid
    BY <1>2, <1>3
  <2> HIDE DEF v, r, t, n
  <2>3. /\ WireInv' /\ ondisk' = ondisk
        /\ DOMAIN sent' = DOMAIN sent \cup {k}
        /\ \A i \in DOMAIN sent : sent'[i] = sent[i]
        /\ sent'[k].tid = t /\ sent'[k].version = v
        /\ sent'[k].update = FALSE
        /\ \A s \in Shards :
             can_rollback_to'[s] \in {can_rollback_to[s],
                                      Larger(can_rollback_to[s], r)}
    BY <2>1, <2>2, PublishSafe
  <2> QED
    BY <2>3 DEF v, r
<1>5. CommittedInv'
  BY <1>1, <1>2, <1>3, <1>4, RollForwardCommitted
<1>6. UpdateInv'
  BY <1>2, <1>4, UpdateSame
<1>7. op' = [op EXCEPT ![t] = n]
  BY <1>2
<1>8. /\ n \in OpRecord
      /\ n.version = o.version /\ n.roll_forward_to = o.roll_forward_to
      /\ n.pg_local_last_complete = o.pg_local_last_complete
      /\ n.on_all_commit = o.on_all_commit
      /\ n.pending_commit = Shards /\ DOMAIN n.on_write = {}
  <2>1. <<>> \in Seq(Update) /\ DOMAIN <<>> = {}
    OBVIOUS
  <2> QED
    BY <1>1, <2>1 DEF OpRecord
<1> HIDE DEF n
<1>9. /\ DOMAIN op' = DOMAIN op /\ op'[t] = n
      /\ \A u \in DOMAIN op : u # t => op'[u] = op[u]
  BY <1>1, <1>7, <1>8, OpChanged DEF TypeInv
<1> HIDE DEF o, t, k
<1>10. OpInv'
  <2>1. \A j \in DOMAIN on_write' : GoodUpdate(on_write'[j], next_tid')
    BY <1>1, <1>2 DEF OpInv, o
  <2>2. /\ n.version < next_tid' /\ Committed(n.roll_forward_to, ondisk')
        /\ n.on_all_commit => n.pg_local_last_complete <= n.version
    BY <1>1, <1>2, <1>3, <1>4, <1>8 DEF OpInv, o
  <2>3. \A u \in DOMAIN op : u # t =>
          /\ op'[u].version < next_tid'
          /\ Committed(op'[u].roll_forward_to, ondisk')
          /\ op'[u].on_all_commit
               => op'[u].pg_local_last_complete <= op'[u].version
          /\ \A j \in DOMAIN op'[u].on_write :
               GoodUpdate(op'[u].on_write[j], next_tid')
    BY <1>2, <1>4, <1>9 DEF OpInv
  <2> QED
    BY <1>8, <1>9, <2>1, <2>2, <2>3 DEF OpInv
<1>11. PendingInv'
  <2>1. \A u \in DOMAIN op : op'[u].version = op[u].version
    BY <1>8, <1>9 DEF o
  <2>2. \A i \in DOMAIN sent' :
          ~sent'[i].update /\ sent'[i].tid \in DOMAIN op' =>
            /\ op'[sent'[i].tid].version = sent'[i].version
            /\ \A s \in Shards : s \notin op'[sent'[i].tid].pending_commit
                                 => sent'[i].version <= ondisk'[s]
    <3>1. ASSUME NEW i \in DOMAIN sent, ~sent[i].update,
                 sent[i].tid \in DOMAIN op
          PROVE  /\ op'[sent[i].tid].version = sent[i].version
                 /\ \A s \in Shards : s \notin op'[sent[i].tid].pending_commit
                                      => sent[i].version <= ondisk'[s]
      BY <1>4, <1>8, <1>9, <2>1, <3>1 DEF PendingInv
    <3>2. /\ op'[sent'[k].tid].version = sent'[k].version
          /\ op'[sent'[k].tid].pending_commit = Shards
      BY <1>4, <1>8, <1>9
    <3> QED
      BY <1>4, <1>9, <3>1, <3>2
  <2>3. ASSUME NEW j \in DOMAIN waiting_commit'
        PROVE  \E i \in DOMAIN sent' :
                 ~sent'[i].update /\ sent'[i].tid = waiting_commit'[j]
    <3>1. waiting_commit \in Seq(Nat)
      BY DEF TypeInv, TypeOK
    <3>2. \/ j \in DOMAIN waiting_commit
             /\ waiting_commit'[j] = waiting_commit[j]
          \/ waiting_commit'[j] = t
      BY <1>1, <1>2, <2>3, <3>1, AppendIndex
    <3> QED
      BY <1>4, <3>2 DEF PendingInv
  <2> QED
    BY <2>2, <2>3 DEF PendingInv
<1> QED
  BY <1>4, <1>5, <1>6, <1>10, <1>11

(* try_finish_rmw advances completed_to and committed_to to what every     *)
(* shard has committed.                                                    *)
LEMMA FinishSafe ==
  ASSUME TypeInv, TypeInv', Safe, try_finish_rmw
  PROVE  Safe'
<1> DEFINE t == Head(waiting_commit)
           o == op[t]
           n == Op(next_tid, 0, o.version, NoPlan, FALSE)
<1> USE DEF Safe
<1>1. waiting_commit # <<>> /\ waiting_commit \in Seq(Nat)
      /\ o.pending_commit = {}
  BY DEF try_finish_rmw, CanFinishRmw, write_in_progress, TypeInv, TypeOK
<1>2. /\ waiting_commit' = Tail(waiting_commit)
      /\ completed_to' = Larger(completed_to, o.roll_forward_to)
      /\ committed_to' = Larger(committed_to, o.version)
      /\ \/ /\ op' = Without(WithOp(op, next_tid, n), t)
            /\ next_tid' = next_tid + 1
         \/ /\ op' = Without(op, t)
            /\ next_tid' = next_tid
      /\ UNCHANGED <<sent, stored, ondisk, head, on_write,
                     log_entry_update_waiting_on, min_last_complete_ondisk,
                     acked, can_rollback_to, last_complete_ondisk>>
  BY DEF try_finish_rmw, wireVars, shardVars, ackVars
<1>3. /\ t \in DOMAIN op /\ 1 \in DOMAIN waiting_commit
      /\ t = waiting_commit[1]
      /\ \A j \in DOMAIN Tail(waiting_commit) :
           /\ j + 1 \in DOMAIN waiting_commit
           /\ Tail(waiting_commit)[j] = waiting_commit[j + 1]
  BY <1>1, TypeOKParts, TailIndex DEF Known, TypeInv
<1>4. /\ o.version \in Nat /\ o.roll_forward_to \in Nat
      /\ next_tid \in Nat /\ completed_to \in Nat /\ committed_to \in Nat
  BY <1>3, ElementTypes DEF TypeInv, TypeOK
<1>5. PICK i \in DOMAIN sent : ~sent[i].update /\ sent[i].tid = t
  BY <1>3 DEF PendingInv
<1>6. Committed(o.version, ondisk)
  BY <1>1, <1>3, <1>5 DEF PendingInv, Committed
<1>7. Committed(o.roll_forward_to, ondisk)
  BY <1>3 DEF OpInv
<1>8. /\ n.version = 0 /\ n.roll_forward_to = o.version
      /\ n.on_all_commit = FALSE /\ n.on_write = <<>>
  BY DEF Op
<1> HIDE DEF o, t, n
<1>9. CommittedInv'
  <2>1. Committed(completed_to, ondisk) /\ Committed(committed_to, ondisk)
    BY DEF CommittedInv
  <2>2. Committed(completed_to', ondisk) /\ Committed(committed_to', ondisk)
    BY <1>2, <1>4, <1>6, <1>7, <2>1, LargerCommitted
  <2> QED
    BY <1>2, <2>2 DEF CommittedInv
<1>10. next_tid' \in Nat /\ next_tid <= next_tid'
  BY <1>2, <1>4
<1>11. WireInv' /\ UpdateInv'
  BY <1>2, <1>10, WireInvSame, UpdateSame
<1>12. /\ DOMAIN op' \subseteq DOMAIN op \cup {next_tid}
       /\ \A u \in DOMAIN op' : u \in DOMAIN op => op'[u] = op[u]
       /\ next_tid \in DOMAIN op' => op'[next_tid] = n
                                     /\ next_tid' = next_tid + 1
  <2>1. next_tid \notin DOMAIN op
    BY <1>4 DEF TypeInv, QueueInv
  <2>2. CASE op' = Without(op, t)
    BY <2>1, <2>2 DEF Without
  <2>3. CASE /\ op' = Without(WithOp(op, next_tid, n), t)
             /\ next_tid' = next_tid + 1
    BY <2>1, <2>3 DEF Without, WithOp
  <2> QED
    BY <1>2, <2>2, <2>3
<1>13. OpInv'
  <2>1. \A u \in Update : GoodUpdate(u, next_tid) => GoodUpdate(u, next_tid')
    BY <1>4, <1>10 DEF GoodUpdate, Update
  <2>2. \A j \in DOMAIN on_write' : GoodUpdate(on_write'[j], next_tid')
    BY <1>2, <2>1, ElementTypes DEF OpInv
  <2>3. \A u \in DOMAIN op' : u \in DOMAIN op =>
          /\ op'[u].version < next_tid'
          /\ Committed(op'[u].roll_forward_to, ondisk')
          /\ op'[u].on_all_commit
               => op'[u].pg_local_last_complete <= op'[u].version
          /\ \A j \in DOMAIN op'[u].on_write :
               GoodUpdate(op'[u].on_write[j], next_tid')
    <3>1. \A u \in DOMAIN op : op[u].version < next_tid'
      BY <1>4, <1>10, ElementTypes DEF OpInv
    <3> QED
      BY <1>2, <1>12, <2>1, <3>1, ElementTypes DEF OpInv
  <2>4. DOMAIN <<>> = {}
    OBVIOUS
  <2>5. next_tid \in DOMAIN op' =>
          /\ op'[next_tid].version < next_tid'
          /\ Committed(op'[next_tid].roll_forward_to, ondisk')
          /\ ~op'[next_tid].on_all_commit
          /\ DOMAIN op'[next_tid].on_write = {}
    BY <1>2, <1>4, <1>6, <1>8, <1>12, <2>4
  <2> QED
    BY <1>12, <2>2, <2>3, <2>5 DEF OpInv
<1>14. PendingInv'
  <2>1. \A m \in DOMAIN sent : sent[m].tid # next_tid
    <3>1. \A m \in DOMAIN sent : sent[m].tid < next_tid /\ sent[m].tid \in Nat
      BY ElementTypes DEF WireInv
    <3> QED
      BY <1>4, <3>1
  <2>2. \A m \in DOMAIN sent : sent[m].tid \in DOMAIN op' =>
          sent[m].tid \in DOMAIN op /\ op'[sent[m].tid] = op[sent[m].tid]
    BY <1>12, <2>1
  <2>3. \A j \in DOMAIN waiting_commit' : \E m \in DOMAIN sent :
          ~sent[m].update /\ sent[m].tid = waiting_commit'[j]
    BY <1>2, <1>3 DEF PendingInv
  <2> QED
    BY <1>2, <2>2, <2>3 DEF PendingInv
<1> QED
  BY <1>9, <1>11, <1>13, <1>14

(* handle_sub_write rolls forward what the message says, which is on every *)
(* disk.                                                                   *)
LEMMA HandleSafe ==
  ASSUME TypeInv, CursorInv, Safe, NEW s \in Shards, handle_sub_write(s)
  PROVE  Safe'
<1> DEFINE m == sent[handled[s] + 1]
<1> USE DEF Safe
<1>1. /\ head' = [head EXCEPT ![s] = m.head]
      /\ can_rollback_to' = [can_rollback_to EXCEPT ![s] =
                               Larger(can_rollback_to[s], m.roll_forward_to)]
      /\ handled[s] < Len(sent)
      /\ UNCHANGED <<sent, stored, ondisk, op, on_write, waiting_commit,
                     log_entry_update_waiting_on, completed_to, committed_to,
                     min_last_complete_ondisk, acked, last_complete_ondisk,
                     next_tid>>
  BY DEF handle_sub_write, queueVars, ackVars
<1>2. handled[s] + 1 \in DOMAIN sent
  <2>1. handled[s] \in Nat /\ sent \in Seq(Message)
    BY ElementTypes DEF TypeInv, TypeOK
  <2> QED
    BY <1>1, <2>1
<1>3. /\ m.head \in Nat /\ m.roll_forward_to \in Nat /\ m.head < next_tid
      /\ Committed(m.roll_forward_to, ondisk)
  BY <1>2, ElementTypes DEF WireInv
<1>4. head \in [Shards -> Nat] /\ can_rollback_to \in [Shards -> Nat]
      /\ next_tid \in Nat
  BY DEF TypeInv, TypeOK
<1> HIDE DEF m
<1>5. WireInv'
  <2>1. \A r \in Shards : head'[r] < next_tid'
    BY <1>1, <1>3, <1>4 DEF WireInv
  <2> QED
    BY <1>1, <2>1 DEF WireInv
<1>6. \A r \in Shards :
        can_rollback_to'[r] \in {can_rollback_to[r],
                                 Larger(can_rollback_to[r], m.roll_forward_to)}
  BY <1>1, <1>4
<1>7. CommittedInv'
  BY <1>1, <1>3, <1>6, RollForwardCommitted
<1>8. OpInv' /\ PendingInv' /\ UpdateInv'
  BY <1>1, <1>4, OpInvSame, PendingSame, UpdateSame
<1> QED
  BY <1>5, <1>7, <1>8

(* sub_write_committed puts one more version on a disk and takes none away. *)
LEMMA CommitSafe ==
  ASSUME TypeInv, CursorInv, Safe, NEW s \in Shards, sub_write_committed(s)
  PROVE  Safe'
<1> DEFINE m == sent[stored[s] + 1]
<1> USE DEF Safe
<1>1. /\ ondisk' = [ondisk EXCEPT ![s] = Larger(ondisk[s], m.head)]
      /\ stored' = [stored EXCEPT ![s] = stored[s] + 1]
      /\ stored[s] < handled[s]
      /\ UNCHANGED <<sent, head, op, on_write, waiting_commit,
                     log_entry_update_waiting_on, completed_to, committed_to,
                     min_last_complete_ondisk, acked, last_complete_ondisk,
                     can_rollback_to, next_tid>>
  BY DEF sub_write_committed, queueVars, ackVars
<1>2. stored[s] + 1 \in DOMAIN sent
  BY <1>1, NextMessage DEF TypeInv
<1>3. m.head \in Nat /\ ondisk \in [Shards -> Nat] /\ stored \in [Shards -> Nat]
      /\ ondisk[s] \in Nat
  BY <1>2, ElementTypes DEF TypeInv, TypeOK
<1>4. m.head <= Larger(ondisk[s], m.head) /\ ondisk[s] <= Larger(ondisk[s], m.head)
      /\ Larger(ondisk[s], m.head) \in Nat
  BY <1>3 DEF Larger
<1>5. \A r \in Shards : /\ ondisk[r] \in Nat /\ ondisk'[r] \in Nat
                        /\ ondisk[r] <= ondisk'[r]
  BY <1>1, <1>3, <1>4
<1>6. \A v \in Nat, r \in Shards : v <= ondisk[r] => v <= ondisk'[r]
  BY <1>5
<1>7. \A v \in Nat : Committed(v, ondisk) => Committed(v, ondisk')
  BY <1>6 DEF Committed
<1>8. WireInv'
  <2>1. \A r \in Shards : \A i \in DOMAIN sent :
          i <= stored'[r] => sent[i].head <= ondisk'[r]
    <3>1. TAKE r \in Shards
    <3>2. TAKE i \in DOMAIN sent
    <3>3. sent[i].head \in Nat /\ i \in Nat
      BY ElementTypes
    <3>4. CASE i <= stored[r]
      BY <1>6, <3>3, <3>4 DEF WireInv
    <3>5. CASE ~(i <= stored[r]) /\ r # s
      BY <1>1, <1>3, <3>5
    <3>6. CASE ~(i <= stored[r]) /\ r = s
      <4>1. i <= stored'[r] => i = stored[s] + 1
        BY <1>1, <1>3, <3>3, <3>6
      <4> QED
        BY <1>1, <1>3, <1>4, <3>6, <4>1
    <3> QED
      BY <3>4, <3>5, <3>6
  <2>2. \A i \in DOMAIN sent : Committed(sent[i].roll_forward_to, ondisk')
    BY <1>7, ElementTypes DEF WireInv
  <2> QED
    BY <1>1, <2>1, <2>2 DEF WireInv
<1> HIDE DEF m
<1>9. OpInv'
  <2>1. \A t \in DOMAIN op : Committed(op[t].roll_forward_to, ondisk')
    BY <1>7, ElementTypes DEF OpInv
  <2> QED
    BY <1>1, <2>1 DEF OpInv
<1>10. PendingInv'
  BY <1>1, <1>6, ElementTypes DEF PendingInv
<1>11. UpdateInv'
  <2>1. \A t \in DOMAIN log_entry_update_waiting_on :
          log_entry_update_waiting_on[t].version \in Nat
    BY DEF TypeInv, TypeOK, Waiting
  <2> QED
    BY <1>1, <1>6, <2>1 DEF UpdateInv
<1>12. CommittedInv'
  <2>1. /\ completed_to \in Nat /\ committed_to \in Nat
        /\ min_last_complete_ondisk \in Nat /\ acked \subseteq Nat
    BY DEF TypeInv, TypeOK
  <2>2. \A r \in Shards : Committed(can_rollback_to[r], ondisk')
                          /\ last_complete_ondisk[r] <= ondisk'[r]
    BY <1>6, <1>7, ElementTypes DEF CommittedInv
  <2>3. /\ Committed(completed_to, ondisk') /\ Committed(committed_to, ondisk')
        /\ Committed(min_last_complete_ondisk, ondisk')
        /\ \A v \in acked : Committed(v, ondisk')
    BY <1>7, <2>1 DEF CommittedInv
  <2> QED
    BY <1>1, <2>2, <2>3 DEF CommittedInv
<1> QED
  BY <1>8, <1>9, <1>10, <1>11, <1>12

(* What a shard reports is on its disk.                                    *)
LEMMA ReportedSafe ==
  ASSUME TypeInv, CursorInv, WireInv, CommittedInv, NEW s \in Shards,
         replied[s] < stored[s]
  PROVE  /\ replied[s] + 1 \in DOMAIN sent
         /\ NextReply(s) = sent[replied[s] + 1]
         /\ NextReply(s).version \in Nat
         /\ NextReply(s).version <= ondisk[s]
         /\ Reported(s) \in [Shards -> Nat]
         /\ \A r \in Shards : Reported(s)[r] <= ondisk[r]
<1> DEFINE i == replied[s] + 1
<1>1. i \in DOMAIN sent /\ NextReply(s) = sent[i]
  BY NextMessage DEF TypeInv, NextReply
<1>2. /\ sent[i].version \in Nat /\ sent[i].head \in Nat
      /\ replied[s] \in Nat /\ stored[s] \in Nat /\ ondisk[s] \in Nat
  BY <1>1, ElementTypes
<1>3. sent[i].version <= sent[i].head /\ sent[i].head <= ondisk[s]
  BY <1>1, <1>2 DEF WireInv
<1> HIDE DEF i
<1>4. sent[i].version <= ondisk[s]
  BY <1>2, <1>3
<1>5. Reported(s) \in [Shards -> Nat]
  BY ReportedType DEF TypeInv
<1>6. \A r \in Shards : Reported(s)[r] <= ondisk[r]
  <2>1. last_complete_ondisk \in [Shards -> Nat]
    BY DEF TypeInv, TypeOK
  <2>2. \A r \in Shards : \/ Reported(s)[r] = last_complete_ondisk[r]
                          \/ r = s /\ Reported(s)[r] = sent[i].head
    BY <1>1, <2>1 DEF Reported
  <2> QED
    BY <1>3, <2>2 DEF CommittedInv
<1> QED
  BY <1>1, <1>2, <1>4, <1>5, <1>6 DEF i

(* The acknowledgement of a version that is on every disk.                 *)
LEMMA AckSafe ==
  ASSUME TypeInv, CommittedInv, NEW v \in Nat, NEW l \in Nat,
         NEW f \in [Shards -> Nat], repop_all_committed(v, l, f),
         Committed(v, ondisk), l <= ondisk[Primary],
         \A s \in Shards : f[s] <= ondisk[s],
         UNCHANGED <<completed_to, committed_to, can_rollback_to, ondisk>>
  PROVE  CommittedInv'
<1>1. acked' = acked \cup {v}
      /\ last_complete_ondisk' = [f EXCEPT ![Primary] = l]
      /\ \A s \in Shards : min_last_complete_ondisk' <= last_complete_ondisk'[s]
  BY DEF repop_all_committed
<1>2. min_last_complete_ondisk' \in Nat
      /\ last_complete_ondisk' \in [Shards -> Nat]
  BY AllCommittedType DEF TypeInv, TypeOK
<1>3. \A s \in Shards : last_complete_ondisk'[s] <= ondisk[s]
  BY <1>1
<1>4. Committed(min_last_complete_ondisk', ondisk)
  <2>1. \A s \in Shards : last_complete_ondisk'[s] \in Nat /\ ondisk[s] \in Nat
    BY <1>2, ElementTypes
  <2> QED
    BY <1>1, <1>2, <1>3, <2>1 DEF Committed
<1> QED
  BY <1>1, <1>3, <1>4 DEF CommittedInv

(* A reply that acknowledges nothing.                                      *)
LEMMA NoAckSafe ==
  ASSUME CommittedInv, NEW f, last_complete_ondisk' = f,
         \A s \in Shards : f[s] <= ondisk[s],
         UNCHANGED <<completed_to, committed_to, can_rollback_to, ondisk,
                     acked, min_last_complete_ondisk>>
  PROVE  CommittedInv'
  BY DEF CommittedInv

(* handle_sub_write_reply: when nobody is waited for, the version is on    *)
(* every disk.                                                             *)
LEMMA ReplySafe ==
  ASSUME TypeInv, CursorInv, Safe, NEW s \in Shards, handle_sub_write_reply(s)
  PROVE  Safe'
<1> DEFINE t == NextReply(s).tid
           o == op[t]
           left == o.pending_commit \ {s}
           all == AllCommitted(left) /\ o.on_all_commit
           n == [o EXCEPT !.pending_commit = left,
                          !.on_all_commit = o.on_all_commit /\ ~all]
           i == replied[s] + 1
<1> USE DEF Safe
<1>1. /\ t \in DOMAIN op /\ s \in o.pending_commit
      /\ op' = [op EXCEPT ![t].pending_commit = left,
                          ![t].on_all_commit = @ /\ ~all]
      /\ \/ /\ all
            /\ repop_all_committed(o.version, o.pg_local_last_complete,
                                   Reported(s))
         \/ /\ last_complete_ondisk' = Reported(s)
            /\ UNCHANGED <<acked, min_last_complete_ondisk>>
      /\ replied[s] < stored[s] /\ ~NextReply(s).update
      /\ UNCHANGED <<sent, stored, ondisk, head, on_write, waiting_commit,
                     log_entry_update_waiting_on, completed_to, committed_to,
                     can_rollback_to, next_tid>>
  BY DEF handle_sub_write_reply, queueVars, shardVars
<1>2. /\ i \in DOMAIN sent /\ NextReply(s) = sent[i]
      /\ NextReply(s).version <= ondisk[s]
      /\ Reported(s) \in [Shards -> Nat]
      /\ \A r \in Shards : Reported(s)[r] <= ondisk[r]
  BY <1>1, ReportedSafe
<1>3. /\ o.version = sent[i].version
      /\ \A r \in Shards : r \notin o.pending_commit => o.version <= ondisk[r]
  BY <1>1, <1>2 DEF PendingInv
<1>4. \A r \in Shards : r \notin left => o.version <= ondisk[r]
  BY <1>2, <1>3
<1>5. /\ o \in OpRecord /\ o.version \in Nat /\ o.pg_local_last_complete \in Nat
      /\ left \subseteq Shards /\ (o.on_all_commit /\ ~all) \in BOOLEAN
  BY <1>1, ElementTypes
<1>6. CommittedInv'
  <2>1. CASE /\ all
             /\ repop_all_committed(o.version, o.pg_local_last_complete,
                                    Reported(s))
    <3>1. Committed(o.version, ondisk)
      BY <1>4, <2>1 DEF AllCommitted, Committed
    <3>2. o.pg_local_last_complete <= o.version
      BY <1>1, <2>1 DEF OpInv
    <3>3. o.pg_local_last_complete <= ondisk[Primary]
      BY <1>5, <3>1, <3>2, ElementTypes DEF Committed
    <3> HIDE DEF o
    <3> QED
      BY <1>1, <1>2, <1>5, <2>1, <3>1, <3>3, AckSafe
  <2>2. CASE /\ last_complete_ondisk' = Reported(s)
             /\ UNCHANGED <<acked, min_last_complete_ondisk>>
    BY <1>1, <1>2, <2>2, NoAckSafe
  <2> QED
    BY <1>1, <2>1, <2>2
<1>7. op' = [op EXCEPT ![t] = n]
  BY <1>1
<1>8. /\ n \in OpRecord /\ n.version = o.version
      /\ n.roll_forward_to = o.roll_forward_to
      /\ n.pg_local_last_complete = o.pg_local_last_complete
      /\ n.on_all_commit => o.on_all_commit
      /\ n.pending_commit = left /\ n.on_write = o.on_write
  <2> HIDE DEF o, left, all
  <2>1. n \in OpRecord
    BY <1>5 DEF OpRecord
  <2> QED
    BY <1>5, <2>1 DEF OpRecord
<1> HIDE DEF n
<1>9. /\ DOMAIN op' = DOMAIN op /\ op'[t] = n
      /\ \A u \in DOMAIN op : u # t => op'[u] = op[u]
  BY <1>1, <1>7, <1>8, OpChanged DEF TypeInv
<1>10. OpInv'
  <2>1. \A u \in DOMAIN op :
          /\ op'[u].version = op[u].version
          /\ op'[u].roll_forward_to = op[u].roll_forward_to
          /\ op'[u].pg_local_last_complete = op[u].pg_local_last_complete
          /\ op'[u].on_all_commit => op[u].on_all_commit
          /\ op'[u].on_write = op[u].on_write
    BY <1>8, <1>9
  <2> QED
    BY <1>1, <1>9, <2>1 DEF OpInv
<1>11. PendingInv'
  <2>1. \A u \in DOMAIN op : op'[u].version = op[u].version
    BY <1>8, <1>9
  <2>2. \A r \in Shards : r \notin op'[t].pending_commit
                          => op[t].version <= ondisk[r]
    BY <1>4, <1>8, <1>9
  <2>3. ASSUME NEW j \in DOMAIN sent, ~sent[j].update, sent[j].tid \in DOMAIN op
        PROVE  /\ op'[sent[j].tid].version = sent[j].version
               /\ \A r \in Shards : r \notin op'[sent[j].tid].pending_commit
                                    => sent[j].version <= ondisk[r]
    BY <1>9, <2>1, <2>2, <2>3 DEF PendingInv
  <2> QED
    BY <1>1, <1>9, <2>3 DEF PendingInv
<1>12. WireInv' /\ UpdateInv'
  BY <1>1, WireInvSame, UpdateSame, ElementTypes
<1> QED
  BY <1>6, <1>10, <1>11, <1>12

(* do_update_log_missing_reply: likewise for a log update. *)
LEMMA UpdateReplySafe ==
  ASSUME TypeInv, CursorInv, Safe, NEW s \in Shards,
         do_update_log_missing_reply(s)
  PROVE  Safe'
<1> DEFINE t == NextReply(s).tid
           luw == log_entry_update_waiting_on
           u == luw[t]
           left == u.waiting_on \ {s}
           i == replied[s] + 1
<1> USE DEF Safe
<1>1. /\ t \in DOMAIN luw
      /\ \/ /\ AllCommitted(left)
            /\ repop_all_committed(u.version, u.pg_local_last_complete,
                                   Reported(s))
            /\ luw' = Without(luw, t)
         \/ /\ last_complete_ondisk' = Reported(s)
            /\ luw' = [luw EXCEPT ![t].waiting_on = left]
            /\ UNCHANGED <<acked, min_last_complete_ondisk>>
      /\ replied[s] < stored[s] /\ NextReply(s).update
      /\ UNCHANGED <<sent, stored, ondisk, head, op, on_write, waiting_commit,
                     completed_to, committed_to, can_rollback_to, next_tid>>
  BY DEF do_update_log_missing_reply, queueVars, shardVars
<1>2. /\ i \in DOMAIN sent /\ NextReply(s) = sent[i]
      /\ NextReply(s).version <= ondisk[s]
      /\ Reported(s) \in [Shards -> Nat]
      /\ \A r \in Shards : Reported(s)[r] <= ondisk[r]
  BY <1>1, ReportedSafe
<1>3. luw \in [DOMAIN luw -> Waiting]
  BY DEF TypeInv, TypeOK
<1>4. u \in Waiting
  BY <1>1, <1>3
<1>5. u.version \in Nat /\ u.pg_local_last_complete \in Nat
  BY <1>4 DEF Waiting
<1>6. u.version = t /\ sent[i].version = t /\ u.pg_local_last_complete <= u.version
  BY <1>1, <1>2 DEF UpdateInv, WireInv
<1>7. \A r \in Shards : r \notin left => u.version <= ondisk[r]
  BY <1>1, <1>2, <1>6 DEF UpdateInv
<1>8. CommittedInv'
  <2>1. CASE /\ AllCommitted(left)
             /\ repop_all_committed(u.version, u.pg_local_last_complete,
                                    Reported(s))
    <3>1. Committed(u.version, ondisk)
      BY <1>7, <2>1 DEF AllCommitted, Committed
    <3>2. u.pg_local_last_complete <= ondisk[Primary]
      BY <1>5, <1>6, <3>1, ElementTypes DEF Committed
    <3> HIDE DEF u
    <3> QED
      BY <1>1, <1>2, <1>5, <2>1, <3>1, <3>2, AckSafe
  <2>2. CASE /\ last_complete_ondisk' = Reported(s)
             /\ UNCHANGED <<acked, min_last_complete_ondisk>>
    BY <1>1, <1>2, <2>2, NoAckSafe
  <2> QED
    BY <1>1, <2>1, <2>2
<1>9. UpdateInv'
  <2>1. CASE luw' = Without(luw, t)
    BY <1>1, <2>1 DEF UpdateInv, Without
  <2>2. CASE luw' = [luw EXCEPT ![t].waiting_on = left]
    <3>1. /\ DOMAIN luw' = DOMAIN luw
          /\ \A v \in DOMAIN luw : v # t => luw'[v] = luw[v]
      BY <1>3, <2>2
    <3>2. /\ luw'[t].version = u.version /\ luw'[t].waiting_on = left
          /\ luw'[t].pg_local_last_complete = u.pg_local_last_complete
      BY <1>1, <1>3, <1>4, <2>2 DEF Waiting
    <3> QED
      BY <1>1, <1>6, <1>7, <3>1, <3>2 DEF UpdateInv
  <2> QED
    BY <1>1, <2>1, <2>2
<1>10. WireInv' /\ OpInv' /\ PendingInv'
  BY <1>1, WireInvSame, OpInvSame, PendingSame, ElementTypes
<1> QED
  BY <1>8, <1>9, <1>10

(* A change of interval keeps what was rolled forward or acknowledged: the *)
(* log that wins is one of a shard that kept all it had on disk.           *)
LEMMA ChangeSafe ==
  ASSUME TypeInv, Safe, NEW h \in {0} \cup {e.version : e \in log}, on_change(h)
  PROVE  Safe'
<1> USE DEF Safe
<1>1. /\ PossibleHead(h) /\ on_write = <<>>
      /\ completed_to' = 0 /\ committed_to' = 0
      /\ waiting_commit' = <<>> /\ op' = <<>>
      /\ log_entry_update_waiting_on' = <<>>
      /\ last_complete_ondisk' = [s \in Shards |-> 0]
      /\ min_last_complete_ondisk' = 0 /\ sent' = <<>>
      /\ head' = [s \in Shards |-> h] /\ ondisk' = [s \in Shards |-> h]
      /\ UNCHANGED <<on_write, next_tid, can_rollback_to, acked>>
  BY DEF on_change, LockFree
<1>2. PICK s \in Shards : ondisk[s] <= h /\ h <= head[s]
  BY <1>1 DEF PossibleHead
<1>3. h \in Nat /\ ondisk[s] \in Nat /\ head[s] \in Nat /\ next_tid \in Nat
      /\ acked \subseteq Nat
  <2>1. h \in Nat
    BY VersionNat DEF TypeInv
  <2>2. acked \subseteq Nat
    BY DEF TypeInv, TypeOK
  <2> QED
    BY <2>1, <2>2, ElementTypes
<1>4. h < next_tid
  BY <1>2, <1>3 DEF WireInv
<1>5. DOMAIN <<>> = {}
  OBVIOUS
<1>6. WireInv' /\ OpInv' /\ PendingInv' /\ UpdateInv'
  <2>1. /\ DOMAIN sent' = {} /\ DOMAIN op' = {} /\ DOMAIN on_write' = {}
        /\ DOMAIN waiting_commit' = {}
        /\ DOMAIN log_entry_update_waiting_on' = {}
    BY <1>1, <1>5
  <2>2. \A r \in Shards : head'[r] < next_tid'
    BY <1>1, <1>4
  <2> QED
    BY <2>1, <2>2 DEF WireInv, OpInv, PendingInv, UpdateInv
<1>7. \A v \in Nat : Committed(v, ondisk) => Committed(v, ondisk')
  BY <1>1, <1>2, <1>3 DEF Committed
<1>8. CommittedInv'
  <2>1. \A r \in Shards : ondisk'[r] = h /\ last_complete_ondisk'[r] = 0
    BY <1>1
  <2>2. Committed(0, ondisk')
    BY <1>3, <2>1 DEF Committed
  <2>3. \A r \in Shards : Committed(can_rollback_to'[r], ondisk')
    BY <1>1, <1>7, ElementTypes DEF CommittedInv
  <2>4. \A v \in acked' : Committed(v, ondisk')
    BY <1>1, <1>3, <1>7 DEF CommittedInv
  <2> QED
    BY <1>1, <1>3, <2>1, <2>2, <2>3, <2>4 DEF CommittedInv
<1> QED
  BY <1>6, <1>8

(* Steps that leave alone everything that Safe speaks of. *)
LEMMA SafeSame ==
  ASSUME TypeInv, Safe,
         UNCHANGED <<sent, stored, ondisk, head, op, on_write, waiting_commit,
                     log_entry_update_waiting_on, completed_to, committed_to,
                     min_last_complete_ondisk, acked, can_rollback_to,
                     last_complete_ondisk, next_tid>>
  PROVE  Safe'
  BY WireInvSame, OpInvSame, PendingSame, UpdateSame, CommittedSame,
     ElementTypes DEF Safe

(* Safe holds initially, with nothing sent and nothing trusted. *)
LEMMA InitSafe == Init => Safe
<1> SUFFICES ASSUME Init PROVE Safe
  OBVIOUS
<1>1. DOMAIN <<>> = {}
  OBVIOUS
<1>2. /\ DOMAIN sent = {} /\ DOMAIN op = {} /\ DOMAIN on_write = {}
      /\ DOMAIN waiting_commit = {}
      /\ DOMAIN log_entry_update_waiting_on = {}
  BY <1>1 DEF Init
<1>3. WireInv /\ OpInv /\ PendingInv /\ UpdateInv
  BY <1>2 DEF Init, WireInv, OpInv, PendingInv, UpdateInv
<1>4. CommittedInv
  BY DEF Init, CommittedInv, Committed
<1> QED
  BY <1>3, <1>4 DEF Safe

(* Every step keeps the safety of the pipeline.                            *)
LEMMA NextSafe ==
  ASSUME TypeInv, CursorInv, Safe, [Next]_vars
  PROVE  Safe'
<1>0. TypeInv'
  BY NextTyped
<1>1. ASSUME NEW p \in Plans, submit_transaction(p) PROVE Safe'
  BY <1>0, <1>1, SubmitSafe
<1>2. CASE submit_log_entries
  BY <1>0, <1>2, LogEntriesSafe
<1>3. CASE RunOnWrite
  BY <1>0, <1>3, RunOnWriteSafe
<1>4. CASE try_state_to_reads
  BY <1>4, StateToReadsSafe
<1>5. CASE try_reads_to_commit
  BY <1>5, ReadsToCommitSafe
<1>6. CASE try_finish_rmw
  BY <1>0, <1>6, FinishSafe
<1>7. CASE check_ops_done
  <2>1. UNCHANGED <<sent, stored, ondisk, head, op, on_write, waiting_commit,
                    log_entry_update_waiting_on, completed_to, committed_to,
                    min_last_complete_ondisk, acked, can_rollback_to,
                    last_complete_ondisk, next_tid>>
    BY <1>7 DEF check_ops_done, queueVars, wireVars, shardVars, ackVars
  <2> QED
    BY <2>1, SafeSame
<1>8. ASSUME NEW t \in DOMAIN op, NEW v \in {0} \cup {e.version : e \in log},
             RemoteReadDone(t, v)
      PROVE  Safe'
  BY <1>8, RemoteReadSafe
<1>9. ASSUME NEW s \in Shards,
             \/ handle_sub_write(s) \/ sub_write_committed(s)
             \/ handle_sub_write_reply(s) \/ do_update_log_missing_reply(s)
      PROVE  Safe'
  BY <1>9, HandleSafe, CommitSafe, ReplySafe, UpdateReplySafe
<1>10. ASSUME NEW h \in {0} \cup {e.version : e \in log}, on_change(h)
       PROVE  Safe'
  BY <1>10, ChangeSafe
<1>11. CASE UNCHANGED vars
  <2>1. UNCHANGED <<sent, stored, ondisk, head, op, on_write, waiting_commit,
                    log_entry_update_waiting_on, completed_to, committed_to,
                    min_last_complete_ondisk, acked, can_rollback_to,
                    last_complete_ondisk, next_tid>>
    BY <1>11 DEF vars, queueVars, wireVars, shardVars, ackVars
  <2> QED
    BY <2>1, SafeSame
<1> QED
  BY <1>1, <1>2, <1>3, <1>4, <1>5, <1>6, <1>7, <1>8, <1>9, <1>10, <1>11
     DEF Next

(* The inductive invariant holds in every reachable state.                 *)
THEOREM SafeInvariant == Spec => [](TypeInv /\ CursorInv /\ Safe)
<1>1. Init => TypeInv /\ CursorInv /\ Safe
  BY InitTyped, InitSafe
<1>2. TypeInv /\ CursorInv /\ Safe /\ [Next]_vars
      => (TypeInv /\ CursorInv /\ Safe)'
  BY NextTyped, NextSafe
<1> QED
  BY <1>1, <1>2, PTL DEF Spec

(* No shard gives up the rollback information of a version before every    *)
(* shard has that version on disk (ECBackend.cc, roll_forward_to of        *)
(* start_rmw and of try_finish_rmw; PrimaryLogPG.cc, min_last_complete_    *)
(* ondisk of submit_log_entries), over any number of changes of interval.  *)
THEOREM RollForwardIsSafe == Spec => []RollForwardSafe
<1>1. Safe => RollForwardSafe
  BY DEF Safe, CommittedInv, Committed, RollForwardSafe
<1> QED
  BY <1>1, SafeInvariant, PTL

(* A version that repop_all_committed acknowledged is on the disk of every *)
(* shard, and stays there when the interval changes.                       *)
THEOREM AcknowledgedIsSafe == Spec => []AckedOnEveryShard
<1>1. Safe => AckedOnEveryShard
  BY DEF Safe, CommittedInv, Committed, AckedOnEveryShard
<1> QED
  BY <1>1, SafeInvariant, PTL
-----------------------------------------------------------------------------
(***************************************************************************)
(* The write pipeline keeps a log: writes and log updates get their        *)
(* versions when they are submitted and are put on the log in that order,  *)
(* are acknowledged in that order, and no acknowledged one is lost.  Every *)
(* reply finds what waits for it (RepliesExpected), and ECWrite implements *)
(* CommitLog (WritesAreLogged), for any number of shards, plans, tids and  *)
(* intervals.                                                              *)
(*                                                                         *)
(* The argument: the operations that were not sent yet stand in one line,  *)
(* waiting_reads in front of waiting_state.  What hangs on the operations  *)
(* of the line is in the order of the line (OrderInv), behind what is in   *)
(* the log and in the callbacks that are being run; no tid is sent twice   *)
(* (FreshInv, SentInv); a message without a reply has an operation or a    *)
(* log update that waits for it (ReplyInv), and is newer than everything   *)
(* that was acknowledged (AckInv).                                         *)
(***************************************************************************)

Precede(S, T) == \A v \in S, w \in T : v < w
Increasing(q) == \A i, j \in DOMAIN q : i < j => q[i].version < q[j].version
Versions(q)   == {q[k].version : k \in DOMAIN q}

(* The operations that were not sent, and the versions each will append:   *)
(* its own, and those of the callbacks that hang on it.                    *)
Line    == waiting_reads \o waiting_state
Pend(o) == ({o.version} \ {0}) \cup Versions(o.on_write)
Ready   == versions \cup Versions(on_write)
Tids    == {sent[j].tid : j \in DOMAIN sent}

BoundInv ==
  /\ 0 < next_tid
  /\ \A v \in Ready : v < next_tid /\ v <= MaxTid
  /\ \A t \in DOMAIN op : op[t].on_all_commit => op[t].version # 0
  /\ \A i \in DOMAIN Line : \A v \in Pend(op[Line[i]]) : v < next_tid /\ v <= MaxTid

OrderInv ==
  /\ Increasing(on_write)
  /\ Precede(versions, Versions(on_write))
  /\ \A i \in DOMAIN Line :
       /\ Increasing(op[Line[i]].on_write)
       /\ Precede({op[Line[i]].version}, Versions(op[Line[i]].on_write))
       /\ Precede(Ready, Pend(op[Line[i]]))
  /\ \A i, j \in DOMAIN Line : i < j => Precede(Pend(op[Line[i]]), Pend(op[Line[j]]))

FreshInv ==
  /\ \A i \in DOMAIN Line : Line[i] \notin Tids
  /\ \A k \in DOMAIN on_write : /\ on_write[k].version # 0
                                /\ on_write[k].tid \notin DOMAIN op \cup Tids
  /\ \A i \in DOMAIN Line : \A k \in DOMAIN op[Line[i]].on_write :
       op[Line[i]].on_write[k].tid \notin DOMAIN op \cup Tids

SentInv ==
  /\ \A i \in DOMAIN sent : /\ sent[i].version # 0 => sent[i].version \in versions
                            /\ sent[i].update => sent[i].version # 0
  /\ \A i, j \in DOMAIN sent : i < j =>
       /\ sent[i].tid # sent[j].tid
       /\ sent[i].version # 0 /\ sent[j].version # 0 => sent[i].version < sent[j].version

(* Message i still waits for the reply of shard s.                         *)
Awaited(i, s) ==
  IF sent[i].update
  THEN /\ sent[i].tid \in DOMAIN log_entry_update_waiting_on
       /\ s \in log_entry_update_waiting_on[sent[i].tid].waiting_on
  ELSE /\ sent[i].tid \in DOMAIN op
       /\ s \in op[sent[i].tid].pending_commit

ReplyInv ==
  \A i \in DOMAIN sent, s \in Shards : replied[s] < i => Awaited(i, s)

AckInv ==
  /\ acked \subseteq versions
  /\ \A i \in DOMAIN sent, s \in Shards :
       replied[s] < i /\ sent[i].version # 0 => \A v \in acked : v < sent[i].version

LogInv == BoundInv /\ OrderInv /\ FreshInv /\ SentInv /\ ReplyInv /\ AckInv

(* What the safety theorem has for every reachable state.                  *)
Base == TypeInv /\ CursorInv /\ Safe

-----------------------------------------------------------------------------
(* Concatenation of two queues, index by index.                            *)
LEMMA ConcatIndex ==
  ASSUME NEW q \in Seq(Nat), NEW r \in Seq(Nat)
  PROVE  /\ q \o r \in Seq(Nat)
         /\ \A i \in DOMAIN (q \o r) :
              \/ i \in DOMAIN q /\ (q \o r)[i] = q[i]
              \/ \E j \in DOMAIN r : i = Len(q) + j /\ (q \o r)[i] = r[j]
  OBVIOUS

(* How the line changes when a queue gets one more or loses its head.      *)
LEMMA ConcatMoves ==
  ASSUME NEW q \in Seq(Nat), NEW r \in Seq(Nat), NEW x \in Nat
  PROVE  /\ q \o Append(r, x) = Append(q \o r, x)
         /\ r # <<>> => Append(q, Head(r)) \o Tail(r) = q \o r
         /\ q # <<>> => /\ Tail(q) \o r = Tail(q \o r)
                        /\ Head(q \o r) = Head(q) /\ q \o r # <<>>
<1>1. q \o Append(r, x) = Append(q \o r, x)
  OBVIOUS
<1>2. ASSUME r # <<>> PROVE Append(q, Head(r)) \o Tail(r) = q \o r
  <2>1. Head(r) \in Nat /\ Tail(r) \in Seq(Nat) /\ <<Head(r)>> \in Seq(Nat)
    BY <1>2
  <2>2. r = <<Head(r)>> \o Tail(r)
    BY <1>2
  <2>3. Append(q, Head(r)) = q \o <<Head(r)>>
    BY <2>1, AppendIsConcat
  <2>4. (q \o <<Head(r)>>) \o Tail(r) = q \o (<<Head(r)>> \o Tail(r))
    BY <2>1, ConcatAssociative
  <2> QED
    BY <2>2, <2>3, <2>4
<1>3. ASSUME q # <<>>
      PROVE  Tail(q) \o r = Tail(q \o r) /\ Head(q \o r) = Head(q)
             /\ q \o r # <<>>
  <2>1. /\ q \o r \in Seq(Nat) /\ Len(q \o r) = Len(q) + Len(r) /\ Len(q) > 0
        /\ \A i \in 1 .. Len(q) : (q \o r)[i] = q[i]
    BY <1>3
  <2>2. q \o r # <<>> /\ Head(q \o r) = Head(q)
    BY <2>1
  <2>3. Tail(q) \o r = Tail(q \o r)
    <3>1. Head(q) \in Nat /\ Tail(q) \in Seq(Nat) /\ <<Head(q)>> \in Seq(Nat)
      BY <1>3
    <3>2. q = <<Head(q)>> \o Tail(q)
      BY <1>3
    <3>3. q \o r = <<Head(q)>> \o (Tail(q) \o r)
      BY <3>1, <3>2, ConcatAssociative
    <3>4. Tail(q) \o r \in Seq(Nat)
      BY <3>1
    <3>5. \A a \in Nat, z \in Seq(Nat) : Tail(<<a>> \o z) = z
      OBVIOUS
    <3> QED
      BY <3>1, <3>3, <3>4, <3>5
  <2> QED
    BY <2>2, <2>3
<1> QED
  BY <1>1, <1>2, <1>3

(* Two distinct queues that are apart are one distinct line.               *)
LEMMA ConcatDistinct ==
  ASSUME NEW q \in Seq(Nat), NEW r \in Seq(Nat),
         Distinct(q), Distinct(r), Apart(q, r)
  PROVE  Distinct(q \o r)
<1> SUFFICES ASSUME NEW i \in DOMAIN (q \o r), NEW j \in DOMAIN (q \o r),
                    (q \o r)[i] = (q \o r)[j]
             PROVE  i = j
  BY DEF Distinct
<1>1. \A k \in DOMAIN (q \o r) :
        \/ k \in DOMAIN q /\ (q \o r)[k] = q[k]
        \/ \E n \in DOMAIN r : k = Len(q) + n /\ (q \o r)[k] = r[n]
  BY ConcatIndex
<1> DEFINE s == q \o r
<1> HIDE DEF s
<1>2. \A k \in DOMAIN s : \/ k \in DOMAIN q /\ s[k] = q[k]
                          \/ \E n \in DOMAIN r : k = Len(q) + n /\ s[k] = r[n]
  BY <1>1 DEF s
<1>3. i \in DOMAIN s /\ j \in DOMAIN s /\ s[i] = s[j]
  BY DEF s
<1> QED
  BY <1>2, <1>3 DEF Distinct, Apart

(* The line holds operations of tid_to_op_map, each once.                  *)
LEMMA LineTyped ==
  ASSUME TypeInv
  PROVE  /\ Line \in Seq(Nat) /\ waiting_reads \in Seq(Nat) /\ waiting_state \in Seq(Nat)
         /\ \A i \in DOMAIN Line : Line[i] \in DOMAIN op /\ i \in Nat
         /\ Distinct(Line)
<1>1. Known(waiting_state) /\ Known(waiting_reads)
  BY TypeOKParts DEF TypeInv
<1>2. Distinct(Line)
  <2>1. Apart(waiting_reads, waiting_state)
    BY <1>1, ApartSym DEF TypeInv, QueueInv, Known
  <2> QED
    BY <1>1, <2>1, ConcatDistinct DEF TypeInv, QueueInv, Known, Line
<1>3. Line \in Seq(Nat)
  BY <1>1, ConcatIndex DEF Known, Line
<1>4. \A i \in DOMAIN Line : i \in Nat
  BY <1>3
<1>5. \A i \in DOMAIN Line : Line[i] \in DOMAIN op
  BY <1>1, ConcatIndex DEF Known, Line
<1> QED
  BY <1>1, <1>2, <1>3, <1>4, <1>5 DEF Known

-----------------------------------------------------------------------------
(* What the steps do to the line.  An operation enters it behind, an empty *)
(* one that kicks the roll forward in front; it leaves at the front, when  *)
(* its messages are sent.                                                  *)
LEMMA SubmitLine ==
  ASSUME TypeInv, NEW p \in Plans, submit_transaction(p)
  PROVE  Line' = Append(Line, next_tid)
<1>1. waiting_reads' = waiting_reads /\ waiting_state' = Append(waiting_state, next_tid)
  BY DEF submit_transaction
<1>2. next_tid \in Nat
  BY DEF TypeInv, TypeOK
<1> QED
  BY <1>1, <1>2, LineTyped, ConcatMoves DEF Line

(* try_state_to_reads moves an operation within the line. *)
LEMMA StateToReadsLine ==
  ASSUME TypeInv, try_state_to_reads
  PROVE  Line' = Line
<1>1. /\ waiting_state # <<>>
      /\ waiting_reads' = Append(waiting_reads, Head(waiting_state))
      /\ waiting_state' = Tail(waiting_state)
  BY DEF try_state_to_reads, CanStateToReads
<1>2. 0 \in Nat
  OBVIOUS
<1> QED
  BY <1>1, <1>2, LineTyped, ConcatMoves DEF Line

(* try_reads_to_commit takes the first operation of the line. *)
LEMMA ReadsToCommitLine ==
  ASSUME TypeInv, try_reads_to_commit
  PROVE  /\ Line # <<>> /\ Head(Line) = Head(waiting_reads)
         /\ Line' = Tail(Line)
         /\ 1 \in DOMAIN Line /\ Line[1] = Head(Line)
         /\ \A i \in DOMAIN Line' : i + 1 \in DOMAIN Line /\ Line'[i] = Line[i + 1]
                                    /\ i \in Nat /\ 1 < i + 1
<1>1. /\ waiting_reads # <<>> /\ waiting_reads' = Tail(waiting_reads)
      /\ waiting_state' = waiting_state
  BY DEF try_reads_to_commit, CanReadsToCommit
<1>2. 0 \in Nat
  OBVIOUS
<1>3. Line # <<>> /\ Head(Line) = Head(waiting_reads) /\ Line' = Tail(Line)
  BY <1>1, <1>2, LineTyped, ConcatMoves DEF Line
<1>4. \A i \in DOMAIN Line' : i + 1 \in DOMAIN Line /\ Line'[i] = Line[i + 1]
  BY <1>3, LineTyped, TailIndex
<1>5. \A i \in DOMAIN Line' : i \in Nat /\ 1 < i + 1
  <2>1. Line' \in Seq(Nat)
    BY <1>3, LineTyped, TailIndex
  <2> QED
    BY <2>1
<1> QED
  BY <1>3, <1>4, <1>5, LineTyped, TailIndex

(* try_finish_rmw leaves the line alone, or puts the empty operation first. *)
LEMMA FinishLine ==
  ASSUME TypeInv, try_finish_rmw
  PROVE  \/ Line' = Line /\ UNCHANGED next_tid
         \/ /\ next_tid' = next_tid + 1
            /\ Line' \in Seq(Nat)
            /\ \A i \in DOMAIN Line' :
                 \/ i = 1 /\ Line'[i] = next_tid
                 \/ i > 1 /\ i - 1 \in DOMAIN Line /\ Line'[i] = Line[i - 1]
<1>1. waiting_state' = waiting_state
  BY DEF try_finish_rmw
<1>2. CASE UNCHANGED <<waiting_reads, next_tid>>
  BY <1>1, <1>2 DEF Line
<1>3. CASE /\ waiting_reads = <<>> /\ waiting_reads' = Append(waiting_reads, next_tid)
           /\ next_tid' = next_tid + 1
  <2>1. next_tid \in Nat
    BY DEF TypeInv, TypeOK
  <2>2. waiting_reads' = <<next_tid>> /\ Line = waiting_state /\ Line' = <<next_tid>> \o Line
    BY <1>1, <1>3, LineTyped DEF Line
  <2>3. <<next_tid>> \in Seq(Nat) /\ Len(<<next_tid>>) = 1 /\ <<next_tid>>[1] = next_tid
        /\ DOMAIN <<next_tid>> = {1}
    BY <2>1
  <2>4. Line \in Seq(Nat)
    BY LineTyped
  <2>5. /\ Line' \in Seq(Nat)
        /\ \A i \in DOMAIN Line' : \/ i = 1 /\ Line'[i] = next_tid
                                   \/ \E j \in DOMAIN Line : i = 1 + j /\ Line'[i] = Line[j]
    BY <2>2, <2>3, <2>4, ConcatIndex
  <2>6. \A j \in DOMAIN Line : j \in Nat /\ j > 0
    BY <2>4
  <2> QED
    BY <1>3, <2>5, <2>6
<1> QED
  BY <1>2, <1>3 DEF try_finish_rmw, KickRollForward

(* The other steps but on_change leave the line alone.                     *)
LEMMA SameLine ==
  ASSUME UNCHANGED queueVars
  PROVE  Line' = Line
  BY DEF queueVars, Line
-----------------------------------------------------------------------------
(* A step that neither sends nor submits: the line, the log and the        *)
(* callbacks stay, and what the operations of the line will append.        *)
SameOps ==
  /\ DOMAIN op' \subseteq DOMAIN op
  /\ \A t \in DOMAIN op' : /\ op'[t].version = op[t].version
                           /\ op'[t].on_write = op[t].on_write
                           /\ op'[t].on_all_commit => op[t].on_all_commit

(* LineTyped as one formula, to be primed. *)
LineKnown == \A i \in DOMAIN Line : Line[i] \in DOMAIN op

(* The line holds operations of the map, after a step too. *)
LEMMA LineTypedNext == TypeInv' => LineKnown'
<1>1. TypeInv => LineKnown
  BY LineTyped DEF LineKnown
<1> QED
  BY <1>1, PTL

(* SameOps, at the operations of the line. *)
LEMMA LineOps ==
  ASSUME TypeInv, TypeInv', SameOps, Line' = Line
  PROVE  \A i \in DOMAIN Line : /\ op'[Line[i]].version = op[Line[i]].version
                                /\ op'[Line[i]].on_write = op[Line[i]].on_write
                                /\ Pend(op'[Line[i]]) = Pend(op[Line[i]])
<1>1. \A i \in DOMAIN Line : Line[i] \in DOMAIN op'
  <2>1. \A i \in DOMAIN Line' : Line'[i] \in DOMAIN op'
    BY LineTypedNext DEF LineKnown
  <2> QED
    BY <2>1
<1> QED
  BY <1>1 DEF SameOps, Pend

(* Such a step keeps the bounds and the order. *)
LEMMA OrderSame ==
  ASSUME TypeInv, TypeInv', BoundInv, OrderInv, SameOps, Line' = Line,
         UNCHANGED <<log, on_write>>, next_tid <= next_tid'
  PROVE  BoundInv' /\ OrderInv'
<1>1. versions' = versions /\ Ready' = Ready /\ on_write' = on_write
  BY DEF versions, Ready
<1>2. \A i \in DOMAIN Line : /\ op'[Line[i]].version = op[Line[i]].version
                             /\ op'[Line[i]].on_write = op[Line[i]].on_write
                             /\ Pend(op'[Line[i]]) = Pend(op[Line[i]])
  BY LineOps
<1>3. OrderInv'
  BY <1>1, <1>2 DEF OrderInv
<1>4. BoundInv'
  <2>1. next_tid \in Nat /\ next_tid' \in Nat
    BY DEF TypeInv, TypeOK
  <2>2. \A v \in Ready : v \in Nat
    <3>1. \A v \in versions : v \in Nat
      BY VersionNat DEF TypeInv, versions
    <3>2. \A v \in Versions(on_write) : v \in Nat
      BY ElementTypes DEF Versions, Update
    <3> QED
      BY <3>1, <3>2 DEF Ready
  <2>3. \A i \in DOMAIN Line : \A v \in Pend(op[Line[i]]) : v \in Nat
    BY ElementTypes, LineTyped DEF Pend, Versions, Update
  <2>4. 0 < next_tid'
    BY <2>1 DEF BoundInv
  <2>5. \A v \in Ready' : v < next_tid' /\ v <= MaxTid
    BY <1>1, <2>1, <2>2 DEF BoundInv
  <2>6. \A i \in DOMAIN Line' : \A v \in Pend(op'[Line'[i]]) : v < next_tid' /\ v <= MaxTid
    BY <1>2, <2>1, <2>3 DEF BoundInv
  <2> QED
    BY <2>4, <2>5, <2>6 DEF BoundInv, SameOps
<1> QED
  BY <1>3, <1>4

(* Such a step keeps the tids fresh and the messages in order.             *)
LEMMA FreshSame ==
  ASSUME TypeInv, TypeInv', FreshInv, SameOps, Line' = Line,
         UNCHANGED <<sent, on_write>>
  PROVE  FreshInv'
<1>1. Tids' = Tids
  BY DEF Tids
<1>2. \A i \in DOMAIN Line : op'[Line[i]].on_write = op[Line[i]].on_write
  BY LineOps
<1> QED
  BY <1>1, <1>2 DEF FreshInv, SameOps

(* A step that sends nothing and appends nothing. *)
LEMMA SentSame ==
  ASSUME SentInv, UNCHANGED <<sent, log>>
  PROVE  SentInv'
  BY DEF SentInv, versions

(* A step after which everything that is awaited still is. *)
LEMMA ReplySame ==
  ASSUME ReplyInv, UNCHANGED <<sent, replied>>,
         \A i \in DOMAIN sent, s \in Shards :
            replied[s] < i /\ Awaited(i, s) => Awaited(i, s)'
  PROVE  ReplyInv'
  BY DEF ReplyInv

(* A step that acknowledges nothing and is answered nothing. *)
LEMMA AckSame ==
  ASSUME AckInv, UNCHANGED <<sent, replied, acked, log>>
  PROVE  AckInv'
  BY DEF AckInv, versions
-----------------------------------------------------------------------------
(* Steps that only move what is there: try_state_to_reads, RemoteReadDone, *)
(* check_ops_done, and what the shards do with a message.                  *)
LEMMA QuietLog ==
  ASSUME Base, LogInv, TypeInv', Line' = Line, DOMAIN op' = DOMAIN op,
         \A t \in DOMAIN op : /\ op'[t].version = op[t].version
                              /\ op'[t].on_write = op[t].on_write
                              /\ op'[t].on_all_commit = op[t].on_all_commit
                              /\ op'[t].pending_commit = op[t].pending_commit,
         UNCHANGED <<on_write, log_entry_update_waiting_on, next_tid, sent,
                     replied, log, acked>>
  PROVE  LogInv'
<1>1. SameOps
  BY DEF SameOps
<1>2. next_tid <= next_tid'
  BY DEF Base, TypeInv, TypeOK
<1>3. BoundInv' /\ OrderInv'
  BY <1>1, <1>2, OrderSame DEF Base, LogInv
<1>4. FreshInv'
  BY <1>1, FreshSame DEF Base, LogInv
<1>5. \A i \in DOMAIN sent, s \in Shards : Awaited(i, s) => Awaited(i, s)'
  BY DEF Awaited
<1>6. ReplyInv'
  BY <1>5, ReplySame DEF LogInv
<1> QED
  BY <1>3, <1>4, <1>6, SentSame, AckSame DEF LogInv

(* try_state_to_reads changes what an operation reads, not what it appends. *)
LEMMA StateToReadsLog ==
  ASSUME Base, LogInv, TypeInv', try_state_to_reads
  PROVE  LogInv'
<1> DEFINE t == Head(waiting_state)
           o == op[t]
<1>1. PICK ca, re, pe, fr :
        op' = [op EXCEPT ![t].using_cache = ca, ![t].remote_read = re,
                         ![t].pending_read = pe, ![t].read_from = fr]
  BY DEF try_state_to_reads
<1>2. op \in [DOMAIN op -> OpRecord]
  BY TypeOKParts DEF Base, TypeInv
<1>3. DOMAIN op' = DOMAIN op
      /\ \A u \in DOMAIN op : /\ op'[u].version = op[u].version
                              /\ op'[u].on_write = op[u].on_write
                              /\ op'[u].on_all_commit = op[u].on_all_commit
                              /\ op'[u].pending_commit = op[u].pending_commit
  BY <1>1, <1>2 DEF OpRecord
<1>4. Line' = Line
  BY StateToReadsLine DEF Base
<1>5. UNCHANGED <<on_write, log_entry_update_waiting_on, next_tid, sent,
                  replied, log, acked>>
  BY DEF try_state_to_reads, wireVars, ackVars
<1> QED
  BY <1>3, <1>4, <1>5, QuietLog

(* RemoteReadDone gives an operation what it read. *)
LEMMA RemoteReadLog ==
  ASSUME Base, LogInv, TypeInv', NEW t \in DOMAIN op, NEW v, RemoteReadDone(t, v)
  PROVE  LogInv'
<1>1. op' = [op EXCEPT ![t].read_done = TRUE, ![t].read_at = v]
  BY DEF RemoteReadDone
<1>2. op \in [DOMAIN op -> OpRecord]
  BY TypeOKParts DEF Base, TypeInv
<1>3. DOMAIN op' = DOMAIN op
      /\ \A u \in DOMAIN op : /\ op'[u].version = op[u].version
                              /\ op'[u].on_write = op[u].on_write
                              /\ op'[u].on_all_commit = op[u].on_all_commit
                              /\ op'[u].pending_commit = op[u].pending_commit
  BY <1>1, <1>2 DEF OpRecord
<1>4. Line' = Line
  BY SameLine DEF RemoteReadDone
<1>5. UNCHANGED <<on_write, log_entry_update_waiting_on, next_tid, sent,
                  replied, log, acked>>
  BY DEF RemoteReadDone, wireVars, ackVars
<1> QED
  BY <1>3, <1>4, <1>5, QuietLog

(* Steps that leave the primary's operations alone. *)
LEMMA ShardLog ==
  ASSUME Base, LogInv, TypeInv', 
         \/ check_ops_done \/ UNCHANGED vars
         \/ \E s \in Shards : handle_sub_write(s) \/ sub_write_committed(s)
  PROVE  LogInv'
<1>1. UNCHANGED <<op, queueVars, on_write, log_entry_update_waiting_on, next_tid,
                  sent, replied, log, acked>>
  BY DEF check_ops_done, handle_sub_write, sub_write_committed, wireVars,
         ackVars, vars
<1>2. Line' = Line
  BY <1>1, SameLine
<1> QED
  BY <1>1, <1>2, QuietLog
-----------------------------------------------------------------------------
(* What is not sent is older than the next tid, as numbers.                *)
LEMMA LineBounds ==
  ASSUME TypeInv, BoundInv
  PROVE  /\ next_tid \in Nat
         /\ \A v \in Ready : v \in Nat /\ v < next_tid /\ v # next_tid
         /\ \A i \in DOMAIN Line : \A v \in Pend(op[Line[i]]) :
              v \in Nat /\ v < next_tid
<1>1. next_tid \in Nat
  BY DEF TypeInv, TypeOK
<1>2. \A v \in Ready : v \in Nat
  <2>1. \A v \in versions : v \in Nat
    BY VersionNat DEF TypeInv, versions
  <2>2. \A v \in Versions(on_write) : v \in Nat
    BY ElementTypes DEF Versions, Update
  <2> QED
    BY <2>1, <2>2 DEF Ready
<1>3. \A i \in DOMAIN Line : \A v \in Pend(op[Line[i]]) : v \in Nat
  BY ElementTypes, LineTyped DEF Pend, Versions, Update
<1> QED
  BY <1>1, <1>2, <1>3 DEF BoundInv

(* The tids of messages, operations and callbacks are older than the next. *)
LEMMA TidBounds ==
  ASSUME Base
  PROVE  /\ next_tid \in Nat /\ next_tid \notin DOMAIN op \cup Tids
         /\ \A i \in DOMAIN sent : sent[i].tid \in Nat /\ sent[i].tid < next_tid
         /\ \A k \in DOMAIN on_write : on_write[k].tid \in Nat
                                       /\ on_write[k].tid < next_tid
         /\ \A t \in DOMAIN op : \A k \in DOMAIN op[t].on_write :
              op[t].on_write[k].tid \in Nat /\ op[t].on_write[k].tid < next_tid
<1>1. next_tid \in Nat
  BY DEF Base, TypeInv, TypeOK
<1>2. \A i \in DOMAIN sent : sent[i].tid \in Nat /\ sent[i].tid < next_tid
  BY ElementTypes DEF Base, Safe, WireInv
<1>3. next_tid \notin Tids
  BY <1>1, <1>2 DEF Tids
<1>4. next_tid \notin DOMAIN op
  BY <1>1 DEF Base, TypeInv, QueueInv
<1>5. \A k \in DOMAIN on_write : on_write[k].tid \in Nat
                                 /\ on_write[k].tid < next_tid
  BY ElementTypes DEF Base, Safe, OpInv, GoodUpdate, Update
<1>6. \A t \in DOMAIN op : \A k \in DOMAIN op[t].on_write :
        op[t].on_write[k].tid \in Nat /\ op[t].on_write[k].tid < next_tid
  BY ElementTypes DEF Base, Safe, OpInv, GoodUpdate, Update
<1> QED
  BY <1>1, <1>2, <1>3, <1>4, <1>5, <1>6

(* submit_transaction puts a newer version at the end of the line.         *)
LEMMA SubmitLog ==
  ASSUME Base, LogInv, TypeInv', NEW p \in Plans, submit_transaction(p)
  PROVE  LogInv'
<1> DEFINE t == next_tid
           o == Op(t, t, RollForwardTo, p, TRUE)
<1>1. /\ op' = WithOp(op, t, o) /\ next_tid' = t + 1 /\ t <= MaxTid
      /\ UNCHANGED <<on_write, log_entry_update_waiting_on, sent, replied, log, acked>>
  BY DEF submit_transaction, wireVars, ackVars
<1>2. o.version = t /\ o.on_write = <<>> /\ t \in Nat
  BY TidBounds DEF Op
<1>3. \A v \in Pend(o) : v = t
  <2>1. DOMAIN <<>> = {}
    OBVIOUS
  <2> QED
    BY <1>2, <2>1 DEF Pend, Versions
<1> HIDE DEF o
<1>4. t \notin DOMAIN op \cup Tids /\ t \in Nat
  BY TidBounds
<1>5. DOMAIN op' = DOMAIN op \cup {t} /\ op'[t] = o
      /\ \A u \in DOMAIN op : op'[u] = op[u]
  BY <1>1, <1>4 DEF WithOp
<1>6. \A i \in DOMAIN Line' :
        \/ /\ i \in DOMAIN Line /\ Line'[i] = Line[i] /\ i <= Len(Line) /\ i \in Nat
           /\ op'[Line'[i]] = op[Line[i]]
        \/ /\ i = Len(Line) + 1 /\ Line'[i] = t /\ op'[Line'[i]] = o
  <2>1. /\ Line \in Seq(Nat) /\ Line' = Append(Line, t)
        /\ \A i \in DOMAIN Line : Line[i] \in DOMAIN op
    BY SubmitLine, LineTyped DEF Base
  <2>2. /\ DOMAIN Line' = DOMAIN Line \cup {Len(Line) + 1}
        /\ Line'[Len(Line) + 1] = t
        /\ \A i \in DOMAIN Line : Line'[i] = Line[i] /\ i <= Len(Line) /\ i \in Nat
    BY <1>4, <2>1, AppendElement
  <2> QED
    BY <1>5, <2>1, <2>2
<1>7. \A i \in DOMAIN Line' : /\ i \in DOMAIN Line => op'[Line'[i]] = op[Line[i]]
                              /\ i \notin DOMAIN Line => op'[Line'[i]] = o
  BY <1>6
<1>8. versions' = versions /\ Ready' = Ready /\ Tids' = Tids /\ on_write' = on_write
  BY <1>1 DEF versions, Ready, Tids
<1>9. \A i, j \in DOMAIN Line' : i < j => i \in DOMAIN Line
  <2>1. Len(Line) \in Nat
    BY LineTyped DEF Base
  <2> QED
    BY <1>6, <2>1
<1>10. BoundInv'
  <2>1. 0 < next_tid' /\ \A v \in Ready' : v < next_tid' /\ v <= MaxTid
    BY <1>1, <1>4, <1>8, LineBounds DEF LogInv, Base, BoundInv
  <2>2. \A u \in DOMAIN op' : op'[u].on_all_commit => op'[u].version # 0
    BY <1>2, <1>5 DEF LogInv, BoundInv
  <2>3. \A i \in DOMAIN Line' : \A v \in Pend(op'[Line'[i]]) :
          v < next_tid' /\ v <= MaxTid
    <3> SUFFICES ASSUME NEW i \in DOMAIN Line', NEW v \in Pend(op'[Line'[i]])
                 PROVE  v < next_tid' /\ v <= MaxTid
      OBVIOUS
    <3>1. CASE i \in DOMAIN Line
      BY <1>1, <1>4, <1>7, <3>1, LineBounds DEF LogInv, Base, BoundInv
    <3>2. CASE i \notin DOMAIN Line
      BY <1>1, <1>3, <1>4, <1>7, <3>2
    <3> QED
      BY <3>1, <3>2
  <2> QED
    BY <2>1, <2>2, <2>3 DEF BoundInv
<1>11. OrderInv'
  <2>1. \A i \in DOMAIN Line' :
          /\ Increasing(op'[Line'[i]].on_write)
          /\ Precede({op'[Line'[i]].version}, Versions(op'[Line'[i]].on_write))
          /\ Precede(Ready', Pend(op'[Line'[i]]))
    <3> SUFFICES ASSUME NEW i \in DOMAIN Line'
                 PROVE  /\ Increasing(op'[Line'[i]].on_write)
                        /\ Precede({op'[Line'[i]].version},
                                   Versions(op'[Line'[i]].on_write))
                        /\ Precede(Ready', Pend(op'[Line'[i]]))
      OBVIOUS
    <3>1. CASE i \in DOMAIN Line
      BY <1>7, <1>8, <3>1 DEF LogInv, OrderInv
    <3>2. CASE i \notin DOMAIN Line
      <4>1. op'[Line'[i]] = o
        BY <1>7, <3>2
      <4>2. Increasing(o.on_write) /\ Versions(o.on_write) = {}
        BY <1>2 DEF Increasing, Versions
      <4>3. Precede(Ready, {t})
        BY LineBounds DEF Precede, Base, LogInv
      <4> QED
        BY <1>3, <1>8, <4>1, <4>2, <4>3 DEF Precede
    <3> QED
      BY <3>1, <3>2
  <2>2. \A i, j \in DOMAIN Line' :
          i < j => Precede(Pend(op'[Line'[i]]), Pend(op'[Line'[j]]))
    <3> SUFFICES ASSUME NEW i \in DOMAIN Line', NEW j \in DOMAIN Line', i < j
                 PROVE  Precede(Pend(op'[Line'[i]]), Pend(op'[Line'[j]]))
      OBVIOUS
    <3>1. i \in DOMAIN Line /\ op'[Line'[i]] = op[Line[i]]
      BY <1>7, <1>9
    <3>2. CASE j \in DOMAIN Line
      BY <1>7, <3>1, <3>2 DEF LogInv, OrderInv
    <3>3. CASE j \notin DOMAIN Line
      <4>1. op'[Line'[j]] = o
        BY <1>7, <3>3
      <4>2. Precede(Pend(op[Line[i]]), {t})
        BY <3>1, LineBounds DEF Precede, Base, LogInv
      <4> QED
        BY <1>3, <3>1, <4>1, <4>2 DEF Precede
    <3> QED
      BY <3>2, <3>3
  <2> QED
    BY <1>8, <2>1, <2>2 DEF LogInv, OrderInv
<1>12. FreshInv'
  <2>1. \A i \in DOMAIN Line' : Line'[i] \notin Tids
    BY <1>4, <1>6 DEF LogInv, FreshInv
  <2>2. \A k \in DOMAIN on_write : /\ on_write[k].version # 0
                                   /\ on_write[k].tid \notin DOMAIN op' \cup Tids
    BY <1>4, <1>5, TidBounds DEF LogInv, FreshInv
  <2>3. \A i \in DOMAIN Line' : \A k \in DOMAIN op'[Line'[i]].on_write :
          op'[Line'[i]].on_write[k].tid \notin DOMAIN op' \cup Tids
    <3> SUFFICES ASSUME NEW i \in DOMAIN Line', NEW k \in DOMAIN op'[Line'[i]].on_write
                 PROVE  op'[Line'[i]].on_write[k].tid \notin DOMAIN op' \cup Tids
      OBVIOUS
    <3>1. i \in DOMAIN Line /\ op'[Line'[i]] = op[Line[i]]
      BY <1>2, <1>7
    <3> QED
      BY <1>4, <1>5, <3>1, TidBounds, LineTyped DEF LogInv, FreshInv, Base
  <2> QED
    BY <1>8, <2>1, <2>2, <2>3 DEF FreshInv
<1>13. ReplyInv'
  <2>1. \A i \in DOMAIN sent, s \in Shards : Awaited(i, s) => Awaited(i, s)'
    BY <1>1, <1>5 DEF Awaited
  <2> QED
    BY <1>1, <2>1, ReplySame DEF LogInv
<1> QED
  BY <1>1, <1>10, <1>11, <1>12, <1>13, SentSame, AckSame DEF LogInv
-----------------------------------------------------------------------------
(* call_write_ordered hangs the callback on the last operation of the line, *)
(* or runs it when there is none.                                           *)
LEMMA LastOfLine ==
  ASSUME Base, NEW cb, call_write_ordered(cb)
  PROVE  \/ Line = <<>> /\ on_write' = <<cb>> /\ UNCHANGED op
         \/ /\ Len(Line) \in DOMAIN Line /\ UNCHANGED on_write
            /\ \A i \in DOMAIN Line : i <= Len(Line) /\ i \in Nat
            /\ op' = [op EXCEPT ![Line[Len(Line)]].on_write = Append(@, cb)]
<1>1. /\ waiting_reads \in Seq(Nat) /\ waiting_state \in Seq(Nat)
      /\ Line = waiting_reads \o waiting_state
  BY LineTyped DEF Base, Line
<1>2. CASE waiting_state # <<>>
  <2>1. /\ Len(Line) \in DOMAIN Line
        /\ Line[Len(Line)] = waiting_state[Len(waiting_state)]
        /\ \A i \in DOMAIN Line : i <= Len(Line) /\ i \in Nat
    BY <1>1, <1>2
  <2>2. /\ UNCHANGED on_write
        /\ op' = [op EXCEPT ![waiting_state[Len(waiting_state)]].on_write = Append(@, cb)]
    BY <1>2 DEF call_write_ordered
  <2> QED
    BY <2>1, <2>2
<1>3. CASE waiting_state = <<>> /\ waiting_reads # <<>>
  <2>1. Line = waiting_reads
    BY <1>1, <1>3
  <2>2. /\ Len(waiting_reads) \in DOMAIN waiting_reads
        /\ \A i \in DOMAIN waiting_reads : i <= Len(waiting_reads) /\ i \in Nat
    BY <1>1, <1>3
  <2>3. /\ UNCHANGED on_write
        /\ op' = [op EXCEPT ![waiting_reads[Len(waiting_reads)]].on_write = Append(@, cb)]
    BY <1>3 DEF call_write_ordered
  <2> QED
    BY <2>1, <2>2, <2>3
<1>4. CASE waiting_state = <<>> /\ waiting_reads = <<>>
  BY <1>1, <1>4 DEF call_write_ordered
<1> QED
  BY <1>2, <1>3, <1>4

(* A callback more. *)
LEMMA AppendVersions ==
  ASSUME NEW q \in Seq(Update), NEW cb \in Update
  PROVE  /\ \A v \in Versions(Append(q, cb)) : v \in Versions(q) \/ v = cb.version
         /\ Increasing(q) /\ (\A v \in Versions(q) : v < cb.version)
              => Increasing(Append(q, cb))
         /\ \A k \in DOMAIN Append(q, cb) : \/ Append(q, cb)[k] = cb
                                            \/ k \in DOMAIN q /\ Append(q, cb)[k] = q[k]
<1> DEFINE r == Append(q, cb)
<1>1. /\ \A k \in DOMAIN q : r[k] = q[k] /\ k < Len(q) + 1 /\ k \in Nat
      /\ DOMAIN r = DOMAIN q \cup {Len(q) + 1} /\ r[Len(q) + 1] = cb /\ Len(q) \in Nat
  BY AppendElement
<1> HIDE DEF r
<1>2. ASSUME Increasing(q), \A v \in Versions(q) : v < cb.version
      PROVE  Increasing(r)
  <2> SUFFICES ASSUME NEW i \in DOMAIN r, NEW j \in DOMAIN r, i < j
               PROVE  r[i].version < r[j].version
    BY DEF Increasing
  <2>1. i \in DOMAIN q
    BY <1>1
  <2>2. CASE j \in DOMAIN q
    BY <1>1, <1>2, <2>1, <2>2 DEF Increasing
  <2>3. CASE j = Len(q) + 1
    BY <1>1, <1>2, <2>1, <2>3 DEF Versions
  <2> QED
    BY <1>1, <2>2, <2>3
<1>3. \A v \in Versions(r) : v \in Versions(q) \/ v = cb.version
  BY <1>1 DEF Versions
<1>4. \A k \in DOMAIN r : r[k] = cb \/ (k \in DOMAIN q /\ r[k] = q[k])
  BY <1>1
<1> QED
  BY <1>2, <1>3, <1>4 DEF r

(* submit_log_entries, when the callback runs at once: nothing is in line. *)
LEMMA LogEntriesNow ==
  ASSUME Base, LogInv, submit_log_entries, Line = <<>>, Line' = Line, UNCHANGED op,
         NEW cb \in Update, cb.version = next_tid, cb.tid = next_tid,
         on_write' = <<cb>>
  PROVE  BoundInv' /\ OrderInv' /\ FreshInv'
<1>1. next_tid' = next_tid + 1 /\ next_tid <= MaxTid /\ UNCHANGED <<log, sent>>
  BY DEF submit_log_entries, wireVars
<1>2. next_tid \in Nat /\ next_tid \notin DOMAIN op \cup Tids
  BY TidBounds
<1>3. DOMAIN Line = {} /\ DOMAIN <<cb>> = {1} /\ <<cb>>[1] = cb
  OBVIOUS
<1>4. versions' = versions /\ Tids' = Tids /\ Versions(on_write') = {next_tid}
  BY <1>1, <1>3 DEF versions, Tids, Versions
<1>5. \A v \in versions : v \in Nat /\ v < next_tid /\ v <= MaxTid
  BY LineBounds DEF Ready, LogInv, Base, BoundInv
<1>6. BoundInv'
  <2>1. Ready' = versions \cup {next_tid}
    BY <1>4 DEF Ready
  <2> QED
    BY <1>1, <1>2, <1>3, <1>5, <2>1 DEF LogInv, BoundInv
<1>7. OrderInv'
  BY <1>3, <1>4, <1>5 DEF OrderInv, Increasing, Precede
<1>8. FreshInv'
  <2>1. next_tid # 0
    BY <1>2 DEF LogInv, BoundInv
  <2> QED
    BY <1>2, <1>3, <1>4, <2>1 DEF FreshInv
<1> QED
  BY <1>6, <1>7, <1>8
(* submit_log_entries, when the callback hangs on the last of the line.    *)
LEMMA LogEntriesHang ==
  ASSUME Base, LogInv, submit_log_entries, Line' = Line, UNCHANGED on_write,
         NEW cb \in Update, cb.version = next_tid, cb.tid = next_tid,
         Len(Line) \in DOMAIN Line,
         \A i \in DOMAIN Line : i <= Len(Line) /\ i \in Nat,
         op' = [op EXCEPT ![Line[Len(Line)]].on_write = Append(@, cb)]
  PROVE  BoundInv' /\ OrderInv' /\ FreshInv'
<1> DEFINE n == Len(Line)
           t == Line[n]
           q == op[t].on_write
           o == [op[t] EXCEPT !.on_write = Append(q, cb)]
<1>1. next_tid' = next_tid + 1 /\ next_tid <= MaxTid /\ UNCHANGED <<log, sent>>
  BY DEF submit_log_entries, wireVars
<1>2. next_tid \in Nat /\ next_tid \notin DOMAIN op \cup Tids
  BY TidBounds
<1>3. op' = [op EXCEPT ![t] = o]
  OBVIOUS
<1>4. t \in DOMAIN op /\ op[t] \in OpRecord /\ q \in Seq(Update)
  BY LineTyped, ElementTypes DEF Base
<1>5. /\ o.version = op[t].version /\ o.on_all_commit = op[t].on_all_commit
      /\ o.on_write = Append(q, cb)
  BY <1>4 DEF OpRecord
<1> HIDE DEF o
<1>6. /\ DOMAIN op' = DOMAIN op /\ op'[t] = o
      /\ \A u \in DOMAIN op : u # t => op'[u] = op[u]
  BY <1>3, <1>4, TypeOKParts DEF Base, TypeInv
<1>7. \A i \in DOMAIN Line : i # n => op'[Line[i]] = op[Line[i]]
  BY <1>6, LineTyped DEF Base, Distinct
<1>8. \A v \in Pend(o) : v \in Pend(op[t]) \/ v = next_tid
  BY <1>4, <1>5, AppendVersions DEF Pend
<1>9. /\ versions' = versions /\ Tids' = Tids /\ Ready' = Ready
      /\ Versions(on_write') = Versions(on_write)
  BY <1>1 DEF versions, Tids, Ready
<1>10. \A v \in Pend(op[t]) : v \in Nat /\ v < next_tid
  BY LineBounds DEF Base, LogInv
<1> HIDE DEF t, n
<1>11. t = Line[n] /\ n \in DOMAIN Line /\ \A i \in DOMAIN Line : i <= n /\ i \in Nat
  BY DEF t, n
<1>12. BoundInv'
  <2>1. 0 < next_tid' /\ \A v \in Ready' : v < next_tid' /\ v <= MaxTid
    BY <1>1, <1>2, <1>9, LineBounds DEF LogInv, Base, BoundInv
  <2>2. \A u \in DOMAIN op' : op'[u].on_all_commit => op'[u].version # 0
    BY <1>4, <1>5, <1>6 DEF LogInv, BoundInv
  <2>3. \A i \in DOMAIN Line : \A v \in Pend(op'[Line[i]]) :
          v < next_tid' /\ v <= MaxTid
    <3> SUFFICES ASSUME NEW i \in DOMAIN Line, NEW v \in Pend(op'[Line[i]])
                 PROVE  v < next_tid' /\ v <= MaxTid
      OBVIOUS
    <3>1. CASE i # n
      <4>1. v \in Pend(op[Line[i]])
        BY <1>7, <3>1
      <4>2. v \in Nat /\ v < next_tid /\ v <= MaxTid
        BY <4>1, LineBounds DEF LogInv, Base, BoundInv
      <4> QED
        BY <1>1, <1>2, <4>2
    <3>2. CASE i = n
      <4>1. v \in Pend(o) /\ t = Line[i]
        BY <1>6, <1>11, <3>2
      <4>2. CASE v = next_tid
        BY <1>1, <1>2, <4>2
      <4>3. CASE v \in Pend(op[t])
        BY <1>1, <1>2, <1>10, <4>1, <4>3 DEF LogInv, BoundInv
      <4> QED
        BY <1>8, <4>1, <4>2, <4>3
    <3> QED
      BY <3>1, <3>2
  <2> QED
    BY <2>1, <2>2, <2>3 DEF BoundInv
<1>13. OrderInv'
  <2>1. ASSUME NEW i \in DOMAIN Line
        PROVE  /\ Increasing(op'[Line[i]].on_write)
               /\ Precede({op'[Line[i]].version}, Versions(op'[Line[i]].on_write))
               /\ Precede(Ready, Pend(op'[Line[i]]))
    <3>1. CASE i # n
      BY <1>7, <3>1 DEF LogInv, OrderInv
    <3>2. CASE i = n
      <4>1. op'[Line[i]] = o
        BY <1>6, <1>11, <3>2
      <4>2. /\ Increasing(q) /\ Precede({op[t].version}, Versions(q))
            /\ Precede(Ready, Pend(op[t]))
        BY <1>11 DEF LogInv, OrderInv
      <4>3. \A v \in Versions(q) : v < next_tid
        BY <1>10 DEF Pend
      <4>4. Increasing(o.on_write)
        BY <1>4, <1>5, <4>2, <4>3, AppendVersions
      <4>5. Precede({o.version}, Versions(o.on_write))
        <5>1. op[t].version < next_tid
          BY <1>2, <1>4 DEF Base, Safe, OpInv
        <5> QED
          BY <1>4, <1>5, <4>2, <5>1, AppendVersions DEF Precede
      <4>6. Precede(Ready, Pend(o))
        BY <1>8, <4>2, LineBounds DEF Precede, Base, LogInv
      <4> QED
        BY <4>1, <4>4, <4>5, <4>6
    <3> QED
      BY <3>1, <3>2
  <2>2. ASSUME NEW i \in DOMAIN Line, NEW j \in DOMAIN Line, i < j
        PROVE  Precede(Pend(op'[Line[i]]), Pend(op'[Line[j]]))
    <3>1. i # n /\ op'[Line[i]] = op[Line[i]]
      BY <1>7, <1>11, <2>2
    <3>2. CASE j # n
      BY <1>7, <2>2, <3>1, <3>2 DEF LogInv, OrderInv
    <3>3. CASE j = n
      <4>1. op'[Line[j]] = o
        BY <1>6, <1>11, <3>3
      <4>2. Precede(Pend(op[Line[i]]), Pend(op[t]))
        BY <1>11, <2>2, <3>3 DEF LogInv, OrderInv
      <4> QED
        BY <1>8, <3>1, <4>1, <4>2, LineBounds DEF Precede, Base, LogInv
    <3> QED
      BY <3>2, <3>3
  <2> QED
    BY <1>9, <2>1, <2>2 DEF LogInv, OrderInv
<1>14. FreshInv'
  <2>1. ASSUME NEW i \in DOMAIN Line, NEW k \in DOMAIN op'[Line[i]].on_write
        PROVE  op'[Line[i]].on_write[k].tid \notin DOMAIN op \cup Tids
    <3>1. CASE i # n
      BY <1>7, <2>1, <3>1 DEF LogInv, FreshInv
    <3>2. CASE i = n
      <4>1. op'[Line[i]].on_write = Append(q, cb)
        BY <1>5, <1>6, <1>11, <3>2
      <4>2. \/ Append(q, cb)[k] = cb
            \/ k \in DOMAIN q /\ Append(q, cb)[k] = q[k]
        <5>1. k \in DOMAIN Append(q, cb)
          BY <2>1, <4>1
        <5>2. \A x \in DOMAIN Append(q, cb) :
                Append(q, cb)[x] = cb \/ (x \in DOMAIN q /\ Append(q, cb)[x] = q[x])
          BY <1>4, AppendVersions
        <5> QED
          BY <5>1, <5>2
      <4> QED
        BY <1>2, <1>11, <4>1, <4>2 DEF LogInv, FreshInv
    <3> QED
      BY <3>1, <3>2
  <2> QED
    BY <1>6, <1>9, <2>1 DEF LogInv, FreshInv
<1> QED
  BY <1>12, <1>13, <1>14

(* submit_log_entries keeps the log's invariant. *)
LEMMA LogEntriesLog ==
  ASSUME Base, LogInv, submit_log_entries
  PROVE  LogInv'
<1> DEFINE cb == [tid |-> next_tid, version |-> next_tid,
                  pg_local_last_complete |-> head[Primary]]
<1>1. cb \in Update /\ cb.version = next_tid /\ cb.tid = next_tid
  BY ElementTypes DEF Base, Update
<1>2. call_write_ordered(cb)
      /\ UNCHANGED <<log_entry_update_waiting_on, sent, replied, log, acked, queueVars>>
  BY DEF submit_log_entries, wireVars, ackVars
<1> HIDE DEF cb
<1>3. Line' = Line
  BY <1>2, SameLine
<1>4. BoundInv' /\ OrderInv' /\ FreshInv'
  BY <1>1, <1>2, <1>3, LastOfLine, LogEntriesNow, LogEntriesHang
<1>5. DOMAIN op' = DOMAIN op
      /\ \A t \in DOMAIN op : op'[t].pending_commit = op[t].pending_commit
  <2>1. op \in [DOMAIN op -> OpRecord]
    BY TypeOKParts DEF Base, TypeInv
  <2>2. \/ op' = op
        \/ \E x : op' = [op EXCEPT ![x].on_write = Append(@, cb)]
    BY <1>2, LastOfLine
  <2>3. ASSUME NEW x, op' = [op EXCEPT ![x].on_write = Append(@, cb)]
        PROVE  /\ DOMAIN op' = DOMAIN op
               /\ \A t \in DOMAIN op : op'[t].pending_commit = op[t].pending_commit
    BY <2>1, <2>3 DEF OpRecord
  <2> QED
    BY <2>2, <2>3
<1>6. ReplyInv'
  BY <1>2, <1>5, ReplySame DEF Awaited, LogInv
<1> QED
  BY <1>2, <1>4, <1>6, SentSame, AckSame DEF LogInv
-----------------------------------------------------------------------------
(* A message more: the ones before it stay, and it is the last.            *)
LEMMA PublishSent ==
  ASSUME TypeOK, NEW t \in Nat, NEW v \in Nat, NEW r \in Nat,
         NEW b \in BOOLEAN, Publish(t, v, r, b)
  PROVE  LET n == Len(sent) + 1
         IN /\ DOMAIN sent' = DOMAIN sent \cup {n} /\ n \in Nat
            /\ \A i \in DOMAIN sent : sent'[i] = sent[i] /\ i < n /\ i \in Nat
            /\ sent'[n].tid = t /\ sent'[n].version = v /\ sent'[n].update = b
            /\ replied' = replied
<1> DEFINE m == [tid |-> t, version |-> v, roll_forward_to |-> r,
                 head |-> Larger(head[Primary], v), update |-> b]
<1>1. m \in Message
  <2>1. head[Primary] \in Nat
    BY DEF TypeOK
  <2> QED
    BY <2>1 DEF Message, Larger
<1>2. sent' = Append(sent, m) /\ replied' = replied
  BY DEF Publish
<1>3. m.tid = t /\ m.version = v /\ m.update = b
  OBVIOUS
<1> HIDE DEF m
<1>4. sent \in Seq(Message)
  BY DEF TypeOK
<1>5. \A i \in DOMAIN sent : i < Len(sent) + 1
  BY <1>4
<1> QED
  BY <1>1, <1>2, <1>3, <1>4, <1>5, AppendElement

(* What waits for the replies to tid u is not touched.                     *)
StillAwaits(u) ==
  /\ u \in DOMAIN op => /\ u \in DOMAIN op'
                        /\ op'[u].pending_commit = op[u].pending_commit
  /\ u \in DOMAIN log_entry_update_waiting_on =>
       /\ u \in DOMAIN log_entry_update_waiting_on'
       /\ log_entry_update_waiting_on'[u].waiting_on
            = log_entry_update_waiting_on[u].waiting_on

(* Sending a message with a fresh tid and, if it has one, the newest       *)
(* version, for which every shard has to answer.                           *)
LEMMA PublishLog ==
  ASSUME Base, LogInv,
         NEW t \in Nat, NEW v \in Nat, NEW r \in Nat, NEW b \in BOOLEAN,
         Publish(t, v, r, b), t \notin Tids, b => v # 0,
         \A w \in versions : v # 0 => w < v,
         \A w : w \in versions' <=> w \in versions \/ (w = v /\ v # 0),
         UNCHANGED acked,
         \A u \in Tids : StillAwaits(u),
         b => /\ t \in DOMAIN log_entry_update_waiting_on'
              /\ log_entry_update_waiting_on'[t].waiting_on = Shards,
         ~b => t \in DOMAIN op' /\ op'[t].pending_commit = Shards
  PROVE  /\ SentInv' /\ ReplyInv' /\ AckInv'
         /\ \A u : u \in Tids' <=> u \in Tids \/ u = t
<1> DEFINE n == Len(sent) + 1
<1>1. /\ DOMAIN sent' = DOMAIN sent \cup {n} /\ n \in Nat
      /\ \A i \in DOMAIN sent : sent'[i] = sent[i] /\ i < n /\ i \in Nat
      /\ sent'[n].tid = t /\ sent'[n].version = v /\ sent'[n].update = b
      /\ replied' = replied
  BY PublishSent DEF Base, TypeInv
<1> HIDE DEF n
<1>2. \A i \in DOMAIN sent : sent[i].tid \in Tids
  BY DEF Tids
<1>3. \A u : u \in Tids' <=> u \in Tids \/ u = t
  BY <1>1 DEF Tids
<1>4. SentInv'
  <2>1. ASSUME NEW i \in DOMAIN sent'
        PROVE  /\ sent'[i].version # 0 => sent'[i].version \in versions'
               /\ sent'[i].update => sent'[i].version # 0
    BY <1>1 DEF LogInv, SentInv
  <2>2. ASSUME NEW i \in DOMAIN sent', NEW j \in DOMAIN sent', i < j
        PROVE  /\ sent'[i].tid # sent'[j].tid
               /\ sent'[i].version # 0 /\ sent'[j].version # 0
                    => sent'[i].version < sent'[j].version
    <3>1. i \in DOMAIN sent /\ sent'[i] = sent[i]
      BY <1>1, <2>2
    <3>2. CASE j \in DOMAIN sent
      BY <1>1, <2>2, <3>1, <3>2 DEF LogInv, SentInv
    <3>3. CASE j = n
      BY <1>1, <1>2, <3>1, <3>3 DEF LogInv, SentInv
    <3> QED
      BY <1>1, <3>2, <3>3
  <2> QED
    BY <2>1, <2>2 DEF SentInv
<1>5. ReplyInv'
  <2> SUFFICES ASSUME NEW i \in DOMAIN sent', NEW s \in Shards, replied'[s] < i
               PROVE  Awaited(i, s)'
    BY DEF ReplyInv
  <2>1. CASE i \in DOMAIN sent
    <3>1. Awaited(i, s)
      BY <1>1, <2>1 DEF LogInv, ReplyInv
    <3> QED
      BY <1>1, <1>2, <2>1, <3>1 DEF Awaited, StillAwaits
  <2>2. CASE i = n
    BY <1>1, <2>2 DEF Awaited
  <2> QED
    BY <1>1, <2>1, <2>2
<1>6. AckInv'
  <2>1. \A u \in acked : u \in versions
    BY DEF LogInv, AckInv
  <2>2. ASSUME NEW i \in DOMAIN sent', NEW s \in Shards, replied'[s] < i,
               sent'[i].version # 0, NEW u \in acked'
        PROVE  u < sent'[i].version
    <3>1. CASE i \in DOMAIN sent
      BY <1>1, <2>2, <3>1 DEF LogInv, AckInv
    <3>2. CASE i = n
      BY <1>1, <2>1, <2>2, <3>2
    <3> QED
      BY <1>1, <3>1, <3>2
  <2> QED
    BY <2>1, <2>2 DEF AckInv
<1> QED
  BY <1>3, <1>4, <1>5, <1>6
-----------------------------------------------------------------------------
(* The head of the callbacks, and the rest. *)
LEMMA TailUpdates ==
  ASSUME NEW q \in Seq(Update), q # <<>>, Increasing(q)
  PROVE  /\ Increasing(Tail(q)) /\ Head(q) \in Update
         /\ 1 \in DOMAIN q /\ Head(q) = q[1]
         /\ \A k \in DOMAIN Tail(q) : /\ k + 1 \in DOMAIN q /\ Tail(q)[k] = q[k + 1]
                                      /\ Head(q).version < Tail(q)[k].version
<1> DEFINE r == Tail(q)
<1>1. /\ 1 \in DOMAIN q /\ Head(q) = q[1] /\ Head(q) \in Update /\ r \in Seq(Update)
      /\ \A k \in DOMAIN r : k + 1 \in DOMAIN q /\ r[k] = q[k + 1]
  BY TailElement
<1> HIDE DEF r
<1>2. \A k \in DOMAIN r : k \in Nat /\ k > 0
  BY <1>1
<1>3. \A k \in DOMAIN r : Head(q).version < r[k].version
  BY <1>1, <1>2 DEF Increasing
<1>4. Increasing(r)
  <2> SUFFICES ASSUME NEW i \in DOMAIN r, NEW j \in DOMAIN r, i < j
               PROVE  r[i].version < r[j].version
    BY DEF Increasing
  <2>1. i + 1 < j + 1
    BY <1>2
  <2> QED
    BY <1>1, <2>1 DEF Increasing
<1> QED
  BY <1>1, <1>3, <1>4 DEF r

(* RunOnWrite puts the oldest callback on the log.                         *)
LEMMA RunOnWriteLog ==
  ASSUME Base, LogInv, RunOnWrite
  PROVE  LogInv'
<1> DEFINE cb == Head(on_write)
           luw == log_entry_update_waiting_on
           u == [version |-> cb.version, waiting_on |-> Shards,
                 pg_local_last_complete |-> cb.pg_local_last_complete]
           e == [version |-> cb.version, plan |-> NoPlan, read |-> [c \in Cells |-> {}]]
<1>1. /\ on_write # <<>> /\ on_write' = Tail(on_write)
      /\ luw' = WithOp(luw, cb.tid, u) /\ log' = log \cup {e}
      /\ UNCHANGED <<queueVars, op, next_tid, acked>>
  BY DEF RunOnWrite, ackVars
<1>2. /\ cb \in Update /\ cb.tid \in Nat /\ cb.version \in Nat
      /\ Publish(cb.tid, cb.version, min_last_complete_ondisk, TRUE)
      /\ min_last_complete_ondisk \in Nat
  BY RunOnWritePublishes DEF Base, TypeInv, TypeOK
<1>3. on_write \in Seq(Update)
  BY DEF Base, TypeInv, TypeOK
<1>4. /\ 1 \in DOMAIN on_write /\ cb = on_write[1] /\ Increasing(Tail(on_write))
      /\ \A k \in DOMAIN Tail(on_write) :
           /\ k + 1 \in DOMAIN on_write /\ Tail(on_write)[k] = on_write[k + 1]
           /\ cb.version < Tail(on_write)[k].version
  BY <1>1, <1>3, TailUpdates DEF LogInv, OrderInv
<1>5. e.version = cb.version /\ u.waiting_on = Shards
  OBVIOUS
<1>6. luw'[cb.tid].waiting_on = Shards /\ cb.tid \in DOMAIN luw'
      /\ \A w \in DOMAIN luw : w # cb.tid => w \in DOMAIN luw' /\ luw'[w] = luw[w]
  BY <1>1, <1>5 DEF WithOp
<1>7. \A w : w \in versions' <=> w \in versions \/ w = cb.version
  BY <1>1, <1>5 DEF versions
<1> HIDE DEF cb, u, e
<1>8. /\ cb.version # 0 /\ cb.tid \notin DOMAIN op /\ cb.tid \notin Tids
      /\ \A w \in versions : w < cb.version
  <2>1. cb.version \in Versions(on_write)
    BY <1>4 DEF Versions
  <2> QED
    BY <1>4, <2>1 DEF LogInv, OrderInv, FreshInv, Precede
<1>9. Line' = Line
  BY <1>1, SameLine
<1>10. /\ SentInv' /\ ReplyInv' /\ AckInv'
       /\ \A w : w \in Tids' <=> w \in Tids \/ w = cb.tid
  <2>1. \A w \in Tids : StillAwaits(w)
    BY <1>1, <1>6, <1>8 DEF StillAwaits
  <2> DEFINE v == cb.version  t == cb.tid  r == min_last_complete_ondisk
  <2>2. /\ Publish(t, v, r, TRUE) /\ t \in Nat /\ v \in Nat /\ r \in Nat
        /\ t \notin Tids /\ v # 0 /\ \A w \in versions : w < v
        /\ \A w : w \in versions' <=> w \in versions \/ (w = v /\ v # 0)
        /\ UNCHANGED acked
        /\ t \in DOMAIN luw' /\ luw'[t].waiting_on = Shards
    BY <1>1, <1>2, <1>6, <1>7, <1>8
  <2> HIDE DEF v, t, r
  <2>3. /\ SentInv' /\ ReplyInv' /\ AckInv'
        /\ \A w : w \in Tids' <=> w \in Tids \/ w = t
    BY <2>1, <2>2, PublishLog
  <2> QED
    BY <2>3 DEF t
<1>11. \A v : v \in Versions(on_write') => v \in Versions(on_write) /\ cb.version < v
  BY <1>1, <1>4 DEF Versions
<1>12. \A v \in Ready' : v \in Ready
  <2>1. cb.version \in Versions(on_write)
    BY <1>4 DEF Versions
  <2> QED
    BY <1>7, <1>11, <2>1 DEF Ready
<1>13. BoundInv'
  BY <1>1, <1>9, <1>12 DEF LogInv, BoundInv
<1>14. OrderInv'
  <2>1. Precede(versions', Versions(on_write'))
    BY <1>7, <1>11 DEF Precede, LogInv, OrderInv
  <2>2. \A i \in DOMAIN Line : Precede(Ready', Pend(op[Line[i]]))
    BY <1>12 DEF Precede, LogInv, OrderInv
  <2> QED
    BY <1>1, <1>4, <1>9, <2>1, <2>2 DEF LogInv, OrderInv
<1>15. FreshInv'
  <2>1. \A i \in DOMAIN Line : Line[i] \notin Tids'
    BY <1>8, <1>10, LineTyped DEF LogInv, FreshInv, Base
  <2>2. ASSUME NEW k \in DOMAIN on_write'
        PROVE  on_write'[k].version # 0 /\ on_write'[k].tid \notin DOMAIN op \cup Tids'
    <3>1. /\ k + 1 \in DOMAIN on_write /\ on_write'[k] = on_write[k + 1]
          /\ cb.version < on_write'[k].version
      BY <1>1, <1>4, <2>2
    <3>2. on_write[k + 1].tid = on_write[k + 1].version /\ cb.tid = cb.version
      BY <1>4, <3>1 DEF Base, Safe, OpInv, GoodUpdate
    <3>3. on_write[k + 1].tid # cb.tid
      BY <1>2, <1>3, <3>1, <3>2
    <3> QED
      BY <1>10, <3>1, <3>3 DEF LogInv, FreshInv
  <2>3. ASSUME NEW i \in DOMAIN Line, NEW k \in DOMAIN op[Line[i]].on_write
        PROVE  op[Line[i]].on_write[k].tid \notin DOMAIN op \cup Tids'
    <3>1. cb.version \in Ready
      BY <1>4 DEF Ready, Versions
    <3>2. op[Line[i]].on_write[k].version \in Pend(op[Line[i]])
      BY <2>3 DEF Pend, Versions
    <3>3. cb.version < op[Line[i]].on_write[k].version
      BY <3>1, <3>2 DEF LogInv, OrderInv, Precede
    <3>4. op[Line[i]].on_write[k].tid = op[Line[i]].on_write[k].version
          /\ cb.tid = cb.version
      BY <1>4, <2>3, LineTyped DEF Base, Safe, OpInv, GoodUpdate
    <3> QED
      BY <1>2, <1>10, <2>3, <3>3, <3>4 DEF LogInv, FreshInv
  <2> QED
    BY <1>1, <1>9, <2>1, <2>2, <2>3 DEF FreshInv
<1> QED
  BY <1>10, <1>13, <1>14, <1>15 DEF LogInv
-----------------------------------------------------------------------------
(* What try_reads_to_commit does to the operation it sends and to the log. *)
LEMMA CommitStep ==
  ASSUME Base, try_reads_to_commit
  PROVE  LET t == Line[1]
             o == op[t]
         IN /\ t \in DOMAIN op /\ o \in OpRecord /\ 1 \in DOMAIN Line
            /\ Publish(t, o.version, o.roll_forward_to, FALSE)
            /\ DOMAIN op' = DOMAIN op
            /\ \A u \in DOMAIN op : u # t => op'[u] = op[u]
            /\ op'[t].pending_commit = Shards
            /\ op'[t].on_all_commit = o.on_all_commit
            /\ op'[t].version = o.version
            /\ on_write = <<>> /\ on_write' = o.on_write
            /\ \A w : w \in versions' <=> w \in versions \/ (w = o.version /\ w # 0)
            /\ UNCHANGED <<acked, next_tid, log_entry_update_waiting_on>>
<1> DEFINE t == Head(waiting_reads)
           o == op[t]
           e == [version |-> o.version, plan |-> o.plan, read |-> Read(o)]
<1>1. /\ t = Line[1] /\ 1 \in DOMAIN Line
  BY ReadsToCommitLine DEF Base
<1>2. /\ t \in DOMAIN op /\ o \in OpRecord
      /\ Publish(t, o.version, o.roll_forward_to, FALSE)
  BY ReadsToCommitPublishes DEF Base
<1>3. /\ op' = [op EXCEPT ![t].pending_commit = Shards, ![t].pending_read = {},
                          ![t].remote_read = {}, ![t].on_write = <<>>]
      /\ on_write = <<>> /\ on_write' = o.on_write
      /\ log' = IF o.version = 0 THEN log ELSE log \cup {e}
      /\ UNCHANGED <<acked, next_tid, log_entry_update_waiting_on>>
  BY DEF try_reads_to_commit, ackVars
<1>4. op \in [DOMAIN op -> OpRecord]
  BY TypeOKParts DEF Base, TypeInv
<1>5. /\ DOMAIN op' = DOMAIN op
      /\ \A u \in DOMAIN op : u # t => op'[u] = op[u]
      /\ op'[t].pending_commit = Shards
      /\ op'[t].on_all_commit = o.on_all_commit
      /\ op'[t].version = o.version
  BY <1>2, <1>3, <1>4 DEF OpRecord
<1>6. e.version = o.version
  OBVIOUS
<1> HIDE DEF e
<1>7. \A w : w \in versions' <=> w \in versions \/ (w = o.version /\ w # 0)
  BY <1>3, <1>6 DEF versions
<1> QED
  BY <1>1, <1>2, <1>3, <1>5, <1>7

(* try_reads_to_commit puts the first operation of the line on the log, and *)
(* its callbacks are run.                                                   *)
LEMMA ReadsToCommitLog ==
  ASSUME Base, LogInv, try_reads_to_commit
  PROVE  LogInv'
<1> DEFINE t == Line[1]
           o == op[t]
           v == o.version
           r == o.roll_forward_to
<1>1. /\ t \in DOMAIN op /\ o \in OpRecord /\ 1 \in DOMAIN Line
      /\ Publish(t, v, r, FALSE) /\ DOMAIN op' = DOMAIN op
      /\ \A u \in DOMAIN op : u # t => op'[u] = op[u]
      /\ op'[t].pending_commit = Shards
      /\ op'[t].on_all_commit = o.on_all_commit /\ op'[t].version = v
      /\ on_write = <<>> /\ on_write' = o.on_write
      /\ \A w : w \in versions' <=> w \in versions \/ (w = v /\ w # 0)
      /\ UNCHANGED <<acked, next_tid, log_entry_update_waiting_on>>
  BY CommitStep
<1>2. /\ t \in Nat /\ v \in Nat /\ r \in Nat /\ o.on_write \in Seq(Update)
  BY <1>1, ElementTypes DEF Base
<1> HIDE DEF v, r
<1>3. \A i \in DOMAIN Line' : /\ i + 1 \in DOMAIN Line /\ Line'[i] = Line[i + 1]
                              /\ i \in Nat /\ 1 < i + 1
  BY ReadsToCommitLine DEF Base
<1>4. \A i \in DOMAIN Line' : /\ Line'[i] # t /\ Line'[i] \in DOMAIN op
                              /\ op'[Line'[i]] = op[Line[i + 1]]
  <2> SUFFICES ASSUME NEW i \in DOMAIN Line'
               PROVE  /\ Line'[i] # t /\ Line'[i] \in DOMAIN op
                      /\ op'[Line'[i]] = op[Line[i + 1]]
    OBVIOUS
  <2>1. i + 1 \in DOMAIN Line /\ Line'[i] = Line[i + 1] /\ i + 1 # 1
    BY <1>3
  <2>2. Line[i + 1] # Line[1] /\ Line[i + 1] \in DOMAIN op
    BY <1>1, <2>1, LineTyped DEF Base, Distinct
  <2> QED
    BY <1>1, <2>1, <2>2
<1>5. /\ Increasing(o.on_write) /\ Precede({v}, Versions(o.on_write))
      /\ Precede(Ready, Pend(o)) /\ t \notin Tids
      /\ \A i \in DOMAIN Line' : Precede(Pend(o), Pend(op[Line[i + 1]]))
  BY <1>1, <1>3 DEF LogInv, OrderInv, FreshInv, v
<1>6. /\ \A w : w \in Pend(o) <=> (w = v /\ w # 0) \/ w \in Versions(o.on_write)
      /\ \A w : w \in Ready <=> w \in versions
      /\ \A w : w \in Ready' <=> w \in Ready \/ w \in Pend(o)
  <2>1. \A w : w \in Pend(o) <=> (w = v /\ w # 0) \/ w \in Versions(o.on_write)
    BY DEF Pend, v
  <2>2. \A w : w \in Ready <=> w \in versions
    <3>1. DOMAIN <<>> = {}
      OBVIOUS
    <3> QED
      BY <1>1, <3>1 DEF Ready, Versions
  <2> QED
    BY <1>1, <2>1, <2>2 DEF Ready
<1>7. /\ SentInv' /\ ReplyInv' /\ AckInv'
      /\ \A w : w \in Tids' <=> w \in Tids \/ w = t
  <2>1. \A w \in Tids : StillAwaits(w)
    BY <1>1, <1>5 DEF StillAwaits
  <2>2. \A w \in versions : v # 0 => w < v
    BY <1>5, <1>6 DEF Precede
  <2>3. \A w : w \in versions' <=> w \in versions \/ (w = v /\ v # 0)
    BY <1>1
  <2> HIDE DEF t
  <2> QED
    BY <1>1, <1>2, <1>5, <2>1, <2>2, <2>3, PublishLog
<1>8. BoundInv'
  <2>1. \A w \in Pend(o) : w < next_tid /\ w <= MaxTid
    BY <1>1 DEF LogInv, BoundInv
  <2>2. \A u \in DOMAIN op' : op'[u].on_all_commit => op'[u].version # 0
    BY <1>1 DEF LogInv, BoundInv, v
  <2> QED
    BY <1>1, <1>3, <1>4, <1>6, <2>1, <2>2 DEF LogInv, BoundInv
<1>9. OrderInv'
  <2>1. Precede(versions', Versions(on_write'))
    BY <1>1, <1>5, <1>6 DEF Precede
  <2>2. \A i \in DOMAIN Line' :
          /\ Increasing(op'[Line'[i]].on_write)
          /\ Precede({op'[Line'[i]].version}, Versions(op'[Line'[i]].on_write))
          /\ Precede(Ready', Pend(op'[Line'[i]]))
    BY <1>3, <1>4, <1>5, <1>6 DEF LogInv, OrderInv, Precede
  <2>3. ASSUME NEW i \in DOMAIN Line', NEW j \in DOMAIN Line', i < j
        PROVE  Precede(Pend(op'[Line'[i]]), Pend(op'[Line'[j]]))
    <3>1. i + 1 < j + 1
      BY <1>3, <2>3
    <3> QED
      BY <1>3, <1>4, <2>3, <3>1 DEF LogInv, OrderInv
  <2> QED
    BY <1>1, <1>5, <2>1, <2>2, <2>3 DEF OrderInv
<1>10. FreshInv'
  <2>1. \A i \in DOMAIN Line' : Line'[i] \notin Tids'
    BY <1>3, <1>4, <1>7 DEF LogInv, FreshInv
  <2>2. ASSUME NEW i \in DOMAIN Line, NEW k \in DOMAIN op[Line[i]].on_write
        PROVE  op[Line[i]].on_write[k].tid \notin DOMAIN op \cup Tids'
    BY <1>1, <1>7, <2>2 DEF LogInv, FreshInv
  <2>3. ASSUME NEW k \in DOMAIN o.on_write
        PROVE  o.on_write[k].version # 0
    <3>1. v < o.on_write[k].version /\ o.on_write[k].version \in Nat
      <4>1. o.on_write[k] \in Update
        BY <1>1, <2>3, ElementTypes DEF Base
      <4>2. o.on_write[k].version \in Versions(o.on_write)
        BY <2>3 DEF Versions
      <4> QED
        BY <1>5, <4>1, <4>2 DEF Precede, Update
    <3> QED
      BY <1>2, <3>1
  <2> QED
    BY <1>1, <1>3, <1>4, <2>1, <2>2, <2>3 DEF FreshInv
<1> QED
  BY <1>7, <1>8, <1>9, <1>10 DEF LogInv
-----------------------------------------------------------------------------
(* try_finish_rmw removes an operation that awaits no reply, and may put an *)
(* empty one in front of the line.                                          *)
LEMMA FinishOps ==
  ASSUME Base, try_finish_rmw
  PROVE  LET t == Head(waiting_commit)
             d == Op(next_tid, 0, op[t].version, NoPlan, FALSE)
         IN /\ t \in DOMAIN op /\ op[t].pending_commit = {}
            /\ 1 \in DOMAIN waiting_commit /\ waiting_commit[1] = t
            /\ \/ /\ UNCHANGED <<next_tid, waiting_reads>>
                  /\ DOMAIN op' = DOMAIN op \ {t}
                  /\ \A u \in DOMAIN op' : op'[u] = op[u]
               \/ /\ next_tid' = next_tid + 1 /\ waiting_reads = <<>>
                  /\ DOMAIN op' = (DOMAIN op \ {t}) \cup {next_tid}
                  /\ \A u \in DOMAIN op \ {t} : op'[u] = op[u]
                  /\ op'[next_tid] = d
            /\ UNCHANGED <<waiting_state, on_write, log_entry_update_waiting_on,
                           sent, replied, log, acked>>
<1> DEFINE t == Head(waiting_commit)
           d == Op(next_tid, 0, op[t].version, NoPlan, FALSE)
<1>1. /\ waiting_commit # <<>> /\ op[t].pending_commit = {}
      /\ UNCHANGED <<waiting_state, on_write, log_entry_update_waiting_on,
                     sent, replied, log, acked>>
  BY DEF try_finish_rmw, CanFinishRmw, write_in_progress, wireVars, ackVars
<1>2. Known(waiting_commit)
  BY TypeOKParts DEF Base, TypeInv
<1>3. t \in DOMAIN op /\ t \in Nat /\ 1 \in DOMAIN waiting_commit /\ waiting_commit[1] = t
  BY <1>1, <1>2, TailIndex DEF Known
<1>4. next_tid \in Nat /\ next_tid \notin DOMAIN op
  BY TidBounds
<1>5. \/ op' = Without(op, t) /\ UNCHANGED <<next_tid, waiting_reads>>
      \/ /\ op' = Without(WithOp(op, next_tid, d), t)
         /\ next_tid' = next_tid + 1 /\ waiting_reads = <<>>
  BY DEF try_finish_rmw, KickRollForward
<1> HIDE DEF d, t
<1>6. CASE op' = Without(op, t) /\ UNCHANGED <<next_tid, waiting_reads>>
  BY <1>1, <1>3, <1>6 DEF Without, t
<1>7. CASE /\ op' = Without(WithOp(op, next_tid, d), t)
           /\ next_tid' = next_tid + 1 /\ waiting_reads = <<>>
  <2>1. next_tid # t
    BY <1>3, <1>4
  <2>2. /\ DOMAIN op' = (DOMAIN op \ {t}) \cup {next_tid}
        /\ op'[next_tid] = d /\ \A u \in DOMAIN op \ {t} : op'[u] = op[u]
    BY <1>4, <1>7, <2>1 DEF Without, WithOp
  <2> QED
    BY <1>1, <1>3, <1>7, <2>2 DEF d, t
<1> QED
  BY <1>5, <1>6, <1>7

(* What awaited a reply still does after try_finish_rmw. *)
LEMMA FinishReply ==
  ASSUME Base, LogInv, try_finish_rmw
  PROVE  ReplyInv'
<1> DEFINE t == Head(waiting_commit)
<1>1. /\ op[t].pending_commit = {}
      /\ \A u \in DOMAIN op : u # t => u \in DOMAIN op' /\ op'[u] = op[u]
      /\ UNCHANGED <<log_entry_update_waiting_on, sent, replied>>
  BY FinishOps
<1> HIDE DEF t
<1>2. \A i \in DOMAIN sent, s \in Shards : Awaited(i, s) => Awaited(i, s)'
  BY <1>1 DEF Awaited
<1> QED
  BY <1>1, <1>2, ReplySame DEF LogInv
(* The empty operation in front of the line appends nothing.               *)
LEMMA KickLog ==
  ASSUME Base, LogInv, TypeInv', try_finish_rmw,
         next_tid' = next_tid + 1, Line' \in Seq(Nat),
         \A i \in DOMAIN Line' :
            \/ i = 1 /\ Line'[i] = next_tid
            \/ i > 1 /\ i - 1 \in DOMAIN Line /\ Line'[i] = Line[i - 1]
  PROVE  BoundInv' /\ OrderInv' /\ FreshInv'
<1> DEFINE t == Head(waiting_commit)
           d == Op(next_tid, 0, op[t].version, NoPlan, FALSE)
<1>1. next_tid \in Nat /\ next_tid \notin DOMAIN op \cup Tids
  BY TidBounds
<1>2. /\ DOMAIN op' = (DOMAIN op \ {t}) \cup {next_tid} /\ op'[next_tid] = d
      /\ \A u \in DOMAIN op \ {t} : op'[u] = op[u]
      /\ UNCHANGED <<on_write, sent, log>>
  <2>1. next_tid' # next_tid
    BY <1>1
  <2> QED
    BY <2>1, FinishOps
<1>3. d.version = 0 /\ d.on_write = <<>> /\ d.on_all_commit = FALSE
  BY DEF Op
<1> HIDE DEF d, t
<1>4. DOMAIN d.on_write = {} /\ Versions(d.on_write) = {} /\ Pend(d) = {}
      /\ Increasing(d.on_write)
  <2>1. DOMAIN <<>> = {}
    OBVIOUS
  <2> QED
    BY <1>3, <2>1 DEF Versions, Pend, Increasing
<1>5. ASSUME NEW i \in DOMAIN Line'
      PROVE  \/ i = 1 /\ Line'[i] = next_tid /\ op'[Line'[i]] = d
             \/ /\ i > 1 /\ i - 1 \in DOMAIN Line /\ Line'[i] = Line[i - 1]
                /\ op'[Line'[i]] = op[Line[i - 1]]
  <2>1. CASE i = 1 /\ Line'[i] = next_tid
    BY <1>2, <2>1
  <2>2. CASE i > 1 /\ i - 1 \in DOMAIN Line /\ Line'[i] = Line[i - 1]
    <3>1. Line[i - 1] \in DOMAIN op
      BY <2>2, LineTyped DEF Base
    <3>2. Line'[i] \in DOMAIN op'
      BY <1>5, LineTypedNext DEF LineKnown
    <3> QED
      BY <1>1, <1>2, <2>2, <3>1, <3>2
  <2> QED
    BY <1>5, <2>1, <2>2
<1>6. /\ versions' = versions /\ Ready' = Ready /\ Tids' = Tids
      /\ Versions(on_write') = Versions(on_write) /\ on_write' = on_write
  BY <1>2 DEF versions, Ready, Tids
<1>7. \A i \in DOMAIN Line' : i \in Nat
  OBVIOUS
<1>8. BoundInv'
  <2>1. 0 < next_tid' /\ \A v \in Ready' : v < next_tid' /\ v <= MaxTid
    BY <1>1, <1>6, LineBounds DEF LogInv, Base, BoundInv
  <2>2. \A u \in DOMAIN op' : op'[u].on_all_commit => op'[u].version # 0
    BY <1>2, <1>3 DEF LogInv, BoundInv
  <2>3. ASSUME NEW i \in DOMAIN Line', NEW v \in Pend(op'[Line'[i]])
        PROVE  v < next_tid' /\ v <= MaxTid
    <3>1. i - 1 \in DOMAIN Line /\ v \in Pend(op[Line[i - 1]])
      BY <1>4, <1>5, <2>3
    <3>2. v \in Nat /\ v < next_tid /\ v <= MaxTid
      BY <3>1, LineBounds DEF LogInv, Base, BoundInv
    <3> QED
      BY <1>1, <3>2
  <2> QED
    BY <2>1, <2>2, <2>3 DEF BoundInv
<1>9. OrderInv'
  <2>1. ASSUME NEW i \in DOMAIN Line'
        PROVE  /\ Increasing(op'[Line'[i]].on_write)
               /\ Precede({op'[Line'[i]].version}, Versions(op'[Line'[i]].on_write))
               /\ Precede(Ready, Pend(op'[Line'[i]]))
    <3>1. CASE op'[Line'[i]] = d
      BY <1>4, <3>1 DEF Precede
    <3>2. CASE i - 1 \in DOMAIN Line /\ op'[Line'[i]] = op[Line[i - 1]]
      BY <3>2 DEF LogInv, OrderInv
    <3> QED
      BY <1>5, <3>1, <3>2
  <2>2. ASSUME NEW i \in DOMAIN Line', NEW j \in DOMAIN Line', i < j
        PROVE  Precede(Pend(op'[Line'[i]]), Pend(op'[Line'[j]]))
    <3>1. CASE op'[Line'[i]] = d \/ op'[Line'[j]] = d
      BY <1>4, <3>1 DEF Precede
    <3>2. CASE /\ i - 1 \in DOMAIN Line /\ op'[Line'[i]] = op[Line[i - 1]]
               /\ j - 1 \in DOMAIN Line /\ op'[Line'[j]] = op[Line[j - 1]]
      <4>1. i - 1 < j - 1
        BY <1>7, <2>2
      <4> QED
        BY <3>2, <4>1 DEF LogInv, OrderInv
    <3> QED
      BY <1>5, <3>1, <3>2
  <2> QED
    BY <1>6, <2>1, <2>2 DEF LogInv, OrderInv
<1>10. FreshInv'
  <2>1. \A i \in DOMAIN Line' : Line'[i] \notin Tids
    BY <1>1, <1>5 DEF LogInv, FreshInv
  <2>2. \A k \in DOMAIN on_write :
          on_write[k].version # 0 /\ on_write[k].tid \notin DOMAIN op' \cup Tids
    BY <1>1, <1>2, TidBounds DEF LogInv, FreshInv
  <2>3. ASSUME NEW i \in DOMAIN Line', NEW k \in DOMAIN op'[Line'[i]].on_write
        PROVE  op'[Line'[i]].on_write[k].tid \notin DOMAIN op' \cup Tids
    <3>1. i - 1 \in DOMAIN Line /\ op'[Line'[i]] = op[Line[i - 1]]
      BY <1>4, <1>5, <2>3
    <3>2. op[Line[i - 1]].on_write[k].tid \notin DOMAIN op \cup Tids
      BY <2>3, <3>1 DEF LogInv, FreshInv
    <3>3. op[Line[i - 1]].on_write[k].tid # next_tid
      BY <1>1, <2>3, <3>1, TidBounds, LineTyped DEF Base
    <3> QED
      BY <1>2, <3>1, <3>2, <3>3
  <2> QED
    BY <1>6, <2>1, <2>2, <2>3 DEF FreshInv
<1> QED
  BY <1>8, <1>9, <1>10

(* try_finish_rmw keeps the log's invariant. *)
LEMMA FinishLog ==
  ASSUME Base, LogInv, TypeInv', try_finish_rmw
  PROVE  LogInv'
<1>1. UNCHANGED <<on_write, log, sent, replied, acked>>
  BY FinishOps
<1>2. CASE Line' = Line /\ UNCHANGED next_tid
  <2>1. next_tid' # next_tid + 1
    BY <1>2, TidBounds
  <2>2. SameOps
    BY <2>1, FinishOps DEF SameOps
  <2>3. next_tid <= next_tid'
    BY <1>2, TidBounds
  <2> QED
    BY <1>1, <1>2, <2>2, <2>3, OrderSame, FreshSame, SentSame, AckSame,
       FinishReply DEF Base, LogInv
<1>3. CASE ~(Line' = Line /\ UNCHANGED next_tid)
  <2>1. BoundInv' /\ OrderInv' /\ FreshInv'
    BY <1>3, FinishLine, KickLog DEF Base
  <2> QED
    BY <1>1, <2>1, SentSame, AckSame, FinishReply DEF LogInv
<1> QED
  BY <1>2, <1>3
-----------------------------------------------------------------------------
(* The cursor of a shard that answers.                                     *)
LEMMA ReplyCursor ==
  ASSUME Base, NEW s \in Shards, replied[s] < stored[s],
         replied' = [replied EXCEPT ![s] = @ + 1]
  PROVE  /\ replied[s] + 1 \in DOMAIN sent /\ NextReply(s) = sent[replied[s] + 1]
         /\ replied[s] + 1 \in Nat /\ replied[s] < replied[s] + 1
         /\ \A r \in Shards : /\ replied[r] \in Nat /\ replied'[r] \in Nat
                              /\ replied'[r] = IF r = s THEN replied[s] + 1 ELSE replied[r]
<1>1. replied \in [Shards -> Nat]
  BY DEF Base, TypeInv, TypeOK
<1>2. replied[s] + 1 \in DOMAIN sent /\ NextReply(s) = sent[replied[s] + 1]
  BY NextMessage DEF Base, TypeInv, NextReply
<1> QED
  BY <1>1, <1>2

(* A reply leaves everything awaited but itself. *)
LEMMA RepliedOnce ==
  ASSUME Base, LogInv, NEW s \in Shards, replied[s] < stored[s],
         replied' = [replied EXCEPT ![s] = @ + 1], UNCHANGED sent,
         \A i \in DOMAIN sent, r \in Shards :
            Awaited(i, r) /\ ~(i = replied[s] + 1 /\ r = s) => Awaited(i, r)'
  PROVE  ReplyInv'
<1> SUFFICES ASSUME NEW i \in DOMAIN sent, NEW r \in Shards, replied'[r] < i
             PROVE  Awaited(i, r)'
  BY DEF ReplyInv
<1>1. i \in Nat
  BY ElementTypes DEF Base
<1>2. replied[s] \in Nat /\ replied[r] \in Nat
      /\ replied'[r] = IF r = s THEN replied[s] + 1 ELSE replied[r]
  BY ReplyCursor
<1>3. replied[r] < i /\ ~(i = replied[s] + 1 /\ r = s)
  BY <1>1, <1>2
<1> QED
  BY <1>3 DEF LogInv, ReplyInv

(* A reply that acknowledges nothing. *)
LEMMA AckNone ==
  ASSUME Base, LogInv, NEW s \in Shards, replied[s] < stored[s],
         replied' = [replied EXCEPT ![s] = @ + 1], UNCHANGED <<sent, log, acked>>
  PROVE  AckInv'
<1>1. \A i \in DOMAIN sent, r \in Shards : replied'[r] < i => replied[r] < i
  BY ElementTypes, ReplyCursor DEF Base
<1> QED
  BY <1>1 DEF LogInv, AckInv, versions

(* The reply of the last shard acknowledges the version of its message:     *)
(* every other shard has answered it, so what is not answered is newer.     *)
LEMMA AckStep ==
  ASSUME Base, LogInv, NEW s \in Shards, replied[s] < stored[s],
         replied' = [replied EXCEPT ![s] = @ + 1], UNCHANGED <<sent, log>>,
         NextReply(s).version # 0,
         \A r \in Shards : r # s => ~Awaited(replied[s] + 1, r),
         acked' = acked \cup {NextReply(s).version}
  PROVE  /\ AckInv' /\ NextReply(s).version \in versions
         /\ \A v \in acked : v < NextReply(s).version
<1> DEFINE n == replied[s] + 1
           v == sent[n].version
<1>1. n \in DOMAIN sent /\ v = NextReply(s).version /\ v # 0 /\ n \in Nat
  <2>1. n \in DOMAIN sent /\ n \in Nat
    BY ReplyCursor
  <2>2. v = NextReply(s).version
    BY DEF NextReply
  <2> QED
    BY <2>1, <2>2
<1>2. v \in versions
  BY <1>1 DEF LogInv, SentInv
<1>3. \A w \in acked : w < v
  <2>1. replied[s] < n
    BY ReplyCursor
  <2> HIDE DEF n
  <2> QED
    BY <1>1, <2>1 DEF LogInv, AckInv
<1>4. ASSUME NEW i \in DOMAIN sent, NEW r \in Shards, replied'[r] < i
      PROVE  replied[r] < i /\ n < i
  <2>1. i \in Nat
    BY ElementTypes DEF Base
  <2>2. ~(replied[r] < n) \/ r = s
    BY <1>1 DEF LogInv, ReplyInv
  <2>3. /\ replied[s] \in Nat /\ replied[r] \in Nat
        /\ replied'[r] = IF r = s THEN replied[s] + 1 ELSE replied[r]
    BY ReplyCursor
  <2> QED
    BY <1>1, <1>4, <2>1, <2>2, <2>3
<1> HIDE DEF n
<1>5. ASSUME NEW i \in DOMAIN sent, NEW r \in Shards, replied'[r] < i,
             sent[i].version # 0, NEW w \in acked'
      PROVE  w < sent[i].version
  <2>1. CASE w \in acked
    BY <1>4, <1>5, <2>1 DEF LogInv, AckInv
  <2>2. CASE w = v
    BY <1>1, <1>4, <1>5, <2>2 DEF LogInv, SentInv
  <2> QED
    BY <1>1, <1>5, <2>1, <2>2
<1>6. versions' = versions
  BY DEF versions
<1>7. AckInv'
  <2>1. \A w \in acked' : w \in versions'
    BY <1>1, <1>2, <1>6 DEF LogInv, AckInv
  <2> QED
    BY <1>5, <2>1 DEF AckInv
<1> QED
  BY <1>1, <1>2, <1>3, <1>7
-----------------------------------------------------------------------------
(* What a reply acknowledges, if anything: a version of the log, newer     *)
(* than those acknowledged before.                                         *)
Acknowledges ==
  \/ UNCHANGED acked
  \/ \E v \in versions : acked' = acked \cup {v} /\ \A w \in acked : w < v

(* handle_sub_write_reply keeps the log's invariant. *)
LEMMA ReplyLog ==
  ASSUME Base, LogInv, TypeInv', NEW s \in Shards, handle_sub_write_reply(s)
  PROVE  LogInv' /\ Acknowledges
<1> DEFINE t == NextReply(s).tid
           left == op[t].pending_commit \ {s}
           all == AllCommitted(left) /\ op[t].on_all_commit
           n == replied[s] + 1
<1>1. /\ replied[s] < stored[s] /\ ~NextReply(s).update /\ t \in DOMAIN op
      /\ replied' = [replied EXCEPT ![s] = @ + 1]
      /\ op' = [op EXCEPT ![t].pending_commit = left,
                          ![t].on_all_commit = @ /\ ~all]
      /\ \/ all /\ acked' = acked \cup {op[t].version}
         \/ UNCHANGED acked
      /\ UNCHANGED <<queueVars, on_write, log_entry_update_waiting_on,
                     next_tid, sent, log>>
  BY DEF handle_sub_write_reply, repop_all_committed
<1>2. n \in DOMAIN sent /\ sent[n] = NextReply(s)
  <2>1. n \in DOMAIN sent
    BY <1>1, ReplyCursor
  <2> QED
    BY <2>1 DEF NextReply
<1>3. op \in [DOMAIN op -> OpRecord]
  BY TypeOKParts DEF Base, TypeInv
<1>4. /\ DOMAIN op' = DOMAIN op /\ op'[t].pending_commit = left
      /\ \A u \in DOMAIN op : u # t => op'[u] = op[u]
      /\ op'[t].version = op[t].version /\ op'[t].on_write = op[t].on_write
      /\ op'[t].on_all_commit => op[t].on_all_commit
  <2> HIDE DEF all, left, t
  <2>1. op[t] \in OpRecord
    BY <1>1, <1>3
  <2> QED
    BY <1>1, <1>3, <2>1 DEF OpRecord
<1>5. SameOps
  BY <1>4 DEF SameOps
<1>6. Line' = Line /\ next_tid <= next_tid'
  BY <1>1, SameLine, TidBounds
<1>7. BoundInv' /\ OrderInv' /\ FreshInv' /\ SentInv'
  BY <1>1, <1>5, <1>6, OrderSame, FreshSame, SentSame DEF Base, LogInv
<1>8. ReplyInv'
  <2>1. ASSUME NEW i \in DOMAIN sent, NEW r \in Shards, Awaited(i, r),
               ~(i = n /\ r = s)
        PROVE  Awaited(i, r)'
    <3>1. CASE sent[i].update
      BY <1>1, <2>1, <3>1 DEF Awaited
    <3>2. CASE ~sent[i].update /\ sent[i].tid # t
      BY <1>1, <1>4, <2>1, <3>2 DEF Awaited
    <3>3. CASE ~sent[i].update /\ sent[i].tid = t
      <4>1. i = n
        <5>1. i \in Nat /\ n \in Nat
          BY <1>2, ElementTypes DEF Base
        <5>2. sent[n].tid = sent[i].tid
          BY <1>2, <3>3
        <5> HIDE DEF n, t
        <5> QED
          BY <1>2, <5>1, <5>2 DEF LogInv, SentInv
      <4> QED
        BY <1>1, <1>4, <2>1, <3>3, <4>1 DEF Awaited
    <3> QED
      BY <3>1, <3>2, <3>3
  <2> QED
    BY <1>1, <2>1, RepliedOnce
<1>9. AckInv' /\ Acknowledges
  <2>1. CASE UNCHANGED acked
    BY <1>1, <2>1, AckNone DEF Acknowledges
  <2>2. CASE all /\ acked' = acked \cup {op[t].version}
    <3>1. op[t].version = NextReply(s).version /\ op[t].version # 0
      BY <1>1, <1>2, <2>2 DEF Base, Safe, PendingInv, LogInv, BoundInv
    <3>2. \A r \in Shards : r # s => ~Awaited(n, r)
      BY <1>1, <1>2, <2>2 DEF Awaited, AllCommitted
    <3> HIDE DEF t, all, left
    <3> QED
      BY <1>1, <2>2, <3>1, <3>2, AckStep DEF Acknowledges
  <2> QED
    BY <1>1, <2>1, <2>2
<1> QED
  BY <1>7, <1>8, <1>9 DEF LogInv

(* do_update_log_missing_reply keeps the log's invariant. *)
LEMMA UpdateReplyLog ==
  ASSUME Base, LogInv, TypeInv', NEW s \in Shards, do_update_log_missing_reply(s)
  PROVE  LogInv' /\ Acknowledges
<1> DEFINE t == NextReply(s).tid
           luw == log_entry_update_waiting_on
           u == luw[t]
           left == u.waiting_on \ {s}
           n == replied[s] + 1
<1>1. /\ replied[s] < stored[s] /\ NextReply(s).update /\ t \in DOMAIN luw
      /\ replied' = [replied EXCEPT ![s] = @ + 1]
      /\ \/ left = {} /\ acked' = acked \cup {u.version} /\ luw' = Without(luw, t)
         \/ UNCHANGED acked /\ luw' = [luw EXCEPT ![t].waiting_on = left]
      /\ UNCHANGED <<op, queueVars, on_write, next_tid, sent, log>>
  BY DEF do_update_log_missing_reply, repop_all_committed, AllCommitted
<1>2. n \in DOMAIN sent /\ sent[n] = NextReply(s)
  <2>1. n \in DOMAIN sent
    BY <1>1, ReplyCursor
  <2> QED
    BY <2>1 DEF NextReply
<1>3. luw \in [DOMAIN luw -> Waiting]
  BY DEF Base, TypeInv, TypeOK
<1>4. /\ \A w \in DOMAIN luw : w # t => w \in DOMAIN luw' /\ luw'[w] = luw[w]
      /\ left # {} => t \in DOMAIN luw' /\ luw'[t].waiting_on = left
  <2> HIDE DEF left, t
  <2>1. u \in Waiting
    BY <1>1, <1>3
  <2> QED
    BY <1>1, <1>3, <2>1 DEF Without, Waiting
<1>5. SameOps
  BY <1>1 DEF SameOps
<1>6. Line' = Line /\ next_tid <= next_tid'
  BY <1>1, SameLine, TidBounds
<1>7. BoundInv' /\ OrderInv' /\ FreshInv' /\ SentInv'
  BY <1>1, <1>5, <1>6, OrderSame, FreshSame, SentSame DEF Base, LogInv
<1>8. ReplyInv'
  <2>1. ASSUME NEW i \in DOMAIN sent, NEW r \in Shards, Awaited(i, r),
               ~(i = n /\ r = s)
        PROVE  Awaited(i, r)'
    <3>1. CASE ~sent[i].update
      BY <1>1, <2>1, <3>1 DEF Awaited
    <3>2. CASE sent[i].update /\ sent[i].tid # t
      BY <1>1, <1>4, <2>1, <3>2 DEF Awaited
    <3>3. CASE sent[i].update /\ sent[i].tid = t
      <4>1. i = n
        <5>1. i \in Nat /\ n \in Nat
          BY <1>2, ElementTypes DEF Base
        <5>2. sent[n].tid = sent[i].tid
          BY <1>2, <3>3
        <5> HIDE DEF n, t
        <5> QED
          BY <1>2, <5>1, <5>2 DEF LogInv, SentInv
      <4> QED
        BY <1>1, <1>4, <2>1, <3>3, <4>1 DEF Awaited
    <3> QED
      BY <3>1, <3>2, <3>3
  <2> QED
    BY <1>1, <2>1, RepliedOnce
<1>9. AckInv' /\ Acknowledges
  <2>1. CASE UNCHANGED acked
    BY <1>1, <2>1, AckNone DEF Acknowledges
  <2>2. CASE left = {} /\ acked' = acked \cup {u.version}
    <3>1. u.version = NextReply(s).version /\ u.version # 0
      BY <1>1, <1>2 DEF Base, Safe, UpdateInv, WireInv, LogInv, SentInv
    <3>2. \A r \in Shards : r # s => ~Awaited(n, r)
      BY <1>1, <1>2, <2>2 DEF Awaited
    <3> HIDE DEF t, u, left
    <3> QED
      BY <1>1, <2>2, <3>1, <3>2, AckStep DEF Acknowledges
  <2> QED
    BY <1>1, <2>1, <2>2
<1> QED
  BY <1>7, <1>8, <1>9 DEF LogInv
-----------------------------------------------------------------------------
(* on_change: nothing is under way, the log is cut off behind the head of   *)
(* the log that wins, and no acknowledged version is behind it.             *)
LEMMA ChangeLog ==
  ASSUME Base, LogInv, NEW h \in {0} \cup {e.version : e \in log}, on_change(h)
  PROVE  /\ LogInv' /\ UNCHANGED acked /\ h \in 0..MaxTid
         /\ versions' = {v \in versions : v <= h}
         /\ \A v \in acked : v \in versions'
<1>1. /\ op' = <<>> /\ waiting_state' = <<>> /\ waiting_reads' = <<>>
      /\ sent' = <<>> /\ on_write = <<>>
      /\ log' = {e \in log : e.version <= h}
      /\ UNCHANGED <<on_write, next_tid, acked>>
      /\ PossibleHead(h)
  BY DEF on_change, LockFree
<1>2. DOMAIN <<>> = {} /\ <<>> \o <<>> = <<>>
  OBVIOUS
<1>3. /\ DOMAIN op' = {} /\ DOMAIN sent' = {} /\ DOMAIN on_write' = {}
      /\ DOMAIN Line' = {} /\ Versions(on_write) = {} /\ Versions(on_write') = {}
  BY <1>1, <1>2 DEF Line, Versions
<1>4. versions' = {v \in versions : v <= h}
  BY <1>1 DEF versions
<1>5. h \in Nat /\ h <= MaxTid
  <2>1. h \in Nat
    BY VersionNat DEF Base, TypeInv
  <2>2. h = 0 \/ h \in Ready
    BY DEF Ready, versions
  <2>3. 0 <= MaxTid
    OBVIOUS
  <2> QED
    BY <2>1, <2>2, <2>3 DEF LogInv, BoundInv
<1>6. \A v \in acked : v \in versions'
  <2>1. PICK s \in Shards : ondisk[s] <= h
    BY <1>1 DEF PossibleHead
  <2>2. \A v \in acked : v \in versions /\ v <= ondisk[s]
    BY DEF LogInv, AckInv, Base, Safe, CommittedInv, Committed
  <2>3. \A v \in versions : v \in Nat
    BY LineBounds DEF Ready, Base, LogInv
  <2>4. ondisk[s] \in Nat
    BY ElementTypes DEF Base
  <2>5. \A v \in acked : v <= h
    BY <1>5, <2>1, <2>2, <2>3, <2>4
  <2> QED
    BY <1>4, <2>2, <2>5
<1>7. BoundInv'
  BY <1>1, <1>3, <1>4 DEF LogInv, BoundInv, Ready
<1>8. OrderInv' /\ FreshInv' /\ SentInv' /\ ReplyInv'
  BY <1>3 DEF OrderInv, FreshInv, SentInv, ReplyInv, Increasing, Precede
<1>9. AckInv'
  BY <1>1, <1>3, <1>6 DEF AckInv
<1> QED
  BY <1>1, <1>4, <1>5, <1>6, <1>7, <1>8, <1>9 DEF LogInv

(* The initial state. *)
LEMMA InitLog == Init => LogInv
<1> SUFFICES ASSUME Init PROVE LogInv
  OBVIOUS
<1>1. DOMAIN <<>> = {} /\ <<>> \o <<>> = <<>>
  OBVIOUS
<1>2. /\ DOMAIN op = {} /\ DOMAIN sent = {} /\ DOMAIN on_write = {}
      /\ DOMAIN Line = {} /\ log = {} /\ acked = {} /\ next_tid = 1
      /\ Versions(on_write) = {} /\ versions = {}
  BY <1>1 DEF Init, Line, Versions, versions
<1>3. BoundInv /\ OrderInv
  BY <1>2 DEF BoundInv, OrderInv, Ready, Increasing, Precede
<1>4. FreshInv /\ SentInv /\ ReplyInv /\ AckInv
  BY <1>2 DEF FreshInv, SentInv, ReplyInv, AckInv
<1> QED
  BY <1>3, <1>4 DEF LogInv

(* Every step keeps the invariant, and maps to a step of CommitLog.        *)
LEMMA NextLog ==
  ASSUME Base, LogInv, TypeInv', [Next]_vars
  PROVE  LogInv' /\ [Log!Next]_<<versions, acked>>
<1>1. ASSUME UNCHANGED <<log, acked>> PROVE UNCHANGED <<versions, acked>>
  BY <1>1 DEF versions
<1>2. ASSUME NEW p \in Plans, submit_transaction(p)
      PROVE  LogInv' /\ UNCHANGED <<log, acked>>
  BY <1>2, SubmitLog DEF submit_transaction, ackVars
<1>3. CASE submit_log_entries
  BY <1>1, <1>3, LogEntriesLog DEF submit_log_entries, ackVars
<1>4. CASE RunOnWrite
  <2>1. LogInv'
    BY <1>4, RunOnWriteLog
  <2>2. on_write \in Seq(Update) /\ on_write # <<>> /\ Increasing(on_write)
    BY <1>4 DEF Base, TypeInv, TypeOK, RunOnWrite, LogInv, OrderInv
  <2>3. Head(on_write).version \in Versions(on_write)
    BY <2>2, TailUpdates DEF Versions
  <2>4. /\ Log!Above(Head(on_write).version, versions)
        /\ Head(on_write).version \in 0..MaxTid
    <3>1. Head(on_write).version \in Ready
      BY <2>3 DEF Ready
    <3> QED
      BY <2>3, <3>1, LineBounds
         DEF Log!Above, LogInv, OrderInv, Precede, BoundInv, Base
  <2>5. versions' = versions \cup {Head(on_write).version} /\ UNCHANGED acked
    <3> DEFINE e == [version |-> Head(on_write).version, plan |-> NoPlan,
                     read |-> [c \in Cells |-> {}]]
    <3>1. log' = log \cup {e} /\ UNCHANGED acked
      BY <1>4 DEF RunOnWrite, ackVars
    <3>2. e.version = Head(on_write).version
      OBVIOUS
    <3> HIDE DEF e
    <3> QED
      BY <3>1, <3>2 DEF versions
  <2> QED
    BY <2>1, <2>4, <2>5 DEF Log!Next, Log!Append
<1>5. CASE try_state_to_reads
  BY <1>1, <1>5, StateToReadsLog DEF try_state_to_reads, ackVars
<1>6. CASE try_reads_to_commit
  <2> DEFINE v == op[Line[1]].version
  <2>1. LogInv'
    BY <1>6, ReadsToCommitLog
  <2>2. /\ \A w : w \in versions' <=> w \in versions \/ (w = v /\ w # 0)
        /\ UNCHANGED acked /\ 1 \in DOMAIN Line
    BY <1>6, CommitStep
  <2>3. CASE v = 0
    <3>1. versions' = versions
      BY <2>2, <2>3
    <3> QED
      BY <2>1, <2>2, <3>1
  <2>4. CASE v # 0
    <3>1. v \in Pend(op[Line[1]])
      BY <2>4 DEF Pend
    <3>2. Log!Above(v, versions) /\ v \in 0..MaxTid
      BY <2>2, <3>1, LineBounds
         DEF Log!Above, LogInv, OrderInv, Precede, BoundInv, Base, Ready
    <3>3. versions' = versions \cup {v}
      BY <2>2, <2>4
    <3> HIDE DEF v
    <3> QED
      BY <2>1, <2>2, <3>2, <3>3 DEF Log!Next, Log!Append
  <2> QED
    BY <2>3, <2>4
<1>7. CASE try_finish_rmw
  BY <1>1, <1>7, FinishLog DEF try_finish_rmw, ackVars
<1>8. CASE check_ops_done
  BY <1>1, <1>8, ShardLog DEF check_ops_done, ackVars
<1>9. ASSUME NEW t \in DOMAIN op, NEW v, RemoteReadDone(t, v)
      PROVE  LogInv' /\ UNCHANGED <<log, acked>>
  BY <1>9, RemoteReadLog DEF RemoteReadDone, ackVars
<1>10. ASSUME NEW s \in Shards, handle_sub_write(s) \/ sub_write_committed(s)
       PROVE  LogInv' /\ UNCHANGED <<log, acked>>
  BY <1>10, ShardLog DEF handle_sub_write, sub_write_committed, ackVars
<1>11. ASSUME NEW s \in Shards,
              handle_sub_write_reply(s) \/ do_update_log_missing_reply(s)
       PROVE  LogInv' /\ [Log!Next]_<<versions, acked>>
  <2>1. LogInv' /\ Acknowledges
    BY <1>11, ReplyLog, UpdateReplyLog
  <2>2. versions' = versions
    BY <1>11 DEF versions, handle_sub_write_reply, do_update_log_missing_reply
  <2>3. ASSUME NEW v \in versions, acked' = acked \cup {v}, \A w \in acked : w < v
        PROVE  Log!Next
    <3>1. v \in 0..MaxTid
      BY LineBounds DEF Ready, LogInv, BoundInv, Base
    <3>2. Log!Acknowledge(v)
      BY <2>2, <2>3 DEF Log!Acknowledge, Log!Above
    <3> QED
      BY <3>1, <3>2 DEF Log!Next
  <2> QED
    BY <2>1, <2>2, <2>3 DEF Acknowledges
<1>12. ASSUME NEW h \in {0} \cup {e.version : e \in log}, on_change(h)
       PROVE  LogInv' /\ Log!Next
  <2>1. LogInv' /\ h \in 0..MaxTid
    BY <1>12, ChangeLog
  <2>2. Log!CutOff(h)
    BY <1>12, ChangeLog DEF Log!CutOff
  <2> QED
    BY <2>1, <2>2 DEF Log!Next
<1>13. CASE UNCHANGED vars
  BY <1>1, <1>13, ShardLog DEF vars, ackVars
<1> QED
  BY <1>1, <1>2, <1>3, <1>4, <1>5, <1>6, <1>7, <1>8, <1>9, <1>10, <1>11,
     <1>12, <1>13 DEF Next

(* The log's invariant holds in every reachable state. *)
THEOREM LogInvariant == Spec => [](Base /\ LogInv)
<1>1. Init => LogInv
  BY InitLog
<1>2. Base /\ Base' /\ LogInv /\ [Next]_vars => LogInv'
  <2> SUFFICES ASSUME Base, Base', LogInv, [Next]_vars PROVE LogInv'
    OBVIOUS
  <2> QED
    BY NextLog DEF Base
<1>3. TypeInv /\ CursorInv /\ Safe <=> Base
  BY DEF Base
<1> QED
  BY <1>1, <1>2, <1>3, SafeInvariant, PTL DEF Spec

(* The assertions of the reply handlers never fail (ECBackend.cc,          *)
(* handle_sub_write_reply: i != tid_to_op_map.end(), pending_commit holds  *)
(* the shard; do_update_log_missing_reply finds the tid and the shard).    *)
THEOREM RepliesAreExpected == Spec => []RepliesExpected
<1>1. Base /\ LogInv => RepliesExpected
  <2> SUFFICES ASSUME Base, LogInv, NEW s \in Shards, replied[s] < stored[s]
               PROVE  LET m == NextReply(s)
                      IN IF m.update
                         THEN /\ m.tid \in DOMAIN log_entry_update_waiting_on
                              /\ s \in log_entry_update_waiting_on[m.tid].waiting_on
                         ELSE m.tid \in DOMAIN op /\ s \in op[m.tid].pending_commit
    BY DEF RepliesExpected
  <2>1. replied[s] + 1 \in DOMAIN sent
    BY NextMessage DEF Base, TypeInv
  <2>2. replied[s] \in Nat
    BY ElementTypes DEF Base
  <2>3. Awaited(replied[s] + 1, s)
    BY <2>1, <2>2 DEF LogInv, ReplyInv
  <2> QED
    BY <2>3 DEF Awaited, NextReply
<1> QED
  BY <1>1, LogInvariant, PTL

(* The pipeline implements CommitLog: versions reach the log and are       *)
(* acknowledged in order, each once, and a change of interval loses none   *)
(* that was acknowledged.                                                  *)
THEOREM WritesLogged == Spec => WritesAreLogged
<1>1. Init => Log!Init
  BY DEF Init, Log!Init, versions
<1>2. (Base /\ LogInv) /\ (Base /\ LogInv)' /\ [Next]_vars
        => [Log!Next]_<<versions, acked>>
  <2> SUFFICES ASSUME Base, LogInv, Base', [Next]_vars
               PROVE  [Log!Next]_<<versions, acked>>
    OBVIOUS
  <2> QED
    BY NextLog DEF Base
<1> QED
  BY <1>1, <1>2, LogInvariant, PTL DEF Spec, WritesAreLogged, Log!Spec, Log!vars
-----------------------------------------------------------------------------
(***************************************************************************)
(* The extent cache of the write pipeline: a read-modify-write sees every  *)
(* earlier write of what it reads and no other (ReadsLatest), and outside  *)
(* check_ops the pipeline is never stuck and leaves nothing behind         *)
(* (PipelineDrains), for any number of shards, cells, plans and tids.      *)
(*                                                                         *)
(* The argument: the operations that are under way stand in one pipe,      *)
(* those of waiting_commit (the first Sent) in front of those of           *)
(* waiting_reads.  A cell that an operation of the pipe writes through the *)
(* cache is pinned by that operation or by one behind it (PinInv), so it   *)
(* stays in the cache until the last of them is finished.  As long as the  *)
(* cache is valid every operation of the pipe uses it and wipes nothing,   *)
(* and a cell that a sent one wrote has its newest content there; what an  *)
(* operation reads from the shards is not written by any operation between *)
(* the start of the read and its turn (ReadInv).                           *)
(***************************************************************************)

Pipe == waiting_commit \o waiting_reads
Sent == Len(waiting_commit)

Touched(pl)  == pl.will_write \cup pl.wipes
Now(c)       == {e.version : e \in {x \in log : c \in Touched(x.plan)}}
Cached(o)    == o.using_cache /\ o.plan.wipes = {}
Writes(o, c) == o.using_cache /\ c \in o.plan.will_write

DrainInv ==
  /\ 0 < next_tid /\ \A t \in DOMAIN op : 0 < t
  /\ cache_invalid => Pipe # <<>>
  /\ ~checking => waiting_state = <<>> \/ cache_invalid
  /\ \A t \in DOMAIN op : \/ \E i \in DOMAIN waiting_state : t = waiting_state[i]
                          \/ \E i \in DOMAIN Pipe : t = Pipe[i]

PinInv ==
  /\ \A c \in Cells : cache[c].pin = 0 => cache[c] = Unpinned
  /\ \A c \in Cells : cache[c].pin # 0 =>
       \E k \in DOMAIN Pipe : cache[c].pin = Pipe[k] /\ Writes(op[Pipe[k]], c)
  /\ \A c \in Cells, j \in DOMAIN Pipe : Writes(op[Pipe[j]], c) =>
       \E k \in DOMAIN Pipe : j <= k /\ cache[c].pin = Pipe[k]

(* What the operation of place j reads: from the shards since read_from, or *)
(* from the cache when its turn comes.                                      *)
ReadsRight(j) ==
  LET o == op[Pipe[j]]
  IN /\ o.plan.to_read = o.pending_read \cup o.remote_read
     /\ o.plan.to_read # {} =>
          /\ o.using_cache
          /\ \A i \in DOMAIN Pipe : Sent < i /\ i < j => Cached(op[Pipe[i]])
     /\ o.read_done => o.read_from <= o.read_at
     /\ \A c \in o.remote_read :
          /\ \A i \in DOMAIN Pipe :
               Sent < i /\ i < j => c \notin op[Pipe[i]].plan.will_write
          /\ \A e \in log : e.version > o.read_from => c \notin Touched(e.plan)
     /\ \A c \in o.pending_read :
          \/ cache[c].content = Now(c)
          \/ \E i \in DOMAIN Pipe : /\ Sent < i /\ i < j
                                    /\ c \in op[Pipe[i]].plan.will_write

ReadInv ==
  /\ ~cache_invalid =>
       \A j \in DOMAIN Pipe :
         /\ Cached(op[Pipe[j]])
         /\ j <= Sent => \A c \in op[Pipe[j]].plan.will_write :
                           cache[c].content = Now(c)
  /\ \A j \in DOMAIN Pipe : Sent < j => ReadsRight(j)

(* The primary has handled what it sent, and has the log's head.           *)
HeadInv ==
  /\ handled[Primary] = Len(sent)
  /\ \A e \in log : e.version <= head[Primary]

PlanInv ==
  /\ \A t \in DOMAIN op : /\ op[t].version = 0 => op[t].plan = NoPlan
                          /\ op[t].plan.to_read \subseteq op[t].plan.will_write
  /\ \A i \in DOMAIN waiting_state : ~op[waiting_state[i]].read_done

CacheInv == DrainInv /\ PinInv /\ ReadInv /\ HeadInv /\ PlanInv /\ ReadsLatest

-----------------------------------------------------------------------------
(* The pipe holds operations of tid_to_op_map, each once, and none that    *)
(* waits for its turn.                                                     *)
LEMMA PipeTyped ==
  ASSUME TypeInv
  PROVE  /\ Pipe \in Seq(Nat) /\ waiting_commit \in Seq(Nat)
         /\ waiting_reads \in Seq(Nat) /\ waiting_state \in Seq(Nat) /\ Sent \in Nat
         /\ \A i \in DOMAIN Pipe : Pipe[i] \in DOMAIN op /\ i \in Nat
         /\ Distinct(Pipe)
         /\ \A i \in DOMAIN waiting_state, j \in DOMAIN Pipe : waiting_state[i] # Pipe[j]
<1>1. Known(waiting_commit) /\ Known(waiting_reads) /\ Known(waiting_state)
  BY TypeOKParts DEF TypeInv
<1>2. Distinct(Pipe)
  <2>1. Apart(waiting_commit, waiting_reads)
    BY <1>1, ApartSym DEF TypeInv, QueueInv, Known
  <2> QED
    BY <1>1, <2>1, ConcatDistinct DEF TypeInv, QueueInv, Known, Pipe
<1>3. Pipe \in Seq(Nat)
  BY <1>1, ConcatIndex DEF Known, Pipe
<1>4. \A i \in DOMAIN Pipe : i \in Nat
  BY <1>3
<1>5. \A i \in DOMAIN Pipe : Pipe[i] \in DOMAIN op
  BY <1>1, ConcatIndex DEF Known, Pipe
<1>6. \A i \in DOMAIN waiting_state, j \in DOMAIN Pipe : waiting_state[i] # Pipe[j]
  BY <1>1, ConcatIndex DEF Known, Pipe, TypeInv, QueueInv, Apart
<1>7. Sent \in Nat
  BY <1>1 DEF Known, Sent
<1> QED
  BY <1>1, <1>2, <1>3, <1>4, <1>5, <1>6, <1>7 DEF Known

(* A place of one of the two queues is a place of the pipe.                *)
LEMMA PipeOf ==
  ASSUME TypeInv
  PROVE  /\ \A i \in DOMAIN waiting_commit : i \in DOMAIN Pipe /\ Pipe[i] = waiting_commit[i] /\ i <= Sent
         /\ \A i \in DOMAIN waiting_reads : Sent + i \in DOMAIN Pipe /\ Pipe[Sent + i] = waiting_reads[i]
                                            /\ Sent < Sent + i
         /\ waiting_commit = <<>> /\ waiting_reads = <<>> <=> Pipe = <<>>
         /\ DOMAIN Pipe = {} <=> Pipe = <<>>
<1>1. waiting_commit \in Seq(Nat) /\ waiting_reads \in Seq(Nat)
  BY PipeTyped
<1> DEFINE q == waiting_commit  r == waiting_reads
<1>2. /\ \A i \in DOMAIN q : i \in DOMAIN (q \o r) /\ (q \o r)[i] = q[i] /\ i <= Len(q)
      /\ \A i \in DOMAIN r : Len(q) + i \in DOMAIN (q \o r)
                             /\ (q \o r)[Len(q) + i] = r[i] /\ Len(q) < Len(q) + i
  BY <1>1
<1>3. q = <<>> /\ r = <<>> <=> q \o r = <<>>
  BY <1>1, ConcatEqualIffEmpty
<1>4. DOMAIN (q \o r) = {} <=> q \o r = <<>>
  <2>1. Pipe \in Seq(Nat) /\ Pipe = q \o r
    BY PipeTyped DEF Pipe
  <2>2. DOMAIN Pipe = {} => Len(Pipe) = 0
    BY <2>1
  <2>3. Len(Pipe) = 0 => Pipe = <<>>
    BY <2>1, EmptySeq
  <2>4. Pipe = <<>> => DOMAIN Pipe = {}
    OBVIOUS
  <2> QED
    BY <2>1, <2>2, <2>3, <2>4
<1> QED
  BY <1>2, <1>3, <1>4 DEF Pipe, Sent
-----------------------------------------------------------------------------
(* What the steps do to the pipe.  try_state_to_reads appends, the sending *)
(* of the first that was not sent moves the boundary only, try_finish_rmw  *)
(* takes the first.                                                        *)
LEMMA StateToReadsPipe ==
  ASSUME TypeInv, try_state_to_reads
  PROVE  LET t == Head(waiting_state)
         IN /\ 1 \in DOMAIN waiting_state /\ waiting_state[1] = t
            /\ t \in DOMAIN op /\ t \in Nat
            /\ Pipe' = Append(Pipe, t) /\ Sent' = Sent
            /\ DOMAIN Pipe' = DOMAIN Pipe \cup {Len(Pipe) + 1}
            /\ Pipe'[Len(Pipe) + 1] = t /\ Len(Pipe) \in Nat
            /\ \A i \in DOMAIN Pipe : Pipe'[i] = Pipe[i] /\ i <= Len(Pipe) /\ i \in Nat
            /\ Sent <= Len(Pipe)
            /\ waiting_state' = Tail(waiting_state)
            /\ \A i \in DOMAIN waiting_state : i = 1 \/ i - 1 \in DOMAIN waiting_state'
            /\ \A i \in DOMAIN waiting_state' : /\ i + 1 \in DOMAIN waiting_state
                                                /\ waiting_state'[i] = waiting_state[i + 1]
<1> DEFINE t == Head(waiting_state)
<1>1. /\ waiting_state # <<>> /\ waiting_reads' = Append(waiting_reads, t)
      /\ waiting_commit' = waiting_commit /\ waiting_state' = Tail(waiting_state)
  BY DEF try_state_to_reads, CanStateToReads
<1>2. /\ waiting_commit \in Seq(Nat) /\ waiting_reads \in Seq(Nat)
      /\ waiting_state \in Seq(Nat) /\ Pipe \in Seq(Nat)
  BY PipeTyped
<1>3. 1 \in DOMAIN waiting_state /\ waiting_state[1] = t /\ t \in Nat
  BY <1>1, <1>2, TailIndex
<1>4. t \in DOMAIN op
  BY <1>3, TypeOKParts DEF TypeInv, Known
<1>5. \A i \in DOMAIN waiting_state' : /\ i + 1 \in DOMAIN waiting_state
                                       /\ waiting_state'[i] = waiting_state[i + 1]
  BY <1>1, <1>2, TailIndex
<1>6. \A i \in DOMAIN waiting_state : i = 1 \/ i - 1 \in DOMAIN waiting_state'
  BY <1>1, <1>2
<1> HIDE DEF t
<1>7. Pipe' = Append(Pipe, t) /\ Sent' = Sent
  BY <1>1, <1>2, <1>3, ConcatMoves DEF Pipe, Sent
<1>8. /\ DOMAIN Pipe' = DOMAIN Pipe \cup {Len(Pipe) + 1}
      /\ Pipe'[Len(Pipe) + 1] = t /\ Len(Pipe) \in Nat
      /\ \A i \in DOMAIN Pipe : Pipe'[i] = Pipe[i] /\ i <= Len(Pipe) /\ i \in Nat
  BY <1>2, <1>3, <1>7, AppendElement
<1>9. Sent <= Len(Pipe)
  <2>1. Len(Pipe) = Len(waiting_commit) + Len(waiting_reads)
        /\ Len(waiting_commit) \in Nat /\ Len(waiting_reads) \in Nat
    BY <1>2, ConcatProperties DEF Pipe
  <2> QED
    BY <2>1 DEF Sent
<1> QED
  BY <1>1, <1>3, <1>4, <1>5, <1>6, <1>7, <1>8, <1>9 DEF t

(* try_reads_to_commit moves the boundary behind the operation it sends.   *)
LEMMA ReadsToCommitPipe ==
  ASSUME TypeInv, try_reads_to_commit
  PROVE  /\ Pipe' = Pipe /\ Sent' = Sent + 1 /\ Sent \in Nat
         /\ Sent + 1 \in DOMAIN Pipe /\ Pipe[Sent + 1] = Head(waiting_reads)
<1> DEFINE t == Head(waiting_reads)
<1>1. /\ waiting_reads # <<>> /\ waiting_reads' = Tail(waiting_reads)
      /\ waiting_commit' = Append(waiting_commit, t)
  BY DEF try_reads_to_commit, CanReadsToCommit
<1>2. waiting_commit \in Seq(Nat) /\ waiting_reads \in Seq(Nat) /\ 0 \in Nat
  BY PipeTyped
<1>3. Pipe' = Pipe
  BY <1>1, <1>2, ConcatMoves DEF Pipe
<1>4. Sent' = Sent + 1 /\ Sent \in Nat
  <2>1. t \in Nat
    BY <1>1, <1>2, TailIndex
  <2> HIDE DEF t
  <2> QED
    BY <1>1, <1>2, <2>1 DEF Sent
<1>5. 1 \in DOMAIN waiting_reads /\ waiting_reads[1] = t
  BY <1>1, <1>2, TailIndex
<1> QED
  BY <1>3, <1>4, <1>5, PipeOf

(* try_finish_rmw takes the first; when it was the only one, an empty      *)
(* operation may follow.                                                   *)
LEMMA FinishPipe ==
  ASSUME Base, try_finish_rmw
  PROVE  LET t == Head(waiting_commit)
         IN /\ 1 \in DOMAIN Pipe /\ Pipe[1] = t /\ 1 <= Sent
            /\ \/ /\ Pipe' = Tail(Pipe) /\ Sent' = Sent - 1
                  /\ next_tid' = next_tid /\ DOMAIN op' = DOMAIN op \ {t}
                  /\ \A i \in DOMAIN Pipe' : /\ i + 1 \in DOMAIN Pipe /\ i \in Nat
                                             /\ i + 1 # 1 /\ Pipe'[i] = Pipe[i + 1]
                  /\ \A i \in DOMAIN Pipe : i = 1 \/ i - 1 \in DOMAIN Pipe'
               \/ /\ DOMAIN Pipe = {1} /\ Pipe' = <<next_tid>> /\ Sent' = 0
                  /\ next_tid' = next_tid + 1
            /\ cache_invalid' = (cache_invalid /\ Pipe' # <<>>)
            /\ waiting_state' = waiting_state
<1> DEFINE t == Head(waiting_commit)
<1>1. /\ waiting_commit # <<>> /\ waiting_commit' = Tail(waiting_commit)
      /\ waiting_state' = waiting_state
      /\ \/ UNCHANGED <<waiting_reads, next_tid>>
         \/ /\ waiting_reads = <<>> /\ Tail(waiting_commit) = <<>>
            /\ waiting_reads' = Append(waiting_reads, next_tid)
            /\ next_tid' = next_tid + 1
      /\ cache_invalid' = (cache_invalid /\ ~(waiting_reads' = <<>> /\ waiting_commit' = <<>>))
  BY DEF try_finish_rmw, CanFinishRmw, KickRollForward, PipelineEmpty
<1>2. /\ waiting_commit \in Seq(Nat) /\ waiting_reads \in Seq(Nat) /\ 0 \in Nat
      /\ Pipe \in Seq(Nat) /\ next_tid \in Nat
  BY PipeTyped, TidBounds DEF Base
<1>3. 1 \in DOMAIN Pipe /\ Pipe[1] = t /\ 1 <= Sent
  <2>1. 1 \in DOMAIN waiting_commit /\ waiting_commit[1] = t
    BY <1>1, <1>2, TailIndex
  <2> QED
    BY <2>1, PipeOf DEF Base
<1>4. (waiting_reads' = <<>> /\ waiting_commit' = <<>>) <=> Pipe' = <<>>
  <2>1. waiting_commit' \in Seq(Nat) /\ waiting_reads' \in Seq(Nat)
    BY <1>1, <1>2, AppendElement, TailIndex
  <2> QED
    BY <2>1, ConcatEqualIffEmpty DEF Pipe
<1>5. CASE UNCHANGED <<waiting_reads, next_tid>>
  <2>1. Pipe' = Tail(Pipe) /\ Pipe # <<>>
    BY <1>1, <1>2, <1>5, ConcatMoves DEF Pipe
  <2>2. Sent' = Sent - 1
    BY <1>1, <1>2 DEF Sent
  <2>3. DOMAIN op' = DOMAIN op \ {t}
    <3>1. next_tid' # next_tid + 1
      BY <1>2, <1>5
    <3> QED
      BY <3>1, FinishOps
  <2>4. \A i \in DOMAIN Pipe' : /\ i + 1 \in DOMAIN Pipe /\ i \in Nat
                                /\ i + 1 # 1 /\ Pipe'[i] = Pipe[i + 1]
    BY <1>2, <2>1, TailElement, TailIndex
  <2>5. \A i \in DOMAIN Pipe : i = 1 \/ i - 1 \in DOMAIN Pipe'
    BY <1>2, <2>1
  <2> QED
    BY <1>1, <1>3, <1>4, <1>5, <2>1, <2>2, <2>3, <2>4, <2>5
<1>6. CASE /\ waiting_reads = <<>> /\ Tail(waiting_commit) = <<>>
           /\ waiting_reads' = Append(waiting_reads, next_tid)
           /\ next_tid' = next_tid + 1
  <2>1. Pipe = waiting_commit /\ Pipe' = <<next_tid>> /\ Sent' = 0
    <3>1. waiting_commit' = <<>> /\ waiting_reads' = <<next_tid>>
      BY <1>1, <1>6
    <3>2. <<next_tid>> \in Seq(Nat) /\ Len(<<>>) = 0
      BY <1>2
    <3>3. waiting_commit \o <<>> = waiting_commit /\ <<>> \o <<next_tid>> = <<next_tid>>
      BY <1>2, <3>2, ConcatEmptySeq
    <3> QED
      BY <1>6, <3>1, <3>2, <3>3 DEF Pipe, Sent
  <2>2. DOMAIN Pipe = {1}
    <3>0. Len(<<>>) = 0
      OBVIOUS
    <3>1. Len(Tail(waiting_commit)) = 0
      BY <1>6, <3>0
    <3>2. Len(waiting_commit) = 1
      BY <1>1, <1>2, <3>1, HeadTailProperties, LenProperties
    <3> QED
      BY <1>2, <2>1, <3>2
  <2> QED
    BY <1>1, <1>3, <1>4, <1>6, <2>1, <2>2
<1> QED
  BY <1>1, <1>5, <1>6

(* The other steps but on_change leave the pipe alone.                     *)
LEMMA SamePipe ==
  ASSUME UNCHANGED <<waiting_commit, waiting_reads>>
  PROVE  Pipe' = Pipe /\ Sent' = Sent
  BY DEF Pipe, Sent
-----------------------------------------------------------------------------
(* Steps that leave the pipe and what its operations write alone.          *)
SameWrites ==
  /\ Pipe' = Pipe
  /\ \A i \in DOMAIN Pipe : /\ op'[Pipe[i]].plan = op[Pipe[i]].plan
                            /\ op'[Pipe[i]].using_cache = op[Pipe[i]].using_cache

(* What was appended to the log touches no cell. *)
NothingTouched ==
  /\ \A c \in Cells : Now(c)' = Now(c)
  /\ \A e \in log' : e \in log \/ Touched(e.plan) = {}

(* The log stays, or gets an entry that touches no cell. *)
LEMMA Untouched ==
  /\ UNCHANGED log => NothingTouched
  /\ \A e : log' = log \cup {e} /\ Touched(e.plan) = {} => NothingTouched
<1>1. UNCHANGED log => NothingTouched
  BY DEF NothingTouched, Now
<1>2. ASSUME NEW e, log' = log \cup {e}, Touched(e.plan) = {}
      PROVE  NothingTouched
  <2>1. \A c \in Cells : Now(c)' = Now(c)
    BY <1>2 DEF Now
  <2> QED
    BY <1>2, <2>1 DEF NothingTouched
<1> QED
  BY <1>1, <1>2

(* The pins stay with the pipe. *)
LEMMA PinSame ==
  ASSUME PinInv, SameWrites, UNCHANGED cache
  PROVE  PinInv'
<1>1. \A i \in DOMAIN Pipe, c \in Cells :
        Writes(op'[Pipe[i]], c) <=> Writes(op[Pipe[i]], c)
  BY DEF SameWrites, Writes
<1> QED
  BY <1>1 DEF PinInv, SameWrites

(* What an operation of the pipe reads stays right. *)
LEMMA ReadsSame ==
  ASSUME SameWrites, NothingTouched, Sent' = Sent, UNCHANGED cache,
         NEW j \in DOMAIN Pipe, ReadsRight(j),
         op[Pipe[j]].pending_read \subseteq Cells,
         op'[Pipe[j]].pending_read = op[Pipe[j]].pending_read,
         op'[Pipe[j]].remote_read = op[Pipe[j]].remote_read,
         op'[Pipe[j]].read_from = op[Pipe[j]].read_from,
         op'[Pipe[j]].read_done => op'[Pipe[j]].read_from <= op'[Pipe[j]].read_at
  PROVE  ReadsRight(j)'
<1> DEFINE o == op[Pipe[j]]
           n == op'[Pipe[j]]
<1>1. /\ n.plan = o.plan /\ n.using_cache = o.using_cache
      /\ n.pending_read = o.pending_read /\ n.remote_read = o.remote_read
      /\ n.read_from = o.read_from
      /\ n.read_done => n.read_from <= n.read_at
  BY DEF SameWrites
<1>2. \A i \in DOMAIN Pipe : /\ op'[Pipe[i]].plan = op[Pipe[i]].plan
                             /\ Cached(op'[Pipe[i]]) <=> Cached(op[Pipe[i]])
  BY DEF SameWrites, Cached
<1>3. /\ Pipe' = Pipe /\ Sent' = Sent
      /\ \A c \in o.pending_read : Now(c)' = Now(c) /\ cache'[c] = cache[c]
      /\ \A e \in log' : e \in log \/ Touched(e.plan) = {}
  BY DEF SameWrites, NothingTouched
<1>4. /\ o.plan.to_read = o.pending_read \cup o.remote_read
      /\ o.plan.to_read # {} =>
           /\ o.using_cache
           /\ \A i \in DOMAIN Pipe : Sent < i /\ i < j => Cached(op[Pipe[i]])
      /\ \A c \in o.remote_read :
           /\ \A i \in DOMAIN Pipe :
                Sent < i /\ i < j => c \notin op[Pipe[i]].plan.will_write
           /\ \A e \in log : e.version > o.read_from => c \notin Touched(e.plan)
      /\ \A c \in o.pending_read :
           \/ cache[c].content = Now(c)
           \/ \E i \in DOMAIN Pipe : /\ Sent < i /\ i < j
                                     /\ c \in op[Pipe[i]].plan.will_write
  BY DEF ReadsRight
<1> HIDE DEF o, n
<1>5. /\ n.plan.to_read = n.pending_read \cup n.remote_read
      /\ n.plan.to_read # {} =>
           /\ n.using_cache
           /\ \A i \in DOMAIN Pipe : Sent < i /\ i < j => Cached(op'[Pipe[i]])
  BY <1>1, <1>2, <1>4
<1>6. \A c \in n.remote_read :
           /\ \A i \in DOMAIN Pipe :
                Sent < i /\ i < j => c \notin op'[Pipe[i]].plan.will_write
           /\ \A e \in log' : e.version > n.read_from => c \notin Touched(e.plan)
  BY <1>1, <1>2, <1>3, <1>4
<1>7. \A c \in n.pending_read :
           \/ cache'[c].content = Now(c)'
           \/ \E i \in DOMAIN Pipe : /\ Sent < i /\ i < j
                                     /\ c \in op'[Pipe[i]].plan.will_write
  BY <1>1, <1>2, <1>3, <1>4
<1>8. op'[Pipe'[j]] = n
  BY <1>3 DEF n
<1> QED
  BY <1>1, <1>3, <1>5, <1>6, <1>7, <1>8 DEF ReadsRight
-----------------------------------------------------------------------------
(* Steps that leave what the operations read alone, but for the end of a   *)
(* remote read, which saw a version of that time or later.                 *)
SameReads ==
  \A u \in DOMAIN op :
    /\ u \in DOMAIN op'
    /\ op'[u].version = op[u].version /\ op'[u].plan = op[u].plan
    /\ op'[u].using_cache = op[u].using_cache
    /\ op'[u].pending_read = op[u].pending_read
    /\ op'[u].remote_read = op[u].remote_read
    /\ op'[u].read_from = op[u].read_from
    /\ \/ op'[u].read_done = op[u].read_done /\ op'[u].read_at = op[u].read_at
       \/ /\ op'[u].read_from <= op'[u].read_at
          /\ \A i \in DOMAIN waiting_state : waiting_state[i] # u

(* The pins and the reads stay right while nothing moves in the pipe.      *)
LEMMA QuietReads ==
  ASSUME TypeInv, PinInv, ReadInv, SameReads, NothingTouched,
         UNCHANGED <<waiting_commit, waiting_reads, cache, cache_invalid>>
  PROVE  PinInv' /\ ReadInv'
<1>1. Pipe' = Pipe /\ Sent' = Sent
  BY SamePipe
<1>2. \A i \in DOMAIN Pipe : /\ Pipe[i] \in DOMAIN op /\ op[Pipe[i]] \in OpRecord
  BY PipeTyped, ElementTypes
<1>3. SameWrites
  BY <1>1, <1>2 DEF SameReads, SameWrites
<1>4. PinInv'
  BY <1>3, PinSame
<1>5. ASSUME NEW j \in DOMAIN Pipe, Sent < j
      PROVE  ReadsRight(j)'
  <2> DEFINE n == op'[Pipe[j]]
             o == op[Pipe[j]]
  <2>1. o \in OpRecord /\ Pipe[j] \in DOMAIN op
    BY <1>2
  <2>2. ReadsRight(j)
    BY <1>5 DEF ReadInv
  <2>3. o.read_done => o.read_from <= o.read_at
    BY <2>2 DEF ReadsRight
  <2>4. /\ n.pending_read = o.pending_read /\ n.remote_read = o.remote_read
        /\ n.read_from = o.read_from
        /\ \/ n.read_done = o.read_done /\ n.read_at = o.read_at
           \/ n.read_from <= n.read_at
    BY <2>1 DEF SameReads
  <2>5. o.pending_read \subseteq Cells
    BY <2>1 DEF OpRecord
  <2>6. n.read_done => n.read_from <= n.read_at
    BY <2>3, <2>4
  <2> QED
    BY <1>1, <1>3, <2>2, <2>4, <2>5, <2>6, ReadsSame
<1>6. ASSUME ~cache_invalid, NEW j \in DOMAIN Pipe
      PROVE  /\ Cached(op'[Pipe[j]])
             /\ j <= Sent => \A c \in op'[Pipe[j]].plan.will_write :
                               cache'[c].content = Now(c)'
  <2>1. /\ Cached(op[Pipe[j]])
        /\ j <= Sent => \A c \in op[Pipe[j]].plan.will_write :
                          cache[c].content = Now(c)
    BY <1>6 DEF ReadInv
  <2>2. op'[Pipe[j]].plan = op[Pipe[j]].plan
        /\ op'[Pipe[j]].using_cache = op[Pipe[j]].using_cache
    BY <1>3 DEF SameWrites
  <2>3. op[Pipe[j]].plan.will_write \subseteq Cells
    BY <1>2 DEF OpRecord, PlanSet
  <2> QED
    BY <2>1, <2>2, <2>3 DEF Cached, NothingTouched
<1> QED
  BY <1>1, <1>4, <1>5, <1>6 DEF ReadInv

(* The plans, while no operation comes or goes.                            *)
LEMMA QuietPlan ==
  ASSUME TypeInv, PlanInv, SameReads, DOMAIN op' = DOMAIN op,
         UNCHANGED waiting_state
  PROVE  PlanInv'
<1>1. \A i \in DOMAIN waiting_state : waiting_state[i] \in DOMAIN op
  BY TypeOKParts DEF TypeInv, Known
<1>2. ASSUME NEW i \in DOMAIN waiting_state PROVE ~op'[waiting_state[i]].read_done
  BY <1>1 DEF SameReads, PlanInv
<1>3. \A t \in DOMAIN op : op'[t].version = op[t].version /\ op'[t].plan = op[t].plan
  BY DEF SameReads
<1> QED
  BY <1>2, <1>3 DEF PlanInv

(* A step that moves nothing in the queues, the cache and the log.         *)
LEMMA QuietCache ==
  ASSUME TypeInv, CacheInv, SameReads, DOMAIN op' = DOMAIN op,
         UNCHANGED <<queueVars, cache, cache_invalid, log, sent>>,
         handled'[Primary] = handled[Primary], head'[Primary] = head[Primary],
         next_tid \in Nat, next_tid' \in Nat, next_tid <= next_tid',
         checking' = checking \/ checking' \/ waiting_state = <<>> \/ cache_invalid
  PROVE  CacheInv'
<1>1. UNCHANGED <<waiting_state, waiting_reads, waiting_commit>>
  BY DEF queueVars
<1>2. PinInv' /\ ReadInv'
  BY <1>1, Untouched, QuietReads DEF CacheInv
<1>3. PlanInv'
  BY <1>1, QuietPlan DEF CacheInv
<1>4. Pipe' = Pipe
  BY <1>1, SamePipe
<1>5. DrainInv'
  <2>1. 0 < next_tid'
    BY DEF CacheInv, DrainInv
  <2> QED
    BY <1>1, <1>4, <2>1 DEF CacheInv, DrainInv
<1>6. HeadInv'
  BY DEF CacheInv, HeadInv
<1>7. ReadsLatest'
  BY DEF CacheInv, ReadsLatest, Content
<1> QED
  BY <1>2, <1>3, <1>5, <1>6, <1>7 DEF CacheInv

(* The steps of the shards, and the stuttering one.                        *)
LEMMA ShardCache ==
  ASSUME Base, CacheInv,
         \/ check_ops_done \/ UNCHANGED vars
         \/ \E s \in Shards : handle_sub_write(s) \/ sub_write_committed(s)
  PROVE  CacheInv'
<1>1. /\ UNCHANGED <<queueVars, op, cache, cache_invalid, log, sent, next_tid>>
  BY DEF check_ops_done, handle_sub_write, sub_write_committed, wireVars,
         ackVars, vars
<1>2. handled'[Primary] = handled[Primary] /\ head'[Primary] = head[Primary]
  <2>1. CASE check_ops_done \/ UNCHANGED vars
    BY <2>1 DEF check_ops_done, wireVars, shardVars, vars
  <2>2. ASSUME NEW s \in Shards, handle_sub_write(s)
        PROVE  handled'[Primary] = handled[Primary] /\ head'[Primary] = head[Primary]
    <3>1. s # Primary
      <4>1. handled[s] < Len(sent) /\ handled[Primary] = Len(sent)
        BY <2>2 DEF handle_sub_write, CacheInv, HeadInv
      <4>2. handled[s] \in Nat
        BY DEF Base, TypeInv, TypeOK
      <4> QED
        BY <4>1, <4>2
    <3>2. PICK h : head' = [head EXCEPT ![s] = h]
                   /\ handled' = [handled EXCEPT ![s] = @ + 1]
      BY <2>2 DEF handle_sub_write
    <3>3. handled \in [Shards -> Nat] /\ head \in [Shards -> Nat]
      BY DEF Base, TypeInv, TypeOK
    <3> QED
      BY <3>1, <3>2, <3>3
  <2>3. ASSUME NEW s \in Shards, sub_write_committed(s)
        PROVE  handled'[Primary] = handled[Primary] /\ head'[Primary] = head[Primary]
    BY <2>3 DEF sub_write_committed
  <2> QED
    BY <2>1, <2>2, <2>3
<1>3. checking' = checking \/ waiting_state = <<>> \/ cache_invalid
  BY DEF check_ops_done, CanStateToReads, handle_sub_write, sub_write_committed, vars
<1>4. next_tid \in Nat /\ next_tid' \in Nat /\ next_tid <= next_tid'
  BY <1>1, TidBounds
<1>5. SameReads
  BY <1>1 DEF SameReads
<1> QED
  BY <1>1, <1>2, <1>3, <1>4, <1>5, QuietCache DEF Base
(* The end of a remote read: it saw a version of that time or later.       *)
LEMMA RemoteReadCache ==
  ASSUME Base, CacheInv, NEW t \in DOMAIN op, NEW v, RemoteReadDone(t, v)
  PROVE  CacheInv'
<1>1. /\ op' = [op EXCEPT ![t].read_done = TRUE, ![t].read_at = v]
      /\ op[t].read_from <= v /\ checking'
      /\ UNCHANGED <<queueVars, cache, cache_invalid, log, sent, handled, head, next_tid>>
  BY DEF RemoteReadDone, wireVars, shardVars
<1>2. op \in [DOMAIN op -> OpRecord]
  BY TypeOKParts DEF Base, TypeInv
<1>3. \A i \in DOMAIN waiting_state : waiting_state[i] # t
  <2>1. PICK j \in DOMAIN waiting_reads : t = waiting_reads[j]
    BY DEF RemoteReadDone, Range
  <2> QED
    BY <2>1 DEF Base, TypeInv, QueueInv, Apart
<1>4. DOMAIN op' = DOMAIN op
      /\ \A u \in DOMAIN op :
           /\ op'[u].version = op[u].version /\ op'[u].plan = op[u].plan
           /\ op'[u].using_cache = op[u].using_cache
           /\ op'[u].pending_read = op[u].pending_read
           /\ op'[u].remote_read = op[u].remote_read
           /\ op'[u].read_from = op[u].read_from
           /\ \/ op'[u].read_done = op[u].read_done /\ op'[u].read_at = op[u].read_at
              \/ u = t /\ op'[u].read_at = v
  <2>1. ASSUME NEW u \in DOMAIN op, u # t PROVE op'[u] = op[u]
    BY <1>1, <2>1
  <2>2. /\ op'[t].version = op[t].version /\ op'[t].plan = op[t].plan
        /\ op'[t].using_cache = op[t].using_cache
        /\ op'[t].pending_read = op[t].pending_read
        /\ op'[t].remote_read = op[t].remote_read
        /\ op'[t].read_from = op[t].read_from
        /\ op'[t].read_at = v
    BY <1>1, <1>2 DEF OpRecord
  <2>3. DOMAIN op' = DOMAIN op
    BY <1>1
  <2> QED
    BY <2>1, <2>2, <2>3
<1>5. SameReads
  <2>1. op'[t].read_from <= op'[t].read_at
    BY <1>1, <1>2 DEF OpRecord
  <2> QED
    BY <1>3, <1>4, <2>1 DEF SameReads
<1> QED
  BY <1>1, <1>4, <1>5, TidBounds, QuietCache DEF Base

(* An operation that only learns which shards have committed.              *)
LEMMA ReplyCache ==
  ASSUME Base, CacheInv, NEW s \in Shards,
         handle_sub_write_reply(s) \/ do_update_log_missing_reply(s)
  PROVE  CacheInv'
<1>1. /\ UNCHANGED <<queueVars, cache, cache_invalid, log, sent, handled, head, next_tid>>
      /\ checking' = checking \/ checking'
  BY DEF handle_sub_write_reply, do_update_log_missing_reply, shardVars
<1>2. op \in [DOMAIN op -> OpRecord]
  BY TypeOKParts DEF Base, TypeInv
<1>3. SameReads /\ DOMAIN op' = DOMAIN op
  <2>1. CASE handle_sub_write_reply(s)
    <3>1. PICK t, l, a : op' = [op EXCEPT ![t].pending_commit = l,
                                          ![t].on_all_commit = a]
      BY <2>1 DEF handle_sub_write_reply
    <3>2. DOMAIN op' = DOMAIN op
          /\ \A u \in DOMAIN op :
               /\ op'[u].version = op[u].version /\ op'[u].plan = op[u].plan
               /\ op'[u].using_cache = op[u].using_cache
               /\ op'[u].pending_read = op[u].pending_read
               /\ op'[u].remote_read = op[u].remote_read
               /\ op'[u].read_from = op[u].read_from
               /\ op'[u].read_done = op[u].read_done /\ op'[u].read_at = op[u].read_at
      BY <1>2, <3>1 DEF OpRecord
    <3> QED
      BY <3>2 DEF SameReads
  <2>2. CASE do_update_log_missing_reply(s)
    BY <2>2 DEF do_update_log_missing_reply, SameReads
  <2> QED
    BY <2>1, <2>2
<1> QED
  BY <1>1, <1>3, TidBounds, QuietCache DEF Base

(* submit_log_entries hangs a callback on an operation, or runs it.        *)
LEMMA LogEntriesCache ==
  ASSUME Base, CacheInv, submit_log_entries
  PROVE  CacheInv'
<1>1. /\ UNCHANGED <<queueVars, cache, cache_invalid, log, sent, handled, head, checking>>
      /\ next_tid' = next_tid + 1
  BY DEF submit_log_entries, wireVars, shardVars
<1>2. op \in [DOMAIN op -> OpRecord]
  BY TypeOKParts DEF Base, TypeInv
<1>3. SameReads /\ DOMAIN op' = DOMAIN op
  <2>1. CASE UNCHANGED op
    BY <2>1 DEF SameReads
  <2>2. CASE \E t, cb : op' = [op EXCEPT ![t].on_write = Append(@, cb)]
    <3>1. PICK t, q : op' = [op EXCEPT ![t].on_write = q]
      BY <2>2
    <3>2. DOMAIN op' = DOMAIN op
          /\ \A u \in DOMAIN op :
               /\ op'[u].version = op[u].version /\ op'[u].plan = op[u].plan
               /\ op'[u].using_cache = op[u].using_cache
               /\ op'[u].pending_read = op[u].pending_read
               /\ op'[u].remote_read = op[u].remote_read
               /\ op'[u].read_from = op[u].read_from
               /\ op'[u].read_done = op[u].read_done /\ op'[u].read_at = op[u].read_at
      BY <1>2, <3>1 DEF OpRecord
    <3> QED
      BY <3>2 DEF SameReads
  <2> QED
    BY <2>1, <2>2 DEF submit_log_entries, call_write_ordered
<1>4. next_tid \in Nat /\ next_tid' \in Nat /\ next_tid <= next_tid'
  BY <1>1, TidBounds
<1> QED
  BY <1>1, <1>3, <1>4, QuietCache DEF Base

(* submit_transaction: one more operation that waits for its turn.         *)
LEMMA SubmitCache ==
  ASSUME Base, CacheInv, NEW p \in Plans, submit_transaction(p)
  PROVE  CacheInv'
<1> DEFINE t == next_tid
           o == Op(t, t, RollForwardTo, p, TRUE)
<1>1. /\ op' = WithOp(op, t, o) /\ next_tid' = t + 1 /\ checking'
      /\ waiting_state' = Append(waiting_state, t)
      /\ UNCHANGED <<waiting_reads, waiting_commit, cache, cache_invalid, log, sent,
                     handled, head>>
  BY DEF submit_transaction, wireVars, shardVars
<1>2. /\ o.version = t /\ o.plan = p /\ ~o.read_done
  BY DEF Op
<1>3. p.to_read \subseteq p.will_write
  OBVIOUS
<1>4. t \in Nat /\ t \notin DOMAIN op /\ 0 < t
  BY TidBounds DEF CacheInv, DrainInv
<1> HIDE DEF o
<1>5. /\ DOMAIN op' = DOMAIN op \cup {t} /\ op'[t] = o
      /\ \A u \in DOMAIN op : op'[u] = op[u]
  <2> HIDE DEF t
  <2> QED
    BY <1>1, <1>4 DEF WithOp
<1>6. /\ DOMAIN waiting_state' = DOMAIN waiting_state \cup {Len(waiting_state) + 1}
      /\ waiting_state'[Len(waiting_state) + 1] = t
      /\ \A i \in DOMAIN waiting_state : /\ waiting_state'[i] = waiting_state[i]
                                         /\ waiting_state[i] \in DOMAIN op
  <2>1. waiting_state \in Seq(Nat)
    BY PipeTyped DEF Base
  <2>2. \A i \in DOMAIN waiting_state : waiting_state[i] \in DOMAIN op
    BY TypeOKParts DEF Base, TypeInv, Known
  <2> HIDE DEF t
  <2> QED
    BY <1>1, <1>4, <2>1, <2>2, AppendElement
<1> HIDE DEF t
<1>7. PinInv' /\ ReadInv'
  <2>1. SameReads
    BY <1>5 DEF SameReads
  <2> QED
    BY <1>1, <2>1, Untouched, QuietReads DEF CacheInv, Base
<1>8. PlanInv'
  <2>1. ASSUME NEW u \in DOMAIN op'
        PROVE  /\ op'[u].version = 0 => op'[u].plan = NoPlan
               /\ op'[u].plan.to_read \subseteq op'[u].plan.will_write
    <3>1. CASE u = t
      BY <1>2, <1>3, <1>4, <1>5, <3>1
    <3>2. CASE u \in DOMAIN op
      BY <1>5, <3>2 DEF CacheInv, PlanInv
    <3> QED
      BY <1>5, <2>1, <3>1, <3>2
  <2>2. ASSUME NEW i \in DOMAIN waiting_state'
        PROVE  ~op'[waiting_state'[i]].read_done
    BY <1>2, <1>5, <1>6, <2>2 DEF CacheInv, PlanInv
  <2> QED
    BY <2>1, <2>2 DEF PlanInv
<1>9. DrainInv'
  <2>1. Pipe' = Pipe
    BY <1>1, SamePipe
  <2>2. 0 < next_tid' /\ \A u \in DOMAIN op' : 0 < u
    BY <1>1, <1>4, <1>5 DEF CacheInv, DrainInv
  <2>3. \A u \in DOMAIN op' : \/ \E i \in DOMAIN waiting_state' : u = waiting_state'[i]
                              \/ \E i \in DOMAIN Pipe : u = Pipe[i]
    <3> SUFFICES ASSUME NEW u \in DOMAIN op'
                 PROVE  \/ \E i \in DOMAIN waiting_state' : u = waiting_state'[i]
                        \/ \E i \in DOMAIN Pipe : u = Pipe[i]
      OBVIOUS
    <3>1. CASE u = t
      BY <1>6, <3>1
    <3>2. CASE u \in DOMAIN op
      <4>1. \/ \E i \in DOMAIN waiting_state : u = waiting_state[i]
            \/ \E i \in DOMAIN Pipe : u = Pipe[i]
        BY <3>2 DEF CacheInv, DrainInv
      <4> QED
        BY <1>6, <4>1
    <3> QED
      BY <1>5, <3>1, <3>2
  <2> QED
    BY <1>1, <2>1, <2>2, <2>3 DEF CacheInv, DrainInv
<1>10. HeadInv' /\ ReadsLatest'
  BY <1>1 DEF CacheInv, HeadInv, ReadsLatest, Content
<1> QED
  BY <1>7, <1>8, <1>9, <1>10 DEF CacheInv
-----------------------------------------------------------------------------
(* Sending moves the head and what the primary has handled together.       *)
LEMMA PublishHead ==
  ASSUME TypeOK, HeadInv, NEW t \in Nat, NEW v \in Nat, NEW r \in Nat,
         NEW b \in BOOLEAN, Publish(t, v, r, b),
         \A e \in log' : e \in log \/ e.version = v
  PROVE  HeadInv'
<1> DEFINE m == [tid |-> t, version |-> v, roll_forward_to |-> r,
                 head |-> Larger(head[Primary], v), update |-> b]
<1>1. /\ sent \in Seq(Message) /\ handled \in [Shards -> Nat]
      /\ head \in [Shards -> Nat] /\ head[Primary] \in Nat
      /\ \A e \in log : e.version \in Nat
  BY VersionNat DEF TypeOK
<1>2. /\ sent' = Append(sent, m)
      /\ handled' = [handled EXCEPT ![Primary] = @ + 1]
      /\ head' = [head EXCEPT ![Primary] = Larger(head[Primary], v)]
  BY DEF Publish
<1>3. m \in Message
  <2>1. Larger(head[Primary], v) \in Nat
    BY <1>1 DEF Larger
  <2> QED
    BY <2>1 DEF Message
<1> HIDE DEF m
<1>4. Len(sent') = Len(sent) + 1 /\ handled'[Primary] = handled[Primary] + 1
  BY <1>1, <1>2, <1>3
<1>5. head'[Primary] = Larger(head[Primary], v)
  BY <1>1, <1>2
<1>6. head[Primary] <= Larger(head[Primary], v) /\ v <= Larger(head[Primary], v)
      /\ Larger(head[Primary], v) \in Nat
  BY <1>1 DEF Larger
<1>7. \A e \in log' : e.version <= Larger(head[Primary], v)
  BY <1>1, <1>6 DEF HeadInv
<1> QED
  BY <1>4, <1>5, <1>7 DEF HeadInv

(* A log update appends to the log and touches no cell.                    *)
LEMMA RunOnWriteCache ==
  ASSUME Base, CacheInv, RunOnWrite
  PROVE  CacheInv'
<1> DEFINE cb == Head(on_write)
           e == [version |-> cb.version, plan |-> NoPlan, read |-> [c \in Cells |-> {}]]
<1>1. /\ log' = log \cup {e}
      /\ UNCHANGED <<queueVars, op, cache, cache_invalid, checking, next_tid>>
  BY DEF RunOnWrite
<1>2. /\ cb.tid \in Nat /\ cb.version \in Nat
      /\ Publish(cb.tid, cb.version, min_last_complete_ondisk, TRUE)
      /\ min_last_complete_ondisk \in Nat
  BY RunOnWritePublishes DEF Base, TypeInv, TypeOK
<1>3. e.version = cb.version /\ Touched(e.plan) = {} /\ e.plan.to_read = {}
  BY DEF Touched, NoPlan
<1> HIDE DEF e
<1>4. UNCHANGED <<waiting_state, waiting_reads, waiting_commit>>
  BY <1>1 DEF queueVars
<1>5. HeadInv'
  BY <1>1, <1>2, <1>3, PublishHead DEF Base, TypeInv, CacheInv
<1>6. SameReads
  BY <1>1 DEF SameReads
<1>7. PinInv' /\ ReadInv'
  BY <1>1, <1>3, <1>4, <1>6, Untouched, QuietReads DEF CacheInv, Base
<1>8. PlanInv'
  BY <1>1, <1>4 DEF CacheInv, PlanInv
<1>9. DrainInv'
  <2>1. Pipe' = Pipe
    BY <1>4, SamePipe
  <2> QED
    BY <1>1, <1>4, <2>1 DEF CacheInv, DrainInv
<1>10. ReadsLatest'
  <2> SUFFICES ASSUME NEW x \in log', NEW c \in x.plan.to_read
               PROVE  x.read[c] = Content(c, x.version)' \ {x.version}
    BY DEF ReadsLatest
  <2>1. x \in log
    BY <1>1, <1>3
  <2>2. c \notin e.plan.will_write \cup e.plan.wipes
    BY <1>3 DEF Touched
  <2>3. Content(c, x.version)' = Content(c, x.version)
    BY <1>1, <2>2 DEF Content
  <2>4. x.read[c] = Content(c, x.version) \ {x.version}
    BY <2>1 DEF CacheInv, ReadsLatest
  <2> QED
    BY <2>3, <2>4
<1> QED
  BY <1>5, <1>7, <1>8, <1>9, <1>10 DEF CacheInv
-----------------------------------------------------------------------------
(* try_finish_rmw releases what the operation still pins and nothing else. *)
LEMMA FinishCells ==
  ASSUME Base, CacheInv, try_finish_rmw
  PROVE  LET t == Pipe[1]
         IN /\ \A c \in Cells :
                 cache'[c] = IF cache[c].pin = t THEN Unpinned ELSE cache[c]
            /\ \A u \in DOMAIN op : u # t => u \in DOMAIN op' /\ op'[u] = op[u]
            /\ UNCHANGED <<log, sent, handled, head>> /\ checking'
            /\ t \in DOMAIN op /\ 1 \in DOMAIN Pipe
<1> DEFINE t == Pipe[1]
<1>1. 1 \in DOMAIN Pipe /\ t = Head(waiting_commit)
  BY FinishPipe
<1>2. /\ t \in DOMAIN op
      /\ \A u \in DOMAIN op : u # t => u \in DOMAIN op' /\ op'[u] = op[u]
  <2> HIDE DEF t
  <2> QED
    BY <1>1, FinishOps
<1>3. /\ cache' = IF op[t].using_cache THEN Released({t}) ELSE cache
      /\ UNCHANGED <<log, sent, handled, head>> /\ checking'
  BY <1>1 DEF try_finish_rmw, wireVars, shardVars
<1>4. cache \in [Cells -> CacheEntry]
  BY DEF Base, TypeInv, TypeOK
<1>5. CASE op[t].using_cache
  BY <1>1, <1>2, <1>3, <1>5 DEF Released
<1>6. CASE ~op[t].using_cache
  <2>1. ASSUME NEW c \in Cells PROVE cache[c].pin # t
    <3>1. t # 0
      BY <1>2 DEF CacheInv, DrainInv
    <3>2. cache[c].pin # 0 => \E k \in DOMAIN Pipe : /\ cache[c].pin = Pipe[k]
                                                     /\ op[Pipe[k]].using_cache
      BY DEF CacheInv, PinInv, Writes
    <3> QED
      BY <1>6, <3>1, <3>2
  <2> QED
    BY <1>1, <1>2, <1>3, <1>6, <2>1
<1> QED
  BY <1>5, <1>6

(* When another operation follows, every place of the pipe moves up.       *)
LEMMA FinishShift ==
  ASSUME Base, CacheInv, try_finish_rmw,
         Sent' = Sent - 1, 1 <= Sent,
         \A i \in DOMAIN Pipe' : i + 1 \in DOMAIN Pipe /\ i \in Nat
                                 /\ i + 1 # 1 /\ Pipe'[i] = Pipe[i + 1],
         \A i \in DOMAIN Pipe : i = 1 \/ i - 1 \in DOMAIN Pipe'
  PROVE  PinInv' /\ \A j \in DOMAIN Pipe' : Sent' < j => ReadsRight(j)'
<1> DEFINE t == Pipe[1]
<1>1. /\ \A c \in Cells : cache'[c] = IF cache[c].pin = t THEN Unpinned ELSE cache[c]
      /\ \A u \in DOMAIN op : u # t => u \in DOMAIN op' /\ op'[u] = op[u]
      /\ UNCHANGED log /\ t \in DOMAIN op /\ 1 \in DOMAIN Pipe
  BY FinishCells
<1>2. /\ Pipe \in Seq(Nat) /\ Sent \in Nat /\ Distinct(Pipe)
      /\ \A i \in DOMAIN Pipe : Pipe[i] \in DOMAIN op /\ i \in Nat
  BY PipeTyped DEF Base
<1>3. \A i \in DOMAIN Pipe : i # 1 => Pipe[i] # t
  BY <1>1, <1>2 DEF Distinct
<1>4. \A i \in DOMAIN Pipe : i # 1 => /\ i - 1 \in DOMAIN Pipe' /\ Pipe'[i - 1] = Pipe[i]
                                      /\ op'[Pipe[i]] = op[Pipe[i]]
  <2> SUFFICES ASSUME NEW i \in DOMAIN Pipe, i # 1
               PROVE  /\ i - 1 \in DOMAIN Pipe' /\ Pipe'[i - 1] = Pipe[i]
                      /\ op'[Pipe[i]] = op[Pipe[i]]
    OBVIOUS
  <2>1. i - 1 \in DOMAIN Pipe' /\ i \in Nat /\ (i - 1) + 1 = i
    BY <1>2
  <2>2. Pipe'[i - 1] = Pipe[(i - 1) + 1]
    BY <2>1
  <2> HIDE DEF t
  <2> QED
    BY <1>1, <1>2, <1>3, <2>1, <2>2
<1>5. \A i \in DOMAIN Pipe' : /\ i + 1 \in DOMAIN Pipe /\ i \in Nat /\ i + 1 # 1
                              /\ Pipe'[i] = Pipe[i + 1]
                              /\ op'[Pipe'[i]] = op[Pipe[i + 1]]
  <2> SUFFICES ASSUME NEW i \in DOMAIN Pipe'
               PROVE  /\ i + 1 \in DOMAIN Pipe /\ i \in Nat /\ i + 1 # 1
                      /\ Pipe'[i] = Pipe[i + 1]
                      /\ op'[Pipe'[i]] = op[Pipe[i + 1]]
    OBVIOUS
  <2>1. i + 1 \in DOMAIN Pipe /\ i \in Nat /\ Pipe'[i] = Pipe[i + 1] /\ i + 1 # 1
    OBVIOUS
  <2> QED
    BY <1>4, <2>1
<1>6. \A c \in Cells, j \in DOMAIN Pipe :
        j # 1 /\ Writes(op[Pipe[j]], c) => cache'[c] = cache[c] /\ cache[c].pin # t
  <2> SUFFICES ASSUME NEW c \in Cells, NEW j \in DOMAIN Pipe, j # 1,
                      Writes(op[Pipe[j]], c)
               PROVE  cache[c].pin # t
    BY <1>1
  <2>1. PICK k \in DOMAIN Pipe : j <= k /\ cache[c].pin = Pipe[k]
    BY DEF CacheInv, PinInv
  <2>2. k # 1
    <3>1. j \in Nat /\ k \in Nat /\ j # 0
      BY <1>2
    <3> QED
      BY <2>1, <3>1
  <2> QED
    BY <1>3, <2>1, <2>2
<1> HIDE DEF t
<1>7. PinInv'
  <2>1. \A c \in Cells : cache'[c].pin = 0 => cache'[c] = Unpinned
    BY <1>1 DEF CacheInv, PinInv
  <2>2. ASSUME NEW c \in Cells, cache'[c].pin # 0
        PROVE  \E k \in DOMAIN Pipe' : cache'[c].pin = Pipe'[k]
                                       /\ Writes(op'[Pipe'[k]], c)
    <3>1. cache[c].pin # t /\ cache'[c] = cache[c]
      BY <1>1, <2>2 DEF Unpinned
    <3>2. PICK k \in DOMAIN Pipe : cache[c].pin = Pipe[k] /\ Writes(op[Pipe[k]], c)
      BY <2>2, <3>1 DEF CacheInv, PinInv
    <3>3. k # 1
      BY <3>1, <3>2 DEF t
    <3> QED
      BY <1>4, <3>1, <3>2, <3>3
  <2>3. ASSUME NEW c \in Cells, NEW j \in DOMAIN Pipe', Writes(op'[Pipe'[j]], c)
        PROVE  \E k \in DOMAIN Pipe' : j <= k /\ cache'[c].pin = Pipe'[k]
    <3>1. j + 1 \in DOMAIN Pipe /\ j + 1 # 1 /\ Writes(op[Pipe[j + 1]], c) /\ j \in Nat
      BY <1>5, <2>3
    <3>2. PICK k \in DOMAIN Pipe : j + 1 <= k /\ cache[c].pin = Pipe[k]
      BY <3>1 DEF CacheInv, PinInv
    <3>3. cache'[c] = cache[c]
      BY <1>6, <3>1
    <3>4. k # 1 /\ k \in Nat /\ j <= k - 1
      BY <1>2, <3>1, <3>2
    <3>5. k - 1 \in DOMAIN Pipe' /\ Pipe'[k - 1] = Pipe[k]
      BY <1>4, <3>4
    <3> QED
      BY <3>2, <3>3, <3>4, <3>5
  <2> QED
    BY <2>1, <2>2, <2>3 DEF PinInv
<1>8. ASSUME NEW j \in DOMAIN Pipe', Sent' < j
      PROVE  ReadsRight(j)'
  <2> DEFINE o == op[Pipe[j + 1]]
  <2>1. j + 1 \in DOMAIN Pipe /\ j \in Nat /\ j + 1 # 1 /\ op'[Pipe'[j]] = o
    BY <1>5
  <2>2. Sent < j + 1
    BY <1>2, <1>8, <2>1
  <2>3. ReadsRight(j + 1)
    BY <2>1, <2>2 DEF CacheInv, ReadInv
  <2>4. o.pending_read \subseteq o.plan.to_read /\ o.plan.to_read \subseteq o.plan.will_write
        /\ o.plan.will_write \subseteq Cells
        /\ (o.plan.to_read # {} => o.using_cache)
    <3>1. Pipe[j + 1] \in DOMAIN op /\ o \in OpRecord
      BY <1>2, <2>1, ElementTypes DEF Base
    <3>2. o.plan \in PlanSet
      BY <3>1 DEF OpRecord
    <3>3. o.plan.will_write \subseteq Cells
      BY <3>2 DEF PlanSet
    <3> QED
      BY <2>3, <3>1, <3>3 DEF ReadsRight, CacheInv, PlanInv
  <2>5. \A c \in o.pending_read : c \in Cells /\ cache'[c] = cache[c]
    BY <1>6, <2>1, <2>4 DEF Writes
  <2> HIDE DEF o
  <2>6. \A i \in DOMAIN Pipe' : Sent' < i /\ i < j =>
          i + 1 \in DOMAIN Pipe /\ Sent < i + 1 /\ i + 1 < j + 1
          /\ op'[Pipe'[i]] = op[Pipe[i + 1]]
    BY <1>2, <1>5, <2>1
  <2>7. /\ o.plan.to_read = o.pending_read \cup o.remote_read
        /\ o.read_done => o.read_from <= o.read_at
        /\ o.plan.to_read # {} =>
             \A i \in DOMAIN Pipe' : Sent' < i /\ i < j => Cached(op'[Pipe'[i]])
    BY <2>3, <2>6 DEF ReadsRight, o
  <2>8. \A c \in o.remote_read :
           /\ \A i \in DOMAIN Pipe' :
                Sent' < i /\ i < j => c \notin op'[Pipe'[i]].plan.will_write
           /\ \A e \in log' : e.version > o.read_from => c \notin Touched(e.plan)
    BY <1>1, <2>3, <2>6 DEF ReadsRight, o
  <2>9. ASSUME NEW c \in o.pending_read
        PROVE  \/ cache'[c].content = Now(c)'
               \/ \E i \in DOMAIN Pipe' : /\ Sent' < i /\ i < j
                                          /\ c \in op'[Pipe'[i]].plan.will_write
    <3>1. Now(c)' = Now(c) /\ cache'[c] = cache[c]
      BY <1>1, <2>5 DEF Now
    <3>2. CASE cache[c].content = Now(c)
      BY <3>1, <3>2
    <3>3. ASSUME NEW i \in DOMAIN Pipe, Sent < i, i < j + 1,
                 c \in op[Pipe[i]].plan.will_write
          PROVE  \E k \in DOMAIN Pipe' : /\ Sent' < k /\ k < j
                                         /\ c \in op'[Pipe'[k]].plan.will_write
      <4>1. i \in Nat /\ i # 1 /\ Sent' < i - 1 /\ i - 1 < j
        BY <1>2, <2>1, <3>3
      <4>2. i - 1 \in DOMAIN Pipe' /\ op'[Pipe'[i - 1]] = op[Pipe[i]]
        BY <1>4, <4>1
      <4> QED
        BY <3>3, <4>1, <4>2
    <3>4. \/ cache[c].content = Now(c)
          \/ \E i \in DOMAIN Pipe : /\ Sent < i /\ i < j + 1
                                    /\ c \in op[Pipe[i]].plan.will_write
      BY <2>3 DEF ReadsRight, o
    <3> QED
      BY <3>2, <3>3, <3>4
  <2>10. op'[Pipe'[j]] = o
    BY <2>1 DEF o
  <2> QED
    BY <2>4, <2>7, <2>8, <2>9, <2>10 DEF ReadsRight
<1> QED
  BY <1>7, <1>8
(* The empty operation that follows the last one reads and writes nothing. *)
LEMMA FinishKick ==
  ASSUME Base, CacheInv, try_finish_rmw,
         DOMAIN Pipe = {1}, Pipe' = <<next_tid>>, Sent' = 0,
         op'[next_tid] = Op(next_tid, 0, op[Pipe[1]].version, NoPlan, FALSE)
  PROVE  /\ PinInv' /\ ReadsRight(1)' /\ DOMAIN Pipe' = {1}
         /\ Pipe'[1] = next_tid /\ Cached(op'[next_tid])
<1> DEFINE t == Pipe[1]
           d == op'[next_tid]
<1>1. \A c \in Cells : cache'[c] = IF cache[c].pin = t THEN Unpinned ELSE cache[c]
  BY FinishCells
<1>2. /\ d.plan = NoPlan /\ d.using_cache /\ d.remote_read = {} /\ d.pending_read = {}
      /\ ~d.read_done
  BY DEF Op
<1>3. DOMAIN Pipe' = {1} /\ Pipe'[1] = next_tid
  OBVIOUS
<1> HIDE DEF d
<1>4. Cached(d) /\ \A c \in Cells : ~Writes(d, c)
  <2>1. d.plan.wipes = {} /\ d.plan.will_write = {}
    BY <1>2 DEF NoPlan
  <2> QED
    BY <1>2, <2>1 DEF Cached, Writes
<1>5. \A c \in Cells : cache'[c] = Unpinned
  <2> SUFFICES ASSUME NEW c \in Cells, cache[c].pin # t PROVE cache[c] = Unpinned
    BY <1>1
  <2>1. cache[c].pin # 0 => \E k \in DOMAIN Pipe : cache[c].pin = Pipe[k]
    BY DEF CacheInv, PinInv
  <2>2. cache[c].pin = 0
    BY <2>1
  <2> QED
    BY <2>2 DEF CacheInv, PinInv
<1>6. PinInv'
  <2>1. \A c \in Cells : cache'[c].pin = 0 /\ cache'[c] = Unpinned
    BY <1>5 DEF Unpinned
  <2>2. \A c \in Cells, j \in DOMAIN Pipe' : ~Writes(op'[Pipe'[j]], c)
    BY <1>3, <1>4 DEF d
  <2> QED
    BY <2>1, <2>2 DEF PinInv
<1>7. ReadsRight(1)'
  <2>1. op'[Pipe'[1]] = d
    BY <1>3 DEF d
  <2>2. /\ d.plan.to_read = {} /\ d.remote_read = {} /\ d.pending_read = {}
        /\ ~d.read_done
    BY <1>2 DEF NoPlan
  <2> QED
    BY <2>1, <2>2 DEF ReadsRight
<1> QED
  BY <1>3, <1>4, <1>6, <1>7 DEF d

(* try_finish_rmw keeps the cache right.                                   *)
LEMMA FinishCache ==
  ASSUME Base, CacheInv, try_finish_rmw
  PROVE  CacheInv'
<1> DEFINE t == Pipe[1]
<1>1. /\ \A c \in Cells : cache'[c] = IF cache[c].pin = t THEN Unpinned ELSE cache[c]
      /\ \A u \in DOMAIN op : u # t => u \in DOMAIN op' /\ op'[u] = op[u]
      /\ UNCHANGED <<log, sent, handled, head>> /\ checking'
      /\ t \in DOMAIN op /\ 1 \in DOMAIN Pipe
  BY FinishCells
<1>2. /\ Pipe \in Seq(Nat) /\ Sent \in Nat /\ Distinct(Pipe)
      /\ \A i \in DOMAIN Pipe : Pipe[i] \in DOMAIN op /\ i \in Nat
      /\ \A i \in DOMAIN waiting_state, j \in DOMAIN Pipe : waiting_state[i] # Pipe[j]
  BY PipeTyped DEF Base
<1>3. /\ t = Head(waiting_commit) /\ 1 <= Sent
      /\ cache_invalid' = (cache_invalid /\ Pipe' # <<>>)
      /\ waiting_state' = waiting_state
  BY FinishPipe
<1>4. HeadInv' /\ ReadsLatest'
  BY <1>1 DEF CacheInv, HeadInv, ReadsLatest, Content
<1>5. \A i \in DOMAIN waiting_state : /\ waiting_state[i] \in DOMAIN op
                                      /\ waiting_state[i] # t
  BY <1>1, <1>2, TypeOKParts DEF Base, TypeInv, Known
<1>6. next_tid \in Nat /\ next_tid \notin DOMAIN op /\ 0 < next_tid
  BY TidBounds DEF CacheInv, DrainInv
<1>7. CASE /\ Sent' = Sent - 1
           /\ next_tid' = next_tid /\ DOMAIN op' = DOMAIN op \ {t}
           /\ \A i \in DOMAIN Pipe' : /\ i + 1 \in DOMAIN Pipe /\ i \in Nat
                                      /\ i + 1 # 1 /\ Pipe'[i] = Pipe[i + 1]
           /\ \A i \in DOMAIN Pipe : i = 1 \/ i - 1 \in DOMAIN Pipe'
  <2>1. PinInv' /\ \A j \in DOMAIN Pipe' : Sent' < j => ReadsRight(j)'
    BY <1>3, <1>7, FinishShift
  <2>2. ASSUME ~cache_invalid', NEW j \in DOMAIN Pipe'
        PROVE  /\ Cached(op'[Pipe'[j]])
               /\ j <= Sent' => \A c \in op'[Pipe'[j]].plan.will_write :
                                  cache'[c].content = Now(c)'
    <3> DEFINE o == op[Pipe[j + 1]]
    <3>1. /\ j + 1 \in DOMAIN Pipe /\ j + 1 # 1 /\ j \in Nat /\ Pipe'[j] = Pipe[j + 1]
      BY <1>7
    <3>2. op'[Pipe'[j]] = o /\ Pipe[j + 1] \in DOMAIN op /\ o \in OpRecord
      <4>1. Pipe[j + 1] # t /\ Pipe[j + 1] \in DOMAIN op
        BY <1>1, <1>2, <3>1 DEF Distinct
      <4> QED
        BY <1>1, <3>1, <4>1, ElementTypes DEF Base
    <3>3. ~cache_invalid
      <4>1. Pipe' # <<>>
        <5>1. DOMAIN <<>> = {}
          OBVIOUS
        <5> QED
          BY <5>1
      <4> QED
        BY <1>3, <2>2, <4>1
    <3>4. /\ Cached(o)
          /\ j + 1 <= Sent => \A c \in o.plan.will_write : cache[c].content = Now(c)
      BY <3>1, <3>3 DEF CacheInv, ReadInv
    <3>5. ASSUME NEW c \in o.plan.will_write
          PROVE  cache'[c] = cache[c] /\ Now(c)' = Now(c)
      <4>1. c \in Cells /\ Writes(o, c)
        BY <3>2, <3>4 DEF Writes, Cached, OpRecord, PlanSet
      <4>2. PICK k \in DOMAIN Pipe : j + 1 <= k /\ cache[c].pin = Pipe[k]
        BY <3>1, <4>1 DEF CacheInv, PinInv
      <4>3. k # 1
        <5>1. k \in Nat /\ j + 1 \in Nat /\ j + 1 # 0
          BY <1>2, <3>1, <4>2
        <5> QED
          BY <3>1, <4>2, <5>1
      <4>4. cache[c].pin # t
        BY <1>1, <1>2, <4>2, <4>3 DEF Distinct
      <4> QED
        BY <1>1, <4>1, <4>4 DEF Now
    <3>6. j <= Sent' => j + 1 <= Sent
      BY <1>2, <1>7, <3>1
    <3> HIDE DEF o
    <3> QED
      BY <3>2, <3>4, <3>5, <3>6
  <2>3. PlanInv'
    <3>1. \A u \in DOMAIN op' : u \in DOMAIN op /\ op'[u] = op[u]
      BY <1>1, <1>7
    <3> QED
      BY <1>1, <1>3, <1>5, <3>1 DEF CacheInv, PlanInv
  <2>4. DrainInv'
    <3>1. ASSUME NEW u \in DOMAIN op'
          PROVE  \/ \E i \in DOMAIN waiting_state' : u = waiting_state'[i]
                 \/ \E i \in DOMAIN Pipe' : u = Pipe'[i]
      <4>1. u \in DOMAIN op /\ u # t
        BY <1>7
      <4>2. ASSUME NEW i \in DOMAIN Pipe, u = Pipe[i]
            PROVE  \E k \in DOMAIN Pipe' : u = Pipe'[k]
        <5>1. i # 1 /\ i \in Nat /\ (i - 1) + 1 = i
          BY <1>2, <4>1, <4>2
        <5>2. i - 1 \in DOMAIN Pipe'
          BY <1>7, <5>1
        <5>3. Pipe'[i - 1] = Pipe[(i - 1) + 1]
          BY <1>7, <5>2
        <5> QED
          BY <4>2, <5>1, <5>2, <5>3
      <4>3. \/ \E i \in DOMAIN waiting_state : u = waiting_state[i]
            \/ \E i \in DOMAIN Pipe : u = Pipe[i]
        BY <4>1 DEF CacheInv, DrainInv
      <4> QED
        BY <1>3, <4>2, <4>3
    <3> QED
      BY <1>1, <1>3, <1>7, <3>1 DEF CacheInv, DrainInv
  <2> QED
    BY <1>4, <2>1, <2>2, <2>3, <2>4 DEF CacheInv, ReadInv
<1>8. CASE /\ DOMAIN Pipe = {1} /\ Pipe' = <<next_tid>> /\ Sent' = 0
           /\ next_tid' = next_tid + 1
  <2>1. /\ DOMAIN op' = (DOMAIN op \ {t}) \cup {next_tid}
        /\ op'[next_tid] = Op(next_tid, 0, op[t].version, NoPlan, FALSE)
    <3>1. next_tid' # next_tid
      BY <1>6, <1>8
    <3> HIDE DEF t
    <3> QED
      BY <1>3, <3>1, FinishOps
  <2>2. /\ PinInv' /\ ReadsRight(1)' /\ DOMAIN Pipe' = {1}
        /\ Pipe'[1] = next_tid /\ Cached(op'[next_tid])
    BY <1>8, <2>1, FinishKick
  <2>3. ReadInv'
    <3>1. \A j \in DOMAIN Pipe' : ReadsRight(j)' /\ Cached(op'[Pipe'[j]]) /\ ~(j <= Sent')
      BY <1>8, <2>2
    <3> QED
      BY <3>1 DEF ReadInv
  <2>4. PlanInv'
    <3>1. op'[next_tid].version = 0 /\ op'[next_tid].plan = NoPlan
      BY <2>1 DEF Op
    <3>2. \A u \in DOMAIN op' : u = next_tid \/ (u \in DOMAIN op /\ op'[u] = op[u])
      BY <1>1, <2>1
    <3>3. NoPlan.to_read \subseteq NoPlan.will_write
      BY DEF NoPlan
    <3> QED
      BY <1>1, <1>3, <1>5, <3>1, <3>2, <3>3 DEF CacheInv, PlanInv
  <2>5. DrainInv'
    <3>1. ASSUME NEW u \in DOMAIN op'
          PROVE  /\ 0 < u
                 /\ \/ \E i \in DOMAIN waiting_state' : u = waiting_state'[i]
                    \/ \E i \in DOMAIN Pipe' : u = Pipe'[i]
      <4>1. CASE u = next_tid
        BY <1>6, <2>2, <4>1
      <4>2. CASE u \in DOMAIN op /\ u # t
        <5>1. \/ \E i \in DOMAIN waiting_state : u = waiting_state[i]
              \/ \E i \in DOMAIN Pipe : u = Pipe[i]
          BY <4>2 DEF CacheInv, DrainInv
        <5> QED
          BY <1>3, <1>8, <4>2, <5>1 DEF CacheInv, DrainInv
      <4> QED
        BY <2>1, <3>1, <4>1, <4>2
    <3>2. 0 < next_tid' /\ (cache_invalid' => Pipe' # <<>>)
      BY <1>3, <1>6, <1>8
    <3> QED
      BY <1>1, <3>1, <3>2 DEF DrainInv
  <2> QED
    BY <1>4, <2>2, <2>3, <2>4, <2>5 DEF CacheInv
<1> QED
  BY <1>7, <1>8, FinishPipe
-----------------------------------------------------------------------------
(* What try_state_to_reads does to the operation and to the cache.         *)
LEMMA StateToReadsStep ==
  ASSUME Base, CacheInv, try_state_to_reads
  PROVE  LET t == Head(waiting_state)
             o == op[t]
             n == op'[t]
         IN /\ DOMAIN op' = DOMAIN op /\ t \in DOMAIN op /\ t # 0
            /\ \A u \in DOMAIN op : u # t => op'[u] = op[u]
            /\ n.plan = o.plan /\ n.version = o.version /\ ~n.read_done
            /\ n.using_cache = ~cache_invalid
            /\ n.remote_read = {c \in o.plan.to_read : cache_invalid \/ cache[c].pin = 0}
            /\ n.pending_read = o.plan.to_read \ n.remote_read
            /\ n.read_from = head[Primary]
            /\ o.plan.to_read # {} => ~cache_invalid
            /\ o.plan.to_read \subseteq o.plan.will_write
            /\ o.plan.will_write \subseteq Cells
            /\ \A c \in Cells :
                 /\ cache'[c].content = cache[c].content
                 /\ cache'[c].pin = IF ~cache_invalid /\ c \in o.plan.will_write
                                    THEN t ELSE cache[c].pin
                 /\ cache_invalid \/ c \notin o.plan.will_write => cache'[c] = cache[c]
            /\ cache_invalid' = (cache_invalid \/ o.plan.wipes # {})
            /\ UNCHANGED <<log, sent, handled, head, next_tid>> /\ checking'
<1> DEFINE t == Head(waiting_state)
           o == op[t]
           n == op'[t]
           re == IF ~cache_invalid THEN {c \in o.plan.to_read : cache[c].pin = 0}
                                   ELSE o.plan.to_read
<1>1. 1 \in DOMAIN waiting_state /\ waiting_state[1] = t /\ t \in DOMAIN op
  BY StateToReadsPipe DEF Base
<1>2. t # 0 /\ ~o.read_done /\ o.plan.to_read \subseteq o.plan.will_write
  BY <1>1 DEF CacheInv, DrainInv, PlanInv
<1>3. o \in OpRecord /\ o.plan.will_write \subseteq Cells /\ op \in [DOMAIN op -> OpRecord]
  BY <1>1, ElementTypes, TypeOKParts DEF Base, TypeInv, OpRecord, PlanSet
<1>4. /\ op' = [op EXCEPT ![t].using_cache = ~cache_invalid,
                          ![t].remote_read = re,
                          ![t].pending_read = o.plan.to_read \ re,
                          ![t].read_from = head[Primary]]
      /\ cache_invalid' = (cache_invalid \/ o.plan.wipes # {})
      /\ cache' = [c \in Cells |->
                     IF ~cache_invalid /\ c \in o.plan.will_write
                     THEN [cache[c] EXCEPT !.pin = t] ELSE cache[c]]
      /\ ~(o.plan.to_read # {} /\ cache_invalid)
      /\ UNCHANGED <<log, sent, handled, head, next_tid>> /\ checking'
  BY DEF try_state_to_reads, CanStateToReads, requires_rmw, invalidates_cache,
         wireVars, shardVars
<1>5. cache \in [Cells -> CacheEntry] /\ t \in Nat
  BY <1>1, PipeTyped, ElementTypes DEF Base, TypeInv, TypeOK
<1> HIDE DEF t, re
<1>6. /\ DOMAIN op' = DOMAIN op
      /\ \A u \in DOMAIN op : u # t => op'[u] = op[u]
      /\ n.plan = o.plan /\ n.version = o.version /\ n.read_done = o.read_done
      /\ n.using_cache = ~cache_invalid /\ n.remote_read = re
      /\ n.pending_read = o.plan.to_read \ re /\ n.read_from = head[Primary]
  BY <1>1, <1>3, <1>4 DEF OpRecord
<1>7. re = {c \in o.plan.to_read : cache_invalid \/ cache[c].pin = 0}
  BY DEF re
<1>8. \A c \in Cells :
           /\ cache'[c].content = cache[c].content
           /\ cache'[c].pin = IF ~cache_invalid /\ c \in o.plan.will_write
                              THEN t ELSE cache[c].pin
           /\ cache_invalid \/ c \notin o.plan.will_write => cache'[c] = cache[c]
  BY <1>4, <1>5 DEF CacheEntry
<1> HIDE DEF o, n
<1>9. o.plan.to_read # {} => ~cache_invalid
  BY <1>4
<1> QED
  BY <1>1, <1>2, <1>3, <1>4, <1>6, <1>7, <1>8, <1>9 DEF t, o, n
(* Where the operation stands in the pipe, and what stays in front of it.  *)
LEMMA StateToReadsPlaces ==
  ASSUME Base, CacheInv, try_state_to_reads
  PROVE  LET t == Head(waiting_state)
             m == Len(Pipe) + 1
         IN /\ m \in Nat /\ Sent \in Nat /\ Sent < m /\ Sent' = Sent
            /\ DOMAIN Pipe' = DOMAIN Pipe \cup {m} /\ Pipe'[m] = t
            /\ \A i \in DOMAIN Pipe : /\ Pipe'[i] = Pipe[i] /\ op'[Pipe[i]] = op[Pipe[i]]
                                      /\ i \in Nat /\ i < m /\ Pipe[i] \in DOMAIN op
<1> DEFINE t == Head(waiting_state)
           m == Len(Pipe) + 1
<1>1. /\ 1 \in DOMAIN waiting_state /\ waiting_state[1] = t
      /\ Sent' = Sent /\ DOMAIN Pipe' = DOMAIN Pipe \cup {m}
      /\ Pipe'[m] = t /\ Len(Pipe) \in Nat
      /\ \A i \in DOMAIN Pipe : Pipe'[i] = Pipe[i] /\ i <= Len(Pipe) /\ i \in Nat
      /\ Sent <= Len(Pipe)
  BY StateToReadsPipe DEF Base
<1>2. /\ Sent \in Nat /\ \A i \in DOMAIN Pipe : Pipe[i] \in DOMAIN op
      /\ \A i \in DOMAIN waiting_state, j \in DOMAIN Pipe : waiting_state[i] # Pipe[j]
  BY PipeTyped DEF Base
<1>3. \A u \in DOMAIN op : u # t => op'[u] = op[u]
  BY StateToReadsStep
<1> HIDE DEF t
<1>4. \A i \in DOMAIN Pipe : op'[Pipe[i]] = op[Pipe[i]]
  BY <1>1, <1>2, <1>3
<1>5. m \in Nat /\ Sent < m /\ \A i \in DOMAIN Pipe : i < m
  BY <1>1, <1>2
<1> QED
  BY <1>1, <1>2, <1>4, <1>5 DEF t

(* The operation pins what it writes through the cache. *)
LEMMA StateToReadsPins ==
  ASSUME Base, CacheInv, try_state_to_reads
  PROVE  PinInv'
<1> DEFINE t == Head(waiting_state)
           m == Len(Pipe) + 1
           w == op[t].plan.will_write
<1>1. /\ m \in Nat /\ DOMAIN Pipe' = DOMAIN Pipe \cup {m} /\ Pipe'[m] = t
      /\ \A i \in DOMAIN Pipe : /\ Pipe'[i] = Pipe[i] /\ op'[Pipe[i]] = op[Pipe[i]]
                                /\ i \in Nat /\ i < m
  BY StateToReadsPlaces
<1>2. /\ t # 0 /\ op'[t].plan.will_write = w /\ op'[t].using_cache = ~cache_invalid
      /\ \A c \in Cells :
           /\ cache'[c].pin = IF ~cache_invalid /\ c \in w THEN t ELSE cache[c].pin
           /\ cache_invalid \/ c \notin w => cache'[c] = cache[c]
  BY StateToReadsStep
<1> HIDE DEF t, m, w
<1>3. \A c \in Cells : cache'[c].pin = 0 => cache'[c] = Unpinned
  BY <1>2 DEF CacheInv, PinInv
<1>4. ASSUME NEW c \in Cells, cache'[c].pin # 0
      PROVE  \E k \in DOMAIN Pipe' : cache'[c].pin = Pipe'[k]
                                     /\ Writes(op'[Pipe'[k]], c)
  <2>1. CASE ~cache_invalid /\ c \in w
    BY <1>1, <1>2, <2>1 DEF Writes
  <2>2. CASE ~(~cache_invalid /\ c \in w)
    <3>1. cache'[c].pin = cache[c].pin
      BY <1>2, <2>2
    <3>2. PICK k \in DOMAIN Pipe : cache[c].pin = Pipe[k] /\ Writes(op[Pipe[k]], c)
      BY <1>4, <3>1 DEF CacheInv, PinInv
    <3> QED
      BY <1>1, <3>1, <3>2
  <2> QED
    BY <2>1, <2>2
<1>5. ASSUME NEW c \in Cells, NEW j \in DOMAIN Pipe', Writes(op'[Pipe'[j]], c)
      PROVE  \E k \in DOMAIN Pipe' : j <= k /\ cache'[c].pin = Pipe'[k]
  <2>1. CASE j = m
    <3>1. ~cache_invalid /\ c \in w
      BY <1>1, <1>2, <1>5, <2>1 DEF Writes
    <3> QED
      BY <1>1, <1>2, <2>1, <3>1
  <2>2. CASE j \in DOMAIN Pipe /\ ~cache_invalid /\ c \in w
    <3>1. cache'[c].pin = Pipe'[m] /\ m \in DOMAIN Pipe'
      BY <1>1, <1>2, <2>2
    <3>2. j <= m
      BY <1>1, <2>2
    <3> QED
      BY <3>1, <3>2
  <2>3. CASE j \in DOMAIN Pipe /\ ~(~cache_invalid /\ c \in w)
    <3>1. cache'[c].pin = cache[c].pin /\ Writes(op[Pipe[j]], c)
      BY <1>1, <1>2, <1>5, <2>3
    <3>2. PICK k \in DOMAIN Pipe : j <= k /\ cache[c].pin = Pipe[k]
      BY <2>3, <3>1 DEF CacheInv, PinInv
    <3> QED
      BY <1>1, <3>1, <3>2
  <2> QED
    BY <1>1, <2>1, <2>2, <2>3
<1> QED
  BY <1>3, <1>4, <1>5 DEF PinInv

(* It reads the newest content, from the shards what no operation in front *)
(* of it writes, and from the cache the rest.                              *)
LEMMA StateToReadsRight ==
  ASSUME Base, CacheInv, try_state_to_reads, NEW m, m = Len(Pipe) + 1
  PROVE  ReadsRight(m)'
<1> DEFINE t == Head(waiting_state)
           n == op'[t]
<1>1. /\ m \in Nat /\ Sent \in Nat /\ Sent < m /\ Sent' = Sent
      /\ DOMAIN Pipe' = DOMAIN Pipe \cup {m} /\ Pipe'[m] = t
      /\ \A i \in DOMAIN Pipe : /\ Pipe'[i] = Pipe[i] /\ op'[Pipe[i]] = op[Pipe[i]]
                                /\ i \in Nat /\ i < m /\ Pipe[i] \in DOMAIN op
  BY StateToReadsPlaces
<1>2. /\ ~n.read_done /\ n.using_cache = ~cache_invalid
      /\ n.remote_read = {c \in n.plan.to_read : cache_invalid \/ cache[c].pin = 0}
      /\ n.pending_read = n.plan.to_read \ n.remote_read
      /\ n.read_from = head[Primary]
      /\ n.plan.to_read # {} => ~cache_invalid
      /\ n.plan.to_read \subseteq Cells
      /\ \A c \in Cells : cache'[c].content = cache[c].content
      /\ UNCHANGED log
  BY StateToReadsStep
<1> HIDE DEF t, n
<1>3. \A i \in DOMAIN Pipe' : i < m => i \in DOMAIN Pipe
  BY <1>1
<1>4. ~cache_invalid => \A i \in DOMAIN Pipe : Cached(op[Pipe[i]])
  BY DEF CacheInv, ReadInv
<1>5. ASSUME NEW c \in n.remote_read
      PROVE  /\ \A i \in DOMAIN Pipe' :
                  Sent < i /\ i < m => c \notin op'[Pipe'[i]].plan.will_write
             /\ \A e \in log' : e.version > n.read_from => c \notin Touched(e.plan)
  <2>1. c \in Cells /\ ~cache_invalid /\ cache[c].pin = 0
    BY <1>2, <1>5
  <2>2. ASSUME NEW i \in DOMAIN Pipe PROVE c \notin op[Pipe[i]].plan.will_write
    <3> SUFFICES ASSUME c \in op[Pipe[i]].plan.will_write PROVE FALSE
      OBVIOUS
    <3>1. Writes(op[Pipe[i]], c)
      BY <1>4, <2>1 DEF Writes, Cached
    <3>2. PICK k \in DOMAIN Pipe : cache[c].pin = Pipe[k]
      BY <2>1, <3>1 DEF CacheInv, PinInv
    <3>3. Pipe[k] \in DOMAIN op
      BY <1>1
    <3>4. Pipe[k] # 0
      BY <3>3 DEF CacheInv, DrainInv
    <3> QED
      BY <2>1, <3>2, <3>4
  <2>3. \A e \in log : ~(e.version > head[Primary])
    <3>1. \A e \in log : e.version \in Nat
      BY VersionNat DEF Base, TypeInv
    <3>2. head[Primary] \in Nat
      BY DEF Base, TypeInv, TypeOK
    <3> QED
      BY <3>1, <3>2 DEF CacheInv, HeadInv
  <2> QED
    BY <1>1, <1>2, <1>3, <2>2, <2>3
<1>6. ASSUME NEW c \in n.pending_read
      PROVE  \/ cache'[c].content = Now(c)'
             \/ \E i \in DOMAIN Pipe' : /\ Sent < i /\ i < m
                                        /\ c \in op'[Pipe'[i]].plan.will_write
  <2>1. c \in Cells /\ cache[c].pin # 0 /\ ~cache_invalid
    BY <1>2, <1>6
  <2>2. PICK k \in DOMAIN Pipe : Writes(op[Pipe[k]], c)
    BY <2>1 DEF CacheInv, PinInv
  <2>3. c \in op[Pipe[k]].plan.will_write
    BY <2>2 DEF Writes
  <2>4. CASE k <= Sent
    <3>1. cache[c].content = Now(c)
      BY <2>1, <2>3, <2>4 DEF CacheInv, ReadInv
    <3>2. Now(c)' = Now(c)
      BY <1>2 DEF Now
    <3> QED
      BY <1>2, <2>1, <3>1, <3>2
  <2>5. CASE Sent < k
    BY <1>1, <2>3, <2>5
  <2> QED
    BY <1>1, <2>4, <2>5
<1>7. \A i \in DOMAIN Pipe' : n.plan.to_read # {} /\ Sent < i /\ i < m => Cached(op'[Pipe'[i]])
  BY <1>1, <1>2, <1>3, <1>4
<1>8. /\ n.plan.to_read = n.pending_read \cup n.remote_read
      /\ n.plan.to_read # {} => n.using_cache
  BY <1>2
<1>9. op'[Pipe'[m]] = n
  BY <1>1 DEF n
<1> QED
  BY <1>1, <1>2, <1>5, <1>6, <1>7, <1>8, <1>9 DEF ReadsRight

(* try_state_to_reads keeps the cache right. *)
LEMMA StateToReadsCache ==
  ASSUME Base, CacheInv, try_state_to_reads
  PROVE  CacheInv'
<1> DEFINE t == Head(waiting_state)
           n == op'[t]
<1>0. PICK m : m = Len(Pipe) + 1
  OBVIOUS
<1>1. /\ m \in Nat /\ Sent \in Nat /\ Sent < m /\ Sent' = Sent
      /\ DOMAIN Pipe' = DOMAIN Pipe \cup {m} /\ Pipe'[m] = t
      /\ \A i \in DOMAIN Pipe : /\ Pipe'[i] = Pipe[i] /\ op'[Pipe[i]] = op[Pipe[i]]
                                /\ i \in Nat /\ i < m /\ Pipe[i] \in DOMAIN op
  BY <1>0, StateToReadsPlaces
<1>2. /\ DOMAIN op' = DOMAIN op /\ t \in DOMAIN op
      /\ \A u \in DOMAIN op : u # t => op'[u] = op[u]
      /\ n.plan = op[t].plan /\ n.version = op[t].version /\ ~n.read_done
      /\ n.using_cache = ~cache_invalid
      /\ \A c \in Cells : cache'[c].content = cache[c].content
      /\ cache_invalid' = (cache_invalid \/ n.plan.wipes # {})
      /\ UNCHANGED <<log, sent, handled, head, next_tid>> /\ checking'
  BY StateToReadsStep
<1>3. PinInv'
  BY StateToReadsPins
<1>4. ReadsRight(m)'
  BY <1>0, StateToReadsRight
<1>5. /\ waiting_state[1] = t
      /\ \A i \in DOMAIN waiting_state : i = 1 \/ i - 1 \in DOMAIN waiting_state'
      /\ \A i \in DOMAIN waiting_state' : /\ i + 1 \in DOMAIN waiting_state
                                          /\ waiting_state'[i] = waiting_state[i + 1]
      /\ \A i \in DOMAIN waiting_state : waiting_state[i] \in DOMAIN op /\ i \in Nat
  <2>1. \A i \in DOMAIN waiting_state : waiting_state[i] \in DOMAIN op /\ i \in Nat
    BY TypeOKParts DEF Base, TypeInv, Known
  <2> QED
    BY <2>1, StateToReadsPipe DEF Base
<1> HIDE DEF t, n
<1>6. HeadInv' /\ ReadsLatest'
  BY <1>2 DEF CacheInv, HeadInv, ReadsLatest, Content
<1>7. PlanInv'
  <2>1. ASSUME NEW u \in DOMAIN op
        PROVE  /\ op'[u].version = 0 => op'[u].plan = NoPlan
               /\ op'[u].plan.to_read \subseteq op'[u].plan.will_write
    <3>1. op'[u].version = op[u].version /\ op'[u].plan = op[u].plan
      BY <1>2 DEF n
    <3> QED
      BY <3>1 DEF CacheInv, PlanInv
  <2>2. ASSUME NEW i \in DOMAIN waiting_state'
        PROVE  ~op'[waiting_state'[i]].read_done
    <3>1. i + 1 \in DOMAIN waiting_state /\ waiting_state'[i] = waiting_state[i + 1]
      BY <1>5
    <3>2. waiting_state[i + 1] \in DOMAIN op /\ ~op[waiting_state[i + 1]].read_done
      BY <1>5, <3>1 DEF CacheInv, PlanInv
    <3> QED
      BY <1>2, <3>1, <3>2 DEF n
  <2> QED
    BY <1>2, <2>1, <2>2 DEF PlanInv
<1>8. DrainInv'
  <2>1. ASSUME NEW u \in DOMAIN op
        PROVE  \/ \E i \in DOMAIN waiting_state' : u = waiting_state'[i]
               \/ \E i \in DOMAIN Pipe' : u = Pipe'[i]
    <3>1. CASE u = t
      BY <1>1, <3>1
    <3>2. ASSUME NEW i \in DOMAIN waiting_state, u = waiting_state[i], u # t
          PROVE  \E k \in DOMAIN waiting_state' : u = waiting_state'[k]
      <4>1. i # 1 /\ (i - 1) + 1 = i
        BY <1>5, <3>2
      <4>2. i - 1 \in DOMAIN waiting_state'
        BY <1>5, <4>1
      <4>3. waiting_state'[i - 1] = waiting_state[(i - 1) + 1]
        BY <1>5, <4>2
      <4> QED
        BY <3>2, <4>1, <4>2, <4>3
    <3>3. ASSUME NEW i \in DOMAIN Pipe, u = Pipe[i]
          PROVE  \E k \in DOMAIN Pipe' : u = Pipe'[k]
      BY <1>1, <3>3
    <3>4. \/ \E i \in DOMAIN waiting_state : u = waiting_state[i]
          \/ \E i \in DOMAIN Pipe : u = Pipe[i]
      BY DEF CacheInv, DrainInv
    <3> QED
      BY <3>1, <3>2, <3>3, <3>4
  <2>2. Pipe' # <<>>
    <3>1. DOMAIN <<>> = {}
      OBVIOUS
    <3> QED
      BY <1>1, <3>1
  <2> QED
    BY <1>2, <2>1, <2>2 DEF CacheInv, DrainInv
<1>9. ASSUME NEW j \in DOMAIN Pipe, Sent < j
      PROVE  ReadsRight(j)'
  <2> DEFINE o == op[Pipe[j]]
  <2>1. ReadsRight(j)
    BY <1>9 DEF CacheInv, ReadInv
  <2>2. o \in OpRecord /\ op'[Pipe'[j]] = o
    BY <1>1, ElementTypes DEF Base
  <2>3. \A c \in o.pending_read : cache'[c].content = cache[c].content /\ Now(c)' = Now(c)
    <3>1. o.pending_read \subseteq Cells
      BY <2>2 DEF OpRecord
    <3> QED
      BY <1>2, <3>1 DEF Now
  <2>4. \A i \in DOMAIN Pipe' : i < j => i \in DOMAIN Pipe /\ op'[Pipe'[i]] = op[Pipe[i]]
    BY <1>1
  <2>5. \A i \in DOMAIN Pipe : i \in DOMAIN Pipe' /\ op'[Pipe'[i]] = op[Pipe[i]]
    BY <1>1
  <2> HIDE DEF o
  <2>6. /\ o.plan.to_read = o.pending_read \cup o.remote_read
        /\ o.plan.to_read # {} =>
             /\ o.using_cache
             /\ \A i \in DOMAIN Pipe' : Sent < i /\ i < j => Cached(op'[Pipe'[i]])
        /\ o.read_done => o.read_from <= o.read_at
    BY <2>1, <2>4 DEF ReadsRight, o
  <2>7. \A c \in o.remote_read :
          /\ \A i \in DOMAIN Pipe' :
               Sent < i /\ i < j => c \notin op'[Pipe'[i]].plan.will_write
          /\ \A e \in log' : e.version > o.read_from => c \notin Touched(e.plan)
    BY <1>2, <2>1, <2>4 DEF ReadsRight, o
  <2>8. \A c \in o.pending_read :
          \/ cache'[c].content = Now(c)'
          \/ \E i \in DOMAIN Pipe' : /\ Sent < i /\ i < j
                                     /\ c \in op'[Pipe'[i]].plan.will_write
    BY <2>1, <2>3, <2>5 DEF ReadsRight, o
  <2> QED
    BY <1>1, <2>2, <2>6, <2>7, <2>8 DEF ReadsRight
<1>10. ReadInv'
  <2>1. ASSUME ~cache_invalid', NEW j \in DOMAIN Pipe'
        PROVE  /\ Cached(op'[Pipe'[j]])
               /\ j <= Sent' => \A c \in op'[Pipe'[j]].plan.will_write :
                                  cache'[c].content = Now(c)'
    <3>1. CASE j = m
      <4>1. op'[Pipe'[j]] = n /\ ~(j <= Sent')
        BY <1>1, <3>1 DEF n
      <4>2. Cached(n)
        BY <1>2, <2>1 DEF Cached
      <4> QED
        BY <4>1, <4>2
    <3>2. CASE j \in DOMAIN Pipe
      <4>1. /\ Cached(op[Pipe[j]]) /\ op'[Pipe'[j]] = op[Pipe[j]]
            /\ j <= Sent => \A c \in op[Pipe[j]].plan.will_write : cache[c].content = Now(c)
        BY <1>1, <1>2, <2>1, <3>2 DEF CacheInv, ReadInv
      <4>2. op[Pipe[j]].plan.will_write \subseteq Cells
        BY <1>1, <3>2, ElementTypes DEF Base, OpRecord, PlanSet
      <4> QED
        BY <1>1, <1>2, <4>1, <4>2 DEF Now
    <3> QED
      BY <1>1, <3>1, <3>2
  <2>2. \A j \in DOMAIN Pipe' : Sent' < j => ReadsRight(j)'
    BY <1>1, <1>4, <1>9
  <2> QED
    BY <2>1, <2>2 DEF ReadInv
<1> QED
  BY <1>3, <1>6, <1>7, <1>8, <1>10 DEF CacheInv
-----------------------------------------------------------------------------
(* When its turn comes, an operation has read of a cell all the log has.   *)
LEMMA TurnReads ==
  ASSUME Base, CacheInv, try_reads_to_commit, NEW c \in Cells,
         c \in op[Pipe[Sent + 1]].plan.to_read
  PROVE  Read(op[Pipe[Sent + 1]])[c] = Now(c)
<1> DEFINE m == Sent + 1
           o == op[Pipe[m]]
<1>1. m \in DOMAIN Pipe /\ Sent \in Nat /\ Pipe[m] = Head(waiting_reads)
  BY ReadsToCommitPipe DEF Base
<1>2. Pipe[m] \in DOMAIN op /\ o \in OpRecord
  BY <1>1, PipeTyped, ElementTypes DEF Base
<1>3. o.remote_read = {} \/ o.read_done
  BY <1>1 DEF try_reads_to_commit, CanReadsToCommit, read_in_progress
<1>4. ReadsRight(m)
  <2>1. Sent < m
    BY <1>1
  <2> HIDE DEF m
  <2> QED
    BY <1>1, <2>1 DEF CacheInv, ReadInv
<1>5. c \in o.pending_read \cup o.remote_read
  BY <1>4 DEF ReadsRight
<1>6. CASE c \in o.remote_read
  <2>1. o.read_from <= o.read_at /\ o.read_from \in Nat /\ o.read_at \in Nat
    BY <1>2, <1>3, <1>4, <1>6 DEF ReadsRight, OpRecord
  <2>2. \A e \in log : c \in Touched(e.plan) => ~(e.version > o.read_from)
    BY <1>4, <1>6 DEF ReadsRight
  <2>3. \A e \in log : e.version \in Nat
    BY VersionNat DEF Base, TypeInv
  <2> HIDE DEF o
  <2>4. \A e \in log : c \in Touched(e.plan) => e.version <= o.read_at
    BY <2>1, <2>2, <2>3
  <2>5. Content(c, o.read_at) = Now(c)
    BY <2>4 DEF Content, Now, Touched
  <2> QED
    BY <1>6, <2>5 DEF Read, o
<1>7. CASE c \notin o.remote_read
  <2>1. \A i \in DOMAIN Pipe : ~(Sent < i /\ i < m)
    BY <1>1, PipeTyped DEF Base
  <2>2. cache[c].content = Now(c)
    BY <1>4, <1>5, <1>7, <2>1 DEF ReadsRight
  <2> QED
    BY <1>5, <1>7, <2>2 DEF Read
<1> QED
  BY <1>6, <1>7

(* What it writes to a cell is all that and its own version.               *)
LEMMA TurnWrites ==
  ASSUME Base, CacheInv, try_reads_to_commit, NEW c \in Cells
  PROVE  Written(op[Pipe[Sent + 1]], c) = {op[Pipe[Sent + 1]].version} \cup Now(c)
<1>1. CASE c \in op[Pipe[Sent + 1]].plan.to_read
  BY <1>1, TurnReads DEF Written
<1>2. Content(c, head[Primary]) = Now(c)
  BY DEF CacheInv, HeadInv, Content, Now, Touched
<1>3. CASE c \notin op[Pipe[Sent + 1]].plan.to_read
  BY <1>2, <1>3 DEF Written
<1> QED
  BY <1>1, <1>3

(* What try_reads_to_commit does to the operation, the cache and the log.  *)
LEMMA TurnStep ==
  ASSUME Base, LogInv, CacheInv, try_reads_to_commit
  PROVE  LET m == Sent + 1
             t == Pipe[m]
             o == op[t]
             w == o.plan.will_write
         IN /\ m \in DOMAIN Pipe /\ m \in Nat /\ Sent \in Nat /\ Pipe' = Pipe /\ Sent' = m
            /\ t \in DOMAIN op /\ o \in OpRecord /\ DOMAIN op' = DOMAIN op
            /\ \A u \in DOMAIN op : u # t => op'[u] = op[u]
            /\ op'[t].plan = o.plan /\ op'[t].version = o.version
            /\ op'[t].using_cache = o.using_cache
            /\ \A c \in Cells :
                 /\ cache'[c].pin = cache[c].pin
                 /\ o.using_cache /\ c \in w =>
                      cache'[c].content = {o.version} \cup Now(c)
                 /\ ~(o.using_cache /\ c \in w) => cache'[c] = cache[c]
            /\ o.version = 0 => log' = log /\ Touched(o.plan) = {}
            /\ o.version # 0 =>
                 log' = log \cup {[version |-> o.version, plan |-> o.plan,
                                   read |-> Read(o)]}
            /\ \A e \in log : /\ e.version \in Nat
                              /\ o.version # 0 => e.version < o.version
            /\ UNCHANGED <<waiting_state, cache_invalid, next_tid>> /\ checking'
<1> DEFINE m == Sent + 1
           t == Pipe[m]
           o == op[t]
           w == o.plan.will_write
<1>1. /\ m \in DOMAIN Pipe /\ Sent \in Nat /\ t = Head(waiting_reads)
      /\ Pipe' = Pipe /\ Sent' = m
  BY ReadsToCommitPipe DEF Base
<1>2. t \in DOMAIN op /\ o \in OpRecord /\ op \in [DOMAIN op -> OpRecord]
  BY <1>1, PipeTyped, ElementTypes, TypeOKParts DEF Base, TypeInv
<1>3. /\ op' = [op EXCEPT ![t].pending_commit = Shards,
                          ![t].pending_read = {},
                          ![t].remote_read = {},
                          ![t].on_write = <<>>]
      /\ cache' = [c \in Cells |->
                     IF o.using_cache /\ c \in w
                     THEN [cache[c] EXCEPT !.content = Written(o, c)]
                     ELSE cache[c]]
      /\ log' = IF o.version = 0 THEN log
                ELSE log \cup {[version |-> o.version, plan |-> o.plan,
                                read |-> Read(o)]}
      /\ UNCHANGED <<waiting_state, cache_invalid, next_tid>> /\ checking'
  BY <1>1 DEF try_reads_to_commit
<1>4. \A c \in Cells : Written(o, c) = {o.version} \cup Now(c)
  BY TurnWrites
<1>5. t = Line[1] /\ 1 \in DOMAIN Line
  BY <1>1, ReadsToCommitLine DEF Base
<1>6. \A e \in log : e.version \in Nat /\ (o.version # 0 => e.version < o.version)
  <2>1. o.version # 0 => o.version \in Pend(op[Line[1]])
    BY <1>5 DEF Pend
  <2>2. \A e \in log : e.version \in Ready
    BY DEF Ready, versions
  <2>3. \A e \in log : e.version \in Nat
    BY VersionNat DEF Base, TypeInv
  <2> HIDE DEF o
  <2> QED
    BY <1>5, <2>1, <2>2, <2>3 DEF LogInv, OrderInv, Precede
<1>7. o.version = 0 => Touched(o.plan) = {}
  BY <1>2 DEF CacheInv, PlanInv, Touched, NoPlan
<1>8. cache \in [Cells -> CacheEntry]
  BY DEF Base, TypeInv, TypeOK
<1> HIDE DEF t, m
<1>9. /\ DOMAIN op' = DOMAIN op
      /\ \A u \in DOMAIN op : u # t => op'[u] = op[u]
      /\ op'[t].plan = o.plan /\ op'[t].version = o.version
      /\ op'[t].using_cache = o.using_cache
  BY <1>2, <1>3 DEF OpRecord
<1> HIDE DEF o, w
<1>10. \A c \in Cells :
         /\ cache'[c].pin = cache[c].pin
         /\ o.using_cache /\ c \in w => cache'[c].content = {o.version} \cup Now(c)
         /\ ~(o.using_cache /\ c \in w) => cache'[c] = cache[c]
  BY <1>3, <1>4, <1>8 DEF CacheEntry
<1>11. m \in Nat
  BY <1>1 DEF m
<1> QED
  BY <1>1, <1>2, <1>3, <1>6, <1>7, <1>9, <1>10, <1>11 DEF m, t, o, w

(* What the cells hold then.                                               *)
LEMMA TurnNow ==
  ASSUME Base, LogInv, CacheInv, try_reads_to_commit, NEW c \in Cells
  PROVE  LET o == op[Pipe[Sent + 1]]
         IN /\ c \in Touched(o.plan) => Now(c)' = {o.version} \cup Now(c)
            /\ c \notin Touched(o.plan) => Now(c)' = Now(c)
<1> DEFINE o == op[Pipe[Sent + 1]]
           e == [version |-> o.version, plan |-> o.plan, read |-> Read(o)]
<1>1. /\ o.version = 0 => log' = log /\ Touched(o.plan) = {}
      /\ o.version # 0 => log' = log \cup {e}
  BY TurnStep
<1>2. e.version = o.version /\ e.plan = o.plan
  OBVIOUS
<1> HIDE DEF e, o
<1>3. CASE o.version = 0
  BY <1>1, <1>3 DEF Now, o
<1>4. CASE o.version # 0
  <2>1. log' = log \cup {e}
    BY <1>1, <1>4
  <2>2. c \in Touched(o.plan) => Now(c)' = {o.version} \cup Now(c)
    BY <1>2, <2>1 DEF Now
  <2>3. c \notin Touched(o.plan) => Now(c)' = Now(c)
    BY <1>2, <2>1 DEF Now
  <2> QED
    BY <2>2, <2>3 DEF o
<1> QED
  BY <1>3, <1>4

(* The write that is appended has read the latest of everything.           *)
LEMMA TurnLatest ==
  ASSUME Base, LogInv, CacheInv, try_reads_to_commit
  PROVE  ReadsLatest'
<1> DEFINE o == op[Pipe[Sent + 1]]
           v == o.version
           e == [version |-> v, plan |-> o.plan, read |-> Read(o)]
<1>1. /\ v = 0 => log' = log
      /\ v # 0 => log' = log \cup {e}
      /\ \A x \in log : x.version \in Nat /\ (v # 0 => x.version < v)
      /\ o \in OpRecord
  BY TurnStep
<1>2. e.version = v /\ e.plan = o.plan /\ e.read = Read(o)
  OBVIOUS
<1>3. o.plan.to_read \subseteq Cells /\ v \in Nat
      /\ o.plan.to_read \subseteq o.plan.will_write
  <2>1. Pipe[Sent + 1] \in DOMAIN op
    BY TurnStep
  <2> QED
    BY <1>1, <2>1 DEF OpRecord, PlanSet, CacheInv, PlanInv
<1>4. \A c \in Cells : c \in o.plan.to_read => Read(o)[c] = Now(c)
  BY TurnReads
<1> HIDE DEF o, v, e
<1>5. CASE v = 0
  BY <1>1, <1>5 DEF ReadsLatest, CacheInv, Content
<1>6. CASE v # 0
  <2> SUFFICES ASSUME NEW x \in log', NEW c \in x.plan.to_read
               PROVE  x.read[c] = Content(c, x.version)' \ {x.version}
    BY DEF ReadsLatest
  <2>1. CASE x \in log
    <3>1. ~(v <= x.version)
      BY <1>1, <1>3, <1>6, <2>1
    <3>2. Content(c, x.version)' = Content(c, x.version)
      BY <1>1, <1>2, <1>6, <3>1 DEF Content
    <3>3. x.read[c] = Content(c, x.version) \ {x.version}
      BY <2>1 DEF CacheInv, ReadsLatest
    <3> QED
      BY <3>2, <3>3
  <2>2. CASE x = e
    <3>1. c \in Cells /\ c \in o.plan.to_read /\ c \in o.plan.will_write
      BY <1>2, <1>3, <2>2
    <3>2. e.read[c] = Now(c)
      BY <1>2, <1>4, <3>1
    <3>3. \A y \in log : y.version <= x.version /\ y.version # x.version
      BY <1>1, <1>2, <1>3, <1>6, <2>2
    <3>4. x.version <= x.version /\ x.version = v
      BY <1>2, <1>3, <2>2
    <3>5. Content(c, x.version)' \ {x.version} = Now(c)
      <4>0. c \in x.plan.will_write \cup x.plan.wipes
        BY <1>2, <2>2, <3>1
      <4>1. \A k : k \in Content(c, x.version)' <=> k \in Now(c) \/ k = x.version
        BY <1>1, <1>6, <2>2, <3>3, <3>4, <4>0 DEF Content, Now, Touched
      <4>2. x.version \notin Now(c)
        BY <3>3 DEF Now
      <4> QED
        BY <4>1, <4>2
    <3> QED
      BY <2>2, <3>2, <3>5
  <2> QED
    BY <1>1, <1>6, <2>1, <2>2
<1> QED
  BY <1>5, <1>6

(* Behind it, what was right to read still is.                             *)
LEMMA TurnRight ==
  ASSUME Base, LogInv, CacheInv, try_reads_to_commit,
         NEW j \in DOMAIN Pipe, Sent + 1 < j
  PROVE  ReadsRight(j)'
<1> DEFINE m == Sent + 1
           t == Pipe[m]
           o == op[t]
           n == op[Pipe[j]]
<1>1. /\ m \in DOMAIN Pipe /\ m \in Nat /\ Sent \in Nat /\ Pipe' = Pipe /\ Sent' = m
      /\ t \in DOMAIN op /\ o \in OpRecord
      /\ \A u \in DOMAIN op : u # t => op'[u] = op[u]
      /\ op'[t].plan = o.plan /\ op'[t].using_cache = o.using_cache
      /\ \A c \in Cells :
           /\ o.using_cache /\ c \in o.plan.will_write =>
                cache'[c].content = {o.version} \cup Now(c)
           /\ ~(o.using_cache /\ c \in o.plan.will_write) => cache'[c] = cache[c]
      /\ o.version = 0 => log' = log /\ Touched(o.plan) = {}
      /\ o.version # 0 =>
           log' = log \cup {[version |-> o.version, plan |-> o.plan, read |-> Read(o)]}
  BY TurnStep
<1>2. \A e \in log' : e \in log \/ e.plan = o.plan
  BY <1>1
<1>3. /\ \A i \in DOMAIN Pipe : Pipe[i] \in DOMAIN op /\ i \in Nat
      /\ Distinct(Pipe)
  BY PipeTyped DEF Base
<1>4. \A c \in Cells : /\ c \in Touched(o.plan) => Now(c)' = {o.version} \cup Now(c)
                       /\ c \notin Touched(o.plan) => Now(c)' = Now(c)
  BY TurnNow
<1>5. op'[Pipe'[j]] = n /\ n \in OpRecord
  <2>1. m # j
    BY <1>1, <1>3
  <2>2. Pipe[j] # t
    BY <1>1, <2>1, <1>3 DEF Distinct
  <2> HIDE DEF t
  <2> QED
    BY <1>1, <1>3, <2>2, ElementTypes DEF Base
<1>6. ReadsRight(j) /\ Sent < j /\ Sent < m /\ m < j
  <2>1. Sent < j /\ Sent < m /\ m < j
    BY <1>1, <1>3
  <2> HIDE DEF m
  <2> QED
    BY <2>1 DEF CacheInv, ReadInv
<1>7. \A i \in DOMAIN Pipe : /\ op'[Pipe[i]].plan = op[Pipe[i]].plan
                             /\ op'[Pipe[i]].using_cache = op[Pipe[i]].using_cache
                             /\ Cached(op'[Pipe[i]]) <=> Cached(op[Pipe[i]])
  <2> HIDE DEF t, m
  <2>1. \A i \in DOMAIN Pipe : /\ op'[Pipe[i]].plan = op[Pipe[i]].plan
                               /\ op'[Pipe[i]].using_cache = op[Pipe[i]].using_cache
    BY <1>1, <1>3
  <2> QED
    BY <2>1 DEF Cached
<1>8. n.plan.to_read # {} => Cached(o)
  BY <1>1, <1>6 DEF ReadsRight
<1>9. n.pending_read \subseteq Cells /\ n.remote_read \subseteq Cells
  BY <1>5 DEF OpRecord
<1>10. \A c \in n.pending_read \cup n.remote_read : n.plan.to_read # {}
  BY <1>6 DEF ReadsRight
<1> HIDE DEF o, t, m
<1>11. \A i \in DOMAIN Pipe : m < i => Sent < i
  BY <1>1, <1>3 DEF m
<1>12. /\ n.plan.to_read = n.pending_read \cup n.remote_read
       /\ n.plan.to_read # {} =>
            /\ n.using_cache
            /\ \A i \in DOMAIN Pipe : m < i /\ i < j => Cached(op'[Pipe[i]])
       /\ n.read_done => n.read_from <= n.read_at
  BY <1>6, <1>7, <1>11 DEF ReadsRight
<1>13. ASSUME NEW c \in n.remote_read
       PROVE  /\ \A i \in DOMAIN Pipe :
                   m < i /\ i < j => c \notin op'[Pipe[i]].plan.will_write
              /\ \A e \in log' : e.version > n.read_from => c \notin Touched(e.plan)
  <2>1. c \notin o.plan.will_write
    BY <1>1, <1>6 DEF ReadsRight, o, t
  <2>2. c \notin Touched(o.plan)
    BY <1>8, <1>10, <2>1 DEF Cached, Touched
  <2> QED
    BY <1>2, <1>6, <1>7, <1>11, <2>2 DEF ReadsRight
<1>14. ASSUME NEW c \in n.pending_read
       PROVE  \/ cache'[c].content = Now(c)'
              \/ \E i \in DOMAIN Pipe : /\ m < i /\ i < j
                                        /\ c \in op'[Pipe[i]].plan.will_write
  <2>1. Cached(o) /\ c \in Cells
    BY <1>8, <1>9, <1>10
  <2>2. CASE c \in o.plan.will_write
    <3>1. c \in Touched(o.plan) /\ o.using_cache
      BY <2>1, <2>2 DEF Touched, Cached
    <3>2. Now(c)' = {o.version} \cup Now(c)
      BY <1>4, <2>1, <3>1
    <3>3. cache'[c].content = {o.version} \cup Now(c)
      BY <1>1, <2>1, <2>2, <3>1
    <3> QED
      BY <3>2, <3>3
  <2>3. CASE c \notin o.plan.will_write
    <3>1. c \notin Touched(o.plan)
      BY <2>1, <2>3 DEF Touched, Cached
    <3>2. Now(c)' = Now(c) /\ cache'[c] = cache[c]
      BY <1>1, <1>4, <2>1, <2>3, <3>1
    <3>3. ASSUME NEW i \in DOMAIN Pipe, Sent < i, i < j,
                 c \in op[Pipe[i]].plan.will_write
          PROVE  m < i /\ c \in op'[Pipe[i]].plan.will_write
      <4>1. i # m
        BY <2>3, <3>3 DEF o, t
      <4>2. m < i
        BY <1>1, <1>3, <3>3, <4>1 DEF m
      <4> QED
        BY <1>7, <3>3, <4>2
    <3> QED
      BY <1>6, <3>2, <3>3 DEF ReadsRight
  <2> QED
    BY <2>2, <2>3
<1> HIDE DEF n
<1> QED
  BY <1>1, <1>5, <1>12, <1>13, <1>14 DEF ReadsRight
(* try_reads_to_commit keeps the cache right. *)
LEMMA ReadsToCommitCache ==
  ASSUME Base, LogInv, CacheInv, try_reads_to_commit
  PROVE  CacheInv'
<1> DEFINE m == Sent + 1
           t == Pipe[m]
           o == op[t]
<1>1. /\ m \in DOMAIN Pipe /\ m \in Nat /\ Sent \in Nat /\ Pipe' = Pipe /\ Sent' = m
      /\ t \in DOMAIN op /\ o \in OpRecord /\ DOMAIN op' = DOMAIN op
      /\ \A u \in DOMAIN op : u # t => op'[u] = op[u]
      /\ op'[t].plan = o.plan /\ op'[t].version = o.version
      /\ op'[t].using_cache = o.using_cache
      /\ UNCHANGED <<waiting_state, cache_invalid, next_tid>> /\ checking'
  BY TurnStep
<1>2. \A c \in Cells :
        /\ cache'[c].pin = cache[c].pin
        /\ o.using_cache /\ c \in o.plan.will_write =>
             cache'[c].content = {o.version} \cup Now(c)
        /\ ~(o.using_cache /\ c \in o.plan.will_write) => cache'[c] = cache[c]
  BY TurnStep
<1>3. /\ \A i \in DOMAIN Pipe : Pipe[i] \in DOMAIN op /\ i \in Nat
      /\ Distinct(Pipe)
      /\ \A i \in DOMAIN waiting_state, j \in DOMAIN Pipe : waiting_state[i] # Pipe[j]
      /\ \A i \in DOMAIN waiting_state : waiting_state[i] \in DOMAIN op
  BY PipeTyped, TypeOKParts DEF Base, TypeInv, Known
<1>4. SameWrites
  <2> HIDE DEF t, m
  <2> QED
    BY <1>1, <1>3 DEF SameWrites
<1>5. HeadInv'
  <2>1. /\ t = Head(waiting_reads) /\ t \in Nat
        /\ o.version \in Nat /\ o.roll_forward_to \in Nat
        /\ Publish(t, o.version, o.roll_forward_to, FALSE)
    BY ReadsToCommitPipe, ReadsToCommitPublishes DEF Base
  <2>2. \A e \in log' : e \in log \/ e.version = o.version
    <3>1. /\ o.version = 0 => log' = log
          /\ o.version # 0 =>
               log' = log \cup {[version |-> o.version, plan |-> o.plan, read |-> Read(o)]}
      BY TurnStep
    <3> QED
      BY <3>1
  <2> HIDE DEF t, o
  <2> QED
    BY <2>1, <2>2, PublishHead DEF Base, TypeInv, CacheInv
<1> HIDE DEF o, t, m
<1>6. PinInv'
  <2>1. \A i \in DOMAIN Pipe, c \in Cells :
          Writes(op'[Pipe[i]], c) <=> Writes(op[Pipe[i]], c)
    BY <1>4 DEF SameWrites, Writes
  <2>2. ASSUME NEW c \in Cells, cache'[c].pin = 0
        PROVE  cache'[c] = Unpinned
    <3>1. ~(o.using_cache /\ c \in o.plan.will_write)
      <4> SUFFICES ASSUME Writes(o, c) PROVE FALSE
        BY DEF Writes
      <4>1. PICK k \in DOMAIN Pipe : cache[c].pin = Pipe[k]
        BY <1>1 DEF CacheInv, PinInv, o, t
      <4>2. Pipe[k] # 0
        BY <1>3 DEF CacheInv, DrainInv
      <4> QED
        BY <1>2, <2>2, <4>1, <4>2
    <3>2. cache'[c] = cache[c]
      BY <1>2, <3>1
    <3> QED
      BY <2>2, <3>2 DEF CacheInv, PinInv
  <2> QED
    BY <1>1, <1>2, <2>1, <2>2 DEF CacheInv, PinInv
<1>7. PlanInv'
  <2>1. ASSUME NEW u \in DOMAIN op
        PROVE  /\ op'[u].version = 0 => op'[u].plan = NoPlan
               /\ op'[u].plan.to_read \subseteq op'[u].plan.will_write
    <3>1. op'[u].version = op[u].version /\ op'[u].plan = op[u].plan
      BY <1>1 DEF o
    <3> QED
      BY <3>1 DEF CacheInv, PlanInv
  <2>2. \A i \in DOMAIN waiting_state : waiting_state[i] # t
    BY <1>1, <1>3 DEF t
  <2> QED
    BY <1>1, <1>3, <2>1, <2>2 DEF CacheInv, PlanInv
<1>8. DrainInv'
  BY <1>1 DEF CacheInv, DrainInv
<1>9. ReadInv'
  <2>1. ASSUME ~cache_invalid', NEW j \in DOMAIN Pipe
        PROVE  /\ Cached(op'[Pipe[j]])
               /\ j <= m => \A c \in op'[Pipe[j]].plan.will_write :
                                  cache'[c].content = Now(c)'
    <3>1. op'[Pipe[j]].plan = op[Pipe[j]].plan
          /\ op'[Pipe[j]].using_cache = op[Pipe[j]].using_cache
      BY <1>4 DEF SameWrites
    <3>2. Cached(op[Pipe[j]]) /\ Cached(o)
      BY <1>1, <2>1 DEF CacheInv, ReadInv, o, t
    <3>3. ASSUME j <= m, NEW c \in op[Pipe[j]].plan.will_write
          PROVE  cache'[c].content = Now(c)'
      <4>1. c \in Cells
        BY <1>3, <3>3, ElementTypes DEF Base, OpRecord, PlanSet
      <4>2. /\ c \in Touched(o.plan) => Now(c)' = {o.version} \cup Now(c)
            /\ c \notin Touched(o.plan) => Now(c)' = Now(c)
        BY <4>1, TurnNow DEF o, t, m
      <4>3. CASE c \in o.plan.will_write
        <5>1. c \in Touched(o.plan) /\ o.using_cache
          BY <3>2, <4>3 DEF Touched, Cached
        <5>2. cache'[c].content = {o.version} \cup Now(c)
          BY <1>2, <4>1, <4>3, <5>1
        <5> QED
          BY <4>2, <5>1, <5>2
      <4>4. CASE c \notin o.plan.will_write
        <5>1. c \notin Touched(o.plan)
          BY <3>2, <4>4 DEF Touched, Cached
        <5>2. cache'[c] = cache[c]
          BY <1>2, <4>1, <4>4
        <5>3. j # m
          BY <3>3, <4>4 DEF o, t
        <5>4. j <= Sent
          BY <1>1, <1>3, <3>3, <5>3 DEF m
        <5>5. cache[c].content = Now(c)
          BY <1>1, <2>1, <3>3, <5>4 DEF CacheInv, ReadInv
        <5> QED
          BY <4>2, <5>1, <5>2, <5>5
      <4> QED
        BY <4>3, <4>4
    <3> QED
      BY <3>1, <3>2, <3>3 DEF Cached
  <2>2. ASSUME NEW j \in DOMAIN Pipe, m < j PROVE ReadsRight(j)'
    BY <2>2, TurnRight DEF m
  <2> QED
    BY <1>1, <2>1, <2>2 DEF ReadInv
<1> QED
  BY <1>5, <1>6, <1>7, <1>8, <1>9, TurnLatest DEF CacheInv
-----------------------------------------------------------------------------
(* A change of interval empties the pipe and the cache, and cuts the log.  *)
LEMMA ChangeCache ==
  ASSUME Base, CacheInv, NEW h \in {0} \cup {e.version : e \in log}, on_change(h)
  PROVE  CacheInv'
<1>1. /\ waiting_state' = <<>> /\ waiting_reads' = <<>> /\ waiting_commit' = <<>>
      /\ op' = <<>> /\ cache' = Released(DOMAIN op) /\ cache_invalid' = FALSE
      /\ sent' = <<>> /\ handled' = [s \in Shards |-> 0]
      /\ head' = [s \in Shards |-> h] /\ log' = {e \in log : e.version <= h}
      /\ UNCHANGED <<checking, next_tid>>
  BY DEF on_change
<1>2. DOMAIN <<>> = {} /\ Len(<<>>) = 0
  OBVIOUS
<1>3. Pipe' = <<>> /\ DOMAIN op' = {} /\ DOMAIN Pipe' = {}
  BY <1>1, <1>2 DEF Pipe
<1>4. \A c \in Cells : cache'[c] = Unpinned
  <2> SUFFICES ASSUME NEW c \in Cells, cache[c].pin \notin DOMAIN op
               PROVE  cache[c] = Unpinned
    BY <1>1 DEF Released
  <2>1. cache[c].pin = 0
    BY PipeTyped DEF Base, CacheInv, PinInv
  <2> QED
    BY <2>1 DEF CacheInv, PinInv
<1>5. PinInv'
  BY <1>3, <1>4 DEF PinInv, Unpinned
<1>6. DrainInv' /\ ReadInv' /\ PlanInv'
  BY <1>1, <1>2, <1>3 DEF CacheInv, DrainInv, ReadInv, PlanInv
<1>7. HeadInv'
  BY <1>1, <1>2 DEF HeadInv
<1>8. ReadsLatest'
  <2> SUFFICES ASSUME NEW x \in log', NEW c \in x.plan.to_read
               PROVE  x.read[c] = Content(c, x.version)' \ {x.version}
    BY DEF ReadsLatest
  <2>1. x \in log /\ x.version <= h /\ x.version \in Nat
    BY <1>1, VersionNat DEF Base, TypeInv
  <2>2. \A y \in log : y.version \in Nat /\ (y.version <= x.version => y.version <= h)
    <3>1. \A y \in log : y.version \in Nat
      BY VersionNat DEF Base, TypeInv
    <3>2. h \in Nat
      BY VersionNat DEF Base, TypeInv
    <3> QED
      BY <2>1, <3>1, <3>2
  <2>3. Content(c, x.version)' = Content(c, x.version)
    BY <1>1, <2>2 DEF Content
  <2> QED
    BY <2>1, <2>3 DEF CacheInv, ReadsLatest
<1> QED
  BY <1>5, <1>6, <1>7, <1>8 DEF CacheInv

(* A new primary has nothing under way. *)
LEMMA InitCache == Init => CacheInv
<1> SUFFICES ASSUME Init PROVE CacheInv
  OBVIOUS
<1>1. DOMAIN <<>> = {} /\ Len(<<>>) = 0
  OBVIOUS
<1>2. Pipe = <<>> /\ DOMAIN Pipe = {} /\ DOMAIN op = {}
  BY <1>1 DEF Init, Pipe
<1>3. PinInv
  BY <1>2 DEF Init, PinInv, Unpinned
<1>4. DrainInv /\ ReadInv /\ PlanInv
  BY <1>1, <1>2 DEF Init, DrainInv, ReadInv, PlanInv
<1>5. HeadInv /\ ReadsLatest
  BY <1>1 DEF Init, HeadInv, ReadsLatest
<1> QED
  BY <1>3, <1>4, <1>5 DEF CacheInv

(* Every step keeps the cache right. *)
LEMMA NextCache ==
  ASSUME Base, LogInv, CacheInv, [Next]_vars
  PROVE  CacheInv'
<1>1. CASE \E p \in Plans : submit_transaction(p)
  BY <1>1, SubmitCache
<1>2. CASE submit_log_entries
  BY <1>2, LogEntriesCache
<1>3. CASE RunOnWrite
  BY <1>3, RunOnWriteCache
<1>4. CASE try_state_to_reads
  BY <1>4, StateToReadsCache
<1>5. CASE try_reads_to_commit
  BY <1>5, ReadsToCommitCache
<1>6. CASE try_finish_rmw
  BY <1>6, FinishCache
<1>7. CASE check_ops_done \/ UNCHANGED vars
  BY <1>7, ShardCache
<1>8. CASE \E t \in DOMAIN op, v \in {0} \cup {e.version : e \in log} :
             RemoteReadDone(t, v)
  BY <1>8, RemoteReadCache
<1>9. CASE \E s \in Shards : handle_sub_write(s) \/ sub_write_committed(s)
  BY <1>9, ShardCache
<1>10. CASE \E s \in Shards : handle_sub_write_reply(s) \/ do_update_log_missing_reply(s)
  BY <1>10, ReplyCache
<1>11. CASE \E h \in {0} \cup {e.version : e \in log} : on_change(h)
  BY <1>11, ChangeCache
<1> QED
  BY <1>1, <1>2, <1>3, <1>4, <1>5, <1>6, <1>7, <1>8, <1>9, <1>10, <1>11 DEF Next

(* The cache's invariant holds in every reachable state.                   *)
THEOREM CacheInvariant == Spec => [](Base /\ LogInv /\ CacheInv)
<1>1. Init => CacheInv
  BY InitCache
<1>2. (Base /\ LogInv) /\ CacheInv /\ [Next]_vars => CacheInv'
  BY NextCache
<1> QED
  BY <1>1, <1>2, LogInvariant, PTL DEF Spec

(* A read-modify-write sees every earlier write of what it reads and no    *)
(* other, from the extent cache or from the shards (try_state_to_reads,    *)
(* try_reads_to_commit, ExtentCache).                                      *)
THEOREM ReadsAreLatest == Spec => []ReadsLatest
<1>1. Base /\ LogInv /\ CacheInv => ReadsLatest
  BY DEF CacheInv
<1> QED
  BY <1>1, CacheInvariant, PTL

(* Outside check_ops the pipeline is never stuck, and an empty one leaves  *)
(* no operation, no pin and a valid cache behind.                          *)
THEOREM PipelineAlwaysDrains == Spec => []PipelineDrains
<1>1. Base /\ LogInv /\ CacheInv => PipelineDrains
  <2> SUFFICES ASSUME Base, CacheInv, LockFree PROVE PipelineDrains
    BY DEF PipelineDrains
  <2>1. /\ waiting_commit = <<>> /\ waiting_reads = <<>> <=> Pipe = <<>>
        /\ DOMAIN Pipe = {} <=> Pipe = <<>>
    BY PipeOf DEF Base
  <2>2. waiting_state = <<>> \/ cache_invalid
    BY DEF LockFree, CacheInv, DrainInv
  <2>3. waiting_state # <<>> => waiting_reads # <<>> \/ waiting_commit # <<>>
    BY <2>1, <2>2 DEF CacheInv, DrainInv
  <2>4. ASSUME waiting_state = <<>>, waiting_reads = <<>>, waiting_commit = <<>>
        PROVE  DOMAIN op = {} /\ (\A c \in Cells : cache[c] = Unpinned) /\ ~cache_invalid
    <3>1. Pipe = <<>> /\ DOMAIN Pipe = {}
      BY <2>1, <2>4
    <3>2. DOMAIN waiting_state = {}
      <4>1. DOMAIN <<>> = {}
        OBVIOUS
      <4> QED
        BY <2>4, <4>1
    <3>3. DOMAIN op = {} /\ ~cache_invalid
      BY <3>1, <3>2 DEF CacheInv, DrainInv
    <3>4. \A c \in Cells : cache[c] = Unpinned
      BY <3>1 DEF CacheInv, PinInv
    <3> QED
      BY <3>3, <3>4
  <2> QED
    BY <2>3, <2>4 DEF PipelineDrains
<1> QED
  BY <1>1, CacheInvariant, PTL
=============================================================================
