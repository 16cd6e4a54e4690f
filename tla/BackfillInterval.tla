--------------------------- MODULE BackfillInterval ---------------------------
(***************************************************************************)
(* A BackfillInterval: the objects of one OSD from begin up to end, with   *)
(* their versions, as they were known at a version of the log.  Objects    *)
(* are numbers in their sort order; MinObj is hobject_t() and MaxObj       *)
(* hobject_t::get_max().  Version 0 is an object that does not exist.      *)
(***************************************************************************)
EXTENDS Naturals, FiniteSetsExt

CONSTANTS NObjects,
          ScanMax    \* osd_backfill_scan_max

ASSUME IntervalAssumption == NObjects \in Nat \ {0} /\ ScanMax \in Nat \ {0}

Object == 1 .. NObjects
MinObj == 0
MaxObj == NObjects + 1
Position == MinObj .. MaxObj

reset(o) == [begin |-> o, end |-> o, objects |-> <<>>, version |-> 0]
Objects(bi) == DOMAIN bi.objects
empty(bi) == Objects(bi) = {}
extends_to_end(bi) == bi.end = MaxObj
Keep(bi, S) == [o \in Objects(bi) \cap S |-> bi.objects[o]]
trim(bi) ==
  [bi EXCEPT !.begin = IF empty(bi) THEN bi.end ELSE Min(Objects(bi))]
trim_to(bi, o) == trim([bi EXCEPT !.objects = Keep(bi, o + 1 .. NObjects)])
pop_front(bi) ==
  trim([bi EXCEPT !.objects = Keep(bi, Object \ {Min(Objects(bi))})])

(* Listed are the objects on the disk, at most ScanMax of them; a version  *)
(* comes from the object context if there is one (seen), and an object     *)
(* that is deleted there is left out.                                      *)
scan_range(bi, onDisk, seen) ==
  LET there == {o \in bi.begin .. NObjects : o # MinObj /\ onDisk[o] # 0}
      ls    == {o \in there : Cardinality({u \in there : u < o}) < ScanMax}
  IN  [bi EXCEPT !.end = Min((there \ ls) \cup {MaxObj}),
                 !.objects = [o \in {u \in ls : seen[u] # 0} |-> seen[o]]]

(* pg: the log's tail, its last_update and projected_last_update, what is  *)
(* on the disk and seen by clients, and the objects with an entry after a  *)
(* version.  Mutant: an interval the log can still update is left alone.   *)
update_range_stale(bi, pg) ==
  IF bi.version < pg.tail
  THEN scan_range([bi EXCEPT !.version = pg.last_update], pg.disk, pg.seen)
  ELSE bi

(* The local interval is scanned when the log does not reach back to its   *)
(* version, and brought up to date from the log and the projected log.     *)
update_range(bi, pg) ==
  LET bs  == IF bi.version < pg.tail
             THEN scan_range([bi EXCEPT !.version = pg.last_update],
                             pg.disk, pg.seen)
             ELSE bi
      new == {o \in pg.touched[bs.version] : bs.begin <= o /\ o < bs.end}
  IN  [bs EXCEPT !.version = pg.projected,
                 !.objects = [o \in (Objects(bs) \ new)
                                       \cup {u \in new : pg.seen[u] # 0} |->
                                IF o \in new THEN pg.seen[o] ELSE bs.objects[o]]]
=============================================================================
