-------------------------- MODULE WriterLifecycle --------------------------
(***************************************************************************)
(* The writing front end: Writer and append_spatial_index (writer.py),     *)
(* over the point writer of ChunkWriter and the file object both write to. *)
(*                                                                         *)
(* close() is cut where it can be stopped: a call of the file object may   *)
(* raise, an interrupt may arrive between two calls, and the process may   *)
(* end at any step, which leaves what is on the disk then.  A file the     *)
(* writer opened itself is seen through its file object, whose own buffer  *)
(* is left out.                                                            *)
(*                                                                         *)
(* In front of the points are three units: the header, the record that     *)
(* leads a disguised file ("lascompatible"; any record in another) and the *)
(* one that says how the points are compressed ("laszip"), which is last.  *)
(* A header is the legacy count, the count of LAS 1.4, the points counted  *)
(* by return number, and where the extended records are and how many.      *)
(* Bounds and the fields a caller sets are left out, but for whether the   *)
(* header still has the length it was declared with.                       *)
(***************************************************************************)
EXTENDS Overlays, SequencesExt

CONSTANTS Layouts,      \* what to write: ChunkWriter's fields, `las` and `owned`
          U32_MAX, ALLOC, FILE_BUF_SIZE, Rooms, Seeks, Ooms, MaxPoints,
          Keys,         \* what an extended record may be found by
          MaxRecords,   \* bound: extended records at once
          MaxIndexes    \* bound: spatial indexes appended to one file

VARIABLES layout, wp, state, index, offered, written, out,   \* ChunkWriter's
          self,    \* the Writer
          frame    \* where close() or append_spatial_index() is, and its locals

core == <<layout, wp, state, index, offered, written>>
vars == <<core, out, self, frame>>

Blank   == <<"header", 0, 0, 0, 0, 0>>
Preface == <<Blank, <<"lascompatible", 0>>, <<"laszip", -1>>>>

\* (The provers are not told that a literal is in STRING.)
ASSUME LifecycleAssumption ==
    /\ U32_MAX \in Nat \ {0}
    /\ \A l \in Layouts : /\ l.compressor \in {"none", "pointwise", "chunked", "layered"}
                         /\ l.chunk_size \in 0 .. U32_MAX
                         /\ l.seekable \in BOOLEAN
    /\ ALLOC \in Nat \ {0} /\ FILE_BUF_SIZE \in Nat \ {0}
    /\ Rooms \subseteq Nat /\ Seeks \subseteq Nat /\ MaxPoints \in Nat
    /\ Ooms \subseteq {"start", "encode", "layer", "table", "ic"}
    /\ {"header", "lascompatible", "laszip"} \subseteq STRING

Core == INSTANCE ChunkWriter

\* The versions of a file: a legacy format in LAS 1.2 or in LAS 1.4, one of
\* LAS 1.4 as it is, and one in the disguise of a legacy format.
LAS14(l)     == l.las \in {"legacy14", "extended14"}
Disguised(l) == l.las = "disguised"
Legacy(l)    == l.las # "extended14"

-----------------------------------------------------------------------------
(* The file object. *)

Written(s, unit) ==
    IF s.room = 0 THEN s
    ELSE [s EXCEPT !.disk = Overlay(@, s.at, <<unit>>), !.at = @ + 1, !.room = @ - 1]

Moved(s, position) ==
    IF s.seeks = 0 THEN s ELSE [s EXCEPT !.at = position, !.seeks = @ - 1]

\* A mutant: the handle is put back only when nothing was raised.
Patched_unless_raised(s, position, unit) ==
    LET wrote == Written(Moved(s, position), unit)
    IN  IF s.seeks = 0 THEN [stream |-> s, ok |-> FALSE]
        ELSE IF s.room = 0 THEN [stream |-> wrote, ok |-> FALSE]
        ELSE [stream |-> Moved(wrote, s.at), ok |-> wrote.seeks > 0]

\* One unit rewritten in place, the handle put back whatever was raised.
Patched(s, position, unit) ==
    LET there == Moved(s, position)
        wrote == IF s.seeks = 0 THEN there ELSE Written(there, unit)
    IN  [stream |-> Moved(wrote, s.at),
         ok |-> s.seeks > 0 /\ s.room > 0 /\ wrote.seeks > 0]

\* A file object that is closed takes nothing more.
Shut(s) == [s EXCEPT !.room = 0, !.seeks = 0]

-----------------------------------------------------------------------------
(* What close() asks. *)

\* _records: two records under one key are refused.
Keyed(records) == IsInjective(records)

\* _check_extended.
Addressable(records) == records = <<>> \/ LAS14(layout)

\* A mutant: the records are left to be checked when they are written.
Closable_header_only == self.fits

\* _check_closable, which nothing was done before.
Closable == Keyed(self.evlrs) /\ Addressable(self.evlrs) /\ self.fits

\* The header with what the points implied.  A legacy count too large for its
\* field is zero, and so is that of the formats of LAS 1.4.
HeaderNow ==
    LET legacy == Legacy(layout) /\ index <= U32_MAX
    IN  <<"header", IF legacy THEN index ELSE 0,
          IF LAS14(layout) THEN index ELSE 0,
          IF legacy \/ LAS14(layout) THEN self.tallied ELSE 0,
          self.ext.start, self.ext.number>>

-----------------------------------------------------------------------------
At(pc) == frame.pc = pc
Goes(pc) == frame' = [frame EXCEPT !.pc = pc]

\* `closed`, `failure`, `evlrs` and the header fields `ext` are the Writer's,
\* `tallied` counts the points in the point writer's by_return, and `raised`
\* is a history of whether a close that got past its checks has raised.
Init == /\ Core!Init
        /\ self = [closed |-> FALSE, failure |-> "none", raised |-> FALSE,
                   evlrs |-> <<>>, fits |-> TRUE, tallied |-> 0,
                   ext |-> [start |-> 0, number |-> 0]]
        /\ frame = [pc |-> IF state = "open" THEN "idle" ELSE "gone",
                    start |-> 0, rest |-> <<>>]

\* A point is tallied before it is written, whatever becomes of it.
write == /\ At("idle") /\ Core!Writer_write
         /\ self' = [self EXCEPT !.tallied = @ + 1]
         /\ UNCHANGED frame

chunk == At("idle") /\ Core!Writer_chunk /\ UNCHANGED <<self, frame>>

\* write() and chunk() once the point writer is spent.
write_refused == At("idle") /\ Core!Refuse /\ UNCHANGED <<self, frame>>

\* The caller edits writer.header and writer.evlrs until the file is closed.
Edit == /\ At("idle") /\ state = "open"
        /\ \/ self' = [self EXCEPT !.fits = ~@]
           \/ /\ Len(self.evlrs) < MaxRecords
              /\ \E k \in Keys : self' = [self EXCEPT !.evlrs = Append(@, k)]
           \/ self.evlrs # <<>> /\ self' = [self EXCEPT !.evlrs = Front(@)]
        /\ UNCHANGED <<core, out, frame>>

\* The Writer is collected without having been closed, or after.
Dropped == At("idle") /\ Core!Dropped /\ Goes("gone") /\ UNCHANGED self

-----------------------------------------------------------------------------
(* close(). *)

close_refused == /\ At("idle")
                 /\ self.failure # "none" \/ (~self.closed /\ ~Closable)
                 /\ out' = "error"
                 /\ UNCHANGED <<core, self, frame>>

close_again == /\ At("idle") /\ self.failure = "none" /\ self.closed
               /\ out' = "ok"
               /\ UNCHANGED <<core, self, frame>>

close == /\ At("idle") /\ self.failure = "none" /\ ~self.closed /\ Closable
         /\ Goes("done") /\ out' = "none"
         /\ UNCHANGED <<core, self>>

\* The failure is kept, and what is left to do is closing the file.
Fails(why) == self' = [self EXCEPT !.failure = why] /\ Goes("file")

Spent == state # "open"

\* A mutant: the header is patched whatever became of the points.
close_done_regardless ==
    /\ At("done")
    /\ Core!Writer_done \/ Core!Refuse
    /\ Goes("records") /\ UNCHANGED self

close_done ==
    /\ At("done")
    /\ Core!Writer_done \/ Core!Refuse
    /\ IF out' = "ok" THEN Goes("records") /\ UNCHANGED self
       ELSE Fails(IF Spent THEN "spent" ELSE "file")

AfterRecords == IF Disguised(layout) THEN "counts" ELSE "header"

\* _write_extended_records starts: the records are asked about once more.
records == /\ At("records")
           /\ IF ~Keyed(self.evlrs) \/ ~Addressable(self.evlrs)
              THEN Fails("caller")
              ELSE /\ frame' = [pc |-> IF self.evlrs = <<>> THEN AfterRecords ELSE "record",
                                start |-> wp.outstream.at, rest |-> self.evlrs]
                   /\ UNCHANGED self
           /\ UNCHANGED <<core, out>>

\* A mutant: the header is aimed behind the records.
record_aimed_late ==
    LET s == wp.outstream
    IN  /\ At("record")
        /\ wp' = [wp EXCEPT !.outstream = Written(s, <<"evlr", frame.rest[1]>>)]
        /\ IF s.room = 0 THEN Fails("file")
           ELSE /\ self' = IF Len(frame.rest) > 1 THEN self
                           ELSE [self EXCEPT !.ext = [start |-> s.at,
                                                      number |-> Len(self.evlrs)]]
                /\ frame' = [frame EXCEPT !.rest = Tail(@),
                                          !.pc = IF Len(frame.rest) > 1 THEN "record"
                                                 ELSE AfterRecords]
        /\ UNCHANGED <<layout, state, index, offered, written, out>>

\* One record of them; the header is aimed at them once all are written.
record ==
    LET s    == wp.outstream
        last == Len(frame.rest) = 1
    IN  /\ At("record")
        /\ wp' = [wp EXCEPT !.outstream = Written(s, <<"evlr", frame.rest[1]>>)]
        /\ IF s.room = 0 THEN Fails("file")
           ELSE /\ self' = IF ~last THEN self
                           ELSE [self EXCEPT !.ext = [start |-> frame.start,
                                                      number |-> Len(self.evlrs)]]
                /\ frame' = [frame EXCEPT !.rest = Tail(@),
                                          !.pc = IF last THEN AfterRecords ELSE "record"]
        /\ UNCHANGED <<layout, state, index, offered, written, out>>

\* Rewrites a unit and goes on, or fails.
Patch(position, unit, next) ==
    LET patched == Patched(wp.outstream, position, unit)
    IN  /\ wp' = [wp EXCEPT !.outstream = patched.stream]
        /\ IF patched.ok THEN Goes(next) /\ UNCHANGED self ELSE Fails("file")
        /\ UNCHANGED <<layout, state, index, offered, written, out>>

\* _patch_compatibility_record, which comes before the header.
counts == At("counts") /\ Patch(1, <<"lascompatible", index>>, "header")

\* _patch_header, which packs the header when it has gone back for it.
header == /\ At("header")
          /\ IF self.fits THEN Patch(0, HeaderNow, "file")
             ELSE Fails("caller") /\ UNCHANGED <<core, out>>

\* An exception of nobody's making, KeyboardInterrupt say.
Interrupted == /\ frame.pc \in {"records", "record", "counts", "header"}
               /\ Fails("interrupt")
               /\ UNCHANGED <<core, out>>

\* _close_file, which may raise like any other call, and the end of close().
close_file ==
    \E raises \in BOOLEAN :
      LET closed == self.failure = "none" /\ ~raises
      IN  /\ At("file")
          /\ wp' = IF layout.owned THEN [wp EXCEPT !.outstream = Shut(@)] ELSE wp
          /\ self' = [self EXCEPT !.closed = closed, !.raised = @ \/ ~closed]
          /\ out' = IF closed THEN "ok" ELSE "error"
          /\ Goes("idle")
          /\ UNCHANGED <<layout, state, index, offered, written>>

-----------------------------------------------------------------------------
(* append_spatial_index(), which opens the file again, by its name. *)

Indexes(disk) == {i \in DOMAIN disk : disk[i] = <<"index">>}

append_spatial_index ==
    /\ At("idle") /\ self.closed /\ Cardinality(Indexes(wp.outstream.disk)) < MaxIndexes
    /\ IF Core!Compressed(layout)
       THEN frame' = [frame EXCEPT !.pc = "index", !.start = Len(wp.outstream.disk)]
            /\ out' = "none"
       ELSE out' = "error" /\ UNCHANGED frame
    /\ UNCHANGED <<core, self>>

\* A mutant, of two: the LASzip record first, the index behind it.
append_record_last ==
    /\ At("index")
    /\ wp' = [wp EXCEPT !.outstream.disk[3] = <<"laszip", frame.start>>]
    /\ Goes("patch")
    /\ UNCHANGED <<layout, state, index, offered, written, out, self>>

append_record ==
    /\ At("index")
    /\ wp' = [wp EXCEPT !.outstream.disk = Append(@, <<"index">>)]
    /\ Goes("patch")
    /\ UNCHANGED <<layout, state, index, offered, written, out, self>>

patch_laszip_record ==
    /\ At("patch")
    /\ wp' = [wp EXCEPT !.outstream.disk[3] = <<"laszip", frame.start>>]
    /\ Goes("idle") /\ out' = "ok"
    /\ UNCHANGED <<layout, state, index, offered, written, self>>

append_interrupted ==
    /\ frame.pc \in {"index", "patch"}
    /\ Goes("idle") /\ out' = "error"
    /\ UNCHANGED <<core, self>>

-----------------------------------------------------------------------------
Next == \/ write \/ chunk \/ write_refused \/ Edit \/ Dropped
        \/ close_refused \/ close_again \/ close \/ close_done
        \/ records \/ record \/ counts \/ header \/ Interrupted \/ close_file
        \/ append_spatial_index \/ append_record \/ patch_laszip_record
        \/ append_interrupted

Spec == Init /\ [][Next]_vars

-----------------------------------------------------------------------------
(* What is right about it. *)

Disk == wp.outstream.disk

\* The number of points a Reader finds stated (_read_las_header,
\* _upgrade_to_las_14).
Stated ==
    IF Disguised(layout) THEN Disk[2][2]
    ELSE IF LAS14(layout) /\ Disk[1][2] = 0 THEN Disk[1][3]
    ELSE Disk[1][2]

\* The file up to the extended records and the indexes.
PointBlock ==
    LET behind == {i \in DOMAIN Disk : Disk[i][1] \in {"evlr", "index"}}
    IN  IF behind = {} THEN Disk ELSE SubSeq(Disk, 1, Min(behind) - 1)

\* The file states what is in it: the points that were written, counted by
\* return number as well, and every extended record where the header says.
Whole ==
    LET start  == Disk[1][5]
        number == Disk[1][6]
    IN  /\ Stated = Len(written) /\ Disk[1][4] = Len(written)
        /\ Core!ReadsBack(layout, PointBlock)
        /\ Core!Points(Core!PointArea(layout, PointBlock)) = written
        /\ number = Len(self.evlrs) /\ start + number <= Len(Disk)
        /\ SubSeq(Disk, start + 1, start + number)
             = [i \in 1 .. number |-> <<"evlr", self.evlrs[i]>>]

\* A file whose close() returned is whole, whatever was written, corrected or
\* appended before and since, and no close of it had raised (Writer.close; "a
\* close that failed does not report success next time").
ClosedFilesAreWhole == self.closed => Whole /\ ~self.raised

\* Whenever the process ends, the header on the disk is the empty one or one
\* every word of which is true already: it is the last thing close() writes,
\* behind the table, the extended records and the counts of a disguised file
\* (Writer.close, _patch_header).
HeadersKeepTheirWord == Disk[1] # Blank => Whole

\* Once the points are finished close() fails for the file, the memory or an
\* interrupt, never over a header or a record the caller could have put right
\* (_check_closable: "asked before the point block is finished").
MistakesCostNothing == self.failure # "caller"

\* A file object the caller lent is at the end of what was written whenever
\* the points are finished, also when patching the header raised, unless it is
\* the seek back that raises (keeping_position).
HandleIsPutBack ==
    LET s == wp.outstream
    IN  state = "done" /\ ~layout.owned /\ s.seeks > 0 /\ Indexes(s.disk) = {}
          => s.at = Len(s.disk)

\* The LASzip record points to a spatial index or to none, wherever appending
\* one was interrupted (append_spatial_index).
IndexIsWhereItIsSaid ==
    LET at == Disk[3][2]
    IN  at # -1 => at < Len(Disk) /\ Disk[at + 1] = <<"index">>

=============================================================================
