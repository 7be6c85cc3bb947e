------------------------------ MODULE ItemTrip ------------------------------
(***************************************************************************)
(* A chunk's points from the writers of their items to the readers: two    *)
(* programs, written apart, that have to predict the same of every item    *)
(* from those before it.                                                   *)
(*                                                                         *)
(* Writer and reader go in step here, an item at a time: what the writer   *)
(* puts on the tape the reader finds there.  A chunk starts with an item   *)
(* that is stored as it is and that both initialise their predictors from. *)
(*                                                                         *)
(* In versions 1 and 2 an item is coded by itself.  In versions 3 and 4 a  *)
(* point's items share a context, and a reader has the layers it was asked *)
(* for and that came to have bytes.  Which those are is settled when the   *)
(* chunk is closed and known to its reader from the start; here `carried`  *)
(* is guessed when the chunk begins, and the writer keeps to it, so that   *)
(* each behaviour is the beginning of a chunk's writing and of its reading.*)
(***************************************************************************)
EXTENDS LayeredItems

CONSTANTS MULTIMAX, MULTI, MULTI_MINUS, NUMBER,   \* see WriteItemV1, WriteItemV2
          Kinds,        \* which items, or points
          Items,        \* of each kind, those that are written
          Most,         \* of each kind, how many of them
          Memories,     \* of each kind, how many models memory may do for
          Selections    \* of each kind, which layers are [requested, carried]

VARIABLES kind,         \* what is coded
          w, r,         \* the writer and the reader of it
          carried,      \* the layers that have bytes in this chunk
          first,        \* the chunk's first item
          sent, got,    \* the last item that went through
          count         \* how many did

vars == <<kind, w, r, carried, first, sent, got, count>>

W1 == INSTANCE WriteItemV1
R1 == INSTANCE ReadItemV1
W2 == INSTANCE WriteItemV2
R2 == INSTANCE ReadItemV2
W3 == INSTANCE WriteItemV3
R3 == INSTANCE ReadItemV3

write_init(k, c, item) ==
    CASE k = "p10v1"   -> W1!p10v1_init(c, item)
      [] k = "gps11v1" -> W1!gps11v1_init(c, item)
      [] k = "rgb12v1" -> W1!rgb12v1_init(c, item)
      [] k = "bytev1"  -> W1!bytev1_init(c, item)
      [] k = "wp13v1"  -> W1!wp13v1_init(c, item)
      [] k = "p10v2"   -> W2!p10v2_init(c, item)
      [] k = "gps11v2" -> W2!gps11v2_init(c, item)
      [] k = "rgb12v2" -> W2!rgb12v2_init(c, item)
      [] k = "bytev2"  -> W2!bytev2_init(c, item)

read_init(k, c, item) ==
    CASE k = "p10v1"   -> R1!p10v1_init(c, item)
      [] k = "gps11v1" -> R1!gps11v1_init(c, item)
      [] k = "rgb12v1" -> R1!rgb12v1_init(c, item)
      [] k = "bytev1"  -> R1!bytev1_init(c, item)
      [] k = "wp13v1"  -> R1!wp13v1_init(c, item)
      [] k = "p10v2"   -> R2!p10v2_init(c, item)
      [] k = "gps11v2" -> R2!gps11v2_init(c, item)
      [] k = "rgb12v2" -> R2!rgb12v2_init(c, item)
      [] k = "bytev2"  -> R2!bytev2_init(c, item)

write(k, s, item) ==
    CASE k = "p10v1"   -> W1!p10v1_write(s, item)
      [] k = "gps11v1" -> W1!gps11v1_write(s, item)
      [] k = "rgb12v1" -> W1!rgb12v1_write(s, item)
      [] k = "bytev1"  -> W1!bytev1_write(s, item)
      [] k = "wp13v1"  -> W1!wp13v1_write(s, item)
      [] k = "p10v2"   -> W2!p10v2_write(s, item)
      [] k = "gps11v2" -> W2!gps11v2_write(s, item)
      [] k = "rgb12v2" -> W2!rgb12v2_write(s, item)
      [] k = "bytev2"  -> W2!bytev2_write(s, item)

read(k, s) ==
    CASE k = "p10v1"   -> R1!p10v1_read(s)
      [] k = "gps11v1" -> R1!gps11v1_read(s)
      [] k = "rgb12v1" -> R1!rgb12v1_read(s)
      [] k = "bytev1"  -> R1!bytev1_read(s)
      [] k = "wp13v1"  -> R1!wp13v1_read(s)
      [] k = "p10v2"   -> R2!p10v2_read(s)
      [] k = "gps11v2" -> R2!gps11v2_read(s)
      [] k = "rgb12v2" -> R2!rgb12v2_read(s)
      [] k = "bytev2"  -> R2!bytev2_read(s)

-----------------------------------------------------------------------------
(* Points of versions 3 and 4: a record of items, POINT14 first. *)

Layered == {"6v3", "6v4", "7v3", "7v4", "10v3", "10v4"}
IsV4(k) == k \in {"6v4", "7v4", "10v4"}

\* What points of LAS formats 6, 7 and 10 are, the last two with extra bytes.
LayersOf(k) ==
    [point14 |-> P14_LAYERS]
    @@ CASE k \in {"6v3", "6v4"} -> <<>>
         [] k \in {"7v3", "7v4"} -> [rgb14 |-> {"rgb"}, byte14 |-> 1 .. NUMBER]
         [] OTHER -> [rgbnir14 |-> {"rgb", "nir"}, wave14 |-> {"wavepacket"},
                      byte14 |-> 1 .. NUMBER]

write_new(k, memory) ==
    [i \in DOMAIN LayersOf(k) |->
        IF i = "point14" THEN W3!point14_new(IsV4(k), memory)
        ELSE W3!follower_new(IsV4(k), LayersOf(k)[i], memory)]

read_new(k, requested, memory) ==
    [i \in DOMAIN LayersOf(k) |->
        IF i = "point14" THEN R3!point14_new(requested[i], IsV4(k), memory)
        ELSE R3!follower_new(requested[i], IsV4(k), LayersOf(k)[i], memory)]

\* Every item is started, and written and read, in the context that POINT14 says.
write_first(s, item) ==
    LET p == W3!p14_init(s.point14, item.point14)
        First(i, Created(_, _, _)) ==
            Created(W3!follower_init(s[i], p.context), p.context, item[i])
        alone == [s EXCEPT !.point14 = p]
        extra == [alone EXCEPT !.byte14 = First("byte14", W3!byte14_create_and_init)]
    IN  CASE DOMAIN s = {"point14"} -> alone
          [] "rgb14" \in DOMAIN s ->
               [extra EXCEPT !.rgb14 = First("rgb14", W3!rgbnir14_create_and_init)]
          [] "rgbnir14" \in DOMAIN s ->
               [extra EXCEPT !.rgbnir14 = First("rgbnir14", W3!rgbnir14_create_and_init),
                             !.wave14 = First("wave14", W3!wave14_create_and_init)]

read_first(s, item, bytes) ==
    LET p == R3!p14_init(s.point14, item.point14, bytes.point14)
        First(i, Created(_, _, _)) ==
            Created(R3!follower_init(s[i], item[i], p.context, bytes[i]), p.context, item[i])
        alone == [s EXCEPT !.point14 = p]
        extra == [alone EXCEPT !.byte14 = First("byte14", R3!byte14_create_and_init)]
    IN  CASE DOMAIN s = {"point14"} -> alone
          [] "rgb14" \in DOMAIN s ->
               [extra EXCEPT !.rgb14 = First("rgb14", R3!rgbnir14_create_and_init)]
          [] "rgbnir14" \in DOMAIN s ->
               [extra EXCEPT !.rgbnir14 = First("rgbnir14", R3!rgbnir14_create_and_init),
                             !.wave14 = First("wave14", R3!wave14_create_and_init)]

write_point(s, item) ==
    With(W3!p14_write(s.point14, item.point14), LAMBDA p :
        LET alone == [s EXCEPT !.point14 = p]
            extra == [alone EXCEPT !.byte14 = W3!byte14_write(@, item.byte14, p.context)]
        IN  CASE DOMAIN s = {"point14"} -> alone
              [] "rgb14" \in DOMAIN s ->
                   [extra EXCEPT !.rgb14 = W3!rgb14_write(@, item.rgb14, p.context)]
              [] "rgbnir14" \in DOMAIN s ->
                   [extra EXCEPT !.rgbnir14 = W3!rgbnir14_write(@, item.rgbnir14, p.context),
                                 !.wave14 = W3!wave14_write(@, item.wave14, p.context)])

read_point(s) ==
    With(R3!p14_read(s.point14), LAMBDA p :
        LET alone == [s EXCEPT !.point14 = p]
            extra == [alone EXCEPT !.byte14 = R3!byte14_read(@, p.context)]
        IN  CASE DOMAIN s = {"point14"} -> alone
              [] "rgb14" \in DOMAIN s ->
                   [extra EXCEPT !.rgb14 = R3!rgb14_read(@, p.context)]
              [] "rgbnir14" \in DOMAIN s ->
                   [extra EXCEPT !.rgbnir14 = R3!rgbnir14_read(@, p.context),
                                 !.wave14 = R3!wave14_read(@, p.context)])

\* The layers' tapes: those the reader has, as the writer leaves them; none.
Loaded(s, put) ==
    [i \in DOMAIN s |->
        [s[i] EXCEPT !.layers =
            [l \in s[i].changed |-> [@[l] EXCEPT !.tape = put[i].layers[l].tape]] @@ @]]
Emptied(s) ==
    [i \in DOMAIN s |->
        [s[i] EXCEPT !.layers = [l \in DOMAIN @ |-> [@[l] EXCEPT !.tape = <<>>]]]]

\* A chunk's first point is stored as it is, POINT14 as the record.
Stored(item) == [item EXCEPT !.point14 = raw_read_point14(raw_write_point14(@))]

CodersOf(s) == IF kind \in Layered
               THEN UNION {Range(s[i].layers) : i \in DOMAIN s}
               ELSE {s.c}

-----------------------------------------------------------------------------
Init == /\ kind \in Kinds
        /\ \E item \in Items[kind], mw \in Memories[kind], mr \in Memories[kind],
              choice \in Selections[kind] :
             /\ carried = choice.carried
             /\ IF kind \in Layered
                THEN /\ w = write_first(write_new(kind, mw), item)
                     /\ r = read_first(read_new(kind, choice.requested, mr), Stored(item),
                                       carried)
                     /\ got = Stored(item)
                ELSE /\ w = write_init(kind, Coder(mw), item)
                     /\ r = read_init(kind, Coder(mr), item)
                     /\ got = item
             /\ sent = item /\ first = item
        /\ count = 1

\* A side that ran out of memory does nothing more: the call fails, and so do
\* those after it.
Working == \A c \in CodersOf(w) \cup CodersOf(r) : ~c.alloc_failed

\* A new chunk, and its first item.  The one before it was closed with the
\* layers its reader found.
Seed(item) ==
    /\ Working /\ count < Most[kind] /\ kind \notin Layered
    /\ w' = write_init(kind, w.c, item)
    /\ r' = read_init(kind, r.c, item)
    /\ sent' = item /\ got' = item /\ first' = item
    /\ count' = count + 1
    /\ UNCHANGED <<kind, carried>>

SeedLayers(item) ==
    /\ Working /\ count < Most[kind] /\ kind \in Layered
    /\ \A i \in DOMAIN w : w[i].changed = carried[i]
    /\ \E choice \in Selections[kind] : carried' = choice.carried
    /\ w' = write_first(w, item)
    /\ r' = read_first(r, Stored(item), carried')
    /\ sent' = item /\ got' = Stored(item) /\ first' = item
    /\ count' = count + 1
    /\ UNCHANGED kind

\* An item after it.
Code(item) ==
    /\ Working /\ count < Most[kind] /\ kind \notin Layered
    /\ \E put \in {write(kind, w, item)} :
       \E had \in {IF put.c.alloc_failed THEN r
                  ELSE read(kind, [r EXCEPT !.c.tape = put.c.tape])} :
           /\ w' = [put EXCEPT !.c.tape = <<>>]
           /\ r' = had
           /\ sent' = IF put.c.alloc_failed THEN sent ELSE item
           /\ got' = had.item
    /\ count' = count + 1
    /\ UNCHANGED <<kind, carried, first>>

\* A point that needs no layer but those the chunk comes to have.
CodeLayers(item) ==
    /\ Working /\ count < Most[kind] /\ kind \in Layered
    /\ \E put \in {write_point(w, item)} :
       \E had \in {IF \E c \in CodersOf(put) : c.alloc_failed THEN r
                  ELSE read_point(Loaded(r, put))} :
           /\ \A i \in DOMAIN put : put[i].changed \subseteq carried[i]
           /\ w' = Emptied(put)
           /\ r' = had
           /\ sent' = IF \E c \in CodersOf(put) : c.alloc_failed THEN sent ELSE item
           /\ got' = [i \in DOMAIN had |-> had[i].item]
    /\ count' = count + 1
    /\ UNCHANGED <<kind, carried, first>>

Next == \E item \in Items[kind] :
            Seed(item) \/ SeedLayers(item) \/ Code(item) \/ CodeLayers(item)

Spec == Init /\ [][Next]_vars

-----------------------------------------------------------------------------
(* What is right about it. *)

\* The layer each field of a POINT14 record is in.
LayerOf ==
    [X |-> "channel_returns_XY", Y |-> "channel_returns_XY",
     return_number |-> "channel_returns_XY", number_of_returns |-> "channel_returns_XY",
     scanner_channel |-> "channel_returns_XY", Z |-> "Z", intensity |-> "intensity",
     classification |-> "classification", classification_flags |-> "flags",
     scan_direction_flag |-> "flags", edge_of_flight_line |-> "flags",
     user_data |-> "user_data", scan_angle |-> "scan_angle",
     point_source_ID |-> "point_source", gps_time |-> "gps_time"]

\* What of a point should come back: of the layers asked for, what was put, and
\* of the others what the chunk's first point has (lazpy/reader.py).
Promised(i) ==
    LET Asked(l, a, b) == IF l \in r[i].requested THEN a ELSE b
        a == raw_write_point14(sent[i])
        b == raw_write_point14(first[i])
    IN  CASE i = "point14" -> [f \in DOMAIN LayerOf |-> Asked(LayerOf[f], a[f], b[f])]
          [] i = "rgb14" -> Asked("rgb", sent[i], first[i])
          [] i = "rgbnir14" -> [n \in 1 .. 8 |->
                                   Asked(IF n < 7 THEN "rgb" ELSE "nir", sent[i][n], first[i][n])]
          [] i = "wave14" -> Asked("wavepacket", sent[i], first[i])
          [] i = "byte14" -> [n \in 1 .. NUMBER |-> Asked(n, sent[i][n], first[i][n])]

\* The writers are "the exact inverse of the readers" (laz_writeitem_v1.c,
\* laz_writeitem_v2.c): whatever came before it, an item comes back as it was
\* put, and of what was coded for it nothing is left for the next.
HandsBackWhatWasPut ==
    Working =>
        /\ \A c \in CodersOf(r) : c.in_step /\ c.tape = <<>>
        /\ IF kind \notin Layered THEN got = sent
           ELSE \A i \in DOMAIN got :
                    Promised(i) = IF i = "point14" THEN raw_write_point14(got[i]) ELSE got[i]

\* The copies of a LAS 1.4 point's fields that older formats had are what the
\* fields say, whichever of them were decoded (laz_readitem_v3.c).
LegacyCopiesAgree ==
    (Working /\ kind \in Layered) =>
        LET p == got.point14
            b == raw_read_point14([f \in DOMAIN LayerOf |-> p[f]])
        IN  \A f \in {"legacy_return_number", "legacy_number_of_returns", "legacy_classification",
                      "legacy_flags", "scan_angle_rank"} : p[f] = b[f]

\* Both sides predict the next item from the same numbers, the ones that do not
\* come into play until much later included.  The last item's intensity is the
\* POINT10 reader's own: it hands it out where the writer says that nothing
\* changed.  In layers it is so of those that are decoded, channel by channel.
Predictors(s) ==
    LET all == [f \in DOMAIN s \ {"c", "item"} |-> s[f]]
    IN  IF kind = "p10v2" THEN [all EXCEPT !.last_item.intensity = 0] ELSE all

LayerPredictors(i, l, context) ==
    CASE i = "point14" ->
           [last  |-> [f \in {f \in DOMAIN LayerOf : LayerOf[f] = l} |-> context.last_item[f]],
            other |-> CASE l = "channel_returns_XY" ->
                             <<context.last_X_diff_median5, context.last_Y_diff_median5,
                               context.last_item.gps_time_change>>
                        [] l = "Z"         -> <<context.last_Z>>
                        [] l = "intensity" -> <<context.last_intensity>>
                        [] l = "gps_time"  -> <<context.times>>
                        [] OTHER           -> <<>>]
      [] i \in {"rgb14", "wave14"} -> context
      [] i = "rgbnir14" -> SubSeq(context.last_item, IF l = "rgb" THEN 1 ELSE 7,
                                  IF l = "rgb" THEN 6 ELSE 8)
      [] i = "byte14" -> context.last_item[l]

PredictorsAgree ==
    Working =>
        IF kind \notin Layered THEN Predictors(w) = Predictors(r)
        ELSE \A i \in DOMAIN w :
                /\ w[i].current_context = r[i].current_context
                /\ DOMAIN w[i].contexts = DOMAIN r[i].contexts
                /\ \A context \in DOMAIN w[i].contexts, l \in r[i].changed :
                        LayerPredictors(i, l, w[i].contexts[context])
                            = LayerPredictors(i, l, r[i].contexts[context])

\* No symbol is outside the alphabet of the model it is coded with, those of a
\* corrector's interval and place among them, nor a context outside the array of
\* models: the encoder checks neither (laz_encode_symbol).
SymbolsFitTheirModels == \A c \in CodersOf(w) : c.fits
=============================================================================
