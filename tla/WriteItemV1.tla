---------------------------- MODULE WriteItemV1 ----------------------------
(***************************************************************************)
(* The item writers of laz_writeitem_v1.c: each from its state w and an    *)
(* item to the state it leaves.  `w.c` is the encoder with the models;     *)
(* memory that runs out is `w.c.alloc_failed`, where the code returns      *)
(* LAZ_FALSE.  ReadItemV1 is the other side, written from its own source.  *)
(***************************************************************************)
EXTENDS ItemCoding

CONSTANTS MULTIMAX,     \* LASZIP_GPSTIME_MULTIMAX
          NUMBER        \* how many extra bytes a BYTE item has

-----------------------------------------------------------------------------
(* POINT10 *)

\* What changed_values says, highest bit first.
P10_FLAGS == <<"intensity", "bit_byte", "classification",
               "scan_angle_rank", "user_data", "point_source_ID">>

p10v1 ==
    [dx |-> ic_setup("dx", INT_BITS, 1),
     dy |-> ic_setup("dy", INT_BITS, TOP_19 + 1),
     z  |-> ic_setup("z", INT_BITS, TOP_19 + 1),
     intensity |-> ic_setup("intensity", SHORT_BITS, 1),
     scan_angle_rank |-> ic_setup("scan_angle_rank", BYTE_BITS, 2),
     point_source_ID |-> ic_setup("point_source_ID", SHORT_BITS, 1),
     changed_values |-> laz_symbol_model_setup("changed_values", 1, 64),
     bit_byte |-> laz_symbol_model_setup("bit_byte", BYTES, BYTES),
     classification |-> laz_symbol_model_setup("classification", BYTES, BYTES),
     user_data |-> laz_symbol_model_setup("user_data", BYTES, BYTES)]

\* The first point of a chunk, which is stored as it is.
p10v1_init(c, item) ==
    [c |-> Reinitialised(c, {"dx", "dy", "z", "intensity", "scan_angle_rank",
                             "point_source_ID", "changed_values", "bit_byte",
                             "classification", "user_data"}),
     last_x_diff |-> <<0, 0, 0>>, last_y_diff |-> <<0, 0, 0>>, last_incr |-> 1,
     last_item |-> item]

p10v1_write_changed(c, f, li, item, k_bits) ==
    CASE f \in {"intensity", "point_source_ID"} ->
            laz_ic_compress(c, p10v1[f], 0, li[f], item[f])
      [] f = "scan_angle_rank" ->
            laz_ic_compress(c, p10v1[f], IF k_bits < 3 THEN 1 ELSE 0, li[f], item[f])
      [] OTHER ->
            laz_encode_symbol(laz_bank_get(c, p10v1[f], li[f]), p10v1[f], li[f], item[f])

p10v1_write(w, item) ==
    LET li      == w.last_item
        changed == {f \in ToSet(P10_FLAGS) : li[f] # item[f]}
        x_diff  == Signed(item.x - li.x, INT_BITS)
        y_diff  == Signed(item.y - li.y, INT_BITS)
    IN
    With(laz_ic_compress(w.c, p10v1.dx, 0, laz_median3(w.last_x_diff), x_diff), LAMBDA dx :
    With(laz_ic_compress(dx, p10v1.dy, IF dx.k < TOP_19 THEN dx.k ELSE TOP_19,
                         laz_median3(w.last_y_diff), y_diff), LAMBDA dy :
    LET k_bits == (dx.k + dy.k) \div 2
        z      == laz_ic_compress(dy, p10v1.z, IF k_bits < TOP_19 THEN k_bits ELSE TOP_19,
                                  li.z, item.z)
    IN
    With(FoldLeft(LAMBDA c, f : IF f \in changed THEN p10v1_write_changed(c, f, li, item, k_bits)
                                ELSE c,
                  laz_encode_symbol(z, p10v1.changed_values, 0, Flags(P10_FLAGS, changed)),
                  P10_FLAGS), LAMBDA coded :
        IF Stopped(coded) THEN [w EXCEPT !.c = coded]
        ELSE [w EXCEPT !.c = coded,
                       !.last_x_diff[w.last_incr] = x_diff,
                       !.last_y_diff[w.last_incr] = y_diff,
                       !.last_incr = (@ % 3) + 1,
                       !.last_item = item])))

-----------------------------------------------------------------------------
(* GPSTIME11.  A time is a double's bits taken for an I64. *)

gps11v1 == [multi |-> laz_symbol_model_setup("gpstime_multi", 1, MULTIMAX),
            zerodiff |-> laz_symbol_model_setup("gpstime_0diff", 1, 3),
            gpstime |-> ic_setup("gpstime", INT_BITS, 6)]

gps11v1_init(c, item) ==
    [c |-> Reinitialised(c, {"gpstime_multi", "gpstime_0diff", "gpstime"}),
     last_gpstime_diff |-> 0, multi_extreme_counter |-> 0, last_gpstime |-> item]

gps11v1_extreme(w, diff32) ==
    IF w.multi_extreme_counter + 1 > 3
    THEN [w EXCEPT !.last_gpstime_diff = diff32, !.multi_extreme_counter = 0]
    ELSE [w EXCEPT !.multi_extreme_counter = @ + 1]

\* multi * last_gpstime_diff may overflow in the code, and wraps in what is built.
gps11v1_write_diff(w, diff32) ==
    LET ratio == Quantized(diff32, w.last_gpstime_diff)
        multi == IF ratio >= MULTIMAX - 3 THEN MULTIMAX - 3
                 ELSE IF ratio <= 0 THEN 0 ELSE ratio
        c == laz_ic_compress(
                 laz_encode_symbol(w.c, gps11v1.multi, 0, multi), gps11v1.gpstime,
                 CASE multi = 1 -> 1 [] multi = 0 -> 2 [] multi \in 2 .. 9 -> 3
                   [] multi \in 10 .. 49 -> 4 [] OTHER -> 5,
                 IF multi = 0 THEN Quotient(w.last_gpstime_diff, 4)
                 ELSE Signed(multi * w.last_gpstime_diff, INT_BITS),
                 diff32)
        written == [w EXCEPT !.c = c]
    IN  CASE multi = 1 -> [written EXCEPT !.last_gpstime_diff = diff32,
                                          !.multi_extreme_counter = 0]
          [] multi \in {0, MULTIMAX - 3} -> gps11v1_extreme(written, diff32)
          [] OTHER -> written

gps11v1_write(w, item) ==
    LET zero   == w.last_gpstime_diff = 0
        diff64 == Signed(item - w.last_gpstime, LONG_BITS)
        m      == IF zero THEN gps11v1.zerodiff ELSE gps11v1.multi
    IN  IF item = w.last_gpstime
        THEN [w EXCEPT !.c = laz_encode_symbol(@, m, 0, IF zero THEN 0 ELSE MULTIMAX - 1)]
        ELSE IF ~Fits32(diff64)
        THEN [w EXCEPT !.c = laz_write_int64(
                                laz_encode_symbol(@, m, 0, IF zero THEN 2 ELSE MULTIMAX - 2),
                                item),
                       !.last_gpstime = item]
        ELSE IF zero
        THEN [w EXCEPT !.c = laz_ic_compress(laz_encode_symbol(@, m, 0, 1),
                                             gps11v1.gpstime, 0, 0, diff64),
                       !.last_gpstime_diff = diff64,
                       !.last_gpstime = item]
        ELSE [gps11v1_write_diff(w, diff64) EXCEPT !.last_gpstime = item]

-----------------------------------------------------------------------------
(* RGB12: the six bytes of a colour, the low one of each pair first. *)

rgb12v1 == [byte_used |-> laz_symbol_model_setup("byte_used", 1, 64),
            rgb |-> ic_setup("rgb", BYTE_BITS, 6)]

rgb12v1_init(c, item) ==
    [c |-> Reinitialised(c, {"byte_used", "rgb"}), last_item |-> item]

rgb12v1_write(w, item) ==
    LET used(i) == w.last_item[i] # item[i]
        sym     == laz_encode_symbol(w.c, rgb12v1.byte_used, 0,
                                     Flags(<<6, 5, 4, 3, 2, 1>>, {i \in 1 .. 6 : used(i)}))
    IN  [w EXCEPT !.c = FoldLeft(LAMBDA c, i :
                            IF used(i) THEN laz_ic_compress(c, rgb12v1.rgb, i - 1,
                                                            w.last_item[i], item[i])
                            ELSE c, sym, <<1, 2, 3, 4, 5, 6>>),
                  !.last_item = item]

-----------------------------------------------------------------------------
(* BYTE *)

bytev1 == [byte |-> ic_setup("byte", BYTE_BITS, NUMBER)]

bytev1_init(c, item) == [c |-> Reinitialised(c, {"byte"}), last_item |-> item]

bytev1_write(w, item) ==
    [w EXCEPT !.c = FoldLeft(LAMBDA c, i : laz_ic_compress(c, bytev1.byte, i - 1,
                                                           w.last_item[i], item[i]),
                             @, [i \in 1 .. NUMBER |-> i]),
              !.last_item = item]

-----------------------------------------------------------------------------
(* WAVEPACKET13, of every format that has one. *)

wp13v1 == [packet_index |-> laz_symbol_model_setup("packet_index", 1, BYTES),
           diff |-> laz_symbol_model_setup("m_offset_diff", 4, 4),
           offset_diff |-> ic_setup("offset_diff", INT_BITS, 1),
           packet_size |-> ic_setup("packet_size", INT_BITS, 1),
           return_point |-> ic_setup("return_point", INT_BITS, 1),
           xyz |-> ic_setup("xyz", INT_BITS, 3)]

wp13v1_init(c, item) ==
    [c |-> Reinitialised(c, {"packet_index", "m_offset_diff", "offset_diff",
                             "packet_size", "return_point", "xyz"}),
     last_diff_32 |-> 0, sym_last_offset_diff |-> 0, last_item |-> item]

wp13v1_write(w, item) ==
    LET last   == w.last_item
        diff64 == Signed(item.offset - last.offset, LONG_BITS)
        sym    == CASE ~Fits32(diff64) -> 3
                    [] diff64 = 0 -> 0
                    [] diff64 # 0 /\ diff64 = Signed(last.packet_size, INT_BITS) -> 1
                    [] OTHER -> 2
        index  == laz_encode_symbol(w.c, wp13v1.packet_index, 0, item.index)
        said   == laz_encode_symbol(index, wp13v1.diff, w.sym_last_offset_diff, sym)
        offset == CASE sym = 2 -> laz_ic_compress(said, wp13v1.offset_diff, 0,
                                                  w.last_diff_32, diff64)
                    [] sym = 3 -> laz_write_int64(said, item.offset)
                    [] OTHER -> said
        size   == laz_ic_compress(offset, wp13v1.packet_size, 0,
                                  Signed(last.packet_size, INT_BITS),
                                  Signed(item.packet_size, INT_BITS))
        point  == laz_ic_compress(size, wp13v1.return_point, 0,
                                  last.return_point, item.return_point)
        x      == laz_ic_compress(point, wp13v1.xyz, 0, last.x, item.x)
        y      == laz_ic_compress(x, wp13v1.xyz, 1, last.y, item.y)
    IN  [w EXCEPT !.c = laz_ic_compress(y, wp13v1.xyz, 2, last.z, item.z),
                  !.sym_last_offset_diff = sym,
                  !.last_diff_32 = IF sym = 2 THEN diff64 ELSE @,
                  !.last_item = item]
=============================================================================
