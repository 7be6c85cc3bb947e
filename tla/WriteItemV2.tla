---------------------------- MODULE WriteItemV2 ----------------------------
(***************************************************************************)
(* The item writers of laz_writeitem_v2.c: the encoding of point formats   *)
(* 0 to 5.  States and conventions as in WriteItemV1; ReadItemV2 is the    *)
(* other side.                                                             *)
(***************************************************************************)
EXTENDS ItemCoding

CONSTANTS MULTI,          \* LASZIP_GPSTIME_MULTI
          MULTI_MINUS,    \* -LASZIP_GPSTIME_MULTI_MINUS
          NUMBER          \* how many extra bytes a BYTE item has

UNCHANGED_CODE == MULTI + MULTI_MINUS + 1
CODE_FULL      == MULTI + MULTI_MINUS + 2

-----------------------------------------------------------------------------
(* POINT10 *)

p10v2 ==
    [changed_values |-> laz_symbol_model_setup("changed_values", 1, 64),
     intensity |-> ic_setup("intensity", SHORT_BITS, 4),
     scan_angle_rank |-> laz_symbol_model_setup("scan_angle_rank", 2, BYTES),
     point_source_ID |-> ic_setup("point_source_ID", SHORT_BITS, 1),
     bit_byte |-> laz_symbol_model_setup("bit_byte", BYTES, BYTES),
     classification |-> laz_symbol_model_setup("classification", BYTES, BYTES),
     user_data |-> laz_symbol_model_setup("user_data", BYTES, BYTES),
     dx |-> ic_setup("dx", INT_BITS, 2),
     dy |-> ic_setup("dy", INT_BITS, TOP_20 + 2),
     z  |-> ic_setup("z", INT_BITS, TOP_18 + 2)]

p10v2_init(c, item) ==
    [c |-> Reinitialised(c, {"changed_values", "intensity", "scan_angle_rank",
                             "point_source_ID", "bit_byte", "classification",
                             "user_data", "dx", "dy", "z"}),
     last_x_diff_median5 |-> [m \in 0 .. 15 |-> laz_median5_init],
     last_y_diff_median5 |-> [m \in 0 .. 15 |-> laz_median5_init],
     last_intensity |-> [m \in 0 .. 15 |-> 0], last_height |-> [l \in 0 .. 7 |-> 0],
     last_item |-> item]

\* What changed_values says, highest bit first.
P10_FLAGS == <<"bit_byte", "intensity", "classification",
               "scan_angle_rank", "user_data", "point_source_ID">>

\* The intensity is predicted by the last one of the return's kind m, and is
\* the only field whose change is not from the last item.
p10v2_predicted(w, f, m) ==
    IF f = "intensity" THEN w.last_intensity[m] ELSE w.last_item[f]

p10v2_write_changed(w, c, f, m, item) ==
    CASE f = "intensity" ->
            laz_ic_compress(c, p10v2[f], IF m < 3 THEN m ELSE 3, w.last_intensity[m], item[f])
      [] f = "scan_angle_rank" ->
            laz_encode_symbol(c, p10v2[f], ScanDirFlag(item.bit_byte),
                              U8_FOLD(item[f] - w.last_item[f]))
      [] f = "point_source_ID" ->
            laz_ic_compress(c, p10v2[f], 0, w.last_item[f], item[f])
      [] OTHER ->
            laz_encode_symbol(laz_bank_get(c, p10v2[f], w.last_item[f]), p10v2[f],
                              w.last_item[f], item[f])

p10v2_write_place(w, c, item, n1, m, l) ==
    LET x_diff == Signed(item.x - w.last_item.x, INT_BITS)
        y_diff == Signed(item.y - w.last_item.y, INT_BITS)
    IN
    With(laz_ic_compress(c, p10v2.dx, n1, laz_median5_get(w.last_x_diff_median5[m]), x_diff),
         LAMBDA dx :
    With(laz_ic_compress(dx, p10v2.dy,
                         n1 + (IF dx.k < TOP_20 THEN ZeroBit0(dx.k) ELSE TOP_20),
                         laz_median5_get(w.last_y_diff_median5[m]), y_diff), LAMBDA dy :
    LET k_bits == (dx.k + dy.k) \div 2 IN
    With(laz_ic_compress(dy, p10v2.z,
                         n1 + (IF k_bits < TOP_18 THEN ZeroBit0(k_bits) ELSE TOP_18),
                         w.last_height[l], item.z), LAMBDA z :
        IF Stopped(z) THEN [w EXCEPT !.c = z]
        ELSE [w EXCEPT !.c = z,
                       !.last_intensity[m] = item.intensity,
                       !.last_x_diff_median5[m] = laz_median5_add(@, x_diff),
                       !.last_y_diff_median5[m] = laz_median5_add(@, y_diff),
                       !.last_height[l] = item.z,
                       !.last_item = item])))

p10v2_write(w, item) ==
    LET n  == NumberOfReturns(item.bit_byte)
        nr == ReturnNumber(item.bit_byte)
        m  == laz_number_return_map(n, nr)
    IN
    With({f \in ToSet(P10_FLAGS) : p10v2_predicted(w, f, m) # item[f]}, LAMBDA changed :
        p10v2_write_place(w,
            FoldLeft(LAMBDA c, f : IF f \in changed THEN p10v2_write_changed(w, c, f, m, item)
                                   ELSE c,
                     laz_encode_symbol(w.c, p10v2.changed_values, 0, Flags(P10_FLAGS, changed)),
                     P10_FLAGS),
            item, Bit(n = 1), m, laz_number_return_level(n, nr)))

-----------------------------------------------------------------------------
(* GPSTIME11: four sequences of times that each have their own difference. *)

gps11v2 == [multi |-> laz_symbol_model_setup("gpstime_multi", 1, MULTI + MULTI_MINUS + 6),
            zerodiff |-> laz_symbol_model_setup("gpstime_0diff", 1, 6),
            gpstime |-> ic_setup("gpstime", INT_BITS, 9)]

gps11v2_init(c, item) ==
    [c |-> Reinitialised(c, {"gpstime_multi", "gpstime_0diff", "gpstime"}),
     last |-> 0, next |-> 0,
     last_gpstime |-> [s \in 0 .. 3 |-> IF s = 0 THEN item ELSE 0],
     last_gpstime_diff |-> [s \in 0 .. 3 |-> 0],
     multi_extreme_counter |-> [s \in 0 .. 3 |-> 0]]

start_new_sequence(w, c, time) ==
    LET next == (w.next + 1) % 4
        high == laz_ic_compress(c, gps11v2.gpstime, 8,
                                HighWord(w.last_gpstime[w.last]), HighWord(time))
    IN  [w EXCEPT !.c = laz_write_bits(high, INT_BITS, Unsigned(time, INT_BITS)),
                  !.next = next, !.last = next,
                  !.last_gpstime[next] = time,
                  !.last_gpstime_diff[next] = 0,
                  !.multi_extreme_counter[next] = 0]

gps11v2_extreme(w, diff32) ==
    IF w.multi_extreme_counter[w.last] + 1 > 3
    THEN [w EXCEPT !.last_gpstime_diff[w.last] = diff32,
                   !.multi_extreme_counter[w.last] = 0]
    ELSE [w EXCEPT !.multi_extreme_counter[w.last] = @ + 1]

\* A difference of 32 bits where the last was not zero.  multi * last_diff may
\* overflow in the code, and wraps in what is built.
gps11v2_write_diff(w, time, diff32) ==
    LET last_diff == w.last_gpstime_diff[w.last]
        multi == Quantized(diff32, last_diff)
        Says(sym, context, times) ==
            [w EXCEPT !.c = laz_ic_compress(
                                laz_encode_symbol(w.c, gps11v2.multi, 0, sym),
                                gps11v2.gpstime, context,
                                Signed(times * last_diff, INT_BITS), diff32),
                      !.last_gpstime[w.last] = time]
    IN  CASE multi = 1 -> [Says(1, 1, 1) EXCEPT !.multi_extreme_counter[w.last] = 0]
          [] multi > 1 /\ multi < MULTI ->
                Says(multi, IF multi < 10 THEN 2 ELSE 3, multi)
          [] multi >= MULTI -> gps11v2_extreme(Says(MULTI, 4, MULTI), diff32)
          [] multi < 0 /\ multi > -MULTI_MINUS -> Says(MULTI - multi, 5, multi)
          [] multi <= -MULTI_MINUS ->
                gps11v2_extreme(Says(MULTI + MULTI_MINUS, 6, -MULTI_MINUS), diff32)
          [] OTHER -> gps11v2_extreme(Says(0, 7, 0), diff32)

RECURSIVE gps11v2_write(_, _)
gps11v2_write(w, time) ==
    LET zero   == w.last_gpstime_diff[w.last] = 0
        m      == IF zero THEN gps11v2.zerodiff ELSE gps11v2.multi
        full   == IF zero THEN 2 ELSE CODE_FULL
        diff64 == Signed(time - w.last_gpstime[w.last], LONG_BITS)
        near   == Fits32(diff64)
        other  == laz_gps_find_other_sequence(w.last_gpstime, w.last, time)
    IN  CASE diff64 = 0 ->
               [w EXCEPT !.c = laz_encode_symbol(@, m, 0, IF zero THEN 0 ELSE UNCHANGED_CODE)]
          [] diff64 # 0 /\ near /\ zero ->
               [w EXCEPT !.c = laz_ic_compress(laz_encode_symbol(@, m, 0, 1),
                                               gps11v2.gpstime, 0, 0, diff64),
                         !.last_gpstime[w.last] = time,
                         !.last_gpstime_diff[w.last] = diff64,
                         !.multi_extreme_counter[w.last] = 0]
          [] diff64 # 0 /\ near /\ ~zero -> gps11v2_write_diff(w, time, diff64)
          [] ~near /\ other # 0 ->
               gps11v2_write([w EXCEPT !.c = laz_encode_symbol(@, m, 0, full + other),
                                       !.last = (@ + other) % 4],
                             time)
          [] OTHER -> start_new_sequence(w, laz_encode_symbol(w.c, m, 0, full), time)

-----------------------------------------------------------------------------
(* RGB12: red by itself, green by how red moved, blue by how both did. *)

rgb12v2 == [byte_used |-> laz_symbol_model_setup("byte_used", 1, 128),
            rgb_diff |-> laz_symbol_model_setup("rgb_diff", 6, BYTES)]

rgb12v2_init(c, item) ==
    [c |-> Reinitialised(c, {"byte_used", "rgb_diff"}), last_item |-> item]

\* The bytes in the order they are coded, the one of red that predicts each
\* and, for blue, the one of green.
RGB_ORDER == <<[at |-> 1, red |-> 0, green |-> 0], [at |-> 2, red |-> 0, green |-> 0],
               [at |-> 3, red |-> 1, green |-> 0], [at |-> 5, red |-> 1, green |-> 3],
               [at |-> 4, red |-> 2, green |-> 0], [at |-> 6, red |-> 2, green |-> 4]>>

rgb12v2_write(w, item) ==
    LET last    == w.last_item
        used(i) == last[i] # item[i]
        grey    == \A i \in 3 .. 6 : item[i] = item[2 - (i % 2)]
        moved(i) == IF i = 0 THEN 0 ELSE item[i] - last[i]
        diff(b) == IF b.green = 0 THEN moved(b.red)
                   ELSE Quotient(moved(b.red) + moved(b.green), 2)
        sym     == (IF grey THEN 0 ELSE 64) + Flags(<<6, 5, 4, 3, 2, 1>>, {i \in 1 .. 6 : used(i)})
        Coded(c, b) ==
            IF ~used(b.at) \/ (grey /\ b.red # 0) THEN c
            ELSE laz_encode_symbol(c, rgb12v2.rgb_diff, b.at - 1,
                     U8_FOLD(item[b.at] - U8_CLAMP(diff(b) + last[b.at])))
    IN  [w EXCEPT !.c = FoldLeft(Coded, laz_encode_symbol(@, rgb12v2.byte_used, 0, sym),
                                 RGB_ORDER),
                  !.last_item = item]

-----------------------------------------------------------------------------
(* BYTE *)

bytev2 == [byte |-> laz_symbol_model_setup("byte", NUMBER, BYTES)]

bytev2_init(c, item) == [c |-> Reinitialised(c, {"byte"}), last_item |-> item]

bytev2_write(w, item) ==
    [w EXCEPT !.c = FoldLeft(LAMBDA c, i : laz_encode_symbol(c, bytev2.byte, i - 1,
                                               U8_FOLD(item[i] - w.last_item[i])),
                             @, [i \in 1 .. NUMBER |-> i]),
              !.last_item = item]
=============================================================================
