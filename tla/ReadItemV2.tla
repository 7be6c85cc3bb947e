----------------------------- MODULE ReadItemV2 -----------------------------
(***************************************************************************)
(* The item readers of laz_readitem_v2.c.  States and conventions as in    *)
(* ReadItemV1.                                                             *)
(***************************************************************************)
EXTENDS ItemCoding

CONSTANTS MULTI,          \* LASZIP_GPSTIME_MULTI
          MULTI_MINUS,    \* -LASZIP_GPSTIME_MULTI_MINUS
          NUMBER          \* how many extra bytes a BYTE item has

UNCHANGED_CODE == MULTI + MULTI_MINUS + 1
CODE_FULL      == MULTI + MULTI_MINUS + 2

-----------------------------------------------------------------------------
(* POINT10 *)

p10v2 ==
    [changed_values |-> laz_symbol_model_setup("changed_values", 1, 64),
     intensity |-> ic_setup("intensity", SHORT_BITS, 4),
     scan_angle_rank |-> laz_symbol_model_setup("scan_angle_rank", 2, BYTES),
     point_source_ID |-> ic_setup("point_source_ID", SHORT_BITS, 1),
     bit_byte |-> laz_symbol_model_setup("bit_byte", BYTES, BYTES),
     classification |-> laz_symbol_model_setup("classification", BYTES, BYTES),
     user_data |-> laz_symbol_model_setup("user_data", BYTES, BYTES),
     dx |-> ic_setup("dx", INT_BITS, 2),
     dy |-> ic_setup("dy", INT_BITS, TOP_20 + 2),
     z  |-> ic_setup("z", INT_BITS, TOP_18 + 2)]

\* A mutant: a chunk goes on with the intensities of the one before.
p10v2_init_seeded(c, item) ==
    [c |-> Reinitialised(c, {"changed_values", "intensity", "scan_angle_rank",
                             "point_source_ID", "bit_byte", "classification",
                             "user_data", "dx", "dy", "z"}),
     last_x_diff_median5 |-> [m \in 0 .. 15 |-> laz_median5_init],
     last_y_diff_median5 |-> [m \in 0 .. 15 |-> laz_median5_init],
     last_intensity |-> [m \in 0 .. 15 |-> 0], last_height |-> [l \in 0 .. 7 |-> 0],
     last_item |-> item, item |-> item]

\* The first point of a chunk seeds everything except intensity.
p10v2_init(c, item) ==
    [c |-> Reinitialised(c, {"changed_values", "intensity", "scan_angle_rank",
                             "point_source_ID", "bit_byte", "classification",
                             "user_data", "dx", "dy", "z"}),
     last_x_diff_median5 |-> [m \in 0 .. 15 |-> laz_median5_init],
     last_y_diff_median5 |-> [m \in 0 .. 15 |-> laz_median5_init],
     last_intensity |-> [m \in 0 .. 15 |-> 0], last_height |-> [l \in 0 .. 7 |-> 0],
     last_item |-> [item EXCEPT !.intensity = 0], item |-> item]

\* The fields changed_values has a bit for after bit_byte's, and that bit.
P10_BITS == <<[field |-> "intensity", bit |-> 16], [field |-> "classification", bit |-> 8],
              [field |-> "scan_angle_rank", bit |-> 4], [field |-> "user_data", bit |-> 2],
              [field |-> "point_source_ID", bit |-> 1]>>

p10v2_read_changed(r, s, f, m) ==
    LET banked == laz_decode_symbol(laz_bank_get(s.c, p10v2[f], s.item[f]), p10v2[f], s.item[f])
        rank   == laz_decode_symbol(s.c, p10v2[f], ScanDirFlag(s.item.bit_byte))
    IN  Decoded(s, f,
            CASE f = "intensity" ->
                    laz_ic_decompress(s.c, p10v2[f], IF m < 3 THEN m ELSE 3, r.last_intensity[m])
              [] f = "point_source_ID" -> laz_ic_decompress(s.c, p10v2[f], 0, s.item[f])
              [] f = "scan_angle_rank" -> [rank EXCEPT !.val = U8_FOLD(rank.val + s.item[f])]
              [] OTHER -> banked)

\* A field whose bit is not set stays; the intensity, if anything changed,
\* becomes the last one of the return's kind.
p10v2_read_fields(r, byte, m, flags) ==
    FoldLeft(LAMBDA s, f :
                 CASE HasBit(flags, f.bit) -> p10v2_read_changed(r, s, f.field, m)
                   [] ~HasBit(flags, f.bit) /\ f.field = "intensity" /\ flags # 0 ->
                         [s EXCEPT !.item.intensity = r.last_intensity[m]]
                   [] OTHER -> s,
             byte, P10_BITS)

p10v2_read_place(r, s, n1, m, l, flags) ==
    With(laz_ic_decompress(s.c, p10v2.dx, n1, laz_median5_get(r.last_x_diff_median5[m])),
         LAMBDA dx :
    With(laz_ic_decompress(dx, p10v2.dy,
                           n1 + (IF dx.k < TOP_20 THEN ZeroBit0(dx.k) ELSE TOP_20),
                           laz_median5_get(r.last_y_diff_median5[m])), LAMBDA dy :
    LET k_bits == (dx.k + dy.k) \div 2 IN
    With(laz_ic_decompress(dy, p10v2.z,
                           n1 + (IF k_bits < TOP_18 THEN ZeroBit0(k_bits) ELSE TOP_18),
                           r.last_height[l]), LAMBDA z :
    With([s.item EXCEPT !.x = Signed(@ + dx.val, INT_BITS),
                        !.y = Signed(@ + dy.val, INT_BITS), !.z = z.val], LAMBDA item :
        IF Stopped(z) THEN [r EXCEPT !.c = z]
        ELSE [r EXCEPT !.c = z,
                       !.last_intensity[m] = IF HasBit(flags, 16) THEN item.intensity ELSE @,
                       !.last_x_diff_median5[m] = laz_median5_add(@, dx.val),
                       !.last_y_diff_median5[m] = laz_median5_add(@, dy.val),
                       !.last_height[l] = z.val,
                       !.last_item = item, !.item = item]))))

p10v2_read(r) ==
    With(laz_decode_symbol(r.c, p10v2.changed_values, 0), LAMBDA flags :
    With(IF HasBit(flags.val, 32)
         THEN p10v2_read_changed(r, [c |-> flags, item |-> r.last_item], "bit_byte", 0)
         ELSE [c |-> flags, item |-> r.last_item], LAMBDA byte :
    LET n  == NumberOfReturns(byte.item.bit_byte)
        nr == ReturnNumber(byte.item.bit_byte)
        m  == laz_number_return_map(n, nr)
    IN  p10v2_read_place(r, p10v2_read_fields(r, byte, m, flags.val), Bit(n = 1),
                         m, laz_number_return_level(n, nr), flags.val)))

-----------------------------------------------------------------------------
(* GPSTIME11 *)

gps11v2 == [multi |-> laz_symbol_model_setup("gpstime_multi", 1, MULTI + MULTI_MINUS + 6),
            zerodiff |-> laz_symbol_model_setup("gpstime_0diff", 1, 6),
            gpstime |-> ic_setup("gpstime", INT_BITS, 9)]

gps11v2_init(c, item) ==
    [c |-> Reinitialised(c, {"gpstime_multi", "gpstime_0diff", "gpstime"}),
     last |-> 0, next |-> 0,
     last_gpstime |-> [s \in 0 .. 3 |-> IF s = 0 THEN item ELSE 0],
     last_gpstime_diff |-> [s \in 0 .. 3 |-> 0],
     multi_extreme_counter |-> [s \in 0 .. 3 |-> 0],
     item |-> item]

\* A difference is huge: the next sequence starts with a time in full.
gps11v2_read_full(r, c) ==
    LET next == (r.next + 1) % 4
        high == laz_ic_decompress(c, gps11v2.gpstime, 8, HighWord(r.last_gpstime[r.last]))
        low  == laz_read_bits(high, INT_BITS)
        time == Signed(Unsigned(high.val, INT_BITS) * 2^INT_BITS + low.val, LONG_BITS)
    IN  [r EXCEPT !.c = low, !.next = next, !.last = next, !.item = time,
                  !.last_gpstime[next] = time,
                  !.last_gpstime_diff[next] = 0,
                  !.multi_extreme_counter[next] = 0]

gps11v2_extreme(r, diff) ==
    IF r.multi_extreme_counter[r.last] + 1 > 3
    THEN [r EXCEPT !.last_gpstime_diff[r.last] = diff,
                   !.multi_extreme_counter[r.last] = 0]
    ELSE [r EXCEPT !.multi_extreme_counter[r.last] = @ + 1]

\* A multiple of the last difference, but for what it is off by.
gps11v2_read_diff(r, c, multi) ==
    LET last_diff == r.last_gpstime_diff[r.last]
        context == CASE multi = 1 -> 1 [] multi = 0 -> 7
                     [] multi \in 2 .. 9 -> 2 [] multi \in 10 .. MULTI - 1 -> 3
                     [] multi = MULTI -> 4
                     [] multi \in MULTI + 1 .. MULTI + MULTI_MINUS - 1 -> 5
                     [] OTHER -> 6
        times == CASE multi <= MULTI -> multi
                   [] multi \in MULTI + 1 .. MULTI + MULTI_MINUS - 1 -> MULTI - multi
                   [] OTHER -> -MULTI_MINUS
        d    == laz_ic_decompress(c, gps11v2.gpstime, context,
                                  Signed(times * last_diff, INT_BITS))
        time == Signed(r.last_gpstime[r.last] + d.val, LONG_BITS)
        read == [r EXCEPT !.c = d, !.last_gpstime[r.last] = time, !.item = time]
    IN  CASE context = 1 -> [read EXCEPT !.multi_extreme_counter[r.last] = 0]
          [] context \in {4, 6, 7} -> gps11v2_extreme(read, d.val)
          [] OTHER -> read

RECURSIVE gps11v2_read(_)
gps11v2_read(r) ==
    LET zero == r.last_gpstime_diff[r.last] = 0
        c    == laz_decode_symbol(r.c, IF zero THEN gps11v2.zerodiff ELSE gps11v2.multi, 0)
        full == IF zero THEN 2 ELSE CODE_FULL
        near == laz_ic_decompress(c, gps11v2.gpstime, 0, 0)
        time == Signed(r.last_gpstime[r.last] + near.val, LONG_BITS)
    IN  CASE Stopped(c) -> [r EXCEPT !.c = c]
          [] ~Stopped(c) /\ zero /\ c.val = 1 ->
               [r EXCEPT !.c = near, !.item = time,
                         !.last_gpstime[r.last] = time,
                         !.last_gpstime_diff[r.last] = near.val,
                         !.multi_extreme_counter[r.last] = 0]
          [] ~Stopped(c) /\ ~zero /\ c.val < UNCHANGED_CODE -> gps11v2_read_diff(r, c, c.val)
          [] ~Stopped(c) /\ c.val = full -> gps11v2_read_full(r, c)
          [] ~Stopped(c) /\ c.val > full ->
               gps11v2_read([r EXCEPT !.c = c, !.last = (@ + c.val - full) % 4])
          [] OTHER -> [r EXCEPT !.c = c, !.item = r.last_gpstime[r.last]]

-----------------------------------------------------------------------------
(* RGB12 *)

rgb12v2 == [byte_used |-> laz_symbol_model_setup("byte_used", 1, 128),
            rgb_diff |-> laz_symbol_model_setup("rgb_diff", 6, BYTES)]

rgb12v2_init(c, item) ==
    [c |-> Reinitialised(c, {"byte_used", "rgb_diff"}), last_item |-> item, item |-> item]

rgb12v2_read_byte(r, s, i, diff) ==
    LET corr == laz_decode_symbol(s.c, rgb12v2.rgb_diff, i - 1)
    IN  Decoded(s, i, [corr EXCEPT !.val = U8_FOLD(@ + U8_CLAMP(diff + r.last_item[i]))])

\* s.item starts as the last one, which is what a byte without its bit keeps.
rgb12v2_read(r) ==
    LET last  == r.last_item
        sym   == laz_decode_symbol(r.c, rgb12v2.byte_used, 0)
        used(i)     == HasBit(sym.val, 2^(i - 1))
        moved(s, i) == s.item[i] - last[i]
        Byte(s, i, diff) == IF used(i) THEN rgb12v2_read_byte(r, s, i, diff) ELSE s
        red   == Byte(Byte([c |-> sym, item |-> last], 1, 0), 2, 0)
        Half(s, i) ==        \* the green and the blue byte of red's byte i
            LET green == Byte(s, i + 2, moved(s, i))
            IN  Byte(green, i + 4, Quotient(moved(green, i) + moved(green, i + 2), 2))
        s     == IF HasBit(sym.val, 64) THEN Half(Half(red, 1), 2)
                 ELSE [red EXCEPT !.item = <<@[1], @[2], @[1], @[2], @[1], @[2]>>]
    IN  [r EXCEPT !.c = s.c, !.last_item = s.item, !.item = s.item]

-----------------------------------------------------------------------------
(* BYTE *)

bytev2 == [byte |-> laz_symbol_model_setup("byte", NUMBER, BYTES)]

bytev2_init(c, item) ==
    [c |-> Reinitialised(c, {"byte"}), last_item |-> item, item |-> item]

bytev2_read(r) ==
    LET Byte(s, i) ==
            LET diff == laz_decode_symbol(s.c, bytev2.byte, i - 1)
            IN  Decoded(s, i, [diff EXCEPT !.val = U8_FOLD(r.last_item[i] + @)])
        s == FoldLeft(Byte, [c |-> r.c, item |-> r.last_item], [i \in 1 .. NUMBER |-> i])
    IN  [r EXCEPT !.c = s.c, !.last_item = s.item, !.item = s.item]
=============================================================================
