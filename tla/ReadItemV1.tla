----------------------------- MODULE ReadItemV1 -----------------------------
(***************************************************************************)
(* The item readers of laz_readitem_v1.c: each from its state r to the one *)
(* it leaves, with the item read in `r.item`.  `r.c` is the decoder with   *)
(* the models.  Where memory runs out the code gives up the item half way, *)
(* and reads none after it; so does a step here.                           *)
(***************************************************************************)
EXTENDS ItemCoding

CONSTANTS MULTIMAX,     \* LASZIP_GPSTIME_MULTIMAX
          NUMBER        \* how many extra bytes a BYTE item has

-----------------------------------------------------------------------------
(* POINT10 *)

p10v1 ==
    [dx |-> ic_setup("dx", INT_BITS, 1),
     dy |-> ic_setup("dy", INT_BITS, TOP_19 + 1),
     z  |-> ic_setup("z", INT_BITS, TOP_19 + 1),
     intensity |-> ic_setup("intensity", SHORT_BITS, 1),
     scan_angle_rank |-> ic_setup("scan_angle_rank", BYTE_BITS, 2),
     point_source_ID |-> ic_setup("point_source_ID", SHORT_BITS, 1),
     changed_values |-> laz_symbol_model_setup("changed_values", 1, 64),
     bit_byte |-> laz_symbol_model_setup("bit_byte", BYTES, BYTES),
     classification |-> laz_symbol_model_setup("classification", BYTES, BYTES),
     user_data |-> laz_symbol_model_setup("user_data", BYTES, BYTES)]

p10v1_init(c, item) ==
    [c |-> Reinitialised(c, {"dx", "dy", "z", "intensity", "scan_angle_rank",
                             "point_source_ID", "changed_values", "bit_byte",
                             "classification", "user_data"}),
     last_x_diff |-> <<0, 0, 0>>, last_y_diff |-> <<0, 0, 0>>, last_incr |-> 1,
     last_item |-> item, item |-> item]

\* The fields changed_values has a bit for, and that bit.
P10_BITS == <<[field |-> "intensity", bit |-> 32], [field |-> "bit_byte", bit |-> 16],
              [field |-> "classification", bit |-> 8], [field |-> "scan_angle_rank", bit |-> 4],
              [field |-> "user_data", bit |-> 2], [field |-> "point_source_ID", bit |-> 1]>>

p10v1_read_changed(s, f, k_bits) ==
    Decoded(s, f,
        CASE f \in {"intensity", "point_source_ID"} ->
                laz_ic_decompress(s.c, p10v1[f], 0, s.item[f])
          [] f = "scan_angle_rank" ->
                laz_ic_decompress(s.c, p10v1[f], IF k_bits < 3 THEN 1 ELSE 0, s.item[f])
          [] OTHER ->
                laz_decode_symbol(laz_bank_get(s.c, p10v1[f], s.item[f]), p10v1[f], s.item[f]))

p10v1_read(r) ==
    With(laz_ic_decompress(r.c, p10v1.dx, 0, laz_median3(r.last_x_diff)), LAMBDA dx :
    With(laz_ic_decompress(dx, p10v1.dy, IF dx.k < TOP_19 THEN dx.k ELSE TOP_19,
                           laz_median3(r.last_y_diff)), LAMBDA dy :
    LET k_bits == (dx.k + dy.k) \div 2 IN
    With(laz_ic_decompress(dy, p10v1.z, IF k_bits < TOP_19 THEN k_bits ELSE TOP_19,
                           r.last_item.z), LAMBDA z :
    With(laz_decode_symbol(z, p10v1.changed_values, 0), LAMBDA changed :
    With(FoldLeft(LAMBDA s, f : IF HasBit(changed.val, f.bit)
                                THEN p10v1_read_changed(s, f.field, k_bits) ELSE s,
                  [c |-> changed,
                   item |-> [r.last_item EXCEPT !.x = Signed(@ + dx.val, INT_BITS),
                                                !.y = Signed(@ + dy.val, INT_BITS),
                                                !.z = z.val]],
                  P10_BITS), LAMBDA s :
        IF Stopped(s.c) THEN [r EXCEPT !.c = s.c]
        ELSE [r EXCEPT !.c = s.c,
                       !.last_x_diff[r.last_incr] = dx.val,
                       !.last_y_diff[r.last_incr] = dy.val,
                       !.last_incr = (@ % 3) + 1,
                       !.last_item = s.item, !.item = s.item])))))

-----------------------------------------------------------------------------
(* GPSTIME11 *)

gps11v1 == [multi |-> laz_symbol_model_setup("gpstime_multi", 1, MULTIMAX),
            zerodiff |-> laz_symbol_model_setup("gpstime_0diff", 1, 3),
            gpstime |-> ic_setup("gpstime", INT_BITS, 6)]

gps11v1_init(c, item) ==
    [c |-> Reinitialised(c, {"gpstime_multi", "gpstime_0diff", "gpstime"}),
     last_gpstime_diff |-> 0, multi_extreme_counter |-> 0,
     last_gpstime |-> item, item |-> item]

gps11v1_at(r, c, time) ==
    [r EXCEPT !.c = c, !.last_gpstime = Signed(time, LONG_BITS),
              !.item = Signed(time, LONG_BITS)]

\* The fourth multiple in a row that is off the scale sets a new difference.
gps11v1_extreme(r, diff) ==
    IF r.multi_extreme_counter + 1 > 3
    THEN [r EXCEPT !.last_gpstime_diff = diff, !.multi_extreme_counter = 0]
    ELSE [r EXCEPT !.multi_extreme_counter = @ + 1]

gps11v1_read_diff(r, c, multi) ==
    LET d == laz_ic_decompress(c, gps11v1.gpstime,
                 CASE multi = 1 -> 1 [] multi = 0 -> 2 [] multi \in 2 .. 9 -> 3
                   [] multi \in 10 .. 49 -> 4 [] OTHER -> 5,
                 IF multi = 0 THEN Quotient(r.last_gpstime_diff, 4)
                 ELSE Signed(multi * r.last_gpstime_diff, INT_BITS))
        read == gps11v1_at(r, d, r.last_gpstime + d.val)
    IN  CASE multi = 1 -> [read EXCEPT !.last_gpstime_diff = d.val,
                                       !.multi_extreme_counter = 0]
          [] multi \in {0, MULTIMAX - 3} -> gps11v1_extreme(read, d.val)
          [] OTHER -> read

gps11v1_read(r) ==
    LET zero == r.last_gpstime_diff = 0
        c    == laz_decode_symbol(r.c, IF zero THEN gps11v1.zerodiff ELSE gps11v1.multi, 0)
        raw  == laz_read_int64(c)
        near == laz_ic_decompress(c, gps11v1.gpstime, 0, 0)
    IN  CASE zero /\ c.val = 1 ->
               [gps11v1_at(r, near, r.last_gpstime + near.val)
                   EXCEPT !.last_gpstime_diff = near.val]
          [] (zero /\ c.val = 2) \/ (~zero /\ c.val = MULTIMAX - 2) -> gps11v1_at(r, raw, raw.val)
          [] ~zero /\ c.val < MULTIMAX - 2 -> gps11v1_read_diff(r, c, c.val)
          [] OTHER -> gps11v1_at(r, c, r.last_gpstime)

-----------------------------------------------------------------------------
(* RGB12 *)

rgb12v1 == [byte_used |-> laz_symbol_model_setup("byte_used", 1, 64),
            rgb |-> ic_setup("rgb", BYTE_BITS, 6)]

rgb12v1_init(c, item) ==
    [c |-> Reinitialised(c, {"byte_used", "rgb"}), last_item |-> item, item |-> item]

rgb12v1_read(r) ==
    LET sym == laz_decode_symbol(r.c, rgb12v1.byte_used, 0)
        s   == FoldLeft(LAMBDA t, i :
                   IF HasBit(sym.val, 2^(i - 1))
                   THEN Decoded(t, i, laz_ic_decompress(t.c, rgb12v1.rgb, i - 1, r.last_item[i]))
                   ELSE t,
                   [c |-> sym, item |-> r.last_item], <<1, 2, 3, 4, 5, 6>>)
    IN  [r EXCEPT !.c = s.c, !.last_item = s.item, !.item = s.item]

-----------------------------------------------------------------------------
(* BYTE *)

bytev1 == [byte |-> ic_setup("byte", BYTE_BITS, NUMBER)]

bytev1_init(c, item) ==
    [c |-> Reinitialised(c, {"byte"}), last_item |-> item, item |-> item]

bytev1_read(r) ==
    LET s == FoldLeft(LAMBDA t, i :
                 Decoded(t, i, laz_ic_decompress(t.c, bytev1.byte, i - 1, r.last_item[i])),
                 [c |-> r.c, item |-> r.last_item], [i \in 1 .. NUMBER |-> i])
    IN  [r EXCEPT !.c = s.c, !.last_item = s.item, !.item = s.item]

-----------------------------------------------------------------------------
(* WAVEPACKET13 *)

wp13v1 == [packet_index |-> laz_symbol_model_setup("packet_index", 1, BYTES),
           diff |-> laz_symbol_model_setup("m_offset_diff", 4, 4),
           offset_diff |-> ic_setup("offset_diff", INT_BITS, 1),
           packet_size |-> ic_setup("packet_size", INT_BITS, 1),
           return_point |-> ic_setup("return_point", INT_BITS, 1),
           xyz |-> ic_setup("xyz", INT_BITS, 3)]

wp13v1_init(c, item) ==
    [c |-> Reinitialised(c, {"packet_index", "m_offset_diff", "offset_diff",
                             "packet_size", "return_point", "xyz"}),
     last_diff_32 |-> 0, sym_last_offset_diff |-> 0, last_item |-> item, item |-> item]

\* last.packet_size is a U32, so it is added as a number that is not negative.
wp13v1_read(r) ==
    LET last == r.last_item IN
    With(laz_decode_symbol(r.c, wp13v1.packet_index, 0), LAMBDA index :
    With(laz_decode_symbol(index, wp13v1.diff, r.sym_last_offset_diff), LAMBDA sym :
    With(CASE sym.val = 2 -> laz_ic_decompress(sym, wp13v1.offset_diff, 0, r.last_diff_32)
           [] sym.val = 3 -> laz_read_int64(sym)
           [] OTHER -> sym, LAMBDA offset :
    With(laz_ic_decompress(offset, wp13v1.packet_size, 0, Signed(last.packet_size, INT_BITS)),
         LAMBDA size :
    With(laz_ic_decompress(size, wp13v1.return_point, 0, last.return_point), LAMBDA point :
    With(laz_ic_decompress(point, wp13v1.xyz, 0, last.x), LAMBDA x :
    With(laz_ic_decompress(x, wp13v1.xyz, 1, last.y), LAMBDA y :
    With(laz_ic_decompress(y, wp13v1.xyz, 2, last.z), LAMBDA z :
    With([index |-> index.val,
          offset |-> Unsigned(CASE sym.val = 0 -> last.offset
                                [] sym.val = 1 -> last.offset + last.packet_size
                                [] sym.val = 2 -> last.offset + offset.val
                                [] OTHER -> offset.val, LONG_BITS),
          packet_size |-> Unsigned(size.val, INT_BITS),
          return_point |-> point.val, x |-> x.val, y |-> y.val, z |-> z.val], LAMBDA item :
        [r EXCEPT !.c = z, !.sym_last_offset_diff = sym.val,
                  !.last_diff_32 = IF sym.val = 2 THEN offset.val ELSE @,
                  !.last_item = item, !.item = item])))))))))
=============================================================================
