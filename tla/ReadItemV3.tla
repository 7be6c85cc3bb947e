----------------------------- MODULE ReadItemV3 -----------------------------
(***************************************************************************)
(* The item readers of laz_readitem_v3.c, of versions 3 and 4.  Of a       *)
(* chunk's layers a reader decodes those in `changed`, the ones that it    *)
(* was asked for and that have bytes; for the others it hands out what it  *)
(* has.  States as in WriteItemV3, the item read in `item`.                *)
(***************************************************************************)
EXTENDS LayeredItems

CONSTANTS MULTI,          \* LASZIP_GPSTIME_MULTI
          MULTI_MINUS,    \* -LASZIP_GPSTIME_MULTI_MINUS
          NUMBER          \* how many extra bytes a BYTE item has

CODE_FULL == MULTI + MULTI_MINUS + 1

\* A layer's bytes are loaded or skipped.
layer_load(r, carried) ==
    [r EXCEPT !.layers = [l \in DOMAIN @ |-> [@[l] EXCEPT !.tape = <<>>]],
              !.changed = r.requested \cap carried,
              !.contexts = <<>>]

-----------------------------------------------------------------------------
(* POINT14 *)

p14 == [context \in 0 .. 3 |->
    [changed_values |-> laz_symbol_model_setup(Of(context, "changed_values"), 8, 128),
     scanner_channel |-> laz_symbol_model_setup(Of(context, "scanner_channel"), 1, 3),
     number_of_returns |-> laz_symbol_model_setup(Of(context, "number_of_returns"), 16, 16),
     return_number |-> laz_symbol_model_setup(Of(context, "return_number"), 16, 16),
     return_number_gps_same |->
         laz_symbol_model_setup(Of(context, "return_number_gps_same"), 1, 13),
     dX |-> ic_setup(Of(context, "dX"), INT_BITS, 2),
     dY |-> ic_setup(Of(context, "dY"), INT_BITS, TOP_20 + 2),
     Z  |-> ic_setup(Of(context, "Z"), INT_BITS, TOP_18 + 2),
     classification |-> laz_symbol_model_setup(Of(context, "classification"), 64, BYTES),
     flags |-> laz_symbol_model_setup(Of(context, "flags"), 64, 64),
     user_data |-> laz_symbol_model_setup(Of(context, "user_data"), 64, BYTES),
     intensity |-> ic_setup(Of(context, "intensity"), SHORT_BITS, 4),
     scan_angle |-> ic_setup(Of(context, "scan_angle"), SHORT_BITS, 2),
     point_source_ID |-> ic_setup(Of(context, "point_source_ID"), SHORT_BITS, 1),
     gpstime_multi |->
         laz_symbol_model_setup(Of(context, "gpstime_multi"), 1, MULTI + MULTI_MINUS + 5),
     gpstime_0diff |-> laz_symbol_model_setup(Of(context, "gpstime_0diff"), 1, 5),
     gpstime |-> ic_setup(Of(context, "gpstime"), INT_BITS, 9)]]

P14_NAMES == [context \in 0 .. 3 |-> NamesIn(p14[context])]

\* The models of layers nobody asked for are not made, and are never used.
p14_create_and_init(r, context, item) ==
    CreatedContext(r, context, P14_NAMES[context], Point14Context(item))

\* The channels are asked for whatever the selection.
point14_new(selective, v4, memory) ==
    [v4 |-> v4, requested |-> selective \cup {"channel_returns_XY"},
     layers |-> [l \in P14_LAYERS |-> Coder(memory)], changed |-> {},
     contexts |-> <<>>, current_context |-> 0, context |-> 0, item |-> <<>>]

p14_init(r, item, carried) ==
    p14_create_and_init(
        [layer_load(r, carried) EXCEPT !.current_context = item.scanner_channel,
                                       !.context = item.scanner_channel,
                                       !.item = item],
        item.scanner_channel, item)

\* The times' decoder c and their predictors t.
p14_read_full(s, m) ==
    LET next == (s.t.next + 1) % 4
        high == laz_ic_decompress(s.c, m.gpstime, 8, HighWord(s.t.last_gpstime[s.t.last]))
        low  == laz_read_bits(high, INT_BITS)
        time == Signed(Unsigned(high.val, INT_BITS) * 2^INT_BITS + low.val, LONG_BITS)
    IN  [c |-> low, t |-> [s.t EXCEPT !.next = next, !.last = next,
                                      !.last_gpstime[next] = time,
                                      !.last_gpstime_diff[next] = 0,
                                      !.multi_extreme_counter[next] = 0]]

p14_extreme(s, diff) ==
    IF s.t.multi_extreme_counter[s.t.last] + 1 > 3
    THEN [s EXCEPT !.t.last_gpstime_diff[s.t.last] = diff,
                   !.t.multi_extreme_counter[s.t.last] = 0]
    ELSE [s EXCEPT !.t.multi_extreme_counter[s.t.last] = @ + 1]

p14_read_gps_diff(s, m, multi) ==
    LET last_diff == s.t.last_gpstime_diff[s.t.last]
        context == CASE multi = 1 -> 1 [] multi = 0 -> 7
                     [] multi \in 2 .. 9 -> 2 [] multi \in 10 .. MULTI - 1 -> 3
                     [] multi = MULTI -> 4
                     [] multi \in MULTI + 1 .. MULTI + MULTI_MINUS - 1 -> 5
                     [] OTHER -> 6
        times == CASE multi < MULTI + 1 -> multi
                   [] multi \in MULTI + 1 .. MULTI + MULTI_MINUS - 1 -> MULTI - multi
                   [] OTHER -> -MULTI_MINUS
        d    == laz_ic_decompress(s.c, m.gpstime, context, Signed(times * last_diff, INT_BITS))
        read == [c |-> d,
                 t |-> [s.t EXCEPT !.last_gpstime[s.t.last] = Signed(@ + d.val, LONG_BITS)]]
    IN  CASE context = 1 -> [read EXCEPT !.t.multi_extreme_counter[s.t.last] = 0]
          [] context \in {4, 6, 7} -> p14_extreme(read, d.val)
          [] OTHER -> read

RECURSIVE p14_read_gps_time(_, _)
p14_read_gps_time(s, m) ==
    LET zero == s.t.last_gpstime_diff[s.t.last] = 0
        c    == laz_decode_symbol(s.c, IF zero THEN m.gpstime_0diff ELSE m.gpstime_multi, 0)
        full == IF zero THEN 1 ELSE CODE_FULL
        near == laz_ic_decompress(c, m.gpstime, 0, 0)
    IN  CASE Stopped(c) -> [s EXCEPT !.c = c]
          [] ~Stopped(c) /\ zero /\ c.val = 0 ->
               [c |-> near,
                t |-> [s.t EXCEPT !.last_gpstime[s.t.last] = Signed(@ + near.val, LONG_BITS),
                                  !.last_gpstime_diff[s.t.last] = near.val,
                                  !.multi_extreme_counter[s.t.last] = 0]]
          [] ~Stopped(c) /\ ~zero /\ c.val < full ->
               p14_read_gps_diff([s EXCEPT !.c = c], m, c.val)
          [] ~Stopped(c) /\ c.val = full -> p14_read_full([s EXCEPT !.c = c], m)
          [] OTHER ->
               p14_read_gps_time([c |-> c, t |-> [s.t EXCEPT !.last = (@ + c.val - full) % 4]], m)

\* Into another context, if changed_values says so: its last item, and what it
\* is from now on the context of.
p14_switch(r) ==
    LET from == r.current_context
        sym  == laz_decode_symbol(r.layers.channel_returns_XY, p14[from].scanner_channel, 0)
        to   == (from + sym.val + 1) % 4
        s    == [r EXCEPT !.layers.channel_returns_XY = sym,
                          !.current_context = to,
                          !.context = to]
        v    == IF to \in DOMAIN r.contexts THEN s
                ELSE p14_create_and_init(s, to, r.contexts[from].last_item)
    IN  [v EXCEPT !.contexts[to].last_item.scanner_channel = to]

\* The return's number and that of its pulse's returns.
p14_read_returns(c, m, last, changed_values) ==
    LET counted == laz_decode_symbol(
                       laz_bank_get(c, m.number_of_returns, last.number_of_returns),
                       m.number_of_returns, last.number_of_returns)
        n    == IF HasBit(changed_values, 4)
                THEN [c |-> counted, n |-> counted.val]
                ELSE [c |-> c, n |-> last.number_of_returns]
        told == laz_decode_symbol(laz_bank_get(n.c, m.return_number, last.return_number),
                                  m.return_number, last.return_number)
        off  == laz_decode_symbol(n.c, m.return_number_gps_same, 0)
    IN  CASE changed_values % 4 = 0 -> [c |-> n.c, n |-> n.n, r |-> last.return_number]
          [] changed_values % 4 = 1 -> [c |-> n.c, n |-> n.n, r |-> (last.return_number + 1) % 16]
          [] changed_values % 4 = 2 -> [c |-> n.c, n |-> n.n, r |-> (last.return_number + 15) % 16]
          [] changed_values % 4 = 3 /\ HasBit(changed_values, 16) ->
                [c |-> told, n |-> n.n, r |-> told.val]
          [] OTHER -> [c |-> off, n |-> n.n, r |-> (last.return_number + off.val + 2) % 16]

\* A mutant: the returns' older copies stay those of the point before.
Returned_stale(item, n, r) == [item EXCEPT !.number_of_returns = n, !.return_number = r]

Returned(item, n, r) ==
    [item EXCEPT !.number_of_returns = n, !.return_number = r,
                 !.legacy_number_of_returns = LegacyReturns(n, r).n,
                 !.legacy_return_number = LegacyReturns(n, r).r]

Flagged(item, flags) ==
    [item EXCEPT !.edge_of_flight_line = flags \div 32,
                 !.scan_direction_flag = (flags \div 16) % 2,
                 !.classification_flags = flags % 16,
                 !.legacy_flags = LegacyFlags(flags)]

\* The layers but for the times', each with its field for val; `said` is what
\* changed_values says, `dY` the layer of channels, returns and coordinates.
p14_decode_layers(v, m, cx, said, cpr, z_context, level, dY) ==
    LET last == cx.last_item
        gps  == Bit(HasBit(said, 16))
        Banked(c, bank, b) == laz_decode_symbol(laz_bank_get(c, bank, b), bank, b)
    IN  [v.layers EXCEPT
            !.channel_returns_XY = dY,
            !.Z = laz_ic_decompress(@, m.Z, z_context, cx.last_Z[level]),
            !.classification = Banked(@, m.classification,
                      2 * (last.classification % 32) + Bit(cpr = 3)),
            !.flags = Banked(@, m.flags, AllFlags(last)),
            !.intensity = laz_ic_decompress(@, m.intensity, cpr,
                                            cx.last_intensity[2 * cpr + gps]),
            !.scan_angle = IF ~HasBit(said, 8) THEN @
                 ELSE laz_ic_decompress(@, m.scan_angle, gps, last.scan_angle),
            !.user_data = Banked(@, m.user_data, last.user_data \div 4),
            !.point_source = IF ~HasBit(said, 32) THEN @
                 ELSE laz_ic_decompress(@, m.point_source_ID, 0, last.point_source_ID)]

\* The item, of what was decoded and, in layers that are not, of the last one.
p14_item(v, said, last, count, dX, dY, decoded, times) ==
    LET New(l, old) == IF l \in v.changed THEN decoded[l].val ELSE old
        Angle       == Signed(decoded.scan_angle.val, SHORT_BITS)
        turned      == HasBit(said, 8) /\ "scan_angle" \in v.changed
        placed ==
            [Returned(last, count.n, count.r) EXCEPT
                !.X = Signed(@ + dX.val, INT_BITS),
                !.Y = Signed(@ + dY.val, INT_BITS),
                !.Z = New("Z", @),
                !.classification = New("classification", @),
                !.legacy_classification = IF "classification" \in v.changed
                                          THEN LegacyClassification(decoded.classification.val)
                                          ELSE @,
                !.intensity = New("intensity", @),
                !.scan_angle = IF turned THEN Angle ELSE @,
                !.scan_angle_rank = IF turned THEN LegacyRank(Angle) ELSE @,
                !.user_data = New("user_data", @),
                !.point_source_ID = IF HasBit(said, 32) THEN New("point_source", @) ELSE @,
                !.gps_time = IF HasBit(said, 16) /\ "gps_time" \in v.changed
                             THEN times.t.last_gpstime[times.t.last] ELSE @]
    IN  IF "flags" \in v.changed THEN Flagged(placed, decoded.flags.val) ELSE placed

\* A point of the context v is in, whose models are m.
p14_read_in(v, m, said) ==
    LET at    == v.current_context
        cx    == v.contexts[at]
        gps   == Bit(HasBit(said, 16))
    IN  With(p14_read_returns(v.layers.channel_returns_XY, m, cx.last_item, said), LAMBDA count :
        With(2 * laz_number_return_map_6ctx(count.n, count.r) + gps, LAMBDA i :
        With(laz_ic_decompress(count.c, m.dX, Bit(count.n = 1),
                               laz_median5_get(cx.last_X_diff_median5[i])), LAMBDA dX :
        With(laz_ic_decompress(dX, m.dY,
                 Bit(count.n = 1) + (IF dX.k < TOP_20 THEN ZeroBit0(dX.k) ELSE TOP_20),
                 laz_median5_get(cx.last_Y_diff_median5[i])), LAMBDA dY :
        LET k_bits == (dX.k + dY.k) \div 2
            level  == laz_number_return_level_8ctx(count.n, count.r)
            cpr    == ThisReturn(count.n, count.r)
        IN
        With(p14_decode_layers(v, m, cx, said, cpr,
                 Bit(count.n = 1) + (IF k_bits < TOP_18 THEN ZeroBit0(k_bits) ELSE TOP_18),
                 level, dY), LAMBDA decoded :
        With(IF gps = 0 \/ "gps_time" \notin v.changed
             THEN [c |-> v.layers.gps_time, t |-> cx.times]
             ELSE p14_read_gps_time([c |-> v.layers.gps_time, t |-> cx.times], m), LAMBDA times :
        With(p14_item(v, said, cx.last_item, count, dX, dY, decoded, times), LAMBDA item :
        With([l \in v.changed |-> IF l = "gps_time" THEN times.c ELSE decoded[l]] @@ v.layers,
             LAMBDA layers :
            IF \E l \in P14_LAYERS : Stopped(layers[l]) THEN [v EXCEPT !.layers = layers]
            ELSE [v EXCEPT
                    !.layers = layers,
                    !.item = item,
                    !.contexts[at] =
                        [@ EXCEPT !.last_item = [item EXCEPT !.gps_time_change = (gps = 1)],
                                  !.last_X_diff_median5[i] = laz_median5_add(@, dX.val),
                                  !.last_Y_diff_median5[i] = laz_median5_add(@, dY.val),
                                  !.last_Z[level] = IF "Z" \in v.changed THEN item.Z ELSE @,
                                  !.last_intensity[2 * cpr + gps] =
                                      IF "intensity" \in v.changed THEN item.intensity ELSE @,
                                  !.times = times.t]]))))))))

\* The last item of the context becomes the one that is read, a layer at a time.
p14_read(r) ==
    With(laz_decode_symbol(r.layers.channel_returns_XY,
             p14[r.current_context].changed_values,
             LastReturn(r.contexts[r.current_context].last_item)), LAMBDA said :
    With([r EXCEPT !.layers.channel_returns_XY = said,
                   !.context = IF r.v4 THEN r.current_context ELSE 0], LAMBDA told :
    With(IF HasBit(said.val, 64) THEN p14_switch(told) ELSE told, LAMBDA v :
        p14_read_in(v, p14[v.current_context], said.val))))

-----------------------------------------------------------------------------
(* RGB14 and RGBNIR14.  A colour is its six bytes, red's lower one first, and
   with infrared the two of that after them. *)

rgb14 == [context \in 0 .. 3 |->
    [byte_used |-> laz_symbol_model_setup(Of(context, "rgb_bytes_used"), 1, 128),
     rgb_diff |-> laz_symbol_model_setup(Of(context, "rgb_diff"), 6, BYTES)]]

rgbnir14 == [context \in 0 .. 3 |->
    rgb14[context] @@
    [nir_bytes_used |-> laz_symbol_model_setup(Of(context, "nir_bytes_used"), 1, 4),
     nir_diff |-> laz_symbol_model_setup(Of(context, "nir_diff"), 2, BYTES)]]

RGBNIR14_NAMES == [context \in 0 .. 3 |-> NamesIn(rgbnir14[context])]

rgb_decode(c, m, item, last) ==
    LET sym == laz_decode_symbol(c, m.byte_used, 0)
        moved(s, i) == s.item[i] - last[i]
        Byte(s, i, diff) ==
            LET corr == laz_decode_symbol(s.c, m.rgb_diff, i - 1)
            IN  IF HasBit(sym.val, 2^(i - 1))
                THEN Decoded(s, i, [corr EXCEPT !.val = U8_FOLD(@ + U8_CLAMP(diff + last[i]))])
                ELSE [s EXCEPT !.item[i] = last[i]]
        red == Byte(Byte([c |-> sym, item |-> item], 1, 0), 2, 0)
        Half(s, i) ==        \* the green and the blue byte of red's byte i
            LET green == Byte(s, i + 2, moved(s, i))
            IN  Byte(green, i + 4, Quotient(moved(green, i) + moved(green, i + 2), 2))
    IN  IF HasBit(sym.val, 64) THEN Half(Half(red, 1), 2)
        ELSE [red EXCEPT !.item[3] = red.item[1], !.item[4] = red.item[2],
                         !.item[5] = red.item[1], !.item[6] = red.item[2]]

nir_decode(c, m, item, last) ==
    LET sym == laz_decode_symbol(c, m.nir_bytes_used, 0)
        Byte(s, i) ==
            LET corr == laz_decode_symbol(s.c, m.nir_diff, i - 7)
            IN  IF HasBit(sym.val, 2^(i - 7))
                THEN Decoded(s, i, [corr EXCEPT !.val = U8_FOLD(@ + last[i])])
                ELSE [s EXCEPT !.item[i] = last[i]]
    IN  FoldLeft(Byte, [c |-> sym, item |-> item], <<7, 8>>)

\* What a reader hands back without its layer is the last item, so a context
\* has one whether or not it has models.
rgbnir14_create_and_init(r, context, item) ==
    CreatedContext(r, context, RGBNIR14_NAMES[context], [last_item |-> item])

rgb_layer(s, m, last) ==
    IF "rgb" \in s.changed THEN rgb_decode(s.layers.rgb, m, last, last)
    ELSE [c |-> s.layers.rgb, item |-> last]

\* A mutant: the colour becomes the last of its own context, whichever it was
\* predicted from.
rgb14_read_own(r, context) ==
    With(Followed(r, context, rgbnir14_create_and_init(r, context, Before(r))), LAMBDA f :
    With(rgb_layer(f.s, rgb14[context], f.s.contexts[f.at].last_item), LAMBDA rgb :
        [f.s EXCEPT !.layers.rgb = rgb.c, !.item = rgb.item,
                    !.contexts[context].last_item = rgb.item]))

rgb14_read(r, context) ==
    With(Followed(r, context, rgbnir14_create_and_init(r, context, Before(r))), LAMBDA f :
    With(rgb_layer(f.s, rgb14[context], f.s.contexts[f.at].last_item), LAMBDA rgb :
        [f.s EXCEPT !.layers.rgb = rgb.c, !.item = rgb.item,
                    !.contexts[f.at].last_item = rgb.item]))

\* The infrared of version 4 is the context's own, which there it is anyway.
rgbnir14_read(r, context) ==
    With(Followed(r, context, rgbnir14_create_and_init(r, context, Before(r))), LAMBDA f :
    With(rgb_layer(f.s, rgb14[context], f.s.contexts[f.at].last_item), LAMBDA rgb :
    With(IF "nir" \in r.changed
         THEN nir_decode(f.s.layers.nir, rgbnir14[context], rgb.item,
                         f.s.contexts[f.at].last_item)
         ELSE [c |-> f.s.layers.nir, item |-> rgb.item], LAMBDA nir :
        [f.s EXCEPT !.layers.rgb = rgb.c, !.layers.nir = nir.c, !.item = nir.item,
                    !.contexts[f.at].last_item = nir.item])))

-----------------------------------------------------------------------------
(* WAVEPACKET14 *)

wave14 == [context \in 0 .. 3 |->
    [packet_index |-> laz_symbol_model_setup(Of(context, "packet_index"), 1, BYTES),
     diff |-> laz_symbol_model_setup(Of(context, "m_offset_diff"), 4, 4),
     offset_diff |-> ic_setup(Of(context, "offset_diff"), INT_BITS, 1),
     packet_size |-> ic_setup(Of(context, "packet_size"), INT_BITS, 1),
     return_point |-> ic_setup(Of(context, "return_point"), INT_BITS, 1),
     xyz |-> ic_setup(Of(context, "xyz"), INT_BITS, 3)]]

WAVE14_NAMES == [context \in 0 .. 3 |-> NamesIn(wave14[context])]

wave14_create_and_init(r, context, item) ==
    CreatedContext(r, context, WAVE14_NAMES[context],
                   [last_item |-> item, last_diff_32 |-> 0, sym_last_offset_diff |-> 0])

\* last.packet_size is a U32, so it is added as a number that is not negative.
wave14_decode(c, m, cx, last) ==
    With(laz_decode_symbol(c, m.packet_index, 0), LAMBDA index :
    With(laz_decode_symbol(index, m.diff, cx.sym_last_offset_diff), LAMBDA said :
    With(CASE said.val = 2 -> laz_ic_decompress(said, m.offset_diff, 0, cx.last_diff_32)
           [] said.val = 3 -> laz_read_int64(said)
           [] OTHER -> said, LAMBDA offset :
    With(laz_ic_decompress(offset, m.packet_size, 0, Signed(last.packet_size, INT_BITS)),
         LAMBDA size :
    With(laz_ic_decompress(size, m.return_point, 0, last.return_point), LAMBDA point :
    With(laz_ic_decompress(point, m.xyz, 0, last.x), LAMBDA x :
    With(laz_ic_decompress(x, m.xyz, 1, last.y), LAMBDA y :
    With(laz_ic_decompress(y, m.xyz, 2, last.z), LAMBDA z :
        [c |-> z, sym |-> said.val, diff |-> offset.val,
         item |-> [index |-> index.val,
                   offset |-> Unsigned(CASE said.val = 0 -> last.offset
                                         [] said.val = 1 -> last.offset + last.packet_size
                                         [] said.val = 2 -> last.offset + offset.val
                                         [] OTHER -> offset.val, LONG_BITS),
                   packet_size |-> Unsigned(size.val, INT_BITS),
                   return_point |-> point.val, x |-> x.val, y |-> y.val, z |-> z.val]]))))))))

wave14_read(r, context) ==
    With(Followed(r, context, wave14_create_and_init(r, context, Before(r))), LAMBDA f :
        LET last == f.s.contexts[f.at].last_item
            cx   == f.s.contexts[context]
        IN  IF "wavepacket" \notin r.changed THEN [f.s EXCEPT !.item = last]
            ELSE With(wave14_decode(f.s.layers.wavepacket, wave14[context], cx, last), LAMBDA d :
                 [f.s EXCEPT !.layers.wavepacket = d.c,
                             !.item = d.item,
                             !.contexts[context].sym_last_offset_diff = d.sym,
                             !.contexts[context].last_diff_32 = IF d.sym = 2 THEN d.diff ELSE @,
                             !.contexts[f.at].last_item = d.item]))

-----------------------------------------------------------------------------
(* BYTE14: a layer for each extra byte *)

BYTE_LAYERS == 1 .. NUMBER

byte14 == [context \in 0 .. 3 |->
    [bytes |-> laz_symbol_model_setup(Of(context, "bytes"), NUMBER, BYTES)]]

byte14_create_and_init(r, context, item) ==
    CreatedContext(r, context, NamesIn(byte14[context]), [last_item |-> item])

byte14_read(r, context) ==
    LET f    == Followed(r, context, byte14_create_and_init(r, context, Before(r)))
        last == f.s.contexts[f.at].last_item
        c    == [i \in BYTE_LAYERS |->
                    IF i \in r.changed
                    THEN laz_decode_symbol(f.s.layers[i], byte14[context].bytes, i - 1)
                    ELSE f.s.layers[i]]
        item == [i \in BYTE_LAYERS |-> IF i \in r.changed THEN U8_FOLD(last[i] + c[i].val)
                                       ELSE last[i]]
    IN  [f.s EXCEPT !.layers = c, !.item = item, !.contexts[f.at].last_item = item]

-----------------------------------------------------------------------------
\* The items after POINT14 and their layers; a new one, and one that is to start
\* a chunk in the context POINT14 says.
follower_new(selective, v4, layers, memory) ==
    [v4 |-> v4, requested |-> selective, layers |-> [l \in layers |-> Coder(memory)],
     changed |-> {}, contexts |-> <<>>, current_context |-> 0, item |-> <<>>]

follower_init(r, item, context, carried) ==
    [layer_load(r, carried) EXCEPT !.current_context = context, !.item = item]
=============================================================================
