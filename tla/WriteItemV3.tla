---------------------------- MODULE WriteItemV3 ----------------------------
(***************************************************************************)
(* The item writers of laz_writeitem_v3.c, of versions 3 and 4.  A layer   *)
(* whose field never moved in a chunk is not in `changed`, and is dropped  *)
(* when the chunk is closed.  ReadItemV3 is the other side.                *)
(***************************************************************************)
EXTENDS LayeredItems

CONSTANTS MULTI,          \* LASZIP_GPSTIME_MULTI
          MULTI_MINUS,    \* -LASZIP_GPSTIME_MULTI_MINUS
          NUMBER          \* how many extra bytes a BYTE item has

CODE_FULL == MULTI + MULTI_MINUS + 1

-----------------------------------------------------------------------------
(* POINT14 *)

p14 == [context \in 0 .. 3 |->
    [changed_values |-> laz_symbol_model_setup(Of(context, "changed_values"), 8, 128),
     scanner_channel |-> laz_symbol_model_setup(Of(context, "scanner_channel"), 1, 3),
     number_of_returns |-> laz_symbol_model_setup(Of(context, "number_of_returns"), 16, 16),
     return_number |-> laz_symbol_model_setup(Of(context, "return_number"), 16, 16),
     return_number_gps_same |->
         laz_symbol_model_setup(Of(context, "return_number_gps_same"), 1, 13),
     dX |-> ic_setup(Of(context, "dX"), INT_BITS, 2),
     dY |-> ic_setup(Of(context, "dY"), INT_BITS, TOP_20 + 2),
     Z  |-> ic_setup(Of(context, "Z"), INT_BITS, TOP_18 + 2),
     classification |-> laz_symbol_model_setup(Of(context, "classification"), 64, BYTES),
     flags |-> laz_symbol_model_setup(Of(context, "flags"), 64, 64),
     user_data |-> laz_symbol_model_setup(Of(context, "user_data"), 64, BYTES),
     intensity |-> ic_setup(Of(context, "intensity"), SHORT_BITS, 4),
     scan_angle |-> ic_setup(Of(context, "scan_angle"), SHORT_BITS, 2),
     point_source_ID |-> ic_setup(Of(context, "point_source_ID"), SHORT_BITS, 1),
     gpstime_multi |->
         laz_symbol_model_setup(Of(context, "gpstime_multi"), 1, MULTI + MULTI_MINUS + 5),
     gpstime_0diff |-> laz_symbol_model_setup(Of(context, "gpstime_0diff"), 1, 5),
     gpstime |-> ic_setup(Of(context, "gpstime"), INT_BITS, 9)]]

P14_NAMES == [context \in 0 .. 3 |-> NamesIn(p14[context])]

p14_create_and_init(w, context, item) ==
    CreatedContext(w, context, P14_NAMES[context], Point14Context(item))

\* The layers are started anew; the channels and the coordinates are in the
\* chunk whatever they say.
p14_init(w, item) ==
    p14_create_and_init(
        [w EXCEPT !.layers = [l \in DOMAIN @ |-> [@[l] EXCEPT !.tape = <<>>]],
                  !.changed = {"channel_returns_XY", "Z"},
                  !.contexts = <<>>,
                  !.current_context = item.scanner_channel,
                  !.context = item.scanner_channel],
        item.scanner_channel, item)

\* A writer of points that has written none: init makes it one of a chunk.
point14_new(v4, memory) ==
    [v4 |-> v4, layers |-> [l \in P14_LAYERS |-> Coder(memory)], changed |-> {},
     contexts |-> <<>>, current_context |-> 0, context |-> 0]

\* The times' coder c and their predictors t, as in WriteItemV2 but for a time
\* that is the same, which is not coded.
p14_start_new_sequence(s, m, time) ==
    LET next == (s.t.next + 1) % 4
        high == laz_ic_compress(s.c, m.gpstime, 8,
                                HighWord(s.t.last_gpstime[s.t.last]), HighWord(time))
    IN  [c |-> laz_write_bits(high, INT_BITS, Unsigned(time, INT_BITS)),
         t |-> [s.t EXCEPT !.next = next, !.last = next,
                           !.last_gpstime[next] = time,
                           !.last_gpstime_diff[next] = 0,
                           !.multi_extreme_counter[next] = 0]]

p14_extreme(s, diff32) ==
    IF s.t.multi_extreme_counter[s.t.last] + 1 > 3
    THEN [s EXCEPT !.t.last_gpstime_diff[s.t.last] = diff32,
                   !.t.multi_extreme_counter[s.t.last] = 0]
    ELSE [s EXCEPT !.t.multi_extreme_counter[s.t.last] = @ + 1]

p14_write_gps_diff(s, m, time, diff32) ==
    LET last_diff == s.t.last_gpstime_diff[s.t.last]
        multi == Quantized(diff32, last_diff)
        Says(sym, context, times) ==
            [s EXCEPT !.c = laz_ic_compress(laz_encode_symbol(@, m.gpstime_multi, 0, sym),
                                            m.gpstime, context,
                                            Signed(times * last_diff, INT_BITS), diff32),
                      !.t.last_gpstime[s.t.last] = time]
    IN  CASE multi = 1 -> [Says(1, 1, 1) EXCEPT !.t.multi_extreme_counter[s.t.last] = 0]
          [] multi > 1 /\ multi < MULTI -> Says(multi, IF multi < 10 THEN 2 ELSE 3, multi)
          [] multi >= MULTI -> p14_extreme(Says(MULTI, 4, MULTI), diff32)
          [] multi < 0 /\ multi > -MULTI_MINUS -> Says(MULTI - multi, 5, multi)
          [] multi <= -MULTI_MINUS ->
                p14_extreme(Says(MULTI + MULTI_MINUS, 6, -MULTI_MINUS), diff32)
          [] OTHER -> p14_extreme(Says(0, 7, 0), diff32)

RECURSIVE p14_write_gps_time(_, _, _)
p14_write_gps_time(s, m, time) ==
    LET zero   == s.t.last_gpstime_diff[s.t.last] = 0
        model  == IF zero THEN m.gpstime_0diff ELSE m.gpstime_multi
        full   == IF zero THEN 1 ELSE CODE_FULL
        diff64 == Signed(time - s.t.last_gpstime[s.t.last], LONG_BITS)
        other  == laz_gps_find_other_sequence(s.t.last_gpstime, s.t.last, time)
    IN  CASE Fits32(diff64) /\ zero ->
               [c |-> laz_ic_compress(laz_encode_symbol(s.c, model, 0, 0),
                                      m.gpstime, 0, 0, diff64),
                t |-> [s.t EXCEPT !.last_gpstime[s.t.last] = time,
                                  !.last_gpstime_diff[s.t.last] = diff64,
                                  !.multi_extreme_counter[s.t.last] = 0]]
          [] Fits32(diff64) /\ ~zero -> p14_write_gps_diff(s, m, time, diff64)
          [] ~Fits32(diff64) /\ other # 0 ->
               p14_write_gps_time([s EXCEPT !.c = laz_encode_symbol(@, model, 0, full + other),
                                            !.t.last = (@ + other) % 4],
                                  m, time)
          [] OTHER ->
               p14_start_new_sequence([s EXCEPT !.c = laz_encode_symbol(@, model, 0, full)],
                                      m, time)

\* What changed_values says of the return number: the same, the next, the one
\* before, or which one.
Turn(r, last_r) ==
    CASE r = last_r -> 0
      [] r # last_r /\ r = (last_r + 1) % 16 -> 1
      [] r # last_r /\ r = (last_r + 15) % 16 -> 2
      [] OTHER -> 3

P14_FLAGS == <<"scanner_channel", "point_source_ID", "gps_time", "scan_angle",
               "number_of_returns">>

\* Into the context of the item's channel, which starts from the last item of
\* the one left if it is new.
p14_switch(w, to) ==
    LET from   == w.current_context
        sym    == to - from
        coded  == [w EXCEPT !.layers.channel_returns_XY =
                      laz_encode_symbol(@, p14[from].scanner_channel, 0,
                                        (IF sym > 0 THEN sym ELSE sym + 4) - 1),
                            !.current_context = to,
                            !.context = to]
    IN  IF to \in DOMAIN w.contexts THEN coded
        ELSE p14_create_and_init(coded, to, w.contexts[from].last_item)

\* The return's number among those of its pulse.
p14_write_returns(c, m, item, last, gps_time_change) ==
    LET n   == IF item.number_of_returns = last.number_of_returns THEN c
               ELSE laz_encode_symbol(
                        laz_bank_get(c, m.number_of_returns, last.number_of_returns),
                        m.number_of_returns, last.number_of_returns, item.number_of_returns)
        sym == item.return_number - last.return_number
    IN  CASE Turn(item.return_number, last.return_number) < 3 -> n
          [] gps_time_change /\ Turn(item.return_number, last.return_number) = 3 ->
               laz_encode_symbol(laz_bank_get(n, m.return_number, last.return_number),
                                 m.return_number, last.return_number, item.return_number)
          [] OTHER -> laz_encode_symbol(n, m.return_number_gps_same, 0,
                                        (IF sym > 1 THEN sym ELSE sym + 16) - 2)

\* The layers but for the times'; `changed` are the fields that did, `dY` the
\* layer of channels, returns and coordinates.
p14_encode_layers(v, m, cx, changed, cpr, z_context, level, dY, item) ==
    LET last == cx.last_item
        gps  == Bit("gps_time" \in changed)
        Banked(c, bank, i, sym) == laz_encode_symbol(laz_bank_get(c, bank, i), bank, i, sym)
    IN  [v.layers EXCEPT
            !.channel_returns_XY = dY,
            !.Z = laz_ic_compress(@, m.Z, z_context, cx.last_Z[level], item.Z),
            !.classification = Banked(@, m.classification,
                      2 * (last.classification % 32) + Bit(cpr = 3), item.classification),
            !.flags = Banked(@, m.flags, AllFlags(last), AllFlags(item)),
            !.intensity = laz_ic_compress(@, m.intensity, cpr,
                      cx.last_intensity[2 * cpr + gps], item.intensity),
            !.scan_angle = IF "scan_angle" \notin changed THEN @
                 ELSE laz_ic_compress(@, m.scan_angle, gps, last.scan_angle, item.scan_angle),
            !.user_data = Banked(@, m.user_data, last.user_data \div 4, item.user_data),
            !.point_source = IF "point_source_ID" \notin changed THEN @
                 ELSE laz_ic_compress(@, m.point_source_ID, 0, last.point_source_ID,
                                      item.point_source_ID)]

\* The layers that a point's changes are in.
p14_moved(changed, item, last) ==
    (changed \cap {"classification", "intensity", "scan_angle", "user_data", "gps_time"})
    \cup (IF AllFlags(item) # AllFlags(last) THEN {"flags"} ELSE {})
    \cup (IF "point_source_ID" \in changed THEN {"point_source"} ELSE {})

\* A point of the context v is in, whose models are m.
p14_write_in(v, m, item, changed) ==
    LET to     == v.current_context
        cx     == v.contexts[to]
        last   == cx.last_item
        gps    == Bit("gps_time" \in changed)
        n      == item.number_of_returns
        r      == item.return_number
        at     == 2 * laz_number_return_map_6ctx(n, r) + gps
        level  == laz_number_return_level_8ctx(n, r)
        cpr    == ThisReturn(n, r)
        x_diff == Signed(item.X - last.X, INT_BITS)
        y_diff == Signed(item.Y - last.Y, INT_BITS)
    IN
    With(laz_ic_compress(
             p14_write_returns(v.layers.channel_returns_XY, m, item, last, gps = 1),
             m.dX, Bit(n = 1), laz_median5_get(cx.last_X_diff_median5[at]), x_diff), LAMBDA dX :
    With(laz_ic_compress(dX, m.dY,
             Bit(n = 1) + (IF dX.k < TOP_20 THEN ZeroBit0(dX.k) ELSE TOP_20),
             laz_median5_get(cx.last_Y_diff_median5[at]), y_diff), LAMBDA dY :
    LET k_bits == (dX.k + dY.k) \div 2 IN
    With(IF gps = 0 THEN [c |-> v.layers.gps_time, t |-> cx.times]
         ELSE p14_write_gps_time([c |-> v.layers.gps_time, t |-> cx.times], m, item.gps_time),
         LAMBDA times :
    With([p14_encode_layers(v, m, cx, changed, cpr,
              Bit(n = 1) + (IF k_bits < TOP_18 THEN ZeroBit0(k_bits) ELSE TOP_18),
              level, dY, item) EXCEPT !.gps_time = times.c], LAMBDA layers :
        IF \E l \in P14_LAYERS : layers[l].alloc_failed THEN [v EXCEPT !.layers = layers]
        ELSE [v EXCEPT
                !.layers = layers,
                !.changed = @ \cup p14_moved(changed, item, last),
                !.contexts[to] =
                    [@ EXCEPT !.last_item = [item EXCEPT !.gps_time_change = (gps = 1)],
                              !.last_X_diff_median5[at] = laz_median5_add(@, x_diff),
                              !.last_Y_diff_median5[at] = laz_median5_add(@, y_diff),
                              !.last_Z[level] = item.Z,
                              !.last_intensity[2 * cpr + gps] = item.intensity,
                              !.times = times.t]]))))

\* Each field into its layer's coder; version 4 says which context it is at
\* every point, version 3 where it changes (a point's writers start at 0).
p14_write(w, item) ==
    LET from == w.current_context
        to   == item.scanner_channel
        last == w.contexts[IF to \in DOMAIN w.contexts THEN to ELSE from].last_item
    IN
    With({f \in DOMAIN item : IF f = "scanner_channel" THEN to # from ELSE item[f] # last[f]},
         LAMBDA changed :
    With([w EXCEPT !.layers.channel_returns_XY =
                       laz_encode_symbol(@, p14[from].changed_values,
                           LastReturn(w.contexts[from].last_item),
                           4 * Flags(P14_FLAGS, changed)
                               + Turn(item.return_number, last.return_number)),
                   !.context = IF w.v4 THEN to ELSE 0], LAMBDA said :
    With(IF to = from THEN said ELSE p14_switch(said, to), LAMBDA v :
        p14_write_in(v, p14[to], item, changed))))

-----------------------------------------------------------------------------
(* RGB14 and RGBNIR14.  A colour is its six bytes, red's lower one first, and
   with infrared the two of that after them. *)

rgb14 == [context \in 0 .. 3 |->
    [byte_used |-> laz_symbol_model_setup(Of(context, "rgb_bytes_used"), 1, 128),
     rgb_diff |-> laz_symbol_model_setup(Of(context, "rgb_diff"), 6, BYTES)]]

rgbnir14 == [context \in 0 .. 3 |->
    rgb14[context] @@
    [nir_bytes_used |-> laz_symbol_model_setup(Of(context, "nir_bytes_used"), 1, 4),
     nir_diff |-> laz_symbol_model_setup(Of(context, "nir_diff"), 2, BYTES)]]

RGBNIR14_NAMES == [context \in 0 .. 3 |-> NamesIn(rgbnir14[context])]

\* The bytes in the order they are coded, the one of red that predicts each
\* and, for blue, the one of green.
RGB_ORDER == <<[at |-> 1, red |-> 0, green |-> 0], [at |-> 2, red |-> 0, green |-> 0],
               [at |-> 3, red |-> 1, green |-> 0], [at |-> 5, red |-> 1, green |-> 3],
               [at |-> 4, red |-> 2, green |-> 0], [at |-> 6, red |-> 2, green |-> 4]>>

\* The byte-used symbol, which is 0 where nothing moved.
rgb_used(item, last) ==
    (IF \A i \in 3 .. 6 : item[i] = item[2 - (i % 2)] THEN 0 ELSE 64)
    + Flags(<<6, 5, 4, 3, 2, 1>>, {i \in 1 .. 6 : item[i] # last[i]})

rgb_encode(c, m, item, last) ==
    LET sym == rgb_used(item, last)
        moved(i) == IF i = 0 THEN 0 ELSE item[i] - last[i]
        diff(b) == IF b.green = 0 THEN moved(b.red)
                   ELSE Quotient(moved(b.red) + moved(b.green), 2)
        Coded(e, b) ==
            IF item[b.at] = last[b.at] \/ (sym < 64 /\ b.red # 0) THEN e
            ELSE laz_encode_symbol(e, m.rgb_diff, b.at - 1,
                     U8_FOLD(item[b.at] - U8_CLAMP(diff(b) + last[b.at])))
    IN  FoldLeft(Coded, laz_encode_symbol(c, m.byte_used, 0, sym), RGB_ORDER)

nir_encode(c, m, item, last) ==
    LET Coded(e, i) == IF item[i] = last[i] THEN e
                       ELSE laz_encode_symbol(e, m.nir_diff, i - 7, U8_FOLD(item[i] - last[i]))
    IN  FoldLeft(Coded, laz_encode_symbol(c, m.nir_bytes_used, 0,
                                          Flags(<<8, 7>>, {i \in {7, 8} : item[i] # last[i]})),
                 <<7, 8>>)

rgbnir14_create_and_init(w, context, item) ==
    CreatedContext(w, context, RGBNIR14_NAMES[context], [last_item |-> item])

rgb14_write(w, item, context) ==
    LET f    == Followed(w, context, rgbnir14_create_and_init(w, context, Before(w)))
        last == f.s.contexts[f.at].last_item
    IN  [f.s EXCEPT !.layers.rgb = rgb_encode(@, rgb14[context], item, last),
                    !.changed = IF rgb_used(item, last) = 0 THEN @ ELSE @ \cup {"rgb"},
                    !.contexts[f.at].last_item = item]

rgbnir14_write(w, item, context) ==
    LET f    == Followed(w, context, rgbnir14_create_and_init(w, context, Before(w)))
        last == f.s.contexts[f.at].last_item
    IN  [f.s EXCEPT
            !.layers.rgb = rgb_encode(@, rgb14[context], item, last),
            !.layers.nir = nir_encode(@, rgbnir14[context], item, last),
            !.changed = @ \cup (IF rgb_used(item, last) = 0 THEN {} ELSE {"rgb"})
                          \cup (IF \A i \in {7, 8} : item[i] = last[i] THEN {} ELSE {"nir"}),
            !.contexts[f.at].last_item = item]

-----------------------------------------------------------------------------
(* WAVEPACKET14 *)

wave14 == [context \in 0 .. 3 |->
    [packet_index |-> laz_symbol_model_setup(Of(context, "packet_index"), 1, BYTES),
     diff |-> laz_symbol_model_setup(Of(context, "m_offset_diff"), 4, 4),
     offset_diff |-> ic_setup(Of(context, "offset_diff"), INT_BITS, 1),
     packet_size |-> ic_setup(Of(context, "packet_size"), INT_BITS, 1),
     return_point |-> ic_setup(Of(context, "return_point"), INT_BITS, 1),
     xyz |-> ic_setup(Of(context, "xyz"), INT_BITS, 3)]]

WAVE14_NAMES == [context \in 0 .. 3 |-> NamesIn(wave14[context])]

wave14_create_and_init(w, context, item) ==
    CreatedContext(w, context, WAVE14_NAMES[context],
                   [last_item |-> item, last_diff_32 |-> 0, sym_last_offset_diff |-> 0])

wave14_encode(c, m, cx, last, item, sym, diff64) ==
    LET index  == laz_encode_symbol(c, m.packet_index, 0, item.index)
        said   == laz_encode_symbol(index, m.diff, cx.sym_last_offset_diff, sym)
        offset == CASE sym = 2 -> laz_ic_compress(said, m.offset_diff, 0, cx.last_diff_32, diff64)
                    [] sym = 3 -> laz_write_int64(said, item.offset)
                    [] OTHER -> said
        size   == laz_ic_compress(offset, m.packet_size, 0,
                                  Signed(last.packet_size, INT_BITS),
                                  Signed(item.packet_size, INT_BITS))
        point  == laz_ic_compress(size, m.return_point, 0, last.return_point, item.return_point)
        x      == laz_ic_compress(point, m.xyz, 0, last.x, item.x)
        y      == laz_ic_compress(x, m.xyz, 1, last.y, item.y)
    IN  laz_ic_compress(y, m.xyz, 2, last.z, item.z)

wave14_write(w, item, context) ==
    With(Followed(w, context, wave14_create_and_init(w, context, Before(w))), LAMBDA f :
    LET last   == f.s.contexts[f.at].last_item
        diff64 == Signed(item.offset - last.offset, LONG_BITS)
        sym    == CASE ~Fits32(diff64) -> 3
                    [] diff64 = 0 -> 0
                    [] diff64 # 0 /\ diff64 = Signed(last.packet_size, INT_BITS) -> 1
                    [] OTHER -> 2
    IN  [f.s EXCEPT
            !.layers.wavepacket = wave14_encode(@, wave14[context], f.s.contexts[context],
                                                last, item, sym, diff64),
            !.changed = IF item = last THEN @ ELSE @ \cup {"wavepacket"},
            !.contexts[context].sym_last_offset_diff = sym,
            !.contexts[context].last_diff_32 = IF sym = 2 THEN diff64 ELSE @,
            !.contexts[f.at].last_item = item])

-----------------------------------------------------------------------------
(* BYTE14: a layer for each extra byte *)

BYTE_LAYERS == 1 .. NUMBER

byte14 == [context \in 0 .. 3 |->
    [bytes |-> laz_symbol_model_setup(Of(context, "bytes"), NUMBER, BYTES)]]

byte14_create_and_init(w, context, item) ==
    CreatedContext(w, context, NamesIn(byte14[context]), [last_item |-> item])

byte14_write(w, item, context) ==
    LET f    == Followed(w, context, byte14_create_and_init(w, context, Before(w)))
        last == f.s.contexts[f.at].last_item
    IN  [f.s EXCEPT
            !.layers = [i \in BYTE_LAYERS |->
                laz_encode_symbol(@[i], byte14[context].bytes, i - 1, U8_FOLD(item[i] - last[i]))],
            !.changed = @ \cup {i \in BYTE_LAYERS : item[i] # last[i]},
            !.contexts[f.at].last_item = item]

-----------------------------------------------------------------------------
\* The items after POINT14 and their layers; a new one, and one that is to start
\* a chunk in the context POINT14 says.
follower_new(v4, layers, memory) ==
    [v4 |-> v4, layers |-> [l \in layers |-> Coder(memory)], changed |-> {},
     contexts |-> <<>>, current_context |-> 0]

follower_init(w, context) ==
    [w EXCEPT !.layers = [l \in DOMAIN @ |-> [@[l] EXCEPT !.tape = <<>>]],
              !.changed = {}, !.contexts = <<>>, !.current_context = context]
=============================================================================
