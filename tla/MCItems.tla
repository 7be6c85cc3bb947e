------------------------------ MODULE MCItems ------------------------------
(***************************************************************************)
(* Items for TLC to code: of each kind a few that lie at the edges of what *)
(* its predictors tell apart.                                              *)
(***************************************************************************)
EXTENDS ItemTrip

\* Points by where they are, which return they are of how many (bit_byte: one
\* of one, two of three, one of three with the scan's direction set) and the
\* fields that are only said when they change.
P10(x, y, z, intensity, bit_byte, class, rank, user, source) ==
    [x |-> x, y |-> y, z |-> z, intensity |-> intensity, bit_byte |-> bit_byte,
     classification |-> class, scan_angle_rank |-> rank, user_data |-> user,
     point_source_ID |-> source]

LEAST == -(2^(INT_BITS - 1))
MOST  == 2^(INT_BITS - 1) - 1

Points ==
    {P10(0, 0, 0, 0, 9, 2, 0, 0, 0),
     P10(1, -1, 5, 7, 9, 2, 0, 0, 0),
     P10(100, -300, LEAST, 1023, 26, 2, 255, 0, 0),
     P10(MOST, LEAST, MOST, 7, 89, 7, 128, 255, 1023),
     P10(-40, 513, -1, 0, 26, 0, 1, 3, 1)}

\* Times a multiple apart, further than multiples go either way, and too far for
\* a difference of 32 bits, one of those near to another.
Times == {0, 1, 2000, 100000, 100004}

Bytes    == {<<0, 0>>, <<1, 255>>, <<255, 128>>, <<128, 1>>}

Colours == {<<0, 0, 0, 0, 0, 0>>, <<7, 1, 7, 1, 7, 1>>, <<255, 0, 0, 255, 9, 255>>,
            <<255, 255, 254, 3, 0, 128>>, <<3, 255, 250, 255, 128, 0>>}

\* Packets that follow one another, lie near and lie far; the sizes are positive
\* taken for an I32.
Packet(index, offset, size, point, x, y, z) ==
    [index |-> index, offset |-> offset, packet_size |-> size, return_point |-> point,
     x |-> x, y |-> y, z |-> z]
Packets ==
    {Packet(0, 60, 40, 0, 0, 0, 0), Packet(1, 100, 40, LEAST, 5, -5, MOST),
     Packet(255, 140, 0, MOST, LEAST, 1, 1), Packet(0, 2^LONG_BITS - 1, MOST, 7, 1, 1, 1),
     Packet(1, 101, 7, 0, 0, 0, -1)}

\* LAS 1.4 points, by their channel, return and class; the older copies of a
\* field say what the field does.
P14(channel, ret, n, x, y, z, class, flags, turn, angle, user, source, intensity, time) ==
    raw_read_point14(
        [X |-> x, Y |-> y, Z |-> z, intensity |-> intensity, return_number |-> ret,
         number_of_returns |-> n, classification_flags |-> flags, scanner_channel |-> channel,
         scan_direction_flag |-> turn, edge_of_flight_line |-> turn, classification |-> class,
         user_data |-> user, scan_angle |-> angle, point_source_ID |-> source,
         gps_time |-> time])

\* A point and what follows it: where nothing moves but the place, where another
\* channel begins and is come back to, where returns skip.
Point14(point, rgb, nir, packet, extra) ==
    [point14 |-> point, byte14 |-> extra, rgb14 |-> rgb, rgbnir14 |-> rgb \o nir,
     wave14 |-> packet]

Points14 ==
    {Point14(P14(0, 1, 1, 0, 0, 0, 2, 0, 0, 0, 0, 0, 7, 0),
             <<0, 0, 0, 0, 0, 0>>, <<0, 0>>, Packet(0, 60, 40, 0, 0, 0, 0), <<0, 0>>),
     Point14(P14(0, 1, 1, 100, -300, 5, 2, 0, 0, 0, 0, 0, 7, 0),
             <<0, 0, 0, 0, 0, 0>>, <<0, 0>>, Packet(0, 60, 40, 0, 0, 0, 0), <<0, 3>>),
     Point14(P14(1, 2, 3, 1, LEAST, -4, 40, 13, 1, -500, 255, 1, 1023, 2000),
             <<7, 1, 7, 1, 7, 1>>, <<1, 255>>, Packet(1, 100, 40, LEAST, 5, -5, 3), <<255, 0>>),
     Point14(P14(1, 9, 12, MOST, 2, MOST, 5, 0, 0, 500, 3, 900, 0, 100000),
             <<255, 0, 3, 255, 9, 0>>, <<128, 0>>,
             Packet(255, 2^LONG_BITS - 1, 7, MOST, 1, 1, 1), <<128, 255>>),
     Point14(P14(3, 14, 15, -1, 0, 9, 5, 5, 1, 500, 3, 900, 0, 100004),
             <<255, 255, 254, 3, 0, 128>>, <<128, 1>>,
             Packet(255, 140, 0, 7, LEAST, 1, 1), <<1, 255>>)}

\* Points whose times alone are of interest.
Timed == {Point14(P14(0, 1, 1, 0, 0, 0, 2, 0, 0, 0, 0, 0, 7, t),
                  <<0, 0, 0, 0, 0, 0>>, <<0, 0>>, Packet(0, 60, 40, 0, 0, 0, 0), <<0, 0>>)
             : t \in {0, 1, 2000}}

\* Of points those items that a kind of them has.
For(k, items) == {[i \in DOMAIN LayersOf(k) |-> item[i]] : item \in items}

\* Points built by hand, with their class and flags in the older fields alone.
ByHand(item, class, flags) ==
    [item EXCEPT !.point14.legacy_classification = class, !.point14.classification = 0,
                 !.point14.legacy_flags = flags, !.point14.classification_flags = 0]
HandMade ==
    [k \in {"6v3"} |->
        For(k, {ByHand(item, class, flags) : item \in Timed, class \in {0, 2, 5},
                                             flags \in {0, 2}})]

PointwiseKinds == {"p10v1", "gps11v1", "rgb12v1", "bytev1", "wp13v1",
                   "p10v2", "gps11v2", "rgb12v2", "bytev2"}
AllKinds == PointwiseKinds \cup Layered

ItemsOf ==
    [k \in AllKinds |->
        CASE k \in {"p10v1", "p10v2"}     -> Points
          [] k \in {"gps11v1", "gps11v2"} -> Times
          [] k \in {"rgb12v1", "rgb12v2"} -> Colours
          [] k \in {"bytev1", "bytev2"}   -> Bytes
          [] k = "wp13v1"                 -> Packets
          [] k \in {"6v3", "6v4"}         -> For(k, Timed)
          [] OTHER                        -> For(k, Points14)]

\* How many: the times' predictors give way to the fourth extreme in a row.
MostOf ==
    [k \in AllKinds |-> CASE k \in {"gps11v1", "gps11v2", "6v3"} -> 7
                            [] k \in {"7v3", "10v4"} -> 3 [] OTHER -> 4]

Scarce == [k \in AllKinds |-> IF k \in {"p10v1", "p10v2", "7v3"} THEN {1, Plenty} ELSE {Plenty}]

\* Nothing to choose where items are coded by themselves.  Of layers, all are
\* asked for or none or all but one of POINT14's; those that have bytes are all,
\* or none that may be without.
Some(k, in14, others) ==
    [i \in DOMAIN LayersOf(k) |->
        IF i = "point14" THEN in14 ELSE IF others THEN LayersOf(k)[i] ELSE {}]
Still == {"channel_returns_XY", "Z"}
SelectionsOf ==
    LET all   == [k \in Layered |-> Some(k, P14_LAYERS, TRUE)]
        moved == [k \in Layered |-> Some(k, Still, FALSE)]
        Selection(k, requested) == [requested |-> requested, carried |-> all[k]]
    IN  [k \in AllKinds |->
            CASE k \in PointwiseKinds -> {[requested |-> <<>>, carried |-> <<>>]}
              [] k \in {"6v3", "6v4"} -> {Selection(k, all[k])}
              [] k \in {"7v3", "10v3"} -> {Selection(k, all[k]), Selection(k, Some(k, {}, FALSE))}
              [] OTHER ->
                   {[requested |-> all[k], carried |-> moved[k]],
                    Selection(k, all[k]),
                    Selection(k, Some(k, {"gps_time", "flags"}, TRUE)),
                    Selection(k, Some(k, P14_LAYERS \ {"gps_time", "flags"}, FALSE))}]
=============================================================================
