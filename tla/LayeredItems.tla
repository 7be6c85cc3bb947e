---------------------------- MODULE LayeredItems ----------------------------
(***************************************************************************)
(* What the writers and the readers of LAS 1.4 items share: points are     *)
(* coded field by field into layers, each with a coder of its own, and     *)
(* predicted per scanner channel, the context.                             *)
(*                                                                         *)
(* An item's state has `layers` (of each name its coder), `contexts` (of   *)
(* each channel the chunk has met its predictors) and `current_context`.   *)
(* A context that is not in the domain is what the code marks unused.      *)
(***************************************************************************)
EXTENDS ItemCoding

P14_LAYERS == {"channel_returns_XY", "Z", "classification", "flags", "intensity",
               "scan_angle", "user_data", "point_source", "gps_time"}

\* A model of a context, and the models a context has in a table of them.
Of(context, name) == ToString(context) \o name
NamesIn(models) == {models[m].name : m \in DOMAIN models}

\* A context starts with what its items are predicted from and new models.
CreatedContext(s, context, names, predictors) ==
    [s EXCEPT !.layers = [l \in DOMAIN @ |-> Reinitialised(@[l], names)],
              !.contexts = (context :> predictors) @@ @]

\* The items after POINT14 follow it into a context, as `created` has it if it
\* is new; at is the one whose last item they predict from.  Version 3 stays with
\* the last item of the context it leaves, unless the one it enters is new.
Followed(s, context, created) ==
    LET unused == context \notin DOMAIN s.contexts
        moved  == IF unused THEN created ELSE s
    IN  [s  |-> [moved EXCEPT !.current_context = context],
         at |-> IF s.v4 \/ unused THEN context ELSE s.current_context]
Before(s) == s.contexts[s.current_context].last_item

-----------------------------------------------------------------------------
(* Predictors. *)

\* Which of 6 and of 8 predictors a return has: by n, the number of returns of
\* its pulse, and r, which of them it is.  Defined in laz_readitem_v3.c.
NUMBER_RETURN_MAP_6CTX ==
    <<<<0, 1, 2, 3, 4, 5, 3, 4, 4, 5, 5, 5, 5, 5, 5, 5>>,
      <<1, 0, 1, 3, 3, 3, 3, 3, 3, 3, 3, 3, 3, 3, 3, 3>>,
      <<2, 1, 2, 4, 4, 4, 4, 4, 4, 4, 4, 3, 3, 3, 3, 3>>,
      <<3, 3, 4, 5, 4, 4, 4, 4, 4, 4, 4, 4, 4, 4, 4, 4>>,
      <<4, 3, 4, 4, 5, 4, 4, 4, 4, 4, 4, 4, 4, 4, 4, 4>>,
      <<5, 3, 4, 4, 4, 5, 4, 4, 4, 4, 4, 4, 4, 4, 4, 4>>,
      <<3, 3, 4, 4, 4, 4, 5, 4, 4, 4, 4, 4, 4, 4, 4, 4>>,
      <<4, 3, 4, 4, 4, 4, 4, 5, 4, 4, 4, 4, 4, 4, 4, 4>>,
      <<4, 3, 4, 4, 4, 4, 4, 4, 5, 4, 4, 4, 4, 4, 4, 4>>,
      <<5, 3, 4, 4, 4, 4, 4, 4, 4, 5, 4, 4, 4, 4, 4, 4>>,
      <<5, 3, 4, 4, 4, 4, 4, 4, 4, 4, 5, 4, 4, 4, 4, 4>>,
      <<5, 3, 3, 4, 4, 4, 4, 4, 4, 4, 4, 5, 5, 4, 4, 4>>,
      <<5, 3, 3, 4, 4, 4, 4, 4, 4, 4, 4, 5, 5, 5, 4, 4>>,
      <<5, 3, 3, 4, 4, 4, 4, 4, 4, 4, 4, 4, 5, 5, 5, 4>>,
      <<5, 3, 3, 4, 4, 4, 4, 4, 4, 4, 4, 4, 4, 5, 5, 5>>,
      <<5, 3, 3, 4, 4, 4, 4, 4, 4, 4, 4, 4, 4, 4, 5, 5>>>>
laz_number_return_map_6ctx(n, r) == NUMBER_RETURN_MAP_6CTX[n + 1][r + 1]
laz_number_return_level_8ctx(n, r) ==
    LET d == IF n < r THEN r - n ELSE n - r IN IF d < 7 THEN d ELSE 7

\* What the last return says of the next: whether it was the first, the last,
\* and whether the time changed with it.
LastReturn(item) == Bit(item.return_number = 1)
                    + 2 * Bit(item.return_number >= item.number_of_returns)
                    + 4 * Bit(item.gps_time_change)
ThisReturn(n, r) == 2 * Bit(r = 1) + Bit(r >= n)

AllFlags(item) == 32 * item.edge_of_flight_line + 16 * item.scan_direction_flag
                  + item.classification_flags

\* The predictors of a context, from the item it starts with.
Point14Context(item) ==
    [last_item |-> [item EXCEPT !.gps_time_change = FALSE],
     last_intensity |-> [i \in 0 .. 7 |-> item.intensity],
     last_X_diff_median5 |-> [i \in 0 .. 11 |-> laz_median5_init],
     last_Y_diff_median5 |-> [i \in 0 .. 11 |-> laz_median5_init],
     last_Z |-> [i \in 0 .. 7 |-> item.Z],
     times |-> [last |-> 0, next |-> 0,
                last_gpstime |-> [i \in 0 .. 3 |-> IF i = 0 THEN item.gps_time ELSE 0],
                last_gpstime_diff |-> [i \in 0 .. 3 |-> 0],
                multi_extreme_counter |-> [i \in 0 .. 3 |-> 0]]]

-----------------------------------------------------------------------------
(* The point's record, and the copies of its fields that older formats had *)

\* Three bits for what has four, and five for what has eight: saturated.
LegacyReturns(n, r) ==
    IF n > 7 THEN [n |-> 7, r |-> IF r <= 6 THEN r ELSE IF r >= n THEN 7 ELSE 6]
    ELSE [n |-> n, r |-> r % 8]
LegacyClassification(class) == IF class < 32 THEN class ELSE 0
LegacyFlags(flags) == flags % 8

\* Degrees, of a scan angle in steps of 0.006 of them, clamped to an I8.
LegacyRank(angle) ==
    LET rank == Quantized(6 * angle, 1000)
    IN  IF rank < -(2^(BYTE_BITS - 1)) THEN -(2^(BYTE_BITS - 1))
        ELSE IF rank > 2^(BYTE_BITS - 1) - 1 THEN 2^(BYTE_BITS - 1) - 1 ELSE rank

\* A point of LAS 1.4 goes into its record with the flags it has in both forms
\* in the older one, and with the class of the older one unless that is 0.
raw_write_point14(p) ==
    [X |-> p.X, Y |-> p.Y, Z |-> p.Z, intensity |-> p.intensity,
     return_number |-> p.return_number, number_of_returns |-> p.number_of_returns,
     classification_flags |-> p.legacy_flags + 8 * (p.classification_flags \div 8),
     scanner_channel |-> p.scanner_channel,
     scan_direction_flag |-> p.scan_direction_flag,
     edge_of_flight_line |-> p.edge_of_flight_line,
     classification |-> IF p.legacy_classification = 0 THEN p.classification
                        ELSE p.legacy_classification,
     user_data |-> p.user_data, scan_angle |-> p.scan_angle,
     point_source_ID |-> p.point_source_ID, gps_time |-> p.gps_time]

raw_read_point14(b) ==
    LET legacy == LegacyReturns(b.number_of_returns, b.return_number)
    IN  b @@ [legacy_return_number |-> legacy.r, legacy_number_of_returns |-> legacy.n,
              legacy_classification |-> LegacyClassification(b.classification),
              legacy_flags |-> LegacyFlags(b.classification_flags),
              scan_angle_rank |-> LegacyRank(b.scan_angle), gps_time_change |-> FALSE]
=============================================================================
