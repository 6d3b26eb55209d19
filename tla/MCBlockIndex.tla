---------------------------- MODULE MCBlockIndex ---------------------------
(***************************************************************************)
(* Databases for TLC: every choice of a status for the blocks of a small   *)
(* block tree with the branches g - b1 - b2 and g - c1 - c2; the height of *)
(* b2 may be wrong.                                                        *)
(***************************************************************************)
EXTENDS BlockIndex

CONSTANTS g, b1, b2, c1, c2, zero, meta

\* Every block has its own place in the file.
Place(hash) == CASE hash = g -> 8 [] hash = b1 -> 20 [] hash = b2 -> 30
                 [] hash = c1 -> 40 [] OTHER -> 50

Entry(hash, prev, height, status) ==
  [key |-> "b", decodes |-> TRUE,
   value |-> [hash |-> hash, prev |-> prev, height |-> height, status |-> status,
              n_tx |-> IF Validity(status) >= 3 THEN 1 ELSE 0,
              n_file |-> 0, n_data_pos |-> Place(hash), n_undo_pos |-> 8]]

\* Header only; downloaded and not connected; valid; valid and pruned.
Statuses == {2, 8 + 3, 8 + 16 + 5, 16 + 5}

Other == [Entry(meta, zero, 0, 2) EXCEPT !.key = "l"]
Garbled == [Entry(c2, c1, 2, 8 + 5) EXCEPT !.decodes = FALSE]

Trees ==
  {{Other, Entry(g, zero, 0, 29), Entry(b1, g, 1, s1), Entry(b2, b1, h2, 29),
    Entry(c1, g, 1, s3), Entry(c2, c1, 2, s4)} :
     s1 \in Statuses, h2 \in {2, 3}, s3 \in {2, 29}, s4 \in Statuses}

MCDatabases ==
  Trees \cup {{}, {Other}, {Other, Entry(g, zero, 0, 29), Garbled},
              {Entry(g, zero, 0, 2)},
              {Entry(g, zero, 0, 16 + 5), Entry(b1, g, 1, 16 + 5), Entry(b2, b1, 2, 29)}}
=============================================================================
