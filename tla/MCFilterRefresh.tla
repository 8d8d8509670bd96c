-------------------------- MODULE MCFilterRefresh --------------------------
(***************************************************************************)
(* The trees of four filters that differ in what can be passed over and    *)
(* collected, and one of five filters in which a refresh goes up two       *)
(* levels at once; below data sources that are, or are not, monitored,     *)
(* filters that block the ions, add a type or block everything.            *)
(***************************************************************************)
EXTENDS FilterRefresh

MCShapes    == {<<{}, {1}, {1, 2}, {1, 2, 3}>>, <<{}, {1}, {1, 2}, {1, 2}>>, <<{}, {1}, {1, 2}, {1}>>,
                <<{}, {1}, {}, {3}>>, <<{}, {1}, {1, 2}, {1, 2, 3}, {1}>>}
MCMaxFile   == 1
MCKinds     == {"clip", "range", "spectrum"}
MCBaseKinds == {"load", "watched"}
=============================================================================
