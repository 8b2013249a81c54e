----------------------------- MODULE MCCrawler -----------------------------
(***************************************************************************)
(* Every directory tree of four entries, one of them with a leading dot,   *)
(* and filters that match everything, something and nothing.               *)
(***************************************************************************)
EXTENDS Crawler

MCNames    == 1 .. 4
MCDotted   == {1}
MCContents == {{}, {"script"}, {"script", "other"}, {"script directory", "dotted"}}
MCFilters  == {MCNames, {1, 3}, {}}
=============================================================================
