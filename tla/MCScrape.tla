------------------------------ MODULE MCScrape ------------------------------
(* Small instances of Scrape for TLC.                                      *)
EXTENDS Scrape, TLC
=============================================================================
