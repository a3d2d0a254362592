------------------------------ MODULE MCScrape ------------------------------
(* Instances of Scrape for TLC: the configurations give the constants.      *)
EXTENDS Scrape
=============================================================================
