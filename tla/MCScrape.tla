------------------------------ MODULE MCScrape ------------------------------
(* Two scrapes in flight, two collectors, one configured device.           *)
EXTENDS Scrape, TLC

MCCallers == Requests \X Names
ScrapeSymmetry == Permutations(Requests) \cup Permutations(Enabled)
=============================================================================
