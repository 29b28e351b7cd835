-------------------------------- MODULE Web --------------------------------
(***************************************************************************)
(* The pages the crawlers of src/lecutures/crawler.go fetch: a Fetcher      *)
(* returns the URLs on a page, or an error, and the same ones every time.   *)
(***************************************************************************)
CONSTANTS
  URLs,         \* the URLs
  Start,        \* the URL the crawl begins with
  Missing       \* Fetch returns an error

VARIABLE web    \* what Fetch returns for each URL

Webs == [URLs -> {Missing} \cup SUBSET URLs]

\* The URLs a crawler goes on with after Fetch(u): none after an error.
Found(u) == IF web[u] = Missing THEN {} ELSE web[u]

\* A set of URLs with Start and with every URL on a page of one of its URLs.
Closed(S) == Start \in S /\ \A u \in S : Found(u) \subseteq S

\* What a crawl is meant to fetch: the least such set.
IsReachable(S) == Closed(S) /\ \A T \in SUBSET URLs : Closed(T) => S \subseteq T
=============================================================================
