--------------------------------- MODULE MCMap ---------------------------------
(* Instances of MapSystem. *)
EXTENDS MapSystem

MCStrata == <<1, 1, 2>>

\* Two keys below one child of the top and one below the other.
MCHammerKeys == <<<<0, 0, 0, 1>>, <<0, 1, 1, 0>>, <<1, 0, 0, 0>> >>

MCMalformed == <<0, 1>>

MCNonexistentKey == <<0, 0, 0, 0>>

Entry0(known, domains) == [known |-> known, domains |-> domains]

\* Entry 0, which the mapper skips, a precertificate and two certificates, one with two domains.
MCEntries == <<Entry0(TRUE, {"a"}), Entry0(TRUE, {"a"}), Entry0(FALSE, {"b"}), Entry0(TRUE, {"a", "b"})>>

MCHashDomain == [d \in {"", "a", "b"} |->
    CASE d = "" -> <<0, 0, 1, 1>> [] d = "a" -> <<0, 0, 1, 0>> [] d = "b" -> <<1, 0, 1, 0>>]

RaceLeaf(index, value) == [index |-> index, value |-> value, extra |-> Nil]

\* Batches below different children, and one that changes nothing.
MCRaceBatches == {<<RaceLeaf(<<0, 0, 0, 0>>, <<1>>)>>, <<RaceLeaf(<<1, 0, 0, 1>>, <<2>>)>>, << >>}
================================================================================
