----------------------------- MODULE MCManifest -----------------------------
(* Manifest for TLC: two changed lines in two files, and a locator that falls *)
(* on each, on both, and on neither.                                          *)
EXTENDS Manifest, TLC

MCLines    == {1, 2}
MCLocators == {"first", "second", "nowhere"}
MCResolves == [h \in MCLocators |-> CASE h = "first" -> {1} [] h = "second" -> {2}
                                      [] OTHER -> {}]
=============================================================================
